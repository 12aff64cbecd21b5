------------------------------ MODULE Firewall ------------------------------
(***************************************************************************)
(* The router of one node (internal/router/bpf.go and wireguard.go): the   *)
(* XDP maps the kernel consults for each packet, the WireGuard peers, and  *)
(* the two Go maps that remember which addresses belong to whom.           *)
(*                                                                         *)
(* Every exported operation runs under the package's one lock, so each is  *)
(* one action; the kernel reads the maps between two of them.  Who calls   *)
(* what, and in which order, is left open here: FirewallSync adds the      *)
(* handlers that call these operations.                                    *)
(*                                                                         *)
(* Data abstraction: sessionExpiry and lastPacketTime are kept as one      *)
(* session state, the contents of a user's policy map as the access list   *)
(* it was filled from.  A peer's endpoint, keepalive and preshared key are *)
(* left out, system calls succeed, and userPolicyMaps, which has exactly   *)
(* the keys of PoliciesTable, is not kept a second time.                   *)
(***************************************************************************)
EXTENDS Records, FiniteSets

CONSTANTS
  Acls,        \* effective access lists
  NoAddress    \* the allowed address of a peer whose address another took

ASSUME FirewallSentinels ==
  /\ NoAddress \notin Addresses
  /\ Absent \notin Addresses \cup Users \cup Keys \cup Acls \cup BOOLEAN
  /\ Absent \notin [Addresses -> Keys \cup {Absent}]

VARIABLES
  xdpDevices,        \* xdpObjects.Devices: address -> fwentry
  accountLocked,     \* xdpObjects.AccountLocked: user -> locked
  policies,          \* xdpObjects.PoliciesTable: user -> access list
  peers,             \* WireGuard peers: key -> allowed address
  usersToAddresses,  \* user -> address -> key, Absent for a nil map
  addressesToUsers   \* address -> user

firewall == <<xdpDevices, accountLocked, policies, peers,
              usersToAddresses, addressesToUsers>>

\* "none": expired or never authorised; "idle": within its lifetime but
\* without traffic for the inactivity timeout; "live": usable.
SessionStates == {"none", "idle", "live"}

FwEntry == [user: Users, session: SessionStates, node: Nodes \cup {NoNode}]

ASSUME EntryAssumption == Absent \notin FwEntry

\* A device address is in the map with owner u.
Known(a) == xdpDevices[a] # Absent

Tracked(u) ==
  IF usersToAddresses[u] = Absent THEN {}
  ELSE {a \in Addresses : usersToAddresses[u][a] # Absent}

IsAuthed(a) ==
  /\ Known(a)
  /\ accountLocked[xdpDevices[a].user] = FALSE
  /\ xdpDevices[a].session = "live"

\* The addresses in S that are in the map lose their session.
Deauthenticated(S) ==
  [a \in Addresses |->
     IF a \in S /\ Known(a) THEN [xdpDevices[a] EXCEPT !.session = "none"]
     ELSE xdpDevices[a]]

NoAddresses == [a \in Addresses |-> Absent]

\* Mistake: the address is kept where the key belongs.
TrackingAddress(u, a, k) ==
  [usersToAddresses EXCEPT
     ![u] = [IF @ = Absent THEN NoAddresses ELSE @ EXCEPT ![a] = a]]

\* The map of user u after address a was entered with key k.
Tracking(u, a, k) ==
  [usersToAddresses EXCEPT
     ![u] = [IF @ = Absent THEN NoAddresses ELSE @ EXCEPT ![a] = k]]

\* Configuring a peer takes its allowed address from whoever had it.
WithPeer(ps, k, a) ==
  [j \in Keys |-> IF j = k THEN a ELSE IF ps[j] = a THEN NoAddress ELSE ps[j]]

-----------------------------------------------------------------------------
(***************************************************************************)
(* Starting: setupWireguard and setupXDP fill everything from the users us *)
(* and the devices ds read from etcd, with the access lists of acl.        *)
(***************************************************************************)

\* A device whose user is missing makes setupXDP fail, and wag exits.
CanSetup(us, ds) == \A a \in Addresses : ds[a] # Absent => us[ds[a].owner] # Absent

\* Mistake: the Go map is left for the first AddPeer to make.
SetupWireguardUntracked(ds) ==
  LET at(k) == {a \in Addresses : ds[a] # Absent /\ ds[a].key = k} IN
  [peers |->
     [k \in Keys |-> IF at(k) = {} THEN Absent ELSE CHOOSE a \in at(k) : TRUE],
   usersToAddresses |-> [u \in Users |-> Absent],
   addressesToUsers |->
     [a \in Addresses |-> IF ds[a] = Absent THEN Absent ELSE ds[a].owner]]

SetupWireguard(ds) ==
  LET owned(u) == {a \in Addresses : ds[a] # Absent /\ ds[a].owner = u}
      at(k) == {a \in Addresses : ds[a] # Absent /\ ds[a].key = k} IN
  [peers |->
     [k \in Keys |-> IF at(k) = {} THEN Absent ELSE CHOOSE a \in at(k) : TRUE],
   usersToAddresses |->
     [u \in Users |->
        IF owned(u) = {} THEN Absent
        ELSE [a \in Addresses |-> IF a \in owned(u) THEN ds[a].key ELSE Absent]],
   addressesToUsers |->
     [a \in Addresses |-> IF ds[a] = Absent THEN Absent ELSE ds[a].owner]]

\* Mistake: accounts start unlocked.
SetupXDPUnlocked(us, ds, acl) ==
  [accountLocked |-> [u \in Users |-> IF us[u] = Absent THEN Absent ELSE FALSE],
   policies |-> [u \in Users |-> IF us[u] = Absent THEN Absent ELSE acl[u]],
   xdpDevices |->
     [a \in Addresses |->
        IF ds[a] = Absent THEN Absent
        ELSE [user |-> ds[a].owner, session |-> "none", node |-> ds[a].node]]]

SetupXDP(us, ds, acl) ==
  [accountLocked |-> [u \in Users |-> IF us[u] = Absent THEN Absent ELSE us[u].locked],
   policies |-> [u \in Users |-> IF us[u] = Absent THEN Absent ELSE acl[u]],
   xdpDevices |->
     [a \in Addresses |->
        IF ds[a] = Absent THEN Absent
        ELSE [user |-> ds[a].owner, session |-> "none", node |-> ds[a].node]]]

Setup(us, ds, acl) ==
  LET wg == SetupWireguard(ds)
      xdp == SetupXDP(us, ds, acl) IN
  /\ CanSetup(us, ds)
  /\ peers' = wg.peers
  /\ usersToAddresses' = wg.usersToAddresses
  /\ addressesToUsers' = wg.addressesToUsers
  /\ accountLocked' = xdp.accountLocked
  /\ policies' = xdp.policies
  /\ xdpDevices' = xdp.xdpDevices

\* The state Setup leaves behind.
SetUp(us, ds, acl) ==
  LET wg == SetupWireguard(ds)
      xdp == SetupXDP(us, ds, acl) IN
  /\ peers = wg.peers
  /\ usersToAddresses = wg.usersToAddresses
  /\ addressesToUsers = wg.addressesToUsers
  /\ accountLocked = xdp.accountLocked
  /\ policies = xdp.policies
  /\ xdpDevices = xdp.xdpDevices

NoUsers == [u \in Users |-> Absent]

\* A node that has just started, in a cluster without users.
Empty == SetUp(NoUsers, NoAddresses, NoUsers)

-----------------------------------------------------------------------------
(***************************************************************************)
(* Peers.                                                                  *)
(***************************************************************************)

\* Mistake: the user is not looked up.
CanAddPeerAnyUser(u, a) == ~Known(a)

CanAddPeer(u, a) == ~Known(a) /\ accountLocked[u] # Absent

\* Fails, changing nothing, when the address is taken or the user unknown.
AddPeer(k, u, a, node) ==
  IF ~CanAddPeer(u, a) THEN UNCHANGED firewall
  ELSE /\ xdpDevices' = [xdpDevices EXCEPT
                           ![a] = [user |-> u, session |-> "none", node |-> node]]
       /\ peers' = WithPeer(peers, k, a)
       /\ usersToAddresses' = Tracking(u, a, k)
       /\ addressesToUsers' = [addressesToUsers EXCEPT ![a] = u]
       /\ UNCHANGED <<accountLocked, policies>>

\* Mistake: only WireGuard forgets the device.
RemovePeerFromWireguard(k, a) ==
  /\ peers' = [peers EXCEPT ![k] = Absent]
  /\ UNCHANGED <<xdpDevices, accountLocked, policies, usersToAddresses, addressesToUsers>>

\* The address stays in addressesToUsers.
RemovePeer(k, a) ==
  LET u == addressesToUsers[a] IN
  /\ peers' = [peers EXCEPT ![k] = Absent]
  /\ xdpDevices' = [xdpDevices EXCEPT ![a] = Absent]
  /\ usersToAddresses' =
       IF u = Absent \/ usersToAddresses[u] = Absent THEN usersToAddresses
       ELSE [usersToAddresses EXCEPT ![u][a] = Absent]
  /\ UNCHANGED <<accountLocked, policies, addressesToUsers>>

\* Writing to the nil map of a user who never had a device is a panic.
ReplacePanics(u) == usersToAddresses[u] = Absent

\* Mistake: the new key is not recorded.
ReplacePeerUntracked(u, a, old, new) ==
  /\ ~ReplacePanics(u)
  /\ peers' = WithPeer([peers EXCEPT ![old] = Absent], new, a)
  /\ UNCHANGED <<xdpDevices, accountLocked, policies, usersToAddresses, addressesToUsers>>

\* Neither looks at the map nor adds to it.
ReplacePeer(u, a, old, new) ==
  /\ ~ReplacePanics(u)
  /\ peers' = WithPeer([peers EXCEPT ![old] = Absent], new, a)
  /\ usersToAddresses' = Tracking(u, a, new)
  /\ UNCHANGED <<xdpDevices, accountLocked, policies, addressesToUsers>>

-----------------------------------------------------------------------------
(***************************************************************************)
(* Users and their access lists.                                           *)
(***************************************************************************)

\* Mistake: a user who is there already is added again.
AddUserAgain(u, acl) ==
  /\ accountLocked' = [accountLocked EXCEPT ![u] = FALSE]
  /\ policies' = [policies EXCEPT ![u] = acl]
  /\ usersToAddresses' = [usersToAddresses EXCEPT ![u] = NoAddresses]
  /\ UNCHANGED <<xdpDevices, peers, addressesToUsers>>

AddUser(u, acl) ==
  IF accountLocked[u] # Absent THEN UNCHANGED firewall
  ELSE /\ accountLocked' = [accountLocked EXCEPT ![u] = FALSE]
       /\ policies' = [policies EXCEPT ![u] = acl]
       /\ usersToAddresses' = [usersToAddresses EXCEPT ![u] = NoAddresses]
       /\ UNCHANGED <<xdpDevices, peers, addressesToUsers>>

\* Removes the peers it knows of, each the way RemovePeer does.
RemoveUser(u) ==
  LET gone == Tracked(u)
      keys == {usersToAddresses[u][a] : a \in gone} IN
  IF accountLocked[u] = Absent THEN UNCHANGED firewall
  ELSE /\ accountLocked' = [accountLocked EXCEPT ![u] = Absent]
       /\ policies' = [policies EXCEPT ![u] = Absent]
       /\ peers' = [k \in Keys |-> IF k \in keys THEN Absent ELSE peers[k]]
       /\ xdpDevices' = [a \in Addresses |-> IF a \in gone THEN Absent ELSE xdpDevices[a]]
       /\ usersToAddresses' =
            [x \in Users |->
               IF usersToAddresses[x] = Absent THEN Absent
               ELSE [a \in Addresses |->
                       IF a \in gone /\ addressesToUsers[a] = x THEN Absent
                       ELSE usersToAddresses[x][a]]]
       /\ UNCHANGED addressesToUsers

RefreshUserAcls(u, acl) ==
  /\ policies' = [policies EXCEPT ![u] = acl]
  /\ UNCHANGED <<xdpDevices, accountLocked, peers, usersToAddresses, addressesToUsers>>

\* Rewrites lock state and access list of every user us names.  Setting the
\* inactivity timeout again may bring back the idle sessions in S.
RefreshConfiguration(us, acl, S) ==
  /\ accountLocked' =
       [u \in Users |-> IF us[u] = Absent THEN accountLocked[u] ELSE us[u].locked]
  /\ policies' = [u \in Users |-> IF us[u] = Absent THEN policies[u] ELSE acl[u]]
  /\ xdpDevices' =
       [a \in Addresses |->
          IF a \in S THEN [xdpDevices[a] EXCEPT !.session = "live"] ELSE xdpDevices[a]]
  /\ UNCHANGED <<peers, usersToAddresses, addressesToUsers>>

\* Mistake: sessions are ended only when the account is locked.
SetLockAccountKeeping(u, locked) ==
  /\ xdpDevices' = IF locked THEN Deauthenticated(Tracked(u)) ELSE xdpDevices
  /\ accountLocked' = [accountLocked EXCEPT ![u] = locked]
  /\ UNCHANGED <<policies, peers, usersToAddresses, addressesToUsers>>

\* Ends the sessions of the user, whether it locks or unlocks the account.
SetLockAccount(u, locked) ==
  /\ xdpDevices' = Deauthenticated(Tracked(u))
  /\ accountLocked' = [accountLocked EXCEPT ![u] = locked]
  /\ UNCHANGED <<policies, peers, usersToAddresses, addressesToUsers>>

-----------------------------------------------------------------------------
(***************************************************************************)
(* Sessions.                                                               *)
(***************************************************************************)

\* Writes the whole entry, the user included; fails if there is none.
SetAuthorized(a, u, node) ==
  /\ xdpDevices' =
       IF Known(a)
       THEN [xdpDevices EXCEPT ![a] = [user |-> u, session |-> "live", node |-> node]]
       ELSE xdpDevices
  /\ UNCHANGED <<accountLocked, policies, peers, usersToAddresses, addressesToUsers>>

UpdateNodeAssociation(a, node) ==
  /\ xdpDevices' = IF Known(a) THEN [xdpDevices EXCEPT ![a].node = node] ELSE xdpDevices
  /\ UNCHANGED <<accountLocked, policies, peers, usersToAddresses, addressesToUsers>>

Deauthenticate(a) ==
  /\ xdpDevices' = Deauthenticated({a})
  /\ UNCHANGED <<accountLocked, policies, peers, usersToAddresses, addressesToUsers>>

\* Stops at the first address without an entry; a Go map has no order, so
\* any of the others may have been done by then.
DeauthenticateAllDevices(u) ==
  /\ \E S \in SUBSET Tracked(u) :
       /\ (\A a \in Tracked(u) : Known(a)) => S = Tracked(u)
       /\ xdpDevices' = Deauthenticated(S)
  /\ UNCHANGED <<accountLocked, policies, peers, usersToAddresses, addressesToUsers>>

Idle(S) == {a \in S : Known(a) /\ xdpDevices[a].session = "idle"}

\* A longer timeout brings sessions back that were idle under the old one.
SetInactivityTimeout(S) ==
  /\ xdpDevices' =
       [a \in Addresses |->
          IF a \in S THEN [xdpDevices[a] EXCEPT !.session = "live"] ELSE xdpDevices[a]]
  /\ UNCHANGED <<accountLocked, policies, peers, usersToAddresses, addressesToUsers>>

\* Time passes: a session falls idle or reaches the end of its lifetime.
Lapse(a, to) ==
  /\ Known(a)
  /\ \/ xdpDevices[a].session = "live" /\ to \in {"idle", "none"}
     \/ xdpDevices[a].session = "idle" /\ to = "none"
  /\ xdpDevices' = [xdpDevices EXCEPT ![a].session = to]
  /\ UNCHANGED <<accountLocked, policies, peers, usersToAddresses, addressesToUsers>>

-----------------------------------------------------------------------------
(***************************************************************************)
(* The operations in any order.  Two things are asked of the callers:      *)
(* SetAuthorized names the user whose device has the address, and an       *)
(* account is not unlocked in etcd and the configuration refreshed before  *)
(* SetLockAccount is called.                                               *)
(***************************************************************************)

FirewallInit == Empty

UserOperation ==
  \E u \in Users :
    \/ \E acl \in Acls : AddUser(u, acl) \/ RefreshUserAcls(u, acl)
    \/ \E locked \in BOOLEAN : SetLockAccount(u, locked)
    \/ RemoveUser(u)
    \/ DeauthenticateAllDevices(u)

PeerOperation ==
  \E u \in Users, a \in Addresses, k \in Keys :
    \/ \E node \in Nodes \cup {NoNode} : AddPeer(k, u, a, node)
    \/ RemovePeer(k, a)
    \/ \E old \in Keys : ReplacePeer(u, a, old, k)

SessionOperation ==
  \E a \in Addresses :
    \/ \E node \in Nodes :
         \/ Known(a) /\ SetAuthorized(a, xdpDevices[a].user, node)
         \/ UpdateNodeAssociation(a, node)
    \/ Deauthenticate(a)
    \/ \E to \in SessionStates : Lapse(a, to)

\* Every user's record and access list is read again.
Refreshing ==
  \E us \in [Users -> {Absent} \cup [locked: BOOLEAN]], acl \in [Users -> Acls],
     S \in SUBSET Idle(Addresses) :
    /\ \A u \in Users :
         us[u] # Absent /\ accountLocked[u] = TRUE => us[u].locked
    /\ RefreshConfiguration(us, acl, S)

TimeoutChange == \E S \in SUBSET Idle(Addresses) : SetInactivityTimeout(S)

FirewallNext ==
  UserOperation \/ PeerOperation \/ SessionOperation \/ Refreshing \/ TimeoutChange

FirewallSpec == FirewallInit /\ [][FirewallNext]_firewall

-----------------------------------------------------------------------------
(***************************************************************************)
(* Properties.                                                             *)
(***************************************************************************)

FirewallTypeOK ==
  /\ xdpDevices \in [Addresses -> FwEntry \cup {Absent}]
  /\ accountLocked \in [Users -> BOOLEAN \cup {Absent}]
  /\ policies \in [Users -> Acls \cup {Absent}]
  /\ peers \in [Keys -> Addresses \cup {NoAddress, Absent}]
  /\ usersToAddresses \in [Users -> [Addresses -> Keys \cup {Absent}] \cup {Absent}]
  /\ addressesToUsers \in [Addresses -> Users \cup {Absent}]

\* Locking an account, resetting its MFA and removing the user all act on the
\* addresses usersToAddresses lists: an entry it misses would keep its
\* session through all three.
EntriesTracked ==
  \A a \in Addresses :
    Known(a) => /\ a \in Tracked(xdpDevices[a].user)
                /\ addressesToUsers[a] = xdpDevices[a].user

\* An entry always belongs to a user the kernel knows, so a session does not
\* outlive the account and wait for its name to be used again.
EntriesOwned ==
  \A a \in Addresses : Known(a) => accountLocked[xdpDevices[a].user] # Absent

\* No session survives a lock to be usable again after the unlock, whatever
\* was authorised in between.
UnlockEndsSessions ==
  [][\A u \in Users :
       accountLocked[u] = TRUE /\ accountLocked'[u] = FALSE
         => \A a \in Addresses :
              xdpDevices'[a] # Absent /\ xdpDevices'[a].user = u
                => xdpDevices'[a].session = "none"]_firewall
=============================================================================
