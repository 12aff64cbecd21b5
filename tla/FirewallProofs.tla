--------------------------- MODULE FirewallProofs ---------------------------
(***************************************************************************)
(* For every set of users, addresses, keys and nodes: the router never     *)
(* loses sight of an entry of the XDP map, and no session survives the     *)
(* lock of its account; and for every pool of handlers: while they have    *)
(* not overtaken each other, they make no call that would go against this. *)
(***************************************************************************)
EXTENDS FirewallSync, SequenceTheorems, TLAPS

\* EntriesTracked alone is not inductive: AddUser forgets the addresses of
\* the user it adds, and it is EntriesOwned that says there are none.
IInv == FirewallTypeOK /\ EntriesTracked /\ EntriesOwned

AddressMap == [Addresses -> Keys \cup {Absent}]

\* A node in a cluster without users has no entries.
LEMMA InitIInv == FirewallInit => IInv
<1> SUFFICES ASSUME FirewallInit PROVE IInv
  OBVIOUS
<1>1. /\ xdpDevices = [a \in Addresses |-> Absent]
      /\ accountLocked = [u \in Users |-> Absent]
      /\ policies = [u \in Users |-> Absent]
      /\ peers = [k \in Keys |-> Absent]
      /\ usersToAddresses = [u \in Users |-> Absent]
      /\ addressesToUsers = [a \in Addresses |-> Absent]
  BY DEF FirewallInit, Empty, SetUp, SetupWireguard, SetupXDP, NoUsers, NoAddresses
<1> QED
  BY <1>1 DEF IInv, FirewallTypeOK, EntriesTracked, EntriesOwned, Known

\* Operations that only rewrite entries in place, keeping their users, keep
\* the invariant if no user is forgotten.
LEMMA InPlace ==
  ASSUME IInv, FirewallTypeOK',
         UNCHANGED <<usersToAddresses, addressesToUsers>>,
         \A a \in Addresses :
           Known(a)' => Known(a) /\ xdpDevices'[a].user = xdpDevices[a].user,
         \A u \in Users : accountLocked[u] # Absent => accountLocked'[u] # Absent
  PROVE  IInv'
<1>1. \A a \in Addresses : Known(a) => xdpDevices[a].user \in Users
  BY DEF IInv, FirewallTypeOK, Known, FwEntry
<1>2. \A u \in Users : Tracked(u)' = Tracked(u)
  BY DEF Tracked
<1>3. EntriesTracked'
  BY <1>1, <1>2 DEF IInv, EntriesTracked
<1>4. EntriesOwned'
  BY <1>1 DEF IInv, EntriesOwned
<1> QED
  BY <1>3, <1>4 DEF IInv

\* Entering an address makes it tracked and forgets no other.
LEMMA TrackingLemma ==
  ASSUME FirewallTypeOK, NEW u \in Users, NEW a \in Addresses, NEW k \in Keys,
         usersToAddresses' = Tracking(u, a, k)
  PROVE  /\ usersToAddresses' \in [Users -> AddressMap \cup {Absent}]
         /\ a \in Tracked(u)'
         /\ \A x \in Users : Tracked(x) \subseteq Tracked(x)'
<1> USE FirewallSentinels DEF AddressMap
<1> DEFINE old == IF usersToAddresses[u] = Absent THEN NoAddresses ELSE usersToAddresses[u]
           new == [old EXCEPT ![a] = k]
<1>1. old \in AddressMap
  BY DEF FirewallTypeOK, NoAddresses
<1>2. new \in AddressMap /\ new # Absent /\ new[a] = k
  BY <1>1
<1>3. usersToAddresses' = [usersToAddresses EXCEPT ![u] = new]
  BY DEF Tracking
<1>4. usersToAddresses' \in [Users -> AddressMap \cup {Absent}] /\ usersToAddresses'[u] = new
  BY <1>2, <1>3 DEF FirewallTypeOK
<1>5. a \in Tracked(u)'
  BY <1>2, <1>4 DEF Tracked
<1>6. ASSUME NEW x \in Users, NEW b \in Tracked(x) PROVE b \in Tracked(x)'
  <2>1. /\ usersToAddresses[x] # Absent /\ b \in Addresses
        /\ usersToAddresses[x][b] # Absent
    BY <1>6 DEF Tracked
  <2>2. CASE x = u
    <3>1. new[b] # Absent
      BY <1>1, <2>1, <2>2
    <3> QED
      BY <1>2, <1>4, <2>1, <2>2, <3>1 DEF Tracked
  <2>3. CASE x # u
    BY <1>3, <2>1, <2>3 DEF Tracked, FirewallTypeOK
  <2> QED
    BY <2>2, <2>3
<1> QED
  BY <1>4, <1>5, <1>6

\* Configuring a peer keeps peers a map from keys to addresses.
LEMMA WithPeerType ==
  ASSUME NEW ps \in [Keys -> Addresses \cup {NoAddress, Absent}],
         NEW k \in Keys, NEW a \in Addresses
  PROVE  WithPeer(ps, k, a) \in [Keys -> Addresses \cup {NoAddress, Absent}]
BY DEF WithPeer

(***************************************************************************)
(* Every call keeps the types, also where the maps do not agree.           *)
(***************************************************************************)

\* Deauthenticated changes sessions only.
LEMMA DeauthenticatedLemma ==
  ASSUME FirewallTypeOK, NEW S \in SUBSET Addresses, xdpDevices' = Deauthenticated(S)
  PROVE  /\ xdpDevices' \in [Addresses -> FwEntry \cup {Absent}]
         /\ \A a \in Addresses :
              Known(a)' => Known(a) /\ xdpDevices'[a].user = xdpDevices[a].user
         /\ \A a \in S : Known(a)' => xdpDevices'[a].session = "none"
<1>1. ASSUME NEW a \in Addresses, Known(a)
      PROVE  /\ xdpDevices[a] \in FwEntry
             /\ [xdpDevices[a] EXCEPT !.session = "none"] \in FwEntry
             /\ [xdpDevices[a] EXCEPT !.session = "none"].user = xdpDevices[a].user
             /\ [xdpDevices[a] EXCEPT !.session = "none"].session = "none"
  BY <1>1 DEF FirewallTypeOK, Known, FwEntry, SessionStates
<1>2. \A a \in Addresses : ~Known(a) => xdpDevices[a] = Absent
  BY DEF Known
<1>3. xdpDevices' = [a \in Addresses |->
                       IF a \in S /\ Known(a) THEN [xdpDevices[a] EXCEPT !.session = "none"]
                       ELSE xdpDevices[a]]
  BY DEF Deauthenticated
<1>4. xdpDevices' \in [Addresses -> FwEntry \cup {Absent}]
  BY <1>1, <1>2, <1>3
<1>5. \A a \in Addresses : Known(a)' => Known(a)
  BY <1>2, <1>3 DEF Known
<1> QED
  BY <1>1, <1>3, <1>4, <1>5

\* The fields of an entry in the map, changed one at a time.
LEMMA EntryLemma ==
  ASSUME FirewallTypeOK, NEW a \in Addresses, Known(a)
  PROVE  /\ xdpDevices[a].user \in Users
         /\ \A to \in SessionStates :
              /\ [xdpDevices[a] EXCEPT !.session = to] \in FwEntry
              /\ [xdpDevices[a] EXCEPT !.session = to].user = xdpDevices[a].user
         /\ \A node \in Nodes :
              /\ [xdpDevices[a] EXCEPT !.node = node] \in FwEntry
              /\ [xdpDevices[a] EXCEPT !.node = node].user = xdpDevices[a].user
<1>1. xdpDevices[a] \in FwEntry
  BY DEF FirewallTypeOK, Known
<1> QED
  BY <1>1 DEF FwEntry

\* A timeout set anew brings sessions back and does nothing else.
LEMMA ReviveLemma ==
  ASSUME FirewallTypeOK, NEW S \in SUBSET Idle(Addresses),
         xdpDevices' = [a \in Addresses |->
                          IF a \in S THEN [xdpDevices[a] EXCEPT !.session = "live"]
                          ELSE xdpDevices[a]]
  PROVE  /\ xdpDevices' \in [Addresses -> FwEntry \cup {Absent}]
         /\ \A a \in Addresses :
              Known(a)' => Known(a) /\ xdpDevices'[a].user = xdpDevices[a].user
<1>1. \A a \in S : a \in Addresses /\ Known(a)
  BY DEF Idle
<1>2. \A a \in S : /\ [xdpDevices[a] EXCEPT !.session = "live"] \in FwEntry
                   /\ [xdpDevices[a] EXCEPT !.session = "live"].user = xdpDevices[a].user
  BY <1>1, EntryLemma DEF SessionStates
<1>3. xdpDevices' \in [Addresses -> FwEntry \cup {Absent}]
  BY <1>2 DEF FirewallTypeOK
<1>4. \A a \in Addresses :
        Known(a)' => Known(a) /\ xdpDevices'[a].user = xdpDevices[a].user
  BY <1>1, <1>2 DEF Known
<1> QED
  BY <1>3, <1>4

\* AddPeer enters one address and tracks it.
LEMMA AddPeerType ==
  ASSUME FirewallTypeOK, NEW k \in Keys, NEW u \in Users, NEW a \in Addresses,
         NEW node \in Nodes \cup {NoNode}, AddPeer(k, u, a, node)
  PROVE  FirewallTypeOK'
<1>1. CASE UNCHANGED firewall
  BY <1>1 DEF firewall, FirewallTypeOK
<1>2. CASE CanAddPeer(u, a)
  <2> DEFINE entry == [user |-> u, session |-> "none", node |-> node]
  <2>1. /\ xdpDevices' = [xdpDevices EXCEPT ![a] = entry]
        /\ peers' = WithPeer(peers, k, a)
        /\ usersToAddresses' = Tracking(u, a, k)
        /\ addressesToUsers' = [addressesToUsers EXCEPT ![a] = u]
        /\ UNCHANGED <<accountLocked, policies>>
    BY <1>2 DEF AddPeer
  <2>2. entry \in FwEntry
    BY DEF FwEntry, SessionStates
  <2> QED
    BY <2>1, <2>2, TrackingLemma, WithPeerType DEF FirewallTypeOK, AddressMap
<1> QED
  BY <1>1, <1>2 DEF AddPeer

\* RemovePeer forgets one address under the user that has it.
LEMMA RemovePeerType ==
  ASSUME FirewallTypeOK, NEW k \in Keys, NEW a \in Addresses, RemovePeer(k, a)
  PROVE  FirewallTypeOK'
<1> DEFINE u == addressesToUsers[a]
<1>1. /\ peers' = [peers EXCEPT ![k] = Absent]
      /\ xdpDevices' = [xdpDevices EXCEPT ![a] = Absent]
      /\ UNCHANGED <<accountLocked, policies, addressesToUsers>>
  BY DEF RemovePeer
<1>2. usersToAddresses' \in [Users -> AddressMap \cup {Absent}]
  <2>1. CASE u = Absent \/ usersToAddresses[u] = Absent
    BY <2>1 DEF RemovePeer, FirewallTypeOK, AddressMap
  <2>2. CASE u # Absent /\ usersToAddresses[u] # Absent
    <3> DEFINE new == [usersToAddresses[u] EXCEPT ![a] = Absent]
    <3>1. u \in Users /\ usersToAddresses[u] \in AddressMap
      BY <2>2 DEF FirewallTypeOK, AddressMap
    <3>2. usersToAddresses' = [usersToAddresses EXCEPT ![u] = new]
      BY <2>2 DEF RemovePeer
    <3>3. new \in AddressMap
      BY <3>1 DEF AddressMap
    <3> QED
      BY <3>2, <3>3 DEF FirewallTypeOK, AddressMap
  <2> QED
    BY <2>1, <2>2
<1>3. peers' \in [Keys -> Addresses \cup {NoAddress, Absent}]
  BY <1>1 DEF FirewallTypeOK
<1>4. xdpDevices' \in [Addresses -> FwEntry \cup {Absent}]
  BY <1>1 DEF FirewallTypeOK
<1> QED
  BY <1>1, <1>2, <1>3, <1>4 DEF FirewallTypeOK, AddressMap

\* ReplacePeer moves a peer to another key.
LEMMA ReplacePeerType ==
  ASSUME FirewallTypeOK, NEW u \in Users, NEW a \in Addresses, NEW old \in Keys,
         NEW new \in Keys, ReplacePeer(u, a, old, new)
  PROVE  FirewallTypeOK'
<1>1. /\ peers' = WithPeer([peers EXCEPT ![old] = Absent], new, a)
      /\ usersToAddresses' = Tracking(u, a, new)
      /\ UNCHANGED <<xdpDevices, accountLocked, policies, addressesToUsers>>
  BY DEF ReplacePeer
<1>2. [peers EXCEPT ![old] = Absent] \in [Keys -> Addresses \cup {NoAddress, Absent}]
  BY DEF FirewallTypeOK
<1>3. peers' \in [Keys -> Addresses \cup {NoAddress, Absent}]
  BY <1>1, <1>2, WithPeerType
<1> QED
  BY <1>1, <1>3, TrackingLemma DEF FirewallTypeOK, AddressMap

\* AddUser enters a user that is not there.
LEMMA AddUserType ==
  ASSUME FirewallTypeOK, NEW u \in Users, NEW new \in Acls, AddUser(u, new)
  PROVE  FirewallTypeOK'
<1>1. CASE UNCHANGED firewall
  BY <1>1 DEF firewall, FirewallTypeOK
<1>2. CASE accountLocked[u] = Absent
  <2>1. /\ accountLocked' = [accountLocked EXCEPT ![u] = FALSE]
        /\ policies' = [policies EXCEPT ![u] = new]
        /\ usersToAddresses' = [usersToAddresses EXCEPT ![u] = NoAddresses]
        /\ UNCHANGED <<xdpDevices, peers, addressesToUsers>>
    BY <1>2 DEF AddUser
  <2>2. accountLocked' \in [Users -> BOOLEAN \cup {Absent}]
    BY <2>1 DEF FirewallTypeOK
  <2> QED
    BY <2>1, <2>2 DEF FirewallTypeOK, NoAddresses
<1> QED
  BY <1>1, <1>2 DEF AddUser

\* RemoveUser forgets what it tracks.
LEMMA RemoveUserType ==
  ASSUME FirewallTypeOK, NEW u \in Users, RemoveUser(u)
  PROVE  FirewallTypeOK'
<1>1. CASE UNCHANGED firewall
  BY <1>1 DEF firewall, FirewallTypeOK
<1>2. CASE accountLocked[u] # Absent
  <2> DEFINE gone == Tracked(u)
             keys == {usersToAddresses[u][a] : a \in gone}
             maps == [x \in Users |->
                        IF usersToAddresses[x] = Absent THEN Absent
                        ELSE [a \in Addresses |->
                                IF a \in gone /\ addressesToUsers[a] = x THEN Absent
                                ELSE usersToAddresses[x][a]]]
  <2>1. /\ accountLocked' = [accountLocked EXCEPT ![u] = Absent]
        /\ policies' = [policies EXCEPT ![u] = Absent]
        /\ peers' = [k \in Keys |-> IF k \in keys THEN Absent ELSE peers[k]]
        /\ xdpDevices' = [a \in Addresses |-> IF a \in gone THEN Absent ELSE xdpDevices[a]]
        /\ usersToAddresses' = maps
        /\ UNCHANGED addressesToUsers
    BY <1>2 DEF RemoveUser
  <2>2. maps \in [Users -> AddressMap \cup {Absent}]
    <3>1. ASSUME NEW x \in Users PROVE maps[x] \in AddressMap \cup {Absent}
      BY DEF FirewallTypeOK, AddressMap
    <3> QED
      BY <3>1
  <2>3. accountLocked' \in [Users -> BOOLEAN \cup {Absent}]
    BY <2>1 DEF FirewallTypeOK
  <2>4. xdpDevices' \in [Addresses -> FwEntry \cup {Absent}]
    BY <2>1 DEF FirewallTypeOK
  <2>5. peers' \in [Keys -> Addresses \cup {NoAddress, Absent}]
    BY <2>1 DEF FirewallTypeOK
  <2> HIDE DEF maps
  <2> QED
    BY <2>1, <2>2, <2>3, <2>4, <2>5 DEF FirewallTypeOK, AddressMap
<1> QED
  BY <1>1, <1>2 DEF RemoveUser

\* The calls that only end, begin or move sessions.
LEMMA SessionType ==
  ASSUME FirewallTypeOK,
         \/ \E S \in SUBSET Addresses : xdpDevices' = Deauthenticated(S)
         \/ \E S \in SUBSET Idle(Addresses) :
              xdpDevices' = [a \in Addresses |->
                               IF a \in S THEN [xdpDevices[a] EXCEPT !.session = "live"]
                               ELSE xdpDevices[a]]
         \/ \E a \in Addresses, e \in FwEntry : xdpDevices' = [xdpDevices EXCEPT ![a] = e]
         \/ UNCHANGED xdpDevices
  PROVE  xdpDevices' \in [Addresses -> FwEntry \cup {Absent}]
<1>1. ASSUME NEW S \in SUBSET Addresses, xdpDevices' = Deauthenticated(S)
      PROVE  xdpDevices' \in [Addresses -> FwEntry \cup {Absent}]
  BY <1>1, DeauthenticatedLemma
<1>2. ASSUME NEW S \in SUBSET Idle(Addresses),
             xdpDevices' = [a \in Addresses |->
                              IF a \in S THEN [xdpDevices[a] EXCEPT !.session = "live"]
                              ELSE xdpDevices[a]]
      PROVE  xdpDevices' \in [Addresses -> FwEntry \cup {Absent}]
  BY <1>2, ReviveLemma
<1>3. ASSUME NEW a \in Addresses, NEW e \in FwEntry, xdpDevices' = [xdpDevices EXCEPT ![a] = e]
      PROVE  xdpDevices' \in [Addresses -> FwEntry \cup {Absent}]
  BY <1>3 DEF FirewallTypeOK
<1>4. CASE UNCHANGED xdpDevices
  BY <1>4 DEF FirewallTypeOK
<1> QED
  BY <1>1, <1>2, <1>3, <1>4

\* The calls on sessions, those of one device and those of all of a user.
LEMMA SessionCallType ==
  ASSUME FirewallTypeOK, NEW a \in Addresses,
         \/ \E u \in Users, node \in Nodes : SetAuthorized(a, u, node)
         \/ \E node \in Nodes : UpdateNodeAssociation(a, node)
         \/ Deauthenticate(a)
         \/ \E to \in SessionStates : Lapse(a, to)
         \/ \E u \in Users : DeauthenticateAllDevices(u)
         \/ \E S \in SUBSET Idle(Addresses) : SetInactivityTimeout(S)
  PROVE  FirewallTypeOK'
<1>1. UNCHANGED <<accountLocked, policies, peers, usersToAddresses, addressesToUsers>>
  BY DEF SetAuthorized, UpdateNodeAssociation, Deauthenticate, Lapse, DeauthenticateAllDevices,
     SetInactivityTimeout
<1> SUFFICES xdpDevices' \in [Addresses -> FwEntry \cup {Absent}]
  BY <1>1 DEF FirewallTypeOK
<1>2. ASSUME NEW u \in Users, NEW node \in Nodes, SetAuthorized(a, u, node)
      PROVE  xdpDevices' \in [Addresses -> FwEntry \cup {Absent}]
  <2>1. [user |-> u, session |-> "live", node |-> node] \in FwEntry
    BY DEF FwEntry, SessionStates
  <2> QED
    BY <1>2, <2>1, SessionType DEF SetAuthorized
<1>3. ASSUME NEW node \in Nodes, UpdateNodeAssociation(a, node)
      PROVE  xdpDevices' \in [Addresses -> FwEntry \cup {Absent}]
  <2>1. CASE Known(a)
    <3> DEFINE e == [xdpDevices[a] EXCEPT !.node = node]
    <3>1. e \in FwEntry
      BY <2>1, EntryLemma
    <3>2. xdpDevices' = [xdpDevices EXCEPT ![a] = e]
      BY <1>3, <2>1 DEF UpdateNodeAssociation
    <3> QED
      BY <3>1, <3>2, SessionType
  <2>2. CASE ~Known(a)
    BY <1>3, <2>2, SessionType DEF UpdateNodeAssociation
  <2> QED
    BY <2>1, <2>2
<1>4. CASE Deauthenticate(a)
  BY <1>4, SessionType DEF Deauthenticate
<1>5. ASSUME NEW to \in SessionStates, Lapse(a, to)
      PROVE  xdpDevices' \in [Addresses -> FwEntry \cup {Absent}]
  <2> DEFINE e == [xdpDevices[a] EXCEPT !.session = to]
  <2>1. Known(a) /\ xdpDevices' = [xdpDevices EXCEPT ![a] = e]
    BY <1>5 DEF Lapse
  <2>2. e \in FwEntry
    BY <2>1, EntryLemma
  <2> QED
    BY <2>1, <2>2, SessionType
<1>6. ASSUME NEW u \in Users, DeauthenticateAllDevices(u)
      PROVE  xdpDevices' \in [Addresses -> FwEntry \cup {Absent}]
  <2>1. PICK S \in SUBSET Tracked(u) : xdpDevices' = Deauthenticated(S)
    BY <1>6 DEF DeauthenticateAllDevices
  <2>2. S \in SUBSET Addresses
    BY DEF Tracked
  <2> QED
    BY <2>1, <2>2, SessionType
<1>7. ASSUME NEW S \in SUBSET Idle(Addresses), SetInactivityTimeout(S)
      PROVE  xdpDevices' \in [Addresses -> FwEntry \cup {Absent}]
  BY <1>7, SessionType DEF SetInactivityTimeout
<1> QED
  BY <1>2, <1>3, <1>4, <1>5, <1>6, <1>7

\* SetLockAccount changes a lock and ends sessions.
LEMMA SetLockAccountType ==
  ASSUME FirewallTypeOK, NEW u \in Users, NEW locked \in BOOLEAN, SetLockAccount(u, locked)
  PROVE  FirewallTypeOK'
<1>1. /\ xdpDevices' = Deauthenticated(Tracked(u))
      /\ accountLocked' = [accountLocked EXCEPT ![u] = locked]
      /\ UNCHANGED <<policies, peers, usersToAddresses, addressesToUsers>>
  BY DEF SetLockAccount
<1>2. Tracked(u) \in SUBSET Addresses
  BY DEF Tracked
<1>3. accountLocked' \in [Users -> BOOLEAN \cup {Absent}]
  BY <1>1 DEF FirewallTypeOK
<1>4. xdpDevices' \in [Addresses -> FwEntry \cup {Absent}]
  BY <1>1, <1>2, SessionType
<1> QED
  BY <1>1, <1>3, <1>4 DEF FirewallTypeOK

\* RefreshUserAcls replaces a policy.
LEMMA RefreshUserAclsType ==
  ASSUME FirewallTypeOK, NEW u \in Users, NEW new \in Acls, RefreshUserAcls(u, new)
  PROVE  FirewallTypeOK'
BY DEF RefreshUserAcls, FirewallTypeOK

\* RefreshConfiguration replaces locks and policies and brings sessions back.
LEMMA RefreshType ==
  ASSUME FirewallTypeOK, NEW us, NEW acls \in [Users -> Acls],
         \A u \in Users : us[u] # Absent => us[u].locked \in BOOLEAN,
         NEW S \in SUBSET Idle(Addresses), RefreshConfiguration(us, acls, S)
  PROVE  FirewallTypeOK'
<1>1. accountLocked' =
        [u \in Users |-> IF us[u] = Absent THEN accountLocked[u] ELSE us[u].locked]
      /\ policies' = [u \in Users |-> IF us[u] = Absent THEN policies[u] ELSE acls[u]]
      /\ UNCHANGED <<peers, usersToAddresses, addressesToUsers>>
  BY DEF RefreshConfiguration
<1>2. accountLocked' \in [Users -> BOOLEAN \cup {Absent}]
  BY <1>1 DEF FirewallTypeOK
<1>3. policies' \in [Users -> Acls \cup {Absent}]
  BY <1>1 DEF FirewallTypeOK
<1>4. xdpDevices' \in [Addresses -> FwEntry \cup {Absent}]
  BY SessionType DEF RefreshConfiguration
<1> QED
  BY <1>1, <1>2, <1>3, <1>4 DEF FirewallTypeOK

(***************************************************************************)
(* The operations, called for what they may be called for.                 *)
(***************************************************************************)

\* AddPeer enters an address in all three maps, of a user that is known.
LEMMA AddPeerInv ==
  ASSUME IInv, NEW k \in Keys, NEW u \in Users, NEW a \in Addresses,
         NEW node \in Nodes \cup {NoNode}, AddPeer(k, u, a, node)
  PROVE  IInv'
<1>1. CASE UNCHANGED firewall
  BY <1>1 DEF firewall, IInv, FirewallTypeOK, EntriesTracked, EntriesOwned, Known, Tracked
<1>2. CASE CanAddPeer(u, a)
  <2> DEFINE entry == [user |-> u, session |-> "none", node |-> node]
  <2>1. /\ xdpDevices' = [xdpDevices EXCEPT ![a] = entry]
        /\ peers' = WithPeer(peers, k, a)
        /\ usersToAddresses' = Tracking(u, a, k)
        /\ addressesToUsers' = [addressesToUsers EXCEPT ![a] = u]
        /\ UNCHANGED <<accountLocked, policies>>
    BY <1>2 DEF AddPeer
  <2>3. FirewallTypeOK'
    BY AddPeerType DEF IInv
  <2>4. \A b \in Addresses : b # a => xdpDevices'[b] = xdpDevices[b]
                                     /\ addressesToUsers'[b] = addressesToUsers[b]
    BY <2>1 DEF IInv, FirewallTypeOK
  <2>5. xdpDevices'[a].user = u /\ addressesToUsers'[a] = u
    BY <2>1 DEF IInv, FirewallTypeOK
  <2>6. \A b \in Addresses : Known(b) => xdpDevices[b].user \in Users
    BY DEF IInv, FirewallTypeOK, Known, FwEntry
  <2>7. EntriesTracked'
    <3> SUFFICES ASSUME NEW b \in Addresses, Known(b)'
                 PROVE  b \in Tracked(xdpDevices[b].user)' /\ addressesToUsers'[b] = xdpDevices'[b].user
      BY DEF EntriesTracked
    <3>1. CASE b = a
      BY <2>1, <2>5, <3>1, TrackingLemma DEF IInv, Tracked
    <3>2. CASE b # a
      BY <2>1, <2>4, <2>6, <3>2, TrackingLemma DEF IInv, EntriesTracked, Known, Tracked
    <3> QED
      BY <3>1, <3>2
  <2>8. EntriesOwned'
    BY <1>2, <2>1, <2>4, <2>5 DEF IInv, EntriesOwned, CanAddPeer, Known
  <2> QED
    BY <2>3, <2>7, <2>8 DEF IInv
<1> QED
  BY <1>1, <1>2 DEF AddPeer

\* RemovePeer removes the entry with the address it was tracked under.
LEMMA RemovePeerInv ==
  ASSUME IInv, NEW k \in Keys, NEW a \in Addresses, RemovePeer(k, a)
  PROVE  IInv'
<1> DEFINE u == addressesToUsers[a]
<1>1. /\ peers' = [peers EXCEPT ![k] = Absent]
      /\ xdpDevices' = [xdpDevices EXCEPT ![a] = Absent]
      /\ UNCHANGED <<accountLocked, policies, addressesToUsers>>
  BY DEF RemovePeer
<1>2. \A x \in Users : Tracked(x) \ {a} \subseteq Tracked(x)'
  <2>1. CASE u = Absent \/ usersToAddresses[u] = Absent
    BY <2>1 DEF RemovePeer, Tracked, IInv, FirewallTypeOK, AddressMap
  <2>2. CASE u # Absent /\ usersToAddresses[u] # Absent
    <3> DEFINE new == [usersToAddresses[u] EXCEPT ![a] = Absent]
    <3>1. u \in Users /\ usersToAddresses[u] \in AddressMap
      BY <2>2 DEF IInv, FirewallTypeOK, AddressMap
    <3>2. usersToAddresses' = [usersToAddresses EXCEPT ![u] = new]
      BY <2>2 DEF RemovePeer
    <3>3. new \in AddressMap /\ new # Absent
      BY <3>1, FirewallSentinels DEF AddressMap
    <3>5. ASSUME NEW x \in Users, NEW b \in Tracked(x), b # a PROVE b \in Tracked(x)'
      <4>1. CASE x = u
        BY <3>1, <3>2, <3>3, <3>5, <4>1 DEF IInv, FirewallTypeOK, Tracked, AddressMap
      <4>2. CASE x # u
        BY <3>1, <3>2, <3>5, <4>2 DEF IInv, FirewallTypeOK, Tracked
      <4> QED
        BY <4>1, <4>2
    <3> QED
      BY <3>5
  <2> QED
    BY <2>1, <2>2
<1>3. FirewallTypeOK'
  BY RemovePeerType DEF IInv
<1>4. \A b \in Addresses : Known(b)' => b # a /\ Known(b) /\ xdpDevices'[b] = xdpDevices[b]
  BY <1>1 DEF IInv, FirewallTypeOK, Known
<1>5. \A b \in Addresses : Known(b) => xdpDevices[b].user \in Users
  BY DEF IInv, FirewallTypeOK, Known, FwEntry
<1>6. EntriesTracked'
  <2> SUFFICES ASSUME NEW b \in Addresses, Known(b)'
               PROVE  b \in Tracked(xdpDevices[b].user)' /\ addressesToUsers'[b] = xdpDevices'[b].user
    BY DEF EntriesTracked
  <2>1. b \in Tracked(xdpDevices[b].user) \ {a} /\ addressesToUsers[b] = xdpDevices[b].user
    BY <1>4 DEF IInv, EntriesTracked
  <2> QED
    BY <1>1, <1>2, <1>4, <1>5, <2>1 DEF Tracked
<1>7. EntriesOwned'
  BY <1>1, <1>4 DEF IInv, EntriesOwned
<1> QED
  BY <1>3, <1>6, <1>7 DEF IInv

\* ReplacePeer may track an address without an entry, never the reverse.
LEMMA ReplacePeerInv ==
  ASSUME IInv, NEW u \in Users, NEW a \in Addresses, NEW old \in Keys, NEW new \in Keys,
         ReplacePeer(u, a, old, new)
  PROVE  IInv'
<1>1. /\ peers' = WithPeer([peers EXCEPT ![old] = Absent], new, a)
      /\ usersToAddresses' = Tracking(u, a, new)
      /\ UNCHANGED <<xdpDevices, accountLocked, policies, addressesToUsers>>
  BY DEF ReplacePeer
<1>4. FirewallTypeOK'
  BY ReplacePeerType DEF IInv
<1>5. \A b \in Addresses : Known(b) => xdpDevices[b].user \in Users
  BY DEF IInv, FirewallTypeOK, Known, FwEntry
<1>6. EntriesTracked'
  <2> SUFFICES ASSUME NEW b \in Addresses, Known(b)'
               PROVE  b \in Tracked(xdpDevices[b].user)' /\ addressesToUsers'[b] = xdpDevices'[b].user
    BY DEF EntriesTracked
  <2>1. b \in Tracked(xdpDevices[b].user) /\ addressesToUsers[b] = xdpDevices[b].user
    BY <1>1 DEF IInv, EntriesTracked, Known
  <2> QED
    BY <1>1, <1>5, <2>1, TrackingLemma DEF IInv, Tracked, Known
<1>7. EntriesOwned'
  BY <1>1 DEF IInv, EntriesOwned, Known
<1> QED
  BY <1>4, <1>6, <1>7 DEF IInv

\* The user has no entry in the map, so nothing is lost when its addresses
\* are forgotten.
LEMMA AddUserInv ==
  ASSUME IInv, NEW u \in Users, NEW rights \in Acls, AddUser(u, rights)
  PROVE  IInv'
<1>1. CASE UNCHANGED firewall
  BY <1>1 DEF firewall, IInv, FirewallTypeOK, EntriesTracked, EntriesOwned, Known, Tracked
<1>2. CASE accountLocked[u] = Absent
  <2>1. /\ accountLocked' = [accountLocked EXCEPT ![u] = FALSE]
        /\ policies' = [policies EXCEPT ![u] = rights]
        /\ usersToAddresses' = [usersToAddresses EXCEPT ![u] = NoAddresses]
        /\ UNCHANGED <<xdpDevices, peers, addressesToUsers>>
    BY <1>2 DEF AddUser
  <2>3. FirewallTypeOK'
    BY AddUserType DEF IInv
  <2>4. \A b \in Addresses : Known(b)' =>
          Known(b) /\ xdpDevices[b].user \in Users \ {u} /\ xdpDevices'[b] = xdpDevices[b]
    BY <1>2, <2>1 DEF IInv, FirewallTypeOK, EntriesOwned, Known, FwEntry
  <2>5. \A x \in Users \ {u} : Tracked(x)' = Tracked(x) /\ accountLocked'[x] = accountLocked[x]
    BY <2>1 DEF IInv, FirewallTypeOK, Tracked
  <2>6. EntriesTracked'
    BY <2>1, <2>4, <2>5 DEF IInv, EntriesTracked
  <2>7. EntriesOwned'
    BY <2>4, <2>5 DEF IInv, EntriesOwned
  <2> QED
    BY <2>3, <2>6, <2>7 DEF IInv
<1> QED
  BY <1>1, <1>2 DEF AddUser

\* RemoveUser removes the entries of all it tracks, so of all the user has.
LEMMA RemoveUserInv ==
  ASSUME IInv, NEW u \in Users, RemoveUser(u)
  PROVE  IInv'
<1>1. CASE UNCHANGED firewall
  BY <1>1 DEF firewall, IInv, FirewallTypeOK, EntriesTracked, EntriesOwned, Known, Tracked
<1>2. CASE accountLocked[u] # Absent
  <2> DEFINE gone == Tracked(u)
             keys == {usersToAddresses[u][a] : a \in gone}
             maps == [x \in Users |->
                        IF usersToAddresses[x] = Absent THEN Absent
                        ELSE [a \in Addresses |->
                                IF a \in gone /\ addressesToUsers[a] = x THEN Absent
                                ELSE usersToAddresses[x][a]]]
  <2>1. /\ accountLocked' = [accountLocked EXCEPT ![u] = Absent]
        /\ policies' = [policies EXCEPT ![u] = Absent]
        /\ peers' = [k \in Keys |-> IF k \in keys THEN Absent ELSE peers[k]]
        /\ xdpDevices' = [a \in Addresses |-> IF a \in gone THEN Absent ELSE xdpDevices[a]]
        /\ usersToAddresses' = maps
        /\ UNCHANGED addressesToUsers
    BY <1>2 DEF RemoveUser
  <2>3. FirewallTypeOK'
    BY RemoveUserType DEF IInv
  <2>4. \A b \in Addresses : Known(b)' => b \notin gone /\ Known(b) /\ xdpDevices'[b] = xdpDevices[b]
    BY <2>1 DEF Known
  <2>5. \A b \in Addresses : Known(b) => xdpDevices[b].user \in Users
    BY DEF IInv, FirewallTypeOK, Known, FwEntry
  <2>6. ASSUME NEW x \in Users, NEW b \in Tracked(x), b \notin gone PROVE b \in Tracked(x)'
    <3>1. b \in Addresses /\ usersToAddresses[x] # Absent /\ usersToAddresses[x][b] # Absent
      BY DEF Tracked
    <3>2. maps[x] \in AddressMap /\ maps[x][b] = usersToAddresses[x][b]
      BY <2>6, <3>1 DEF AddressMap, IInv, FirewallTypeOK
    <3>3. maps[x] # Absent
      BY <3>2, FirewallSentinels DEF AddressMap
    <3> HIDE DEF maps
    <3> QED
      BY <2>1, <3>1, <3>2, <3>3 DEF Tracked
  <2>7. EntriesTracked'
    BY <2>1, <2>4, <2>5, <2>6 DEF IInv, EntriesTracked
  <2>8. EntriesOwned'
    <3>1. ASSUME NEW b \in Addresses, Known(b)' PROVE xdpDevices[b].user # u
      BY <2>4, <3>1 DEF IInv, EntriesTracked
    <3> QED
      BY <2>1, <2>4, <2>5, <3>1 DEF IInv, EntriesOwned, FirewallTypeOK
  <2> QED
    BY <2>3, <2>7, <2>8 DEF IInv
<1> QED
  BY <1>1, <1>2 DEF RemoveUser

\* SetLockAccount changes the sessions and the lock of one user.
LEMMA SetLockAccountInv ==
  ASSUME IInv, NEW u \in Users, NEW locked \in BOOLEAN, SetLockAccount(u, locked)
  PROVE  IInv'
<1>1. /\ xdpDevices' = Deauthenticated(Tracked(u))
      /\ accountLocked' = [accountLocked EXCEPT ![u] = locked]
      /\ UNCHANGED <<policies, peers, usersToAddresses, addressesToUsers>>
  BY DEF SetLockAccount
<1>2. Tracked(u) \subseteq Addresses
  BY DEF Tracked
<1>4. FirewallTypeOK'
  BY SetLockAccountType DEF IInv
<1>5. \A x \in Users : accountLocked[x] # Absent => accountLocked'[x] # Absent
  BY <1>1, FirewallSentinels DEF IInv, FirewallTypeOK
<1>6. \A a \in Addresses : Known(a)' => Known(a) /\ xdpDevices'[a].user = xdpDevices[a].user
  BY <1>1, <1>2, DeauthenticatedLemma DEF IInv
<1> QED
  BY <1>1, <1>4, <1>5, <1>6, InPlace

\* The operations on users.
LEMMA UserOperationInv == IInv /\ UserOperation => IInv'
<1> SUFFICES ASSUME IInv, NEW u \in Users,
                    \/ \E rights \in Acls : AddUser(u, rights) \/ RefreshUserAcls(u, rights)
                    \/ \E locked \in BOOLEAN : SetLockAccount(u, locked)
                    \/ RemoveUser(u)
                    \/ DeauthenticateAllDevices(u)
             PROVE  IInv'
  BY DEF UserOperation
<1>1. ASSUME NEW rights \in Acls, RefreshUserAcls(u, rights) PROVE IInv'
  <2>1. UNCHANGED <<xdpDevices, accountLocked, peers, usersToAddresses, addressesToUsers>>
        /\ policies' = [policies EXCEPT ![u] = rights]
    BY <1>1 DEF RefreshUserAcls
  <2>2. FirewallTypeOK'
    BY <1>1, RefreshUserAclsType DEF IInv
  <2> QED
    BY <2>1, <2>2, InPlace DEF Known
<1>2. CASE DeauthenticateAllDevices(u)
  <2>1. PICK S \in SUBSET Tracked(u) : xdpDevices' = Deauthenticated(S)
    BY <1>2 DEF DeauthenticateAllDevices
  <2>2. UNCHANGED <<accountLocked, policies, peers, usersToAddresses, addressesToUsers>>
    BY <1>2 DEF DeauthenticateAllDevices
  <2>3. S \subseteq Addresses
    BY DEF Tracked
  <2>4. FirewallTypeOK'
    BY <2>1, <2>2, <2>3, DeauthenticatedLemma DEF IInv, FirewallTypeOK
  <2> QED
    BY <2>1, <2>2, <2>3, <2>4, DeauthenticatedLemma, InPlace DEF IInv
<1> QED
  BY <1>1, <1>2, AddUserInv, SetLockAccountInv, RemoveUserInv

\* The operations on peers.
LEMMA PeerOperationInv == IInv /\ PeerOperation => IInv'
BY AddPeerInv, RemovePeerInv, ReplacePeerInv DEF PeerOperation

\* The operations on sessions rewrite entries in place.
LEMMA SessionOperationInv == IInv /\ SessionOperation => IInv'
<1> SUFFICES ASSUME IInv, NEW a \in Addresses,
                    \/ \E node \in Nodes :
                         \/ Known(a) /\ SetAuthorized(a, xdpDevices[a].user, node)
                         \/ UpdateNodeAssociation(a, node)
                    \/ Deauthenticate(a)
                    \/ \E to \in SessionStates : Lapse(a, to)
             PROVE  IInv'
  BY DEF SessionOperation
<1>1. UNCHANGED <<accountLocked, policies, peers, usersToAddresses, addressesToUsers>>
  BY DEF SetAuthorized, UpdateNodeAssociation, Deauthenticate, Lapse
<1>2. ASSUME NEW e \in FwEntry, Known(a), e.user = xdpDevices[a].user,
             xdpDevices' = [xdpDevices EXCEPT ![a] = e]
      PROVE  IInv'
  <2>1. FirewallTypeOK'
    BY <1>1, <1>2 DEF IInv, FirewallTypeOK
  <2>2. \A b \in Addresses : Known(b)' => Known(b) /\ xdpDevices'[b].user = xdpDevices[b].user
    BY <1>2 DEF IInv, FirewallTypeOK, Known
  <2> QED
    BY <1>1, <2>1, <2>2, InPlace
<1>3. CASE UNCHANGED xdpDevices
  <2>1. FirewallTypeOK'
    BY <1>1, <1>3 DEF IInv, FirewallTypeOK
  <2> QED
    BY <1>1, <1>3, <2>1, InPlace DEF Known
<1>4. ASSUME NEW node \in Nodes, Known(a), SetAuthorized(a, xdpDevices[a].user, node)
      PROVE  IInv'
  <2> DEFINE e == [user |-> xdpDevices[a].user, session |-> "live", node |-> node]
  <2>1. e \in FwEntry /\ e.user = xdpDevices[a].user
    BY <1>4, EntryLemma DEF IInv, FwEntry, SessionStates
  <2> QED
    BY <1>2, <1>4, <2>1 DEF SetAuthorized
<1>5. ASSUME NEW node \in Nodes, UpdateNodeAssociation(a, node) PROVE IInv'
  <2>1. CASE ~Known(a)
    BY <1>3, <1>5, <2>1 DEF UpdateNodeAssociation
  <2>2. CASE Known(a)
    <3> DEFINE e == [xdpDevices[a] EXCEPT !.node = node]
    <3>1. e \in FwEntry /\ e.user = xdpDevices[a].user
      BY <2>2, EntryLemma DEF IInv
    <3>2. xdpDevices' = [xdpDevices EXCEPT ![a] = e]
      BY <1>5, <2>2 DEF UpdateNodeAssociation
    <3> QED
      BY <1>2, <2>2, <3>1, <3>2
  <2> QED
    BY <2>1, <2>2
<1>6. CASE Deauthenticate(a)
  <2>1. xdpDevices' = Deauthenticated({a})
    BY <1>6 DEF Deauthenticate
  <2>2. FirewallTypeOK'
    BY <1>1, <2>1, DeauthenticatedLemma DEF IInv, FirewallTypeOK
  <2> QED
    BY <1>1, <2>1, <2>2, DeauthenticatedLemma, InPlace DEF IInv
<1>7. ASSUME NEW to \in SessionStates, Lapse(a, to) PROVE IInv'
  <2> DEFINE e == [xdpDevices[a] EXCEPT !.session = to]
  <2>1. Known(a) /\ xdpDevices' = [xdpDevices EXCEPT ![a] = e]
    BY <1>7 DEF Lapse
  <2>2. e \in FwEntry /\ e.user = xdpDevices[a].user
    BY <2>1, EntryLemma DEF IInv
  <2> QED
    BY <1>2, <2>1, <2>2
<1> QED
  BY <1>4, <1>5, <1>6, <1>7

\* A refresh knows the users it names and forgets none.
LEMMA RefreshingInv == IInv /\ Refreshing => IInv'
<1> SUFFICES ASSUME IInv,
                    NEW us \in [Users -> {Absent} \cup [locked: BOOLEAN]],
                    NEW rights \in [Users -> Acls], NEW S \in SUBSET Idle(Addresses),
                    RefreshConfiguration(us, rights, S)
             PROVE  IInv'
  BY DEF Refreshing
<1>1. accountLocked' =
        [u \in Users |-> IF us[u] = Absent THEN accountLocked[u] ELSE us[u].locked]
      /\ policies' = [u \in Users |-> IF us[u] = Absent THEN policies[u] ELSE rights[u]]
      /\ UNCHANGED <<peers, usersToAddresses, addressesToUsers>>
  BY DEF RefreshConfiguration
<1>2. \A u \in Users : us[u] # Absent => us[u].locked \in BOOLEAN
  BY DEF IInv
<1>3. /\ accountLocked' \in [Users -> BOOLEAN \cup {Absent}]
      /\ \A u \in Users : accountLocked[u] # Absent => accountLocked'[u] # Absent
  BY <1>1, <1>2, FirewallSentinels DEF IInv, FirewallTypeOK
<1>4. policies' \in [Users -> Acls \cup {Absent}]
  BY <1>1 DEF IInv, FirewallTypeOK
<1>5. xdpDevices' = [a \in Addresses |->
                       IF a \in S THEN [xdpDevices[a] EXCEPT !.session = "live"]
                       ELSE xdpDevices[a]]
  BY DEF RefreshConfiguration
<1>6. FirewallTypeOK'
  BY <1>1, <1>3, <1>4, <1>5, ReviveLemma DEF IInv, FirewallTypeOK
<1> QED
  BY <1>1, <1>3, <1>5, <1>6, ReviveLemma, InPlace DEF IInv

\* A new timeout brings sessions back in place.
LEMMA TimeoutChangeInv == IInv /\ TimeoutChange => IInv'
<1> SUFFICES ASSUME IInv, NEW S \in SUBSET Idle(Addresses), SetInactivityTimeout(S)
             PROVE  IInv'
  BY DEF TimeoutChange
<1>1. xdpDevices' = [a \in Addresses |->
                       IF a \in S THEN [xdpDevices[a] EXCEPT !.session = "live"]
                       ELSE xdpDevices[a]]
      /\ UNCHANGED <<accountLocked, policies, peers, usersToAddresses, addressesToUsers>>
  BY DEF SetInactivityTimeout
<1>2. FirewallTypeOK'
  BY <1>1, ReviveLemma DEF IInv, FirewallTypeOK
<1> QED
  BY <1>1, <1>2, ReviveLemma, InPlace DEF IInv

\* Every operation keeps the invariant.
LEMMA NextIInv == IInv /\ [FirewallNext]_firewall => IInv'
<1> SUFFICES ASSUME IInv, [FirewallNext]_firewall PROVE IInv'
  OBVIOUS
<1>1. CASE UNCHANGED firewall
  BY <1>1 DEF firewall, IInv, FirewallTypeOK, EntriesTracked, EntriesOwned, Known, Tracked
<1> QED
  BY <1>1, UserOperationInv, PeerOperationInv, SessionOperationInv, RefreshingInv,
     TimeoutChangeInv DEF FirewallNext

\* Whatever operations the handlers call and in whatever order, the maps of
\* the router keep their types.
THEOREM FirewallTypeTheorem == FirewallSpec => []FirewallTypeOK
<1>1. IInv => FirewallTypeOK
  BY DEF IInv
<1> QED
  BY InitIInv, NextIInv, <1>1, PTL DEF FirewallSpec

\* RemoveUser, SetLockAccount and DeauthenticateAllDevices find every entry of
\* the user they are called for, though AddPeer, RemovePeer and ReplacePeer each
\* write three maps that have to agree.
THEOREM EntriesTheorem == FirewallSpec => []EntriesTracked
<1>1. IInv => EntriesTracked
  BY DEF IInv
<1> QED
  BY InitIInv, NextIInv, <1>1, PTL DEF FirewallSpec

\* RemoveUser takes the entries of the user away with the lock of the account,
\* and AddPeer enters no address for a user that AddUser has not added.
THEOREM OwnedTheorem == FirewallSpec => []EntriesOwned
<1>1. IInv => EntriesOwned
  BY DEF IInv
<1> QED
  BY InitIInv, NextIInv, <1>1, PTL DEF FirewallSpec

-----------------------------------------------------------------------------
(***************************************************************************)
(* What a step may never do.                                               *)
(***************************************************************************)

\* Only SetLockAccount unlocks an account.
LEMMA OnlySetLockAccountUnlocks ==
  ASSUME IInv, FirewallNext, NEW u \in Users,
         accountLocked[u] = TRUE, accountLocked'[u] = FALSE
  PROVE  SetLockAccount(u, FALSE)
<1> USE FirewallSentinels DEF IInv, FirewallTypeOK
<1>1. ASSUME UNCHANGED accountLocked PROVE FALSE
  BY <1>1
<1>2. ASSUME NEW x \in Users, NEW rights \in Acls, AddUser(x, rights) PROVE FALSE
  BY <1>2 DEF AddUser, firewall
<1>3. ASSUME NEW x \in Users, RemoveUser(x) PROVE FALSE
  BY <1>3 DEF RemoveUser, firewall
<1>4. ASSUME NEW x \in Users, NEW locked \in BOOLEAN, SetLockAccount(x, locked)
      PROVE  x = u /\ locked = FALSE
  BY <1>4 DEF SetLockAccount
<1>5. ASSUME Refreshing PROVE FALSE
  <2>1. PICK us \in [Users -> {Absent} \cup [locked: BOOLEAN]], rights \in [Users -> Acls],
             S \in SUBSET Idle(Addresses) :
          /\ \A x \in Users : us[x] # Absent /\ accountLocked[x] = TRUE => us[x].locked
          /\ RefreshConfiguration(us, rights, S)
    BY <1>5 DEF Refreshing
  <2>2. accountLocked'[u] = IF us[u] = Absent THEN accountLocked[u] ELSE us[u].locked
    BY <2>1 DEF RefreshConfiguration
  <2>3. CASE us[u] = Absent
    BY <2>2, <2>3
  <2>4. CASE us[u] # Absent
    BY <2>1, <2>2, <2>4
  <2> QED
    BY <2>3, <2>4
<1>6. ASSUME PeerOperation \/ SessionOperation \/ TimeoutChange PROVE UNCHANGED accountLocked
  BY <1>6 DEF PeerOperation, SessionOperation, TimeoutChange, AddPeer, RemovePeer, ReplacePeer,
     SetAuthorized, UpdateNodeAssociation, Deauthenticate, Lapse, SetInactivityTimeout, firewall
<1>7. ASSUME NEW x \in Users,
             (\E rights \in Acls : RefreshUserAcls(x, rights)) \/ DeauthenticateAllDevices(x)
      PROVE  UNCHANGED accountLocked
  BY <1>7 DEF RefreshUserAcls, DeauthenticateAllDevices
<1>8. CASE UserOperation
  BY <1>1, <1>2, <1>3, <1>4, <1>7, <1>8 DEF UserOperation
<1> QED
  BY <1>1, <1>5, <1>6, <1>8 DEF FirewallNext

\* An account is unlocked by SetLockAccount, which ends the sessions of every
\* address tracked under the user.
LEMMA UnlockStep ==
  ASSUME IInv, FirewallNext, NEW u \in Users,
         accountLocked[u] = TRUE, accountLocked'[u] = FALSE,
         NEW a \in Addresses, xdpDevices'[a] # Absent, xdpDevices'[a].user = u
  PROVE  xdpDevices'[a].session = "none"
<1>1. SetLockAccount(u, FALSE)
  BY OnlySetLockAccountUnlocks
<1>2. xdpDevices' = Deauthenticated(Tracked(u)) /\ Tracked(u) \subseteq Addresses
  BY <1>1 DEF SetLockAccount, Tracked
<1>3. Known(a) /\ xdpDevices[a].user = u
  BY <1>2, DeauthenticatedLemma DEF IInv, Known
<1>4. a \in Tracked(u)
  BY <1>3 DEF IInv, EntriesTracked
<1> QED
  BY <1>2, <1>4, DeauthenticatedLemma DEF IInv, Known

\* SetLockAccount ends the sessions of the user also when it unlocks, and
\* misses none: whatever was authorised while the account was locked is gone.
THEOREM UnlockTheorem == FirewallSpec => UnlockEndsSessions
<1> DEFINE Ends == \A u \in Users :
       accountLocked[u] = TRUE /\ accountLocked'[u] = FALSE
         => \A a \in Addresses :
              xdpDevices'[a] # Absent /\ xdpDevices'[a].user = u
                => xdpDevices'[a].session = "none"
<1>1. IInv /\ [FirewallNext]_firewall => [Ends]_firewall
  BY UnlockStep
<1> QED
  BY InitIInv, NextIInv, <1>1, PTL DEF FirewallSpec, UnlockEndsSessions

(***************************************************************************)
(* The handlers.                                                           *)
(***************************************************************************)

\* The calls a handler of a changed device may make, and those of them that
\* tell the router where the device is.
ChangeCalls ==
  {"replacePeer", "challenge", "verify", "checkLockout", "deauthenticate",
   "associate", "authorise"}

PlaceCalls == {"associate", "authorise"}

HandlerRecord ==
  [topic: {"devices", "membership", "users", "acls", "timeout"},
   id: Addresses \cup Users \cup {Absent},
   cur: DeviceRecord \cup UserRecord \cup {Absent},
   old: Keys \cup {Absent},
   todo: Seq(Steps),
   acl: Acls \cup {Absent},
   started: BOOLEAN]

Creates(h) == h.todo = <<"addPeer">>

Removes(h) == h.todo = <<"removePeer">>

Changes(h) ==
  /\ h.old \in Keys
  /\ h.todo \in Seq(ChangeCalls)
  /\ h.cur.node \in Nodes \/ h.todo \in Seq(ChangeCalls \ PlaceCalls)

\* What the handlers of each topic have left to do.
HandlerOK(h) ==
  /\ h \in HandlerRecord
  /\ h.todo # <<>>
  /\ h.topic = "devices" =>
       /\ h.id \in Addresses /\ h.cur \in DeviceRecord
       /\ Creates(h) \/ Removes(h) \/ Changes(h)
  /\ h.topic = "users" =>
       /\ h.id \in Users /\ h.cur \in UserRecord
       /\ \/ h.todo = <<"readAcl", "addUser">>
          \/ h.todo = <<"addUser">> /\ h.acl \in Acls
          \/ h.todo = <<"removeUser">>
          \/ h.todo \in Seq({"lock", "deauthenticateAll"})
  /\ h.topic = "membership" => h.id \in Users /\ h.todo = <<"refreshUser">>
  /\ h.topic = "acls" => h.todo = <<"refresh">>
  /\ h.topic = "timeout" => h.todo = <<"setTimeout">>

PoolOK == pool \in Seq(HandlerRecord) /\ \A i \in DOMAIN pool : HandlerOK(pool[i])

EtcdOK ==
  /\ user \in [Users -> UserRecord \cup {Absent}]
  /\ device \in [Addresses -> DeviceRecord \cup {Absent}]
  /\ acl \in [Users -> Acls]
  /\ population \in SUBSET Users
  /\ deleting \in SUBSET Users
  /\ logins \in SUBSET {a \in Addresses : device[a] # Absent}

HandlersOK ==
  /\ PoolOK
  /\ Len(pool) <= MaxPending
  /\ order \in Orders
  /\ missed \in BOOLEAN

\* Until the router is set up nothing listens and no handler runs.
RouterOK ==
  /\ FirewallTypeOK
  /\ phase \in {"down", "read", "up"}
  /\ listening \in 0..Len(Topics)
  /\ phase # "up" => pool = <<>> /\ listening = 0
  /\ phase = "read" =>
       /\ snapshot.users \in [Users -> UserRecord \cup {Absent}]
       /\ snapshot.devices \in [Addresses -> DeviceRecord \cup {Absent}]

SyncTypes == EtcdOK /\ HandlersOK /\ RouterOK /\ granted \in [Addresses -> BOOLEAN]

-----------------------------------------------------------------------------
(***************************************************************************)
(* Sequences of calls and of handlers.                                     *)
(***************************************************************************)

\* A call that is made only where it is needed is a sequence of calls.
LEMMA CallIfSeq ==
  ASSUME NEW S, NEW needed, NEW call \in S
  PROVE  CallIf(needed, call) \in Seq(S)
<1>1. <<call>> \in Seq(S) /\ <<>> \in Seq(S)
  OBVIOUS
<1> QED
  BY <1>1, Zenon DEF CallIf

\* So is one sequence of calls after another.
LEMMA ConcatSeq ==
  ASSUME NEW S, NEW s \in Seq(S), NEW t \in Seq(S)
  PROVE  s \o t \in Seq(S)
OBVIOUS

\* A handler of a changed device makes the calls of deviceChanges, MODIFIED.
LEMMA DeviceCallsSeq ==
  ASSUME NEW S, NEW prev \in DeviceRecord, NEW cur \in DeviceRecord,
         NEW again \in BOOLEAN,
         {"replacePeer", "challenge", "checkLockout", "deauthenticate"} \subseteq S,
         cur.node # prev.node => "associate" \in S,
         again => "authorise" \in S
  PROVE  DeviceCalls(prev, cur, again) \in Seq(S)
<1>1. CallIf(cur.key # prev.key, "replacePeer") \in Seq(S)
  BY DEF CallIf
<1>2. CallIf(cur.endpoint # prev.endpoint, "challenge") \in Seq(S)
  BY DEF CallIf
<1>3. CallIf(cur.attempts > Lockout /\ cur.authorised, "checkLockout") \in Seq(S)
  BY DEF CallIf
<1>4. CallIf(~cur.authorised, "deauthenticate") \in Seq(S)
  BY DEF CallIf
<1>5. CallIf(cur.node # prev.node, "associate") \in Seq(S)
  BY DEF CallIf
<1>6. CallIf(again /\ cur.attempts <= Lockout /\ cur.node = prev.node, "authorise") \in Seq(S)
  BY DEF CallIf
<1> QED
  BY <1>1, <1>2, <1>3, <1>4, <1>5, <1>6, ConcatSeq DEF DeviceCalls

\* The calls for a changed user are calls of the users topic.
LEMMA UserCallsSeq ==
  ASSUME NEW prev, NEW cur
  PROVE  UserCalls(prev, cur) \in Seq({"lock", "deauthenticateAll"})
<1>1. CallIf(cur.locked # prev.locked \/ cur.locked, "lock") \in Seq({"lock", "deauthenticateAll"})
  BY CallIfSeq
<1>2. CallIf(cur.mfa # prev.mfa \/ ~cur.enforcing \/ cur.mfa = Unset, "deauthenticateAll")
        \in Seq({"lock", "deauthenticateAll"})
  BY CallIfSeq
<1> QED
  BY <1>1, <1>2, ConcatSeq DEF UserCalls

\* Removing a handler moves those behind it up by one.
LEMMA Removed ==
  ASSUME NEW S, NEW s \in Seq(S), NEW i \in DOMAIN s
  PROVE  /\ RemoveAt(s, i) \in Seq(S)
         /\ Len(RemoveAt(s, i)) = Len(s) - 1
         /\ \A k \in 1..(Len(s) - 1) :
              RemoveAt(s, i)[k] = IF k < i THEN s[k] ELSE s[k + 1]
<1>1. i \in 1..Len(s) /\ Len(s) \in Nat
  OBVIOUS
<1>2. /\ SubSeq(s, 1, i - 1) \in Seq(S) /\ Len(SubSeq(s, 1, i - 1)) = i - 1
      /\ \A k \in 1..(i - 1) : SubSeq(s, 1, i - 1)[k] = s[k]
  BY <1>1
<1>3. /\ SubSeq(s, i + 1, Len(s)) \in Seq(S) /\ Len(SubSeq(s, i + 1, Len(s))) = Len(s) - i
      /\ \A k \in 1..(Len(s) - i) : SubSeq(s, i + 1, Len(s))[k] = s[k + i]
  BY <1>1
<1>4. PICK front \in Seq(S), back \in Seq(S) :
        /\ RemoveAt(s, i) = front \o back
        /\ Len(front) = i - 1 /\ \A k \in 1..(i - 1) : front[k] = s[k]
        /\ Len(back) = Len(s) - i /\ \A k \in 1..(Len(s) - i) : back[k] = s[k + i]
  BY <1>2, <1>3 DEF RemoveAt
<1>5. RemoveAt(s, i) \in Seq(S) /\ Len(RemoveAt(s, i)) = Len(s) - 1
  BY <1>1, <1>4
<1>6. ASSUME NEW k \in 1..(Len(s) - 1)
      PROVE  RemoveAt(s, i)[k] = IF k < i THEN s[k] ELSE s[k + 1]
  <2>1. CASE k < i
    BY <1>1, <1>4, <2>1
  <2>2. CASE k >= i
    <3>0. k \in Int /\ i \in Int /\ Len(s) \in Int /\ k <= Len(s) - 1
      BY <1>1
    <3>1. PICK m \in Int : m = k - (i - 1)
      BY <3>0
    <3>4. m \in 1..(Len(s) - i) /\ m + i = k + 1
      BY <2>2, <3>0, <3>1
    <3>2. RemoveAt(s, i)[k] = back[m]
      <4>1. k \in 1..(Len(front) + Len(back)) /\ ~(k <= Len(front)) /\ k - Len(front) = m
        BY <1>1, <1>4, <2>2, <3>0, <3>1
      <4>2. (front \o back)[k] = back[k - Len(front)]
        BY <4>1, ConcatProperties
      <4> QED
        BY <1>4, <4>1, <4>2
    <3>3. back[m] = s[k + 1]
      BY <1>4, <3>4
    <3> QED
      BY <1>1, <2>2, <3>2, <3>3
  <2> QED
    BY <1>1, <2>1, <2>2
<1> QED
  BY <1>5, <1>6

\* What the snapshot of etcd is turned into.
LEMMA SetupParts ==
  ASSUME NEW us \in [Users -> UserRecord \cup {Absent}],
         NEW ds \in [Addresses -> DeviceRecord \cup {Absent}],
         NEW acls, \A u \in Users : us[u] # Absent => acls[u] \in Acls
  PROVE  LET wg == SetupWireguard(ds)
             xdp == SetupXDP(us, ds, acls) IN
         /\ wg.peers \in [Keys -> Addresses \cup {NoAddress, Absent}]
         /\ wg.usersToAddresses \in [Users -> AddressMap \cup {Absent}]
         /\ wg.addressesToUsers \in [Addresses -> Users \cup {Absent}]
         /\ xdp.accountLocked \in [Users -> BOOLEAN \cup {Absent}]
         /\ xdp.policies \in [Users -> Acls \cup {Absent}]
         /\ xdp.xdpDevices \in [Addresses -> FwEntry \cup {Absent}]
<1> DEFINE owned(u) == {a \in Addresses : ds[a] # Absent /\ ds[a].owner = u}
           at(k) == {a \in Addresses : ds[a] # Absent /\ ds[a].key = k}
           map(u) == [a \in Addresses |-> IF a \in owned(u) THEN ds[a].key ELSE Absent]
           xdp == SetupXDP(us, ds, acls)
           wg == SetupWireguard(ds)
<1>1. \A a \in Addresses : ds[a] # Absent =>
        ds[a].owner \in Users /\ ds[a].key \in Keys /\ ds[a].node \in Nodes \cup {NoNode}
  BY DEF DeviceRecord
<1>2. \A u \in Users : us[u] # Absent => us[u].locked \in BOOLEAN
  BY DEF UserRecord
<1>3. wg.peers = [k \in Keys |-> IF at(k) = {} THEN Absent ELSE CHOOSE a \in at(k) : TRUE]
  BY DEF SetupWireguard
<1>4. \A k \in Keys : at(k) # {} => (CHOOSE a \in at(k) : TRUE) \in Addresses
  <2> TAKE k \in Keys
  <2> HAVE at(k) # {}
  <2>1. (CHOOSE a \in at(k) : TRUE) \in at(k)
    BY Zenon
  <2> QED
    BY <2>1
<1>5. wg.peers \in [Keys -> Addresses \cup {NoAddress, Absent}]
  BY <1>3, <1>4
<1>6. \A u \in Users : map(u) \in AddressMap
  BY <1>1 DEF AddressMap
<1>7. wg.usersToAddresses = [u \in Users |-> IF owned(u) = {} THEN Absent ELSE map(u)]
  BY DEF SetupWireguard
<1>8. wg.usersToAddresses \in [Users -> AddressMap \cup {Absent}]
  <2> HIDE DEF map, owned
  <2> QED
    BY <1>6, <1>7
<1>9. wg.addressesToUsers \in [Addresses -> Users \cup {Absent}]
  BY <1>1 DEF SetupWireguard
<1>10. xdp.accountLocked \in [Users -> BOOLEAN \cup {Absent}]
  BY <1>2 DEF SetupXDP
<1>11. xdp.policies \in [Users -> Acls \cup {Absent}]
  BY DEF SetupXDP
<1>12. \A a \in Addresses : ds[a] # Absent =>
         [user |-> ds[a].owner, session |-> "none", node |-> ds[a].node] \in FwEntry
  BY <1>1 DEF FwEntry, SessionStates
<1>13. xdp.xdpDevices \in [Addresses -> FwEntry \cup {Absent}]
  BY <1>12 DEF SetupXDP
<1> QED
  BY <1>5, <1>8, <1>9, <1>10, <1>11, <1>13

\* Setup makes maps of the right types from any records.
LEMMA SetupType ==
  ASSUME NEW us \in [Users -> UserRecord \cup {Absent}],
         NEW ds \in [Addresses -> DeviceRecord \cup {Absent}],
         NEW acls, \A u \in Users : us[u] # Absent => acls[u] \in Acls,
         Setup(us, ds, acls)
  PROVE  FirewallTypeOK'
<1> DEFINE wg == SetupWireguard(ds)
           xdp == SetupXDP(us, ds, acls)
<1>1. /\ peers' = wg.peers
      /\ usersToAddresses' = wg.usersToAddresses
      /\ addressesToUsers' = wg.addressesToUsers
      /\ accountLocked' = xdp.accountLocked
      /\ policies' = xdp.policies
      /\ xdpDevices' = xdp.xdpDevices
  BY DEF Setup
<1>2. /\ wg.peers \in [Keys -> Addresses \cup {NoAddress, Absent}]
      /\ wg.usersToAddresses \in [Users -> AddressMap \cup {Absent}]
      /\ wg.addressesToUsers \in [Addresses -> Users \cup {Absent}]
      /\ xdp.accountLocked \in [Users -> BOOLEAN \cup {Absent}]
      /\ xdp.policies \in [Users -> Acls \cup {Absent}]
      /\ xdp.xdpDevices \in [Addresses -> FwEntry \cup {Absent}]
  BY SetupParts
<1> HIDE DEF wg, xdp
<1> QED
  BY <1>1, <1>2 DEF FirewallTypeOK, AddressMap

(***************************************************************************)
(* The pool of handlers.                                                   *)
(***************************************************************************)

\* The inductive invariant has the type invariant for a part.
LEMMA TypesImply == SyncTypes => SyncTypeOK
<1> SUFFICES ASSUME SyncTypes PROVE SyncTypeOK
  OBVIOUS
<1>1. ASSUME NEW i \in DOMAIN pool
      PROVE  pool[i].todo # <<>> /\ ToSet(pool[i].todo) \in SUBSET Steps
  <2>1. HandlerOK(pool[i])
    BY DEF SyncTypes, HandlersOK, PoolOK
  <2>2. pool[i].todo # <<>> /\ pool[i].todo \in Seq(Steps)
    BY <2>1 DEF HandlerOK, HandlerRecord
  <2> QED
    BY <2>2 DEF ToSet
<1> QED
  BY <1>1 DEF SyncTypes, EtcdOK, HandlersOK, RouterOK, SyncTypeOK

\* Publishing events of the right types keeps the pool and the missed flag.
LEMMA Published ==
  ASSUME SyncTypes, NEW topic, NEW hs \in Seq(HandlerRecord),
         \A n \in DOMAIN hs : HandlerOK(hs[n]), Publish(topic, hs)
  PROVE  HandlersOK' /\ RouterOK' /\ UNCHANGED <<firewall, population>>
<1> USE FirewallSyncAssumption
<1>1. /\ Len(pool) + Len(hs) <= MaxPending
      /\ IF topic \in Registered
         THEN pool' = pool \o hs /\ UNCHANGED missed
         ELSE missed' = (missed \/ phase # "down") /\ UNCHANGED pool
      /\ UNCHANGED <<firewall, population, phase, snapshot, listening, order>>
  BY DEF Publish, router
<1>2. pool \in Seq(HandlerRecord) /\ \A i \in DOMAIN pool : HandlerOK(pool[i])
  BY DEF SyncTypes, HandlersOK, PoolOK
<1>3. CASE topic \in Registered
  <2>0. pool' = pool \o hs /\ pool \in Seq(HandlerRecord)
    BY <1>1, <1>2, <1>3
  <2>1. pool' \in Seq(HandlerRecord) /\ Len(pool') = Len(pool) + Len(hs)
    BY <2>0, ConcatProperties
  <2>2. ASSUME NEW i \in DOMAIN pool' PROVE HandlerOK(pool'[i])
    <3>1. i \in 1..(Len(pool) + Len(hs)) /\ Len(pool) \in Nat /\ Len(hs) \in Nat
      BY <1>2, <2>1
    <3>2. CASE i <= Len(pool)
      BY <1>1, <1>2, <1>3, <3>1, <3>2
    <3>3. CASE i > Len(pool)
      <4>1. PICK m \in Int : m = i - Len(pool)
        BY <3>1
      <4>2. m \in DOMAIN hs /\ pool'[i] = hs[m]
        BY <1>1, <1>2, <1>3, <3>1, <3>3, <4>1
      <4> QED
        BY <4>2
    <3> QED
      BY <3>1, <3>2, <3>3
  <2>3. phase = "up"
    BY <1>3 DEF Registered, SyncTypes, RouterOK
  <2>4. HandlersOK'
    BY <1>1, <1>3, <2>1, <2>2 DEF SyncTypes, HandlersOK, PoolOK, HandlerOK
  <2> QED
    BY <1>1, <2>3, <2>4 DEF SyncTypes, RouterOK, FirewallTypeOK, firewall
<1>4. CASE topic \notin Registered
  <2>1. missed' \in BOOLEAN
    BY <1>1, <1>4
  <2>2. HandlersOK'
    BY <1>1, <1>4, <2>1 DEF SyncTypes, HandlersOK, PoolOK, HandlerOK
  <2> QED
    BY <1>1, <1>4, <2>2 DEF SyncTypes, RouterOK, FirewallTypeOK, firewall
<1> QED
  BY <1>3, <1>4

\* A handler of the right types makes an event of the right types, or none.
LEMMA EventOK ==
  ASSUME NEW h, h.todo # <<>> => HandlerOK(h)
  PROVE  Event(h) \in Seq(HandlerRecord) /\ \A n \in DOMAIN Event(h) : HandlerOK(Event(h)[n])
<1>1. CASE h.todo = <<>>
  BY <1>1 DEF Event
<1>2. CASE h.todo # <<>>
  <2>1. Event(h) = <<h>> /\ h \in HandlerRecord /\ HandlerOK(h)
    BY <1>2 DEF Event, HandlerOK
  <2> QED
    BY <2>1
<1> QED
  BY <1>1, <1>2

\* A sequence of one handler.
LEMMA SingleOK ==
  ASSUME NEW h, HandlerOK(h)
  PROVE  <<h>> \in Seq(HandlerRecord) /\ \A n \in DOMAIN <<h>> : HandlerOK(<<h>>[n])
<1>1. h \in HandlerRecord
  BY DEF HandlerOK
<1> QED
  BY <1>1

\* A handler is replaced by what is left of it.
LEMMA Rewritten ==
  ASSUME SyncTypes, NEW i \in DOMAIN pool, NEW h, HandlerOK(h), pool' = [pool EXCEPT ![i] = h],
         NoteOrder(i), UNCHANGED <<etcd, router, missed>>, FirewallTypeOK'
  PROVE  EtcdOK' /\ HandlersOK' /\ RouterOK'
<1> USE FirewallSyncAssumption
<1>1. /\ UNCHANGED <<user, device, acl, population, deleting, logins>>
      /\ UNCHANGED <<phase, snapshot, listening, missed>>
  BY DEF etcd, router
<1>2. pool \in Seq(HandlerRecord) /\ \A k \in DOMAIN pool : HandlerOK(pool[k])
  BY DEF SyncTypes, HandlersOK, PoolOK
<1>3. phase = "up"
  BY <1>2 DEF SyncTypes, RouterOK
<1>4. order' \in Orders
  BY DEF NoteOrder, Orders, SyncTypes, HandlersOK
<1>5. h \in HandlerRecord
  BY DEF HandlerOK
<1>6. pool' \in Seq(HandlerRecord) /\ Len(pool') = Len(pool) /\ DOMAIN pool' = DOMAIN pool
  BY <1>2, <1>5
<1>7. ASSUME NEW k \in DOMAIN pool PROVE HandlerOK(pool'[k])
  BY <1>2
<1> QED
  BY <1>1, <1>3, <1>4, <1>6, <1>7
     DEF SyncTypes, EtcdOK, HandlersOK, RouterOK, PoolOK, HandlerOK

\* A handler goes on with other calls, or ends.
LEMMA Continued ==
  ASSUME SyncTypes, NEW i \in DOMAIN pool, NEW todo, Continue(i, todo), FirewallTypeOK',
         todo = <<>> \/ HandlerOK([pool[i] EXCEPT !.todo = todo, !.started = TRUE])
  PROVE  EtcdOK' /\ HandlersOK' /\ RouterOK'
<1> USE FirewallSyncAssumption
<1>1. /\ UNCHANGED <<user, device, acl, population, deleting, logins>>
      /\ UNCHANGED <<phase, snapshot, listening, missed>>
      /\ pool' = IF todo = <<>> THEN RemoveAt(pool, i)
                 ELSE [pool EXCEPT ![i].todo = todo, ![i].started = TRUE]
  BY DEF Continue, etcd, router
<1>2. pool \in Seq(HandlerRecord) /\ \A k \in DOMAIN pool : HandlerOK(pool[k])
  BY DEF SyncTypes, HandlersOK, PoolOK
<1>3. phase = "up"
  BY <1>2 DEF SyncTypes, RouterOK
<1>4. order' \in Orders
  BY DEF Continue, NoteOrder, Orders, SyncTypes, HandlersOK
<1>5. CASE todo = <<>>
  <2>1. /\ pool' \in Seq(HandlerRecord)
        /\ Len(pool') = Len(pool) - 1
        /\ \A k \in 1..(Len(pool) - 1) : pool'[k] = IF k < i THEN pool[k] ELSE pool[k + 1]
    BY <1>1, <1>2, <1>5, Removed
  <2>2. ASSUME NEW k \in DOMAIN pool' PROVE HandlerOK(pool'[k])
    <3>1. k \in 1..(Len(pool) - 1) /\ Len(pool) \in Nat
      BY <1>2, <2>1
    <3>2. k \in DOMAIN pool /\ k + 1 \in DOMAIN pool
      BY <1>2, <3>1
    <3> QED
      BY <1>2, <2>1, <3>1, <3>2
  <2>3. Len(pool') <= MaxPending
    BY <1>2, <2>1 DEF SyncTypes, HandlersOK
  <2> QED
    BY <1>1, <1>3, <1>4, <2>1, <2>2, <2>3 DEF SyncTypes, EtcdOK, HandlersOK, RouterOK, PoolOK, HandlerOK
<1>6. CASE todo # <<>>
  <2> DEFINE h == [pool[i] EXCEPT !.todo = todo, !.started = TRUE]
  <2>1. HandlerOK(h)
    BY <1>6
  <2>2. pool' = [pool EXCEPT ![i] = h]
    BY <1>1, <1>2, <1>6
  <2>3. NoteOrder(i) /\ UNCHANGED <<etcd, router, missed>>
    BY DEF Continue
  <2> HIDE DEF h
  <2> QED
    BY <2>1, <2>2, <2>3, Rewritten
<1> QED
  BY <1>5, <1>6

\* The first of one call and what follows it.
LEMMA HeadTail ==
  ASSUME NEW c, NEW d
  PROVE  /\ Head(<<c>>) = c /\ Tail(<<c>>) = <<>>
         /\ Head(<<c, d>>) = c /\ Tail(<<c, d>>) = <<d>>
<1>1. Head(<<c>>) = c /\ Head(<<c, d>>) = c
  OBVIOUS
<1>2. Tail(<<c>>) = <<>>
  OBVIOUS
<1>3. Tail(<<c, d>>) = <<d>>
  OBVIOUS
<1> QED
  BY <1>1, <1>2, <1>3

\* What is left of a handler after its first call.
LEMMA RestOK ==
  ASSUME NEW h, HandlerOK(h), Head(h.todo) # "readAcl"
  PROVE  Tail(h.todo) = <<>> \/ HandlerOK([h EXCEPT !.todo = Tail(h.todo), !.started = TRUE])
<1> DEFINE t == Tail(h.todo)
           n == [h EXCEPT !.todo = t, !.started = TRUE]
<1>1. /\ h \in HandlerRecord /\ h.todo # <<>> /\ h.todo \in Seq(Steps)
      /\ h.topic \in {"devices", "membership", "users", "acls", "timeout"}
  BY DEF HandlerOK, HandlerRecord
<1>2. t \in Seq(Steps)
  BY <1>1
<1>3. \A x \in HandlerRecord, s \in Seq(Steps) :
        /\ [x EXCEPT !.todo = s, !.started = TRUE] \in HandlerRecord
        /\ [x EXCEPT !.todo = s, !.started = TRUE].todo = s
        /\ [x EXCEPT !.todo = s, !.started = TRUE].topic = x.topic
        /\ [x EXCEPT !.todo = s, !.started = TRUE].id = x.id
        /\ [x EXCEPT !.todo = s, !.started = TRUE].cur = x.cur
        /\ [x EXCEPT !.todo = s, !.started = TRUE].old = x.old
  BY DEF HandlerRecord
<1>4. /\ n \in HandlerRecord /\ n.todo = t /\ n.topic = h.topic /\ n.id = h.id
      /\ n.cur = h.cur /\ n.old = h.old
  BY <1>1, <1>2, <1>3
<1> HIDE DEF n
<1> SUFFICES ASSUME t # <<>> PROVE HandlerOK(n)
  BY DEF n
<1>5. CASE h.topic = "devices"
  <2>1. h.id \in Addresses /\ h.cur \in DeviceRecord /\ (Creates(h) \/ Removes(h) \/ Changes(h))
    BY <1>5 DEF HandlerOK
  <2>2. ~Creates(h) /\ ~Removes(h)
    BY HeadTail, Zenon DEF Creates, Removes
  <2>3. /\ h.old \in Keys /\ h.todo \in Seq(ChangeCalls)
        /\ h.cur.node \in Nodes \/ h.todo \in Seq(ChangeCalls \ PlaceCalls)
    BY <2>1, <2>2 DEF Changes
  <2>4. t \in Seq(ChangeCalls) /\ (h.todo \in Seq(ChangeCalls \ PlaceCalls)
                                     => t \in Seq(ChangeCalls \ PlaceCalls))
    BY <1>1, <2>3
  <2>5. Changes(n)
    BY <1>4, <2>3, <2>4 DEF Changes
  <2> QED
    BY <1>4, <1>5, <2>1, <2>5 DEF HandlerOK
<1>6. CASE h.topic = "users"
  <2>1. /\ h.id \in Users /\ h.cur \in UserRecord
        /\ h.todo \in Seq({"lock", "deauthenticateAll"})
    <3>1. /\ h.id \in Users /\ h.cur \in UserRecord
          /\ \/ h.todo = <<"readAcl", "addUser">>
             \/ h.todo = <<"addUser">>
             \/ h.todo = <<"removeUser">>
             \/ h.todo \in Seq({"lock", "deauthenticateAll"})
      BY <1>6 DEF HandlerOK
    <3> QED
      BY <3>1, HeadTail, Zenon
  <2>2. t \in Seq({"lock", "deauthenticateAll"})
    BY <1>1, <2>1
  <2> QED
    BY <1>4, <1>6, <2>1, <2>2 DEF HandlerOK
<1>7. CASE h.topic \in {"membership", "acls", "timeout"}
  <2>1. h.todo = <<"refreshUser">> \/ h.todo = <<"refresh">> \/ h.todo = <<"setTimeout">>
    BY <1>7 DEF HandlerOK
  <2> QED
    BY <2>1, HeadTail, Zenon
<1> QED
  BY <1>1, <1>5, <1>6, <1>7

\* A handler that has made its call goes on to the next, or ends.
LEMMA Advanced ==
  ASSUME SyncTypes, NEW i \in DOMAIN pool, Head(pool[i].todo) # "readAcl",
         Proceed(i) \/ Fail(i), FirewallTypeOK'
  PROVE  EtcdOK' /\ HandlersOK' /\ RouterOK'
<1>1. HandlerOK(pool[i])
  BY DEF SyncTypes, HandlersOK, PoolOK
<1> QED
  BY <1>1, RestOK, Continued DEF Proceed, Fail

\* A handler whose next call is about a device.
LEMMA DeviceCall ==
  ASSUME SyncTypes, NEW i \in DOMAIN pool,
         Head(pool[i].todo) \in ChangeCalls \cup {"addPeer", "removePeer"}
  PROVE  /\ pool[i].topic = "devices" /\ pool[i].id \in Addresses /\ pool[i].cur \in DeviceRecord
         /\ pool[i].cur.owner \in Users /\ pool[i].cur.key \in Keys
         /\ pool[i].cur.node \in Nodes \cup {NoNode}
         /\ Head(pool[i].todo) = "addPeer" => Creates(pool[i])
         /\ Head(pool[i].todo) = "removePeer" => Removes(pool[i])
         /\ Head(pool[i].todo) \in ChangeCalls => Changes(pool[i])
         /\ Head(pool[i].todo) \in PlaceCalls => pool[i].cur.node \in Nodes
<1>1. HandlerOK(pool[i])
  BY DEF SyncTypes, HandlersOK, PoolOK
<1>2. /\ pool[i].topic \in {"devices", "membership", "users", "acls", "timeout"}
      /\ pool[i].todo \in Seq(Steps) /\ pool[i].todo # <<>>
  BY <1>1 DEF HandlerOK, HandlerRecord
<1>3. pool[i].topic # "users"
  BY <1>1, <1>2 DEF HandlerOK, ChangeCalls
<1>4. pool[i].topic \notin {"membership", "acls", "timeout"}
  BY <1>1, <1>2 DEF HandlerOK, ChangeCalls
<1>5. /\ pool[i].topic = "devices" /\ pool[i].id \in Addresses /\ pool[i].cur \in DeviceRecord
      /\ Creates(pool[i]) \/ Removes(pool[i]) \/ Changes(pool[i])
  BY <1>1, <1>2, <1>3, <1>4 DEF HandlerOK
<1>6. /\ pool[i].cur.owner \in Users /\ pool[i].cur.key \in Keys
      /\ pool[i].cur.node \in Nodes \cup {NoNode}
  BY <1>5 DEF DeviceRecord
<1>7. /\ Creates(pool[i]) => Head(pool[i].todo) = "addPeer"
      /\ Removes(pool[i]) => Head(pool[i].todo) = "removePeer"
      /\ Changes(pool[i]) => Head(pool[i].todo) \in ChangeCalls
  BY <1>2 DEF Creates, Removes, Changes
<1>8. Head(pool[i].todo) \in PlaceCalls => pool[i].cur.node \in Nodes
  <2> SUFFICES ASSUME Head(pool[i].todo) \in PlaceCalls PROVE pool[i].cur.node \in Nodes
    OBVIOUS
  <2>1. Changes(pool[i])
    BY <1>5, <1>7 DEF PlaceCalls
  <2>2. pool[i].todo \notin Seq(ChangeCalls \ PlaceCalls)
    BY <1>2
  <2> QED
    BY <2>1, <2>2 DEF Changes
<1> QED
  BY <1>5, <1>6, <1>7, <1>8 DEF ChangeCalls

\* A handler whose next call is about a user.
LEMMA UserCall ==
  ASSUME SyncTypes, NEW i \in DOMAIN pool,
         Head(pool[i].todo) \in
           {"readAcl", "addUser", "removeUser", "lock", "deauthenticateAll", "refreshUser"}
  PROVE  /\ pool[i].id \in Users
         /\ Head(pool[i].todo) # "refreshUser" => pool[i].topic = "users"
         /\ Head(pool[i].todo) = "lock" => pool[i].cur.locked \in BOOLEAN
         /\ Head(pool[i].todo) = "readAcl" => Tail(pool[i].todo) = <<"addUser">>
         /\ Head(pool[i].todo) = "addUser" => pool[i].acl \in Acls
<1>1. HandlerOK(pool[i])
  BY DEF SyncTypes, HandlersOK, PoolOK
<1>2. /\ pool[i].topic \in {"devices", "membership", "users", "acls", "timeout"}
      /\ pool[i].todo \in Seq(Steps) /\ pool[i].todo # <<>>
  BY <1>1 DEF HandlerOK, HandlerRecord
<1>3. pool[i].topic # "devices"
  <2>1. \A s \in Seq(ChangeCalls) : s # <<>> => Head(s) \in ChangeCalls
    OBVIOUS
  <2> QED
    BY <1>1, <1>2, <2>1 DEF HandlerOK, Creates, Removes, Changes, ChangeCalls
<1>4. pool[i].topic \notin {"acls", "timeout"}
  BY <1>1, <1>2 DEF HandlerOK
<1>5. CASE pool[i].topic = "membership"
  BY <1>1, <1>5 DEF HandlerOK
<1>6. CASE pool[i].topic = "users"
  <2>1. pool[i].cur.locked \in BOOLEAN
    BY <1>1, <1>6 DEF HandlerOK, UserRecord
  <2>2. pool[i].todo \in Seq({"lock", "deauthenticateAll"}) =>
          Head(pool[i].todo) \in {"lock", "deauthenticateAll"}
    BY <1>2
  <2>3. /\ pool[i].id \in Users
        /\ \/ pool[i].todo = <<"readAcl", "addUser">>
           \/ pool[i].todo = <<"addUser">> /\ pool[i].acl \in Acls
           \/ pool[i].todo = <<"removeUser">>
           \/ pool[i].todo \in Seq({"lock", "deauthenticateAll"})
    BY <1>1, <1>6 DEF HandlerOK
  <2>4. Head(pool[i].todo) = "readAcl" => pool[i].todo = <<"readAcl", "addUser">>
    BY <2>2, <2>3, HeadTail
  <2>5. Head(pool[i].todo) = "addUser" => pool[i].acl \in Acls
    BY <2>2, <2>3, HeadTail
  <2>6. Head(pool[i].todo) = "readAcl" => Tail(pool[i].todo) = <<"addUser">>
    BY <2>4, HeadTail, Zenon
  <2> QED
    BY <1>6, <2>1, <2>3, <2>5, <2>6
<1> QED
  BY <1>2, <1>3, <1>4, <1>5, <1>6

(***************************************************************************)
(* The records that are written.                                           *)
(***************************************************************************)

\* Any field of a user that is written leaves a user.
LEMMA UserWritten ==
  ASSUME NEW r \in UserRecord
  PROVE  /\ NewUser \in UserRecord
         /\ \A l \in BOOLEAN : WithLock(r, l) \in UserRecord
         /\ \A m \in Mfas \cup {Unset} : WithMfa(r, m) \in UserRecord
         /\ \A e \in BOOLEAN : WithEnforcing(r, e) \in UserRecord
BY DEF UserRecord, NewUser, WithLock, WithMfa, WithEnforcing

\* What a write keeps of the owner and of the node of a device.
LEMMA DeviceWritten ==
  ASSUME NEW d \in DeviceRecord
  PROVE  /\ \A k \in Keys : /\ WithKey(d, k) \in DeviceRecord
                            /\ WithKey(d, k).owner = d.owner /\ WithKey(d, k).node = d.node
         /\ /\ WithAttempt(d) \in DeviceRecord
            /\ WithAttempt(d).owner = d.owner /\ WithAttempt(d).node = d.node
         /\ \A n \in {0, Lockout + 1} :
              /\ WithAttempts(d, n) \in DeviceRecord
              /\ WithAttempts(d, n).owner = d.owner /\ WithAttempts(d, n).node = d.node
         /\ \A n \in Nodes :
              /\ WithAuthorisation(d, n) \in DeviceRecord
              /\ WithAuthorisation(d, n).owner = d.owner /\ WithAuthorisation(d, n).node = n
         /\ /\ WithoutAuthorisation(d) \in DeviceRecord
            /\ WithoutAuthorisation(d).owner = d.owner /\ WithoutAuthorisation(d).node = d.node
         /\ \A e \in Endpoints, n \in Nodes :
              /\ WithConnection(d, e, n) \in DeviceRecord
              /\ WithConnection(d, e, n).owner = d.owner /\ WithConnection(d, e, n).node = n
<1> USE LockoutAssumption DEF DeviceRecord
<1>1. \A k \in Keys : /\ WithKey(d, k) \in DeviceRecord
                      /\ WithKey(d, k).owner = d.owner /\ WithKey(d, k).node = d.node
  BY DEF WithKey
<1>2. /\ WithAttempt(d) \in DeviceRecord
      /\ WithAttempt(d).owner = d.owner /\ WithAttempt(d).node = d.node
  BY DEF WithAttempt
<1>3. \A n \in {0, Lockout + 1} :
        /\ WithAttempts(d, n) \in DeviceRecord
        /\ WithAttempts(d, n).owner = d.owner /\ WithAttempts(d, n).node = d.node
  BY DEF WithAttempts
<1>4. ASSUME NEW n \in Nodes
      PROVE  /\ WithAuthorisation(d, n) \in DeviceRecord
             /\ WithAuthorisation(d, n).owner = d.owner /\ WithAuthorisation(d, n).node = n
  <2> DEFINE f == [d EXCEPT !.authorised = TRUE]
             g == [f EXCEPT !.attempts = 0]
             h == [g EXCEPT !.node = n]
  <2>1. f \in DeviceRecord /\ f.owner = d.owner
    OBVIOUS
  <2>2. g \in DeviceRecord /\ g.owner = d.owner
    <3> HIDE DEF f
    <3> QED
      BY <2>1
  <2>3. h \in DeviceRecord /\ h.owner = d.owner /\ h.node = n
    <3> HIDE DEF g
    <3> QED
      BY <2>2
  <2>4. WithAuthorisation(d, n) = h
    BY DEF WithAuthorisation
  <2> HIDE DEF h
  <2> QED
    BY <2>3, <2>4
<1>5. /\ WithoutAuthorisation(d) \in DeviceRecord
      /\ WithoutAuthorisation(d).owner = d.owner /\ WithoutAuthorisation(d).node = d.node
  BY DEF WithoutAuthorisation
<1>6. \A e \in Endpoints, n \in Nodes :
        /\ WithConnection(d, e, n) \in DeviceRecord
        /\ WithConnection(d, e, n).owner = d.owner /\ WithConnection(d, e, n).node = n
  BY DEF WithConnection
<1> QED
  BY <1>1, <1>2, <1>3, <1>4, <1>5, <1>6

\* A device that is there, and what it is written as.
LEMMA DeviceThere ==
  ASSUME SyncTypes, NEW a \in Addresses, device[a] # Absent
  PROVE  device[a] \in DeviceRecord
BY DEF SyncTypes, EtcdOK

\* Revoking grants keeps the grants of every address.
LEMMA RevokedType == \A S : SyncTypes => Revoked(S) \in [Addresses -> BOOLEAN]
BY DEF SyncTypes, Revoked

\* A handler of a written record is of the right types.
LEMMA NewHandler ==
  ASSUME NEW topic \in {"devices", "membership", "users", "acls", "timeout"},
         NEW id \in Addresses \cup Users \cup {Absent},
         NEW cur \in DeviceRecord \cup UserRecord \cup {Absent},
         NEW old \in Keys \cup {Absent}, NEW todo \in Seq(Steps)
  PROVE  Handler(topic, id, cur, old, todo) \in HandlerRecord
BY DEF Handler, HandlerRecord

-----------------------------------------------------------------------------
(***************************************************************************)
(* Writers.                                                                *)
(***************************************************************************)

\* A changed user.
LEMMA WriteUserType ==
  ASSUME SyncTypes, NEW u \in Users, NEW new, NEW ends \in BOOLEAN,
         user[u] # Absent => new \in UserRecord, WriteUser(u, new, ends)
  PROVE  SyncTypes'
<1> DEFINE h == Handler("users", u, new, Absent, UserCalls(user[u], new))
<1>1. /\ user' = [user EXCEPT ![u] = new]
      /\ Publish("users", Event(h))
      /\ granted' = Revoked(IF ends THEN Owned(u) ELSE {})
      /\ UNCHANGED <<device, acl, deleting, logins>>
      /\ new \in UserRecord
  BY DEF WriteUser
<1>2. UserCalls(user[u], new) \in Seq({"lock", "deauthenticateAll"})
  BY UserCallsSeq
<1>3. UserCalls(user[u], new) \in Seq(Steps)
  BY <1>2 DEF Steps
<1>4. h \in HandlerRecord
  BY <1>1, <1>3, NewHandler
<1>5. h.todo # <<>> => HandlerOK(h)
  BY <1>1, <1>2, <1>4 DEF HandlerOK, Handler
<1> HIDE DEF h
<1>6. HandlersOK' /\ RouterOK' /\ UNCHANGED population
  BY <1>1, <1>5, EventOK, Published
<1>7. EtcdOK'
  BY <1>1, <1>6 DEF SyncTypes, EtcdOK
<1> QED
  BY <1>1, <1>6, <1>7, RevokedType DEF SyncTypes

\* A new user.
LEMMA CreateUserType ==
  ASSUME SyncTypes, NEW u \in Users, CreateUser(u)
  PROVE  SyncTypes'
<1> DEFINE h == Handler("users", u, NewUser, Absent, <<"readAcl", "addUser">>)
<1>0. NewUser \in UserRecord
  BY DEF NewUser, UserRecord
<1>1. <<"readAcl", "addUser">> \in Seq(Steps)
  BY DEF Steps
<1>2. h \in HandlerRecord
  BY <1>0, <1>1, NewHandler
<1>3. HandlerOK(h)
  BY <1>0, <1>2 DEF HandlerOK, Handler
<1>4. Publish("users", <<h>>)
  BY DEF CreateUser
<1> HIDE DEF h
<1>5. HandlersOK' /\ RouterOK' /\ UNCHANGED population
  BY <1>3, <1>4, SingleOK, Published
<1>6. EtcdOK' /\ granted' \in [Addresses -> BOOLEAN]
  BY <1>0, <1>5 DEF CreateUser, SyncTypes, EtcdOK
<1> QED
  BY <1>5, <1>6 DEF SyncTypes

\* A deleted user, whose devices are deleted after it.
LEMMA DeleteUserType ==
  ASSUME SyncTypes, NEW u \in Users, DeleteUser(u)
  PROVE  SyncTypes'
<1> DEFINE h == Handler("users", u, user[u], Absent, <<"removeUser">>)
<1>0. user[u] \in UserRecord
  BY DEF DeleteUser, SyncTypes, EtcdOK
<1>1. <<"removeUser">> \in Seq(Steps)
  BY DEF Steps
<1>2. h \in HandlerRecord
  BY <1>0, <1>1, NewHandler
<1>3. HandlerOK(h)
  BY <1>0, <1>2 DEF HandlerOK, Handler
<1>4. Publish("users", <<h>>)
  BY DEF DeleteUser
<1> HIDE DEF h
<1>5. HandlersOK' /\ RouterOK' /\ UNCHANGED population
  BY <1>3, <1>4, SingleOK, Published
<1>6. /\ user' = [user EXCEPT ![u] = Absent]
      /\ deleting' = deleting \cup {u}
      /\ UNCHANGED <<device, acl, logins>>
      /\ granted' = Revoked(Owned(u))
  BY DEF DeleteUser
<1>7. EtcdOK'
  BY <1>5, <1>6 DEF SyncTypes, EtcdOK
<1> QED
  BY <1>5, <1>6, <1>7, RevokedType DEF SyncTypes

\* The handlers of the devices of a user, one for each.
LEMMA RemovalOK ==
  ASSUME SyncTypes, NEW a \in Addresses, device[a] # Absent
  PROVE  HandlerOK(Removal(a)) /\ Removal(a) \in HandlerRecord
<1>1. device[a] \in DeviceRecord
  BY DeviceThere
<1>2. <<"removePeer">> \in Seq(Steps)
  BY DEF Steps
<1>3. Removal(a) \in HandlerRecord
  BY <1>1, <1>2, NewHandler DEF Removal
<1> QED
  BY <1>1, <1>3 DEF HandlerOK, Removal, Handler, Removes

\* The members of a set one after the other are all members, and only those.
LEMMA OrderedLemma ==
  ASSUME NEW S, NEW key \in InSomeOrder(S)
  PROVE  \E n \in Nat : /\ key \in [1..n -> S] /\ DOMAIN key = 1..n
                        /\ \A x \in S : \E i \in 1..n : key[i] = x
                        /\ \A i, j \in 1..n : key[i] = key[j] => i = j
<1>1. PICK n \in 0..MaxPending : key \in Bijection(1..n, S)
  BY DEF InSomeOrder
<1>2. n \in Nat
  BY <1>1, FirewallSyncAssumption
<1> QED
  BY <1>1, <1>2 DEF Bijection, Injection, IsInjective, Surjection

\* The devices of a deleted user, in any order.
LEMMA DeleteDevicesType ==
  ASSUME SyncTypes, NEW u \in Users, DeleteDevices(u)
  PROVE  SyncTypes'
<1>1. PICK key \in InSomeOrder(Owned(u)) :
        Publish("devices", [n \in DOMAIN key |-> Removal(key[n])])
  BY DEF DeleteDevices
<1> DEFINE hs == [n \in DOMAIN key |-> Removal(key[n])]
<1>2. PICK n \in Nat : key \in [1..n -> Owned(u)] /\ DOMAIN key = 1..n
  BY OrderedLemma
<1>3. \A m \in 1..n : HandlerOK(Removal(key[m])) /\ Removal(key[m]) \in HandlerRecord
  BY <1>2, RemovalOK DEF Owned
<1>4. hs \in Seq(HandlerRecord) /\ DOMAIN hs = 1..n
  BY <1>2, <1>3
<1>5. \A m \in DOMAIN hs : HandlerOK(hs[m])
  BY <1>2, <1>3
<1>6. Publish("devices", hs)
  BY <1>1
<1> HIDE DEF hs
<1>7. HandlersOK' /\ RouterOK' /\ UNCHANGED population
  BY <1>4, <1>5, <1>6, Published
<1>8. /\ device' = [a \in Addresses |-> IF a \in Owned(u) THEN Absent ELSE device[a]]
      /\ deleting' = deleting \ {u}
      /\ logins' = logins \ Owned(u)
      /\ granted' = Revoked(Owned(u))
      /\ UNCHANGED <<user, acl>>
  BY DEF DeleteDevices
<1>9. EtcdOK'
  BY <1>7, <1>8 DEF SyncTypes, EtcdOK
<1> QED
  BY <1>7, <1>8, <1>9, RevokedType DEF SyncTypes

\* A new device.
LEMMA AddDeviceType ==
  ASSUME SyncTypes, NEW u \in Users, NEW a \in Addresses, NEW k \in Keys, AddDevice(u, a, k)
  PROVE  SyncTypes'
<1> DEFINE new == NewDevice(u, k)
           h == Handler("devices", a, new, Absent, <<"addPeer">>)
<1>0. new \in DeviceRecord
  BY LockoutAssumption DEF NewDevice, DeviceRecord
<1>1. <<"addPeer">> \in Seq(Steps)
  BY DEF Steps
<1> HIDE DEF new
<1>2. h \in HandlerRecord
  BY <1>0, <1>1, NewHandler
<1>3. HandlerOK(h)
  BY <1>0, <1>2 DEF HandlerOK, Handler, Creates
<1>4. /\ Publish("devices", <<h>>)
      /\ device' = [device EXCEPT ![a] = new]
      /\ UNCHANGED <<user, acl, deleting, logins, granted>>
  BY DEF AddDevice, new
<1> HIDE DEF h
<1>5. HandlersOK' /\ RouterOK' /\ UNCHANGED population
  BY <1>3, <1>4, SingleOK, Published
<1>6. EtcdOK'
  BY <1>0, <1>4, <1>5, AbsentAssumption DEF SyncTypes, EtcdOK
<1> QED
  BY <1>4, <1>5, <1>6 DEF SyncTypes

\* A deleted device.
LEMMA DeleteDeviceType ==
  ASSUME SyncTypes, NEW a \in Addresses, DeleteDevice(a)
  PROVE  SyncTypes'
<1>1. /\ device[a] # Absent
      /\ device' = [device EXCEPT ![a] = Absent]
      /\ logins' = logins \ {a}
      /\ Publish("devices", <<Removal(a)>>)
      /\ granted' = Revoked({a})
      /\ UNCHANGED <<user, acl, deleting>>
  BY DEF DeleteDevice
<1>2. HandlersOK' /\ RouterOK' /\ UNCHANGED population
  BY <1>1, RemovalOK, SingleOK, Published
<1>3. EtcdOK'
  BY <1>1, <1>2 DEF SyncTypes, EtcdOK
<1> QED
  BY <1>1, <1>2, <1>3, RevokedType DEF SyncTypes

\* The handler of a changed device knows where the device is if it has to
\* tell the router.
LEMMA ChangeOK ==
  ASSUME SyncTypes, NEW a \in Addresses, device[a] # Absent, NEW new \in DeviceRecord,
         NEW again \in BOOLEAN,
         new.node \in Nodes \/ (~again /\ new.node = device[a].node),
         NEW h,
         h = Handler("devices", a, new, device[a].key, DeviceCalls(device[a], new, again)),
         h.todo # <<>>
  PROVE  HandlerOK(h)
<1> DEFINE calls == DeviceCalls(device[a], new, again)
<1>1. device[a] \in DeviceRecord /\ device[a].key \in Keys
  BY DeviceThere DEF DeviceRecord
<1>0. /\ {"replacePeer", "challenge", "checkLockout", "deauthenticate"}
           \subseteq ChangeCalls \ PlaceCalls
      /\ ChangeCalls \ PlaceCalls \subseteq ChangeCalls
      /\ "associate" \in ChangeCalls /\ "authorise" \in ChangeCalls
  BY DEF ChangeCalls, PlaceCalls
<1>2. calls \in Seq(ChangeCalls)
  BY <1>0, <1>1, DeviceCallsSeq
<1>3. new.node \in Nodes \/ calls \in Seq(ChangeCalls \ PlaceCalls)
  <2>1. CASE ~again /\ new.node = device[a].node
    BY <1>0, <1>1, <2>1, DeviceCallsSeq
  <2> QED
    BY <2>1
<1>4. calls \in Seq(Steps)
  BY <1>2 DEF ChangeCalls, Steps
<1> HIDE DEF calls
<1>5. h \in HandlerRecord
  BY <1>1, <1>4, NewHandler DEF calls
<1>6. /\ h.topic = "devices" /\ h.id = a /\ h.cur = new /\ h.old = device[a].key
      /\ h.todo = calls
  BY DEF Handler, calls
<1>7. Changes(h)
  BY <1>1, <1>2, <1>3, <1>6 DEF Changes
<1> QED
  BY <1>5, <1>6, <1>7 DEF HandlerOK

\* A changed device.
LEMMA WriteDeviceType ==
  ASSUME SyncTypes, NEW a \in Addresses, NEW new, NEW again \in BOOLEAN,
         device[a] # Absent =>
           /\ new \in DeviceRecord
           /\ new.node \in Nodes \/ (~again /\ new.node = device[a].node),
         WriteDevice(a, new, again), granted' \in [Addresses -> BOOLEAN]
  PROVE  SyncTypes'
<1> DEFINE h == Handler("devices", a, new, device[a].key, DeviceCalls(device[a], new, again))
<1>1. /\ device[a] # Absent
      /\ device' = [device EXCEPT ![a] = new]
      /\ logins' = logins \ {a}
      /\ Publish("devices", Event(h))
      /\ UNCHANGED <<user, acl, deleting>>
  BY DEF WriteDevice
<1>2. h.todo # <<>> => HandlerOK(h)
  BY <1>1, ChangeOK
<1> HIDE DEF h
<1>3. HandlersOK' /\ RouterOK' /\ UNCHANGED population
  BY <1>1, <1>2, EventOK, Published
<1>4. EtcdOK'
  BY <1>1, <1>3, AbsentAssumption DEF SyncTypes, EtcdOK
<1> QED
  BY <1>3, <1>4 DEF SyncTypes

\* The writes of a device that is there.
LEMMA DeviceWriteType ==
  ASSUME SyncTypes, NEW a \in Addresses,
         \/ \E u \in Users, k \in Keys : AddDevice(u, a, k)
         \/ DeleteDevice(a)
         \/ \E k \in Keys : UpdateDevicePublicKey(a, k)
         \/ IncrementAuthenticationAttempt(a)
         \/ \E n \in {0, Lockout + 1} : SetDeviceAuthenticationAttempts(a, n)
         \/ CheckAccountLock(a)
         \/ \E n \in Nodes :
              AuthoriseDevice(a, n) \/ \E e \in Endpoints : UpdateDeviceConnectionDetails(a, e, n)
         \/ DeauthenticateDevice(a)
  PROVE  SyncTypes'
<1>0. Revoked({a}) \in [Addresses -> BOOLEAN] /\ granted \in [Addresses -> BOOLEAN]
  BY RevokedType DEF SyncTypes
<1>1. device[a] # Absent => device[a] \in DeviceRecord
  BY DeviceThere
<1>2. ASSUME NEW k \in Keys, UpdateDevicePublicKey(a, k) PROVE SyncTypes'
  BY <1>0, <1>1, <1>2, DeviceWritten, WriteDeviceType DEF UpdateDevicePublicKey
<1>3. CASE IncrementAuthenticationAttempt(a)
  BY <1>0, <1>1, <1>3, DeviceWritten, WriteDeviceType DEF IncrementAuthenticationAttempt
<1>4. ASSUME NEW n \in {0, Lockout + 1}, SetDeviceAuthenticationAttempts(a, n) PROVE SyncTypes'
  BY <1>0, <1>1, <1>4, DeviceWritten, WriteDeviceType DEF SetDeviceAuthenticationAttempts
<1>5. CASE CheckAccountLock(a)
  <2>1. /\ logins' = logins \cup {a} /\ device[a] # Absent
        /\ UNCHANGED <<firewall, population, user, device, acl, deleting, pool, order, missed, granted>>
        /\ UNCHANGED <<phase, snapshot, listening>>
    BY <1>5 DEF CheckAccountLock, router
  <2>2. EtcdOK'
    BY <2>1 DEF SyncTypes, EtcdOK
  <2>3. HandlersOK'
    BY <2>1 DEF SyncTypes, HandlersOK, PoolOK, HandlerOK
  <2>4. RouterOK'
    BY <2>1 DEF SyncTypes, RouterOK, FirewallTypeOK, firewall
  <2> QED
    BY <2>1, <2>2, <2>3, <2>4 DEF SyncTypes
<1>6. ASSUME NEW n \in Nodes, AuthoriseDevice(a, n) PROVE SyncTypes'
  <2>1. granted' \in [Addresses -> BOOLEAN]
    BY <1>0, <1>6 DEF AuthoriseDevice
  <2>2. WriteDevice(a, WithAuthorisation(device[a], n), TRUE)
    BY <1>6 DEF AuthoriseDevice
  <2> QED
    BY <1>1, <2>1, <2>2, DeviceWritten, WriteDeviceType
<1>7. ASSUME NEW n \in Nodes, NEW e \in Endpoints, UpdateDeviceConnectionDetails(a, e, n)
      PROVE  SyncTypes'
  BY <1>0, <1>1, <1>7, DeviceWritten, WriteDeviceType DEF UpdateDeviceConnectionDetails
<1>8. CASE DeauthenticateDevice(a)
  BY <1>0, <1>1, <1>8, DeviceWritten, WriteDeviceType DEF DeauthenticateDevice
<1> QED
  BY <1>2, <1>3, <1>4, <1>5, <1>6, <1>7, <1>8, AddDeviceType, DeleteDeviceType

\* The writes of a user, its devices and its groups.
LEMMA UserWriteType ==
  ASSUME SyncTypes, UserWrite
  PROVE  SyncTypes'
<1> SUFFICES ASSUME NEW u \in Users,
               \/ \E l \in BOOLEAN : SetUserLock(u, l)
               \/ \E m \in Mfas \cup {Unset} : SetUserMfa(u, m)
               \/ \E e \in BOOLEAN : SetEnforceMFA(u, e)
               \/ CreateUser(u) \/ DeleteUser(u) \/ DeleteDevices(u)
               \/ \E l \in Acls : SetUserGroupMembership(u, l)
             PROVE SyncTypes'
  BY DEF UserWrite, SyncTypes, EtcdOK
<1>1. user[u] # Absent => user[u] \in UserRecord
  BY DEF SyncTypes, EtcdOK
<1>2. ASSUME NEW l \in BOOLEAN, SetUserLock(u, l) PROVE SyncTypes'
  BY <1>1, <1>2, UserWritten, WriteUserType DEF SetUserLock
<1>3. ASSUME NEW m \in Mfas \cup {Unset}, SetUserMfa(u, m) PROVE SyncTypes'
  BY <1>1, <1>3, UserWritten, WriteUserType DEF SetUserMfa
<1>4. ASSUME NEW e \in BOOLEAN, SetEnforceMFA(u, e) PROVE SyncTypes'
  BY <1>1, <1>4, UserWritten, WriteUserType DEF SetEnforceMFA
<1>5. ASSUME NEW l \in Acls, SetUserGroupMembership(u, l) PROVE SyncTypes'
  <2> DEFINE h == Handler("membership", u, Absent, Absent, <<"refreshUser">>)
  <2>1. <<"refreshUser">> \in Seq(Steps)
    BY DEF Steps
  <2>2. h \in HandlerRecord
    BY <2>1, NewHandler
  <2>3. HandlerOK(h)
    BY <2>2 DEF HandlerOK, Handler
  <2>4. /\ Publish("membership", <<h>>) /\ acl' = [acl EXCEPT ![u] = l]
        /\ UNCHANGED <<user, device, deleting, logins, granted>>
    BY <1>5 DEF SetUserGroupMembership
  <2> HIDE DEF h
  <2>5. HandlersOK' /\ RouterOK' /\ UNCHANGED population
    BY <2>3, <2>4, SingleOK, Published
  <2>6. EtcdOK'
    BY <2>4, <2>5 DEF SyncTypes, EtcdOK
  <2> QED
    BY <2>4, <2>5, <2>6 DEF SyncTypes
<1> QED
  BY <1>2, <1>3, <1>4, <1>5, CreateUserType, DeleteUserType, DeleteDevicesType

\* The writes of access lists and of the timeout.
LEMMA ConfigWriteType ==
  ASSUME SyncTypes, ConfigWrite
  PROVE  SyncTypes'
<1>1. ASSUME NEW f \in [population -> Acls], 
             SetAcl([u \in Users |-> IF u \in population THEN f[u] ELSE acl[u]])
      PROVE  SyncTypes'
  <2> DEFINE h == Handler("acls", Absent, Absent, Absent, <<"refresh">>)
  <2>1. <<"refresh">> \in Seq(Steps)
    BY DEF Steps
  <2>2. h \in HandlerRecord
    BY <2>1, NewHandler
  <2>3. HandlerOK(h)
    BY <2>2 DEF HandlerOK, Handler
  <2>4. /\ Publish("acls", <<h>>) /\ acl' = [u \in Users |-> IF u \in population THEN f[u] ELSE acl[u]]
        /\ UNCHANGED <<user, device, deleting, logins, granted>>
    BY <1>1 DEF SetAcl
  <2> HIDE DEF h
  <2>5. HandlersOK' /\ RouterOK' /\ UNCHANGED population
    BY <2>3, <2>4, SingleOK, Published
  <2>6. acl' \in [Users -> Acls]
    BY <2>4 DEF SyncTypes, EtcdOK
  <2>7. EtcdOK'
    BY <2>4, <2>5, <2>6 DEF SyncTypes, EtcdOK
  <2> QED
    BY <2>4, <2>5, <2>7 DEF SyncTypes
<1>2. CASE SetSessionInactivityTimeout
  <2> DEFINE h == Handler("timeout", Absent, Absent, Absent, <<"setTimeout">>)
  <2>1. <<"setTimeout">> \in Seq(Steps)
    BY DEF Steps
  <2>2. h \in HandlerRecord
    BY <2>1, NewHandler
  <2>3. HandlerOK(h)
    BY <2>2 DEF HandlerOK, Handler
  <2>4. /\ Publish("timeout", <<h>>)
        /\ UNCHANGED <<user, device, acl, deleting, logins, population, granted>>
    BY <1>2 DEF SetSessionInactivityTimeout, etcd
  <2> HIDE DEF h
  <2>5. HandlersOK' /\ RouterOK'
    BY <2>3, <2>4, SingleOK, Published
  <2>6. EtcdOK'
    BY <2>4 DEF SyncTypes, EtcdOK
  <2> QED
    BY <2>4, <2>5, <2>6 DEF SyncTypes
<1> QED
  BY <1>1, <1>2 DEF ConfigWrite

(***************************************************************************)
(* The calls of the handlers.                                              *)
(***************************************************************************)

\* A crash empties the maps of the router and its pool.
LEMMA CrashType ==
  ASSUME SyncTypes, Crash
  PROVE  SyncTypes'
<1> USE FirewallSyncAssumption
<1>1. /\ Setup(NoUsers, NoAddresses, NoUsers)
      /\ phase' = "down" /\ snapshot' = Absent /\ listening' = 0 /\ pool' = <<>>
      /\ order' = "serial" /\ missed' = FALSE /\ granted' = Revoked(Addresses)
      /\ UNCHANGED <<user, device, acl, deleting, logins, population>>
  BY DEF Crash, etcd
<1>2. FirewallTypeOK'
  <2>1. NoUsers \in [Users -> UserRecord \cup {Absent}] /\ \A u \in Users : NoUsers[u] = Absent
    BY DEF NoUsers
  <2>2. NoAddresses \in [Addresses -> DeviceRecord \cup {Absent}]
    BY DEF NoAddresses
  <2> QED
    BY <1>1, <2>1, <2>2, SetupType
<1>3. EtcdOK'
  BY <1>1 DEF SyncTypes, EtcdOK
<1>4. HandlersOK'
  <2>1. pool' \in Seq(HandlerRecord) /\ Len(pool') = 0 /\ DOMAIN pool' = {}
    BY <1>1
  <2>2. order' \in Orders /\ missed' \in BOOLEAN
    BY <1>1 DEF Orders
  <2> QED
    BY <2>1, <2>2 DEF HandlersOK, PoolOK
<1>5. RouterOK'
  BY <1>1, <1>2 DEF RouterOK, Topics
<1> QED
  BY <1>1, <1>3, <1>4, <1>5, RevokedType DEF SyncTypes

\* A step that leaves the maps of the router alone.
LEMMA Unmoved == ASSUME FirewallTypeOK, UNCHANGED firewall PROVE FirewallTypeOK'
BY DEF FirewallTypeOK, firewall

\* A handler asks the device or looks at its session before it goes on.
LEMMA InsertedOK ==
  ASSUME SyncTypes, NEW i \in DOMAIN pool, NEW call \in ChangeCalls \ PlaceCalls,
         Head(pool[i].todo) \in ChangeCalls, NEW todo,
         todo = <<call>> \o Tail(pool[i].todo) \/ todo = Tail(pool[i].todo)
  PROVE  todo = <<>> \/ HandlerOK([pool[i] EXCEPT !.todo = todo, !.started = TRUE])
<1> DEFINE h == pool[i]
           n == [h EXCEPT !.todo = todo, !.started = TRUE]
<1>1. HandlerOK(h)
  BY DEF SyncTypes, HandlersOK, PoolOK
<1>2. /\ h \in HandlerRecord /\ h.todo # <<>> /\ h.topic = "devices"
      /\ h.id \in Addresses /\ h.cur \in DeviceRecord /\ Changes(h)
  BY <1>1, DeviceCall DEF HandlerOK
<1> HIDE DEF h
<1>3. /\ h.old \in Keys /\ h.todo \in Seq(ChangeCalls)
      /\ h.cur.node \in Nodes \/ h.todo \in Seq(ChangeCalls \ PlaceCalls)
  BY <1>2 DEF Changes
<1>4. /\ Tail(h.todo) \in Seq(ChangeCalls)
      /\ h.todo \in Seq(ChangeCalls \ PlaceCalls) =>
           Tail(h.todo) \in Seq(ChangeCalls \ PlaceCalls)
  BY <1>2, <1>3
<1>5. <<call>> \in Seq(ChangeCalls) /\ <<call>> \in Seq(ChangeCalls \ PlaceCalls)
  OBVIOUS
<1>6. /\ todo \in Seq(ChangeCalls)
      /\ h.todo \in Seq(ChangeCalls \ PlaceCalls) => todo \in Seq(ChangeCalls \ PlaceCalls)
  <2>1. CASE todo = Tail(h.todo)
    BY <1>4, <2>1
  <2>2. CASE todo = <<call>> \o Tail(h.todo)
    BY <1>4, <1>5, <2>2, ConcatSeq
  <2> QED
    BY <2>1, <2>2 DEF h
<1>7. todo \in Seq(Steps)
  BY <1>6 DEF ChangeCalls, Steps
<1>8. \A x \in HandlerRecord, s \in Seq(Steps) :
        /\ [x EXCEPT !.todo = s, !.started = TRUE] \in HandlerRecord
        /\ [x EXCEPT !.todo = s, !.started = TRUE].todo = s
        /\ [x EXCEPT !.todo = s, !.started = TRUE].topic = x.topic
        /\ [x EXCEPT !.todo = s, !.started = TRUE].id = x.id
        /\ [x EXCEPT !.todo = s, !.started = TRUE].cur = x.cur
        /\ [x EXCEPT !.todo = s, !.started = TRUE].old = x.old
  BY DEF HandlerRecord
<1>9. /\ n \in HandlerRecord /\ n.todo = todo /\ n.topic = h.topic /\ n.id = h.id
      /\ n.cur = h.cur /\ n.old = h.old
  BY <1>2, <1>7, <1>8
<1> HIDE DEF n
<1>10. Changes(n)
  BY <1>3, <1>6, <1>9 DEF Changes
<1>11. todo # <<>> => HandlerOK(n)
  BY <1>2, <1>9, <1>10 DEF HandlerOK
<1> QED
  BY <1>11 DEF n, h

\* The calls for a device.
LEMMA HandleDeviceType ==
  ASSUME SyncTypes, NEW i \in DOMAIN pool,
         \/ HandleAddPeer(i) \/ HandleRemovePeer(i) \/ HandleReplacePeer(i)
         \/ HandleChallenge(i) \/ HandleVerify(i) \/ HandleCheckLockout(i)
         \/ HandleDeauthenticate(i) \/ HandleAssociate(i) \/ HandleAuthorise(i)
  PROVE  SyncTypes'
<1> USE DEF Calls
<1>0. FirewallTypeOK
  BY DEF SyncTypes, RouterOK
<1>a. ASSUME Head(pool[i].todo) # "readAcl", Proceed(i) \/ Fail(i), FirewallTypeOK',
             UNCHANGED granted
      PROVE  SyncTypes'
  BY <1>a, Advanced DEF SyncTypes
<1>1. CASE HandleAddPeer(i)
  <2>1. Head(pool[i].todo) = "addPeer" /\ (Proceed(i) \/ Fail(i)) /\ UNCHANGED granted
    BY <1>1 DEF HandleAddPeer, ProceedIf
  <2>2. FirewallTypeOK'
    BY <1>0, <1>1, <2>1, DeviceCall, AddPeerType DEF HandleAddPeer
  <2> QED
    BY <1>a, <2>1, <2>2
<1>2. CASE HandleRemovePeer(i)
  <2>1. Head(pool[i].todo) = "removePeer" /\ Proceed(i) /\ UNCHANGED granted
    BY <1>2 DEF HandleRemovePeer
  <2>2. FirewallTypeOK'
    BY <1>0, <1>2, <2>1, DeviceCall, RemovePeerType DEF HandleRemovePeer
  <2> QED
    BY <1>a, <2>1, <2>2
<1>3. CASE HandleReplacePeer(i)
  <2>0. Head(pool[i].todo) = "replacePeer"
    BY <1>3 DEF HandleReplacePeer
  <2>1. CASE Crash
    BY <2>1, CrashType
  <2>2. CASE /\ ReplacePeer(pool[i].cur.owner, pool[i].id, pool[i].old, pool[i].cur.key)
             /\ Proceed(i) /\ UNCHANGED granted
    <3>1. /\ pool[i].cur.owner \in Users /\ pool[i].cur.key \in Keys /\ pool[i].id \in Addresses
          /\ pool[i].old \in Keys
      BY <2>0, DeviceCall DEF ChangeCalls, Changes
    <3>2. FirewallTypeOK'
      BY <1>0, <2>2, <3>1, ReplacePeerType
    <3> QED
      BY <1>a, <2>0, <2>2, <3>2
  <2> QED
    BY <1>3, <2>1, <2>2 DEF HandleReplacePeer
<1>4. CASE HandleChallenge(i)
  <2> DEFINE todo == IF IsAuthed(pool[i].id) THEN <<"verify">> \o Tail(pool[i].todo)
                     ELSE Tail(pool[i].todo)
  <2>1. /\ Head(pool[i].todo) = "challenge" /\ Continue(i, todo)
        /\ UNCHANGED <<firewall, granted>>
    BY <1>4 DEF HandleChallenge
  <2>2. todo = <<"verify">> \o Tail(pool[i].todo) \/ todo = Tail(pool[i].todo)
    OBVIOUS
  <2> HIDE DEF todo
  <2>3. todo = <<>> \/ HandlerOK([pool[i] EXCEPT !.todo = todo, !.started = TRUE])
    BY <2>1, <2>2, InsertedOK DEF ChangeCalls, PlaceCalls
  <2> QED
    BY <1>0, <2>1, <2>3, Unmoved, Continued DEF SyncTypes
<1>5. CASE HandleVerify(i)
  <2>1. Head(pool[i].todo) = "verify" /\ (Proceed(i) \/ Fail(i)) /\ UNCHANGED granted
    BY <1>5 DEF HandleVerify, ProceedIf
  <2>2. FirewallTypeOK'
    BY <1>0, <1>5, <2>1, DeviceCall, SessionCallType, Unmoved DEF HandleVerify, ChangeCalls
  <2> QED
    BY <1>a, <2>1, <2>2
<1>6. CASE HandleCheckLockout(i)
  <2> DEFINE todo == IF IsAuthed(pool[i].id) THEN <<"deauthenticate">> \o Tail(pool[i].todo)
                     ELSE Tail(pool[i].todo)
  <2>1. /\ Head(pool[i].todo) = "checkLockout" /\ Continue(i, todo)
        /\ UNCHANGED <<firewall, granted>>
    BY <1>6 DEF HandleCheckLockout
  <2>2. todo = <<"deauthenticate">> \o Tail(pool[i].todo) \/ todo = Tail(pool[i].todo)
    OBVIOUS
  <2> HIDE DEF todo
  <2>3. todo = <<>> \/ HandlerOK([pool[i] EXCEPT !.todo = todo, !.started = TRUE])
    BY <2>1, <2>2, InsertedOK DEF ChangeCalls, PlaceCalls
  <2> QED
    BY <1>0, <2>1, <2>3, Unmoved, Continued DEF SyncTypes
<1>7. CASE HandleDeauthenticate(i)
  <2>1. Head(pool[i].todo) = "deauthenticate" /\ (Proceed(i) \/ Fail(i)) /\ UNCHANGED granted
    BY <1>7 DEF HandleDeauthenticate, ProceedIf
  <2>2. FirewallTypeOK'
    BY <1>0, <1>7, <2>1, DeviceCall, SessionCallType DEF HandleDeauthenticate, ChangeCalls
  <2> QED
    BY <1>a, <2>1, <2>2
<1>8. CASE HandleAssociate(i)
  <2>1. Head(pool[i].todo) = "associate" /\ (Proceed(i) \/ Fail(i)) /\ UNCHANGED granted
    BY <1>8 DEF HandleAssociate, ProceedIf
  <2>2. pool[i].id \in Addresses /\ pool[i].cur.node \in Nodes
    BY <2>1, DeviceCall DEF ChangeCalls, PlaceCalls
  <2>3. FirewallTypeOK'
    BY <1>0, <1>8, <2>2, SessionCallType DEF HandleAssociate
  <2> QED
    BY <1>a, <2>1, <2>3
<1>9. CASE HandleAuthorise(i)
  <2>1. Head(pool[i].todo) = "authorise" /\ Proceed(i) /\ UNCHANGED granted
    BY <1>9 DEF HandleAuthorise
  <2>2. /\ pool[i].id \in Addresses /\ pool[i].cur.owner \in Users
        /\ pool[i].cur.node \in Nodes
    BY <2>1, DeviceCall DEF ChangeCalls, PlaceCalls
  <2>3. FirewallTypeOK'
    BY <1>0, <1>9, <2>2, SessionCallType DEF HandleAuthorise
  <2> QED
    BY <1>a, <2>1, <2>3
<1> QED
  BY <1>1, <1>2, <1>3, <1>4, <1>5, <1>6, <1>7, <1>8, <1>9

\* The access list a handler has read is kept until its next call.
LEMMA WithAcl ==
  ASSUME NEW x \in HandlerRecord, NEW s \in Seq(Steps), NEW l \in Acls,
         NEW n, n = [x EXCEPT !.acl = l, !.todo = s, !.started = TRUE]
  PROVE  /\ n \in HandlerRecord /\ n.todo = s /\ n.acl = l
         /\ n.topic = x.topic /\ n.id = x.id /\ n.cur = x.cur
BY DEF HandlerRecord

\* The calls for a user and for the configuration.
LEMMA HandleUserType ==
  ASSUME SyncTypes, NEW i \in DOMAIN pool,
         \/ HandleReadAcl(i) \/ HandleAddUser(i) \/ HandleRemoveUser(i)
         \/ HandleLock(i) \/ HandleDeauthenticateAll(i)
         \/ HandleRefreshUser(i) \/ HandleRefresh(i) \/ HandleSetTimeout(i)
  PROVE  SyncTypes'
<1> USE DEF Calls
<1>0. /\ FirewallTypeOK /\ acl \in [Users -> Acls]
      /\ \A u \in Users : user[u] # Absent => user[u].locked \in BOOLEAN
  BY DEF SyncTypes, RouterOK, EtcdOK, UserRecord
<1>a. ASSUME Head(pool[i].todo) # "readAcl", Proceed(i), FirewallTypeOK', UNCHANGED granted
      PROVE  SyncTypes'
  BY <1>a, Advanced DEF SyncTypes
<1>1. CASE HandleReadAcl(i)
  <2>1. /\ Head(pool[i].todo) = "readAcl" /\ NoteOrder(i)
        /\ UNCHANGED <<firewall, etcd, router, missed, granted>>
        /\ pool' = [pool EXCEPT ![i].acl = acl[pool[i].id], ![i].todo = Tail(pool[i].todo),
                                ![i].started = TRUE]
    BY <1>1 DEF HandleReadAcl
  <2>2. pool[i].id \in Users /\ pool[i].topic = "users" /\ Tail(pool[i].todo) = <<"addUser">>
    BY <2>1, UserCall
  <2>3. pool \in Seq(HandlerRecord) /\ HandlerOK(pool[i]) /\ pool[i] \in HandlerRecord
    BY DEF SyncTypes, HandlersOK, PoolOK, HandlerOK
  <2>4. PICK l \in Acls : l = acl[pool[i].id]
    BY <1>0, <2>2
  <2>5. PICK n : n = [pool[i] EXCEPT !.acl = l, !.todo = <<"addUser">>, !.started = TRUE]
    OBVIOUS
  <2>6. pool' = [pool EXCEPT ![i] = n]
    BY <2>1, <2>2, <2>3, <2>4, <2>5
  <2>7. <<"addUser">> \in Seq(Steps)
    BY DEF Steps
  <2>8. /\ n \in HandlerRecord /\ n.todo = <<"addUser">> /\ n.acl = l
        /\ n.topic = pool[i].topic /\ n.id = pool[i].id /\ n.cur = pool[i].cur
    <3>1. pool[i] \in HandlerRecord
      BY <2>3
    <3> QED
      BY <2>5, <2>7, <3>1, WithAcl DEF HandlerRecord
  <2>9. HandlerOK(n)
    BY <2>2, <2>3, <2>8 DEF HandlerOK
  <2> QED
    BY <1>0, <2>1, <2>6, <2>9, Unmoved, Rewritten DEF SyncTypes
<1>2. CASE HandleAddUser(i)
  <2>1. Head(pool[i].todo) = "addUser" /\ Proceed(i) /\ UNCHANGED granted
    BY <1>2 DEF HandleAddUser
  <2>2. pool[i].id \in Users /\ pool[i].acl \in Acls
    BY <2>1, UserCall
  <2>3. FirewallTypeOK'
    BY <1>0, <1>2, <2>2, AddUserType DEF HandleAddUser
  <2> QED
    BY <1>a, <2>1, <2>3
<1>3. CASE HandleRemoveUser(i)
  <2>1. Head(pool[i].todo) = "removeUser" /\ Proceed(i) /\ UNCHANGED granted
    BY <1>3 DEF HandleRemoveUser
  <2>2. pool[i].id \in Users
    BY <2>1, UserCall
  <2>3. FirewallTypeOK'
    BY <1>0, <1>3, <2>2, RemoveUserType DEF HandleRemoveUser
  <2> QED
    BY <1>a, <2>1, <2>3
<1>4. CASE HandleLock(i)
  <2>1. Head(pool[i].todo) = "lock" /\ Proceed(i) /\ UNCHANGED granted
    BY <1>4 DEF HandleLock
  <2>2. pool[i].id \in Users /\ pool[i].cur.locked \in BOOLEAN
    BY <2>1, UserCall
  <2>3. FirewallTypeOK'
    BY <1>0, <1>4, <2>2, SetLockAccountType DEF HandleLock
  <2> QED
    BY <1>a, <2>1, <2>3
<1>5. CASE HandleDeauthenticateAll(i)
  <2>1. Head(pool[i].todo) = "deauthenticateAll" /\ Proceed(i) /\ UNCHANGED granted
    BY <1>5 DEF HandleDeauthenticateAll
  <2>2. pool[i].id \in Users
    BY <2>1, UserCall
  <2>3. DeauthenticateAllDevices(pool[i].id)
    BY <1>5 DEF HandleDeauthenticateAll
  <2>4. PICK S \in SUBSET Tracked(pool[i].id) : xdpDevices' = Deauthenticated(S)
    BY <2>3 DEF DeauthenticateAllDevices
  <2>5. S \in SUBSET Addresses
    BY DEF Tracked
  <2>6. xdpDevices' \in [Addresses -> FwEntry \cup {Absent}]
    BY <1>0, <2>4, <2>5, SessionType
  <2>7. FirewallTypeOK'
    BY <1>0, <2>3, <2>6 DEF DeauthenticateAllDevices, FirewallTypeOK
  <2> QED
    BY <1>a, <2>1, <2>7
<1>6. CASE HandleRefreshUser(i)
  <2>1. Head(pool[i].todo) = "refreshUser" /\ Proceed(i) /\ UNCHANGED granted
    BY <1>6 DEF HandleRefreshUser
  <2>2. pool[i].id \in Users
    BY <2>1, UserCall
  <2>3. FirewallTypeOK'
    BY <1>0, <1>6, <2>2, RefreshUserAclsType DEF HandleRefreshUser
  <2> QED
    BY <1>a, <2>1, <2>3
<1>7. CASE HandleRefresh(i)
  <2>1. Head(pool[i].todo) = "refresh" /\ Proceed(i) /\ UNCHANGED granted
    BY <1>7 DEF HandleRefresh
  <2>2. FirewallTypeOK'
    BY <1>0, <1>7, RefreshType DEF HandleRefresh
  <2> QED
    BY <1>a, <2>1, <2>2
<1>8. CASE HandleSetTimeout(i)
  <2>1. Head(pool[i].todo) = "setTimeout" /\ Proceed(i) /\ UNCHANGED granted
    BY <1>8 DEF HandleSetTimeout
  <2>2. PICK S \in SUBSET Idle(Addresses) : SetInactivityTimeout(S)
    BY <1>8 DEF HandleSetTimeout
  <2>3. xdpDevices' \in [Addresses -> FwEntry \cup {Absent}]
    BY <1>0, <2>2, SessionType DEF SetInactivityTimeout
  <2>4. FirewallTypeOK'
    BY <1>0, <2>2, <2>3 DEF SetInactivityTimeout, FirewallTypeOK
  <2> QED
    BY <1>a, <2>1, <2>4
<1> QED
  BY <1>1, <1>2, <1>3, <1>4, <1>5, <1>6, <1>7, <1>8

\* The router starts, listens, ends, and time passes.
LEMMA LifecycleType ==
  ASSUME SyncTypes, Lifecycle
  PROVE  SyncTypes'
<1> USE FirewallSyncAssumption
<1>0. FirewallTypeOK
  BY DEF SyncTypes, RouterOK
<1>a. ASSUME UNCHANGED <<etcd, pool, order, missed>>, RouterOK', granted' \in [Addresses -> BOOLEAN]
      PROVE  SyncTypes'
  <2>1. UNCHANGED <<user, device, acl, population, deleting, logins>>
    BY <1>a DEF etcd
  <2>2. EtcdOK'
    BY <2>1 DEF SyncTypes, EtcdOK
  <2>3. HandlersOK'
    BY <1>a DEF SyncTypes, HandlersOK, PoolOK, HandlerOK
  <2> QED
    BY <1>a, <2>2, <2>3 DEF SyncTypes
<1>1. CASE GetInitialData
  <2>1. /\ phase = "down" /\ phase' = "read" /\ UNCHANGED <<firewall, pool, listening>>
        /\ snapshot' = [users |-> user, devices |-> device]
    BY <1>1 DEF GetInitialData
  <2>2. RouterOK'
    BY <1>0, <2>1, Unmoved DEF SyncTypes, EtcdOK, RouterOK
  <2> QED
    BY <1>1, <1>a, <2>2 DEF GetInitialData, SyncTypes
<1>2. CASE SetupRouter
  <2>1. CASE Crash
    BY <2>1, CrashType
  <2>2. CASE ~Crash
    <3>1. /\ phase = "read" /\ phase' = "up"
          /\ Setup(snapshot.users, snapshot.devices, acl)
          /\ UNCHANGED <<etcd, pool, listening, order, missed, granted>>
      BY <1>2, <2>2 DEF SetupRouter
    <3>2. FirewallTypeOK'
      BY <3>1, SetupType DEF SyncTypes, RouterOK, EtcdOK
    <3>3. RouterOK'
      BY <3>1, <3>2 DEF SyncTypes, RouterOK
    <3> QED
      BY <1>a, <3>1, <3>3 DEF SyncTypes
  <2> QED
    BY <2>1, <2>2
<1>3. CASE RegisterEventListener
  <2>1. /\ phase = "up" /\ listening < Len(Topics) /\ listening' = listening + 1
        /\ UNCHANGED <<firewall, etcd, pool, phase, snapshot, order, missed, granted>>
    BY <1>3 DEF RegisterEventListener
  <2>2. Len(Topics) \in Nat /\ listening \in 0..Len(Topics)
    BY DEF Topics, SyncTypes, RouterOK
  <2>3. RouterOK'
    BY <1>0, <2>1, <2>2, Unmoved DEF SyncTypes, RouterOK
  <2> QED
    BY <1>a, <2>1, <2>3 DEF SyncTypes
<1>4. CASE Restart
  BY <1>4, CrashType DEF Restart
<1>5. ASSUME NEW a \in Addresses, NEW to \in SessionStates, SessionLapse(a, to)
      PROVE  SyncTypes'
  <2>1. /\ Lapse(a, to) /\ granted' = Revoked({a})
        /\ UNCHANGED <<etcd, pool, phase, snapshot, listening, order, missed>>
    BY <1>5 DEF SessionLapse, router
  <2>2. FirewallTypeOK'
    BY <1>0, <2>1, SessionCallType
  <2>3. RouterOK'
    BY <2>1, <2>2 DEF SyncTypes, RouterOK
  <2> QED
    BY <1>a, <2>1, <2>3, RevokedType
<1> QED
  BY <1>1, <1>2, <1>3, <1>4, <1>5 DEF Lifecycle

\* The initial states have the right types.
LEMMA InitTypes == Init => SyncTypes
<1> SUFFICES ASSUME Init PROVE SyncTypes
  OBVIOUS
<1> USE FirewallSyncAssumption
<1>1. PICK u \in Users, m \in Mfas, a \in Addresses, k \in Keys, l \in Acls :
        /\ workload \in Workloads
        /\ population = IF "others" \in workload THEN Users ELSE {u}
        /\ user = [x \in Users |-> IF x \in population
                                   THEN WithEnforcing(WithMfa(NewUser, m), TRUE) ELSE Absent]
        /\ device = [x \in Addresses |-> IF x = a THEN NewDevice(u, k) ELSE Absent]
        /\ acl = [x \in Users |-> l]
        /\ deleting = {}
        /\ logins = {}
        /\ SetUp(user, device, acl)
        /\ pool = <<>>
        /\ phase = "up"
        /\ snapshot = Absent
        /\ listening = Len(Topics)
        /\ order = "serial"
        /\ missed = FALSE
        /\ granted = [x \in Addresses |-> FALSE]
  BY DEF Init
<1>2. /\ deleting = {} /\ logins = {} /\ pool = <<>> /\ phase = "up"
      /\ listening = Len(Topics) /\ order = "serial" /\ missed = FALSE
      /\ granted = [x \in Addresses |-> FALSE]
  BY <1>1
<1>3. WithEnforcing(WithMfa(NewUser, m), TRUE) \in UserRecord
  BY DEF UserRecord, NewUser, WithMfa, WithEnforcing
<1>4. NewDevice(u, k) \in DeviceRecord
  BY LockoutAssumption DEF NewDevice, DeviceRecord
<1>5. EtcdOK
  BY <1>1, <1>2, <1>3, <1>4 DEF EtcdOK
<1>6. FirewallTypeOK
  <2> DEFINE wg == SetupWireguard(device)
             xdp == SetupXDP(user, device, acl)
  <2>1. /\ wg.peers \in [Keys -> Addresses \cup {NoAddress, Absent}]
        /\ wg.usersToAddresses \in [Users -> AddressMap \cup {Absent}]
        /\ wg.addressesToUsers \in [Addresses -> Users \cup {Absent}]
        /\ xdp.accountLocked \in [Users -> BOOLEAN \cup {Absent}]
        /\ xdp.policies \in [Users -> Acls \cup {Absent}]
        /\ xdp.xdpDevices \in [Addresses -> FwEntry \cup {Absent}]
    BY <1>5, SetupParts DEF EtcdOK
  <2>2. /\ peers = wg.peers
        /\ usersToAddresses = wg.usersToAddresses
        /\ addressesToUsers = wg.addressesToUsers
        /\ accountLocked = xdp.accountLocked
        /\ policies = xdp.policies
        /\ xdpDevices = xdp.xdpDevices
    BY <1>1 DEF SetUp
  <2> HIDE DEF wg, xdp
  <2> QED
    BY <2>1, <2>2 DEF FirewallTypeOK, AddressMap
<1>7. HandlersOK
  <2>1. pool \in Seq(HandlerRecord) /\ Len(pool) = 0 /\ DOMAIN pool = {}
    BY <1>2
  <2>2. order \in Orders /\ missed \in BOOLEAN
    BY <1>2 DEF Orders
  <2> QED
    BY <2>1, <2>2 DEF HandlersOK, PoolOK
<1>8. RouterOK
  BY <1>2, <1>6 DEF RouterOK, Topics
<1> QED
  BY <1>2, <1>5, <1>7, <1>8 DEF SyncTypes

\* Every step keeps them.
LEMMA NextTypes == SyncTypes /\ [Next]_vars => SyncTypes'
<1> SUFFICES ASSUME SyncTypes, [Next]_vars PROVE SyncTypes'
  OBVIOUS
<1>1. CASE UNCHANGED vars
  <2>1. /\ UNCHANGED <<firewall, user, device, acl, population, deleting, logins, pool>>
        /\ UNCHANGED <<phase, snapshot, listening, order, missed, granted>>
    BY <1>1 DEF vars
  <2>2. EtcdOK'
    BY <2>1 DEF SyncTypes, EtcdOK
  <2>3. HandlersOK'
    BY <2>1 DEF SyncTypes, HandlersOK, PoolOK, HandlerOK
  <2>4. RouterOK'
    BY <2>1, Unmoved DEF SyncTypes, RouterOK
  <2> QED
    BY <2>1, <2>2, <2>3, <2>4 DEF SyncTypes
<1>2. CASE DeviceWrite
  BY <1>2, DeviceWriteType DEF DeviceWrite
<1>3. ASSUME NEW i \in DOMAIN pool, Handle(i) PROVE SyncTypes'
  BY <1>3, HandleDeviceType, HandleUserType DEF Handle
<1> QED
  BY <1>1, <1>2, <1>3, UserWriteType, ConfigWriteType, LifecycleType DEF Next

\* However the goroutines of the handlers interleave, and wherever the node
\* restarts.
THEOREM SyncTypeTheorem == Spec => []SyncTypeOK
BY InitTypes, NextTypes, TypesImply, PTL DEF Spec

(***************************************************************************)
(* Handlers that do not overtake each other.  The handlers of an address   *)
(* form a line from the entry the router has now to the record etcd has:   *)
(* each knows the owner the one before it leaves behind.                   *)
(***************************************************************************)

\* The k-th handler is of the device with address a.
Of(k, a) == pool[k].topic = "devices" /\ pool[k].id = a

\* Two that follow each other, without a removal by the first.
Linked ==
  \A a \in Addresses : \A i, j \in DOMAIN pool :
    /\ Of(i, a) /\ Of(j, a) /\ i < j
    /\ \A k \in DOMAIN pool : Of(k, a) => k <= i \/ j <= k
    /\ ~Removes(pool[i])
    => pool[j].cur.owner = pool[i].cur.owner /\ ~Creates(pool[j])

\* The last of the line and the record in etcd.
Ending ==
  \A a \in Addresses : \A i \in DOMAIN pool :
    Of(i, a) /\ (\A k \in DOMAIN pool : Of(k, a) => k <= i) /\ ~Removes(pool[i])
      => device[a] # Absent /\ device[a].owner = pool[i].cur.owner

\* The first of the line and the entry of the router.
Entered ==
  \A a \in Addresses : \A j \in DOMAIN pool :
    Known(a) /\ Of(j, a) /\ (\A k \in DOMAIN pool : Of(k, a) => j <= k)
      => xdpDevices[a].user = pool[j].cur.owner /\ ~Creates(pool[j])

\* An entry no handler is about.
Standing ==
  \A a \in Addresses :
    Known(a) /\ (\A k \in DOMAIN pool : ~Of(k, a))
      => device[a] # Absent /\ device[a].owner = xdpDevices[a].user

\* A handler that has started is the first of its record.
InTurn == \A i \in DOMAIN pool : pool[i].started => ~Overtakes(i)

Line == Linked /\ Ending /\ Entered /\ Standing /\ InTurn

\* What the handler of a write says of the record before it and after it.
Announces(h) ==
  LET a == h.id IN
  \/ /\ Creates(h) /\ ~Removes(h)
     /\ device[a] = Absent
     /\ device'[a] # Absent /\ device'[a].owner = h.cur.owner
  \/ /\ Removes(h) /\ ~Creates(h)
     /\ device[a] # Absent /\ device[a].owner = h.cur.owner
  \/ /\ ~Creates(h) /\ ~Removes(h)
     /\ device[a] # Absent /\ device[a].owner = h.cur.owner
     /\ device'[a] # Absent /\ device'[a].owner = h.cur.owner

\* The handlers of a write: at most one of each device, and one of each
\* device whose owner it changes.
Announced(hs) ==
  /\ \A n \in DOMAIN hs :
       ~hs[n].started /\ (hs[n].topic = "devices" => hs[n].id \in Addresses /\ Announces(hs[n]))
  /\ \A n, m \in DOMAIN hs :
       hs[n].topic = "devices" /\ hs[m].topic = "devices" /\ hs[n].id = hs[m].id => n = m
  /\ \A a \in Addresses :
       \/ \E n \in DOMAIN hs : hs[n].topic = "devices" /\ hs[n].id = a
       \/ /\ device'[a] = Absent <=> device[a] = Absent
          /\ device[a] # Absent => device'[a].owner = device[a].owner

\* The events of a write go to the end of the lines.
LEMMA Appended ==
  ASSUME SyncTypes, Line, NEW R, NEW hs \in Seq(R), Announced(hs),
         pool' = pool \o hs, UNCHANGED xdpDevices
  PROVE  Line'
<1>1. pool \in Seq(HandlerRecord) /\ Len(pool) \in Nat /\ DOMAIN pool = 1..Len(pool)
  BY DEF SyncTypes, HandlersOK, PoolOK
<1>2. /\ Len(hs) \in Nat /\ DOMAIN hs = 1..Len(hs)
      /\ DOMAIN pool' = 1..(Len(pool) + Len(hs))
  BY <1>1
<1>3. \A k \in DOMAIN pool : k \in DOMAIN pool' /\ pool'[k] = pool[k]
  BY <1>1, <1>2
<1>4. \A n \in DOMAIN hs : Len(pool) + n \in DOMAIN pool' /\ pool'[Len(pool) + n] = hs[n]
  BY <1>1, <1>2
<1>5. ASSUME NEW k \in DOMAIN pool', k \notin DOMAIN pool
      PROVE  \E n \in DOMAIN hs : k = Len(pool) + n /\ pool'[k] = hs[n]
  <2>1. PICK n \in Int : n = k - Len(pool)
    BY <1>1, <1>2
  <2>2. n \in DOMAIN hs /\ k = Len(pool) + n
    BY <1>1, <1>2, <1>5, <2>1
  <2> QED
    BY <1>4, <2>2
<1>6. \A k \in DOMAIN pool, m \in DOMAIN pool' : m \notin DOMAIN pool => k < m
  BY <1>1, <1>2
<1>7. \A k, m \in DOMAIN pool' : k \in Int /\ m \in Int
  BY <1>2
<1>8. \A k \in DOMAIN pool, a \in Addresses : Of(k, a)' <=> Of(k, a)
  BY <1>3 DEF Of
<1>9. ASSUME NEW k \in DOMAIN pool', k \notin DOMAIN pool, NEW a \in Addresses, Of(k, a)'
      PROVE  /\ pool'[k].id = a /\ Announces(pool'[k]) /\ ~pool'[k].started
             /\ \A m \in DOMAIN pool' : m \notin DOMAIN pool /\ Of(m, a)' => m = k
  <2>1. PICK n \in DOMAIN hs : k = Len(pool) + n /\ pool'[k] = hs[n]
    BY <1>5, <1>9
  <2>2. pool'[k].id = a /\ Announces(pool'[k]) /\ ~pool'[k].started
    BY <1>9, <2>1 DEF Announced, Of
  <2>3. ASSUME NEW m \in DOMAIN pool', m \notin DOMAIN pool, Of(m, a)' PROVE m = k
    <3>1. PICK p \in DOMAIN hs : m = Len(pool) + p /\ pool'[m] = hs[p]
      BY <1>5, <2>3
    <3> QED
      BY <1>9, <2>1, <2>3, <3>1 DEF Announced, Of
  <2> QED
    BY <2>2, <2>3
<1>10. \A a \in Addresses :
         \/ \E k \in DOMAIN pool' : k \notin DOMAIN pool /\ Of(k, a)'
         \/ /\ device'[a] = Absent <=> device[a] = Absent
            /\ device[a] # Absent => device'[a].owner = device[a].owner
  <2> SUFFICES ASSUME NEW a \in Addresses, NEW n \in DOMAIN hs,
                      hs[n].topic = "devices" /\ hs[n].id = a
               PROVE  \E k \in DOMAIN pool' : k \notin DOMAIN pool /\ Of(k, a)'
    BY DEF Announced
  <2>1. PICK k \in DOMAIN pool' : k = Len(pool) + n /\ pool'[k] = hs[n]
    BY <1>4
  <2>2. k \notin DOMAIN pool
    BY <1>1, <1>2, <2>1
  <2>3. Of(k, a)'
    BY <2>1 DEF Of
  <2> QED
    BY <2>2, <2>3
<1>11. UNCHANGED xdpDevices /\ \A a \in Addresses : Known(a)' <=> Known(a)
  BY DEF Known
<1>12. Linked'
  <2> SUFFICES ASSUME NEW a \in Addresses, NEW i \in DOMAIN pool', NEW j \in DOMAIN pool',
                      Of(i, a)', Of(j, a)', i < j,
                      \A k \in DOMAIN pool' : Of(k, a)' => k <= i \/ j <= k,
                      ~Removes(pool'[i])
               PROVE  pool'[j].cur.owner = pool'[i].cur.owner /\ ~Creates(pool'[j])
    BY DEF Linked, Removes, Creates
  <2>1. CASE j \in DOMAIN pool
    <3>1. i \in DOMAIN pool
      BY <1>6, <1>7, <2>1
    <3>2. Of(i, a) /\ Of(j, a) /\ \A k \in DOMAIN pool : Of(k, a) => k <= i \/ j <= k
      BY <1>3, <1>8, <2>1, <3>1
    <3> QED
      BY <1>3, <2>1, <3>1, <3>2 DEF Line, Linked
  <2>2. CASE j \notin DOMAIN pool
    <3>1. i \in DOMAIN pool
      BY <1>7, <1>9, <2>2
    <3>2. Of(i, a) /\ \A k \in DOMAIN pool : Of(k, a) => k <= i
      BY <1>3, <1>6, <1>7, <1>8, <2>2, <3>1
    <3>3. ~Removes(pool[i]) /\ pool'[i] = pool[i]
      BY <1>3, <3>1
    <3>4. device[a] # Absent /\ device[a].owner = pool[i].cur.owner
      BY <3>1, <3>2, <3>3 DEF Line, Ending
    <3>5. pool'[j].id = a /\ Announces(pool'[j])
      BY <1>9, <2>2
    <3> QED
      BY <3>3, <3>4, <3>5 DEF Announces
  <2> QED
    BY <2>1, <2>2
<1>13. Ending'
  <2> SUFFICES ASSUME NEW a \in Addresses, NEW i \in DOMAIN pool', Of(i, a)',
                      \A k \in DOMAIN pool' : Of(k, a)' => k <= i, ~Removes(pool'[i])
               PROVE  device'[a] # Absent /\ device'[a].owner = pool'[i].cur.owner
    BY DEF Ending, Removes
  <2>1. CASE i \in DOMAIN pool
    <3>1. \A k \in DOMAIN pool' : k \notin DOMAIN pool => ~Of(k, a)'
      BY <1>6, <1>7, <2>1
    <3>2. (device'[a] = Absent <=> device[a] = Absent)
          /\ (device[a] # Absent => device'[a].owner = device[a].owner)
      BY <1>10, <3>1
    <3>3. Of(i, a) /\ (\A k \in DOMAIN pool : Of(k, a) => k <= i) /\ pool'[i] = pool[i]
      BY <1>3, <1>8, <2>1
    <3> QED
      BY <2>1, <3>2, <3>3 DEF Line, Ending
  <2>2. CASE i \notin DOMAIN pool
    BY <1>9, <2>2 DEF Announces
  <2> QED
    BY <2>1, <2>2
<1>14. Entered'
  <2> SUFFICES ASSUME NEW a \in Addresses, NEW j \in DOMAIN pool', Known(a), Of(j, a)',
                      \A k \in DOMAIN pool' : Of(k, a)' => j <= k
               PROVE  xdpDevices[a].user = pool'[j].cur.owner /\ ~Creates(pool'[j])
    BY <1>11 DEF Entered, Creates
  <2>1. CASE j \in DOMAIN pool
    BY <1>3, <1>8, <2>1 DEF Line, Entered
  <2>2. CASE j \notin DOMAIN pool
    <3>1. \A k \in DOMAIN pool : ~Of(k, a)
      BY <1>3, <1>6, <1>7, <1>8, <2>2
    <3>2. device[a] # Absent /\ device[a].owner = xdpDevices[a].user
      BY <3>1 DEF Line, Standing
    <3> QED
      BY <1>9, <2>2, <3>2 DEF Announces
  <2> QED
    BY <2>1, <2>2
<1>15. Standing'
  <2> SUFFICES ASSUME NEW a \in Addresses, Known(a), \A k \in DOMAIN pool' : ~Of(k, a)'
               PROVE  device'[a] # Absent /\ device'[a].owner = xdpDevices[a].user
    BY <1>11 DEF Standing
  <2> QED
    BY <1>3, <1>8, <1>10 DEF Line, Standing
<1>16. InTurn'
  <2> SUFFICES ASSUME NEW i \in DOMAIN pool', pool'[i].started, NEW j \in 1..(i - 1),
                      pool'[j].topic = pool'[i].topic /\ pool'[j].id = pool'[i].id
               PROVE  FALSE
    BY DEF InTurn, Overtakes
  <2>1. i \in DOMAIN pool
    BY <1>5 DEF Announced
  <2>2. j \in DOMAIN pool
    BY <1>1, <2>1
  <2> QED
    <3>1. pool'[i] = pool[i] /\ pool'[j] = pool[j]
      BY <1>3, <2>1, <2>2
    <3>2. Overtakes(i) /\ pool[i].started
      BY <2>1, <3>1 DEF Overtakes
    <3> QED
      BY <2>1, <3>2 DEF Line, InTurn
<1> QED
  BY <1>12, <1>13, <1>14, <1>15, <1>16 DEF Line

\* What the call of a handler does to the owners of entries.
Owners(i) ==
  \A b \in Addresses : Known(b)' =>
    \/ /\ Known(b) /\ xdpDevices'[b].user = xdpDevices[b].user
       /\ Of(i, b) => ~Removes(pool[i])
    \/ /\ Of(i, b) /\ ~Removes(pool[i]) /\ xdpDevices'[b].user = pool[i].cur.owner
       /\ Known(b) \/ Creates(pool[i])

\* An entry of the first handler of its line is the owner's it knows.
LEMMA OwnersFollow ==
  ASSUME SyncTypes, Line, NEW i \in DOMAIN pool, ~Overtakes(i), Owners(i),
         NEW b \in Addresses, Known(b)'
  PROVE  /\ ~Of(i, b) => Known(b) /\ xdpDevices'[b].user = xdpDevices[b].user
         /\ Of(i, b) => ~Removes(pool[i]) /\ xdpDevices'[b].user = pool[i].cur.owner
         /\ Known(b) \/ (Of(i, b) /\ Creates(pool[i]))
<1>1. Len(pool) \in Nat /\ DOMAIN pool = 1..Len(pool)
  BY DEF SyncTypes, HandlersOK, PoolOK
<1>2. Of(i, b) => \A k \in DOMAIN pool : Of(k, b) => i <= k
  BY <1>1 DEF Overtakes, Of
<1>3. Of(i, b) /\ Known(b) => xdpDevices[b].user = pool[i].cur.owner
  BY <1>2 DEF Line, Entered
<1> QED
  BY <1>3 DEF Owners

\* The first of a line has finished.
LEMMA Dropped ==
  ASSUME SyncTypes, Line, NEW i \in DOMAIN pool, ~Overtakes(i), Owners(i),
         pool' = RemoveAt(pool, i), UNCHANGED device
  PROVE  Line'
<1>1. pool \in Seq(HandlerRecord) /\ Len(pool) \in Nat /\ DOMAIN pool = 1..Len(pool)
  BY DEF SyncTypes, HandlersOK, PoolOK
<1>2. /\ DOMAIN pool' = 1..(Len(pool) - 1)
      /\ \A k \in 1..(Len(pool) - 1) : pool'[k] = IF k < i THEN pool[k] ELSE pool[k + 1]
  BY <1>1, Removed
<1> DEFINE old(k) == IF k < i THEN k ELSE k + 1
<1>3. \A k \in DOMAIN pool' : old(k) \in DOMAIN pool /\ old(k) # i /\ pool'[k] = pool[old(k)]
  BY <1>1, <1>2
<1>4. \A k, m \in DOMAIN pool' : k < m <=> old(k) < old(m)
  BY <1>1, <1>2
<1>5. ASSUME NEW p \in DOMAIN pool, p # i PROVE \E k \in DOMAIN pool' : old(k) = p
  <2>1. PICK k \in Int : k = IF p < i THEN p ELSE p - 1
    BY <1>1
  <2>2. k \in DOMAIN pool' /\ old(k) = p
    BY <1>1, <1>2, <1>5, <2>1
  <2> QED
    BY <2>2
<1>6. \A k \in DOMAIN pool' : k \in Int /\ old(k) \in Int
  BY <1>2
<1> HIDE DEF old
<1>7. \A k \in DOMAIN pool', a \in Addresses : Of(k, a)' <=> Of(old(k), a)
  BY <1>3 DEF Of
<1>8. \A a \in Addresses : Of(i, a) => \A k \in DOMAIN pool : Of(k, a) => i <= k
  BY <1>1 DEF Overtakes, Of
<1>9. \A b \in Addresses : Known(b)' =>
        /\ ~Of(i, b) => Known(b) /\ xdpDevices'[b].user = xdpDevices[b].user
        /\ Of(i, b) => ~Removes(pool[i]) /\ xdpDevices'[b].user = pool[i].cur.owner
  BY OwnersFollow
<1>10. \A p \in DOMAIN pool : p \in Int
  BY <1>1
<1>11. Linked'
  <2> SUFFICES ASSUME NEW a \in Addresses, NEW p \in DOMAIN pool', NEW q \in DOMAIN pool',
                      Of(p, a)', Of(q, a)', p < q,
                      \A k \in DOMAIN pool' : Of(k, a)' => k <= p \/ q <= k,
                      ~Removes(pool'[p])
               PROVE  pool'[q].cur.owner = pool'[p].cur.owner /\ ~Creates(pool'[q])
    BY DEF Linked, Removes, Creates
  <2>1. /\ Of(old(p), a) /\ Of(old(q), a) /\ old(p) < old(q)
        /\ old(p) \in DOMAIN pool /\ old(q) \in DOMAIN pool
        /\ pool'[p] = pool[old(p)] /\ pool'[q] = pool[old(q)]
    BY <1>3, <1>4, <1>7
  <2>2. ASSUME NEW k \in DOMAIN pool, Of(k, a) PROVE k <= old(p) \/ old(q) <= k
    <3>1. CASE k = i
      BY <1>8, <2>1, <2>2, <3>1
    <3>2. CASE k # i
      <4>1. PICK m \in DOMAIN pool' : old(m) = k
        BY <1>5, <3>2
      <4>2. m <= p \/ q <= m
        BY <1>7, <2>2, <4>1
      <4>3. (m < p => old(m) < old(p)) /\ (q < m => old(q) < old(m))
        BY <1>4
      <4> QED
        BY <1>6, <4>1, <4>2, <4>3
    <3> QED
      BY <3>1, <3>2
  <2> QED
    BY <2>1, <2>2 DEF Line, Linked
<1>12. Ending'
  <2> SUFFICES ASSUME NEW a \in Addresses, NEW p \in DOMAIN pool', Of(p, a)',
                      \A k \in DOMAIN pool' : Of(k, a)' => k <= p, ~Removes(pool'[p])
               PROVE  device[a] # Absent /\ device[a].owner = pool'[p].cur.owner
    BY DEF Ending, Removes
  <2>1. Of(old(p), a) /\ old(p) \in DOMAIN pool /\ pool'[p] = pool[old(p)]
    BY <1>3, <1>7
  <2>2. ASSUME NEW k \in DOMAIN pool, Of(k, a) PROVE k <= old(p)
    <3>1. CASE k = i
      BY <1>8, <2>1, <2>2, <3>1
    <3>2. CASE k # i
      <4>1. PICK m \in DOMAIN pool' : old(m) = k
        BY <1>5, <3>2
      <4>2. m <= p
        BY <1>7, <2>2, <4>1
      <4>3. m < p => old(m) < old(p)
        BY <1>4
      <4> QED
        BY <1>6, <4>1, <4>2, <4>3
    <3> QED
      BY <3>1, <3>2
  <2> QED
    BY <2>1, <2>2 DEF Line, Ending
<1>13. ASSUME NEW a \in Addresses, Known(a)', Of(i, a), NEW q \in DOMAIN pool', Of(q, a)',
              \A k \in DOMAIN pool' : Of(k, a)' => q <= k
       PROVE  xdpDevices'[a].user = pool'[q].cur.owner /\ ~Creates(pool'[q])
  <2>1. Of(old(q), a) /\ old(q) \in DOMAIN pool /\ pool'[q] = pool[old(q)] /\ old(q) # i
    BY <1>3, <1>7, <1>13
  <2>2. i < old(q)
    BY <1>8, <1>10, <1>13, <2>1
  <2>3. ASSUME NEW k \in DOMAIN pool, Of(k, a) PROVE k <= i \/ old(q) <= k
    <3>1. CASE k = i
      BY <1>10, <3>1
    <3>2. CASE k # i
      <4>1. PICK m \in DOMAIN pool' : old(m) = k
        BY <1>5, <3>2
      <4>2. q <= m
        BY <1>7, <1>13, <2>3, <4>1
      <4>3. q < m => old(q) < old(m)
        BY <1>4
      <4> QED
        BY <1>6, <4>1, <4>2, <4>3
    <3> QED
      BY <3>1, <3>2
  <2>4. pool[old(q)].cur.owner = pool[i].cur.owner /\ ~Creates(pool[old(q)])
    BY <1>9, <1>13, <2>1, <2>2, <2>3 DEF Line, Linked
  <2> QED
    BY <1>9, <1>13, <2>1, <2>4
<1>14. ASSUME NEW a \in Addresses, Known(a)', ~Of(i, a), NEW q \in DOMAIN pool', Of(q, a)',
              \A k \in DOMAIN pool' : Of(k, a)' => q <= k
       PROVE  xdpDevices'[a].user = pool'[q].cur.owner /\ ~Creates(pool'[q])
  <2>1. Of(old(q), a) /\ old(q) \in DOMAIN pool /\ pool'[q] = pool[old(q)]
    BY <1>3, <1>7, <1>14
  <2>2. ASSUME NEW k \in DOMAIN pool, Of(k, a) PROVE old(q) <= k
    <3>1. PICK m \in DOMAIN pool' : old(m) = k
      BY <1>5, <1>14, <2>2
    <3>2. q <= m
      BY <1>7, <1>14, <2>2, <3>1
    <3>3. q < m => old(q) < old(m)
      BY <1>4
    <3> QED
      BY <1>6, <3>1, <3>2, <3>3
  <2> QED
    BY <1>9, <1>14, <2>1, <2>2 DEF Line, Entered
<1>15. Entered'
  BY <1>13, <1>14 DEF Entered, Creates
<1>16. Standing'
  <2> SUFFICES ASSUME NEW a \in Addresses, Known(a)', \A k \in DOMAIN pool' : ~Of(k, a)'
               PROVE  device[a] # Absent /\ device[a].owner = xdpDevices'[a].user
    BY DEF Standing
  <2>1. \A k \in DOMAIN pool : Of(k, a) => k = i
    BY <1>5, <1>7
  <2>2. CASE Of(i, a)
    <3>1. \A k \in DOMAIN pool : Of(k, a) => k <= i
      BY <1>10, <2>1
    <3> QED
      BY <1>9, <2>2, <3>1 DEF Line, Ending
  <2>3. CASE ~Of(i, a)
    BY <1>9, <2>1, <2>3 DEF Line, Standing
  <2> QED
    BY <2>2, <2>3
<1>17. InTurn'
  <2> SUFFICES ASSUME NEW p \in DOMAIN pool', pool'[p].started, NEW j \in 1..(p - 1),
                      pool'[j].topic = pool'[p].topic /\ pool'[j].id = pool'[p].id
               PROVE  FALSE
    BY DEF InTurn, Overtakes
  <2>1. j \in DOMAIN pool' /\ j < p
    BY <1>1, <1>2
  <2>2. old(j) \in 1..(old(p) - 1)
    BY <1>1, <1>3, <1>4, <1>6, <2>1
  <2> QED
    BY <1>3, <2>1, <2>2 DEF Line, InTurn, Overtakes
<1> QED
  BY <1>11, <1>12, <1>15, <1>16, <1>17 DEF Line

\* The first of a line goes on.
LEMMA GoneOn ==
  ASSUME SyncTypes, Line, NEW i \in DOMAIN pool, ~Overtakes(i), Owners(i), UNCHANGED device,
         NEW n, pool' = [pool EXCEPT ![i] = n],
         n.topic = pool[i].topic, n.id = pool[i].id, n.cur = pool[i].cur,
         n.topic = "devices" => ~Creates(n) /\ ~Creates(pool[i]) /\ ~Removes(pool[i])
  PROVE  Line'
<1>1. pool \in Seq(HandlerRecord) /\ Len(pool) \in Nat /\ DOMAIN pool = 1..Len(pool)
  BY DEF SyncTypes, HandlersOK, PoolOK
<1>2. /\ DOMAIN pool' = DOMAIN pool
      /\ pool'[i] = n /\ \A k \in DOMAIN pool : k # i => pool'[k] = pool[k]
  BY <1>1
<1>3. \A k \in DOMAIN pool : /\ pool'[k].topic = pool[k].topic /\ pool'[k].id = pool[k].id
                             /\ pool'[k].cur = pool[k].cur
  BY <1>2
<1>4. \A k \in DOMAIN pool, a \in Addresses : Of(k, a)' <=> Of(k, a)
  BY <1>3 DEF Of
<1>5. \A k \in DOMAIN pool, a \in Addresses : Of(k, a) =>
        /\ ~Removes(pool'[k]) => ~Removes(pool[k])
        /\ Creates(pool'[k]) => Creates(pool[k])
  BY <1>2 DEF Of
<1>6. \A b \in Addresses : Known(b)' => Known(b) /\ xdpDevices'[b].user = xdpDevices[b].user
  <2> SUFFICES ASSUME NEW b \in Addresses, Known(b)'
               PROVE  Known(b) /\ xdpDevices'[b].user = xdpDevices[b].user
    OBVIOUS
  <2>1. CASE ~Of(i, b)
    BY <2>1, OwnersFollow
  <2>2. CASE Of(i, b)
    <3>1. ~Creates(pool[i])
      BY <2>2 DEF Of
    <3>2. Known(b) /\ xdpDevices'[b].user = pool[i].cur.owner
      BY <2>2, <3>1, OwnersFollow
    <3>3. \A k \in DOMAIN pool : Of(k, b) => i <= k
      BY <1>1, <2>2 DEF Overtakes, Of
    <3> QED
      BY <2>2, <3>2, <3>3 DEF Line, Entered
  <2> QED
    BY <2>1, <2>2
<1>7. Linked'
  <2> SUFFICES ASSUME NEW a \in Addresses, NEW p \in DOMAIN pool, NEW q \in DOMAIN pool,
                      Of(p, a), Of(q, a), p < q,
                      \A k \in DOMAIN pool : Of(k, a) => k <= p \/ q <= k,
                      ~Removes(pool'[p])
               PROVE  pool'[q].cur.owner = pool'[p].cur.owner /\ ~Creates(pool'[q])
    BY <1>2, <1>4 DEF Linked, Removes, Creates
  <2> QED
    BY <1>3, <1>5 DEF Line, Linked
<1>8. Ending'
  <2> SUFFICES ASSUME NEW a \in Addresses, NEW p \in DOMAIN pool, Of(p, a),
                      \A k \in DOMAIN pool : Of(k, a) => k <= p, ~Removes(pool'[p])
               PROVE  device[a] # Absent /\ device[a].owner = pool'[p].cur.owner
    BY <1>2, <1>4 DEF Ending, Removes
  <2> QED
    BY <1>3, <1>5 DEF Line, Ending
<1>9. Entered'
  <2> SUFFICES ASSUME NEW a \in Addresses, NEW q \in DOMAIN pool, Known(a)', Of(q, a),
                      \A k \in DOMAIN pool : Of(k, a) => q <= k
               PROVE  xdpDevices'[a].user = pool'[q].cur.owner /\ ~Creates(pool'[q])
    BY <1>2, <1>4 DEF Entered, Creates
  <2> QED
    BY <1>3, <1>5, <1>6 DEF Line, Entered
<1>10. Standing'
  BY <1>2, <1>4, <1>6 DEF Line, Standing
<1>11. InTurn'
  <2> SUFFICES ASSUME NEW p \in DOMAIN pool, pool'[p].started, NEW j \in 1..(p - 1),
                      pool'[j].topic = pool'[p].topic /\ pool'[j].id = pool'[p].id
               PROVE  FALSE
    BY <1>2 DEF InTurn, Overtakes
  <2>1. j \in DOMAIN pool
    BY <1>1
  <2>2. pool[j].topic = pool[p].topic /\ pool[j].id = pool[p].id
    BY <1>3, <2>1
  <2>3. Overtakes(p)
    BY <2>2 DEF Overtakes
  <2> QED
    BY <1>2, <2>3 DEF Line, InTurn
<1> QED
  BY <1>7, <1>8, <1>9, <1>10, <1>11 DEF Line

\* The snapshot is what etcd still has, and before Setup there are no entries.
Current == phase = "read" => snapshot.devices = device

Bare == phase # "up" => \A a \in Addresses : ~Known(a)

Chain == Bare /\ (InOrder => Line /\ Current)

\* Without handlers and entries there is nothing to keep in order.
LEMMA NoLine ==
  ASSUME pool' = <<>>, \A a \in Addresses : ~Known(a)'
  PROVE  Line'
<1>1. DOMAIN pool' = {}
  OBVIOUS
<1> QED
  BY <1>1 DEF Line, Linked, Ending, Entered, Standing, InTurn

\* The events of a write are delivered.
LEMMA PublishedChain ==
  ASSUME SyncTypes, Chain, NEW topic, NEW R, NEW hs \in Seq(R), Announced(hs),
         Publish(topic, hs)
  PROVE  Chain'
<1>1. /\ IF topic \in Registered
         THEN pool' = pool \o hs /\ UNCHANGED missed
         ELSE missed' = (missed \/ phase # "down") /\ UNCHANGED pool
      /\ UNCHANGED <<xdpDevices, phase, snapshot, listening, order>>
  BY DEF Publish, router, firewall
<1>2. Bare'
  BY <1>1 DEF Chain, Bare, Known
<1>3. CASE topic \in Registered
  <2>1. phase = "up"
    BY <1>3 DEF Registered, SyncTypes, RouterOK
  <2>2. InOrder' => Line'
    BY <1>1, <1>3, Appended DEF Chain, InOrder
  <2> QED
    BY <1>1, <1>2, <2>1, <2>2 DEF Chain, Current
<1>4. CASE topic \notin Registered /\ phase = "down"
  <2>1. pool = <<>> /\ \A a \in Addresses : ~Known(a)
    BY <1>4 DEF SyncTypes, RouterOK, Chain, Bare
  <2>2. pool' = <<>> /\ \A a \in Addresses : ~Known(a)'
    BY <1>1, <1>4, <2>1 DEF Known
  <2>3. Line'
    BY <2>2, NoLine
  <2> QED
    BY <1>1, <1>2, <1>4, <2>3 DEF Chain, Current
<1>5. CASE topic \notin Registered /\ phase # "down"
  <2>1. ~InOrder'
    BY <1>1, <1>5 DEF InOrder
  <2> QED
    BY <1>2, <2>1 DEF Chain
<1> QED
  BY <1>3, <1>4, <1>5

\* Events of other topics change no device.
LEMMA OtherTopic ==
  ASSUME NEW h, h.topic # "devices", ~h.started, UNCHANGED device
  PROVE  Announced(<<h>>) /\ Announced(Event(h))
<1>1. Announced(<<h>>)
  <2>1. \A n \in DOMAIN <<h>> : <<h>>[n] = h
    OBVIOUS
  <2> QED
    BY <2>1 DEF Announced
<1>2. Announced(<<>>)
  <2>1. DOMAIN <<>> = {}
    OBVIOUS
  <2> QED
    BY <2>1 DEF Announced
<1> QED
  BY <1>1, <1>2 DEF Event

\* The event of a write of one device.
LEMMA OneDevice ==
  ASSUME NEW h, NEW a \in Addresses, h.topic = "devices", h.id = a, ~h.started, Announces(h),
         \A b \in Addresses : b # a => device'[b] = device[b]
  PROVE  Announced(<<h>>)
<1>1. \A n \in DOMAIN <<h>> : n = 1 /\ <<h>>[n] = h
  OBVIOUS
<1>2. 1 \in DOMAIN <<h>> /\ <<h>>[1] = h
  OBVIOUS
<1> QED
  BY <1>1, <1>2 DEF Announced

\* The fields of a handler that has just been made.
LEMMA HandlerFields ==
  ASSUME NEW topic, NEW id, NEW cur, NEW old, NEW todo
  PROVE  /\ Handler(topic, id, cur, old, todo).topic = topic
         /\ Handler(topic, id, cur, old, todo).id = id
         /\ Handler(topic, id, cur, old, todo).cur = cur
         /\ Handler(topic, id, cur, old, todo).todo = todo
         /\ ~Handler(topic, id, cur, old, todo).started
BY DEF Handler

\* A new device comes after the last handler of its address, which removes it.
LEMMA AddDeviceChain ==
  ASSUME SyncTypes, Chain, NEW u \in Users, NEW a \in Addresses, NEW k \in Keys,
         AddDevice(u, a, k)
  PROVE  Chain'
<1> DEFINE new == NewDevice(u, k)
           h == Handler("devices", a, new, Absent, <<"addPeer">>)
<1>a. new \in DeviceRecord
  BY LockoutAssumption DEF NewDevice, DeviceRecord
<1>0. new \in DeviceRecord /\ new # Absent
  BY <1>a, AbsentAssumption
<1>1. <<"addPeer">> \in Seq(Steps) /\ <<"addPeer">> # <<"removePeer">>
  BY DEF Steps
<1> HIDE DEF new
<1>2. h \in HandlerRecord
  BY <1>0, <1>1, NewHandler
<1>3. /\ Publish("devices", <<h>>) /\ device[a] = Absent
      /\ device' = [device EXCEPT ![a] = new]
  BY DEF AddDevice, new
<1>4. /\ h.topic = "devices" /\ h.id = a /\ h.cur = new /\ h.todo = <<"addPeer">>
      /\ ~h.started
  BY HandlerFields
<1> HIDE DEF h
<1>5. device'[a] = new /\ \A b \in Addresses : b # a => device'[b] = device[b]
  BY <1>3 DEF SyncTypes, EtcdOK
<1>6. Announces(h)
  BY <1>0, <1>1, <1>3, <1>4, <1>5 DEF Announces, Creates, Removes
<1>7. <<h>> \in Seq(HandlerRecord)
  BY <1>2
<1> QED
  BY <1>3, <1>4, <1>5, <1>6, <1>7, OneDevice, PublishedChain

\* The handler of a removal.
LEMMA RemovalAnnounces ==
  ASSUME SyncTypes, NEW a \in Addresses, device[a] # Absent
  PROVE  /\ Removal(a).topic = "devices" /\ Removal(a).id = a /\ ~Removal(a).started
         /\ Announces(Removal(a)) /\ Removal(a) \in HandlerRecord
<1>1. /\ Removal(a).topic = "devices" /\ Removal(a).id = a /\ ~Removal(a).started
      /\ Removal(a).cur = device[a] /\ Removal(a).todo = <<"removePeer">>
  BY HandlerFields DEF Removal
<1>2. <<"removePeer">> # <<"addPeer">>
  OBVIOUS
<1> QED
  BY <1>1, <1>2, RemovalOK DEF Announces, Creates, Removes

\* A deleted device is announced by a handler that removes its peer.
LEMMA DeleteDeviceChain ==
  ASSUME SyncTypes, Chain, NEW a \in Addresses, DeleteDevice(a)
  PROVE  Chain'
<1>1. /\ device[a] # Absent /\ device' = [device EXCEPT ![a] = Absent]
      /\ Publish("devices", <<Removal(a)>>)
  BY DEF DeleteDevice
<1>2. \A b \in Addresses : b # a => device'[b] = device[b]
  BY <1>1 DEF SyncTypes, EtcdOK
<1>3. /\ Removal(a).topic = "devices" /\ Removal(a).id = a /\ ~Removal(a).started
      /\ Announces(Removal(a)) /\ Removal(a) \in HandlerRecord
  BY <1>1, RemovalAnnounces
<1>4. <<Removal(a)>> \in Seq(HandlerRecord)
  BY <1>3
<1> QED
  BY <1>1, <1>2, <1>3, <1>4, OneDevice, PublishedChain

\* So are all the devices of a deleted user, one handler for each address.
LEMMA DeleteDevicesChain ==
  ASSUME SyncTypes, Chain, NEW u \in Users, DeleteDevices(u)
  PROVE  Chain'
<1>1. PICK key \in InSomeOrder(Owned(u)) :
        Publish("devices", [n \in DOMAIN key |-> Removal(key[n])])
  BY DEF DeleteDevices
<1>2. PICK n \in Nat : /\ key \in [1..n -> Owned(u)] /\ DOMAIN key = 1..n
                       /\ \A x \in Owned(u) : \E i \in 1..n : key[i] = x
                       /\ \A i, j \in 1..n : key[i] = key[j] => i = j
  BY OrderedLemma
<1> DEFINE hs == [m \in DOMAIN key |-> Removal(key[m])]
<1>3. \A m \in 1..n : /\ key[m] \in Addresses /\ device[key[m]] # Absent
                      /\ key[m] \in Owned(u)
  BY <1>2 DEF Owned
<1>4. \A m \in 1..n :
        /\ Removal(key[m]).topic = "devices" /\ Removal(key[m]).id = key[m]
        /\ ~Removal(key[m]).started
        /\ Announces(Removal(key[m])) /\ Removal(key[m]) \in HandlerRecord
  BY <1>3, RemovalAnnounces
<1>5. hs \in Seq(HandlerRecord) /\ DOMAIN hs = 1..n
  BY <1>2, <1>4
<1>6. \A m \in 1..n : hs[m] = Removal(key[m])
  BY <1>2
<1>7. Publish("devices", hs)
  BY <1>1
<1> HIDE DEF hs
<1>8. \A a \in Addresses : a \notin Owned(u) => device'[a] = device[a]
  BY DEF DeleteDevices
<1>9. Announced(hs)
  <2>1. \A m \in DOMAIN hs :
          /\ ~hs[m].started
          /\ hs[m].topic = "devices" => hs[m].id \in Addresses /\ Announces(hs[m])
    BY <1>3, <1>4, <1>5, <1>6
  <2>2. \A m, p \in DOMAIN hs : hs[m].id = hs[p].id => m = p
    BY <1>2, <1>4, <1>5, <1>6
  <2>3. \A a \in Owned(u) : \E m \in DOMAIN hs : hs[m].topic = "devices" /\ hs[m].id = a
    BY <1>2, <1>4, <1>5, <1>6
  <2> QED
    BY <1>8, <2>1, <2>2, <2>3 DEF Announced
<1> QED
  BY <1>5, <1>7, <1>9, PublishedChain

\* The first call of a handler of a change adds and removes no peer.
LEMMA ChangeCallsKeep ==
  ASSUME NEW h, h.todo \in Seq(ChangeCalls)
  PROVE  ~Creates(h) /\ ~Removes(h)
<1>1. \A s \in Seq(ChangeCalls) : s # <<>> => Head(s) \in ChangeCalls
  OBVIOUS
<1>2. <<"addPeer">> # <<>> /\ <<"removePeer">> # <<>>
  OBVIOUS
<1>3. Head(<<"addPeer">>) = "addPeer" /\ Head(<<"removePeer">>) = "removePeer"
  BY HeadTail
<1>4. "addPeer" \notin ChangeCalls /\ "removePeer" \notin ChangeCalls
  BY DEF ChangeCalls
<1> QED
  BY <1>1, <1>2, <1>3, <1>4, Zenon DEF Creates, Removes

\* Any other write of a device leaves its owner.
LEMMA WriteDeviceChain ==
  ASSUME SyncTypes, Chain, NEW a \in Addresses, NEW new, NEW again \in BOOLEAN,
         device[a] # Absent => new \in DeviceRecord /\ new.owner = device[a].owner,
         WriteDevice(a, new, again)
  PROVE  Chain'
<1> DEFINE h == Handler("devices", a, new, device[a].key, DeviceCalls(device[a], new, again))
<1>1. /\ device[a] # Absent /\ device' = [device EXCEPT ![a] = new]
      /\ Publish("devices", Event(h))
      /\ new \in DeviceRecord /\ new.owner = device[a].owner /\ new # Absent
  BY AbsentAssumption DEF WriteDevice
<1>2. device'[a] = new /\ \A b \in Addresses : b # a => device'[b] = device[b]
  BY <1>1 DEF SyncTypes, EtcdOK
<1>3. device[a] \in DeviceRecord /\ device[a].key \in Keys
  BY <1>1, DeviceThere DEF DeviceRecord
<1>4. DeviceCalls(device[a], new, again) \in Seq(ChangeCalls)
  BY <1>1, <1>3, DeviceCallsSeq DEF ChangeCalls
<1>5. DeviceCalls(device[a], new, again) \in Seq(Steps)
  BY <1>4 DEF ChangeCalls, Steps
<1>6. h \in HandlerRecord
  BY <1>1, <1>3, <1>5, NewHandler
<1>7. /\ h.topic = "devices" /\ h.id = a /\ h.cur = new /\ ~h.started
      /\ h.todo = DeviceCalls(device[a], new, again)
  BY HandlerFields
<1> HIDE DEF h
<1>8. ~Creates(h) /\ ~Removes(h)
  BY <1>4, <1>7, ChangeCallsKeep
<1>9. Announces(h)
  BY <1>1, <1>2, <1>7, <1>8 DEF Announces
<1>10. Announced(<<h>>)
  BY <1>2, <1>7, <1>9, OneDevice
<1>11. Announced(<<>>)
  <2>1. DOMAIN <<>> = {}
    OBVIOUS
  <2>2. \A b \in Addresses : /\ device'[b] = Absent <=> device[b] = Absent
                             /\ device[b] # Absent => device'[b].owner = device[b].owner
    BY <1>1, <1>2
  <2> QED
    BY <2>1, <2>2 DEF Announced
<1>12. Announced(Event(h)) /\ Event(h) \in Seq(HandlerRecord)
  BY <1>6, <1>10, <1>11 DEF Event
<1> QED
  BY <1>1, <1>12, PublishedChain

\* The writes of a device.
LEMMA DeviceWriteChain ==
  ASSUME SyncTypes, Chain, NEW a \in Addresses,
         \/ \E u \in Users, k \in Keys : AddDevice(u, a, k)
         \/ DeleteDevice(a)
         \/ \E k \in Keys : UpdateDevicePublicKey(a, k)
         \/ IncrementAuthenticationAttempt(a)
         \/ \E n \in {0, Lockout + 1} : SetDeviceAuthenticationAttempts(a, n)
         \/ CheckAccountLock(a)
         \/ \E n \in Nodes :
              AuthoriseDevice(a, n) \/ \E e \in Endpoints : UpdateDeviceConnectionDetails(a, e, n)
         \/ DeauthenticateDevice(a)
  PROVE  Chain'
<1>1. device[a] # Absent => device[a] \in DeviceRecord
  BY DeviceThere
<1>2. ASSUME NEW k \in Keys, UpdateDevicePublicKey(a, k) PROVE Chain'
  BY <1>1, <1>2, DeviceWritten, WriteDeviceChain DEF UpdateDevicePublicKey
<1>3. CASE IncrementAuthenticationAttempt(a)
  BY <1>1, <1>3, DeviceWritten, WriteDeviceChain DEF IncrementAuthenticationAttempt
<1>4. ASSUME NEW n \in {0, Lockout + 1}, SetDeviceAuthenticationAttempts(a, n) PROVE Chain'
  BY <1>1, <1>4, DeviceWritten, WriteDeviceChain DEF SetDeviceAuthenticationAttempts
<1>5. CASE CheckAccountLock(a)
  <2>1. UNCHANGED <<firewall, device, pool, order, missed, phase, snapshot, listening>>
    BY <1>5 DEF CheckAccountLock, router
  <2> QED
    BY <2>1 DEF Chain, Bare, InOrder, Current, firewall, Known, Line, Linked, Ending, Entered,
       Standing, InTurn, Overtakes, Of, Creates, Removes
<1>6. ASSUME NEW n \in Nodes, AuthoriseDevice(a, n) PROVE Chain'
  <2>1. WriteDevice(a, WithAuthorisation(device[a], n), TRUE)
    BY <1>6 DEF AuthoriseDevice
  <2> QED
    BY <1>1, <2>1, DeviceWritten, WriteDeviceChain
<1>7. ASSUME NEW n \in Nodes, NEW e \in Endpoints, UpdateDeviceConnectionDetails(a, e, n)
      PROVE  Chain'
  BY <1>1, <1>7, DeviceWritten, WriteDeviceChain DEF UpdateDeviceConnectionDetails
<1>8. CASE DeauthenticateDevice(a)
  BY <1>1, <1>8, DeviceWritten, WriteDeviceChain DEF DeauthenticateDevice
<1> QED
  BY <1>2, <1>3, <1>4, <1>5, <1>6, <1>7, <1>8, AddDeviceChain, DeleteDeviceChain

\* A write of anything but a device.
LEMMA OtherWrite ==
  ASSUME SyncTypes, Chain, NEW topic, topic # "devices", NEW h, h.topic = topic, ~h.started,
         UNCHANGED device, Publish(topic, <<h>>) \/ Publish(topic, Event(h))
  PROVE  Chain'
<1>0. <<h>> \in Seq({h}) /\ <<>> \in Seq({h})
  OBVIOUS
<1>1. <<h>> \in Seq({h}) /\ Event(h) \in Seq({h})
  BY <1>0, Zenon DEF Event
<1>2. Announced(<<h>>) /\ Announced(Event(h))
  BY OtherTopic
<1> QED
  BY <1>1, <1>2, PublishedChain

\* The writes of a user touch no device.
LEMMA UserWriteChain ==
  ASSUME SyncTypes, Chain, UserWrite
  PROVE  Chain'
<1> SUFFICES ASSUME NEW u \in Users,
               \/ \E l \in BOOLEAN : SetUserLock(u, l)
               \/ \E m \in Mfas \cup {Unset} : SetUserMfa(u, m)
               \/ \E e \in BOOLEAN : SetEnforceMFA(u, e)
               \/ CreateUser(u) \/ DeleteUser(u) \/ DeleteDevices(u)
               \/ \E l \in Acls : SetUserGroupMembership(u, l)
             PROVE Chain'
  BY DEF UserWrite, SyncTypes, EtcdOK
<1>1. ASSUME NEW new, NEW ends, WriteUser(u, new, ends) PROVE Chain'
  <2> DEFINE h == Handler("users", u, new, Absent, UserCalls(user[u], new))
  <2>1. Publish("users", Event(h)) /\ UNCHANGED device
    BY <1>1 DEF WriteUser
  <2>2. h.topic = "users" /\ ~h.started
    BY HandlerFields
  <2> HIDE DEF h
  <2> QED
    BY <2>1, <2>2, OtherWrite
<1>2. CASE CreateUser(u)
  <2> DEFINE h == Handler("users", u, NewUser, Absent, <<"readAcl", "addUser">>)
  <2>1. Publish("users", <<h>>) /\ UNCHANGED device
    BY <1>2 DEF CreateUser
  <2>2. h.topic = "users" /\ ~h.started
    BY HandlerFields
  <2> HIDE DEF h
  <2> QED
    BY <2>1, <2>2, OtherWrite
<1>3. CASE DeleteUser(u)
  <2> DEFINE h == Handler("users", u, user[u], Absent, <<"removeUser">>)
  <2>1. Publish("users", <<h>>) /\ UNCHANGED device
    BY <1>3 DEF DeleteUser
  <2>2. h.topic = "users" /\ ~h.started
    BY HandlerFields
  <2> HIDE DEF h
  <2> QED
    BY <2>1, <2>2, OtherWrite
<1>4. ASSUME NEW l \in Acls, SetUserGroupMembership(u, l) PROVE Chain'
  <2> DEFINE h == Handler("membership", u, Absent, Absent, <<"refreshUser">>)
  <2>1. Publish("membership", <<h>>) /\ UNCHANGED device
    BY <1>4 DEF SetUserGroupMembership
  <2>2. h.topic = "membership" /\ ~h.started
    BY HandlerFields
  <2> HIDE DEF h
  <2> QED
    BY <2>1, <2>2, OtherWrite
<1> QED
  BY <1>1, <1>2, <1>3, <1>4, DeleteDevicesChain DEF SetUserLock, SetUserMfa, SetEnforceMFA

\* Nor do the writes of the configuration.
LEMMA ConfigWriteChain ==
  ASSUME SyncTypes, Chain, ConfigWrite
  PROVE  Chain'
<1>1. ASSUME NEW new, SetAcl(new) PROVE Chain'
  <2> DEFINE h == Handler("acls", Absent, Absent, Absent, <<"refresh">>)
  <2>1. Publish("acls", <<h>>) /\ UNCHANGED device
    BY <1>1 DEF SetAcl
  <2>2. h.topic = "acls" /\ ~h.started
    BY HandlerFields
  <2> HIDE DEF h
  <2> QED
    BY <2>1, <2>2, OtherWrite
<1>2. CASE SetSessionInactivityTimeout
  <2> DEFINE h == Handler("timeout", Absent, Absent, Absent, <<"setTimeout">>)
  <2>1. Publish("timeout", <<h>>) /\ UNCHANGED device
    BY <1>2 DEF SetSessionInactivityTimeout, etcd
  <2>2. h.topic = "timeout" /\ ~h.started
    BY HandlerFields
  <2> HIDE DEF h
  <2> QED
    BY <2>1, <2>2, OtherWrite
<1> QED
  BY <1>1, <1>2 DEF ConfigWrite

-----------------------------------------------------------------------------
\* A handler that is not noted to overtake is the first of its line.
LEMMA FirstOfLine ==
  ASSUME Line, NEW i \in DOMAIN pool, NoteOrder(i), order' # "any"
  PROVE  ~Overtakes(i)
<1>1. CASE pool[i].started
  BY <1>1 DEF Line, InTurn
<1>2. CASE i = 1
  BY <1>2 DEF Overtakes
<1>3. CASE ~pool[i].started /\ i # 1
  BY <1>3 DEF NoteOrder
<1> QED
  BY <1>1, <1>2, <1>3

\* A handler goes on or ends.
LEMMA ContinuedChain ==
  ASSUME SyncTypes, Chain, NEW i \in DOMAIN pool, NEW todo, Continue(i, todo), Owners(i),
         \/ todo = <<>>
         \/ pool[i].topic # "devices"
         \/ Changes(pool[i]) /\ todo \in Seq(ChangeCalls)
  PROVE  Chain'
<1>1. /\ UNCHANGED <<device, phase, snapshot, missed>> /\ NoteOrder(i)
      /\ pool' = IF todo = <<>> THEN RemoveAt(pool, i)
                 ELSE [pool EXCEPT ![i].todo = todo, ![i].started = TRUE]
  BY DEF Continue, etcd, router
<1>2. pool \in Seq(HandlerRecord)
  BY DEF SyncTypes, HandlersOK, PoolOK
<1>3. phase = "up"
  BY <1>2 DEF SyncTypes, RouterOK
<1> SUFFICES ASSUME InOrder' PROVE Line'
  BY <1>1, <1>3 DEF Chain, Bare, Current
<1>4. InOrder
  BY <1>1 DEF InOrder, NoteOrder
<1>5. Line /\ ~Overtakes(i)
  BY <1>1, <1>4, FirstOfLine DEF Chain, InOrder
<1>6. CASE todo = <<>>
  BY <1>1, <1>5, <1>6, Dropped
<1>7. CASE todo # <<>>
  <2>1. PICK n : n = [pool[i] EXCEPT !.todo = todo, !.started = TRUE]
    OBVIOUS
  <2>2. pool' = [pool EXCEPT ![i] = n]
    BY <1>1, <1>2, <1>7, <2>1
  <2>3. pool[i] \in HandlerRecord
    BY <1>2
  <2>4. n.topic = pool[i].topic /\ n.id = pool[i].id /\ n.cur = pool[i].cur /\ n.todo = todo
    BY <2>1, <2>3 DEF HandlerRecord
  <2>5. n.topic = "devices" => ~Creates(n) /\ ~Creates(pool[i]) /\ ~Removes(pool[i])
    BY <1>7, <2>4, ChangeCallsKeep DEF Changes
  <2> QED
    BY <1>1, <1>5, <2>2, <2>4, <2>5, GoneOn
<1> QED
  BY <1>6, <1>7

\* Nothing is left after a crash.
LEMMA CrashChain == Crash => Chain'
<1> SUFFICES ASSUME Crash PROVE Chain'
  OBVIOUS
<1>1. phase' = "down" /\ pool' = <<>>
  BY DEF Crash
<1>2. \A a \in Addresses : ~Known(a)'
  BY DEF Crash, Setup, SetupXDP, NoAddresses, Known
<1> QED
  BY <1>1, <1>2, NoLine DEF Chain, Bare, Current

\* Every owner stays.
Kept ==
  \A b \in Addresses : Known(b)' => Known(b) /\ xdpDevices'[b].user = xdpDevices[b].user

\* The sessions of entries change and their owners do not.
LEMMA SessionKept ==
  ASSUME FirewallTypeOK, NEW S \in SUBSET Addresses,
         \/ xdpDevices' = Deauthenticated(S)
         \/ S \subseteq Idle(Addresses)
              /\ xdpDevices' = [a \in Addresses |->
                                  IF a \in S THEN [xdpDevices[a] EXCEPT !.session = "live"]
                                  ELSE xdpDevices[a]]
  PROVE  Kept
BY DeauthenticatedLemma, ReviveLemma DEF Kept

\* A call that writes one entry, if it is there, and leaves its user in it.
LEMMA EntryKept ==
  ASSUME FirewallTypeOK, NEW a \in Addresses,
         \/ \E to \in SessionStates : Lapse(a, to)
         \/ \E node \in Nodes : UpdateNodeAssociation(a, node)
  PROVE  Kept
<1>0. xdpDevices \in [Addresses -> FwEntry \cup {Absent}]
  BY DEF FirewallTypeOK
<1>1. ASSUME Known(a), NEW e, e.user = xdpDevices[a].user,
             xdpDevices' = [xdpDevices EXCEPT ![a] = e]
      PROVE  Kept
  BY <1>0, <1>1 DEF Kept, Known
<1>2. ASSUME NEW to \in SessionStates, Lapse(a, to) PROVE Kept
  <2> DEFINE e == [xdpDevices[a] EXCEPT !.session = to]
  <2>1. Known(a) /\ xdpDevices' = [xdpDevices EXCEPT ![a] = e]
    BY <1>2 DEF Lapse
  <2>2. e.user = xdpDevices[a].user
    BY <2>1, EntryLemma
  <2> QED
    BY <1>1, <2>1, <2>2
<1>3. ASSUME NEW node \in Nodes, UpdateNodeAssociation(a, node) PROVE Kept
  <2>1. CASE ~Known(a)
    BY <1>3, <2>1 DEF UpdateNodeAssociation, Kept, Known
  <2>2. CASE Known(a)
    <3> DEFINE e == [xdpDevices[a] EXCEPT !.node = node]
    <3>1. e.user = xdpDevices[a].user
      BY <2>2, EntryLemma
    <3>2. xdpDevices' = [xdpDevices EXCEPT ![a] = e]
      BY <1>3, <2>2 DEF UpdateNodeAssociation
    <3> QED
      BY <1>1, <2>2, <3>1, <3>2
  <2> QED
    BY <2>1, <2>2
<1> QED
  BY <1>2, <1>3

\* A call that keeps every owner, by a handler that removes no peer.
LEMMA KeptOwners ==
  ASSUME NEW i \in DOMAIN pool, Kept, pool[i].topic = "devices" => ~Removes(pool[i])
  PROVE  Owners(i)
BY DEF Kept, Owners, Of

\* The calls for a device.
LEMMA HandleDeviceChain ==
  ASSUME SyncTypes, Chain, NEW i \in DOMAIN pool,
         \/ HandleAddPeer(i) \/ HandleRemovePeer(i) \/ HandleReplacePeer(i)
         \/ HandleChallenge(i) \/ HandleVerify(i) \/ HandleCheckLockout(i)
         \/ HandleDeauthenticate(i) \/ HandleAssociate(i) \/ HandleAuthorise(i)
  PROVE  Chain'
<1> USE DEF Calls
<1>0. FirewallTypeOK /\ xdpDevices \in [Addresses -> FwEntry \cup {Absent}]
  BY DEF SyncTypes, RouterOK, FirewallTypeOK
<1>a. ASSUME Head(pool[i].todo) \in ChangeCalls, Proceed(i) \/ Fail(i), Kept PROVE Chain'
  <2>1. Changes(pool[i]) /\ pool[i].topic = "devices" /\ pool[i].todo \in Seq(ChangeCalls)
    BY <1>a, DeviceCall DEF Changes
  <2>2. pool[i].todo # <<>>
    BY DEF SyncTypes, HandlersOK, PoolOK, HandlerOK
  <2>3. Tail(pool[i].todo) \in Seq(ChangeCalls)
    BY <2>1, <2>2
  <2>4. Owners(i)
    BY <1>a, <2>1, ChangeCallsKeep, KeptOwners
  <2> QED
    BY <1>a, <2>1, <2>3, <2>4, ContinuedChain DEF Proceed, Fail
<1>b. ASSUME NEW call \in ChangeCalls, Head(pool[i].todo) \in ChangeCalls, NEW todo,
             todo = <<call>> \o Tail(pool[i].todo) \/ todo = Tail(pool[i].todo),
             Continue(i, todo), UNCHANGED firewall
      PROVE  Chain'
  <2>1. Changes(pool[i]) /\ pool[i].topic = "devices" /\ pool[i].todo \in Seq(ChangeCalls)
    BY <1>b, DeviceCall DEF Changes
  <2>2. pool[i].todo # <<>>
    BY DEF SyncTypes, HandlersOK, PoolOK, HandlerOK
  <2>3. Tail(pool[i].todo) \in Seq(ChangeCalls) /\ <<call>> \in Seq(ChangeCalls)
    BY <2>1, <2>2
  <2>4. todo \in Seq(ChangeCalls)
    BY <1>b, <2>3, ConcatSeq
  <2>5. Owners(i)
    BY <1>b, <2>1, ChangeCallsKeep, KeptOwners DEF Kept, Known, firewall
  <2> QED
    BY <1>b, <2>1, <2>4, <2>5, ContinuedChain
<1>1. CASE HandleAddPeer(i)
  <2>1. /\ Head(pool[i].todo) = "addPeer" /\ (Proceed(i) \/ Fail(i))
        /\ AddPeer(pool[i].cur.key, pool[i].cur.owner, pool[i].id, pool[i].cur.node)
    BY <1>1 DEF HandleAddPeer, ProceedIf
  <2>2. pool[i].id \in Addresses /\ pool[i].topic = "devices" /\ Creates(pool[i])
    BY <2>1, DeviceCall
  <2>3. Tail(pool[i].todo) = <<>>
    BY <2>2, HeadTail, Zenon DEF Creates
  <2>4. ~Removes(pool[i])
    <3>1. <<"addPeer">> # <<"removePeer">>
      OBVIOUS
    <3> QED
      BY <2>2, <3>1 DEF Creates, Removes
  <2>5. Owners(i)
    <3>1. CASE CanAddPeer(pool[i].cur.owner, pool[i].id)
      <4>1. PICK e : /\ xdpDevices' = [xdpDevices EXCEPT ![pool[i].id] = e]
                     /\ e.user = pool[i].cur.owner
        BY <2>1, <3>1 DEF AddPeer
      <4> QED
        BY <1>0, <2>2, <2>4, <4>1 DEF Owners, Known, Of
    <3>2. CASE ~CanAddPeer(pool[i].cur.owner, pool[i].id)
      BY <2>1, <2>4, <3>2 DEF AddPeer, Owners, Known, firewall
    <3> QED
      BY <3>1, <3>2
  <2> QED
    BY <2>1, <2>3, <2>5, ContinuedChain DEF Proceed, Fail
<1>2. CASE HandleRemovePeer(i)
  <2>1. /\ Head(pool[i].todo) = "removePeer" /\ Proceed(i)
        /\ RemovePeer(pool[i].cur.key, pool[i].id)
    BY <1>2 DEF HandleRemovePeer
  <2>2. pool[i].id \in Addresses /\ pool[i].topic = "devices" /\ Removes(pool[i])
    BY <2>1, DeviceCall
  <2>3. Tail(pool[i].todo) = <<>>
    BY <2>2, HeadTail, Zenon DEF Removes
  <2>4. xdpDevices' = [xdpDevices EXCEPT ![pool[i].id] = Absent]
    BY <2>1 DEF RemovePeer
  <2>5. Owners(i)
    BY <1>0, <2>2, <2>4 DEF Owners, Known, Of
  <2> QED
    BY <2>1, <2>3, <2>5, ContinuedChain DEF Proceed
<1>3. CASE HandleReplacePeer(i)
  <2>1. CASE Crash
    BY <2>1, CrashChain
  <2>2. CASE ~Crash
    <3>1. Head(pool[i].todo) = "replacePeer" /\ Proceed(i) /\ UNCHANGED xdpDevices
      BY <1>3, <2>2 DEF HandleReplacePeer, ReplacePeer
    <3>2. Kept
      BY <3>1 DEF Kept, Known
    <3> QED
      BY <1>a, <3>1, <3>2 DEF ChangeCalls
  <2> QED
    BY <2>1, <2>2
<1>4. CASE HandleChallenge(i)
  BY <1>4, <1>b DEF HandleChallenge, ChangeCalls
<1>5. CASE HandleVerify(i)
  <2>1. /\ Head(pool[i].todo) = "verify" /\ (Proceed(i) \/ Fail(i))
        /\ UNCHANGED firewall \/ Deauthenticate(pool[i].id)
    BY <1>5 DEF HandleVerify, ProceedIf
  <2>2. pool[i].id \in Addresses
    BY <2>1, DeviceCall DEF ChangeCalls
  <2>3. CASE UNCHANGED firewall
    BY <1>a, <2>1, <2>3 DEF Kept, Known, ChangeCalls, firewall
  <2>4. CASE Deauthenticate(pool[i].id)
    <3>1. xdpDevices' = Deauthenticated({pool[i].id})
      BY <2>4 DEF Deauthenticate
    <3>2. {pool[i].id} \in SUBSET Addresses
      BY <2>2
    <3>3. Kept
      BY <1>0, <3>1, <3>2, SessionKept
    <3> QED
      BY <1>a, <2>1, <3>3 DEF ChangeCalls
  <2> QED
    BY <2>1, <2>3, <2>4
<1>6. CASE HandleCheckLockout(i)
  BY <1>6, <1>b DEF HandleCheckLockout, ChangeCalls
<1>7. CASE HandleDeauthenticate(i)
  <2>1. /\ Head(pool[i].todo) = "deauthenticate" /\ (Proceed(i) \/ Fail(i))
        /\ xdpDevices' = Deauthenticated({pool[i].id})
    BY <1>7 DEF HandleDeauthenticate, ProceedIf, Deauthenticate
  <2>2. pool[i].id \in Addresses
    BY <2>1, DeviceCall DEF ChangeCalls
  <2>3. {pool[i].id} \in SUBSET Addresses
    BY <2>2
  <2>4. Kept
    BY <1>0, <2>1, <2>3, SessionKept
  <2> QED
    BY <1>a, <2>1, <2>4 DEF ChangeCalls
<1>8. CASE HandleAssociate(i)
  <2>1. /\ Head(pool[i].todo) = "associate" /\ (Proceed(i) \/ Fail(i))
        /\ UpdateNodeAssociation(pool[i].id, pool[i].cur.node)
    BY <1>8 DEF HandleAssociate, ProceedIf
  <2>2. Kept
    BY <1>0, <2>1, DeviceCall, EntryKept DEF ChangeCalls, PlaceCalls
  <2> QED
    BY <1>a, <2>1, <2>2 DEF ChangeCalls
<1>9. CASE HandleAuthorise(i)
  <2>1. /\ Head(pool[i].todo) = "authorise" /\ Proceed(i)
        /\ SetAuthorized(pool[i].id, pool[i].cur.owner, pool[i].cur.node)
    BY <1>9 DEF HandleAuthorise
  <2>2. /\ pool[i].id \in Addresses /\ pool[i].topic = "devices" /\ Changes(pool[i])
        /\ pool[i].todo \in Seq(ChangeCalls)
    BY <2>1, DeviceCall DEF ChangeCalls, Changes
  <2>3. pool[i].todo # <<>>
    BY DEF SyncTypes, HandlersOK, PoolOK, HandlerOK
  <2>4. Tail(pool[i].todo) \in Seq(ChangeCalls) /\ ~Removes(pool[i])
    BY <2>2, <2>3, ChangeCallsKeep
  <2>5. Owners(i)
    <3> DEFINE e == [user |-> pool[i].cur.owner, session |-> "live", node |-> pool[i].cur.node]
    <3>1. xdpDevices' = IF Known(pool[i].id)
                          THEN [xdpDevices EXCEPT ![pool[i].id] = e] ELSE xdpDevices
      BY <2>1 DEF SetAuthorized
    <3>2. e.user = pool[i].cur.owner
      OBVIOUS
    <3> HIDE DEF e
    <3> QED
      BY <1>0, <2>2, <2>4, <3>1, <3>2 DEF Owners, Known, Of
  <2> QED
    BY <2>1, <2>2, <2>4, <2>5, ContinuedChain DEF Proceed
<1> QED
  BY <1>1, <1>2, <1>3, <1>4, <1>5, <1>6, <1>7, <1>8, <1>9

\* The calls for a user and for the configuration.
LEMMA HandleUserChain ==
  ASSUME SyncTypes, Chain, NEW i \in DOMAIN pool,
         \/ HandleReadAcl(i) \/ HandleAddUser(i) \/ HandleRemoveUser(i)
         \/ HandleLock(i) \/ HandleDeauthenticateAll(i)
         \/ HandleRefreshUser(i) \/ HandleRefresh(i) \/ HandleSetTimeout(i)
  PROVE  Chain'
<1> USE DEF Calls
<1>0. FirewallTypeOK
  BY DEF SyncTypes, RouterOK
<1>1. pool[i].topic # "devices"
  <2>1. /\ pool[i].todo # <<>> /\ HandlerOK(pool[i])
        /\ Head(pool[i].todo) \in {"readAcl", "addUser", "removeUser", "lock",
             "deauthenticateAll", "refreshUser", "refresh", "setTimeout"}
    BY DEF SyncTypes, HandlersOK, PoolOK, HandlerOK, HandleReadAcl, HandleAddUser, HandleRemoveUser,
       HandleLock, HandleDeauthenticateAll, HandleRefreshUser, HandleRefresh, HandleSetTimeout
  <2>2. \A s \in Seq(ChangeCalls) : s # <<>> => Head(s) \in ChangeCalls
    OBVIOUS
  <2> QED
    BY <2>1, <2>2 DEF HandlerOK, Creates, Removes, Changes, ChangeCalls
<1>2. ASSUME Kept PROVE Owners(i)
  BY <1>1, <1>2, KeptOwners
<1>3. CASE HandleReadAcl(i)
  <2>1. /\ NoteOrder(i) /\ UNCHANGED <<xdpDevices, device, phase, snapshot, missed>>
        /\ pool' = [pool EXCEPT ![i].acl = acl[pool[i].id], ![i].todo = Tail(pool[i].todo),
                                ![i].started = TRUE]
    BY <1>3 DEF HandleReadAcl, firewall, etcd, router
  <2>2. pool \in Seq(HandlerRecord) /\ pool[i] \in HandlerRecord
    BY DEF SyncTypes, HandlersOK, PoolOK, HandlerOK
  <2>3. PICK l : l = acl[pool[i].id]
    OBVIOUS
  <2>4. PICK s : s = Tail(pool[i].todo)
    OBVIOUS
  <2>5. PICK n : n = [pool[i] EXCEPT !.acl = l, !.todo = s, !.started = TRUE]
    OBVIOUS
  <2>6. pool' = [pool EXCEPT ![i] = n]
    BY <2>1, <2>2, <2>3, <2>4, <2>5
  <2>7. n.topic = pool[i].topic /\ n.id = pool[i].id /\ n.cur = pool[i].cur
    BY <2>2, <2>5 DEF HandlerRecord
  <2>8. phase = "up"
    BY <2>2 DEF SyncTypes, RouterOK
  <2> SUFFICES ASSUME InOrder' PROVE Line'
    BY <2>1, <2>8 DEF Chain, Bare, Current
  <2>9. InOrder
    BY <2>1 DEF InOrder, NoteOrder
  <2>10. Line /\ ~Overtakes(i)
    BY <2>1, <2>9, FirstOfLine DEF Chain, InOrder
  <2>11. Owners(i)
    BY <1>2, <2>1 DEF Kept, Known
  <2> QED
    BY <1>1, <2>1, <2>6, <2>7, <2>10, <2>11, GoneOn
<1>4. ASSUME Proceed(i), Kept PROVE Chain'
  BY <1>1, <1>2, <1>4, ContinuedChain DEF Proceed
<1>5. CASE HandleAddUser(i)
  BY <1>4, <1>5 DEF HandleAddUser, AddUser, firewall, Kept, Known
<1>6. CASE HandleRemoveUser(i)
  <2>1. RemoveUser(pool[i].id) /\ Proceed(i)
    BY <1>6 DEF HandleRemoveUser
  <2>2. \A b \in Addresses : xdpDevices'[b] = Absent \/ xdpDevices'[b] = xdpDevices[b]
    BY <2>1 DEF RemoveUser, firewall
  <2> QED
    BY <1>4, <2>1, <2>2 DEF Kept, Known
<1>7. CASE HandleLock(i)
  <2>1. xdpDevices' = Deauthenticated(Tracked(pool[i].id)) /\ Proceed(i)
    BY <1>7 DEF HandleLock, SetLockAccount
  <2>2. Tracked(pool[i].id) \in SUBSET Addresses
    BY DEF Tracked
  <2> QED
    BY <1>0, <1>4, <2>1, <2>2, SessionKept
<1>8. CASE HandleDeauthenticateAll(i)
  <2>1. PICK S \in SUBSET Tracked(pool[i].id) : xdpDevices' = Deauthenticated(S) /\ Proceed(i)
    BY <1>8 DEF HandleDeauthenticateAll, DeauthenticateAllDevices
  <2>2. S \in SUBSET Addresses
    BY DEF Tracked
  <2> QED
    BY <1>0, <1>4, <2>1, <2>2, SessionKept
<1>9. CASE HandleRefreshUser(i)
  BY <1>4, <1>9 DEF HandleRefreshUser, RefreshUserAcls, Kept, Known
<1>10. CASE HandleRefresh(i)
  <2>1. PICK S \in SUBSET Idle(Addresses) : RefreshConfiguration(user, acl, S)
    BY <1>10 DEF HandleRefresh
  <2>2. xdpDevices' = [a \in Addresses |->
                         IF a \in S THEN [xdpDevices[a] EXCEPT !.session = "live"]
                         ELSE xdpDevices[a]]
    BY <2>1 DEF RefreshConfiguration
  <2>3. S \in SUBSET Addresses /\ S \subseteq Idle(Addresses)
    BY DEF Idle
  <2>4. Kept
    BY <1>0, <2>2, <2>3, SessionKept
  <2> QED
    BY <1>4, <1>10, <2>4 DEF HandleRefresh
<1>11. CASE HandleSetTimeout(i)
  <2>1. PICK S \in SUBSET Idle(Addresses) : SetInactivityTimeout(S)
    BY <1>11 DEF HandleSetTimeout
  <2>2. xdpDevices' = [a \in Addresses |->
                         IF a \in S THEN [xdpDevices[a] EXCEPT !.session = "live"]
                         ELSE xdpDevices[a]]
    BY <2>1 DEF SetInactivityTimeout
  <2>3. S \in SUBSET Addresses /\ S \subseteq Idle(Addresses)
    BY DEF Idle
  <2>4. Kept
    BY <1>0, <2>2, <2>3, SessionKept
  <2> QED
    BY <1>4, <1>11, <2>4 DEF HandleSetTimeout
<1> QED
  BY <1>3, <1>5, <1>6, <1>7, <1>8, <1>9, <1>10, <1>11

\* No event, and every owner stays.
LEMMA KeptLine ==
  ASSUME Line, Kept, UNCHANGED <<pool, device>>
  PROVE  Line'
<1>1. Linked' /\ Ending' /\ InTurn'
  BY DEF Line, Linked, Ending, InTurn, Of, Creates, Removes, Overtakes
<1>2. Entered' /\ Standing'
  BY DEF Line, Entered, Standing, Of, Creates, Removes, Kept
<1> QED
  BY <1>1, <1>2 DEF Line

\* Setup enters the devices of the snapshot.
LEMMA SetupLine ==
  ASSUME SyncTypes, phase = "read", snapshot.devices = device, UNCHANGED <<pool, device>>,
         Setup(snapshot.users, snapshot.devices, acl)
  PROVE  Line'
<1>1. pool' = <<>>
  BY DEF SyncTypes, RouterOK
<1>2. DOMAIN pool' = {}
  BY <1>1
<1>3. \A a \in Addresses :
        xdpDevices'[a] = IF device[a] = Absent THEN Absent
                         ELSE [user |-> device[a].owner, session |-> "none", node |-> device[a].node]
  BY DEF Setup, SetupXDP
<1>4. ASSUME NEW a \in Addresses, Known(a)'
      PROVE  device[a] # Absent /\ xdpDevices'[a].user = device[a].owner
  <2>1. device[a] # Absent
    BY <1>3, <1>4 DEF Known
  <2>2. xdpDevices'[a] = [user |-> device[a].owner, session |-> "none", node |-> device[a].node]
    BY <1>3, <2>1
  <2> QED
    BY <2>1, <2>2
<1> QED
  BY <1>2, <1>4 DEF Line, Linked, Ending, Entered, Standing, InTurn

\* The start of a router and its crash.
LEMMA LifecycleChain ==
  ASSUME SyncTypes, Chain, Lifecycle
  PROVE  Chain'
<1>1. CASE GetInitialData
  <2>1. /\ phase = "down" /\ phase' = "read" /\ UNCHANGED <<firewall, device, pool, order, missed>>
        /\ snapshot' = [users |-> user, devices |-> device]
    BY <1>1 DEF GetInitialData, etcd
  <2>2. Kept /\ Bare'
    BY <2>1 DEF Kept, Known, firewall, Chain, Bare
  <2>3. Current'
    BY <2>1 DEF Current
  <2> QED
    BY <2>1, <2>2, <2>3, KeptLine DEF Chain, InOrder
<1>2. CASE SetupRouter
  <2>1. CASE Crash
    BY <2>1, CrashChain
  <2>2. CASE ~Crash
    <3>1. /\ phase = "read" /\ phase' = "up"
          /\ Setup(snapshot.users, snapshot.devices, acl)
          /\ UNCHANGED <<device, pool, order, missed>>
      BY <1>2, <2>2 DEF SetupRouter, etcd
    <3>2. InOrder' => Line'
      BY <3>1, SetupLine DEF Chain, InOrder, Current
    <3> QED
      BY <3>1, <3>2 DEF Chain, Bare, Current
  <2> QED
    BY <2>1, <2>2
<1>3. CASE RegisterEventListener
  <2>1. UNCHANGED <<firewall, device, pool, phase, snapshot, order, missed>>
    BY <1>3 DEF RegisterEventListener, etcd
  <2>2. Kept /\ Bare'
    BY <2>1 DEF Kept, Known, firewall, Chain, Bare
  <2> QED
    BY <2>1, <2>2, KeptLine DEF Chain, InOrder, Current
<1>4. CASE Restart
  BY <1>4, CrashChain DEF Restart
<1>5. ASSUME NEW a \in Addresses, NEW to \in SessionStates, SessionLapse(a, to)
      PROVE  Chain'
  <2>1. Lapse(a, to) /\ UNCHANGED <<device, pool, phase, snapshot, order, missed>>
    BY <1>5 DEF SessionLapse, etcd, router
  <2>2. Kept
    BY <2>1, EntryKept DEF SyncTypes, RouterOK
  <2>3. Bare'
    BY <2>1, <2>2 DEF Kept, Chain, Bare
  <2> QED
    BY <2>1, <2>2, <2>3, KeptLine DEF Chain, InOrder, Current
<1> QED
  BY <1>1, <1>2, <1>3, <1>4, <1>5 DEF Lifecycle

\* The initial states have no handlers and no entries.
LEMMA InitChain == Init => Chain
<1> SUFFICES ASSUME Init PROVE Chain
  OBVIOUS
<1>1. pool = <<>> /\ phase = "up" /\ xdpDevices = SetupXDP(user, device, acl).xdpDevices
  BY DEF Init, SetUp
<1>2. DOMAIN pool = {}
  BY <1>1
<1>3. \A a \in Addresses :
        xdpDevices[a] = IF device[a] = Absent THEN Absent
                        ELSE [user |-> device[a].owner, session |-> "none", node |-> device[a].node]
  BY <1>1 DEF SetupXDP
<1>4. ASSUME NEW a \in Addresses, Known(a)
      PROVE  device[a] # Absent /\ xdpDevices[a].user = device[a].owner
  <2>1. device[a] # Absent
    BY <1>3, <1>4 DEF Known
  <2>2. xdpDevices[a] = [user |-> device[a].owner, session |-> "none", node |-> device[a].node]
    BY <1>3, <2>1
  <2> QED
    BY <2>1, <2>2
<1>5. Line
  BY <1>2, <1>4 DEF Line, Linked, Ending, Entered, Standing, InTurn
<1> QED
  BY <1>1, <1>5 DEF Chain, Bare, Current

\* Every step keeps the handlers of an address in line.
LEMMA NextChain == SyncTypes /\ Chain /\ [Next]_vars => Chain'
<1> SUFFICES ASSUME SyncTypes, Chain, [Next]_vars PROVE Chain'
  OBVIOUS
<1>1. CASE UNCHANGED vars
  <2>1. UNCHANGED <<firewall, device, pool, phase, snapshot, order, missed>>
    BY <1>1 DEF vars
  <2>2. Kept /\ Bare'
    BY <2>1 DEF Kept, Known, firewall, Chain, Bare
  <2> QED
    BY <2>1, <2>2, KeptLine DEF Chain, InOrder, Current
<1>2. CASE DeviceWrite
  BY <1>2, DeviceWriteChain DEF DeviceWrite
<1>3. ASSUME NEW i \in DOMAIN pool, Handle(i) PROVE Chain'
  BY <1>3, HandleDeviceChain, HandleUserChain DEF Handle
<1> QED
  BY <1>1, <1>2, <1>3, UserWriteChain, ConfigWriteChain, LifecycleChain DEF Next

-----------------------------------------------------------------------------
(***************************************************************************)
(* The calls the handlers make.                                            *)
(***************************************************************************)

\* What CallsAllowed says of a step.
Allowed ==
  \/ FirewallNext
  \/ \E S \in SUBSET Idle(Addresses) : RefreshConfiguration(user, acl, S)
  \/ phase' # phase

\* What a handler of a device calls, the workload of the firewall module calls.
LEMMA DeviceCallAllowed ==
  ASSUME SyncTypes, Chain, NEW i \in DOMAIN pool, InOrder',
         \/ HandleAddPeer(i) \/ HandleRemovePeer(i) \/ HandleReplacePeer(i)
         \/ HandleChallenge(i) \/ HandleVerify(i) \/ HandleCheckLockout(i)
         \/ HandleDeauthenticate(i) \/ HandleAssociate(i) \/ HandleAuthorise(i)
  PROVE  Allowed \/ UNCHANGED firewall
<1> USE DEF Calls
<1> DEFINE h == pool[i]
<1>1. Len(pool) \in Nat /\ DOMAIN pool = 1..Len(pool) /\ phase = "up"
  BY DEF SyncTypes, HandlersOK, PoolOK, RouterOK
<1>2. CASE HandleAddPeer(i)
  <2>1. /\ Head(h.todo) = "addPeer"
        /\ AddPeer(h.cur.key, h.cur.owner, h.id, h.cur.node)
    BY <1>2 DEF HandleAddPeer
  <2>2. /\ h.id \in Addresses /\ h.cur.owner \in Users /\ h.cur.key \in Keys
        /\ h.cur.node \in Nodes \cup {NoNode}
    BY <2>1, DeviceCall
  <2> QED
    BY <2>1, <2>2 DEF Allowed, FirewallNext, PeerOperation
<1>3. CASE HandleRemovePeer(i)
  <2>1. Head(h.todo) = "removePeer" /\ RemovePeer(h.cur.key, h.id)
    BY <1>3 DEF HandleRemovePeer
  <2>2. h.id \in Addresses /\ h.cur.key \in Keys /\ h.cur.owner \in Users
    BY <2>1, DeviceCall
  <2> QED
    BY <2>1, <2>2 DEF Allowed, FirewallNext, PeerOperation
<1>4. CASE HandleReplacePeer(i)
  <2>1. CASE Crash
    BY <1>1, <2>1 DEF Crash, Allowed
  <2>2. CASE ~Crash
    <3>1. Head(h.todo) = "replacePeer" /\ ReplacePeer(h.cur.owner, h.id, h.old, h.cur.key)
      BY <1>4, <2>2 DEF HandleReplacePeer
    <3>2. h.id \in Addresses /\ h.cur.key \in Keys /\ h.cur.owner \in Users /\ h.old \in Keys
      BY <3>1, DeviceCall DEF ChangeCalls, Changes
    <3> QED
      BY <3>1, <3>2 DEF Allowed, FirewallNext, PeerOperation
  <2> QED
    BY <2>1, <2>2
<1>5. CASE HandleChallenge(i) \/ HandleCheckLockout(i)
  BY <1>5 DEF HandleChallenge, HandleCheckLockout
<1>6. CASE HandleVerify(i) \/ HandleDeauthenticate(i)
  <2>1. /\ Head(h.todo) \in {"verify", "deauthenticate"}
        /\ Deauthenticate(h.id) \/ UNCHANGED firewall
    BY <1>6 DEF HandleVerify, HandleDeauthenticate
  <2>2. h.id \in Addresses
    BY <2>1, DeviceCall DEF ChangeCalls
  <2> QED
    BY <2>1, <2>2 DEF Allowed, FirewallNext, SessionOperation
<1>7. CASE HandleAssociate(i)
  <2>1. Head(h.todo) = "associate" /\ UpdateNodeAssociation(h.id, h.cur.node)
    BY <1>7 DEF HandleAssociate
  <2>2. h.id \in Addresses /\ h.cur.node \in Nodes
    BY <2>1, DeviceCall DEF ChangeCalls, PlaceCalls
  <2> QED
    BY <2>1, <2>2 DEF Allowed, FirewallNext, SessionOperation
<1>8. CASE HandleAuthorise(i)
  <2>1. /\ Head(h.todo) = "authorise" /\ SetAuthorized(h.id, h.cur.owner, h.cur.node)
        /\ NoteOrder(i) /\ UNCHANGED missed
    BY <1>8 DEF HandleAuthorise, Proceed, Continue
  <2>2. h.topic = "devices" /\ h.id \in Addresses /\ h.cur.node \in Nodes
    BY <2>1, DeviceCall DEF ChangeCalls, PlaceCalls
  <2>3. Line /\ ~Overtakes(i)
    BY <2>1, FirstOfLine DEF Chain, InOrder, NoteOrder
  <2>4. Of(i, h.id) /\ \A k \in DOMAIN pool : Of(k, h.id) => i <= k
    BY <1>1, <2>2, <2>3 DEF Of, Overtakes
  <2>5. Known(h.id) => h.cur.owner = xdpDevices[h.id].user
    BY <2>2, <2>3, <2>4 DEF Line, Entered
  <2>6. CASE Known(h.id)
    BY <2>1, <2>2, <2>5, <2>6 DEF Allowed, FirewallNext, SessionOperation
  <2>7. CASE ~Known(h.id)
    BY <2>1, <2>7 DEF SetAuthorized, firewall
  <2> QED
    BY <2>6, <2>7
<1> QED
  BY <1>2, <1>3, <1>4, <1>5, <1>6, <1>7, <1>8

\* The same of a user, of memberships, of access lists and of the timeout.
LEMMA UserCallAllowed ==
  ASSUME SyncTypes, NEW i \in DOMAIN pool,
         \/ HandleReadAcl(i) \/ HandleAddUser(i) \/ HandleRemoveUser(i)
         \/ HandleLock(i) \/ HandleDeauthenticateAll(i)
         \/ HandleRefreshUser(i) \/ HandleRefresh(i) \/ HandleSetTimeout(i)
  PROVE  Allowed \/ UNCHANGED firewall
<1> USE DEF Calls
<1> DEFINE h == pool[i]
<1>1. CASE HandleReadAcl(i)
  BY <1>1 DEF HandleReadAcl
<1>2. CASE HandleAddUser(i)
  BY <1>2, UserCall DEF HandleAddUser, Allowed, FirewallNext, UserOperation
<1>3. CASE HandleRemoveUser(i) \/ HandleDeauthenticateAll(i)
  BY <1>3, UserCall DEF HandleRemoveUser, HandleDeauthenticateAll, Allowed, FirewallNext, UserOperation
<1>4. CASE HandleLock(i)
  BY <1>4, UserCall DEF HandleLock, Allowed, FirewallNext, UserOperation
<1>5. CASE HandleRefreshUser(i)
  <2>1. h.id \in Users /\ RefreshUserAcls(h.id, acl[h.id])
    BY <1>5, UserCall DEF HandleRefreshUser
  <2>2. acl[h.id] \in Acls
    BY <2>1 DEF SyncTypes, EtcdOK
  <2> QED
    BY <2>1, <2>2 DEF Allowed, FirewallNext, UserOperation
<1>6. CASE HandleRefresh(i)
  BY <1>6 DEF HandleRefresh, Allowed
<1>7. CASE HandleSetTimeout(i)
  BY <1>7 DEF HandleSetTimeout, Allowed, FirewallNext, TimeoutChange
<1> QED
  BY <1>1, <1>2, <1>3, <1>4, <1>5, <1>6, <1>7

\* Writers change etcd and the pool, never the maps of the router.
LEMMA WritesCallNothing ==
  UserWrite \/ DeviceWrite \/ ConfigWrite => UNCHANGED firewall
<1> USE DEF Publish
<1>1. UserWrite => UNCHANGED firewall
  BY DEF UserWrite, SetUserLock, SetUserMfa, SetEnforceMFA, WriteUser, CreateUser, DeleteUser,
     DeleteDevices, SetUserGroupMembership
<1>2. ASSUME NEW a \in Addresses
      PROVE  /\ \A u \in Users, k \in Keys : AddDevice(u, a, k) => UNCHANGED firewall
             /\ \A new, again : WriteDevice(a, new, again) => UNCHANGED firewall
             /\ DeleteDevice(a) \/ CheckAccountLock(a) => UNCHANGED firewall
  BY DEF AddDevice, WriteDevice, DeleteDevice, CheckAccountLock
<1>4. DeviceWrite => UNCHANGED firewall
  <2> SUFFICES ASSUME DeviceWrite PROVE UNCHANGED firewall
    OBVIOUS
  <2>1. PICK a \in Addresses :
          \/ \E u \in Users, k \in Keys : AddDevice(u, a, k)
          \/ DeleteDevice(a) \/ CheckAccountLock(a)
          \/ \E new, again : WriteDevice(a, new, again)
    BY DEF DeviceWrite, UpdateDevicePublicKey, IncrementAuthenticationAttempt,
       SetDeviceAuthenticationAttempts, AuthoriseDevice, UpdateDeviceConnectionDetails,
       DeauthenticateDevice
  <2> QED
    BY <1>2, <2>1
<1>3. ConfigWrite => UNCHANGED firewall
  BY DEF ConfigWrite, SetAcl, SetSessionInactivityTimeout
<1> QED
  BY <1>1, <1>3, <1>4

\* Nor is the start or the crash of a router taken for a call.
LEMMA LifecycleAllowed ==
  ASSUME SyncTypes, Lifecycle
  PROVE  Allowed \/ UNCHANGED firewall
<1>1. CASE GetInitialData \/ RegisterEventListener
  BY <1>1 DEF GetInitialData, RegisterEventListener
<1>2. CASE SetupRouter
  BY <1>2 DEF SetupRouter, Crash, Allowed
<1>3. CASE Restart
  BY <1>3 DEF Restart, Crash, Allowed
<1>4. ASSUME NEW a \in Addresses, NEW to \in SessionStates, SessionLapse(a, to)
      PROVE  Allowed
  BY <1>4 DEF SessionLapse, Allowed, FirewallNext, SessionOperation
<1> QED
  BY <1>1, <1>2, <1>3, <1>4 DEF Lifecycle

\* While the handlers are in order, every step calls what it may call.
LEMMA StepAllowed == SyncTypes /\ Chain /\ [Next]_vars => [InOrder' => Allowed]_firewall
<1> SUFFICES ASSUME SyncTypes, Chain, [Next]_vars, InOrder'
             PROVE  Allowed \/ UNCHANGED firewall
  OBVIOUS
<1>1. CASE UNCHANGED vars
  BY <1>1 DEF vars
<1>2. ASSUME NEW i \in DOMAIN pool, Handle(i) PROVE Allowed \/ UNCHANGED firewall
  BY <1>2, DeviceCallAllowed, UserCallAllowed DEF Handle
<1> QED
  BY <1>1, <1>2, WritesCallNothing, LifecycleAllowed DEF Next

\* CallsAllowed of every cluster and any number of pending events: in order, the
\* handlers never call SetAuthorized for another than the owner of the entry.
THEOREM CallsTheorem == Spec => CallsAllowed
<1>1. SyncTypes /\ Chain /\ [Next]_vars =>
        [InOrder' =>
           \/ FirewallNext
           \/ \E S \in SUBSET Idle(Addresses) : RefreshConfiguration(user, acl, S)
           \/ phase' # phase]_firewall
  BY StepAllowed DEF Allowed
<1> QED
  BY InitTypes, NextTypes, InitChain, NextChain, <1>1, PTL DEF Spec, CallsAllowed

\* Handlers that have overtaken each other are forgotten only in a crash.
LEMMA OrderKept ==
  ASSUME [Next]_vars, InOrder'
  PROVE  InOrder \/ Crash
<1> USE DEF InOrder
<1>1. ASSUME NEW topic, NEW hs, Publish(topic, hs) PROVE InOrder
  BY <1>1 DEF Publish
<1>2. ASSUME NEW i, NEW todo, Continue(i, todo) PROVE InOrder
  BY <1>2 DEF Continue, NoteOrder
<1>3. CASE UNCHANGED <<order, missed>>
  BY <1>3
<1>4. CASE UNCHANGED vars
  BY <1>3, <1>4 DEF vars
<1>5. CASE UserWrite
  <2>1. PICK u : \/ \E new, ends : WriteUser(u, new, ends)
                 \/ CreateUser(u) \/ DeleteUser(u) \/ DeleteDevices(u)
                 \/ \E l : SetUserGroupMembership(u, l)
    BY <1>5 DEF UserWrite, SetUserLock, SetUserMfa, SetEnforceMFA
  <2> QED
    BY <1>1, <2>1 DEF WriteUser, CreateUser, DeleteUser, DeleteDevices, SetUserGroupMembership
<1>6. CASE DeviceWrite
  <2>1. PICK a : \/ \E u, k : AddDevice(u, a, k)
                 \/ DeleteDevice(a) \/ CheckAccountLock(a)
                 \/ \E new, again : WriteDevice(a, new, again)
    BY <1>6 DEF DeviceWrite, UpdateDevicePublicKey, IncrementAuthenticationAttempt,
       SetDeviceAuthenticationAttempts, AuthoriseDevice, UpdateDeviceConnectionDetails,
       DeauthenticateDevice
  <2> QED
    BY <1>1, <1>3, <2>1 DEF AddDevice, DeleteDevice, CheckAccountLock, WriteDevice
<1>7. CASE ConfigWrite
  BY <1>1, <1>7 DEF ConfigWrite, SetAcl, SetSessionInactivityTimeout
<1>8. ASSUME NEW i, Handle(i) PROVE InOrder \/ Crash
  <2>1. CASE HandleReadAcl(i)
    BY <2>1 DEF HandleReadAcl, NoteOrder
  <2>2. CASE HandleReplacePeer(i)
    BY <1>2, <2>2 DEF HandleReplacePeer, Proceed
  <2>3. CASE ~HandleReadAcl(i) /\ ~HandleReplacePeer(i)
    <3>1. \E todo : Continue(i, todo)
      BY <1>8, <2>3 DEF Handle, HandleAddPeer, HandleRemovePeer, HandleChallenge, HandleVerify,
         HandleCheckLockout, HandleDeauthenticate, HandleAssociate, HandleAuthorise, HandleAddUser,
         HandleRemoveUser, HandleLock, HandleDeauthenticateAll, HandleRefreshUser, HandleRefresh,
         HandleSetTimeout, Proceed, Fail, ProceedIf
    <3> QED
      BY <1>2, <3>1
  <2> QED
    BY <2>1, <2>2, <2>3
<1>9. CASE Lifecycle
  BY <1>3, <1>9 DEF Lifecycle, GetInitialData, SetupRouter, RegisterEventListener, Restart,
     SessionLapse
<1> QED
  BY <1>4, <1>5, <1>6, <1>7, <1>8, <1>9 DEF Next

\* Only the router's own life changes its phase.
LEMMA PhaseKept ==
  ASSUME [Next]_vars, ~Crash, phase' # phase
  PROVE  Lifecycle
<1>1. ASSUME NEW topic, NEW hs, Publish(topic, hs) PROVE FALSE
  BY <1>1 DEF Publish, router
<1>2. ASSUME NEW i, NEW todo, Continue(i, todo) PROVE FALSE
  BY <1>2 DEF Continue, router
<1>3. CASE UNCHANGED vars
  BY <1>3 DEF vars
<1>4. CASE UserWrite
  <2>1. PICK u : \/ \E new, ends : WriteUser(u, new, ends)
                 \/ CreateUser(u) \/ DeleteUser(u) \/ DeleteDevices(u)
                 \/ \E l : SetUserGroupMembership(u, l)
    BY <1>4 DEF UserWrite, SetUserLock, SetUserMfa, SetEnforceMFA
  <2> QED
    BY <1>1, <2>1 DEF WriteUser, CreateUser, DeleteUser, DeleteDevices, SetUserGroupMembership
<1>5. CASE DeviceWrite
  <2>1. PICK a : \/ \E u, k : AddDevice(u, a, k)
                 \/ DeleteDevice(a) \/ CheckAccountLock(a)
                 \/ \E new, again : WriteDevice(a, new, again)
    BY <1>5 DEF DeviceWrite, UpdateDevicePublicKey, IncrementAuthenticationAttempt,
       SetDeviceAuthenticationAttempts, AuthoriseDevice, UpdateDeviceConnectionDetails,
       DeauthenticateDevice
  <2> QED
    BY <1>1, <2>1 DEF AddDevice, DeleteDevice, CheckAccountLock, WriteDevice, router
<1>6. CASE ConfigWrite
  BY <1>1, <1>6 DEF ConfigWrite, SetAcl, SetSessionInactivityTimeout
<1>7. ASSUME NEW i, Handle(i) PROVE FALSE
  <2>1. CASE HandleReadAcl(i)
    BY <2>1 DEF HandleReadAcl, router
  <2>2. CASE HandleReplacePeer(i)
    BY <1>2, <2>2 DEF HandleReplacePeer, Proceed
  <2>3. CASE ~HandleReadAcl(i) /\ ~HandleReplacePeer(i)
    <3>1. \E todo : Continue(i, todo)
      BY <1>7, <2>3 DEF Handle, HandleAddPeer, HandleRemovePeer, HandleChallenge, HandleVerify,
         HandleCheckLockout, HandleDeauthenticate, HandleAssociate, HandleAuthorise, HandleAddUser,
         HandleRemoveUser, HandleLock, HandleDeauthenticateAll, HandleRefreshUser, HandleRefresh,
         HandleSetTimeout, Proceed, Fail, ProceedIf
    <3> QED
      BY <1>2, <3>1
  <2> QED
    BY <2>1, <2>2, <2>3
<1> QED
  BY <1>3, <1>4, <1>5, <1>6, <1>7 DEF Next

\* Setup enters only what it tracks, for users it knows.
LEMMA SetupAgrees ==
  ASSUME NEW us \in [Users -> UserRecord \cup {Absent}],
         NEW ds \in [Addresses -> DeviceRecord \cup {Absent}], NEW l,
         CanSetup(us, ds), NEW a \in Addresses, SetupXDP(us, ds, l).xdpDevices[a] # Absent
  PROVE  LET u == SetupXDP(us, ds, l).xdpDevices[a].user IN
         /\ u \in Users
         /\ SetupXDP(us, ds, l).accountLocked[u] # Absent
         /\ SetupWireguard(ds).addressesToUsers[a] = u
         /\ SetupWireguard(ds).usersToAddresses[u] # Absent
         /\ SetupWireguard(ds).usersToAddresses[u][a] # Absent
<1> USE FirewallSentinels
<1> DEFINE entry == SetupXDP(us, ds, l).xdpDevices[a]
<1>1. entry = IF ds[a] = Absent THEN Absent
              ELSE [user |-> ds[a].owner, session |-> "none", node |-> ds[a].node]
  BY DEF SetupXDP
<1>2. ds[a] # Absent /\ ds[a] \in DeviceRecord
  BY <1>1
<1>3. PICK u \in Users : u = ds[a].owner
  BY <1>2 DEF DeviceRecord
<1>4. entry.user = u
  BY <1>1, <1>2, <1>3
<1>5. us[u] # Absent
  BY <1>2, <1>3 DEF CanSetup
<1>6. SetupXDP(us, ds, l).accountLocked[u] # Absent
  <2>1. SetupXDP(us, ds, l).accountLocked[u] = us[u].locked
    BY <1>5 DEF SetupXDP
  <2>2. us[u].locked \in BOOLEAN
    BY <1>5 DEF UserRecord
  <2> QED
    BY <2>1, <2>2
<1>7. SetupWireguard(ds).addressesToUsers[a] = u
  BY <1>2, <1>3 DEF SetupWireguard
<1>8. /\ SetupWireguard(ds).usersToAddresses[u] # Absent
      /\ SetupWireguard(ds).usersToAddresses[u][a] # Absent
  <2> DEFINE owned == {b \in Addresses : ds[b] # Absent /\ ds[b].owner = u}
             map == [b \in Addresses |-> IF b \in owned THEN ds[b].key ELSE Absent]
  <2>1. a \in owned
    BY <1>2, <1>3
  <2>2. SetupWireguard(ds).usersToAddresses[u] = map
    BY <2>1 DEF SetupWireguard
  <2>3. map \in [Addresses -> Keys \cup {Absent}]
    BY DEF DeviceRecord
  <2>4. map # Absent
    BY <2>3
  <2>5. map[a] = ds[a].key /\ ds[a].key \in Keys
    BY <1>2, <2>1 DEF DeviceRecord
  <2> HIDE DEF map
  <2> QED
    BY <2>2, <2>4, <2>5
<1> HIDE DEF entry
<1> QED
  BY <1>4, <1>6, <1>7, <1>8 DEF entry

\* The router that Setup leaves behind.
LEMMA SetupEntries ==
  ASSUME NEW us \in [Users -> UserRecord \cup {Absent}],
         NEW ds \in [Addresses -> DeviceRecord \cup {Absent}], NEW l,
         Setup(us, ds, l)
  PROVE  EntriesTracked' /\ EntriesOwned'
<1>1. /\ CanSetup(us, ds)
      /\ usersToAddresses' = SetupWireguard(ds).usersToAddresses
      /\ addressesToUsers' = SetupWireguard(ds).addressesToUsers
      /\ accountLocked' = SetupXDP(us, ds, l).accountLocked
      /\ xdpDevices' = SetupXDP(us, ds, l).xdpDevices
  BY DEF Setup
<1> QED
  BY <1>1, SetupAgrees DEF EntriesTracked, EntriesOwned, Known, Tracked

\* What an allowed call keeps.
LEMMA NextEntries ==
  SyncTypes /\ SyncTypes' /\ Chain /\ (InOrder => IInv) /\ [Next]_vars => (InOrder' => IInv')
<1> SUFFICES ASSUME SyncTypes, SyncTypes', Chain, InOrder => IInv, [Next]_vars, InOrder'
             PROVE  IInv'
  OBVIOUS
<1>0. FirewallTypeOK'
  BY DEF SyncTypes, RouterOK
<1>1. CASE Crash
  <2>1. /\ NoUsers \in [Users -> UserRecord \cup {Absent}]
        /\ NoAddresses \in [Addresses -> DeviceRecord \cup {Absent}]
    BY DEF NoUsers, NoAddresses
  <2> QED
    BY <1>0, <1>1, <2>1, SetupEntries DEF Crash, IInv
<1>2. CASE ~Crash
  <2>1. IInv
    BY <1>2, OrderKept
  <2>2. CASE FirewallNext \/ UNCHANGED firewall
    BY <2>1, <2>2, NextIInv
  <2>3. ASSUME NEW S \in SUBSET Idle(Addresses), RefreshConfiguration(user, acl, S) PROVE IInv'
    <3>1. /\ accountLocked' =
               [u \in Users |-> IF user[u] = Absent THEN accountLocked[u] ELSE user[u].locked]
          /\ xdpDevices' = [a \in Addresses |->
                              IF a \in S THEN [xdpDevices[a] EXCEPT !.session = "live"]
                              ELSE xdpDevices[a]]
          /\ UNCHANGED <<usersToAddresses, addressesToUsers>>
      BY <2>3 DEF RefreshConfiguration
    <3>2. \A a \in Addresses : Known(a)' => Known(a) /\ xdpDevices'[a].user = xdpDevices[a].user
      BY <2>1, <3>1, ReviveLemma DEF IInv
    <3>3. \A u \in Users : user[u] # Absent => user[u].locked \in BOOLEAN
      BY DEF SyncTypes, EtcdOK, UserRecord
    <3>4. \A u \in Users : accountLocked[u] # Absent => accountLocked'[u] # Absent
      BY <3>1, <3>3, FirewallSentinels
    <3> QED
      BY <1>0, <2>1, <3>1, <3>2, <3>4, InPlace
  <2>4. CASE phase' # phase
    <3>1. Lifecycle
      BY <1>2, <2>4, PhaseKept
    <3>2. CASE SetupRouter
      <4>1. phase = "read" /\ Setup(snapshot.users, snapshot.devices, acl)
        BY <1>2, <3>2 DEF SetupRouter
      <4> QED
        BY <1>0, <4>1, SetupEntries DEF SyncTypes, RouterOK, IInv
    <3>3. CASE ~SetupRouter
      <4>1. UNCHANGED firewall \/ \E a \in Addresses, to \in SessionStates : SessionLapse(a, to)
        BY <1>2, <3>1, <3>3 DEF Lifecycle, GetInitialData, RegisterEventListener, Restart
      <4> QED
        BY <2>1, <2>4, <4>1, NextIInv DEF SessionLapse, router
    <3> QED
      BY <3>2, <3>3
  <2> QED
    BY <2>2, <2>3, <2>4, StepAllowed DEF Allowed
<1> QED
  BY <1>1, <1>2

\* A router that has caught up is one that has just been set up.
LEMMA InitEntries == Init => IInv
<1> SUFFICES ASSUME Init PROVE EntriesTracked /\ EntriesOwned
  BY InitTypes DEF SyncTypes, RouterOK, IInv
<1>1. PICK u \in Users, m \in Mfas, a \in Addresses, k \in Keys, l \in Acls :
        /\ workload \in Workloads
        /\ population = IF "others" \in workload THEN Users ELSE {u}
        /\ user = [x \in Users |-> IF x \in population
                                   THEN WithEnforcing(WithMfa(NewUser, m), TRUE) ELSE Absent]
        /\ device = [x \in Addresses |-> IF x = a THEN NewDevice(u, k) ELSE Absent]
        /\ acl = [x \in Users |-> l]
        /\ deleting = {}
        /\ logins = {}
        /\ SetUp(user, device, acl)
        /\ pool = <<>>
        /\ phase = "up"
        /\ snapshot = Absent
        /\ listening = Len(Topics)
        /\ order = "serial"
        /\ missed = FALSE
        /\ granted = [x \in Addresses |-> FALSE]
  BY DEF Init
<1>2. EtcdOK
  BY InitTypes DEF SyncTypes
<1>3. CanSetup(user, device)
  <2>1. u \in population
    BY <1>1
  <2>2. WithEnforcing(WithMfa(NewUser, m), TRUE) \in UserRecord
    BY DEF UserRecord, NewUser, WithMfa, WithEnforcing
  <2>3. user[u] # Absent
    BY <1>1, <2>1, <2>2, AbsentAssumption
  <2>4. NewDevice(u, k).owner = u
    BY DEF NewDevice
  <2> QED
    BY <1>1, <2>3, <2>4 DEF CanSetup
<1>4. /\ usersToAddresses = SetupWireguard(device).usersToAddresses
      /\ addressesToUsers = SetupWireguard(device).addressesToUsers
      /\ accountLocked = SetupXDP(user, device, acl).accountLocked
      /\ xdpDevices = SetupXDP(user, device, acl).xdpDevices
  BY <1>1 DEF SetUp
<1> QED
  BY <1>2, <1>3, <1>4, SetupAgrees DEF EtcdOK, EntriesTracked, EntriesOwned, Known, Tracked

\* The entries of the router under the handlers, which RemoveUser, SetLockAccount
\* and DeauthenticateAllDevices have to find: as long as no handler overtakes
\* another of its record, every entry is tracked under its user, and the user
\* is known.
THEOREM EntriesInOrderTheorem == Spec => [](InOrder => EntriesTracked /\ EntriesOwned)
<1>1. (InOrder => IInv) => (InOrder => EntriesTracked /\ EntriesOwned)
  BY DEF IInv
<1>2. Init => (InOrder => IInv)
  BY InitEntries
<1> QED
  BY InitTypes, NextTypes, InitChain, NextChain, <1>1, <1>2, NextEntries, PTL DEF Spec
=============================================================================
