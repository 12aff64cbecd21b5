---------------------------- MODULE FirewallSync ----------------------------
(***************************************************************************)
(* One node's router kept in step with etcd (internal/router/statemachine  *)
(* .go and init.go, internal/data/events.go).                              *)
(*                                                                         *)
(* Writers anywhere in the cluster change the user and device records and  *)
(* the access lists.  etcd delivers the changes of a key in order, but     *)
(* RegisterEventListener starts a goroutine for each, so their handlers    *)
(* run in any order and a handler's calls to the router interleave with    *)
(* those of the others.  A handler is kept as the calls it still has to    *)
(* make, chosen when the event is delivered, since the choice depends on   *)
(* the event alone; what depends on the router or etcd is read when the    *)
(* call is made.                                                           *)
(*                                                                         *)
(* order and missed record how the handlers were scheduled: a property may *)
(* hold only while no handler overtakes an earlier one.                    *)
(***************************************************************************)
EXTENDS Firewall, SequencesExt

CONSTANTS
  Self,        \* this node
  MaxPending,  \* bound: events delivered and not yet handled
  Workloads    \* bound: the kinds of write one behaviour may combine

ASSUME FirewallSyncAssumption == Self \in Nodes /\ MaxPending \in Nat

VARIABLES
  workload,    \* the kinds of write in this behaviour
  population,  \* the users in it: one, or all of them
  user,        \* users-<name>- in etcd
  device,      \* devices-<name>-<address> in etcd, by address
  acl,         \* the access list etcd gives a user
  deleting,    \* users whose DeleteUser is between its two deletes
  logins,      \* devices with a login that has seen the account unlocked
  pool,        \* handlers not yet finished, in the order of their events
  phase,       \* of Setup: "down", "read" or "up"
  snapshot,    \* what GetInitialData returned
  listening,   \* listeners registered so far
  \* history
  order,       \* how much the handlers overtook each other
  missed,      \* a change fell between the snapshot and its listener
  granted      \* devices whose last login nothing has ended since

vars == <<firewall, workload, population, user, device, acl, deleting, logins, pool, phase,
          snapshot, listening, order, missed, granted>>

etcd == <<workload, population, user, device, acl, deleting, logins>>
router == <<phase, snapshot, listening>>

\* The listeners handleEvents registers, in its order.
Topics == <<"devices", "membership", "users", "acls", "timeout">>

Orders == {"serial", "perKey", "any"}

Steps ==
  {"addPeer", "removePeer", "replacePeer", "challenge", "verify", "checkLockout",
   "deauthenticate", "associate", "authorise", "readAcl", "addUser", "removeUser",
   "lock", "deauthenticateAll", "refreshUser", "refresh", "setTimeout"}

\* cur is the record of the event, old the device's key before it, acl what
\* the handler of a new user read.
Handler(topic, id, cur, old, todo) ==
  [topic |-> topic, id |-> id, cur |-> cur, old |-> old, todo |-> todo,
   acl |-> Absent, started |-> FALSE]

-----------------------------------------------------------------------------
(***************************************************************************)
(* The calls a handler makes.                                              *)
(***************************************************************************)

\* A call that is made only where it is needed.
CallIf(needed, call) == IF needed THEN <<call>> ELSE <<>>

\* Mistake: a device seen at another node stays where it was.
DeviceCallsUnassociated(prev, cur, again) ==
  CallIf(cur.key # prev.key, "replacePeer")
    \o CallIf(cur.endpoint # prev.endpoint, "challenge")
    \o CallIf(cur.attempts > Lockout /\ cur.authorised, "checkLockout")
    \o CallIf(~cur.authorised, "deauthenticate")
    \o CallIf(again /\ cur.attempts <= Lockout /\ cur.node = prev.node, "authorise")

\* Mistake: a login is noticed only if the device was not authorised before.
DeviceCallsFirstLogin(prev, cur, again) ==
  CallIf(cur.key # prev.key, "replacePeer")
    \o CallIf(cur.endpoint # prev.endpoint, "challenge")
    \o CallIf(cur.attempts > Lockout /\ cur.authorised, "checkLockout")
    \o CallIf(~cur.authorised, "deauthenticate")
    \o CallIf(cur.node # prev.node, "associate")
    \o CallIf(/\ again /\ ~prev.authorised
              /\ cur.attempts <= Lockout /\ cur.node = prev.node, "authorise")

\* deviceChanges, MODIFIED.  again: Authorised got a new time.
DeviceCalls(prev, cur, again) ==
  CallIf(cur.key # prev.key, "replacePeer")
    \o CallIf(cur.endpoint # prev.endpoint, "challenge")
    \o CallIf(cur.attempts > Lockout /\ cur.authorised, "checkLockout")
    \o CallIf(~cur.authorised, "deauthenticate")
    \o CallIf(cur.node # prev.node, "associate")
    \o CallIf(again /\ cur.attempts <= Lockout /\ cur.node = prev.node, "authorise")

\* userChanges, MODIFIED.
UserCalls(prev, cur) ==
  CallIf(cur.locked # prev.locked \/ cur.locked, "lock")
    \o CallIf(cur.mfa # prev.mfa \/ ~cur.enforcing \/ cur.mfa = Unset, "deauthenticateAll")

Registered == {Topics[i] : i \in 1..listening}

\* A handler that makes no call has done with its event.
Event(h) == IF h.todo = <<>> THEN <<>> ELSE <<h>>

\* Deliver the events of a write, a sequence of handlers of one topic.
Publish(topic, handlers) ==
  /\ Len(pool) + Len(handlers) <= MaxPending
  /\ IF topic \in Registered
     THEN pool' = pool \o handlers /\ UNCHANGED missed
     ELSE missed' = (missed \/ phase # "down") /\ UNCHANGED pool
  /\ UNCHANGED <<firewall, workload, population, router, order>>

-----------------------------------------------------------------------------
(***************************************************************************)
(* Writers.                                                                *)
(***************************************************************************)

Owned(u) == {a \in Addresses : device[a] # Absent /\ device[a].owner = u}

\* The sessions on the addresses in S are no longer expected to be there.
Revoked(S) == [a \in Addresses |-> granted[a] /\ a \notin S]

WriteUser(u, new, ends) ==
  /\ user[u] # Absent
  /\ user' = [user EXCEPT ![u] = new]
  /\ Publish("users", Event(Handler("users", u, new, Absent, UserCalls(user[u], new))))
  /\ granted' = Revoked(IF ends THEN Owned(u) ELSE {})
  /\ UNCHANGED <<device, acl, deleting, logins>>

SetUserLock(u, l) == "lock" \in workload /\ WriteUser(u, WithLock(user[u], l), TRUE)

SetUserMfa(u, m) == "mfa" \in workload /\ WriteUser(u, WithMfa(user[u], m), TRUE)

SetEnforceMFA(u, e) == "mfa" \in workload /\ WriteUser(u, WithEnforcing(user[u], e), TRUE)

CreateUser(u) ==
  /\ "user" \in workload
  /\ user[u] = Absent
  /\ user' = [user EXCEPT ![u] = NewUser]
  /\ Publish("users", <<Handler("users", u, NewUser, Absent, <<"readAcl", "addUser">>)>>)
  /\ UNCHANGED <<device, acl, deleting, logins, granted>>

DeleteUser(u) ==
  /\ "user" \in workload
  /\ user[u] # Absent
  /\ user' = [user EXCEPT ![u] = Absent]
  /\ deleting' = deleting \cup {u}
  /\ Publish("users", <<Handler("users", u, user[u], Absent, <<"removeUser">>)>>)
  /\ granted' = Revoked(Owned(u))
  /\ UNCHANGED <<device, acl, logins>>

\* Mistake: the session of a deleted device is ended and its entry kept.
RemovalOfSession(a) ==
  Handler("devices", a, device[a], Absent, <<"deauthenticate">>)

Removal(a) == Handler("devices", a, device[a], Absent, <<"removePeer">>)

\* The members of S one after the other.
InSomeOrder(S) == UNION {Bijection(1..n, S) : n \in 0..MaxPending}

DeleteDevices(u) ==
  /\ u \in deleting
  /\ device' = [a \in Addresses |-> IF a \in Owned(u) THEN Absent ELSE device[a]]
  /\ deleting' = deleting \ {u}
  /\ logins' = logins \ Owned(u)
  /\ \E key \in InSomeOrder(Owned(u)) :
       Publish("devices", [n \in DOMAIN key |-> Removal(key[n])])
  /\ granted' = Revoked(Owned(u))
  /\ UNCHANGED <<user, acl>>

\* Keys are generated: no two devices share one.
FreshKey(k) == \A a \in Addresses : device[a] # Absent => device[a].key # k

AddDevice(u, a, k) ==
  LET new == NewDevice(u, k) IN
  /\ "device" \in workload
  /\ user[u] # Absent
  /\ device[a] = Absent
  /\ FreshKey(k)
  /\ device' = [device EXCEPT ![a] = new]
  /\ Publish("devices", <<Handler("devices", a, new, Absent, <<"addPeer">>)>>)
  /\ UNCHANGED <<user, acl, deleting, logins, granted>>

DeleteDevice(a) ==
  /\ "device" \in workload
  /\ device[a] # Absent
  /\ device' = [device EXCEPT ![a] = Absent]
  /\ logins' = logins \ {a}
  /\ Publish("devices", <<Removal(a)>>)
  /\ granted' = Revoked({a})
  /\ UNCHANGED <<user, acl, deleting>>

\* Every other write of a device record.
WriteDevice(a, new, again) ==
  /\ device[a] # Absent
  /\ device' = [device EXCEPT ![a] = new]
  /\ logins' = logins \ {a}
  /\ Publish("devices",
       Event(Handler("devices", a, new, device[a].key, DeviceCalls(device[a], new, again))))
  /\ UNCHANGED <<user, acl, deleting>>

UpdateDevicePublicKey(a, k) ==
  /\ "key" \in workload
  /\ FreshKey(k)
  /\ WriteDevice(a, WithKey(device[a], k), FALSE)
  /\ UNCHANGED granted

IncrementAuthenticationAttempt(a) ==
  /\ "attempt" \in workload
  /\ WriteDevice(a, WithAttempt(device[a]), FALSE)
  /\ granted' = Revoked({a})

\* LockDevice and UnlockDevice.
SetDeviceAuthenticationAttempts(a, n) ==
  /\ "attempt" \in workload
  /\ WriteDevice(a, WithAttempts(device[a], n), FALSE)
  /\ granted' = Revoked({a})

\* A login compares the user's method, then reads the record and the account;
\* any write of the record before it commits makes it start over.
CheckAccountLock(a) ==
  /\ "login" \in workload
  /\ device[a] # Absent
  /\ user[device[a].owner] # Absent
  /\ ~user[device[a].owner].locked
  /\ user[device[a].owner].mfa # Unset
  /\ a \notin logins
  /\ logins' = logins \cup {a}
  /\ UNCHANGED <<firewall, workload, population, user, device, acl, deleting, pool, router, order,
                 missed, granted>>

\* Served by node n.
AuthoriseDevice(a, n) ==
  /\ n = Self \/ "nodes" \in workload
  /\ a \in logins
  /\ WriteDevice(a, WithAuthorisation(device[a], n), TRUE)
  /\ granted' = [granted EXCEPT
                   ![a] = /\ "devices" \in Registered
                          /\ device[a].node = n
                          /\ user[device[a].owner] # Absent
                          /\ ~user[device[a].owner].locked]

DeauthenticateDevice(a) ==
  /\ "logout" \in workload
  /\ WriteDevice(a, WithoutAuthorisation(device[a]), FALSE)
  /\ granted' = Revoked({a})

\* The endpoint watcher of node n saw the peer at e.
UpdateDeviceConnectionDetails(a, e, n) ==
  /\ "roam" \in workload
  /\ n = Self \/ "nodes" \in workload
  /\ WriteDevice(a, WithConnection(device[a], e, n), FALSE)
  /\ granted' = Revoked({a})

SetUserGroupMembership(u, l) ==
  /\ "acl" \in workload
  /\ acl' = [acl EXCEPT ![u] = l]
  /\ Publish("membership", <<Handler("membership", u, Absent, Absent, <<"refreshUser">>)>>)
  /\ UNCHANGED <<user, device, deleting, logins, granted>>

SetAcl(new) ==
  /\ "acl" \in workload
  /\ acl' = new
  /\ Publish("acls", <<Handler("acls", Absent, Absent, Absent, <<"refresh">>)>>)
  /\ UNCHANGED <<user, device, deleting, logins, granted>>

SetSessionInactivityTimeout ==
  /\ "timeout" \in workload
  /\ Publish("timeout", <<Handler("timeout", Absent, Absent, Absent, <<"setTimeout">>)>>)
  /\ UNCHANGED <<etcd, granted>>

-----------------------------------------------------------------------------
(***************************************************************************)
(* Handlers.  The i-th handler of the pool makes the first of its calls.   *)
(***************************************************************************)

Overtakes(i) ==
  \E j \in 1..(i - 1) : pool[j].topic = pool[i].topic /\ pool[j].id = pool[i].id

\* A handler that starts with others before it unfinished is noted.
NoteOrder(i) ==
  order' = IF pool[i].started \/ i = 1 THEN order
           ELSE IF Overtakes(i) \/ order = "any" THEN "any" ELSE "perKey"

\* The handler goes on with the calls in todo; an error ends it.
Continue(i, todo) ==
  /\ pool' = IF todo = <<>> THEN RemoveAt(pool, i)
             ELSE [pool EXCEPT ![i].todo = todo, ![i].started = TRUE]
  /\ NoteOrder(i)
  /\ UNCHANGED <<etcd, router, missed>>

Proceed(i) == Continue(i, Tail(pool[i].todo))

Fail(i) == Continue(i, <<>>)

ProceedIf(i, ok) == IF ok THEN Proceed(i) ELSE Fail(i)

Calls(i, call) == i \in DOMAIN pool /\ Head(pool[i].todo) = call

\* The process ends; nothing but etcd is left.
Crash ==
  /\ Setup(NoUsers, NoAddresses, NoUsers)
  /\ phase' = "down"
  /\ snapshot' = Absent
  /\ listening' = 0
  /\ pool' = <<>>
  /\ order' = "serial"
  /\ missed' = FALSE
  /\ granted' = Revoked(Addresses)
  /\ UNCHANGED etcd

\* deviceChanges, CREATED.
HandleAddPeer(i) ==
  LET d == pool[i].cur
      a == pool[i].id IN
  /\ Calls(i, "addPeer")
  /\ AddPeer(d.key, d.owner, a, d.node)
  /\ ProceedIf(i, CanAddPeer(d.owner, a))
  /\ UNCHANGED granted

\* deviceChanges, DELETED.
HandleRemovePeer(i) ==
  /\ Calls(i, "removePeer")
  /\ RemovePeer(pool[i].cur.key, pool[i].id)
  /\ Proceed(i)
  /\ UNCHANGED granted

HandleReplacePeer(i) ==
  LET d == pool[i].cur IN
  /\ Calls(i, "replacePeer")
  /\ IF ReplacePanics(d.owner) THEN Crash
     ELSE /\ ReplacePeer(d.owner, pool[i].id, pool[i].old, d.key)
          /\ Proceed(i)
          /\ UNCHANGED granted

\* Only a device with a usable session is challenged over its websocket.
HandleChallenge(i) ==
  LET rest == Tail(pool[i].todo) IN
  /\ Calls(i, "challenge")
  /\ Continue(i, IF IsAuthed(pool[i].id) THEN <<"verify">> \o rest ELSE rest)
  /\ UNCHANGED <<firewall, granted>>

\* Up to three tries, two seconds apart; the device answers or it does not.
HandleVerify(i) ==
  LET a == pool[i].id IN
  /\ Calls(i, "verify")
  /\ \/ Proceed(i) /\ UNCHANGED firewall
     \/ Deauthenticate(a) /\ ProceedIf(i, Known(a))
  /\ UNCHANGED granted

HandleCheckLockout(i) ==
  LET rest == Tail(pool[i].todo) IN
  /\ Calls(i, "checkLockout")
  /\ Continue(i, IF IsAuthed(pool[i].id) THEN <<"deauthenticate">> \o rest ELSE rest)
  /\ UNCHANGED <<firewall, granted>>

HandleDeauthenticate(i) ==
  LET a == pool[i].id IN
  /\ Calls(i, "deauthenticate")
  /\ Deauthenticate(a)
  /\ ProceedIf(i, Known(a))
  /\ UNCHANGED granted

HandleAssociate(i) ==
  LET a == pool[i].id IN
  /\ Calls(i, "associate")
  /\ UpdateNodeAssociation(a, pool[i].cur.node)
  /\ ProceedIf(i, Known(a))
  /\ UNCHANGED granted

HandleAuthorise(i) ==
  LET d == pool[i].cur IN
  /\ Calls(i, "authorise")
  /\ SetAuthorized(pool[i].id, d.owner, d.node)
  /\ Proceed(i)
  /\ UNCHANGED granted

\* userChanges, CREATED: the access list is read before AddUser has the lock.
HandleReadAcl(i) ==
  /\ Calls(i, "readAcl")
  /\ pool' = [pool EXCEPT ![i].acl = acl[pool[i].id], ![i].todo = Tail(pool[i].todo),
                          ![i].started = TRUE]
  /\ NoteOrder(i)
  /\ UNCHANGED <<firewall, etcd, router, missed, granted>>

HandleAddUser(i) ==
  /\ Calls(i, "addUser")
  /\ AddUser(pool[i].id, pool[i].acl)
  /\ Proceed(i)
  /\ UNCHANGED granted

\* Mistake: the user's sessions are ended and the user is kept.
HandleRemoveUserSessions(i) ==
  /\ Calls(i, "removeUser")
  /\ DeauthenticateAllDevices(pool[i].id)
  /\ Proceed(i)
  /\ UNCHANGED granted

HandleRemoveUser(i) ==
  /\ Calls(i, "removeUser")
  /\ RemoveUser(pool[i].id)
  /\ Proceed(i)
  /\ UNCHANGED granted

HandleLock(i) ==
  /\ Calls(i, "lock")
  /\ SetLockAccount(pool[i].id, pool[i].cur.locked)
  /\ Proceed(i)
  /\ UNCHANGED granted

HandleDeauthenticateAll(i) ==
  /\ Calls(i, "deauthenticateAll")
  /\ DeauthenticateAllDevices(pool[i].id)
  /\ Proceed(i)
  /\ UNCHANGED granted

\* RefreshUserAcls and RefreshConfiguration read etcd under the lock.
HandleRefreshUser(i) ==
  /\ Calls(i, "refreshUser")
  /\ RefreshUserAcls(pool[i].id, acl[pool[i].id])
  /\ Proceed(i)
  /\ UNCHANGED granted

HandleRefresh(i) ==
  /\ Calls(i, "refresh")
  /\ \E S \in SUBSET Idle(Addresses) : RefreshConfiguration(user, acl, S)
  /\ Proceed(i)
  /\ UNCHANGED granted

HandleSetTimeout(i) ==
  /\ Calls(i, "setTimeout")
  /\ \E S \in SUBSET Idle(Addresses) : SetInactivityTimeout(S)
  /\ Proceed(i)
  /\ UNCHANGED granted

-----------------------------------------------------------------------------
(***************************************************************************)
(* The router's own life.                                                  *)
(***************************************************************************)

GetInitialData ==
  /\ phase = "down"
  /\ phase' = "read"
  /\ snapshot' = [users |-> user, devices |-> device]
  /\ UNCHANGED <<firewall, etcd, pool, listening, order, missed, granted>>

\* setupWireguard and setupXDP work on the snapshot; if they fail wag exits.
SetupRouter ==
  /\ phase = "read"
  /\ IF CanSetup(snapshot.users, snapshot.devices)
     THEN /\ Setup(snapshot.users, snapshot.devices, acl)
          /\ phase' = "up"
          /\ snapshot' = Absent
          /\ UNCHANGED <<etcd, pool, listening, order, missed, granted>>
     ELSE Crash

\* handleEvents registers one listener after the other.
RegisterEventListener ==
  /\ phase = "up"
  /\ listening < Len(Topics)
  /\ listening' = listening + 1
  /\ UNCHANGED <<firewall, etcd, pool, phase, snapshot, order, missed, granted>>

Restart ==
  /\ "restart" \in workload
  /\ phase # "down"
  /\ Crash

SessionLapse(a, to) ==
  /\ Lapse(a, to)
  /\ granted' = Revoked({a})
  /\ UNCHANGED <<etcd, pool, router, order, missed>>

-----------------------------------------------------------------------------

\* A running node that has caught up with a cluster of users who have all
\* registered a method, and one device.
Init ==
  \E u \in Users, m \in Mfas, a \in Addresses, k \in Keys, l \in Acls :
    /\ workload \in Workloads
    /\ population = IF "others" \in workload THEN Users ELSE {u}
    /\ user = [x \in Users |-> IF x \in population
                               THEN WithEnforcing(WithMfa(NewUser, m), TRUE) ELSE Absent]
    /\ device = [x \in Addresses |-> IF x = a THEN NewDevice(u, k) ELSE Absent]
    /\ acl = [x \in Users |-> l]
    /\ deleting = {}
    /\ logins = {}
    /\ SetUp(user, device, acl)
    /\ pool = <<>>
    /\ phase = "up"
    /\ snapshot = Absent
    /\ listening = Len(Topics)
    /\ order = "serial"
    /\ missed = FALSE
    /\ granted = [x \in Addresses |-> FALSE]

UserWrite ==
  \E u \in population :
    \/ \E l \in BOOLEAN : SetUserLock(u, l)
    \/ \E m \in Mfas \cup {Unset} : SetUserMfa(u, m)
    \/ \E e \in BOOLEAN : SetEnforceMFA(u, e)
    \/ CreateUser(u) \/ DeleteUser(u) \/ DeleteDevices(u)
    \/ \E l \in Acls : SetUserGroupMembership(u, l)

DeviceWrite ==
  \E a \in Addresses :
    \/ \E u \in Users, k \in Keys : AddDevice(u, a, k)
    \/ DeleteDevice(a)
    \/ \E k \in Keys : UpdateDevicePublicKey(a, k)
    \/ IncrementAuthenticationAttempt(a)
    \/ \E n \in {0, Lockout + 1} : SetDeviceAuthenticationAttempts(a, n)
    \/ CheckAccountLock(a)
    \/ \E n \in Nodes :
         AuthoriseDevice(a, n) \/ \E e \in Endpoints : UpdateDeviceConnectionDetails(a, e, n)
    \/ DeauthenticateDevice(a)

ConfigWrite ==
  \/ \E new \in [population -> Acls] :
       SetAcl([u \in Users |-> IF u \in population THEN new[u] ELSE acl[u]])
  \/ SetSessionInactivityTimeout

Handle(i) ==
  \/ HandleAddPeer(i) \/ HandleRemovePeer(i) \/ HandleReplacePeer(i)
  \/ HandleChallenge(i) \/ HandleVerify(i) \/ HandleCheckLockout(i)
  \/ HandleDeauthenticate(i) \/ HandleAssociate(i) \/ HandleAuthorise(i)
  \/ HandleReadAcl(i) \/ HandleAddUser(i) \/ HandleRemoveUser(i)
  \/ HandleLock(i) \/ HandleDeauthenticateAll(i)
  \/ HandleRefreshUser(i) \/ HandleRefresh(i) \/ HandleSetTimeout(i)

Lifecycle ==
  \/ GetInitialData \/ SetupRouter \/ RegisterEventListener \/ Restart
  \/ \E a \in Addresses, to \in SessionStates : SessionLapse(a, to)

Next ==
  \/ UserWrite \/ DeviceWrite \/ ConfigWrite
  \/ \E i \in DOMAIN pool : Handle(i)
  \/ Lifecycle

Spec == Init /\ [][Next]_vars

-----------------------------------------------------------------------------
(***************************************************************************)
(* Properties.                                                             *)
(***************************************************************************)

SyncTypeOK ==
  /\ FirewallTypeOK
  /\ user \in [Users -> UserRecord \cup {Absent}]
  /\ device \in [Addresses -> DeviceRecord \cup {Absent}]
  /\ acl \in [Users -> Acls]
  /\ population \in SUBSET Users
  /\ deleting \in SUBSET Users
  /\ logins \in SUBSET {a \in Addresses : device[a] # Absent}
  /\ Len(pool) <= MaxPending
  /\ \A i \in DOMAIN pool : pool[i].todo # <<>> /\ ToSet(pool[i].todo) \in SUBSET Steps
  /\ phase \in {"down", "read", "up"}
  /\ listening \in 0..Len(Topics)
  /\ order \in Orders
  /\ missed \in BOOLEAN
  /\ granted \in [Addresses -> BOOLEAN]

\* The node follows etcd and has handled every change.
Settled == phase = "up" /\ listening = Len(Topics) /\ pool = <<>>

InOrder == order # "any" /\ ~missed
Serial == order = "serial" /\ ~missed

\* Failed attempts do not meet what brings idle sessions back.
Apart == "attempt" \in workload => "acl" \notin workload /\ "timeout" \notin workload

\* As long as no handler overtakes an earlier one of the same record, every
\* usable session of a node that has caught up is one etcd still grants: to
\* the device's owner, at this node's idea of where the device is, not ended,
\* and of an unlocked account.  It is not locked out either, except that the
\* handler of a locked device leaves its idle session, which a refresh or a new
\* timeout may bring back.
SessionsBacked ==
  Settled /\ InOrder =>
    \A a \in Addresses : IsAuthed(a) =>
      LET d == device[a] IN
      /\ d # Absent
      /\ d.owner = xdpDevices[a].user
      /\ d.node = xdpDevices[a].node
      /\ d.authorised
      /\ Apart => d.attempts <= Lockout
      /\ user[d.owner] # Absent
      /\ ~user[d.owner].locked

\* With handlers one after the other, a login nothing has ended since can be
\* used: no handler of an earlier change takes it back.  A user deleted and
\* created again before its old devices were deleted is left out.
LoginsTakeEffect ==
  Settled /\ Serial =>
    \A a \in Addresses :
      granted[a] /\ device[a].owner \notin deleting => IsAuthed(a)

\* With handlers one after the other, a node that has caught up has exactly
\* the peers, users, locks and access lists etcd has.  The devices of a user
\* deleted and created again before its devices were deleted come later.
MirrorsEtcd ==
  Settled /\ Serial =>
    /\ \A a \in Addresses :
         LET d == device[a] IN
         IF d = Absent THEN ~Known(a) /\ \A k \in Keys : peers[k] # a
         ELSE \/ d.owner \in deleting
              \/ /\ Known(a)
                 /\ xdpDevices[a].user = d.owner
                 /\ peers[d.key] = a
                 /\ usersToAddresses[d.owner][a] = d.key
    /\ \A u \in Users :
         IF user[u] = Absent THEN accountLocked[u] = Absent
         ELSE accountLocked[u] = user[u].locked /\ policies[u] = acl[u]

\* ReplacePeer writes into a map that may be nil, which would end the process.
\* AddPeer or Setup has made it before, as long as the handlers run one after
\* the other: a device added before its user is known leaves no map behind.
ReplaceFindsMap ==
  Serial =>
    \A i \in DOMAIN pool :
      i = 1 /\ Calls(i, "replacePeer") => ~ReplacePanics(pool[i].cur.owner)

\* As long as no handler overtakes another of its record, the calls handlers
\* make are those FirewallSpec allows, so that EntriesTracked and EntriesOwned,
\* proved of the router alone, hold of it here: SetAuthorized never gives the
\* entry of one user to another, although addresses are used again.  Only a
\* refresh may unlock an account ahead of the handler of the unlock.
CallsAllowed ==
  [][InOrder' =>
       \/ FirewallNext
       \/ \E S \in SUBSET Idle(Addresses) : RefreshConfiguration(user, acl, S)
       \/ phase' # phase]_firewall

-----------------------------------------------------------------------------
(***************************************************************************)
(* What the documentation says, and the code does not always do.           *)
(***************************************************************************)

Usable(u) == {a \in Addresses : IsAuthed(a) /\ xdpDevices[a].user = u}

\* "Lock account disable authention from any device, deauthenticates user
\* active sessions", whatever the order of the handlers.
AccountLockHolds ==
  Settled /\ ~missed =>
    \A u \in Users : user[u] # Absent /\ user[u].locked => Usable(u) = {}
=============================================================================
