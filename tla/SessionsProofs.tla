--------------------------- MODULE SessionsProofs ---------------------------
(***************************************************************************)
(* For every pool of handlers: where no handler is left and none has       *)
(* overtaken another, the locks of the router are those of etcd and every  *)
(* session it holds is one that etcd knows (LocksTheorem,                  *)
(* SessionsTheorem).                                                       *)
(***************************************************************************)
EXTENDS FirewallProofs

-----------------------------------------------------------------------------
(***************************************************************************)
(* The sessions.  Of the record in etcd an entry of the router follows the *)
(* node, whether there is a login, and whether the device is locked out.   *)
(* A handler that is still to come may renew one of the three; where none  *)
(* does, entry and record agree.                                           *)
(***************************************************************************)

Aspects == {"node", "session", "lockout"}

\* The call is still to be made.
Has(s, call) == \E k \in DOMAIN s : s[k] = call

\* The calls that put aspect x of the entry right, whatever it was before.
RenewedBy(x) ==
  IF x = "node" THEN {"associate"}
  ELSE IF x = "session" THEN {"deauthenticate"}
  ELSE {"deauthenticate", "checkLockout"}

\* A handler that makes one, or enters or removes the device.
Renews(x, h) == Creates(h) \/ Removes(h) \/ \E call \in RenewedBy(x) : Has(h.todo, call)

\* The handler sets aspect x to what its record says.
Says(x, h) == IF x = "node" THEN ~Removes(h) ELSE Has(h.todo, "authorise")

\* The record cur of an event agrees with record d of etcd.
Agrees(x, cur, d) ==
  IF x = "node" THEN cur.node = d.node
  ELSE IF x = "session" THEN d.authorised = TRUE
  ELSE d.attempts <= Lockout

\* The entry of address a is right in aspect x.
Holds(x, a) ==
  IF x = "node" THEN xdpDevices[a].node = device[a].node
  ELSE IF x = "session" THEN xdpDevices[a].session # "none" => device[a].authorised = TRUE
  ELSE xdpDevices[a].session = "live" =>
         device[a].attempts <= Lockout \/ accountLocked[xdpDevices[a].user] # FALSE

\* A handler that nothing after it renews says what etcd says.
Told(x) ==
  \A a \in Addresses : \A i \in DOMAIN pool :
    /\ Of(i, a) /\ Says(x, pool[i]) /\ device[a] # Absent
    /\ \A j \in DOMAIN pool : Of(j, a) /\ i < j => ~Renews(x, pool[j])
    => Agrees(x, pool[i].cur, device[a])

\* An entry that nothing is to renew is right.
Done(x) ==
  \A a \in Addresses :
    /\ Known(a) /\ device[a] # Absent
    /\ \A j \in DOMAIN pool : Of(j, a) => ~Renews(x, pool[j])
    => Holds(x, a)

\* In aspect x entries and handlers follow etcd.
InStep(x) == InOrder => Told(x) /\ Done(x)

\* Devices are locked out, and idle sessions brought back, by such writes only.
Mild ==
  /\ "attempt" \in workload \/
       \A a \in Addresses : device[a] # Absent => device[a].attempts <= Lockout
  /\ \A i \in DOMAIN pool :
       /\ pool[i].topic = "acls" => "acl" \in workload
       /\ pool[i].topic = "timeout" => "timeout" \in workload

(***************************************************************************)
(* The locks.                                                              *)
(***************************************************************************)

\* The k-th handler is of user u.
OfUser(k, u) == pool[k].topic = "users" /\ pool[k].id = u

\* It adds the user, removes it, or writes its lock.
Adds(h) == Has(h.todo, "addUser")

Takes(h) == Has(h.todo, "removeUser")

Decides(h) == Adds(h) \/ Takes(h) \/ Has(h.todo, "lock")

\* The last handler that decides over a user leaves what etcd has.
Decided ==
  \A u \in Users : \A i \in DOMAIN pool :
    /\ OfUser(i, u) /\ Decides(pool[i])
    /\ \A j \in DOMAIN pool : OfUser(j, u) /\ i < j => ~Decides(pool[j])
    => /\ Takes(pool[i]) <=> user[u] = Absent
       /\ Adds(pool[i]) => user[u].locked = FALSE
       /\ Has(pool[i].todo, "lock") => user[u].locked = pool[i].cur.locked

\* A user is added only after the user before it was removed.
AddedAfter ==
  \A u \in Users : \A i, j \in DOMAIN pool :
    /\ OfUser(i, u) /\ OfUser(j, u) /\ i < j /\ Decides(pool[i]) /\ Adds(pool[j])
    /\ \A k \in DOMAIN pool : OfUser(k, u) /\ Decides(pool[k]) => k <= i \/ j <= k
    => Takes(pool[i])

\* A refresh may know the user before it is added.
Unlocked ==
  \A u \in Users : \A i \in DOMAIN pool :
    /\ OfUser(i, u) /\ Adds(pool[i])
    /\ \A j \in DOMAIN pool : OfUser(j, u) /\ Decides(pool[j]) => j = i
    => accountLocked[u] # TRUE

\* The lock of a user in etcd.
Lock(u) == IF user[u] = Absent THEN Absent ELSE user[u].locked

\* Where no handler is to decide, the router has the lock of etcd.
LocksFollow ==
  phase = "up" =>
    \A u \in Users :
      (\A j \in DOMAIN pool : OfUser(j, u) => ~Decides(pool[j])) => accountLocked[u] = Lock(u)

\* Setup works on the users etcd has.
CurrentUsers == phase = "read" => snapshot.users = user

\* All of it, where no handler overtakes another of its record.
LocksHold == Decided /\ AddedAfter /\ Unlocked /\ LocksFollow /\ CurrentUsers

Locks == InOrder => LocksHold

-----------------------------------------------------------------------------
(***************************************************************************)
(* A step of a handler.                                                    *)
(***************************************************************************)

\* Where the handlers of the pool after a call of the i-th were before it,
\* which has the calls in todo left.
Moves(i, todo, old) ==
  /\ old \in [DOMAIN pool' -> DOMAIN pool]
  /\ \A k, m \in DOMAIN pool' : k < m <=> old[k] < old[m]
  /\ \A j \in DOMAIN pool \ {i} : \E k \in DOMAIN pool' : old[k] = j
  /\ \A k \in DOMAIN pool' :
       /\ old[k] # i => pool'[k] = pool[old[k]]
       /\ old[k] = i =>
            /\ pool'[k].topic = pool[i].topic /\ pool'[k].id = pool[i].id
            /\ pool'[k].cur = pool[i].cur /\ pool'[k].todo = todo
            /\ todo # <<>>
  /\ todo # <<>> => \E k \in DOMAIN pool' : old[k] = i

\* A handler that goes on stays where it is.
LEMMA MovesOn ==
  ASSUME SyncTypes, NEW i \in DOMAIN pool, NEW n, pool' = [pool EXCEPT ![i] = n],
         n.topic = pool[i].topic, n.id = pool[i].id, n.cur = pool[i].cur, n.todo # <<>>
  PROVE  \E old : Moves(i, n.todo, old)
<1>1. pool \in Seq(HandlerRecord) /\ DOMAIN pool = 1..Len(pool) /\ Len(pool) \in Nat
  BY DEF SyncTypes, HandlersOK, PoolOK
<1>2. DOMAIN pool' = DOMAIN pool
  BY <1>1
<1>3. PICK old : old = [k \in DOMAIN pool' |-> k]
  OBVIOUS
<1> QED
  BY <1>1, <1>2, <1>3 DEF Moves

\* Those after one that ends move up.
LEMMA MovesUp ==
  ASSUME SyncTypes, NEW i \in DOMAIN pool, pool' = RemoveAt(pool, i)
  PROVE  \E old : Moves(i, <<>>, old)
<1>1. pool \in Seq(HandlerRecord) /\ DOMAIN pool = 1..Len(pool) /\ Len(pool) \in Nat
  BY DEF SyncTypes, HandlersOK, PoolOK
<1>2. /\ DOMAIN pool' = 1..(Len(pool) - 1)
      /\ \A k \in 1..(Len(pool) - 1) : pool'[k] = IF k < i THEN pool[k] ELSE pool[k + 1]
  <2>1. pool' \in Seq(HandlerRecord) /\ Len(pool') = Len(pool) - 1
    BY <1>1, Removed
  <2>2. \A k \in 1..(Len(pool) - 1) : pool'[k] = IF k < i THEN pool[k] ELSE pool[k + 1]
    BY <1>1, Removed
  <2> QED
    BY <2>1, <2>2
<1>3. PICK old : old = [k \in DOMAIN pool' |-> IF k < i THEN k ELSE k + 1]
  OBVIOUS
<1>4. \A k \in DOMAIN pool' : /\ old[k] \in DOMAIN pool /\ old[k] # i
                              /\ pool'[k] = pool[old[k]]
  BY <1>1, <1>2, <1>3
<1>5. \A k, m \in DOMAIN pool' : k < m <=> old[k] < old[m]
  BY <1>1, <1>2, <1>3
<1>6. ASSUME NEW j \in DOMAIN pool \ {i} PROVE \E k \in DOMAIN pool' : old[k] = j
  <2>1. PICK k \in Int : k = IF j < i THEN j ELSE j - 1
    BY <1>1
  <2>2. k \in DOMAIN pool' /\ old[k] = j
    BY <1>1, <1>2, <1>3, <1>6, <2>1
  <2> QED
    BY <2>2
<1>7. old \in [DOMAIN pool' -> DOMAIN pool]
  BY <1>3, <1>4
<1> QED
  BY <1>4, <1>5, <1>6, <1>7 DEF Moves

\* Either way.
LEMMA ContinueMoves ==
  ASSUME SyncTypes, NEW i \in DOMAIN pool, NEW todo, Continue(i, todo)
  PROVE  \E old : Moves(i, todo, old)
<1>1. pool' = IF todo = <<>> THEN RemoveAt(pool, i)
              ELSE [pool EXCEPT ![i].todo = todo, ![i].started = TRUE]
  BY DEF Continue
<1>2. pool \in Seq(HandlerRecord) /\ pool[i] \in HandlerRecord
  BY DEF SyncTypes, HandlersOK, PoolOK
<1>3. CASE todo = <<>>
  BY <1>1, <1>3, MovesUp
<1>4. CASE todo # <<>>
  <2>1. PICK n : n = [pool[i] EXCEPT !.todo = todo, !.started = TRUE]
    OBVIOUS
  <2>2. pool' = [pool EXCEPT ![i] = n]
    BY <1>1, <1>2, <1>4, <2>1
  <2>3. n.topic = pool[i].topic /\ n.id = pool[i].id /\ n.cur = pool[i].cur /\ n.todo = todo
    BY <2>1, <1>2 DEF HandlerRecord
  <2> QED
    BY <1>4, <2>2, <2>3, MovesOn
<1> QED
  BY <1>3, <1>4

\* No handler of the same record comes before one that may go on in order.
LEMMA FirstFirst ==
  ASSUME SyncTypes, NEW i \in DOMAIN pool, ~Overtakes(i), NEW j \in DOMAIN pool, j < i
  PROVE  pool[j].topic # pool[i].topic \/ pool[j].id # pool[i].id
<1>1. DOMAIN pool = 1..Len(pool) /\ Len(pool) \in Nat
  BY DEF SyncTypes, HandlersOK, PoolOK
<1> QED
  BY <1>1 DEF Overtakes

\* What a call of the i-th handler, which has todo left after it, must do to
\* an entry: make it right, make it what the handler says, or leave it as right
\* as it was, without taking back what the handler was to renew.
Effects(x, i, todo) ==
  \A b \in Addresses : Known(b)' /\ device[b] # Absent =>
    \/ Holds(x, b)'
    \/ /\ Of(i, b) /\ Says(x, pool[i])
       /\ Agrees(x, pool[i].cur, device[b]) => Holds(x, b)'
    \/ /\ Known(b) /\ (Holds(x, b) => Holds(x, b)')
       /\ Of(i, b) /\ Renews(x, pool[i]) => \E call \in RenewedBy(x) : Has(todo, call)

\* Then entries and handlers agree with etcd as before.
LEMMA MovedFollow ==
  ASSUME SyncTypes, NEW x \in Aspects, Told(x), Done(x), UNCHANGED device,
         NEW i \in DOMAIN pool, ~Overtakes(i), NEW todo, NEW old, Moves(i, todo, old),
         pool[i].topic = "devices" /\ todo # <<>> => ~Removes(pool[i]),
         Has(todo, "authorise") => Has(pool[i].todo, "authorise"),
         Effects(x, i, todo)
  PROVE  Told(x)' /\ Done(x)'
<1>1. /\ \A k \in DOMAIN pool' : old[k] \in DOMAIN pool
      /\ \A k, m \in DOMAIN pool' : k < m <=> old[k] < old[m]
      /\ \A j \in DOMAIN pool \ {i} : \E k \in DOMAIN pool' : old[k] = j
      /\ \A k \in DOMAIN pool' : old[k] # i => pool'[k] = pool[old[k]]
      /\ \A k \in DOMAIN pool' : old[k] = i =>
           /\ pool'[k].topic = pool[i].topic /\ pool'[k].id = pool[i].id
           /\ pool'[k].cur = pool[i].cur /\ pool'[k].todo = todo /\ todo # <<>>
      /\ todo # <<>> => \E k \in DOMAIN pool' : old[k] = i
  BY DEF Moves
<1>2. \A k \in DOMAIN pool', a \in Addresses :
        /\ Of(k, a)' <=> Of(old[k], a)
        /\ pool'[k].cur = pool[old[k]].cur
        /\ old[k] # i => (Renews(x, pool'[k]) <=> Renews(x, pool[old[k]]))
  BY <1>1 DEF Of
<1>3. \A k \in DOMAIN pool', a \in Addresses :
        Of(k, a)' /\ Says(x, pool'[k]) => Says(x, pool[old[k]])
  <2> SUFFICES ASSUME NEW k \in DOMAIN pool', NEW a \in Addresses, Of(k, a)', Says(x, pool'[k])
               PROVE  Says(x, pool[old[k]])
    OBVIOUS
  <2>1. CASE old[k] # i
    BY <1>1, <2>1
  <2>2. CASE old[k] = i
    <3>1. /\ pool'[k].todo = todo /\ todo # <<>> /\ pool[i].topic = "devices"
      BY <1>1, <2>2 DEF Of
    <3> QED
      BY <2>2, <3>1 DEF Says
  <2> QED
    BY <2>1, <2>2
<1>4. ASSUME NEW a \in Addresses, NEW j \in DOMAIN pool, NEW k \in DOMAIN pool', Of(k, a)',
             Of(j, a), old[k] < j,
             \A m \in DOMAIN pool' : Of(m, a)' /\ k < m => ~Renews(x, pool'[m])
      PROVE  ~Renews(x, pool[j])
  <2>1. j # i
    BY <1>1, <1>2, <1>4, FirstFirst DEF Of
  <2>2. PICK m \in DOMAIN pool' : old[m] = j
    BY <1>1, <2>1
  <2> QED
    BY <1>1, <1>2, <1>4, <2>1, <2>2
<1>5. Told(x)'
  <2> SUFFICES ASSUME NEW a \in Addresses, NEW k \in DOMAIN pool',
                      Of(k, a)', Says(x, pool'[k]), device[a] # Absent,
                      \A m \in DOMAIN pool' : Of(m, a)' /\ k < m => ~Renews(x, pool'[m])
               PROVE  Agrees(x, pool'[k].cur, device[a])
    BY DEF Told, Says, Renews, Creates, Removes, Agrees
  <2>1. \A j \in DOMAIN pool : Of(j, a) /\ old[k] < j => ~Renews(x, pool[j])
    BY <1>4
  <2>2. Of(old[k], a) /\ Says(x, pool[old[k]]) /\ old[k] \in DOMAIN pool
    BY <1>1, <1>2, <1>3
  <2>3. Agrees(x, pool[old[k]].cur, device[a])
    BY <2>1, <2>2 DEF Told
  <2> QED
    BY <1>2, <2>3
<1>6. ASSUME NEW b \in Addresses, Known(b)', device[b] # Absent,
             \A m \in DOMAIN pool' : Of(m, b)' => ~Renews(x, pool'[m])
      PROVE  Holds(x, b)'
  <2>1. ASSUME NEW j \in DOMAIN pool, Of(j, b), j # i PROVE ~Renews(x, pool[j])
    <3>1. PICK m \in DOMAIN pool' : old[m] = j
      BY <1>1, <2>1
    <3> QED
      BY <1>2, <1>6, <2>1, <3>1
  <2>2. CASE Of(i, b) /\ Says(x, pool[i])
               /\ (Agrees(x, pool[i].cur, device[b]) => Holds(x, b)')
    <3>1. \A j \in DOMAIN pool : i < j => j # i
      BY DEF SyncTypes, HandlersOK, PoolOK
    <3> QED
      BY <1>6, <2>1, <2>2, <3>1 DEF Told
  <2>3. CASE /\ Known(b) /\ (Holds(x, b) => Holds(x, b)')
             /\ Of(i, b) /\ Renews(x, pool[i]) => \E call \in RenewedBy(x) : Has(todo, call)
    <3>1. CASE Of(i, b) /\ Renews(x, pool[i])
      <4>1. PICK call \in RenewedBy(x) : Has(todo, call)
        BY <2>3, <3>1
      <4>2. todo # <<>>
        BY <4>1 DEF Has
      <4>3. PICK m \in DOMAIN pool' : old[m] = i
        BY <1>1, <4>2
      <4>4. Renews(x, pool'[m]) /\ Of(m, b)'
        BY <1>1, <1>2, <3>1, <4>1, <4>3 DEF Renews
      <4> QED
        BY <1>6, <4>4
    <3>2. CASE ~(Of(i, b) /\ Renews(x, pool[i]))
      BY <1>6, <2>1, <2>3, <3>2 DEF Done
    <3> QED
      BY <3>1, <3>2
  <2> QED
    BY <1>6, <2>2, <2>3 DEF Effects
<1>7. Done(x)'
  BY <1>6 DEF Done, Renews, Creates, Removes, Of, Has
<1> QED
  BY <1>5, <1>7

\* A step without handlers that makes no entry worse.
LEMMA StillFollow ==
  ASSUME NEW x \in Aspects, Told(x), Done(x), UNCHANGED <<pool, device>>,
         \A b \in Addresses : Known(b)' => Known(b) /\ (Holds(x, b) => Holds(x, b)')
  PROVE  Told(x)' /\ Done(x)'
<1>1. Told(x)'
  <2>1. \A i \in DOMAIN pool : pool'[i] = pool[i] /\ DOMAIN pool' = DOMAIN pool
    OBVIOUS
  <2>2. \A i \in DOMAIN pool : Says(x, pool[i])' <=> Says(x, pool[i])
    BY <2>1
  <2>3. \A i \in DOMAIN pool : Renews(x, pool[i])' <=> Renews(x, pool[i])
    BY <2>1
  <2>4. \A a \in Addresses : device'[a] = device[a]
    OBVIOUS
  <2> QED
    BY <2>1, <2>2, <2>3, <2>4 DEF Told, Of, Agrees
<1>2. Done(x)'
  BY DEF Done, Of, Renews, Creates, Removes, Has
<1> QED
  BY <1>1, <1>2

\* Without handlers and entries there is nothing to follow.
LEMMA NoFollow ==
  ASSUME pool' = <<>>, \A a \in Addresses : ~Known(a)', NEW x \in Aspects
  PROVE  Told(x)' /\ Done(x)'
<1>1. DOMAIN pool' = {}
  OBVIOUS
<1> QED
  BY <1>1 DEF Told, Done

\* A write leaves a record as good for the sessions as it was.
NoWorse(x, d, new) ==
  IF x = "node" THEN new.node = d.node
  ELSE IF x = "session" THEN d.authorised = TRUE => new.authorised = TRUE
  ELSE d.attempts <= Lockout => new.attempts <= Lockout

\* The handlers of a write say what it wrote, and renew what it made worse.
Reported(x, hs) ==
  /\ \A n \in DOMAIN hs : hs[n].topic = "devices" =>
       /\ hs[n].id \in Addresses
       /\ device'[hs[n].id] # Absent /\ Says(x, hs[n])
            => Agrees(x, hs[n].cur, device'[hs[n].id])
  /\ \A a \in Addresses :
       \/ \E n \in DOMAIN hs : hs[n].topic = "devices" /\ hs[n].id = a /\ Renews(x, hs[n])
       \/ device'[a] = Absent
       \/ device[a] # Absent /\ NoWorse(x, device[a], device'[a])

\* Delivered with it, they leave entries and handlers in agreement with etcd.
LEMMA ReportedFollow ==
  ASSUME SyncTypes, NEW x \in Aspects, Told(x), Done(x), NEW R, NEW hs \in Seq(R),
         Reported(x, hs), pool' = pool \o hs, UNCHANGED <<xdpDevices, accountLocked>>
  PROVE  Told(x)' /\ Done(x)'
<1>0. PICK l \in Nat : l = Len(pool)
  BY DEF SyncTypes, HandlersOK, PoolOK
<1>1. /\ pool \in Seq(HandlerRecord) /\ DOMAIN pool = 1..l
      /\ Len(hs) \in Nat /\ DOMAIN hs = 1..Len(hs)
  BY <1>0 DEF SyncTypes, HandlersOK, PoolOK
<1>2. /\ DOMAIN pool' = 1..(l + Len(hs))
      /\ \A k \in DOMAIN pool : k \in DOMAIN pool' /\ pool'[k] = pool[k]
      /\ \A n \in DOMAIN hs : /\ l + n \in DOMAIN pool'
                              /\ pool'[l + n] = hs[n]
  <2>1. pool \in Seq(HandlerRecord \cup R) /\ hs \in Seq(HandlerRecord \cup R)
    BY <1>1
  <2>2. /\ Len(pool \o hs) = l + Len(hs)
        /\ \A k \in 1..l + Len(hs) :
             (pool \o hs)[k] = IF k <= l THEN pool[k] ELSE hs[k - l]
    BY <1>0, <2>1, ConcatProperties
  <2>3. pool \o hs \in Seq(HandlerRecord \cup R)
    BY <2>1, ConcatSeq
  <2>4. DOMAIN pool' = 1..(l + Len(hs))
    BY <2>2, <2>3
  <2>5. \A n \in DOMAIN hs : /\ l + n \in 1..(l + Len(hs))
                             /\ ~(l + n <= l) /\ (l + n) - l = n
    BY <1>1
  <2>6. \A k \in DOMAIN pool : k \in 1..(l + Len(hs)) /\ k <= l
    BY <1>1
  <2> QED
    BY <2>2, <2>4, <2>5, <2>6
<1>3. \A k \in DOMAIN pool' :
        k \in DOMAIN pool \/ \E n \in DOMAIN hs : k = l + n
  <2> SUFFICES ASSUME NEW k \in DOMAIN pool', k \notin DOMAIN pool
               PROVE  \E n \in DOMAIN hs : k = l + n
    OBVIOUS
  <2>1. k \in 1..(l + Len(hs)) /\ k \notin 1..l
    BY <1>1, <1>2
  <2>2. k - l \in 1..Len(hs) /\ k = l + (k - l)
    BY <1>1, <2>1
  <2> QED
    BY <1>1, <2>2
<1>4. ASSUME NEW a \in Addresses, device[a] # Absent, device'[a] # Absent,
             NoWorse(x, device[a], device'[a])
      PROVE  /\ \A d : Agrees(x, d, device[a]) => Agrees(x, d, device'[a])
             /\ Holds(x, a) => Holds(x, a)'
  <2>1. \A d : Agrees(x, d, device[a]) => Agrees(x, d, device'[a])
    BY <1>4 DEF NoWorse, Agrees
  <2>2. Holds(x, a) => Holds(x, a)'
    BY <1>4 DEF NoWorse, Holds
  <2> QED
    BY <2>1, <2>2
<1>5. ASSUME NEW a \in Addresses, NEW n \in DOMAIN hs, hs[n].topic = "devices", hs[n].id = a
      PROVE  Of(l + n, a)'
  BY <1>2, <1>5 DEF Of
<1>6. Told(x)'
  <2> SUFFICES ASSUME NEW a \in Addresses, NEW k \in DOMAIN pool',
                      Of(k, a)', Says(x, pool'[k]), device'[a] # Absent,
                      \A m \in DOMAIN pool' : Of(m, a)' /\ k < m => ~Renews(x, pool'[m])
               PROVE  Agrees(x, pool'[k].cur, device'[a])
    BY DEF Told, Says, Renews, Creates, Removes, Agrees
  <2>1. CASE k \in DOMAIN pool
    <3>1. \A n \in DOMAIN hs : k < l + n
      BY <1>1, <2>1
    <3>2. device[a] # Absent /\ NoWorse(x, device[a], device'[a])
      <4>1. ASSUME NEW n \in DOMAIN hs, hs[n].topic = "devices", hs[n].id = a
            PROVE  ~Renews(x, hs[n])
        BY <1>2, <1>5, <3>1, <4>1
      <4> QED
        BY <4>1 DEF Reported
    <3>3. \A m \in DOMAIN pool : Of(m, a) /\ k < m => ~Renews(x, pool[m])
      BY <1>2 DEF Of
    <3>4. Of(k, a) /\ Says(x, pool[k]) /\ pool'[k] = pool[k]
      BY <1>2, <2>1 DEF Of
    <3>5. Agrees(x, pool[k].cur, device[a])
      BY <2>1, <3>2, <3>3, <3>4 DEF Told
    <3> QED
      BY <1>4, <3>2, <3>4, <3>5
  <2>2. ASSUME NEW n \in DOMAIN hs, k = l + n PROVE Agrees(x, pool'[k].cur, device'[a])
    <3>1. pool'[k] = hs[n] /\ hs[n].topic = "devices" /\ hs[n].id = a
      BY <1>2, <2>2 DEF Of
    <3> QED
      BY <3>1 DEF Reported
  <2> QED
    BY <1>3, <2>1, <2>2
<1>7. Done(x)'
  <2> SUFFICES ASSUME NEW a \in Addresses, Known(a)', device'[a] # Absent,
                      \A m \in DOMAIN pool' : Of(m, a)' => ~Renews(x, pool'[m])
               PROVE  Holds(x, a)'
    BY DEF Done, Renews, Creates, Removes, Of, Has
  <2>1. device[a] # Absent /\ NoWorse(x, device[a], device'[a])
    <3>1. ASSUME NEW n \in DOMAIN hs, hs[n].topic = "devices", hs[n].id = a
          PROVE  ~Renews(x, hs[n])
      BY <1>2, <1>5, <3>1
    <3> QED
      BY <3>1 DEF Reported
  <2>2. \A m \in DOMAIN pool : Of(m, a) => ~Renews(x, pool[m])
    BY <1>2 DEF Of
  <2>3. Holds(x, a)
    BY <2>1, <2>2 DEF Done, Known
  <2> QED
    BY <1>4, <2>1, <2>3
<1> QED
  BY <1>6, <1>7

\* So they do when a node listens, and a node that does not has no handlers.
LEMMA PublishedFollow ==
  ASSUME SyncTypes, Chain, NEW x \in Aspects, InStep(x), NEW topic, NEW R, NEW hs \in Seq(R),
         Reported(x, hs), Publish(topic, hs)
  PROVE  InStep(x)'
<1>1. /\ IF topic \in Registered
         THEN pool' = pool \o hs /\ UNCHANGED missed
         ELSE missed' = (missed \/ phase # "down") /\ UNCHANGED pool
      /\ UNCHANGED <<xdpDevices, accountLocked, phase, order>>
  BY DEF Publish, router, firewall
<1> SUFFICES ASSUME InOrder' PROVE Told(x)' /\ Done(x)'
  BY DEF InStep
<1>2. CASE topic \in Registered
  <2>1. Told(x) /\ Done(x)
    BY <1>1, <1>2 DEF InStep, InOrder
  <2> QED
    BY <1>1, <1>2, <2>1, ReportedFollow
<1>3. CASE topic \notin Registered
  <2>1. phase = "down"
    BY <1>1, <1>3 DEF InOrder
  <2>2. pool = <<>> /\ \A a \in Addresses : ~Known(a)
    BY <2>1 DEF SyncTypes, RouterOK, Chain, Bare
  <2>3. pool' = <<>> /\ \A a \in Addresses : ~Known(a)'
    BY <1>1, <1>3, <2>2 DEF Known
  <2> QED
    BY <2>3, NoFollow
<1> QED
  BY <1>2, <1>3

-----------------------------------------------------------------------------
(***************************************************************************)
(* The calls of a handler.                                                 *)
(***************************************************************************)

\* A call to be made is the next one or among the rest.
LEMMA HasTail ==
  ASSUME NEW S, NEW s \in Seq(S), s # <<>>, NEW c
  PROVE  Has(s, c) <=> Head(s) = c \/ Has(Tail(s), c)
<1>1. /\ Len(s) \in Nat \ {0} /\ DOMAIN s = 1..Len(s) /\ Head(s) = s[1]
      /\ DOMAIN Tail(s) = 1..(Len(s) - 1)
      /\ \A k \in DOMAIN Tail(s) : Tail(s)[k] = s[k + 1]
  OBVIOUS
<1>2. ASSUME NEW k \in DOMAIN s, s[k] = c PROVE Head(s) = c \/ Has(Tail(s), c)
  <2>1. CASE k = 1
    BY <1>1, <1>2, <2>1
  <2>2. CASE k # 1
    <3>1. PICK m \in Int : m = k - 1
      BY <1>1
    <3>2. m \in DOMAIN Tail(s) /\ Tail(s)[m] = c
      BY <1>1, <1>2, <2>2, <3>1
    <3> QED
      BY <3>2 DEF Has
  <2> QED
    BY <2>1, <2>2
<1>3. ASSUME NEW k \in DOMAIN Tail(s), Tail(s)[k] = c PROVE Has(s, c)
  <2>1. k + 1 \in DOMAIN s /\ s[k + 1] = c
    BY <1>1, <1>3
  <2> QED
    BY <2>1 DEF Has
<1>4. 1 \in DOMAIN s
  BY <1>1
<1> QED
  BY <1>1, <1>2, <1>3, <1>4 DEF Has

\* The calls of a sequence put together from two.
LEMMA HasConcat ==
  ASSUME NEW S, NEW s \in Seq(S), NEW t \in Seq(S), NEW c
  PROVE  Has(s \o t, c) <=> Has(s, c) \/ Has(t, c)
<1>1. /\ Len(s) \in Nat /\ DOMAIN s = 1..Len(s) /\ Len(t) \in Nat /\ DOMAIN t = 1..Len(t)
  OBVIOUS
<1>2. DOMAIN (s \o t) = 1..(Len(s) + Len(t))
  OBVIOUS
<1>3. \A k \in DOMAIN (s \o t) : (s \o t)[k] = IF k <= Len(s) THEN s[k] ELSE t[k - Len(s)]
  OBVIOUS
<1>4. ASSUME NEW k \in DOMAIN (s \o t), (s \o t)[k] = c PROVE Has(s, c) \/ Has(t, c)
  <2>1. CASE k <= Len(s)
    <3>1. k \in DOMAIN s /\ s[k] = c
      BY <1>1, <1>2, <1>3, <1>4, <2>1
    <3> QED
      BY <3>1 DEF Has
  <2>2. CASE ~(k <= Len(s))
    <3>1. PICK m \in Int : m = k - Len(s)
      BY <1>1, <1>2
    <3>2. m \in DOMAIN t /\ t[m] = c
      BY <1>1, <1>2, <1>3, <1>4, <2>2, <3>1
    <3> QED
      BY <3>2 DEF Has
  <2> QED
    BY <2>1, <2>2
<1>5. ASSUME NEW k \in DOMAIN s, s[k] = c PROVE Has(s \o t, c)
  <2>1. k \in DOMAIN (s \o t) /\ (s \o t)[k] = c
    BY <1>1, <1>2, <1>3, <1>5
  <2> QED
    BY <2>1 DEF Has
<1>6. ASSUME NEW k \in DOMAIN t, t[k] = c PROVE Has(s \o t, c)
  <2>1. PICK m \in Int : m = k + Len(s)
    BY <1>1
  <2>2. m \in DOMAIN (s \o t) /\ ~(m <= Len(s)) /\ m - Len(s) = k
    BY <1>1, <1>2, <2>1
  <2>3. (s \o t)[m] = c
    BY <1>3, <1>6, <2>2
  <2> QED
    BY <2>2, <2>3 DEF Has
<1> QED
  BY <1>4, <1>5, <1>6 DEF Has

\* The call of a sequence of one.
LEMMA HasOne == ASSUME NEW call, NEW c PROVE Has(<<call>>, c) <=> c = call
<1>1. DOMAIN <<call>> = {1} /\ <<call>>[1] = call
  OBVIOUS
<1> QED
  BY <1>1 DEF Has

\* A handler without calls makes none.
LEMMA HasNone == ASSUME NEW c PROVE ~Has(<<>>, c)
<1>1. DOMAIN <<>> = {}
  OBVIOUS
<1> QED
  BY <1>1 DEF Has

\* A call that is made only where it is needed.
LEMMA HasCallIf ==
  ASSUME NEW needed, NEW call, NEW c
  PROVE  Has(CallIf(needed, call), c) <=> needed /\ c = call
BY HasOne, HasNone DEF CallIf

\* When a change of a device is followed by which call.
LEMMA DeviceCallsHas ==
  ASSUME NEW prev \in DeviceRecord, NEW cur \in DeviceRecord, NEW again \in BOOLEAN
  PROVE  LET todo == DeviceCalls(prev, cur, again) IN
         /\ Has(todo, "checkLockout") <=> cur.attempts > Lockout /\ cur.authorised
         /\ Has(todo, "deauthenticate") <=> ~cur.authorised
         /\ Has(todo, "associate") <=> cur.node # prev.node
         /\ Has(todo, "authorise") <=> again /\ cur.attempts <= Lockout /\ cur.node = prev.node
<1> DEFINE s1 == CallIf(cur.key # prev.key, "replacePeer")
           s2 == CallIf(cur.endpoint # prev.endpoint, "challenge")
           s3 == CallIf(cur.attempts > Lockout /\ cur.authorised, "checkLockout")
           s4 == CallIf(~cur.authorised, "deauthenticate")
           s5 == CallIf(cur.node # prev.node, "associate")
           s6 == CallIf(again /\ cur.attempts <= Lockout /\ cur.node = prev.node, "authorise")
<1>1. /\ s1 \in Seq(ChangeCalls) /\ s2 \in Seq(ChangeCalls) /\ s3 \in Seq(ChangeCalls)
      /\ s4 \in Seq(ChangeCalls) /\ s5 \in Seq(ChangeCalls) /\ s6 \in Seq(ChangeCalls)
  BY CallIfSeq DEF ChangeCalls
<1>2. \A c : /\ Has(s1, c) <=> cur.key # prev.key /\ c = "replacePeer"
             /\ Has(s2, c) <=> cur.endpoint # prev.endpoint /\ c = "challenge"
             /\ Has(s3, c) <=> cur.attempts > Lockout /\ cur.authorised /\ c = "checkLockout"
             /\ Has(s4, c) <=> ~cur.authorised /\ c = "deauthenticate"
             /\ Has(s5, c) <=> cur.node # prev.node /\ c = "associate"
             /\ Has(s6, c) <=> again /\ cur.attempts <= Lockout /\ cur.node = prev.node
                                 /\ c = "authorise"
  BY HasCallIf, Zenon
<1> DEFINE t2 == s1 \o s2
           t3 == t2 \o s3
           t4 == t3 \o s4
           t5 == t4 \o s5
<1>3. DeviceCalls(prev, cur, again) = t5 \o s6
  BY DEF DeviceCalls
<1> HIDE DEF s1, s2, s3, s4, s5, s6
<1>4. /\ t2 \in Seq(ChangeCalls) /\ t3 \in Seq(ChangeCalls)
      /\ t4 \in Seq(ChangeCalls) /\ t5 \in Seq(ChangeCalls)
  BY <1>1, ConcatSeq
<1>5. /\ \A c : Has(t2, c) <=> Has(s1, c) \/ Has(s2, c)
      /\ \A c : Has(t3, c) <=> Has(t2, c) \/ Has(s3, c)
      /\ \A c : Has(t4, c) <=> Has(t3, c) \/ Has(s4, c)
      /\ \A c : Has(t5, c) <=> Has(t4, c) \/ Has(s5, c)
      /\ \A c : Has(t5 \o s6, c) <=> Has(t5, c) \/ Has(s6, c)
  <2>1. \A s, t \in Seq(ChangeCalls) : \A c : Has(s \o t, c) <=> Has(s, c) \/ Has(t, c)
    BY HasConcat
  <2> HIDE DEF t2, t3, t4, t5
  <2>2. t2 = s1 \o s2 /\ t3 = t2 \o s3 /\ t4 = t3 \o s4 /\ t5 = t4 \o s5
    BY DEF t2, t3, t4, t5
  <2> QED
    BY <1>1, <1>4, <2>1, <2>2, Zenon
<1> HIDE DEF t2, t3, t4, t5
<1> QED
  BY <1>2, <1>3, <1>5

-----------------------------------------------------------------------------
(***************************************************************************)
(* Writes.                                                                 *)
(***************************************************************************)

\* Events of other topics say nothing of a device.
LEMMA OtherReported ==
  ASSUME NEW x \in Aspects, NEW h, h.topic # "devices", UNCHANGED device
  PROVE  Reported(x, <<h>>) /\ Reported(x, Event(h))
<1>1. \A a \in Addresses : device[a] # Absent => NoWorse(x, device[a], device'[a])
  BY DEF NoWorse
<1>2. Reported(x, <<h>>)
  <2>1. \A n \in DOMAIN <<h>> : <<h>>[n] = h
    OBVIOUS
  <2> QED
    BY <1>1, <2>1 DEF Reported
<1>3. Reported(x, <<>>)
  <2>1. DOMAIN <<>> = {}
    OBVIOUS
  <2> QED
    BY <1>1, <2>1 DEF Reported
<1> QED
  BY <1>2, <1>3 DEF Event

\* The event of a write of one device.
LEMMA OneReported ==
  ASSUME NEW x \in Aspects, NEW h, NEW a \in Addresses, h.topic = "devices", h.id = a,
         device'[a] # Absent /\ Says(x, h) => Agrees(x, h.cur, device'[a]),
         \/ Renews(x, h) \/ device'[a] = Absent
         \/ device[a] # Absent /\ NoWorse(x, device[a], device'[a]),
         \A b \in Addresses : b # a => device'[b] = device[b]
  PROVE  Reported(x, <<h>>)
<1>1. \A n \in DOMAIN <<h>> : <<h>>[n] = h
  OBVIOUS
<1>2. 1 \in DOMAIN <<h>> /\ <<h>>[1] = h
  OBVIOUS
<1>3. \A b \in Addresses : b # a /\ device[b] # Absent => NoWorse(x, device[b], device'[b])
  BY DEF NoWorse
<1> QED
  BY <1>1, <1>2, <1>3 DEF Reported

\* A new device is entered by its handler.
LEMMA AddDeviceFollow ==
  ASSUME SyncTypes, Chain, NEW x \in Aspects, InStep(x),
         NEW u \in Users, NEW a \in Addresses, NEW k \in Keys, AddDevice(u, a, k)
  PROVE  InStep(x)'
<1> DEFINE new == NewDevice(u, k)
           h == Handler("devices", a, new, Absent, <<"addPeer">>)
<1>1. /\ Publish("devices", <<h>>) /\ device[a] = Absent
      /\ device' = [device EXCEPT ![a] = new]
  BY DEF AddDevice
<1>2. /\ h.topic = "devices" /\ h.id = a /\ h.cur = new /\ h.todo = <<"addPeer">>
  BY HandlerFields
<1> HIDE DEF h
<1>3. device'[a] = new /\ \A b \in Addresses : b # a => device'[b] = device[b]
  BY <1>1 DEF SyncTypes, EtcdOK
<1>4. Renews(x, h)
  BY <1>2 DEF Renews, Creates
<1>5. Says(x, h) => Agrees(x, h.cur, device'[a])
  <2>1. ~Has(h.todo, "authorise")
    BY <1>2, HasOne
  <2> QED
    BY <1>2, <1>3, <2>1 DEF Says, Agrees
<1>6. Reported(x, <<h>>)
  BY <1>2, <1>3, <1>4, <1>5, OneReported
<1>7. <<h>> \in Seq({h})
  OBVIOUS
<1> QED
  BY <1>1, <1>6, <1>7, PublishedFollow

\* Of a device that is gone nothing is asked.
LEMMA DeleteDeviceFollow ==
  ASSUME SyncTypes, Chain, NEW x \in Aspects, InStep(x), NEW a \in Addresses, DeleteDevice(a)
  PROVE  InStep(x)'
<1>1. /\ device[a] # Absent /\ device' = [device EXCEPT ![a] = Absent]
      /\ Publish("devices", <<Removal(a)>>)
  BY DEF DeleteDevice
<1>2. device'[a] = Absent /\ \A b \in Addresses : b # a => device'[b] = device[b]
  BY <1>1 DEF SyncTypes, EtcdOK
<1>3. Removal(a).topic = "devices" /\ Removal(a).id = a
  BY HandlerFields DEF Removal
<1>4. Reported(x, <<Removal(a)>>)
  BY <1>2, <1>3, OneReported
<1>5. <<Removal(a)>> \in Seq({Removal(a)})
  OBVIOUS
<1> QED
  BY <1>1, <1>4, <1>5, PublishedFollow

\* Nor of all those of a deleted user.
LEMMA DeleteDevicesFollow ==
  ASSUME SyncTypes, Chain, NEW x \in Aspects, InStep(x), NEW u \in Users, DeleteDevices(u)
  PROVE  InStep(x)'
<1>1. PICK key \in InSomeOrder(Owned(u)) :
        Publish("devices", [n \in DOMAIN key |-> Removal(key[n])])
  BY DEF DeleteDevices
<1>2. PICK n \in Nat : key \in [1..n -> Owned(u)] /\ DOMAIN key = 1..n
  BY OrderedLemma
<1>3. PICK hs : hs = [m \in DOMAIN key |-> Removal(key[m])]
  OBVIOUS
<1>4. device' = [a \in Addresses |-> IF a \in Owned(u) THEN Absent ELSE device[a]]
  BY DEF DeleteDevices
<1>5. \A m \in DOMAIN hs : /\ key[m] \in Owned(u) /\ hs[m] = Removal(key[m])
                           /\ hs[m].id = key[m]
  BY <1>2, <1>3, HandlerFields DEF Removal
<1>6. Owned(u) \subseteq Addresses
  BY DEF Owned
<1>7. \A a \in Addresses : \/ device'[a] = Absent
                           \/ device[a] # Absent /\ NoWorse(x, device[a], device'[a])
  BY <1>4 DEF NoWorse
<1>8. Reported(x, hs)
  BY <1>4, <1>5, <1>6, <1>7 DEF Reported
<1>9. hs \in Seq({Removal(a) : a \in Owned(u)})
  BY <1>2, <1>3
<1> QED
  BY <1>1, <1>3, <1>8, <1>9, PublishedFollow

\* The calls of a change renew whatever it made worse.
LEMMA WriteDeviceFollow ==
  ASSUME SyncTypes, Chain, NEW x \in Aspects, InStep(x),
         NEW a \in Addresses, NEW new, NEW again \in BOOLEAN,
         device[a] # Absent => new \in DeviceRecord /\ (again => new.authorised),
         WriteDevice(a, new, again)
  PROVE  InStep(x)'
<1> DEFINE h == Handler("devices", a, new, device[a].key, DeviceCalls(device[a], new, again))
<1>1. /\ device[a] # Absent /\ device' = [device EXCEPT ![a] = new]
      /\ Publish("devices", Event(h))
      /\ new \in DeviceRecord /\ (again => new.authorised)
  BY DEF WriteDevice
<1>2. device'[a] = new /\ \A b \in Addresses : b # a => device'[b] = device[b]
  BY <1>1 DEF SyncTypes, EtcdOK
<1>3. device[a] \in DeviceRecord
  BY <1>1, DeviceThere
<1>4. /\ h.topic = "devices" /\ h.id = a /\ h.cur = new
      /\ h.todo = DeviceCalls(device[a], new, again)
  BY HandlerFields
<1> HIDE DEF h
<1>5. new.attempts \in Int /\ new.authorised \in BOOLEAN /\ Lockout \in Int
  BY <1>1, LockoutAssumption DEF DeviceRecord
<1>6. /\ Has(h.todo, "checkLockout") <=> new.attempts > Lockout /\ new.authorised
      /\ Has(h.todo, "deauthenticate") <=> ~new.authorised
      /\ Has(h.todo, "associate") <=> new.node # device[a].node
      /\ Has(h.todo, "authorise") <=>
           again /\ new.attempts <= Lockout /\ new.node = device[a].node
  BY <1>1, <1>3, <1>4, DeviceCallsHas
<1>7. Says(x, h) => Agrees(x, h.cur, device'[a])
  BY <1>1, <1>2, <1>4, <1>5, <1>6 DEF Says, Agrees
<1>8. (\E call \in RenewedBy(x) : Has(h.todo, call)) \/ NoWorse(x, device[a], device'[a])
  BY <1>2, <1>5, <1>6 DEF NoWorse, RenewedBy, Aspects
<1>9. Reported(x, <<h>>)
  BY <1>1, <1>2, <1>4, <1>7, <1>8, OneReported DEF Renews
<1>10. CASE h.todo # <<>>
  <2>1. <<h>> \in Seq({h}) /\ Event(h) = <<h>>
    BY <1>10 DEF Event
  <2> QED
    BY <1>1, <1>9, <2>1, PublishedFollow
<1>11. CASE h.todo = <<>>
  <2>1. <<>> \in Seq({h}) /\ Event(h) = <<>> /\ DOMAIN <<>> = {}
    BY <1>11 DEF Event
  <2>2. NoWorse(x, device[a], device'[a])
    BY <1>8, <1>11, HasNone
  <2>3. \A b \in Addresses : b # a /\ device[b] # Absent => NoWorse(x, device[b], device'[b])
    BY <1>2 DEF NoWorse
  <2>4. Reported(x, <<>>)
    BY <1>1, <1>2, <2>1, <2>2, <2>3 DEF Reported
  <2> QED
    BY <1>1, <2>1, <2>4, PublishedFollow
<1> QED
  BY <1>10, <1>11

\* The writes of a device.
LEMMA DeviceWriteFollow ==
  ASSUME SyncTypes, Chain, NEW x \in Aspects, InStep(x), NEW a \in Addresses,
         \/ \E u \in Users, k \in Keys : AddDevice(u, a, k)
         \/ DeleteDevice(a)
         \/ \E k \in Keys : UpdateDevicePublicKey(a, k)
         \/ IncrementAuthenticationAttempt(a)
         \/ \E n \in {0, Lockout + 1} : SetDeviceAuthenticationAttempts(a, n)
         \/ CheckAccountLock(a)
         \/ \E n \in Nodes :
              AuthoriseDevice(a, n) \/ \E e \in Endpoints : UpdateDeviceConnectionDetails(a, e, n)
         \/ DeauthenticateDevice(a)
  PROVE  InStep(x)'
<1>1. device[a] # Absent => device[a] \in DeviceRecord
  BY DeviceThere
<1>2. ASSUME NEW new, WriteDevice(a, new, FALSE), device[a] # Absent => new \in DeviceRecord
      PROVE  InStep(x)'
  BY <1>2, WriteDeviceFollow
<1>3. ASSUME NEW k \in Keys, UpdateDevicePublicKey(a, k) PROVE InStep(x)'
  BY <1>1, <1>2, <1>3, DeviceWritten DEF UpdateDevicePublicKey
<1>4. CASE IncrementAuthenticationAttempt(a)
  BY <1>1, <1>2, <1>4, DeviceWritten DEF IncrementAuthenticationAttempt
<1>5. ASSUME NEW n \in {0, Lockout + 1}, SetDeviceAuthenticationAttempts(a, n) PROVE InStep(x)'
  BY <1>1, <1>2, <1>5, DeviceWritten DEF SetDeviceAuthenticationAttempts
<1>6. CASE CheckAccountLock(a)
  <2>1. UNCHANGED <<firewall, device, pool, order, missed>>
    BY <1>6 DEF CheckAccountLock
  <2>2. ASSUME InOrder' PROVE Told(x)' /\ Done(x)'
    <3>1. Told(x) /\ Done(x)
      BY <2>1, <2>2 DEF InStep, InOrder
    <3>2. \A b \in Addresses : Known(b)' => Known(b) /\ (Holds(x, b) => Holds(x, b)')
      BY <2>1 DEF Known, Holds, firewall
    <3> QED
      BY <2>1, <3>1, <3>2, StillFollow
  <2> QED
    BY <2>2 DEF InStep
<1>7. ASSUME NEW n \in Nodes, AuthoriseDevice(a, n) PROVE InStep(x)'
  <2>1. WriteDevice(a, WithAuthorisation(device[a], n), TRUE)
    BY <1>7 DEF AuthoriseDevice
  <2>2. device[a] # Absent => WithAuthorisation(device[a], n).authorised
    BY <1>1 DEF WithAuthorisation, DeviceRecord
  <2> QED
    BY <1>1, <2>1, <2>2, DeviceWritten, WriteDeviceFollow
<1>8. ASSUME NEW n \in Nodes, NEW e \in Endpoints, UpdateDeviceConnectionDetails(a, e, n)
      PROVE  InStep(x)'
  BY <1>1, <1>2, <1>8, DeviceWritten DEF UpdateDeviceConnectionDetails
<1>9. CASE DeauthenticateDevice(a)
  BY <1>1, <1>2, <1>9, DeviceWritten DEF DeauthenticateDevice
<1> QED
  BY <1>3, <1>4, <1>5, <1>6, <1>7, <1>8, <1>9, AddDeviceFollow, DeleteDeviceFollow

\* A write of anything but a device.
LEMMA OtherFollow ==
  ASSUME SyncTypes, Chain, NEW x \in Aspects, InStep(x),
         NEW topic, NEW h, h.topic # "devices",
         UNCHANGED device, Publish(topic, <<h>>) \/ Publish(topic, Event(h))
  PROVE  InStep(x)'
<1>0. <<h>> \in Seq({h}) /\ <<>> \in Seq({h})
  OBVIOUS
<1>1. <<h>> \in Seq({h}) /\ Event(h) \in Seq({h})
  BY <1>0, Zenon DEF Event
<1>2. Reported(x, <<h>>) /\ Reported(x, Event(h))
  BY OtherReported
<1> QED
  BY <1>1, <1>2, PublishedFollow

\* The writes of a user touch no device.
LEMMA UserWriteFollow ==
  ASSUME SyncTypes, Chain, NEW x \in Aspects, InStep(x), UserWrite
  PROVE  InStep(x)'
<1> SUFFICES ASSUME NEW u \in Users,
               \/ \E l \in BOOLEAN : SetUserLock(u, l)
               \/ \E m \in Mfas \cup {Unset} : SetUserMfa(u, m)
               \/ \E e \in BOOLEAN : SetEnforceMFA(u, e)
               \/ CreateUser(u) \/ DeleteUser(u) \/ DeleteDevices(u)
               \/ \E l \in Acls : SetUserGroupMembership(u, l)
             PROVE InStep(x)'
  BY DEF UserWrite, SyncTypes, EtcdOK
<1>1. ASSUME NEW id, NEW cur, NEW todo,
             \/ Publish("users", <<Handler("users", id, cur, Absent, todo)>>)
             \/ Publish("users", Event(Handler("users", id, cur, Absent, todo))),
             UNCHANGED device
      PROVE  InStep(x)'
  <2> DEFINE h == Handler("users", id, cur, Absent, todo)
  <2>1. h.topic = "users"
    BY HandlerFields
  <2>2. Publish("users", <<h>>) \/ Publish("users", Event(h))
    BY <1>1
  <2> HIDE DEF h
  <2> QED
    BY <1>1, <2>1, <2>2, OtherFollow
<1>2. ASSUME NEW l \in Acls, SetUserGroupMembership(u, l) PROVE InStep(x)'
  <2> DEFINE h == Handler("membership", u, Absent, Absent, <<"refreshUser">>)
  <2>1. Publish("membership", <<h>>) /\ UNCHANGED device
    BY <1>2 DEF SetUserGroupMembership
  <2>2. h.topic = "membership"
    BY HandlerFields
  <2> HIDE DEF h
  <2> QED
    BY <2>1, <2>2, OtherFollow
<1>3. ASSUME NEW new, NEW ends, WriteUser(u, new, ends) PROVE InStep(x)'
  BY <1>1, <1>3 DEF WriteUser
<1>4. CASE CreateUser(u)
  BY <1>1, <1>4 DEF CreateUser
<1>5. CASE DeleteUser(u)
  BY <1>1, <1>5 DEF DeleteUser
<1> QED
  BY <1>2, <1>3, <1>4, <1>5, DeleteDevicesFollow DEF SetUserLock, SetUserMfa, SetEnforceMFA

\* Nor do the writes of the configuration.
LEMMA ConfigWriteFollow ==
  ASSUME SyncTypes, Chain, NEW x \in Aspects, InStep(x), ConfigWrite
  PROVE  InStep(x)'
<1>1. ASSUME NEW new, SetAcl(new) PROVE InStep(x)'
  <2> DEFINE h == Handler("acls", Absent, Absent, Absent, <<"refresh">>)
  <2>1. Publish("acls", <<h>>) /\ UNCHANGED device
    BY <1>1 DEF SetAcl
  <2>2. h.topic = "acls"
    BY HandlerFields
  <2> HIDE DEF h
  <2> QED
    BY <2>1, <2>2, OtherFollow
<1>2. CASE SetSessionInactivityTimeout
  <2> DEFINE h == Handler("timeout", Absent, Absent, Absent, <<"setTimeout">>)
  <2>1. Publish("timeout", <<h>>) /\ UNCHANGED device
    BY <1>2 DEF SetSessionInactivityTimeout, etcd
  <2>2. h.topic = "timeout"
    BY HandlerFields
  <2> HIDE DEF h
  <2> QED
    BY <2>1, <2>2, OtherFollow
<1> QED
  BY <1>1, <1>2 DEF ConfigWrite

-----------------------------------------------------------------------------
(***************************************************************************)
(* The handlers.                                                           *)
(***************************************************************************)

\* A handler goes on or ends.
LEMMA ContinuedFollow ==
  ASSUME SyncTypes, Chain, NEW x \in Aspects, InStep(x),
         NEW i \in DOMAIN pool, NEW todo, Continue(i, todo),
         pool[i].topic = "devices" /\ todo # <<>> => ~Removes(pool[i]),
         Has(todo, "authorise") => Has(pool[i].todo, "authorise"),
         InOrder /\ Line /\ ~Overtakes(i) => Effects(x, i, todo)
  PROVE  InStep(x)'
<1>1. UNCHANGED <<device, missed>> /\ NoteOrder(i)
  BY DEF Continue, etcd
<1> SUFFICES ASSUME InOrder' PROVE Told(x)' /\ Done(x)'
  BY DEF InStep
<1>2. InOrder
  BY <1>1 DEF InOrder, NoteOrder
<1>3. Line /\ ~Overtakes(i)
  BY <1>1, <1>2, FirstOfLine DEF Chain, InOrder
<1>4. PICK old : Moves(i, todo, old)
  BY ContinueMoves
<1> QED
  BY <1>1, <1>2, <1>3, <1>4, MovedFollow DEF InStep

\* A call that ends the sessions of the addresses in S.
LEMMA EndedEntries ==
  ASSUME FirewallTypeOK, NEW S \in SUBSET Addresses, xdpDevices' = Deauthenticated(S),
         NEW b \in Addresses, Known(b)'
  PROVE  /\ Known(b) /\ xdpDevices'[b].user = xdpDevices[b].user
         /\ xdpDevices'[b].node = xdpDevices[b].node
         /\ IF b \in S THEN xdpDevices'[b].session = "none" ELSE xdpDevices'[b] = xdpDevices[b]
<1>1. xdpDevices'[b] = IF b \in S /\ Known(b) THEN [xdpDevices[b] EXCEPT !.session = "none"]
                       ELSE xdpDevices[b]
  BY DEF Deauthenticated
<1>2. Known(b)
  BY <1>1 DEF Known
<1>3. xdpDevices[b] \in FwEntry
  BY <1>2 DEF Known, FirewallTypeOK
<1> QED
  BY <1>1, <1>2, <1>3 DEF FwEntry

\* A call that brings idle sessions back.
LEMMA RevivedEntries ==
  ASSUME FirewallTypeOK, NEW S \in SUBSET Idle(Addresses),
         xdpDevices' = [a \in Addresses |->
                          IF a \in S THEN [xdpDevices[a] EXCEPT !.session = "live"]
                          ELSE xdpDevices[a]],
         NEW b \in Addresses, Known(b)'
  PROVE  /\ Known(b) /\ xdpDevices'[b].user = xdpDevices[b].user
         /\ xdpDevices'[b].node = xdpDevices[b].node
         /\ xdpDevices'[b].session # "none" => xdpDevices[b].session # "none"
<1>1. CASE b \in S
  <2>1. Known(b) /\ xdpDevices[b].session = "idle"
    BY <1>1 DEF Idle
  <2>2. xdpDevices[b] \in FwEntry
    BY <2>1 DEF Known, FirewallTypeOK
  <2>3. xdpDevices'[b] = [xdpDevices[b] EXCEPT !.session = "live"]
    BY <1>1
  <2> QED
    BY <2>1, <2>2, <2>3 DEF FwEntry
<1>2. CASE b \notin S
  BY <1>2 DEF Known
<1> QED
  BY <1>1, <1>2

\* A call of the handler of address a that touches no other entry.
LEMMA OneEffects ==
  ASSUME NEW x \in Aspects, NEW i \in DOMAIN pool, NEW todo, NEW a \in Addresses,
         pool[i].topic = "devices", pool[i].id = a, UNCHANGED accountLocked,
         \A b \in Addresses : b # a => xdpDevices'[b] = xdpDevices[b],
         Known(a)' /\ device[a] # Absent =>
           \/ Holds(x, a)'
           \/ Says(x, pool[i]) /\ (Agrees(x, pool[i].cur, device[a]) => Holds(x, a)')
           \/ /\ Known(a) /\ (Holds(x, a) => Holds(x, a)')
              /\ Renews(x, pool[i]) => \E call \in RenewedBy(x) : Has(todo, call),
         UNCHANGED device
  PROVE  Effects(x, i, todo)
<1>1. ASSUME NEW b \in Addresses, b # a, Known(b)'
      PROVE  Known(b) /\ (Holds(x, b) => Holds(x, b)') /\ ~Of(i, b)
  BY <1>1 DEF Known, Holds, Of
<1>2. Of(i, a)
  BY DEF Of
<1> QED
  BY <1>1, <1>2 DEF Effects

\* A call of another handler that leaves every entry as right as it was.
LEMMA OtherEffects ==
  ASSUME NEW x \in Aspects, NEW i \in DOMAIN pool, NEW todo, pool[i].topic # "devices",
         \A b \in Addresses :
           Known(b)' /\ device[b] # Absent => Known(b) /\ (Holds(x, b) => Holds(x, b)')
  PROVE  Effects(x, i, todo)
BY DEF Effects, Of

\* What is left of the calls after one that renews nothing.
LEMMA StillRenewed ==
  ASSUME NEW x \in Aspects, NEW h, h.todo \in Seq(ChangeCalls), h.todo # <<>>,
         Head(h.todo) \notin RenewedBy(x), Renews(x, h)
  PROVE  \E call \in RenewedBy(x) : Has(Tail(h.todo), call)
<1>1. PICK call \in RenewedBy(x) : Has(h.todo, call)
  BY ChangeCallsKeep DEF Renews
<1> QED
  BY <1>1, HasTail

\* The calls of a handler of a change.
LEMMA ChangeFollow ==
  ASSUME SyncTypes, Chain, NEW x \in Aspects, InStep(x), NEW i \in DOMAIN pool,
         Head(pool[i].todo) \in ChangeCalls, NEW todo,
         \/ todo = <<>> \/ todo = Tail(pool[i].todo)
         \/ \E call \in ChangeCalls \ PlaceCalls : todo = <<call>> \o Tail(pool[i].todo),
         Continue(i, todo), UNCHANGED accountLocked, NEW a \in Addresses, a = pool[i].id,
         \A b \in Addresses : b # a => xdpDevices'[b] = xdpDevices[b],
         Known(a)' /\ device[a] # Absent =>
           \/ Holds(x, a)'
           \/ Says(x, pool[i]) /\ (Agrees(x, pool[i].cur, device[a]) => Holds(x, a)')
           \/ /\ Known(a) /\ (Holds(x, a) => Holds(x, a)')
              /\ Renews(x, pool[i]) => \E call \in RenewedBy(x) : Has(todo, call)
  PROVE  InStep(x)'
<1>1. Changes(pool[i]) /\ pool[i].topic = "devices" /\ pool[i].todo \in Seq(ChangeCalls)
  BY DeviceCall DEF Changes
<1>2. pool[i].todo # <<>>
  BY DEF SyncTypes, HandlersOK, PoolOK, HandlerOK
<1>3. ~Removes(pool[i])
  BY <1>1, ChangeCallsKeep
<1>4. UNCHANGED device
  BY DEF Continue, etcd
<1>5. Effects(x, i, todo)
  BY <1>1, <1>4, OneEffects
<1>6. Has(Tail(pool[i].todo), "authorise") => Has(pool[i].todo, "authorise")
  BY <1>1, <1>2, HasTail
<1>7. Has(todo, "authorise") => Has(pool[i].todo, "authorise")
  <2>1. CASE todo = <<>>
    BY <2>1, HasNone
  <2>2. CASE todo = Tail(pool[i].todo)
    BY <1>6, <2>2
  <2>3. ASSUME NEW call \in ChangeCalls \ PlaceCalls, todo = <<call>> \o Tail(pool[i].todo)
        PROVE  Has(todo, "authorise") => Has(pool[i].todo, "authorise")
    <3>1. <<call>> \in Seq(ChangeCalls) /\ Tail(pool[i].todo) \in Seq(ChangeCalls)
      BY <1>1, <1>2
    <3>2. ~Has(<<call>>, "authorise")
      BY HasOne DEF PlaceCalls
    <3>3. \A s, t \in Seq(ChangeCalls) : \A c : Has(s \o t, c) <=> Has(s, c) \/ Has(t, c)
      BY HasConcat
    <3> QED
      BY <1>6, <2>3, <3>1, <3>2, <3>3, Zenon
  <2> QED
    BY <2>1, <2>2, <2>3
<1> QED
  BY <1>3, <1>5, <1>7, ContinuedFollow

\* A call that asks the device, looks at its session or names its new key.
LEMMA AskedFollow ==
  ASSUME SyncTypes, Chain, NEW x \in Aspects, InStep(x), NEW i \in DOMAIN pool,
         Head(pool[i].todo) \in ChangeCalls, NEW todo,
         \/ todo = Tail(pool[i].todo) /\ Head(pool[i].todo) \notin RenewedBy(x)
         \/ \E call \in ChangeCalls \ PlaceCalls :
              /\ todo = <<call>> \o Tail(pool[i].todo)
              /\ Head(pool[i].todo) \in RenewedBy(x) => call \in RenewedBy(x),
         Continue(i, todo), UNCHANGED <<accountLocked, xdpDevices>>
  PROVE  InStep(x)'
<1>1. pool[i].todo \in Seq(ChangeCalls) /\ pool[i].todo # <<>>
  BY DeviceCall DEF Changes, SyncTypes, HandlersOK, PoolOK, HandlerOK
<1>2. Renews(x, pool[i]) => \E call \in RenewedBy(x) : Has(todo, call)
  <2>1. CASE todo = Tail(pool[i].todo) /\ Head(pool[i].todo) \notin RenewedBy(x)
    BY <1>1, <2>1, StillRenewed
  <2>2. ASSUME NEW call \in ChangeCalls \ PlaceCalls, todo = <<call>> \o Tail(pool[i].todo),
               Head(pool[i].todo) \in RenewedBy(x) => call \in RenewedBy(x),
               Renews(x, pool[i])
        PROVE  \E c \in RenewedBy(x) : Has(todo, c)
    <3>1. <<call>> \in Seq(ChangeCalls) /\ Tail(pool[i].todo) \in Seq(ChangeCalls)
      BY <1>1
    <3>2. \A s, t \in Seq(ChangeCalls) : \A c : Has(s \o t, c) <=> Has(s, c) \/ Has(t, c)
      BY HasConcat
    <3>3. \A c : Has(todo, c) <=> c = call \/ Has(Tail(pool[i].todo), c)
      <4>1. \A c : Has(<<call>> \o Tail(pool[i].todo), c)
                     <=> Has(<<call>>, c) \/ Has(Tail(pool[i].todo), c)
        BY <3>1, <3>2, Zenon
      <4>2. \A c : Has(<<call>>, c) <=> c = call
        BY HasOne, Zenon
      <4> QED
        BY <2>2, <4>1, <4>2, Zenon
    <3> QED
      BY <1>1, <2>2, <3>3, StillRenewed
  <2> QED
    BY <2>1, <2>2
<1>3. UNCHANGED device
  BY DEF Continue, etcd
<1>4. \A a \in Addresses : Known(a)' => Known(a) /\ (Holds(x, a) => Holds(x, a)')
  BY <1>3 DEF Known, Holds
<1>5. PICK a \in Addresses : a = pool[i].id
  BY DeviceCall
<1> QED
  BY <1>2, <1>4, <1>5, ChangeFollow

\* The calls that bring a device and take it away.
LEMMA PeerFollow ==
  ASSUME SyncTypes, Chain, NEW x \in Aspects, InStep(x), NEW i \in DOMAIN pool,
         HandleAddPeer(i) \/ HandleRemovePeer(i)
  PROVE  InStep(x)'
<1> USE DEF Calls
<1>0. xdpDevices \in [Addresses -> FwEntry \cup {Absent}]
  BY DEF SyncTypes, RouterOK, FirewallTypeOK
<1>1. Head(pool[i].todo) \in {"addPeer", "removePeer"}
  BY DEF HandleAddPeer, HandleRemovePeer
<1>2. pool[i].id \in Addresses /\ pool[i].topic = "devices"
  BY <1>1, DeviceCall
<1>3. PICK a \in Addresses : a = pool[i].id
  BY <1>2
<1>4. ~Has(<<>>, "authorise")
  BY HasNone
<1>5. CASE HandleAddPeer(i)
  <2>1. /\ Head(pool[i].todo) = "addPeer" /\ (Proceed(i) \/ Fail(i))
        /\ AddPeer(pool[i].cur.key, pool[i].cur.owner, a, pool[i].cur.node)
    BY <1>3, <1>5 DEF HandleAddPeer, ProceedIf
  <2>2. Creates(pool[i])
    BY <2>1, DeviceCall
  <2>3. Tail(pool[i].todo) = <<>>
    BY <2>2, HeadTail, Zenon DEF Creates
  <2>4. Continue(i, <<>>)
    BY <2>1, <2>3 DEF Proceed, Fail
  <2>5. ~Removes(pool[i])
    <3>1. <<"addPeer">> # <<"removePeer">>
      OBVIOUS
    <3> QED
      BY <2>2, <3>1 DEF Creates, Removes
  <2>6. UNCHANGED <<device, accountLocked>>
    BY <2>1, <2>4 DEF Continue, etcd, AddPeer, firewall
  <2>7. ASSUME Line, ~Overtakes(i) PROVE Effects(x, i, <<>>)
    <3>1. CASE CanAddPeer(pool[i].cur.owner, a)
      <4>1. PICK e : /\ xdpDevices' = [xdpDevices EXCEPT ![a] = e]
                     /\ e = [user |-> pool[i].cur.owner, session |-> "none",
                             node |-> pool[i].cur.node]
        BY <2>1, <3>1 DEF AddPeer
      <4>2. /\ xdpDevices'[a] = e /\ e.session = "none" /\ e.node = pool[i].cur.node
            /\ \A b \in Addresses : b # a => xdpDevices'[b] = xdpDevices[b]
        BY <1>0, <4>1
      <4>3. x # "node" => Holds(x, a)'
        BY <4>2 DEF Holds, Aspects
      <4>4. x = "node" =>
              Says(x, pool[i]) /\ (Agrees(x, pool[i].cur, device[a]) => Holds(x, a)')
        BY <2>5, <2>6, <4>2 DEF Holds, Says, Agrees
      <4> QED
        BY <1>2, <1>3, <2>6, <4>2, <4>3, <4>4, OneEffects
    <3>2. CASE ~CanAddPeer(pool[i].cur.owner, a)
      <4>1. UNCHANGED xdpDevices
        BY <2>1, <3>2 DEF AddPeer, firewall
      <4>2. ~Known(a)
        BY <1>2, <1>3, <2>2, <2>7, FirstFirst DEF Line, Entered, Of, SyncTypes, HandlersOK, PoolOK
      <4>3. ~Known(a)'
        BY <4>1, <4>2 DEF Known
      <4> QED
        BY <1>2, <1>3, <2>6, <4>1, <4>3, OneEffects
    <3> QED
      BY <3>1, <3>2
  <2> QED
    BY <1>4, <2>4, <2>7, ContinuedFollow
<1>6. CASE HandleRemovePeer(i)
  <2>1. /\ Head(pool[i].todo) = "removePeer" /\ Proceed(i)
        /\ RemovePeer(pool[i].cur.key, a)
    BY <1>3, <1>6 DEF HandleRemovePeer
  <2>2. Removes(pool[i])
    BY <2>1, DeviceCall
  <2>3. Tail(pool[i].todo) = <<>>
    BY <2>2, HeadTail, Zenon DEF Removes
  <2>4. Continue(i, <<>>)
    BY <2>1, <2>3 DEF Proceed
  <2>5. UNCHANGED <<device, accountLocked>> /\ xdpDevices' = [xdpDevices EXCEPT ![a] = Absent]
    BY <2>1, <2>4 DEF Continue, etcd, RemovePeer
  <2>6. ~Known(a)' /\ \A b \in Addresses : b # a => xdpDevices'[b] = xdpDevices[b]
    BY <1>0, <2>5 DEF Known
  <2>7. Effects(x, i, <<>>)
    BY <1>2, <1>3, <2>5, <2>6, OneEffects
  <2> QED
    BY <1>4, <2>4, <2>7, ContinuedFollow
<1> QED
  BY <1>5, <1>6

\* After a crash there are neither handlers nor entries.
LEMMA CrashFollow ==
  ASSUME NEW x \in Aspects, Crash
  PROVE  InStep(x)'
<1>1. pool' = <<>>
  BY DEF Crash
<1>2. \A a \in Addresses : ~Known(a)'
  BY DEF Crash, Setup, SetupXDP, NoAddresses, Known
<1> QED
  BY <1>1, <1>2, NoFollow DEF InStep

\* A call that ends the session of the device.
LEMMA EndFollow ==
  ASSUME SyncTypes, Chain, NEW x \in Aspects, InStep(x), NEW i \in DOMAIN pool,
         Head(pool[i].todo) \in {"verify", "deauthenticate"},
         Deauthenticate(pool[i].id), ProceedIf(i, Known(pool[i].id))
  PROVE  InStep(x)'
<1>0. FirewallTypeOK
  BY DEF SyncTypes, RouterOK
<1>1. Head(pool[i].todo) \in ChangeCalls /\ "associate" # Head(pool[i].todo)
  BY DEF ChangeCalls
<1>2. PICK a \in Addresses : a = pool[i].id
  BY <1>1, DeviceCall
<1>3. pool[i].todo \in Seq(ChangeCalls) /\ pool[i].todo # <<>>
  BY <1>1, DeviceCall DEF Changes, SyncTypes, HandlersOK, PoolOK, HandlerOK
<1>4. PICK todo : /\ Continue(i, todo)
                  /\ todo = IF Known(a) THEN Tail(pool[i].todo) ELSE <<>>
  BY <1>2 DEF ProceedIf, Proceed, Fail
<1>5. UNCHANGED <<device, accountLocked>> /\ xdpDevices' = Deauthenticated({a})
  BY <1>2, <1>4 DEF Continue, etcd, Deauthenticate
<1>6. {a} \in SUBSET Addresses
  OBVIOUS
<1>7. \A b \in Addresses : b # a => xdpDevices'[b] = xdpDevices[b]
  BY <1>5 DEF Deauthenticated
<1>8. Known(a)' => /\ Known(a) /\ xdpDevices'[a].session = "none"
                   /\ xdpDevices'[a].node = xdpDevices[a].node
  BY <1>0, <1>5, <1>6, EndedEntries
<1>9. Known(a)' /\ x # "node" => Holds(x, a)'
  BY <1>8 DEF Holds
<1>10. Known(a)' /\ x = "node" =>
         /\ Known(a) /\ (Holds(x, a) => Holds(x, a)')
         /\ Renews(x, pool[i]) => \E call \in RenewedBy(x) : Has(todo, call)
  BY <1>1, <1>3, <1>4, <1>5, <1>8, StillRenewed DEF Holds, RenewedBy
<1> QED
  BY <1>1, <1>2, <1>4, <1>5, <1>7, <1>9, <1>10, ChangeFollow

\* The calls of a handler of a change.
LEMMA HandleChangeFollow ==
  ASSUME SyncTypes, Chain, NEW x \in Aspects, InStep(x), NEW i \in DOMAIN pool,
         \/ HandleReplacePeer(i) \/ HandleChallenge(i) \/ HandleVerify(i)
         \/ HandleCheckLockout(i) \/ HandleDeauthenticate(i) \/ HandleAssociate(i)
         \/ HandleAuthorise(i)
  PROVE  InStep(x)'
<1> USE DEF Calls
<1>0. xdpDevices \in [Addresses -> FwEntry \cup {Absent}]
  BY DEF SyncTypes, RouterOK, FirewallTypeOK
<1>1. CASE HandleReplacePeer(i)
  <2>1. CASE Crash
    BY <2>1, CrashFollow
  <2>2. CASE ~Crash
    <3>1. /\ Head(pool[i].todo) = "replacePeer" /\ Proceed(i)
          /\ UNCHANGED <<xdpDevices, accountLocked>>
      BY <1>1, <2>2 DEF HandleReplacePeer, ReplacePeer
    <3> QED
      BY <3>1, AskedFollow DEF ChangeCalls, RenewedBy, Proceed
  <2> QED
    BY <2>1, <2>2
<1>2. CASE HandleChallenge(i)
  <2>1. PICK todo :
          /\ Continue(i, todo) /\ UNCHANGED <<xdpDevices, accountLocked>>
          /\ todo = <<"verify">> \o Tail(pool[i].todo) \/ todo = Tail(pool[i].todo)
    BY <1>2 DEF HandleChallenge, firewall
  <2>2. Head(pool[i].todo) = "challenge"
    BY <1>2 DEF HandleChallenge
  <2> QED
    BY <2>1, <2>2, AskedFollow DEF ChangeCalls, PlaceCalls, RenewedBy
<1>3. CASE HandleVerify(i)
  <2>1. Head(pool[i].todo) = "verify"
    BY <1>3 DEF HandleVerify
  <2>2. CASE Proceed(i) /\ UNCHANGED firewall
    BY <2>1, <2>2, AskedFollow DEF ChangeCalls, RenewedBy, Proceed, firewall
  <2> QED
    BY <1>3, <2>1, <2>2, EndFollow DEF HandleVerify
<1>4. CASE HandleCheckLockout(i)
  <2>1. /\ Head(pool[i].todo) = "checkLockout" /\ UNCHANGED <<xdpDevices, accountLocked>>
        /\ Continue(i, IF IsAuthed(pool[i].id)
                       THEN <<"deauthenticate">> \o Tail(pool[i].todo) ELSE Tail(pool[i].todo))
    BY <1>4 DEF HandleCheckLockout, firewall
  <2>2. CASE IsAuthed(pool[i].id)
    BY <2>1, <2>2, AskedFollow DEF ChangeCalls, PlaceCalls, RenewedBy
  <2>3. CASE ~IsAuthed(pool[i].id) /\ x # "lockout"
    BY <2>1, <2>3, AskedFollow DEF ChangeCalls, RenewedBy, Aspects
  <2>4. CASE ~IsAuthed(pool[i].id) /\ x = "lockout"
    <3>1. PICK a \in Addresses : a = pool[i].id
      BY <2>1, DeviceCall DEF ChangeCalls
    <3>2. Known(a)' => Holds(x, a)'
      BY <2>1, <2>4, <3>1 DEF Holds, IsAuthed, Known
    <3> QED
      BY <2>1, <2>4, <3>1, <3>2, ChangeFollow DEF ChangeCalls
  <2> QED
    BY <2>2, <2>3, <2>4
<1>5. CASE HandleDeauthenticate(i)
  BY <1>5, EndFollow DEF HandleDeauthenticate
<1>6. CASE HandleAssociate(i)
  <2>1. /\ Head(pool[i].todo) = "associate" /\ ProceedIf(i, Known(pool[i].id))
        /\ UpdateNodeAssociation(pool[i].id, pool[i].cur.node)
    BY <1>6 DEF HandleAssociate
  <2>2. PICK a \in Addresses : a = pool[i].id
    BY <2>1, DeviceCall DEF ChangeCalls
  <2>3. pool[i].todo \in Seq(ChangeCalls) /\ pool[i].todo # <<>>
    BY <2>1, DeviceCall DEF ChangeCalls, Changes, SyncTypes, HandlersOK, PoolOK, HandlerOK
  <2>4. PICK todo : /\ Continue(i, todo)
                    /\ todo = IF Known(a) THEN Tail(pool[i].todo) ELSE <<>>
    BY <2>1, <2>2 DEF ProceedIf, Proceed, Fail
  <2>5. /\ UNCHANGED <<device, accountLocked>>
        /\ xdpDevices' = IF Known(a) THEN [xdpDevices EXCEPT ![a].node = pool[i].cur.node]
                         ELSE xdpDevices
    BY <2>1, <2>2, <2>4 DEF Continue, etcd, UpdateNodeAssociation
  <2>6. \A b \in Addresses : b # a => xdpDevices'[b] = xdpDevices[b]
    BY <1>0, <2>5
  <2>7. Known(a)' =>
          /\ Known(a) /\ xdpDevices'[a].node = pool[i].cur.node
          /\ xdpDevices'[a].session = xdpDevices[a].session
          /\ xdpDevices'[a].user = xdpDevices[a].user
    BY <1>0, <2>5 DEF Known, FwEntry
  <2>8. ~Removes(pool[i])
    BY <2>3, ChangeCallsKeep
  <2>9. x = "node" /\ Known(a)' =>
          Says(x, pool[i]) /\ (Agrees(x, pool[i].cur, device[a]) => Holds(x, a)')
    BY <2>5, <2>7, <2>8 DEF Says, Agrees, Holds
  <2>10. x # "node" /\ Known(a)' =>
           /\ Known(a) /\ (Holds(x, a) => Holds(x, a)')
           /\ Renews(x, pool[i]) => \E call \in RenewedBy(x) : Has(todo, call)
    <3>1. x # "node" => Head(pool[i].todo) \notin RenewedBy(x)
      BY <2>1 DEF RenewedBy
    <3>2. x # "node" /\ Known(a)' => (Holds(x, a) => Holds(x, a)')
      BY <2>5, <2>7 DEF Holds
    <3> QED
      BY <2>3, <2>4, <2>7, <3>1, <3>2, StillRenewed
  <2> QED
    BY <2>1, <2>2, <2>4, <2>5, <2>6, <2>9, <2>10, ChangeFollow DEF ChangeCalls
<1>7. CASE HandleAuthorise(i)
  <2>1. /\ Head(pool[i].todo) = "authorise" /\ Proceed(i)
        /\ SetAuthorized(pool[i].id, pool[i].cur.owner, pool[i].cur.node)
    BY <1>7 DEF HandleAuthorise
  <2>2. PICK a \in Addresses : a = pool[i].id
    BY <2>1, DeviceCall DEF ChangeCalls
  <2>3. pool[i].todo \in Seq(ChangeCalls) /\ pool[i].todo # <<>>
    BY <2>1, DeviceCall DEF ChangeCalls, Changes, SyncTypes, HandlersOK, PoolOK, HandlerOK
  <2>4. PICK e : /\ e = [user |-> pool[i].cur.owner, session |-> "live", node |-> pool[i].cur.node]
                 /\ xdpDevices' = IF Known(a) THEN [xdpDevices EXCEPT ![a] = e] ELSE xdpDevices
    BY <2>1, <2>2 DEF SetAuthorized
  <2>5. UNCHANGED <<device, accountLocked>>
    BY <2>1 DEF Proceed, Continue, etcd, SetAuthorized
  <2>6. \A b \in Addresses : b # a => xdpDevices'[b] = xdpDevices[b]
    BY <1>0, <2>4
  <2>7. Known(a)' => xdpDevices'[a].node = pool[i].cur.node
    BY <1>0, <2>4 DEF Known
  <2>8. ~Removes(pool[i]) /\ Has(pool[i].todo, "authorise")
    BY <2>1, <2>3, ChangeCallsKeep, HasTail
  <2>9. Known(a)' => Says(x, pool[i]) /\ (Agrees(x, pool[i].cur, device[a]) => Holds(x, a)')
    BY <2>5, <2>7, <2>8 DEF Says, Agrees, Holds
  <2> QED
    BY <2>1, <2>2, <2>5, <2>6, <2>9, ChangeFollow DEF ChangeCalls, Proceed
<1> QED
  BY <1>1, <1>2, <1>3, <1>4, <1>5, <1>6, <1>7

\* The calls for a user and for the configuration.
LEMMA HandleUserFollow ==
  ASSUME SyncTypes, Chain, InOrder => IInv, Mild, NEW x \in Aspects, x = "lockout" => Apart,
         InStep(x), NEW i \in DOMAIN pool,
         \/ HandleReadAcl(i) \/ HandleAddUser(i) \/ HandleRemoveUser(i)
         \/ HandleLock(i) \/ HandleDeauthenticateAll(i)
         \/ HandleRefreshUser(i) \/ HandleRefresh(i) \/ HandleSetTimeout(i)
  PROVE  InStep(x)'
<1> USE DEF Calls
<1>0. FirewallTypeOK
  BY DEF SyncTypes, RouterOK
<1>1. HandlerOK(pool[i]) /\ pool[i] \in HandlerRecord /\ pool[i].todo # <<>>
  BY DEF SyncTypes, HandlersOK, PoolOK, HandlerOK
<1>2. /\ pool[i].topic # "devices"
      /\ Head(pool[i].todo) = "refresh" => pool[i].topic = "acls"
      /\ Head(pool[i].todo) = "setTimeout" => pool[i].topic = "timeout"
  <2>1. Head(pool[i].todo) \in {"readAcl", "addUser", "removeUser", "lock",
             "deauthenticateAll", "refreshUser", "refresh", "setTimeout"}
    BY DEF HandleReadAcl, HandleAddUser, HandleRemoveUser,
       HandleLock, HandleDeauthenticateAll, HandleRefreshUser, HandleRefresh, HandleSetTimeout
  <2>2. \A s \in Seq(ChangeCalls) : s # <<>> => Head(s) \in ChangeCalls
    OBVIOUS
  <2>3. pool[i].topic # "devices"
    BY <1>1, <2>1, <2>2 DEF HandlerOK, Creates, Removes, Changes, ChangeCalls
  <2>4. \A s \in Seq({"lock", "deauthenticateAll"}) :
          s # <<>> => Head(s) \in {"lock", "deauthenticateAll"}
    OBVIOUS
  <2>5. pool[i].topic = "users" => Head(pool[i].todo) \notin {"refresh", "setTimeout"}
    BY <1>1, <2>4, HeadTail DEF HandlerOK
  <2> QED
    BY <1>1, <2>3, <2>5 DEF HandlerOK, HandlerRecord
<1>3. ASSUME Proceed(i), UNCHANGED device,
             InOrder => \A b \in Addresses :
               Known(b)' /\ device[b] # Absent => Known(b) /\ (Holds(x, b) => Holds(x, b)')
      PROVE  InStep(x)'
  <2>1. PICK todo : todo = Tail(pool[i].todo)
    OBVIOUS
  <2>2. InOrder => Effects(x, i, todo)
    BY <1>2, <1>3, OtherEffects
  <2>3. Has(todo, "authorise") => Has(pool[i].todo, "authorise")
    BY <1>1, <2>1, HasTail DEF HandlerRecord
  <2> QED
    BY <1>2, <1>3, <2>1, <2>2, <2>3, ContinuedFollow DEF Proceed
<1>4. Proceed(i) => UNCHANGED device
  BY DEF Proceed, Continue, etcd
<1>5. CASE HandleReadAcl(i)
  <2>1. /\ NoteOrder(i) /\ UNCHANGED <<xdpDevices, accountLocked, device, missed>>
        /\ pool' = [pool EXCEPT ![i].acl = acl[pool[i].id], ![i].todo = Tail(pool[i].todo),
                                ![i].started = TRUE]
        /\ Head(pool[i].todo) = "readAcl"
    BY <1>5 DEF HandleReadAcl, firewall, etcd
  <2>2. pool \in Seq(HandlerRecord)
    BY DEF SyncTypes, HandlersOK, PoolOK
  <2>3. PICK l : l = acl[pool[i].id]
    OBVIOUS
  <2>4. PICK s : s = <<"addUser">> /\ s = Tail(pool[i].todo)
    BY <2>1, UserCall
  <2>5. PICK n : n = [pool[i] EXCEPT !.acl = l, !.todo = s, !.started = TRUE]
    OBVIOUS
  <2>6. pool' = [pool EXCEPT ![i] = n]
    BY <2>1, <2>2, <2>3, <2>4, <2>5
  <2>7. n.topic = pool[i].topic /\ n.id = pool[i].id /\ n.cur = pool[i].cur /\ n.todo = s
    BY <1>1, <2>5 DEF HandlerRecord
  <2> SUFFICES ASSUME InOrder' PROVE Told(x)' /\ Done(x)'
    BY DEF InStep
  <2>8. InOrder
    BY <2>1 DEF InOrder, NoteOrder
  <2>9. Line /\ ~Overtakes(i)
    BY <2>1, <2>8, FirstOfLine DEF Chain, InOrder
  <2>10. s # <<>>
    BY <2>4
  <2>11. PICK old : Moves(i, s, old)
    BY <2>6, <2>7, <2>10, MovesOn
  <2>12. \A b \in Addresses : Known(b)' => Known(b) /\ (Holds(x, b) => Holds(x, b)')
    BY <2>1 DEF Known, Holds
  <2>13. Effects(x, i, s)
    BY <1>2, <2>12, OtherEffects
  <2>14. ~Has(s, "authorise")
    BY <2>4, HasOne
  <2> QED
    BY <1>2, <2>1, <2>8, <2>9, <2>11, <2>13, <2>14, MovedFollow DEF InStep
<1>6. CASE HandleAddUser(i)
  <2>1. AddUser(pool[i].id, pool[i].acl) /\ Proceed(i)
    BY <1>6 DEF HandleAddUser
  <2>2. PICK u \in Users : u = pool[i].id
    BY <1>6, UserCall DEF HandleAddUser
  <2>3. CASE accountLocked[u] # Absent
    BY <1>3, <1>4, <2>1, <2>2, <2>3 DEF AddUser, firewall, Known, Holds
  <2>4. CASE accountLocked[u] = Absent
    <3>1. UNCHANGED xdpDevices /\ accountLocked' = [accountLocked EXCEPT ![u] = FALSE]
      BY <2>1, <2>2, <2>4 DEF AddUser
    <3>2. ASSUME InOrder, NEW b \in Addresses, Known(b)'
          PROVE  Known(b) /\ (Holds(x, b) => Holds(x, b)')
      <4>1. Known(b)
        BY <3>1, <3>2 DEF Known
      <4>2. xdpDevices[b].user # u
        BY <2>4, <3>2, <4>1 DEF IInv, EntriesOwned
      <4>3. accountLocked'[xdpDevices[b].user] = accountLocked[xdpDevices[b].user]
        BY <1>0, <3>1, <4>1, <4>2, EntryLemma DEF FirewallTypeOK
      <4> QED
        BY <1>4, <2>1, <3>1, <4>1, <4>3 DEF Holds
    <3> QED
      BY <1>3, <1>4, <2>1, <3>2
  <2> QED
    BY <2>3, <2>4
<1>7. CASE HandleRemoveUser(i)
  <2>1. RemoveUser(pool[i].id) /\ Proceed(i)
    BY <1>7 DEF HandleRemoveUser
  <2>2. PICK u \in Users : u = pool[i].id
    BY <1>7, UserCall DEF HandleRemoveUser
  <2>3. \A b \in Addresses : xdpDevices'[b] = Absent \/ xdpDevices'[b] = xdpDevices[b]
    BY <2>1 DEF RemoveUser, firewall
  <2>4. \A w \in Users : accountLocked'[w] = accountLocked[w] \/ accountLocked'[w] = Absent
    BY <1>0, <2>1 DEF RemoveUser, firewall, FirewallTypeOK
  <2>5. Absent # FALSE
    BY FirewallSentinels
  <2>6. ASSUME NEW b \in Addresses, Known(b)'
        PROVE  Known(b) /\ (Holds(x, b) => Holds(x, b)')
    <3>1. Known(b) /\ xdpDevices'[b] = xdpDevices[b]
      BY <2>3, <2>6 DEF Known
    <3>2. xdpDevices[b].user \in Users
      BY <1>0, <3>1, EntryLemma
    <3> QED
      BY <1>4, <2>1, <2>4, <2>5, <3>1, <3>2 DEF Holds
  <2> QED
    BY <1>3, <1>4, <2>1, <2>6
<1>8. CASE HandleLock(i)
  <2>1. SetLockAccount(pool[i].id, pool[i].cur.locked) /\ Proceed(i)
    BY <1>8 DEF HandleLock
  <2>2. PICK u \in Users : u = pool[i].id
    BY <1>8, UserCall DEF HandleLock
  <2>3. PICK l : l = pool[i].cur.locked
    OBVIOUS
  <2>4. /\ xdpDevices' = Deauthenticated(Tracked(u))
        /\ accountLocked' = [accountLocked EXCEPT ![u] = l]
    BY <2>1, <2>2, <2>3 DEF SetLockAccount
  <2>5. Tracked(u) \in SUBSET Addresses
    BY DEF Tracked
  <2>6. ASSUME InOrder, NEW b \in Addresses, Known(b)'
        PROVE  Known(b) /\ (Holds(x, b) => Holds(x, b)')
    <3>1. /\ Known(b) /\ xdpDevices'[b].user = xdpDevices[b].user
          /\ xdpDevices'[b].node = xdpDevices[b].node
          /\ IF b \in Tracked(u) THEN xdpDevices'[b].session = "none"
             ELSE xdpDevices'[b] = xdpDevices[b]
      BY <1>0, <2>4, <2>5, <2>6, EndedEntries
    <3>2. b \in Tracked(xdpDevices[b].user)
      BY <2>6, <3>1 DEF IInv, EntriesTracked
    <3>3. xdpDevices[b].user # u =>
            accountLocked'[xdpDevices[b].user] = accountLocked[xdpDevices[b].user]
      BY <1>0, <2>4, <3>1, EntryLemma DEF FirewallTypeOK
    <3> QED
      BY <1>4, <2>1, <3>1, <3>2, <3>3 DEF Holds
  <2> QED
    BY <1>3, <1>4, <2>1, <2>6
<1>9. CASE HandleDeauthenticateAll(i)
  <2>1. PICK S \in SUBSET Tracked(pool[i].id) : xdpDevices' = Deauthenticated(S)
    BY <1>9 DEF HandleDeauthenticateAll, DeauthenticateAllDevices
  <2>2. UNCHANGED accountLocked /\ Proceed(i)
    BY <1>9 DEF HandleDeauthenticateAll, DeauthenticateAllDevices
  <2>3. S \in SUBSET Addresses
    BY DEF Tracked
  <2>4. \A b \in Addresses : Known(b)' =>
          /\ Known(b) /\ xdpDevices'[b].user = xdpDevices[b].user
          /\ xdpDevices'[b].node = xdpDevices[b].node
          /\ xdpDevices'[b].session = "none" \/ xdpDevices'[b] = xdpDevices[b]
    BY <1>0, <2>1, <2>3, EndedEntries
  <2>5. \A b \in Addresses : Known(b)' => Known(b) /\ (Holds(x, b) => Holds(x, b)')
    BY <1>4, <2>2, <2>4 DEF Holds
  <2> QED
    BY <1>3, <1>4, <2>2, <2>5
<1>10. CASE HandleRefreshUser(i)
  BY <1>3, <1>4, <1>10 DEF HandleRefreshUser, RefreshUserAcls, Known, Holds
<1>11. ASSUME NEW S \in SUBSET Idle(Addresses), Proceed(i),
              xdpDevices' = [a \in Addresses |->
                               IF a \in S THEN [xdpDevices[a] EXCEPT !.session = "live"]
                               ELSE xdpDevices[a]],
              Head(pool[i].todo) \in {"refresh", "setTimeout"}
       PROVE  InStep(x)'
  <2>1. ASSUME NEW b \in Addresses, Known(b)', device[b] # Absent
        PROVE  Known(b) /\ (Holds(x, b) => Holds(x, b)')
    <3>1. /\ Known(b) /\ xdpDevices'[b].node = xdpDevices[b].node
          /\ xdpDevices'[b].session # "none" => xdpDevices[b].session # "none"
      BY <1>0, <1>11, <2>1, RevivedEntries
    <3>2. CASE x # "lockout"
      BY <1>4, <1>11, <3>1, <3>2 DEF Holds, Aspects
    <3>3. CASE x = "lockout"
      <4>1. device[b].attempts <= Lockout
        BY <1>2, <1>11, <2>1, <3>3 DEF Mild, Apart
      <4> QED
        BY <1>4, <1>11, <3>1, <3>3, <4>1 DEF Holds
    <3> QED
      BY <3>2, <3>3
  <2> QED
    BY <1>3, <1>4, <1>11, <2>1
<1>12. CASE HandleRefresh(i)
  <2>1. PICK S \in SUBSET Idle(Addresses) : RefreshConfiguration(user, acl, S)
    BY <1>12 DEF HandleRefresh
  <2> QED
    BY <1>11, <1>12, <2>1 DEF HandleRefresh, RefreshConfiguration
<1>13. CASE HandleSetTimeout(i)
  <2>1. PICK S \in SUBSET Idle(Addresses) : SetInactivityTimeout(S)
    BY <1>13 DEF HandleSetTimeout
  <2> QED
    BY <1>11, <1>13, <2>1 DEF HandleSetTimeout, SetInactivityTimeout
<1> QED
  BY <1>5, <1>6, <1>7, <1>8, <1>9, <1>10, <1>12, <1>13

\* The router starts, listens, ends, and time passes.
LEMMA LifecycleFollow ==
  ASSUME SyncTypes, Chain, NEW x \in Aspects, InStep(x), Lifecycle
  PROVE  InStep(x)'
<1>0. xdpDevices \in [Addresses -> FwEntry \cup {Absent}]
  BY DEF SyncTypes, RouterOK, FirewallTypeOK
<1>1. ASSUME UNCHANGED <<pool, device, order, missed>>,
             \A b \in Addresses : Known(b)' => Known(b) /\ (Holds(x, b) => Holds(x, b)')
      PROVE  InStep(x)'
  <2>1. InOrder' => Told(x) /\ Done(x)
    BY <1>1 DEF InStep, InOrder
  <2>2. Told(x) /\ Done(x) => Told(x)' /\ Done(x)'
    BY <1>1, StillFollow
  <2> QED
    BY <2>1, <2>2 DEF InStep
<1>2. UNCHANGED <<firewall, pool, device, order, missed>> => InStep(x)'
  BY <1>1 DEF Known, Holds, firewall
<1>3. CASE GetInitialData \/ RegisterEventListener
  BY <1>2, <1>3 DEF GetInitialData, RegisterEventListener, etcd
<1>4. CASE SetupRouter
  <2>1. CASE Crash
    BY <2>1, CrashFollow
  <2>2. CASE ~Crash
    <3>1. /\ phase = "read" /\ Setup(snapshot.users, snapshot.devices, acl)
          /\ UNCHANGED <<device, pool, order, missed>>
      BY <1>4, <2>2 DEF SetupRouter, etcd
    <3>2. DOMAIN pool' = {}
      BY <3>1 DEF SyncTypes, RouterOK
    <3> SUFFICES ASSUME InOrder' PROVE Told(x)' /\ Done(x)'
      BY DEF InStep
    <3>3. snapshot.devices = device
      BY <3>1 DEF Chain, Current, InOrder
    <3>4. \A a \in Addresses :
            xdpDevices'[a] = IF device[a] = Absent THEN Absent
                             ELSE [user |-> device[a].owner, session |-> "none",
                                   node |-> device[a].node]
      BY <3>1, <3>3 DEF Setup, SetupXDP
    <3>5. ASSUME NEW a \in Addresses, device[a] # Absent PROVE Holds(x, a)'
      <4>1. xdpDevices'[a] = [user |-> device[a].owner, session |-> "none",
                              node |-> device[a].node]
        BY <3>4, <3>5
      <4>2. xdpDevices'[a].session = "none" /\ xdpDevices'[a].node = device[a].node
        BY <4>1
      <4> QED
        BY <3>1, <4>2 DEF Holds
    <3>6. Done(x)'
      BY <3>1, <3>5 DEF Done
    <3> QED
      BY <3>2, <3>6 DEF Told
  <2> QED
    BY <2>1, <2>2
<1>5. CASE Restart
  BY <1>5, CrashFollow DEF Restart
<1>6. ASSUME NEW a \in Addresses, NEW to \in SessionStates, SessionLapse(a, to)
      PROVE  InStep(x)'
  <2>1. Lapse(a, to) /\ UNCHANGED <<device, pool, order, missed, accountLocked>>
    BY <1>6 DEF SessionLapse, Lapse, etcd
  <2>2. /\ Known(a) /\ xdpDevices' = [xdpDevices EXCEPT ![a].session = to]
        /\ to # "live" /\ (to # "none" => xdpDevices[a].session # "none")
    BY <2>1 DEF Lapse
  <2>3. \A b \in Addresses : b # a => xdpDevices'[b] = xdpDevices[b]
    BY <1>0, <2>2
  <2>4. /\ xdpDevices'[a].session = to /\ xdpDevices'[a].node = xdpDevices[a].node
    BY <1>0, <2>2 DEF Known, FwEntry
  <2>5. Holds(x, a) => Holds(x, a)'
    BY <2>1, <2>2, <2>4 DEF Holds
  <2>6. \A b \in Addresses : Known(b)' => Known(b) /\ (Holds(x, b) => Holds(x, b)')
    BY <2>1, <2>2, <2>3, <2>5 DEF Known, Holds
  <2> QED
    BY <1>1, <2>1, <2>6
<1> QED
  BY <1>3, <1>4, <1>5, <1>6 DEF Lifecycle

\* A router that has just been set up.
LEMMA InitFollow == ASSUME Init, NEW x \in Aspects PROVE InStep(x)
<1>1. pool = <<>> /\ xdpDevices = SetupXDP(user, device, acl).xdpDevices
  BY DEF Init, SetUp
<1>2. DOMAIN pool = {}
  BY <1>1
<1>3. \A a \in Addresses :
        xdpDevices[a] = IF device[a] = Absent THEN Absent
                        ELSE [user |-> device[a].owner, session |-> "none", node |-> device[a].node]
  BY <1>1 DEF SetupXDP
<1>4. ASSUME NEW a \in Addresses, device[a] # Absent PROVE Holds(x, a)
  <2>1. xdpDevices[a] = [user |-> device[a].owner, session |-> "none", node |-> device[a].node]
    BY <1>3, <1>4
  <2>2. xdpDevices[a].session = "none" /\ xdpDevices[a].node = device[a].node
    BY <2>1
  <2> QED
    BY <2>2 DEF Holds
<1> QED
  BY <1>2, <1>4 DEF InStep, Told, Done

-----------------------------------------------------------------------------
(***************************************************************************)
(* What a behaviour writes.                                                *)
(***************************************************************************)

\* A device that is not locked out.
Low(d) == d # Absent => d.attempts <= Lockout

\* Events are delivered.
LEMMA PublishedMild ==
  ASSUME SyncTypes, Mild, NEW topic, NEW R, NEW hs \in Seq(R),
         \A n \in DOMAIN hs : hs[n].topic = topic, Publish(topic, hs),
         topic = "acls" => "acl" \in workload, topic = "timeout" => "timeout" \in workload,
         "attempt" \in workload \/ \A a \in Addresses : Low(device[a]) => Low(device'[a])
  PROVE  Mild'
<1>1. UNCHANGED workload /\ (pool' = pool \o hs \/ UNCHANGED pool)
  BY DEF Publish
<1>2. \A k \in DOMAIN pool' : (k \in DOMAIN pool /\ pool'[k] = pool[k]) \/ pool'[k].topic = topic
  <2>1. CASE pool' = pool \o hs
    <3>0. pool \in Seq(HandlerRecord)
      BY DEF SyncTypes, HandlersOK, PoolOK
    <3>1. pool \in Seq(HandlerRecord \cup R) /\ hs \in Seq(HandlerRecord \cup R)
      BY <3>0
    <3>2. /\ Len(pool) \in Nat /\ DOMAIN pool = 1..Len(pool)
          /\ Len(hs) \in Nat /\ DOMAIN hs = 1..Len(hs)
      BY <3>1
    <3>3. DOMAIN (pool \o hs) = 1..(Len(pool) + Len(hs))
      BY <3>1
    <3>4. \A k \in 1..(Len(pool) + Len(hs)) :
            (pool \o hs)[k] = IF k <= Len(pool) THEN pool[k] ELSE hs[k - Len(pool)]
      BY <3>1
    <3>5. ASSUME NEW k \in 1..(Len(pool) + Len(hs))
          PROVE  k \in DOMAIN pool \/ (k - Len(pool) \in DOMAIN hs /\ ~(k <= Len(pool)))
      BY <3>2
    <3>6. \A k \in DOMAIN pool : k <= Len(pool)
      BY <3>2
    <3> QED
      BY <2>1, <3>3, <3>4, <3>5, <3>6
  <2>2. CASE UNCHANGED pool
    BY <2>2
  <2> QED
    BY <1>1, <2>1, <2>2
<1>3. \A k \in DOMAIN pool' : /\ pool'[k].topic = "acls" => "acl" \in workload
                              /\ pool'[k].topic = "timeout" => "timeout" \in workload
  BY <1>2 DEF Mild
<1> QED
  BY <1>1, <1>3 DEF Mild, Low

\* A step that adds no handler and writes nothing.
LEMMA MovedMild ==
  ASSUME SyncTypes, Mild, UNCHANGED <<workload, device>>,
         \/ \E i \in DOMAIN pool : \E todo, old : Moves(i, todo, old)
         \/ UNCHANGED pool
         \/ pool' = <<>>
  PROVE  Mild'
<1>1. CASE UNCHANGED pool
  BY <1>1 DEF Mild
<1>2. CASE pool' = <<>>
  <2>1. DOMAIN pool' = {}
    BY <1>2
  <2> QED
    BY <2>1 DEF Mild
<1>3. ASSUME NEW i \in DOMAIN pool, NEW todo, NEW old, Moves(i, todo, old) PROVE Mild'
  <2>1. \A k \in DOMAIN pool' : old[k] \in DOMAIN pool /\ pool'[k].topic = pool[old[k]].topic
    BY <1>3 DEF Moves
  <2> QED
    BY <2>1 DEF Mild
<1> QED
  BY <1>1, <1>2, <1>3

\* One event.
LEMMA EventMild ==
  ASSUME SyncTypes, Mild, NEW topic, NEW id, NEW cur, NEW key, NEW todo,
         LET h == Handler(topic, id, cur, key, todo) IN
         Publish(topic, <<h>>) \/ Publish(topic, Event(h)),
         topic = "acls" => "acl" \in workload, topic = "timeout" => "timeout" \in workload,
         "attempt" \in workload \/ \A a \in Addresses : Low(device[a]) => Low(device'[a])
  PROVE  Mild'
<1> DEFINE h == Handler(topic, id, cur, key, todo)
<1>1. h.topic = topic /\ (Publish(topic, <<h>>) \/ Publish(topic, Event(h)))
  BY HandlerFields
<1> HIDE DEF h
<1>2. <<h>> \in Seq({h}) /\ <<>> \in Seq({h}) /\ DOMAIN <<>> = {}
      /\ \A n \in DOMAIN <<h>> : <<h>>[n] = h
  OBVIOUS
<1>3. Publish(topic, <<h>>) => Mild'
  BY <1>1, <1>2, PublishedMild
<1>4. Publish(topic, <<>>) => Mild'
  <2>1. \A n \in DOMAIN <<>> : <<>>[n].topic = topic
    BY <1>2
  <2> QED
    BY <1>2, <2>1, PublishedMild
<1> QED
  BY <1>1, <1>3, <1>4, Zenon DEF Event

\* The calls of handlers.
LEMMA HandleMild ==
  ASSUME SyncTypes, Mild, NEW i \in DOMAIN pool, Handle(i)
  PROVE  Mild'
<1>1. ASSUME NEW todo, Continue(i, todo) PROVE Mild'
  <2>1. \E old : Moves(i, todo, old)
    BY <1>1, ContinueMoves
  <2>2. UNCHANGED <<workload, device>>
    BY <1>1 DEF Continue, etcd
  <2> QED
    BY <2>1, <2>2, MovedMild
<1>2. CASE Crash
  <2>1. pool' = <<>> /\ UNCHANGED <<workload, device>>
    BY <1>2 DEF Crash, etcd
  <2> QED
    BY <2>1, MovedMild
<1>3. CASE HandleReadAcl(i)
  <2>1. /\ UNCHANGED <<workload, device>>
        /\ pool' = [pool EXCEPT ![i].acl = acl[pool[i].id], ![i].todo = Tail(pool[i].todo),
                                ![i].started = TRUE]
        /\ Head(pool[i].todo) = "readAcl"
    BY <1>3 DEF HandleReadAcl, etcd, Calls
  <2>2. pool \in Seq(HandlerRecord) /\ pool[i] \in HandlerRecord
    BY DEF SyncTypes, HandlersOK, PoolOK
  <2>3. PICK l : l = acl[pool[i].id]
    OBVIOUS
  <2>4. PICK s : s = <<"addUser">> /\ s = Tail(pool[i].todo)
    BY <2>1, UserCall
  <2>5. PICK n : n = [pool[i] EXCEPT !.acl = l, !.todo = s, !.started = TRUE]
    OBVIOUS
  <2>6. pool' = [pool EXCEPT ![i] = n]
    BY <2>1, <2>2, <2>3, <2>4, <2>5
  <2>7. n.topic = pool[i].topic /\ n.id = pool[i].id /\ n.cur = pool[i].cur /\ n.todo = s
    BY <2>2, <2>5 DEF HandlerRecord
  <2>8. s # <<>>
    BY <2>4
  <2>9. \E old : Moves(i, s, old)
    BY <2>6, <2>7, <2>8, MovesOn
  <2> QED
    BY <2>1, <2>9, MovedMild
<1>4. CASE HandleAddPeer(i) \/ HandleVerify(i) \/ HandleDeauthenticate(i) \/ HandleAssociate(i)
  BY <1>1, <1>4 DEF HandleAddPeer, HandleVerify, HandleDeauthenticate, HandleAssociate,
     ProceedIf, Proceed, Fail
<1>5. CASE HandleRemovePeer(i) \/ HandleReplacePeer(i) \/ HandleAuthorise(i)
  BY <1>1, <1>2, <1>5 DEF HandleRemovePeer, HandleReplacePeer, HandleAuthorise, Proceed
<1>6. CASE HandleChallenge(i) \/ HandleCheckLockout(i)
  BY <1>1, <1>6 DEF HandleChallenge, HandleCheckLockout
<1>7. CASE \/ HandleAddUser(i) \/ HandleRemoveUser(i) \/ HandleLock(i)
           \/ HandleDeauthenticateAll(i) \/ HandleRefreshUser(i) \/ HandleRefresh(i)
           \/ HandleSetTimeout(i)
  BY <1>1, <1>7 DEF HandleAddUser, HandleRemoveUser, HandleLock, HandleDeauthenticateAll,
     HandleRefreshUser, HandleRefresh, HandleSetTimeout, Proceed
<1> QED
  BY <1>3, <1>4, <1>5, <1>6, <1>7 DEF Handle

\* The writes of a device.
LEMMA DeviceWriteMild ==
  ASSUME SyncTypes, Mild, NEW a \in Addresses,
         \/ \E u \in Users, k \in Keys : AddDevice(u, a, k)
         \/ DeleteDevice(a)
         \/ \E k \in Keys : UpdateDevicePublicKey(a, k)
         \/ IncrementAuthenticationAttempt(a)
         \/ \E n \in {0, Lockout + 1} : SetDeviceAuthenticationAttempts(a, n)
         \/ CheckAccountLock(a)
         \/ \E n \in Nodes :
              AuthoriseDevice(a, n) \/ \E e \in Endpoints : UpdateDeviceConnectionDetails(a, e, n)
         \/ DeauthenticateDevice(a)
  PROVE  Mild'
<1>0. device \in [Addresses -> DeviceRecord \cup {Absent}]
  BY DEF SyncTypes, EtcdOK
<1>1. device[a] # Absent => device[a] \in DeviceRecord
  BY DeviceThere
<1>2. ASSUME NEW new, device' = [device EXCEPT ![a] = new],
             "attempt" \in workload \/ (Low(device[a]) => Low(new)), NEW cur, NEW key, NEW todo,
             LET h == Handler("devices", a, cur, key, todo) IN
             Publish("devices", <<h>>) \/ Publish("devices", Event(h))
      PROVE  Mild'
  <2>1. "attempt" \in workload \/ \A b \in Addresses : Low(device[b]) => Low(device'[b])
    BY <1>0, <1>2
  <2> QED
    BY <1>2, <2>1, EventMild
<1>3. ASSUME NEW new, NEW again, WriteDevice(a, new, again),
             \/ "attempt" \in workload
             \/ device[a] # Absent => new.attempts = device[a].attempts \/ new.attempts = 0
      PROVE  Mild'
  <2>1. /\ device[a] # Absent /\ device' = [device EXCEPT ![a] = new]
        /\ Publish("devices", Event(Handler("devices", a, new, device[a].key,
                                            DeviceCalls(device[a], new, again))))
    BY <1>3 DEF WriteDevice
  <2>2. 0 <= Lockout
    BY LockoutAssumption
  <2>3. "attempt" \in workload \/ (Low(device[a]) => Low(new))
    BY <1>3, <2>1, <2>2 DEF Low
  <2> QED
    BY <1>2, <2>1, <2>3
<1>4. ASSUME NEW u \in Users, NEW k \in Keys, AddDevice(u, a, k) PROVE Mild'
  <2>1. /\ device' = [device EXCEPT ![a] = NewDevice(u, k)]
        /\ Publish("devices", <<Handler("devices", a, NewDevice(u, k), Absent, <<"addPeer">>)>>)
    BY <1>4 DEF AddDevice
  <2>2. Low(NewDevice(u, k))
    BY LockoutAssumption DEF NewDevice, Low
  <2> QED
    BY <1>2, <2>1, <2>2
<1>5. CASE DeleteDevice(a)
  <2>1. device' = [device EXCEPT ![a] = Absent] /\ Publish("devices", <<Removal(a)>>)
    BY <1>5 DEF DeleteDevice
  <2> QED
    BY <1>2, <2>1 DEF Removal, Low
<1>6. ASSUME NEW k \in Keys, UpdateDevicePublicKey(a, k) PROVE Mild'
  <2>1. device[a] # Absent => WithKey(device[a], k).attempts = device[a].attempts
    BY <1>1 DEF WithKey, DeviceRecord
  <2> QED
    BY <1>3, <1>6, <2>1 DEF UpdateDevicePublicKey
<1>7. CASE IncrementAuthenticationAttempt(a)
  BY <1>3, <1>7 DEF IncrementAuthenticationAttempt
<1>8. ASSUME NEW n \in {0, Lockout + 1}, SetDeviceAuthenticationAttempts(a, n) PROVE Mild'
  BY <1>3, <1>8 DEF SetDeviceAuthenticationAttempts
<1>9. CASE CheckAccountLock(a)
  BY <1>9, MovedMild DEF CheckAccountLock
<1>10. ASSUME NEW n \in Nodes, AuthoriseDevice(a, n) PROVE Mild'
  <2>1. device[a] # Absent => WithAuthorisation(device[a], n).attempts = 0
    BY <1>1 DEF WithAuthorisation, DeviceRecord
  <2>2. WriteDevice(a, WithAuthorisation(device[a], n), TRUE)
    BY <1>10 DEF AuthoriseDevice
  <2> QED
    BY <1>3, <2>1, <2>2
<1>11. ASSUME NEW n \in Nodes, NEW e \in Endpoints, UpdateDeviceConnectionDetails(a, e, n)
       PROVE  Mild'
  <2>1. device[a] # Absent => WithConnection(device[a], e, n).attempts = device[a].attempts
    BY <1>1 DEF WithConnection, DeviceRecord
  <2> QED
    BY <1>3, <1>11, <2>1 DEF UpdateDeviceConnectionDetails
<1>12. CASE DeauthenticateDevice(a)
  <2>1. device[a] # Absent => WithoutAuthorisation(device[a]).attempts = device[a].attempts
    BY <1>1 DEF WithoutAuthorisation, DeviceRecord
  <2> QED
    BY <1>3, <1>12, <2>1 DEF DeauthenticateDevice
<1> QED
  BY <1>4, <1>5, <1>6, <1>7, <1>8, <1>9, <1>10, <1>11, <1>12

\* The writes of users, memberships, access lists and the timeout.
LEMMA OtherWriteMild ==
  ASSUME SyncTypes, Mild, UserWrite \/ ConfigWrite
  PROVE  Mild'
<1>1. ASSUME NEW topic, NEW id, NEW cur, NEW todo,
             LET h == Handler(topic, id, cur, Absent, todo) IN
             Publish(topic, <<h>>) \/ Publish(topic, Event(h)),
             topic = "acls" => "acl" \in workload, topic = "timeout" => "timeout" \in workload,
             UNCHANGED device
      PROVE  Mild'
  BY <1>1, EventMild
<1>2. CASE ConfigWrite
  BY <1>1, <1>2 DEF ConfigWrite, SetAcl, SetSessionInactivityTimeout, etcd
<1>3. ASSUME NEW u \in Users, NEW new, NEW ends, WriteUser(u, new, ends) PROVE Mild'
  <2>1. PICK todo : Publish("users", Event(Handler("users", u, new, Absent, todo)))
    BY <1>3 DEF WriteUser
  <2>2. UNCHANGED device
    BY <1>3 DEF WriteUser
  <2>3. \A a \in Addresses : Low(device[a]) => Low(device'[a])
    BY <2>2
  <2>4. "users" # "acls" /\ "users" # "timeout"
    OBVIOUS
  <2> QED
    BY <2>1, <2>3, <2>4, EventMild, Zenon
<1>4. ASSUME NEW u \in Users, CreateUser(u) PROVE Mild'
  BY <1>1, <1>4 DEF CreateUser
<1>5. ASSUME NEW u \in Users, DeleteUser(u) PROVE Mild'
  BY <1>1, <1>5 DEF DeleteUser
<1>6. ASSUME NEW u \in Users, NEW l, SetUserGroupMembership(u, l) PROVE Mild'
  BY <1>1, <1>6 DEF SetUserGroupMembership
<1>7. ASSUME NEW u \in Users, DeleteDevices(u) PROVE Mild'
  <2>1. PICK key \in InSomeOrder(Owned(u)) :
          Publish("devices", [n \in DOMAIN key |-> Removal(key[n])])
    BY <1>7 DEF DeleteDevices
  <2>2. PICK n \in Nat : key \in [1..n -> Owned(u)] /\ DOMAIN key = 1..n
    BY OrderedLemma
  <2>3. PICK hs : hs = [m \in DOMAIN key |-> Removal(key[m])]
    OBVIOUS
  <2>4. \A m \in DOMAIN hs : hs[m].topic = "devices"
    BY <2>2, <2>3, HandlerFields DEF Removal
  <2>5. hs \in Seq({Removal(a) : a \in Owned(u)})
    BY <2>2, <2>3
  <2>6. \A a \in Addresses : device'[a] = device[a] \/ device'[a] = Absent
    BY <1>7 DEF DeleteDevices
  <2>7. \A a \in Addresses : Low(device[a]) => Low(device'[a])
    BY <2>6 DEF Low
  <2> QED
    BY <2>1, <2>3, <2>4, <2>5, <2>7, PublishedMild
<1>8. population \subseteq Users
  BY DEF SyncTypes, EtcdOK
<1> QED
  BY <1>2, <1>3, <1>4, <1>5, <1>6, <1>7, <1>8
  DEF UserWrite, SetUserLock, SetUserMfa, SetEnforceMFA

\* A behaviour starts with no failed attempts and no events.
LEMMA InitMild == Init => Mild
<1> SUFFICES ASSUME Init PROVE Mild
  OBVIOUS
<1>1. pool = <<>>
  BY DEF Init
<1>2. DOMAIN pool = {}
  BY <1>1
<1>3. PICK u \in Users, a \in Addresses, k \in Keys :
        device = [b \in Addresses |-> IF b = a THEN NewDevice(u, k) ELSE Absent]
  BY DEF Init
<1>4. NewDevice(u, k).attempts = 0
  BY DEF NewDevice
<1>5. \A b \in Addresses : device[b] # Absent => device[b].attempts <= Lockout
  BY <1>3, <1>4, LockoutAssumption
<1> QED
  BY <1>2, <1>5 DEF Mild

\* Every step writes only what the behaviour is to write.
LEMMA NextMild == SyncTypes /\ Mild /\ [Next]_vars => Mild'
<1> SUFFICES ASSUME SyncTypes, Mild, [Next]_vars PROVE Mild'
  OBVIOUS
<1>1. CASE UNCHANGED vars
  BY <1>1, MovedMild DEF vars
<1>2. CASE DeviceWrite
  BY <1>2, DeviceWriteMild DEF DeviceWrite
<1>3. ASSUME NEW i \in DOMAIN pool, Handle(i) PROVE Mild'
  BY <1>3, HandleMild
<1>4. CASE Lifecycle
  <2>1. CASE Crash
    <3>1. pool' = <<>> /\ UNCHANGED <<workload, device>>
      BY <2>1 DEF Crash, etcd
    <3> QED
      BY <3>1, MovedMild
  <2>2. CASE ~Crash
    <3>1. UNCHANGED <<workload, device, pool>>
      BY <1>4, <2>2 DEF Lifecycle, GetInitialData, SetupRouter, RegisterEventListener, Restart,
         SessionLapse, etcd
    <3> QED
      BY <3>1, MovedMild
  <2> QED
    BY <2>1, <2>2
<1> QED
  BY <1>1, <1>2, <1>3, <1>4, OtherWriteMild DEF Next

\* Every step keeps entries and handlers in step with etcd.
LEMMA NextFollow ==
  ASSUME SyncTypes, Chain, InOrder => IInv, Mild, NEW x \in Aspects, x = "lockout" => Apart,
         InStep(x), [Next]_vars
  PROVE  InStep(x)'
<1>1. CASE UNCHANGED vars
  <2>1. UNCHANGED <<firewall, pool, device, order, missed>>
    BY <1>1 DEF vars
  <2>2. \A b \in Addresses : Known(b)' => Known(b) /\ (Holds(x, b) => Holds(x, b)')
    BY <2>1 DEF Known, Holds, firewall
  <2>3. InOrder' = InOrder
    BY <2>1 DEF InOrder
  <2> QED
    BY <2>1, <2>2, <2>3, StillFollow DEF InStep
<1>2. CASE DeviceWrite
  BY <1>2, DeviceWriteFollow DEF DeviceWrite
<1>3. ASSUME NEW i \in DOMAIN pool, Handle(i) PROVE InStep(x)'
  BY <1>3, PeerFollow, HandleChangeFollow, HandleUserFollow DEF Handle
<1> QED
  BY <1>1, <1>2, <1>3, UserWriteFollow, ConfigWriteFollow, LifecycleFollow DEF Next

-----------------------------------------------------------------------------
(***************************************************************************)
(* The handlers of a user.                                                 *)
(***************************************************************************)

\* The calls that decide over a user.
Deciding == {"addUser", "removeUser", "lock"}

\* What a call leaves of the decisions of its handler.
Keeps(i, todo) == \A call \in Deciding : Has(todo, call) <=> Has(pool[i].todo, call)

\* It leaves no decision.
Drops(todo) == \A call \in Deciding : ~Has(todo, call)

\* The call of the i-th handler decides over user u as the handler says.
Settles(i, u, todo) ==
  /\ OfUser(i, u) /\ Decides(pool[i]) /\ ~Has(todo, "addUser")
  /\ Takes(pool[i]) => accountLocked'[u] = Absent
  /\ ~Takes(pool[i]) =>
       IF Adds(pool[i]) THEN accountLocked[u] # TRUE => accountLocked'[u] = FALSE
       ELSE accountLocked'[u] = pool[i].cur.locked

\* What a call does to the locks.
LocksMove(i, todo) ==
  /\ pool[i].topic = "users" => Keeps(i, todo) \/ Drops(todo)
  /\ \A u \in Users :
       \/ Settles(i, u, todo)
       \/ /\ OfUser(i, u) => Keeps(i, todo)
          /\ \/ accountLocked'[u] = accountLocked[u]
             \/ user[u] # Absent /\ accountLocked'[u] = user[u].locked

\* Then locks and handlers agree with etcd as before.
LEMMA MovedLocks ==
  ASSUME SyncTypes, SyncTypes', LocksHold, UNCHANGED <<user, phase, snapshot>>,
         NEW i \in DOMAIN pool, ~Overtakes(i), NEW todo, NEW old, Moves(i, todo, old),
         LocksMove(i, todo)
  PROVE  LocksHold'
<1>1. /\ \A k \in DOMAIN pool' : old[k] \in DOMAIN pool
      /\ \A k, m \in DOMAIN pool' : k < m <=> old[k] < old[m]
      /\ \A j \in DOMAIN pool \ {i} : \E k \in DOMAIN pool' : old[k] = j
      /\ \A k \in DOMAIN pool' : old[k] # i => pool'[k] = pool[old[k]]
      /\ \A k \in DOMAIN pool' : old[k] = i =>
           /\ pool'[k].topic = pool[i].topic /\ pool'[k].id = pool[i].id
           /\ pool'[k].cur = pool[i].cur /\ pool'[k].todo = todo
      /\ todo # <<>> => \E k \in DOMAIN pool' : old[k] = i
  BY DEF Moves
<1>2. DOMAIN pool \subseteq Int /\ DOMAIN pool' \subseteq Int /\ phase = "up"
  <2>1. pool \in Seq(HandlerRecord) /\ pool' \in Seq(HandlerRecord)
    BY DEF SyncTypes, HandlersOK, PoolOK
  <2>2. phase = "up"
    BY <2>1 DEF SyncTypes, RouterOK
  <2> QED
    BY <2>1, <2>2
<1>3. \A k \in DOMAIN pool', u \in Users : OfUser(k, u)' <=> OfUser(old[k], u)
  BY <1>1 DEF OfUser
<1>4. ASSUME NEW k \in DOMAIN pool', NEW u \in Users, OfUser(k, u)', Decides(pool'[k])
      PROVE  /\ Decides(pool[old[k]]) /\ pool'[k].cur = pool[old[k]].cur
             /\ \A call \in Deciding : Has(pool'[k].todo, call) <=> Has(pool[old[k]].todo, call)
  BY <1>1, <1>4 DEF LocksMove, Keeps, Drops, Decides, Adds, Takes, Deciding, OfUser
<1>5. ASSUME NEW j \in DOMAIN pool, NEW u \in Users, OfUser(j, u), Decides(pool[j]),
             j = i => Keeps(i, todo)
      PROVE  \E k \in DOMAIN pool' : old[k] = j /\ OfUser(k, u)' /\ Decides(pool'[k])
  <2>1. CASE j # i
    BY <1>1, <1>3, <1>5, <2>1
  <2>2. CASE j = i
    <3>1. \E call \in Deciding : Has(todo, call)
      BY <1>5, <2>2 DEF Keeps, Decides, Adds, Takes, Deciding
    <3>2. todo # <<>>
      BY <3>1, HasNone
    <3>3. PICK k \in DOMAIN pool' : old[k] = i
      BY <1>1, <3>2
    <3> QED
      BY <1>1, <1>3, <1>5, <2>2, <3>1, <3>3 DEF Decides, Adds, Takes, Deciding
  <2> QED
    BY <2>1, <2>2
<1>6. \A j \in DOMAIN pool, u \in Users : OfUser(i, u) /\ OfUser(j, u) => i <= j
  BY <1>2, FirstFirst DEF OfUser
<1>7. /\ \A h : Decides(h) <=> Adds(h) \/ Takes(h) \/ Has(h.todo, "lock")
      /\ \A k \in DOMAIN pool', u \in Users : OfUser(k, u)' /\ Decides(pool'[k]) =>
           /\ Takes(pool'[k]) <=> Takes(pool[old[k]])
           /\ Adds(pool'[k]) <=> Adds(pool[old[k]])
           /\ Has(pool'[k].todo, "lock") <=> Has(pool[old[k]].todo, "lock")
  BY <1>4 DEF Decides, Takes, Adds, Deciding
<1>8. Decided'
  <2> SUFFICES ASSUME NEW u \in Users, NEW k \in DOMAIN pool', OfUser(k, u)', Decides(pool'[k]),
                      \A m \in DOMAIN pool' : OfUser(m, u)' /\ k < m => ~Decides(pool'[m])
               PROVE  /\ Takes(pool'[k]) <=> user[u] = Absent
                      /\ Adds(pool'[k]) => user[u].locked = FALSE
                      /\ Has(pool'[k].todo, "lock") => user[u].locked = pool'[k].cur.locked
    BY DEF Decided, Decides, Takes, Adds
  <2>1. \A j \in DOMAIN pool : OfUser(j, u) /\ old[k] < j => ~Decides(pool[j])
    BY <1>1, <1>2, <1>3, <1>5, <1>6
  <2>2. Decides(pool[old[k]]) /\ OfUser(old[k], u) /\ old[k] \in DOMAIN pool
    BY <1>1, <1>3, <1>4
  <2> QED
    BY <1>4, <1>7, <2>1, <2>2 DEF LocksHold, Decided
<1>9. AddedAfter'
  <2> SUFFICES ASSUME NEW u \in Users, NEW k \in DOMAIN pool', NEW m \in DOMAIN pool',
                      OfUser(k, u)', OfUser(m, u)', k < m, Decides(pool'[k]), Adds(pool'[m]),
                      \A n \in DOMAIN pool' :
                        OfUser(n, u)' /\ Decides(pool'[n]) => n <= k \/ m <= n
               PROVE  Takes(pool'[k])
    BY DEF AddedAfter, Decides, Takes, Adds
  <2>1. \A j \in DOMAIN pool : OfUser(j, u) /\ Decides(pool[j]) => j <= old[k] \/ old[m] <= j
    <3> SUFFICES ASSUME NEW j \in DOMAIN pool, OfUser(j, u), Decides(pool[j])
                 PROVE  j <= old[k] \/ old[m] <= j
      OBVIOUS
    <3>1. CASE j = i
      BY <1>1, <1>3, <1>6, <3>1
    <3>2. CASE j # i
      <4>1. PICK n \in DOMAIN pool' : old[n] = j /\ OfUser(n, u)' /\ Decides(pool'[n])
        BY <1>5, <3>2
      <4> QED
        BY <1>1, <1>2, <4>1
    <3> QED
      BY <3>1, <3>2
  <2>2. /\ old[k] \in DOMAIN pool /\ old[m] \in DOMAIN pool /\ old[k] < old[m]
        /\ OfUser(old[k], u) /\ OfUser(old[m], u) /\ Decides(pool[old[k]]) /\ Adds(pool[old[m]])
    BY <1>1, <1>3, <1>4, <1>7
  <2> QED
    BY <1>7, <2>1, <2>2 DEF LocksHold, AddedAfter
<1>10. Unlocked'
  <2> SUFFICES ASSUME NEW u \in Users, NEW k \in DOMAIN pool', OfUser(k, u)', Adds(pool'[k]),
                      \A m \in DOMAIN pool' : OfUser(m, u)' /\ Decides(pool'[m]) => m = k
               PROVE  accountLocked'[u] # TRUE
    BY DEF Unlocked, Decides, Takes, Adds
  <2>0. /\ old[k] \in DOMAIN pool /\ OfUser(old[k], u) /\ Adds(pool[old[k]])
        /\ Decides(pool[old[k]])
    BY <1>1, <1>3, <1>4, <1>7
  <2>1. CASE Settles(i, u, todo)
    <3>1. OfUser(i, u) /\ Decides(pool[i]) /\ old[k] # i
      BY <1>1, <2>1 DEF Settles, Adds
    <3>2. i < old[k]
      BY <1>2, <1>6, <2>0, <3>1
    <3>3. \A j \in DOMAIN pool : OfUser(j, u) /\ Decides(pool[j]) => j <= i \/ old[k] <= j
      BY <1>2, <1>5, <2>0, <3>1
    <3>4. Takes(pool[i])
      BY <2>0, <3>1, <3>2, <3>3 DEF LocksHold, AddedAfter
    <3> QED
      BY <2>1, <3>4, FirewallSentinels DEF Settles
  <2>2. CASE ~Settles(i, u, todo)
    <3>1. /\ OfUser(i, u) => Keeps(i, todo)
          /\ \/ accountLocked'[u] = accountLocked[u]
             \/ user[u] # Absent /\ accountLocked'[u] = user[u].locked
      BY <2>2 DEF LocksMove
    <3>2. \A j \in DOMAIN pool : OfUser(j, u) /\ Decides(pool[j]) => j = old[k]
      BY <1>5, <3>1
    <3>3. accountLocked[u] # TRUE
      BY <2>0, <3>2 DEF LocksHold, Unlocked
    <3>4. user[u].locked = FALSE
      <4>1. \A j \in DOMAIN pool : OfUser(j, u) /\ old[k] < j => ~Decides(pool[j])
        BY <1>2, <2>0, <3>2
      <4> QED
        BY <2>0, <4>1 DEF LocksHold, Decided
    <3> QED
      BY <3>1, <3>3, <3>4
  <2> QED
    BY <2>1, <2>2
<1>11. LocksFollow'
  <2> SUFFICES ASSUME NEW u \in Users,
                      \A m \in DOMAIN pool' : OfUser(m, u)' => ~Decides(pool'[m])
               PROVE  accountLocked'[u] = Lock(u)
    BY DEF LocksFollow, Decides, Takes, Adds, Lock
  <2>1. CASE Settles(i, u, todo)
    <3>1. OfUser(i, u) /\ Decides(pool[i])
      BY <2>1 DEF Settles
    <3>2. \A j \in DOMAIN pool : OfUser(j, u) /\ Decides(pool[j]) => j = i
      BY <1>5
    <3>3. \A j \in DOMAIN pool : OfUser(j, u) /\ i < j => ~Decides(pool[j])
      BY <1>2, <3>2
    <3>4. /\ Takes(pool[i]) <=> user[u] = Absent
          /\ Adds(pool[i]) => user[u].locked = FALSE
          /\ Has(pool[i].todo, "lock") => user[u].locked = pool[i].cur.locked
      BY <3>1, <3>3 DEF LocksHold, Decided
    <3>5. Adds(pool[i]) => accountLocked[u] # TRUE
      BY <3>1, <3>2 DEF LocksHold, Unlocked
    <3> QED
      BY <1>7, <2>1, <3>1, <3>4, <3>5 DEF Settles, Lock
  <2>2. CASE ~Settles(i, u, todo)
    <3>1. /\ OfUser(i, u) => Keeps(i, todo)
          /\ \/ accountLocked'[u] = accountLocked[u]
             \/ user[u] # Absent /\ accountLocked'[u] = user[u].locked
      BY <2>2 DEF LocksMove
    <3>2. \A j \in DOMAIN pool : OfUser(j, u) => ~Decides(pool[j])
      BY <1>5, <3>1
    <3> QED
      BY <1>2, <3>1, <3>2 DEF LocksHold, LocksFollow, Lock
  <2> QED
    BY <2>1, <2>2
<1>12. CurrentUsers'
  BY <1>2 DEF CurrentUsers
<1> QED
  BY <1>8, <1>9, <1>10, <1>11, <1>12 DEF LocksHold

\* The calls of a sequence of two.
LEMMA HasTwo == ASSUME NEW c, NEW d, NEW e PROVE Has(<<c, d>>, e) <=> e = c \/ e = d
<1>1. DOMAIN <<c, d>> = {1, 2} /\ <<c, d>>[1] = c /\ <<c, d>>[2] = d
  OBVIOUS
<1> QED
  BY <1>1 DEF Has

\* A handler of a user adds it, removes it or locks it.
LEMMA UserTodo ==
  ASSUME SyncTypes, NEW i \in DOMAIN pool, pool[i].topic = "users"
  PROVE  /\ Adds(pool[i]) => ~Takes(pool[i]) /\ ~Has(pool[i].todo, "lock")
         /\ Takes(pool[i]) => ~Adds(pool[i]) /\ ~Has(pool[i].todo, "lock")
         /\ \/ pool[i].todo = <<"readAcl", "addUser">>
            \/ pool[i].todo = <<"addUser">>
            \/ pool[i].todo = <<"removeUser">>
            \/ pool[i].todo \in Seq({"lock", "deauthenticateAll"})
<1>1. \/ pool[i].todo = <<"readAcl", "addUser">>
      \/ pool[i].todo = <<"addUser">>
      \/ pool[i].todo = <<"removeUser">>
      \/ pool[i].todo \in Seq({"lock", "deauthenticateAll"})
  BY DEF SyncTypes, HandlersOK, PoolOK, HandlerOK
<1>2. \A c : Has(<<"readAcl", "addUser">>, c) <=> c = "readAcl" \/ c = "addUser"
  BY HasTwo
<1>3. \A c, d : Has(<<d>>, c) <=> c = d
  BY HasOne
<1>4. \A s \in Seq({"lock", "deauthenticateAll"}) : ~Has(s, "addUser") /\ ~Has(s, "removeUser")
  BY DEF Has
<1>5. CASE pool[i].todo = <<"readAcl", "addUser">> \/ pool[i].todo = <<"addUser">>
  <2>1. Adds(pool[i]) /\ ~Takes(pool[i]) /\ ~Has(pool[i].todo, "lock")
    BY <1>2, <1>3, <1>5 DEF Adds, Takes
  <2> QED
    BY <1>1, <2>1
<1>6. CASE pool[i].todo = <<"removeUser">>
  <2>1. ~Adds(pool[i]) /\ ~Has(pool[i].todo, "lock")
    BY <1>3, <1>6 DEF Adds
  <2> QED
    BY <1>1, <2>1
<1>7. CASE pool[i].todo \in Seq({"lock", "deauthenticateAll"})
  BY <1>1, <1>4, <1>7 DEF Adds, Takes
<1> QED
  BY <1>1, <1>5, <1>6, <1>7

\* What a write does to the record of user u, and what its handlers say of it.
Stays(u, hs) ==
  /\ user'[u] = Absent <=> user[u] = Absent
  /\ user[u] # Absent => user'[u].locked = user[u].locked
  /\ \A n \in DOMAIN hs : hs[n].topic = "users" /\ hs[n].id = u => ~Decides(hs[n])

\* A handler tells what the write made of the user.
DecidesAsWritten(u, h) ==
  /\ h.topic = "users" /\ h.id = u /\ Decides(h)
  /\ Takes(h) <=> user'[u] = Absent
  /\ Adds(h) => user[u] = Absent /\ user'[u].locked = FALSE
  /\ Has(h.todo, "lock") => user'[u].locked = h.cur.locked

\* Written and told so, locks and handlers agree with etcd as before.
LEMMA AppendedLocks ==
  ASSUME SyncTypes, LocksHold, phase = "up", NEW R, NEW hs \in Seq(R), pool' = pool \o hs,
         UNCHANGED <<accountLocked, phase>>,
         \A u \in Users : Stays(u, hs) \/ \E h : hs = <<h>> /\ DecidesAsWritten(u, h)
  PROVE  LocksHold'
<1>0. PICK l \in Nat : l = Len(pool)
  BY DEF SyncTypes, HandlersOK, PoolOK
<1>1. /\ pool \in Seq(HandlerRecord) /\ DOMAIN pool = 1..l
      /\ Len(hs) \in Nat /\ DOMAIN hs = 1..Len(hs)
  BY <1>0 DEF SyncTypes, HandlersOK, PoolOK
<1>2. /\ DOMAIN pool' = 1..(l + Len(hs))
      /\ \A k \in DOMAIN pool : k \in DOMAIN pool' /\ pool'[k] = pool[k]
      /\ \A k \in DOMAIN pool' : k \notin DOMAIN pool => l < k /\ k - l \in DOMAIN hs
                                                          /\ pool'[k] = hs[k - l]
  <2>1. pool \in Seq(HandlerRecord \cup R) /\ hs \in Seq(HandlerRecord \cup R)
    BY <1>1
  <2>2. /\ Len(pool \o hs) = l + Len(hs)
        /\ \A k \in 1..l + Len(hs) :
             (pool \o hs)[k] = IF k <= l THEN pool[k] ELSE hs[k - l]
    BY <1>0, <2>1, ConcatProperties
  <2>3. pool \o hs \in Seq(HandlerRecord \cup R)
    BY <2>1, ConcatSeq
  <2>4. DOMAIN pool' = 1..(l + Len(hs))
    BY <2>2, <2>3
  <2>5. \A k \in 1..(l + Len(hs)) : k \notin 1..l => l < k /\ k - l \in 1..Len(hs) /\ ~(k <= l)
    BY <1>1
  <2>6. \A k \in DOMAIN pool : k \in 1..(l + Len(hs)) /\ k <= l
    BY <1>1
  <2> QED
    BY <1>1, <2>2, <2>4, <2>5, <2>6
<1>3. /\ DOMAIN pool \subseteq Int /\ DOMAIN pool' \subseteq Int
      /\ \A k \in DOMAIN pool : k <= l
  BY <1>1, <1>2
<1>4. \A k \in DOMAIN pool, u \in Users : OfUser(k, u)' <=> OfUser(k, u)
  BY <1>2 DEF OfUser
<1>5. ASSUME NEW u \in Users, Stays(u, hs), NEW k \in DOMAIN pool', OfUser(k, u)',
             Decides(pool'[k])
      PROVE  k \in DOMAIN pool
  BY <1>2, <1>5 DEF Stays, OfUser
<1>6. ASSUME NEW u \in Users, NEW h, hs = <<h>>, DecidesAsWritten(u, h)
      PROVE  /\ l + 1 \in DOMAIN pool' /\ pool'[l + 1] = h /\ OfUser(l + 1, u)'
             /\ \A k \in DOMAIN pool' : k \in DOMAIN pool \/ k = l + 1
  <2>1. Len(hs) = 1 /\ hs[1] = h
    BY <1>6
  <2>2. l + 1 \in DOMAIN pool' /\ l + 1 \notin DOMAIN pool /\ (l + 1) - l = 1
    BY <1>1, <1>2, <2>1
  <2>3. pool'[l + 1] = h
    BY <1>2, <2>1, <2>2
  <2>4. \A k \in DOMAIN pool' : k \in DOMAIN pool \/ k = l + 1
    BY <1>1, <1>2, <2>1
  <2> QED
    BY <1>6, <2>2, <2>3, <2>4 DEF OfUser, DecidesAsWritten
<1>7. Decided'
  <2> SUFFICES ASSUME NEW u \in Users, NEW k \in DOMAIN pool', OfUser(k, u)', Decides(pool'[k]),
                      \A m \in DOMAIN pool' : OfUser(m, u)' /\ k < m => ~Decides(pool'[m])
               PROVE  /\ Takes(pool'[k]) <=> user'[u] = Absent
                      /\ Adds(pool'[k]) => user'[u].locked = FALSE
                      /\ Has(pool'[k].todo, "lock") => user'[u].locked = pool'[k].cur.locked
    BY DEF Decided, Decides, Takes, Adds
  <2>1. CASE Stays(u, hs)
    <3>1. k \in DOMAIN pool /\ pool'[k] = pool[k] /\ OfUser(k, u)
      BY <1>2, <1>4, <1>5, <2>1
    <3>2. \A m \in DOMAIN pool : OfUser(m, u) /\ k < m => ~Decides(pool[m])
      BY <1>2, <1>4
    <3>3. /\ Takes(pool[k]) <=> user[u] = Absent
          /\ Adds(pool[k]) => user[u].locked = FALSE
          /\ Has(pool[k].todo, "lock") => user[u].locked = pool[k].cur.locked
      BY <3>1, <3>2 DEF LocksHold, Decided
    <3>4. Takes(pool[k]) => ~Adds(pool[k]) /\ ~Has(pool[k].todo, "lock")
      BY <3>1, UserTodo DEF OfUser
    <3> QED
      BY <2>1, <3>1, <3>3, <3>4 DEF Stays
  <2>2. ASSUME NEW h, hs = <<h>>, DecidesAsWritten(u, h)
        PROVE  /\ Takes(pool'[k]) <=> user'[u] = Absent
               /\ Adds(pool'[k]) => user'[u].locked = FALSE
               /\ Has(pool'[k].todo, "lock") => user'[u].locked = pool'[k].cur.locked
    <3>1. l + 1 \in DOMAIN pool' /\ pool'[l + 1] = h /\ OfUser(l + 1, u)' /\ Decides(h)
      BY <1>6, <2>2 DEF DecidesAsWritten
    <3>2. k = l + 1
      BY <1>3, <1>6, <2>2, <3>1
    <3> QED
      BY <2>2, <3>1, <3>2 DEF DecidesAsWritten
  <2> QED
    BY <2>1, <2>2
<1>8. AddedAfter'
  <2> SUFFICES ASSUME NEW u \in Users, NEW k \in DOMAIN pool', NEW m \in DOMAIN pool',
                      OfUser(k, u)', OfUser(m, u)', k < m, Decides(pool'[k]), Adds(pool'[m]),
                      \A n \in DOMAIN pool' :
                        OfUser(n, u)' /\ Decides(pool'[n]) => n <= k \/ m <= n
               PROVE  Takes(pool'[k])
    BY DEF AddedAfter, Decides, Takes, Adds
  <2>0. Decides(pool'[m])
    BY DEF Decides
  <2>1. CASE m \in DOMAIN pool
    <3>1. k \in DOMAIN pool
      BY <1>1, <1>2, <2>1
    <3>2. \A n \in DOMAIN pool : OfUser(n, u) /\ Decides(pool[n]) => n <= k \/ m <= n
      BY <1>2, <1>4
    <3>3. OfUser(k, u) /\ OfUser(m, u) /\ pool'[k] = pool[k] /\ pool'[m] = pool[m]
      BY <1>2, <1>4, <2>1, <3>1
    <3> QED
      BY <2>1, <3>1, <3>2, <3>3 DEF LocksHold, AddedAfter
  <2>2. CASE m \notin DOMAIN pool
    <3>1. PICK h : hs = <<h>> /\ DecidesAsWritten(u, h)
      BY <1>5, <2>0, <2>2
    <3>2. m = l + 1 /\ pool'[m] = h /\ k \in DOMAIN pool
      BY <1>6, <2>2, <3>1
    <3>3. user[u] = Absent
      BY <3>1, <3>2 DEF DecidesAsWritten
    <3>4. ASSUME NEW n \in DOMAIN pool, OfUser(n, u), k < n PROVE ~Decides(pool[n])
      <4>1. ~(n <= k) /\ ~(m <= n)
        BY <1>3, <3>2, <3>4
      <4>2. n \in DOMAIN pool' /\ OfUser(n, u)' /\ pool'[n] = pool[n]
        BY <1>2, <1>4, <3>4
      <4> QED
        BY <4>1, <4>2
    <3>5. pool'[k] = pool[k] /\ OfUser(k, u)
      BY <1>2, <1>4, <3>2
    <3> QED
      BY <3>2, <3>3, <3>4, <3>5 DEF LocksHold, Decided
  <2> QED
    BY <2>1, <2>2
<1>9. Unlocked'
  <2> SUFFICES ASSUME NEW u \in Users, NEW k \in DOMAIN pool', OfUser(k, u)', Adds(pool'[k]),
                      \A m \in DOMAIN pool' : OfUser(m, u)' /\ Decides(pool'[m]) => m = k
               PROVE  accountLocked[u] # TRUE
    BY DEF Unlocked, Decides, Takes, Adds
  <2>1. CASE k \in DOMAIN pool
    <3>1. OfUser(k, u) /\ pool'[k] = pool[k]
      BY <1>2, <1>4, <2>1
    <3>2. \A m \in DOMAIN pool : OfUser(m, u) /\ Decides(pool[m]) => m = k
      BY <1>2, <1>4
    <3> QED
      BY <2>1, <3>1, <3>2 DEF LocksHold, Unlocked
  <2>2. CASE k \notin DOMAIN pool
    <3>1. PICK h : hs = <<h>> /\ DecidesAsWritten(u, h)
      BY <1>5, <2>2 DEF Decides
    <3>2. pool'[k] = h
      BY <1>6, <2>2, <3>1
    <3>3. \A m \in DOMAIN pool : OfUser(m, u) => ~Decides(pool[m])
      BY <1>2, <1>4, <2>2
    <3>4. accountLocked[u] = Absent
      BY <3>1, <3>2, <3>3 DEF DecidesAsWritten, LocksHold, LocksFollow, Lock
    <3> QED
      BY <3>4, FirewallSentinels
  <2> QED
    BY <2>1, <2>2
<1>10. LocksFollow'
  <2> SUFFICES ASSUME NEW u \in Users,
                      \A m \in DOMAIN pool' : OfUser(m, u)' => ~Decides(pool'[m])
               PROVE  accountLocked[u] = Lock(u)'
    BY DEF LocksFollow, Decides, Takes, Adds, Lock
  <2>1. Stays(u, hs)
    <3>1. ASSUME NEW h, hs = <<h>>, DecidesAsWritten(u, h) PROVE FALSE
      BY <1>6, <3>1 DEF DecidesAsWritten
    <3> QED
      BY <3>1
  <2>2. \A m \in DOMAIN pool : OfUser(m, u) => ~Decides(pool[m])
    BY <1>2, <1>4
  <2>3. accountLocked[u] = Lock(u)
    BY <2>2 DEF LocksHold, LocksFollow
  <2> QED
    BY <2>1, <2>3 DEF Lock, Stays
<1>11. CurrentUsers'
  BY DEF CurrentUsers
<1> QED
  BY <1>7, <1>8, <1>9, <1>10, <1>11 DEF LocksHold

\* Without handlers and before Setup there is nothing to hold.
LEMMA NoLocks ==
  ASSUME DOMAIN pool' = {}, phase' = "down"
  PROVE  LocksHold'
BY DEF LocksHold, Decided, AddedAfter, Unlocked, LocksFollow, CurrentUsers

\* The events of a write are delivered.
LEMMA PublishedLocks ==
  ASSUME SyncTypes, Locks, NEW topic, NEW R, NEW hs \in Seq(R), Publish(topic, hs),
         \A u \in Users : Stays(u, hs) \/ \E h : hs = <<h>> /\ DecidesAsWritten(u, h)
  PROVE  Locks'
<1>1. /\ IF topic \in Registered
         THEN pool' = pool \o hs /\ UNCHANGED missed
         ELSE missed' = (missed \/ phase # "down") /\ UNCHANGED pool
      /\ UNCHANGED <<accountLocked, phase, order>>
  BY DEF Publish, router, firewall
<1> SUFFICES ASSUME InOrder' PROVE LocksHold'
  BY DEF Locks
<1>2. CASE topic \in Registered
  <2>1. LocksHold
    BY <1>1, <1>2 DEF Locks, InOrder
  <2>2. phase = "up"
    BY <1>2 DEF SyncTypes, RouterOK, Registered
  <2> QED
    BY <1>1, <1>2, <2>1, <2>2, AppendedLocks
<1>3. CASE topic \notin Registered
  <2>1. phase = "down"
    BY <1>1, <1>3 DEF InOrder
  <2>2. DOMAIN pool' = {} /\ phase' = "down"
    BY <1>1, <1>3, <2>1 DEF SyncTypes, RouterOK
  <2> QED
    BY <2>2, NoLocks
<1> QED
  BY <1>2, <1>3

\* Events that are no user's.
LEMMA QuietLocks ==
  ASSUME SyncTypes, Locks, NEW topic, NEW R, NEW hs \in Seq(R), Publish(topic, hs),
         \A n \in DOMAIN hs : hs[n].topic # "users", UNCHANGED user
  PROVE  Locks'
BY PublishedLocks DEF Stays

\* The event of a write of anything but a user.
LEMMA OtherLocks ==
  ASSUME SyncTypes, Locks, NEW topic, NEW t, t # "users", NEW id, NEW cur, NEW key, NEW todo,
         LET h == Handler(t, id, cur, key, todo) IN
         Publish(topic, <<h>>) \/ Publish(topic, Event(h)),
         UNCHANGED user
  PROVE  Locks'
<1> DEFINE h == Handler(t, id, cur, key, todo)
<1>1. h.topic # "users" /\ (Publish(topic, <<h>>) \/ Publish(topic, Event(h)))
  BY HandlerFields
<1> HIDE DEF h
<1>2. <<h>> \in Seq({h}) /\ <<>> \in Seq({h}) /\ DOMAIN <<>> = {}
      /\ \A n \in DOMAIN <<h>> : <<h>>[n] = h
  OBVIOUS
<1>3. Publish(topic, <<h>>) => Locks'
  BY <1>1, <1>2, QuietLocks
<1>4. Publish(topic, <<>>) => Locks'
  <2>1. \A n \in DOMAIN <<>> : <<>>[n].topic # "users"
    BY <1>2
  <2> QED
    BY <1>2, <2>1, QuietLocks
<1> QED
  BY <1>1, <1>3, <1>4, Zenon DEF Event

\* When a change of a user is followed by which call.
LEMMA UserCallsHas ==
  ASSUME NEW prev \in UserRecord, NEW cur \in UserRecord
  PROVE  LET todo == UserCalls(prev, cur) IN
         /\ Has(todo, "lock") <=> cur.locked # prev.locked \/ cur.locked
         /\ ~Has(todo, "addUser") /\ ~Has(todo, "removeUser")
<1> DEFINE C == {"lock", "deauthenticateAll"}
           s == CallIf(cur.locked # prev.locked \/ cur.locked, "lock")
           t == CallIf(cur.mfa # prev.mfa \/ ~cur.enforcing \/ cur.mfa = Unset,
                       "deauthenticateAll")
<1>1. s \in Seq(C) /\ t \in Seq(C)
  BY CallIfSeq
<1>2. \A c : /\ Has(s, c) <=> (cur.locked # prev.locked \/ cur.locked) /\ c = "lock"
             /\ Has(t, c) => c = "deauthenticateAll"
  BY HasCallIf, Zenon
<1>3. UserCalls(prev, cur) = s \o t
  BY DEF UserCalls
<1> HIDE DEF s, t
<1>4. \A c : Has(s \o t, c) <=> Has(s, c) \/ Has(t, c)
  BY <1>1, HasConcat
<1> QED
  BY <1>2, <1>3, <1>4

\* A changed user.
LEMMA WriteUserLocks ==
  ASSUME SyncTypes, Locks, NEW u \in Users, NEW new, NEW ends,
         user[u] # Absent => new \in UserRecord, WriteUser(u, new, ends)
  PROVE  Locks'
<1> DEFINE h == Handler("users", u, new, Absent, UserCalls(user[u], new))
<1>1. user[u] # Absent /\ user' = [user EXCEPT ![u] = new] /\ Publish("users", Event(h))
  BY DEF WriteUser
<1>2. /\ user[u] \in UserRecord /\ new \in UserRecord /\ new # Absent
      /\ user'[u] = new /\ \A w \in Users : w # u => user'[w] = user[w]
  BY <1>1, AbsentAssumption DEF SyncTypes, EtcdOK
<1>3. /\ h.topic = "users" /\ h.id = u /\ h.cur = new /\ h.todo = UserCalls(user[u], new)
  BY HandlerFields
<1> HIDE DEF h
<1>4. /\ Has(h.todo, "lock") <=> new.locked # user[u].locked \/ new.locked
      /\ ~Adds(h) /\ ~Takes(h)
  BY <1>2, <1>3, UserCallsHas DEF Adds, Takes
<1>5. /\ \A n \in DOMAIN <<h>> : <<h>>[n] = h
      /\ <<h>> \in Seq({h}) /\ <<>> \in Seq({h}) /\ DOMAIN <<>> = {}
  OBVIOUS
<1>6. CASE Has(h.todo, "lock")
  <2>1. Event(h) = <<h>>
    BY <1>6, HasNone DEF Event
  <2>2. DecidesAsWritten(u, h)
    BY <1>2, <1>3, <1>4, <1>6 DEF DecidesAsWritten, Decides
  <2>3. \A w \in Users : w # u => Stays(w, <<h>>)
    BY <1>2, <1>3, <1>5 DEF Stays
  <2> QED
    BY <1>1, <1>5, <2>1, <2>2, <2>3, PublishedLocks
<1>7. CASE ~Has(h.todo, "lock")
  <2>1. ~Decides(h)
    BY <1>4, <1>7 DEF Decides
  <2>2. user[u].locked = new.locked
    BY <1>4, <1>7
  <2>3. \A w \in Users : Stays(w, <<h>>) /\ Stays(w, <<>>)
    BY <1>1, <1>2, <1>5, <2>1, <2>2 DEF Stays
  <2>4. Publish("users", <<h>>) => Locks'
    BY <1>5, <2>3, PublishedLocks
  <2>5. Publish("users", <<>>) => Locks'
    BY <1>5, <2>3, PublishedLocks
  <2> QED
    BY <1>1, <2>4, <2>5, Zenon DEF Event
<1> QED
  BY <1>6, <1>7

\* Nothing the locks depend on changes.
LEMMA KeptLocks ==
  ASSUME Locks, UNCHANGED <<user, pool, accountLocked, phase, snapshot, order, missed>>
  PROVE  Locks'
<1>2. Decided' = Decided /\ AddedAfter' = AddedAfter
  BY DEF Decided, AddedAfter, OfUser, Decides, Adds, Takes
<1>3. Unlocked' = Unlocked /\ LocksFollow' = LocksFollow
  BY DEF Unlocked, LocksFollow, OfUser, Decides, Adds, Takes, Lock
<1>4. CurrentUsers' = CurrentUsers /\ InOrder' = InOrder
  BY DEF CurrentUsers, InOrder
<1> QED
  BY <1>2, <1>3, <1>4 DEF Locks, LocksHold

\* A new user is not locked.
LEMMA CreateUserLocks ==
  ASSUME SyncTypes, Locks, NEW u \in Users, CreateUser(u)
  PROVE  Locks'
<1> DEFINE h == Handler("users", u, NewUser, Absent, <<"readAcl", "addUser">>)
<1>1. /\ user[u] = Absent /\ user' = [user EXCEPT ![u] = NewUser] /\ Publish("users", <<h>>)
  BY DEF CreateUser
<1>2. h.topic = "users" /\ h.id = u /\ h.todo = <<"readAcl", "addUser">>
  BY HandlerFields
<1> HIDE DEF h
<1>3. \A c : Has(h.todo, c) <=> c = "readAcl" \/ c = "addUser"
  BY <1>2, HasTwo
<1>4. Adds(h) /\ ~Takes(h) /\ ~Has(h.todo, "lock")
  BY <1>3 DEF Adds, Takes
<1>5. NewUser \in UserRecord /\ NewUser.locked = FALSE
  BY DEF NewUser, UserRecord
<1>6. /\ user'[u] = NewUser /\ NewUser # Absent
      /\ \A w \in Users : w # u => user'[w] = user[w]
  BY <1>1, <1>5, AbsentAssumption DEF SyncTypes, EtcdOK
<1>7. DecidesAsWritten(u, h)
  BY <1>1, <1>2, <1>4, <1>5, <1>6 DEF DecidesAsWritten, Decides
<1>8. <<h>> \in Seq({h}) /\ \A n \in DOMAIN <<h>> : <<h>>[n] = h
  OBVIOUS
<1>9. \A w \in Users : w # u => Stays(w, <<h>>)
  BY <1>2, <1>6, <1>8 DEF Stays
<1> QED
  BY <1>1, <1>7, <1>8, <1>9, PublishedLocks

\* A user that is gone is removed.
LEMMA DeleteUserLocks ==
  ASSUME SyncTypes, Locks, NEW u \in Users, DeleteUser(u)
  PROVE  Locks'
<1> DEFINE h == Handler("users", u, user[u], Absent, <<"removeUser">>)
<1>1. user' = [user EXCEPT ![u] = Absent] /\ Publish("users", <<h>>)
  BY DEF DeleteUser
<1>2. h.topic = "users" /\ h.id = u /\ h.todo = <<"removeUser">>
  BY HandlerFields
<1> HIDE DEF h
<1>3. \A c : Has(h.todo, c) <=> c = "removeUser"
  BY <1>2, HasOne
<1>4. Takes(h) /\ ~Adds(h) /\ ~Has(h.todo, "lock")
  BY <1>3 DEF Adds, Takes
<1>5. user'[u] = Absent /\ \A w \in Users : w # u => user'[w] = user[w]
  BY <1>1 DEF SyncTypes, EtcdOK
<1>6. DecidesAsWritten(u, h)
  BY <1>2, <1>4, <1>5 DEF DecidesAsWritten, Decides
<1>7. <<h>> \in Seq({h}) /\ \A n \in DOMAIN <<h>> : <<h>>[n] = h
  OBVIOUS
<1>8. \A w \in Users : w # u => Stays(w, <<h>>)
  BY <1>2, <1>5, <1>7 DEF Stays
<1> QED
  BY <1>1, <1>6, <1>7, <1>8, PublishedLocks

\* The writes of a user.
LEMMA UserWriteLocks ==
  ASSUME SyncTypes, Locks, UserWrite
  PROVE  Locks'
<1> SUFFICES ASSUME NEW u \in Users,
               \/ \E l \in BOOLEAN : SetUserLock(u, l)
               \/ \E m \in Mfas \cup {Unset} : SetUserMfa(u, m)
               \/ \E e \in BOOLEAN : SetEnforceMFA(u, e)
               \/ CreateUser(u) \/ DeleteUser(u) \/ DeleteDevices(u)
               \/ \E l \in Acls : SetUserGroupMembership(u, l)
             PROVE Locks'
  BY DEF UserWrite, SyncTypes, EtcdOK
<1>1. user[u] # Absent => user[u] \in UserRecord
  BY DEF SyncTypes, EtcdOK
<1>2. ASSUME NEW l \in BOOLEAN, SetUserLock(u, l) PROVE Locks'
  <2>1. user[u] # Absent => WithLock(user[u], l) \in UserRecord
    BY <1>1, UserWritten
  <2> QED
    BY <1>2, <2>1, WriteUserLocks DEF SetUserLock
<1>3. ASSUME NEW m \in Mfas \cup {Unset}, SetUserMfa(u, m) PROVE Locks'
  <2>1. user[u] # Absent => WithMfa(user[u], m) \in UserRecord
    BY <1>1, UserWritten
  <2> QED
    BY <1>3, <2>1, WriteUserLocks DEF SetUserMfa
<1>4. ASSUME NEW e \in BOOLEAN, SetEnforceMFA(u, e) PROVE Locks'
  <2>1. user[u] # Absent => WithEnforcing(user[u], e) \in UserRecord
    BY <1>1, UserWritten
  <2> QED
    BY <1>4, <2>1, WriteUserLocks DEF SetEnforceMFA
<1>5. CASE DeleteDevices(u)
  <2>1. PICK key \in InSomeOrder(Owned(u)) :
          Publish("devices", [n \in DOMAIN key |-> Removal(key[n])])
    BY <1>5 DEF DeleteDevices
  <2>2. PICK n \in Nat : key \in [1..n -> Owned(u)] /\ DOMAIN key = 1..n
    BY OrderedLemma
  <2>3. PICK hs : hs = [m \in DOMAIN key |-> Removal(key[m])]
    OBVIOUS
  <2>4. \A m \in DOMAIN hs : hs[m].topic # "users"
    BY <2>2, <2>3, HandlerFields DEF Removal
  <2>5. hs \in Seq({Removal(a) : a \in Owned(u)})
    BY <2>2, <2>3
  <2>6. UNCHANGED user
    BY <1>5 DEF DeleteDevices
  <2> QED
    BY <2>1, <2>3, <2>4, <2>5, <2>6, QuietLocks
<1>6. ASSUME NEW l \in Acls, SetUserGroupMembership(u, l) PROVE Locks'
  BY <1>6, OtherLocks DEF SetUserGroupMembership
<1> QED
  BY <1>2, <1>3, <1>4, <1>5, <1>6, CreateUserLocks, DeleteUserLocks

\* The writes of the configuration.
LEMMA ConfigWriteLocks ==
  ASSUME SyncTypes, Locks, ConfigWrite
  PROVE  Locks'
<1>1. ASSUME NEW new, SetAcl(new) PROVE Locks'
  BY <1>1, OtherLocks DEF SetAcl
<1>2. CASE SetSessionInactivityTimeout
  BY <1>2, OtherLocks DEF SetSessionInactivityTimeout, etcd
<1> QED
  BY <1>1, <1>2 DEF ConfigWrite

\* The writes of a device.
LEMMA DeviceWriteLocks ==
  ASSUME SyncTypes, Locks, DeviceWrite
  PROVE  Locks'
<1>1. ASSUME NEW a, NEW new, NEW again, WriteDevice(a, new, again) PROVE Locks'
  BY <1>1, OtherLocks DEF WriteDevice
<1>2. ASSUME NEW a, NEW u, NEW k, AddDevice(u, a, k) PROVE Locks'
  BY <1>2, OtherLocks DEF AddDevice
<1>3. ASSUME NEW a, DeleteDevice(a) PROVE Locks'
  BY <1>3, OtherLocks DEF DeleteDevice, Removal
<1>4. ASSUME NEW a, CheckAccountLock(a) PROVE Locks'
  BY <1>4, KeptLocks DEF CheckAccountLock, firewall, router
<1> QED
  BY <1>1, <1>2, <1>3, <1>4 DEF DeviceWrite, UpdateDevicePublicKey,
     IncrementAuthenticationAttempt, SetDeviceAuthenticationAttempts, AuthoriseDevice,
     UpdateDeviceConnectionDetails, DeauthenticateDevice

-----------------------------------------------------------------------------
(***************************************************************************)
(* The calls of the handlers.                                              *)
(***************************************************************************)

\* A handler goes on or ends.
LEMMA ContinuedLocks ==
  ASSUME SyncTypes, SyncTypes', Chain, Locks, NEW i \in DOMAIN pool, NEW todo,
         Continue(i, todo), LocksMove(i, todo)
  PROVE  Locks'
<1>1. UNCHANGED <<user, phase, snapshot, missed>> /\ NoteOrder(i)
  BY DEF Continue, etcd, router
<1> SUFFICES ASSUME InOrder' PROVE LocksHold'
  BY DEF Locks
<1>2. InOrder
  BY <1>1 DEF InOrder, NoteOrder
<1>3. ~Overtakes(i)
  BY <1>1, <1>2, FirstOfLine DEF Chain, InOrder
<1>4. PICK old : Moves(i, todo, old)
  BY ContinueMoves
<1> QED
  BY <1>1, <1>2, <1>3, <1>4, MovedLocks DEF Locks

\* A crash leaves nothing.
LEMMA CrashLocks == Crash => Locks'
<1> SUFFICES ASSUME Crash PROVE Locks'
  OBVIOUS
<1>1. pool' = <<>> /\ phase' = "down"
  BY DEF Crash
<1>2. DOMAIN pool' = {}
  BY <1>1
<1> QED
  BY <1>1, <1>2, NoLocks DEF Locks

\* The handlers of a device have nothing to do with the locks.
LEMMA DeviceCallLocks ==
  ASSUME SyncTypes, SyncTypes', Chain, Locks, NEW i \in DOMAIN pool,
         \/ HandleAddPeer(i) \/ HandleRemovePeer(i) \/ HandleReplacePeer(i)
         \/ HandleChallenge(i) \/ HandleVerify(i) \/ HandleCheckLockout(i)
         \/ HandleDeauthenticate(i) \/ HandleAssociate(i) \/ HandleAuthorise(i)
  PROVE  Locks'
<1>1. Head(pool[i].todo) \in ChangeCalls \cup {"addPeer", "removePeer"}
  BY DEF HandleAddPeer, HandleRemovePeer, HandleReplacePeer, HandleChallenge, HandleVerify,
     HandleCheckLockout, HandleDeauthenticate, HandleAssociate, HandleAuthorise, Calls, ChangeCalls
<1>2. pool[i].topic = "devices"
  BY <1>1, DeviceCall
<1>3. ASSUME NEW todo, Continue(i, todo), UNCHANGED accountLocked PROVE Locks'
  <2>1. LocksMove(i, todo)
    BY <1>2, <1>3 DEF LocksMove, OfUser
  <2> QED
    BY <1>3, <2>1, ContinuedLocks
<1>4. CASE HandleAddPeer(i)
  BY <1>3, <1>4 DEF HandleAddPeer, AddPeer, ProceedIf, Proceed, Fail, firewall
<1>5. CASE HandleRemovePeer(i)
  BY <1>3, <1>5 DEF HandleRemovePeer, RemovePeer, Proceed
<1>6. CASE HandleReplacePeer(i)
  BY <1>3, <1>6, CrashLocks DEF HandleReplacePeer, ReplacePeer, Proceed
<1>7. CASE HandleChallenge(i) \/ HandleCheckLockout(i)
  BY <1>3, <1>7 DEF HandleChallenge, HandleCheckLockout, firewall
<1>8. CASE HandleVerify(i) \/ HandleDeauthenticate(i)
  BY <1>3, <1>8 DEF HandleVerify, HandleDeauthenticate, Deauthenticate, ProceedIf, Proceed, Fail,
     firewall
<1>9. CASE HandleAssociate(i) \/ HandleAuthorise(i)
  BY <1>3, <1>9 DEF HandleAssociate, HandleAuthorise, UpdateNodeAssociation, SetAuthorized,
     ProceedIf, Proceed, Fail
<1> QED
  BY <1>4, <1>5, <1>6, <1>7, <1>8, <1>9

\* Nor have those of a membership, the access lists and the timeout, but that
\* a refresh writes the locks of etcd.
LEMMA RefreshLocks ==
  ASSUME SyncTypes, SyncTypes', Chain, Locks, NEW i \in DOMAIN pool,
         HandleRefreshUser(i) \/ HandleRefresh(i) \/ HandleSetTimeout(i)
  PROVE  Locks'
<1>1. HandlerOK(pool[i]) /\ pool[i].todo # <<>>
  BY DEF SyncTypes, HandlersOK, PoolOK, HandlerOK
<1>2. Head(pool[i].todo) \in {"refreshUser", "refresh", "setTimeout"}
  BY DEF HandleRefreshUser, HandleRefresh, HandleSetTimeout, Calls
<1>3. pool[i].topic # "users"
  <2>1. \A s \in Seq({"lock", "deauthenticateAll"}) :
          s # <<>> => Head(s) \in {"lock", "deauthenticateAll"}
    OBVIOUS
  <2>2. pool[i].topic = "users" => Head(pool[i].todo) \notin {"refreshUser", "refresh", "setTimeout"}
    BY <1>1, <2>1, HeadTail DEF HandlerOK
  <2> QED
    BY <1>2, <2>2
<1>4. ASSUME Proceed(i),
             \A u \in Users : \/ accountLocked'[u] = accountLocked[u]
                              \/ user[u] # Absent /\ accountLocked'[u] = user[u].locked
      PROVE  Locks'
  <2>1. PICK todo : todo = Tail(pool[i].todo)
    OBVIOUS
  <2>2. LocksMove(i, todo)
    BY <1>3, <1>4 DEF LocksMove, OfUser
  <2> QED
    BY <1>4, <2>1, <2>2, ContinuedLocks DEF Proceed
<1>5. CASE HandleRefreshUser(i)
  BY <1>4, <1>5 DEF HandleRefreshUser, RefreshUserAcls
<1>6. CASE HandleRefresh(i)
  <2>1. PICK S \in SUBSET Idle(Addresses) : RefreshConfiguration(user, acl, S)
    BY <1>6 DEF HandleRefresh
  <2>2. \A u \in Users :
          accountLocked'[u] = IF user[u] = Absent THEN accountLocked[u] ELSE user[u].locked
    BY <2>1 DEF RefreshConfiguration
  <2> QED
    BY <1>4, <1>6, <2>2 DEF HandleRefresh
<1>7. CASE HandleSetTimeout(i)
  BY <1>4, <1>7 DEF HandleSetTimeout, SetInactivityTimeout
<1> QED
  BY <1>5, <1>6, <1>7

\* The calls of a handler of a user by the first of them.
LEMMA FirstUserCall ==
  ASSUME SyncTypes, NEW i \in DOMAIN pool, pool[i].topic = "users"
  PROVE  /\ pool[i].todo \in Seq(Steps) /\ pool[i].todo # <<>>
         /\ Head(pool[i].todo) = "readAcl" => pool[i].todo = <<"readAcl", "addUser">>
         /\ Head(pool[i].todo) = "addUser" => pool[i].todo = <<"addUser">>
         /\ Head(pool[i].todo) = "removeUser" => pool[i].todo = <<"removeUser">>
         /\ Head(pool[i].todo) \in {"lock", "deauthenticateAll"} =>
              pool[i].todo \in Seq({"lock", "deauthenticateAll"})
<1>1. pool[i].todo \in Seq(Steps) /\ pool[i].todo # <<>>
  BY DEF SyncTypes, HandlersOK, PoolOK, HandlerOK, HandlerRecord
<1>2. \/ pool[i].todo = <<"readAcl", "addUser">>
      \/ pool[i].todo = <<"addUser">>
      \/ pool[i].todo = <<"removeUser">>
      \/ pool[i].todo \in Seq({"lock", "deauthenticateAll"})
  BY UserTodo
<1>3. \A s \in Seq({"lock", "deauthenticateAll"}) :
        s # <<>> => Head(s) \in {"lock", "deauthenticateAll"}
  OBVIOUS
<1>4. /\ Head(<<"readAcl", "addUser">>) = "readAcl" /\ Head(<<"addUser">>) = "addUser"
      /\ Head(<<"removeUser">>) = "removeUser"
  BY HeadTail
<1>5. CASE pool[i].todo = <<"readAcl", "addUser">>
  BY <1>1, <1>4, <1>5
<1>6. CASE pool[i].todo = <<"addUser">>
  BY <1>1, <1>4, <1>6
<1>7. CASE pool[i].todo = <<"removeUser">>
  BY <1>1, <1>4, <1>7
<1>8. CASE pool[i].todo \in Seq({"lock", "deauthenticateAll"})
  BY <1>1, <1>3, <1>8
<1> QED
  BY <1>2, <1>5, <1>6, <1>7, <1>8

\* The access list of a new user is read.
LEMMA ReadAclLocks ==
  ASSUME SyncTypes, SyncTypes', Chain, Locks, NEW i \in DOMAIN pool, HandleReadAcl(i)
  PROVE  Locks'
<1>1. /\ NoteOrder(i) /\ UNCHANGED <<user, accountLocked, phase, snapshot, missed>>
      /\ pool' = [pool EXCEPT ![i].acl = acl[pool[i].id], ![i].todo = Tail(pool[i].todo),
                              ![i].started = TRUE]
      /\ Head(pool[i].todo) = "readAcl"
  BY DEF HandleReadAcl, firewall, etcd, router, Calls
<1>2. pool \in Seq(HandlerRecord) /\ pool[i] \in HandlerRecord /\ pool[i].topic = "users"
  BY <1>1, UserCall DEF SyncTypes, HandlersOK, PoolOK
<1>3. PICK l : l = acl[pool[i].id]
  OBVIOUS
<1>4. PICK s : s = <<"addUser">> /\ s = Tail(pool[i].todo)
  BY <1>1, UserCall
<1>5. PICK n : n = [pool[i] EXCEPT !.acl = l, !.todo = s, !.started = TRUE]
  OBVIOUS
<1>6. pool' = [pool EXCEPT ![i] = n]
  BY <1>1, <1>2, <1>3, <1>4, <1>5
<1>7. n.topic = pool[i].topic /\ n.id = pool[i].id /\ n.cur = pool[i].cur /\ n.todo = s
  BY <1>2, <1>5 DEF HandlerRecord
<1> SUFFICES ASSUME InOrder' PROVE LocksHold'
  BY DEF Locks
<1>8. InOrder
  BY <1>1 DEF InOrder, NoteOrder
<1>9. ~Overtakes(i)
  BY <1>1, <1>8, FirstOfLine DEF Chain, InOrder
<1>10. s # <<>>
  BY <1>4
<1>11. PICK old : Moves(i, s, old)
  BY <1>6, <1>7, <1>10, MovesOn
<1>12. pool[i].todo = <<"readAcl", "addUser">>
  BY <1>1, <1>2, FirstUserCall
<1>13. \A c : /\ Has(s, c) <=> c = "addUser"
              /\ Has(pool[i].todo, c) <=> c = "readAcl" \/ c = "addUser"
  <2>1. \A c : Has(s, c) <=> c = "addUser"
    BY <1>4, HasOne
  <2>2. \A c : Has(pool[i].todo, c) <=> c = "readAcl" \/ c = "addUser"
    BY <1>12, HasTwo
  <2> QED
    BY <2>1, <2>2
<1>14. LocksMove(i, s)
  BY <1>1, <1>13 DEF LocksMove, Keeps, Deciding
<1> QED
  BY <1>1, <1>8, <1>9, <1>11, <1>14, MovedLocks DEF Locks

\* The handlers of a user.
LEMMA UserCallLocks ==
  ASSUME SyncTypes, SyncTypes', Chain, Locks, NEW i \in DOMAIN pool,
         \/ HandleAddUser(i) \/ HandleRemoveUser(i) \/ HandleLock(i) \/ HandleDeauthenticateAll(i)
  PROVE  Locks'
<1> USE DEF Calls
<1>0. accountLocked \in [Users -> BOOLEAN \cup {Absent}]
  BY DEF SyncTypes, RouterOK, FirewallTypeOK
<1>1. PICK todo : todo = Tail(pool[i].todo)
  OBVIOUS
<1>2. PICK u \in Users : u = pool[i].id
  BY UserCall DEF HandleAddUser, HandleRemoveUser, HandleLock, HandleDeauthenticateAll
<1>3. /\ pool[i].topic = "users" /\ Continue(i, todo)
      /\ \A w \in Users : OfUser(i, w) <=> w = u
  <2>1. pool[i].topic = "users"
    BY UserCall DEF HandleAddUser, HandleRemoveUser, HandleLock, HandleDeauthenticateAll
  <2>2. Continue(i, todo)
    BY <1>1 DEF HandleAddUser, HandleRemoveUser, HandleLock, HandleDeauthenticateAll, Proceed
  <2> QED
    BY <1>2, <2>1, <2>2 DEF OfUser
<1>4. \A call : ~Has(<<>>, call)
  BY HasNone
<1>5. CASE HandleAddUser(i)
  <2>1. AddUser(u, pool[i].acl) /\ pool[i].todo = <<"addUser">>
    BY <1>2, <1>3, <1>5, FirstUserCall DEF HandleAddUser
  <2>2. todo = <<>>
    BY <1>1, <2>1, HeadTail, Zenon
  <2>3. Adds(pool[i]) /\ ~Takes(pool[i])
    BY <2>1, HasOne DEF Adds, Takes
  <2>4. accountLocked[u] # TRUE => accountLocked'[u] = FALSE
    <3>1. CASE accountLocked[u] = Absent
      BY <1>0, <2>1, <3>1 DEF AddUser
    <3>2. CASE accountLocked[u] # Absent
      BY <1>0, <2>1, <3>2 DEF AddUser, firewall
    <3> QED
      BY <3>1, <3>2
  <2>5. \A w \in Users : w # u => accountLocked'[w] = accountLocked[w]
    BY <1>0, <2>1 DEF AddUser, firewall
  <2>6. Settles(i, u, todo)
    BY <1>3, <1>4, <2>2, <2>3, <2>4 DEF Settles, Decides
  <2>7. LocksMove(i, todo)
    BY <1>3, <1>4, <2>2, <2>5, <2>6 DEF LocksMove, Drops
  <2> QED
    BY <1>3, <2>7, ContinuedLocks
<1>6. CASE HandleRemoveUser(i)
  <2>1. RemoveUser(u) /\ pool[i].todo = <<"removeUser">>
    BY <1>2, <1>3, <1>6, FirstUserCall DEF HandleRemoveUser
  <2>2. todo = <<>>
    BY <1>1, <2>1, HeadTail, Zenon
  <2>3. Takes(pool[i])
    BY <2>1, HasOne DEF Takes
  <2>4. accountLocked'[u] = Absent
    BY <1>0, <2>1 DEF RemoveUser, firewall
  <2>5. \A w \in Users : w # u => accountLocked'[w] = accountLocked[w]
    BY <1>0, <2>1 DEF RemoveUser, firewall
  <2>6. Settles(i, u, todo)
    BY <1>3, <1>4, <2>2, <2>3, <2>4 DEF Settles, Decides
  <2>7. LocksMove(i, todo)
    BY <1>3, <1>4, <2>2, <2>5, <2>6 DEF LocksMove, Drops
  <2> QED
    BY <1>3, <2>7, ContinuedLocks
<1>7. ASSUME Head(pool[i].todo) \in {"lock", "deauthenticateAll"}
      PROVE  /\ ~Adds(pool[i]) /\ ~Takes(pool[i])
             /\ Has(pool[i].todo, "lock") <=> Head(pool[i].todo) = "lock" \/ Has(todo, "lock")
             /\ ~Has(todo, "addUser") /\ ~Has(todo, "removeUser")
  <2>1. pool[i].todo \in Seq({"lock", "deauthenticateAll"}) /\ pool[i].todo # <<>>
    BY <1>3, <1>7, FirstUserCall
  <2>2. \A c : Has(pool[i].todo, c) <=> c = Head(pool[i].todo) \/ Has(todo, c)
    BY <1>1, <2>1, HasTail
  <2>3. \A c : Has(pool[i].todo, c) => c \in {"lock", "deauthenticateAll"}
    BY <2>1 DEF Has
  <2> QED
    BY <2>2, <2>3 DEF Adds, Takes
<1>8. CASE HandleLock(i)
  <2>1. /\ Head(pool[i].todo) = "lock"
        /\ accountLocked' = [accountLocked EXCEPT ![u] = pool[i].cur.locked]
    BY <1>2, <1>8 DEF HandleLock, SetLockAccount
  <2>2. accountLocked'[u] = pool[i].cur.locked
    BY <1>0, <2>1
  <2>3. \A w \in Users : w # u => accountLocked'[w] = accountLocked[w]
    BY <1>0, <2>1
  <2>4. Settles(i, u, todo)
    BY <1>3, <1>7, <2>1, <2>2 DEF Settles, Decides
  <2>5. Keeps(i, todo) \/ Drops(todo)
    BY <1>7, <2>1 DEF Keeps, Drops, Deciding, Adds, Takes
  <2>6. LocksMove(i, todo)
    BY <1>3, <2>3, <2>4, <2>5 DEF LocksMove
  <2> QED
    BY <1>3, <2>6, ContinuedLocks
<1>9. CASE HandleDeauthenticateAll(i)
  <2>1. Head(pool[i].todo) = "deauthenticateAll" /\ UNCHANGED accountLocked
    BY <1>9 DEF HandleDeauthenticateAll, DeauthenticateAllDevices
  <2>2. Keeps(i, todo)
    BY <1>7, <2>1 DEF Keeps, Deciding, Adds, Takes
  <2>3. LocksMove(i, todo)
    BY <2>1, <2>2 DEF LocksMove
  <2> QED
    BY <1>3, <2>3, ContinuedLocks
<1> QED
  BY <1>5, <1>6, <1>8, <1>9

\* The router starts, listens, ends, and time passes.
LEMMA LifecycleLocks ==
  ASSUME SyncTypes, Locks, Lifecycle
  PROVE  Locks'
<1>1. CASE GetInitialData
  <2>1. /\ phase = "down" /\ phase' = "read" /\ snapshot'.users = user
        /\ UNCHANGED <<firewall, user, pool, order, missed>>
    BY <1>1 DEF GetInitialData, etcd
  <2>2. DOMAIN pool' = {}
    BY <2>1 DEF SyncTypes, RouterOK
  <2>3. Decided' /\ AddedAfter' /\ Unlocked'
    BY <2>2 DEF Decided, AddedAfter, Unlocked
  <2>4. LocksFollow' /\ CurrentUsers'
    BY <2>1 DEF LocksFollow, CurrentUsers
  <2> QED
    BY <2>3, <2>4 DEF Locks, LocksHold
<1>2. CASE SetupRouter
  <2>1. CASE Crash
    BY <2>1, CrashLocks
  <2>2. CASE ~Crash
    <3>1. /\ phase = "read" /\ phase' = "up" /\ Setup(snapshot.users, snapshot.devices, acl)
          /\ UNCHANGED <<user, pool, order, missed>>
      BY <1>2, <2>2 DEF SetupRouter, etcd
    <3>2. DOMAIN pool' = {}
      BY <3>1 DEF SyncTypes, RouterOK
    <3> SUFFICES ASSUME InOrder' PROVE LocksHold'
      BY DEF Locks
    <3>3. snapshot.users = user
      BY <3>1 DEF Locks, LocksHold, CurrentUsers, InOrder
    <3>4. \A u \in Users : accountLocked'[u] = Lock(u)'
      BY <3>1, <3>3 DEF Setup, SetupXDP, Lock
    <3>5. Decided' /\ AddedAfter' /\ Unlocked'
      BY <3>2 DEF Decided, AddedAfter, Unlocked
    <3>6. LocksFollow' /\ CurrentUsers'
      BY <3>1, <3>4 DEF LocksFollow, CurrentUsers
    <3> QED
      BY <3>5, <3>6 DEF LocksHold
  <2> QED
    BY <2>1, <2>2
<1>3. CASE RegisterEventListener
  BY <1>3, KeptLocks DEF RegisterEventListener, firewall, etcd
<1>4. CASE Restart
  BY <1>4, CrashLocks DEF Restart
<1>5. ASSUME NEW a \in Addresses, NEW to \in SessionStates, SessionLapse(a, to)
      PROVE  Locks'
  BY <1>5, KeptLocks DEF SessionLapse, Lapse, etcd, router
<1> QED
  BY <1>1, <1>2, <1>3, <1>4, <1>5 DEF Lifecycle

\* A router that has just been set up has the locks of etcd.
LEMMA InitLocks == Init => Locks
<1> SUFFICES ASSUME Init PROVE LocksHold
  BY DEF Locks
<1>1. pool = <<>> /\ phase = "up" /\ accountLocked = SetupXDP(user, device, acl).accountLocked
  BY DEF Init, SetUp
<1>2. DOMAIN pool = {}
  BY <1>1
<1>3. \A u \in Users : accountLocked[u] = Lock(u)
  BY <1>1 DEF SetupXDP, Lock
<1> QED
  BY <1>1, <1>2, <1>3
  DEF LocksHold, Decided, AddedAfter, Unlocked, LocksFollow, CurrentUsers

\* Every step keeps what the locks and the handlers of users say of etcd.
LEMMA NextLocks ==
  ASSUME SyncTypes, SyncTypes', Chain, Locks, [Next]_vars
  PROVE  Locks'
<1>1. CASE UNCHANGED vars
  BY <1>1, KeptLocks DEF vars, firewall, router
<1>2. ASSUME NEW i \in DOMAIN pool, Handle(i) PROVE Locks'
  BY <1>2, DeviceCallLocks, ReadAclLocks, UserCallLocks, RefreshLocks DEF Handle
<1> QED
  BY <1>1, <1>2, UserWriteLocks, DeviceWriteLocks, ConfigWriteLocks, LifecycleLocks DEF Next

-----------------------------------------------------------------------------
(***************************************************************************)
(* The sessions of a node that has caught up.                              *)
(***************************************************************************)

\* The kinds of write of a behaviour do not change.
LEMMA SameWorkload == [Next]_vars => (Apart' <=> Apart)
<1> SUFFICES ASSUME [Next]_vars PROVE UNCHANGED workload
  BY DEF Apart
<1> USE DEF Publish, etcd
<1>1. CASE UNCHANGED vars
  BY <1>1 DEF vars
<1>2. CASE UserWrite \/ ConfigWrite
  BY <1>2 DEF UserWrite, ConfigWrite, SetUserLock, SetUserMfa, SetEnforceMFA, WriteUser, CreateUser,
     DeleteUser, DeleteDevices, SetUserGroupMembership, SetAcl, SetSessionInactivityTimeout
<1>3. CASE DeviceWrite
  <2>1. ASSUME NEW a, NEW new, NEW again, WriteDevice(a, new, again) PROVE UNCHANGED workload
    BY <2>1 DEF WriteDevice
  <2>2. ASSUME NEW a, NEW u, NEW k, AddDevice(u, a, k) \/ DeleteDevice(a) \/ CheckAccountLock(a)
        PROVE  UNCHANGED workload
    BY <2>2 DEF AddDevice, DeleteDevice, CheckAccountLock
  <2> QED
    BY <1>3, <2>1, <2>2 DEF DeviceWrite, UpdateDevicePublicKey, IncrementAuthenticationAttempt,
       SetDeviceAuthenticationAttempts, AuthoriseDevice, DeauthenticateDevice,
       UpdateDeviceConnectionDetails
<1>4. ASSUME NEW i \in DOMAIN pool, Handle(i) PROVE UNCHANGED workload
  <2>1. ASSUME NEW todo, Continue(i, todo) PROVE UNCHANGED workload
    BY <2>1 DEF Continue
  <2>2. Crash \/ HandleReadAcl(i) => UNCHANGED workload
    BY DEF Crash, HandleReadAcl
  <2>3. CASE HandleAddPeer(i) \/ HandleVerify(i) \/ HandleDeauthenticate(i) \/ HandleAssociate(i)
    BY <2>1, <2>3 DEF HandleAddPeer, HandleVerify, HandleDeauthenticate, HandleAssociate,
       ProceedIf, Proceed, Fail
  <2>4. CASE HandleRemovePeer(i) \/ HandleReplacePeer(i) \/ HandleAuthorise(i)
    BY <2>1, <2>2, <2>4 DEF HandleRemovePeer, HandleReplacePeer, HandleAuthorise, Proceed
  <2>5. CASE HandleChallenge(i) \/ HandleCheckLockout(i)
    BY <2>1, <2>5 DEF HandleChallenge, HandleCheckLockout
  <2>6. CASE \/ HandleAddUser(i) \/ HandleRemoveUser(i) \/ HandleLock(i)
             \/ HandleDeauthenticateAll(i) \/ HandleRefreshUser(i) \/ HandleRefresh(i)
             \/ HandleSetTimeout(i)
    BY <2>1, <2>6 DEF HandleAddUser, HandleRemoveUser, HandleLock, HandleDeauthenticateAll,
       HandleRefreshUser, HandleRefresh, HandleSetTimeout, Proceed
  <2> QED
    BY <1>4, <2>2, <2>3, <2>4, <2>5, <2>6 DEF Handle
<1>5. CASE Lifecycle
  BY <1>5 DEF Lifecycle, GetInitialData, SetupRouter, RegisterEventListener, Restart, SessionLapse,
     Crash
<1> QED
  BY <1>1, <1>2, <1>3, <1>4, <1>5 DEF Next

\* In step in every aspect, that of locked out devices where it can be.
Following ==
  /\ InStep("node") /\ InStep("session")
  /\ Apart => InStep("lockout")

\* The inductive invariant of the sessions.
SessionsInv ==
  SyncTypes /\ Chain /\ (InOrder => IInv) /\ Mild /\ Following /\ Locks

\* It holds of a router that has just been set up.
LEMMA InitSessions == Init => SessionsInv
BY InitTypes, InitChain, InitEntries, InitMild, InitFollow, InitLocks
DEF SessionsInv, Following, Aspects

\* Every step keeps it.
LEMMA NextSessions == SessionsInv /\ [Next]_vars => SessionsInv'
<1> SUFFICES ASSUME SessionsInv, [Next]_vars PROVE SessionsInv'
  OBVIOUS
<1> USE DEF SessionsInv
<1>1. SyncTypes' /\ Chain' /\ Mild'
  BY NextTypes, NextChain, NextMild
<1>2. (InOrder => IInv)'
  BY <1>1, NextEntries
<1>3. InStep("node")' /\ InStep("session")'
  BY NextFollow DEF Following, Aspects
<1>4. Apart => InStep("lockout")'
  BY NextFollow DEF Following, Aspects
<1>5. Following'
  BY <1>3, <1>4, SameWorkload DEF Following
<1> QED
  BY <1>1, <1>2, <1>5, NextLocks

\* Of a node that has caught up every account is locked exactly if etcd has it so.
LocksMirrored ==
  Settled /\ InOrder => \A u \in Users : accountLocked[u] = Lock(u)

\* Without handlers the locks are those of etcd.
LEMMA MirroredWhereFollowed == SessionsInv => LocksMirrored
<1> SUFFICES ASSUME SessionsInv, Settled, InOrder, NEW u \in Users
             PROVE  accountLocked[u] = Lock(u)
  BY DEF LocksMirrored
<1>1. phase = "up" /\ DOMAIN pool = {}
  BY DEF Settled
<1> QED
  BY <1>1 DEF SessionsInv, Locks, LocksHold, LocksFollow

\* Without handlers every entry is right in every aspect in which it follows.
LEMMA HoldsWhereFollowed ==
  ASSUME SessionsInv, Settled, InOrder, NEW a \in Addresses, Known(a)
  PROVE  /\ device[a] # Absent /\ device[a].owner = xdpDevices[a].user
         /\ Holds("node", a) /\ Holds("session", a)
         /\ Apart => Holds("lockout", a)
<1>1. DOMAIN pool = {}
  BY DEF Settled
<1>2. device[a] # Absent /\ device[a].owner = xdpDevices[a].user
  BY <1>1 DEF SessionsInv, Chain, InOrder, Line, Standing
<1>3. ASSUME NEW x, InStep(x) PROVE Holds(x, a)
  BY <1>1, <1>2, <1>3 DEF InStep, Done
<1> QED
  BY <1>2, <1>3 DEF SessionsInv, Following

\* So the usable ones are those of etcd.
LEMMA BackedWhereFollowed == SessionsInv => SessionsBacked
<1> SUFFICES ASSUME SessionsInv, Settled, InOrder, NEW a \in Addresses, IsAuthed(a)
             PROVE  LET d == device[a] IN
                    /\ d # Absent
                    /\ d.owner = xdpDevices[a].user
                    /\ d.node = xdpDevices[a].node
                    /\ d.authorised
                    /\ Apart => d.attempts <= Lockout
                    /\ user[d.owner] # Absent
                    /\ ~user[d.owner].locked
  BY DEF SessionsBacked
<1>1. /\ Known(a) /\ accountLocked[xdpDevices[a].user] = FALSE
      /\ xdpDevices[a].session = "live"
  BY DEF IsAuthed
<1>2. device[a] # Absent /\ device[a].owner = xdpDevices[a].user
  BY <1>1, HoldsWhereFollowed
<1>3. device[a].node = xdpDevices[a].node
  BY <1>1, HoldsWhereFollowed DEF Holds
<1>4. device[a].authorised = TRUE
  <2>1. Holds("session", a)
    BY <1>1, HoldsWhereFollowed
  <2> QED
    BY <1>1, <2>1 DEF Holds
<1>5. Apart => device[a].attempts <= Lockout
  <2>1. Apart => Holds("lockout", a)
    BY <1>1, HoldsWhereFollowed
  <2> QED
    BY <1>1, <2>1 DEF Holds
<1>6. device[a].owner \in Users
  BY <1>2, DeviceThere DEF DeviceRecord, SessionsInv
<1>7. accountLocked[device[a].owner] = Lock(device[a].owner)
  BY <1>6, MirroredWhereFollowed DEF LocksMirrored
<1>8. user[device[a].owner] # Absent /\ user[device[a].owner].locked = FALSE
  BY <1>1, <1>2, <1>7, FirewallSentinels DEF Lock
<1> QED
  BY <1>2, <1>3, <1>4, <1>5, <1>8

\* What userChanges, RefreshConfiguration and Setup make of the locks together:
\* as long as no handler overtakes an earlier one of the same record, a node
\* that has caught up has the accounts of exactly the users etcd has, each
\* locked exactly if etcd has it so.
THEOREM LocksTheorem == Spec => []LocksMirrored
BY InitSessions, NextSessions, MirroredWhereFollowed, PTL DEF Spec

\* The usable sessions of such a node are those etcd still grants, whatever is
\* written, for any number of users, devices, nodes and pending events: what
\* deviceChanges, userChanges, a refresh, the timeout and a restart do to a
\* session together leaves none behind that should have ended.
THEOREM SessionsTheorem == Spec => []SessionsBacked
BY InitSessions, NextSessions, BackedWhereFollowed, PTL DEF Spec
=============================================================================
