---------------------------- MODULE MirrorProofs ----------------------------
(***************************************************************************)
(* As long as the handlers run one after the other, a router that has      *)
(* caught up holds the peers, users, locks and access lists of etcd        *)
(* (MirrorTheorem), no call ends the process (ReplaceTheorem), and a login *)
(* nothing has ended can be used (LoginsTheorem).                          *)
(*                                                                         *)
(* The pool of handlers is read as the part of etcd's history the router   *)
(* has not seen yet: between two handlers etcd had certain users and       *)
(* devices, the first handler brings the router from the first of these    *)
(* views to the second, and the last view is what etcd has now.            *)
(***************************************************************************)
EXTENDS SessionsProofs

(* What etcd had at one point of its history: the users, the owner and the *)
(* key of every device, and the devices whose owner has not been deleted   *)
(* since they were added.  A device without a key is none.                 *)
View ==
  [users: SUBSET Users,
   owner: [Addresses -> Users \cup {Absent}],
   key: [Addresses -> Keys \cup {Absent}],
   kept: SUBSET Addresses]

\* The handler is of the device with address a, or of user u.
Device(h, a) == h.topic = "devices" /\ h.id = a

User(h, u) == h.topic = "users" /\ h.id = u

\* What etcd had after the write whose handler is h, or what is left of h.
After(x, h) ==
  [users |-> {u \in Users : \/ User(h, u) /\ Adds(h)
                            \/ u \in x.users /\ ~(User(h, u) /\ Takes(h))},
   owner |-> [a \in Addresses |->
                IF Device(h, a) /\ Creates(h) THEN h.cur.owner ELSE x.owner[a]],
   key |-> [a \in Addresses |->
              IF ~Device(h, a) THEN x.key[a] ELSE IF Removes(h) THEN Absent ELSE h.cur.key],
   kept |-> {a \in Addresses :
               \/ Device(h, a) /\ Creates(h)
               \/ /\ a \in x.kept
                  /\ ~(Device(h, a) /\ Removes(h))
                  /\ ~(h.topic = "users" /\ Takes(h) /\ x.owner[a] = h.id)}]

Rekeys(h) == Has(h.todo, "replacePeer")

\* The write whose handler is h was one of what etcd had.
Fits(x, h) ==
  /\ h.topic = "users" => (h.id \in x.users <=> ~Adds(h))
  /\ h.topic = "devices" /\ Creates(h) => x.key[h.id] = Absent /\ h.cur.owner \in x.users
  /\ h.topic = "devices" /\ ~Creates(h) =>
       /\ x.owner[h.id] = h.cur.owner
       /\ x.key[h.id] = IF Rekeys(h) THEN h.old ELSE h.cur.key
       /\ Rekeys(h) => Head(h.todo) = "replacePeer" /\ ~Has(Tail(h.todo), "replacePeer")

\* No two devices have the same key; the owners of those kept are there.
Sound(x) ==
  /\ \A a, b \in Addresses : x.key[a] = x.key[b] /\ x.key[a] # Absent => a = b
  /\ \A a \in x.kept : x.key[a] # Absent /\ x.owner[a] \in x.users

\* It is what etcd has now.
Matches(x) ==
  /\ \A u \in Users : u \in x.users <=> user[u] # Absent
  /\ \A a \in Addresses :
       /\ device[a] = Absent => x.key[a] = Absent
       /\ device[a] # Absent =>
            /\ x.key[a] = device[a].key /\ x.owner[a] = device[a].owner
            /\ a \in x.kept \/ device[a].owner \in deleting

\* The views between the handlers, the last one after all of them.
Story(v) ==
  /\ v \in [1..(Len(pool) + 1) -> View]
  /\ \A p \in 1..Len(pool) : Fits(v[p], pool[p]) /\ v[p + 1] = After(v[p], pool[p])
  /\ \A p \in 1..(Len(pool) + 1) : Sound(v[p])
  /\ Matches(v[Len(pool) + 1])

\* The router has no device with address a.
Forgotten(a) ==
  /\ ~Known(a)
  /\ \A k \in Keys : peers[k] # a
  /\ \A u \in Users : a \notin Tracked(u)

\* What it has of it is the device of user u with key k.
Remembered(a, u, k) ==
  /\ u \in Users /\ addressesToUsers[a] = u
  /\ usersToAddresses[u] # Absent
  /\ Known(a) => xdpDevices[a].user = u
  /\ \A j \in Keys : peers[j] = a => j = k
  /\ \A w \in Users : a \in Tracked(w) => w = u /\ usersToAddresses[w][a] = k

\* And it has all of it.
Entire(a, u, k) == Known(a) /\ peers[k] = a /\ a \in Tracked(u)

\* The router has what etcd had.
Reflects(x) ==
  /\ \A u \in x.users : accountLocked[u] # Absent
  /\ \A a \in Addresses :
       /\ x.key[a] = Absent => Forgotten(a)
       /\ x.key[a] # Absent => Remembered(a, x.owner[a], x.key[a])
       /\ a \in x.kept => Entire(a, x.owner[a], x.key[a])

\* Only the first handler has made a call.
OneByOne ==
  \A i \in DOMAIN pool : pool[i].started \/ pool[i].todo = <<"addUser">> => i = 1

\* Of a user who is gone the last handler is the one that removes it.
GoneFollow ==
  \A u \in Users : user[u] = Absent =>
    \E i \in 0..Len(pool) :
      /\ i = 0 => accountLocked[u] = Absent
      /\ i # 0 => OfUser(i, u) /\ Takes(pool[i])
      /\ \A j \in DOMAIN pool : i < j => ~OfUser(j, u)

\* A handler that reads the access list of u anew.
Refreshes(h, u) == h.topic = "acls" \/ (h.topic = "membership" /\ h.id = u)

Unsettled(u) ==
  \E i \in DOMAIN pool : Refreshes(pool[i], u) \/ (User(pool[i], u) /\ Takes(pool[i]))

\* Where none is to come, the access lists are those of etcd, as is the one
\* the handler of a new user has read.
AclsFollow ==
  \A u \in Users : user[u] # Absent /\ ~Unsettled(u) =>
    /\ accountLocked[u] # Absent => policies[u] = acl[u]
    /\ \A i \in DOMAIN pool :
         OfUser(i, u) /\ pool[i].todo = <<"addUser">> => pool[i].acl = acl[u]

\* A session of user u at address a that can be used.
Open(a, u) ==
  /\ Known(a) /\ xdpDevices[a].user = u /\ xdpDevices[a].session = "live"
  /\ accountLocked[u] = FALSE

\* A login nothing has ended is of a device and a user etcd lets in.
Granted ==
  \A a \in Addresses : granted[a] =>
    /\ phase = "up"
    /\ device[a] # Absent /\ device[a].authorised /\ device[a].attempts <= Lockout
    /\ user[device[a].owner] # Absent /\ ~user[device[a].owner].locked

\* It has been given, or its handler is still to come, and nothing after that
\* takes it back.
LoginsFollow(v) ==
  \A a \in Addresses : granted[a] /\ device[a].owner \notin deleting =>
    \E i \in 0..Len(pool) :
      /\ i = 0 => Open(a, device[a].owner)
      /\ i # 0 => /\ Of(i, a) /\ pool[i].todo = <<"authorise">>
                  /\ pool[i].cur.owner = device[a].owner
                  /\ a \in v[i].kept
      /\ \A j \in DOMAIN pool : i < j =>
           /\ Of(j, a) => pool[j].todo = <<"replacePeer">>
           /\ ~OfUser(j, device[a].owner)

\* No two devices of etcd have the same key.
KeysDiffer ==
  \A a, b \in Addresses :
    device[a] # Absent /\ device[b] # Absent /\ device[a].key = device[b].key => a = b

\* The router follows etcd handler by handler.
Follows(v) ==
  /\ GoneFollow /\ AclsFollow
  /\ Story(v) /\ Reflects(v[1]) /\ LoginsFollow(v)

Mirror == OneByOne /\ (phase = "up" => \E v : Follows(v))

\* The inductive invariant of the mirror.
MirrorInv == SessionsInv /\ KeysDiffer /\ Granted /\ (Serial => Mirror)

-----------------------------------------------------------------------------
(***************************************************************************)
(* The history.                                                            *)
(***************************************************************************)

\* A write makes a view of a view.
LEMMA AfterView ==
  ASSUME NEW x \in View, NEW h, HandlerOK(h)
  PROVE  After(x, h) \in View
<1>1. ASSUME NEW a \in Addresses, Device(h, a) PROVE h.cur.owner \in Users /\ h.cur.key \in Keys
  BY <1>1 DEF Device, HandlerOK, DeviceRecord
<1>2. /\ x.users \in SUBSET Users /\ x.kept \in SUBSET Addresses
      /\ x.owner \in [Addresses -> Users \cup {Absent}]
      /\ x.key \in [Addresses -> Keys \cup {Absent}]
  BY DEF View
<1>3. After(x, h).users \in SUBSET Users /\ After(x, h).kept \in SUBSET Addresses
  BY DEF After
<1>4. After(x, h).owner \in [Addresses -> Users \cup {Absent}]
  BY <1>1, <1>2 DEF After
<1>5. After(x, h).key \in [Addresses -> Keys \cup {Absent}]
  BY <1>1, <1>2 DEF After
<1> QED
  BY <1>3, <1>4, <1>5 DEF After, View

\* What it makes of the parts.
LEMMA AfterParts ==
  ASSUME NEW x \in View, NEW h, NEW y, y = After(x, h)
  PROVE  /\ \A u \in Users : u \in y.users <=>
              (User(h, u) /\ Adds(h)) \/ (u \in x.users /\ ~(User(h, u) /\ Takes(h)))
         /\ \A a \in Addresses :
              /\ y.owner[a] = IF Device(h, a) /\ Creates(h) THEN h.cur.owner ELSE x.owner[a]
              /\ y.key[a] = IF ~Device(h, a) THEN x.key[a]
                            ELSE IF Removes(h) THEN Absent ELSE h.cur.key
              /\ a \in y.kept <=>
                   \/ Device(h, a) /\ Creates(h)
                   \/ /\ a \in x.kept
                      /\ ~(Device(h, a) /\ Removes(h))
                      /\ ~(h.topic = "users" /\ Takes(h) /\ x.owner[a] = h.id)
BY DEF After

\* A handler of a device is about that device alone.
LEMMA AfterDevice ==
  ASSUME NEW x \in View, NEW h, h.topic = "devices", NEW y, y = After(x, h)
  PROVE  /\ \A u \in Users : u \in y.users <=> u \in x.users
         /\ \A a \in Addresses : a # h.id =>
              /\ y.owner[a] = x.owner[a] /\ y.key[a] = x.key[a]
              /\ a \in y.kept <=> a \in x.kept
         /\ \A a \in Addresses : a = h.id =>
              /\ y.owner[a] = IF Creates(h) THEN h.cur.owner ELSE x.owner[a]
              /\ y.key[a] = IF Removes(h) THEN Absent ELSE h.cur.key
              /\ a \in y.kept <=> Creates(h) \/ (a \in x.kept /\ ~Removes(h))
<1>1. \A a \in Addresses : Device(h, a) <=> a = h.id
  BY DEF Device
<1>2. \A u \in Users : ~User(h, u)
  BY DEF User
<1>3. \A u \in Users : u \in y.users <=> u \in x.users
  BY <1>2, AfterParts
<1>4. ASSUME NEW a \in Addresses
      PROVE  /\ y.owner[a] = IF Device(h, a) /\ Creates(h) THEN h.cur.owner ELSE x.owner[a]
             /\ y.key[a] = IF ~Device(h, a) THEN x.key[a]
                           ELSE IF Removes(h) THEN Absent ELSE h.cur.key
             /\ a \in y.kept <=>
                  \/ Device(h, a) /\ Creates(h)
                  \/ a \in x.kept /\ ~(Device(h, a) /\ Removes(h))
  BY AfterParts
<1> QED
  BY <1>1, <1>3, <1>4

\* Any other handler is about no device, but for those of a user it removes.
LEMMA AfterOther ==
  ASSUME NEW x \in View, NEW h, h.topic # "devices", NEW y, y = After(x, h)
  PROVE  /\ \A u \in Users : u \in y.users <=>
              (User(h, u) /\ Adds(h)) \/ (u \in x.users /\ ~(User(h, u) /\ Takes(h)))
         /\ \A a \in Addresses :
              /\ y.owner[a] = x.owner[a] /\ y.key[a] = x.key[a]
              /\ a \in y.kept <=>
                   a \in x.kept /\ ~(h.topic = "users" /\ Takes(h) /\ x.owner[a] = h.id)
<1>1. \A a \in Addresses : ~Device(h, a)
  BY DEF Device
<1> QED
  BY <1>1, AfterParts

\* The views a write adds to the history, from x to what etcd has then.
Adding(x, hs, w) ==
  /\ w \in [1..(Len(hs) + 1) -> View]
  /\ w[1] = x
  /\ \A n \in 1..Len(hs) : Fits(w[n], hs[n]) /\ w[n + 1] = After(w[n], hs[n])
  /\ \A n \in 1..(Len(hs) + 1) : Sound(w[n])
  /\ Matches(w[Len(hs) + 1])'

\* They go to its end.
LEMMA StoryGrows ==
  ASSUME SyncTypes, NEW v, Story(v), NEW R, NEW hs \in Seq(R), pool' = pool \o hs,
         NEW w, Adding(v[Len(pool) + 1], hs, w)
  PROVE  \E v2 : Story(v2)' /\ \A p \in 1..(Len(pool) + 1) : v2[p] = v[p]
<1>1. PICK l \in Nat, m \in Nat : l = Len(pool) /\ m = Len(hs)
  BY DEF SyncTypes, HandlersOK, PoolOK
<1>2. pool \in Seq(HandlerRecord)
  BY DEF SyncTypes, HandlersOK, PoolOK
<1>3. Len(pool') = l + m
  <2>1. Len(pool \o hs) = l + m
    BY <1>1, <1>2
  <2> QED
    BY <2>1
<1>4. \A k \in 1..(l + m) : pool'[k] = IF k <= l THEN pool[k] ELSE hs[k - l]
  <2>1. pool \in Seq(HandlerRecord \cup R) /\ hs \in Seq(HandlerRecord \cup R)
    BY <1>2
  <2>2. \A k \in 1..(l + m) : (pool \o hs)[k] = IF k <= l THEN pool[k] ELSE hs[k - l]
    BY <1>1, <2>1, ConcatProperties
  <2> QED
    BY <2>2
<1>5. /\ v \in [1..(l + 1) -> View] /\ w \in [1..(m + 1) -> View] /\ w[1] = v[l + 1]
      /\ \A p \in 1..l : Fits(v[p], pool[p]) /\ v[p + 1] = After(v[p], pool[p])
      /\ \A n \in 1..m : Fits(w[n], hs[n]) /\ w[n + 1] = After(w[n], hs[n])
      /\ \A p \in 1..(l + 1) : Sound(v[p])
      /\ \A n \in 1..(m + 1) : Sound(w[n])
      /\ Matches(w[m + 1])'
  BY <1>1 DEF Story, Adding
<1>6. PICK v2 : v2 = [p \in 1..(l + m + 1) |-> IF p <= l THEN v[p] ELSE w[p - l]]
  OBVIOUS
<1>7. \A p \in 1..(l + 1) : v2[p] = v[p]
  BY <1>5, <1>6
<1>8. \A n \in 1..(m + 1) : v2[l + n] = w[n]
  <2> SUFFICES ASSUME NEW n \in 1..(m + 1) PROVE v2[l + n] = w[n]
    OBVIOUS
  <2>1. l + n \in 1..(l + m + 1) /\ ~(l + n <= l) /\ (l + n) - l = n
    OBVIOUS
  <2> QED
    BY <1>6, <2>1
<1>9. ASSUME NEW p \in 1..(l + m + 1) PROVE v2[p] \in View /\ Sound(v2[p])
  <2>1. CASE p <= l
    BY <1>5, <1>7, <2>1
  <2>2. CASE ~(p <= l)
    <3>1. PICK n \in 1..(m + 1) : p = l + n
      <4>1. p - l \in 1..(m + 1) /\ p = l + (p - l)
        BY <2>2
      <4> QED
        BY <4>1
    <3> QED
      BY <1>5, <1>8, <3>1
  <2> QED
    BY <2>1, <2>2
<1>10. ASSUME NEW p \in 1..(l + m)
       PROVE  Fits(v2[p], pool'[p]) /\ v2[p + 1] = After(v2[p], pool'[p])
  <2>1. CASE p <= l
    <3>1. p \in 1..l /\ p \in 1..(l + 1) /\ p + 1 \in 1..(l + 1)
      BY <2>1
    <3>2. v2[p] = v[p] /\ v2[p + 1] = v[p + 1] /\ pool'[p] = pool[p]
      BY <1>4, <1>7, <2>1, <3>1
    <3> QED
      BY <1>5, <3>1, <3>2
  <2>2. CASE ~(p <= l)
    <3>1. PICK n \in 1..m : p = l + n
      <4>1. p - l \in 1..m /\ p = l + (p - l)
        BY <2>2
      <4> QED
        BY <4>1
    <3>2. n \in 1..(m + 1) /\ n + 1 \in 1..(m + 1) /\ p + 1 = l + (n + 1) /\ p - l = n
      BY <3>1
    <3>3. v2[p] = w[n] /\ v2[p + 1] = w[n + 1]
      BY <1>8, <3>1, <3>2
    <3>4. pool'[p] = hs[n]
      BY <1>4, <2>2, <3>2
    <3> QED
      BY <1>5, <3>3, <3>4
  <2> QED
    BY <2>1, <2>2
<1>11. v2 \in [1..(l + m + 1) -> View]
  BY <1>6, <1>9
<1>12. v2[l + m + 1] = w[m + 1]
  <2>1. m + 1 \in 1..(m + 1) /\ l + (m + 1) = l + m + 1
    OBVIOUS
  <2> QED
    BY <1>8, <2>1
<1>13. Story(v2)'
  BY <1>3, <1>5, <1>9, <1>10, <1>11, <1>12 DEF Story
<1> QED
  BY <1>1, <1>7, <1>13

\* The first handler ends: the router has seen its write.
LEMMA StoryEnds ==
  ASSUME SyncTypes, NEW v, Story(v), 1 \in DOMAIN pool, UNCHANGED <<user, device, deleting>>,
         pool' = RemoveAt(pool, 1)
  PROVE  \E v2 : Story(v2)' /\ \A p \in 1..Len(pool) : v2[p] = v[p + 1]
<1>1. PICK l \in Nat : l = Len(pool)
  BY DEF SyncTypes, HandlersOK, PoolOK
<1>2. pool \in Seq(HandlerRecord) /\ 1 <= l /\ DOMAIN pool = 1..l
  BY <1>1 DEF SyncTypes, HandlersOK, PoolOK
<1>3. /\ v \in [1..(l + 1) -> View]
      /\ \A p \in 1..l : Fits(v[p], pool[p]) /\ v[p + 1] = After(v[p], pool[p])
      /\ \A p \in 1..(l + 1) : Sound(v[p])
  BY <1>1 DEF Story
<1>4. Matches(v[l + 1])'
  <2>1. Matches(v[l + 1])
    BY <1>1 DEF Story
  <2> QED
    BY <2>1 DEF Matches
<1>5. /\ Len(pool') = l - 1 /\ \A k \in 1..(l - 1) : pool'[k] = pool[k + 1]
  <2>1. \A k \in 1..(l - 1) : ~(k < 1)
    OBVIOUS
  <2>2. /\ Len(RemoveAt(pool, 1)) = l - 1
        /\ \A k \in 1..(l - 1) : RemoveAt(pool, 1)[k] = IF k < 1 THEN pool[k] ELSE pool[k + 1]
    BY <1>1, <1>2, Removed
  <2> QED
    BY <2>1, <2>2
<1>6. PICK v2 : v2 = [p \in 1..l |-> v[p + 1]]
  OBVIOUS
<1>7. \A p \in 1..l : v2[p] = v[p + 1]
  BY <1>6
<1>8. Len(pool') + 1 = l
  BY <1>5
<1>9. \A p \in 1..(l - 1) : Fits(v2[p], pool'[p]) /\ v2[p + 1] = After(v2[p], pool'[p])
  <2> SUFFICES ASSUME NEW p \in 1..(l - 1)
               PROVE  Fits(v2[p], pool'[p]) /\ v2[p + 1] = After(v2[p], pool'[p])
    OBVIOUS
  <2>1. p \in 1..l /\ p + 1 \in 1..l
    OBVIOUS
  <2>2. v2[p] = v[p + 1] /\ v2[p + 1] = v[(p + 1) + 1] /\ pool'[p] = pool[p + 1]
    BY <1>5, <1>7, <2>1
  <2> QED
    BY <1>3, <2>1, <2>2
<1>10. v2 \in [1..l -> View] /\ \A p \in 1..l : Sound(v2[p])
  BY <1>3, <1>6
<1>11. v2[l] = v[l + 1]
  BY <1>2, <1>7
<1>12. Story(v2)'
  BY <1>4, <1>5, <1>8, <1>9, <1>10, <1>11 DEF Story
<1> QED
  BY <1>1, <1>7, <1>12

\* It goes on as n, which has yet to bring the router from x to the view after
\* its write.
LEMMA StoryGoesOn ==
  ASSUME SyncTypes, NEW v, Story(v), 1 \in DOMAIN pool, UNCHANGED <<user, device, deleting>>,
         NEW x \in View, Sound(x), NEW n, Fits(x, n), v[2] = After(x, n),
         Len(pool') = Len(pool), pool'[1] = n,
         \A k \in DOMAIN pool : k # 1 => pool'[k] = pool[k]
  PROVE  \E v2 : /\ Story(v2)' /\ v2[1] = x
                 /\ \A p \in 2..(Len(pool) + 1) : v2[p] = v[p]
<1>1. PICK l \in Nat : l = Len(pool)
  BY DEF SyncTypes, HandlersOK, PoolOK
<1>2. pool \in Seq(HandlerRecord) /\ 1 <= l /\ DOMAIN pool = 1..l
  BY <1>1 DEF SyncTypes, HandlersOK, PoolOK
<1>3. /\ v \in [1..(l + 1) -> View]
      /\ \A p \in 1..l : Fits(v[p], pool[p]) /\ v[p + 1] = After(v[p], pool[p])
      /\ \A p \in 1..(l + 1) : Sound(v[p])
  BY <1>1 DEF Story
<1>4. Matches(v[l + 1])'
  <2>1. Matches(v[l + 1])
    BY <1>1 DEF Story
  <2> QED
    BY <2>1 DEF Matches
<1>5. Len(pool') = l /\ \A k \in 2..l : pool'[k] = pool[k]
  BY <1>1, <1>2
<1>6. PICK v2 : v2 = [v EXCEPT ![1] = x]
  OBVIOUS
<1>7. v2[1] = x /\ \A p \in 2..(l + 1) : v2[p] = v[p]
  BY <1>2, <1>3, <1>6
<1>8. v2 \in [1..(l + 1) -> View] /\ \A p \in 1..(l + 1) : Sound(v2[p])
  BY <1>3, <1>6
<1>9. \A p \in 1..l : Fits(v2[p], pool'[p]) /\ v2[p + 1] = After(v2[p], pool'[p])
  <2> SUFFICES ASSUME NEW p \in 1..l
               PROVE  Fits(v2[p], pool'[p]) /\ v2[p + 1] = After(v2[p], pool'[p])
    OBVIOUS
  <2>1. CASE p = 1
    <3>1. v2[p + 1] = v[2]
      BY <1>2, <1>7, <2>1
    <3> QED
      BY <1>7, <2>1, <3>1
  <2>2. CASE p # 1
    <3>1. p \in 2..l /\ p \in 2..(l + 1) /\ p + 1 \in 2..(l + 1)
      BY <2>2
    <3>2. v2[p] = v[p] /\ v2[p + 1] = v[p + 1] /\ pool'[p] = pool[p]
      BY <1>5, <1>7, <3>1
    <3> QED
      BY <1>3, <3>2
  <2> QED
    BY <2>1, <2>2
<1>10. v2[l + 1] = v[l + 1]
  BY <1>2, <1>7
<1>11. Story(v2)'
  BY <1>4, <1>5, <1>8, <1>9, <1>10 DEF Story
<1> QED
  BY <1>1, <1>7, <1>11

-----------------------------------------------------------------------------
(***************************************************************************)
(* The router.                                                             *)
(***************************************************************************)

\* An operation leaves what the router has of address b.
SameAt(b) ==
  /\ Known(b)' <=> Known(b)
  /\ Known(b) => xdpDevices'[b].user = xdpDevices[b].user
  /\ addressesToUsers'[b] = addressesToUsers[b]
  /\ \A j \in Keys : peers'[j] = b <=> peers[j] = b
  /\ \A w \in Users :
       /\ b \in Tracked(w)' <=> b \in Tracked(w)
       /\ b \in Tracked(w) => usersToAddresses'[w][b] = usersToAddresses[w][b]

\* No user loses the map of its addresses.
MapsStay == \A w \in Users : usersToAddresses[w] # Absent => usersToAddresses'[w] # Absent

LEMMA SameReflects ==
  ASSUME NEW b \in Addresses, SameAt(b), MapsStay
  PROVE  /\ Forgotten(b) => Forgotten(b)'
         /\ \A u, k : Remembered(b, u, k) => Remembered(b, u, k)'
         /\ \A u \in Users : \A k \in Keys : Entire(b, u, k) => Entire(b, u, k)'
<1>1. Forgotten(b) => Forgotten(b)'
  BY DEF SameAt, Forgotten
<1>2. ASSUME NEW u, NEW k, Remembered(b, u, k) PROVE Remembered(b, u, k)'
  BY <1>2 DEF SameAt, MapsStay, Remembered
<1>3. ASSUME NEW u \in Users, NEW k \in Keys, Entire(b, u, k) PROVE Entire(b, u, k)'
  BY <1>3 DEF SameAt, Entire
<1> QED
  BY <1>1, <1>2, <1>3

\* A view and the next one agree about address b.
Alike(x, y, b) ==
  /\ y.key[b] = x.key[b] /\ (x.key[b] # Absent => y.owner[b] = x.owner[b])
  /\ b \in y.kept => b \in x.kept

\* The router reflects the next view if it does where something changed.
LEMMA ReflectsNext ==
  ASSUME NEW x \in View, Sound(x), Reflects(x), NEW y \in View, MapsStay,
         \A u \in y.users : accountLocked'[u] # Absent,
         \A b \in Addresses :
           \/ SameAt(b) /\ Alike(x, y, b)
           \/ /\ y.key[b] = Absent => Forgotten(b)'
              /\ y.key[b] # Absent => Remembered(b, y.owner[b], y.key[b])'
              /\ b \in y.kept => Entire(b, y.owner[b], y.key[b])'
  PROVE  Reflects(y)'
<1> SUFFICES ASSUME NEW b \in Addresses
             PROVE  /\ y.key[b] = Absent => Forgotten(b)'
                    /\ y.key[b] # Absent => Remembered(b, y.owner[b], y.key[b])'
                    /\ b \in y.kept => Entire(b, y.owner[b], y.key[b])'
  BY DEF Reflects
<1>1. CASE SameAt(b) /\ Alike(x, y, b)
  <2>1. /\ x.key[b] = Absent => Forgotten(b)
        /\ x.key[b] # Absent => Remembered(b, x.owner[b], x.key[b])
        /\ b \in x.kept => Entire(b, x.owner[b], x.key[b])
    BY DEF Reflects
  <2>2. x.key[b] \in Keys \cup {Absent}
    BY DEF View
  <2>3. x.key[b] # Absent => x.owner[b] \in Users
    BY <2>1 DEF Remembered
  <2>4. b \in x.kept => x.key[b] # Absent
    BY DEF Sound
  <2>5. y.key[b] = Absent => Forgotten(b)'
    BY <1>1, <2>1, SameReflects DEF Alike
  <2>6. y.key[b] # Absent => Remembered(b, y.owner[b], y.key[b])'
    BY <1>1, <2>1, SameReflects DEF Alike
  <2>7. b \in y.kept => Entire(b, y.owner[b], y.key[b])'
    BY <1>1, <2>1, <2>2, <2>3, <2>4, SameReflects DEF Alike
  <2> QED
    BY <2>5, <2>6, <2>7
<1> QED
  BY <1>1

\* Calls that keep the peers, and the owners of the entries.
LEMMA ReflectsKept ==
  ASSUME NEW x \in View, Sound(x), Reflects(x),
         UNCHANGED <<peers, usersToAddresses, addressesToUsers>>,
         \A b \in Addresses : Known(b)' <=> Known(b),
         \A b \in Addresses : Known(b) =>
           xdpDevices'[b].user \in {xdpDevices[b].user, x.owner[b]},
         \A u \in x.users : accountLocked[u] # Absent => accountLocked'[u] # Absent
  PROVE  Reflects(x)'
<1>1. \A u \in Users : Tracked(u)' = Tracked(u)
  BY DEF Tracked
<1>2. MapsStay
  BY DEF MapsStay
<1>3. \A u \in x.users : accountLocked'[u] # Absent
  BY DEF Reflects
<1>4. ASSUME NEW b \in Addresses PROVE SameAt(b) /\ Alike(x, x, b)
  <2>1. Known(b) => xdpDevices[b].user = x.owner[b]
    BY DEF Reflects, Forgotten, Remembered
  <2> QED
    BY <1>1, <2>1 DEF SameAt, Alike
<1> QED
  BY <1>2, <1>3, <1>4, ReflectsNext

\* The map of a user after an address was entered.
LEMMA TrackingParts ==
  ASSUME FirewallTypeOK, NEW u \in Users, NEW a \in Addresses, NEW k \in Keys,
         usersToAddresses' = Tracking(u, a, k)
  PROVE  /\ usersToAddresses'[u] # Absent /\ usersToAddresses'[u][a] = k
         /\ \A w \in Users : w # u => usersToAddresses'[w] = usersToAddresses[w]
         /\ \A b \in Addresses : b # a =>
              /\ b \in Tracked(u)' <=> b \in Tracked(u)
              /\ b \in Tracked(u) => usersToAddresses'[u][b] = usersToAddresses[u][b]
<1> USE FirewallSentinels
<1>1. PICK old : old = IF usersToAddresses[u] = Absent THEN NoAddresses ELSE usersToAddresses[u]
  OBVIOUS
<1>2. old \in [Addresses -> Keys \cup {Absent}]
  BY <1>1 DEF FirewallTypeOK, NoAddresses
<1>3. PICK new : new = [old EXCEPT ![a] = k]
  OBVIOUS
<1>4. /\ new \in [Addresses -> Keys \cup {Absent}] /\ new[a] = k
      /\ \A b \in Addresses : b # a => new[b] = old[b]
  BY <1>2, <1>3
<1>5. usersToAddresses' = [usersToAddresses EXCEPT ![u] = new]
  BY <1>1, <1>3 DEF Tracking
<1>6. /\ usersToAddresses'[u] = new
      /\ \A w \in Users : w # u => usersToAddresses'[w] = usersToAddresses[w]
  BY <1>5 DEF FirewallTypeOK
<1>7. new # Absent
  BY <1>4
<1>8. ASSUME NEW b \in Addresses, b # a
      PROVE  /\ b \in Tracked(u)' <=> b \in Tracked(u)
             /\ b \in Tracked(u) => usersToAddresses'[u][b] = usersToAddresses[u][b]
  <2>1. b \in Tracked(u)' <=> old[b] # Absent
    BY <1>4, <1>6, <1>7, <1>8 DEF Tracked
  <2>2. CASE usersToAddresses[u] = Absent
    <3>1. old[b] = Absent
      BY <1>1, <2>2 DEF NoAddresses
    <3> QED
      BY <2>1, <2>2, <3>1 DEF Tracked
  <2>3. CASE usersToAddresses[u] # Absent
    <3>1. old = usersToAddresses[u]
      BY <1>1, <2>3
    <3> QED
      BY <1>4, <1>6, <1>8, <2>1, <2>3, <3>1 DEF Tracked
  <2> QED
    BY <2>2, <2>3
<1> QED
  BY <1>4, <1>6, <1>7, <1>8

\* A key of address a is no other's peer.
LEMMA PeerOf ==
  ASSUME NEW x \in View, Sound(x), Reflects(x), NEW b \in Addresses, NEW j \in Keys, peers[j] = b
  PROVE  x.key[b] = j
BY DEF Reflects, Forgotten, Remembered

\* A new device is entered.
LEMMA AddPeerReflects ==
  ASSUME FirewallTypeOK, NEW x \in View, Sound(x), Reflects(x), NEW h, HandlerOK(h),
         h.topic = "devices", Creates(h), ~Removes(h), Fits(x, h), Sound(After(x, h)),
         AddPeer(h.cur.key, h.cur.owner, h.id, h.cur.node)
  PROVE  CanAddPeer(h.cur.owner, h.id) /\ Reflects(After(x, h))'
<1> USE FirewallSentinels
<1>1. PICK a \in Addresses, u \in Users, k \in Keys, node \in Nodes \cup {NoNode} :
        a = h.id /\ u = h.cur.owner /\ k = h.cur.key /\ node = h.cur.node
  BY DEF HandlerOK, DeviceRecord
<1>2. PICK y \in View : y = After(x, h)
  BY AfterView
<1>3. x.key[a] = Absent /\ u \in x.users
  BY <1>1 DEF Fits
<1>4. Forgotten(a) /\ accountLocked[u] # Absent
  BY <1>3 DEF Reflects
<1>5. CanAddPeer(u, a)
  BY <1>4 DEF CanAddPeer, Forgotten
<1>6. /\ xdpDevices' = [xdpDevices EXCEPT
                          ![a] = [user |-> u, session |-> "none", node |-> node]]
      /\ peers' = WithPeer(peers, k, a)
      /\ usersToAddresses' = Tracking(u, a, k)
      /\ addressesToUsers' = [addressesToUsers EXCEPT ![a] = u]
      /\ UNCHANGED accountLocked
  BY <1>1, <1>5 DEF AddPeer
<1>7. /\ \A w \in Users : w \in y.users <=> w \in x.users
      /\ y.key[a] = k /\ y.owner[a] = u /\ a \in y.kept
      /\ \A b \in Addresses : b # a => Alike(x, y, b)
  BY <1>1, <1>2, AfterDevice DEF Alike
<1>8. /\ usersToAddresses'[u] # Absent /\ usersToAddresses'[u][a] = k
      /\ \A w \in Users : w # u => usersToAddresses'[w] = usersToAddresses[w]
      /\ \A b \in Addresses : b # a =>
           /\ b \in Tracked(u)' <=> b \in Tracked(u)
           /\ b \in Tracked(u) => usersToAddresses'[u][b] = usersToAddresses[u][b]
  BY <1>6, TrackingParts
<1>9. MapsStay
  BY <1>8 DEF MapsStay
<1>10. \A j \in Keys : peers'[j] = IF j = k THEN a ELSE peers[j]
  BY <1>4, <1>6 DEF WithPeer, Forgotten
<1>11. ASSUME NEW b \in Addresses, b # a PROVE SameAt(b)
  <2>1. Known(b)' <=> Known(b)
    BY <1>6, <1>11 DEF Known, FirewallTypeOK
  <2>2. xdpDevices'[b] = xdpDevices[b] /\ addressesToUsers'[b] = addressesToUsers[b]
    BY <1>6, <1>11 DEF FirewallTypeOK
  <2>3. ASSUME NEW j \in Keys PROVE peers'[j] = b <=> peers[j] = b
    <3>1. j = k => peers[j] # b
      <4> SUFFICES ASSUME peers[k] = b PROVE FALSE
        OBVIOUS
      <4>1. y.key[b] = k /\ y.key[a] = k
        BY <1>7, <1>11, PeerOf DEF Alike
      <4> QED
        BY <1>2, <1>11, <4>1 DEF Sound
    <3> QED
      BY <1>10, <1>11, <3>1
  <2>4. ASSUME NEW w \in Users
        PROVE  /\ b \in Tracked(w)' <=> b \in Tracked(w)
               /\ b \in Tracked(w) => usersToAddresses'[w][b] = usersToAddresses[w][b]
    BY <1>8, <1>11 DEF Tracked
  <2> QED
    BY <2>1, <2>2, <2>3, <2>4 DEF SameAt
<1>12. Known(a)' /\ xdpDevices'[a].user = u /\ addressesToUsers'[a] = u
  <2>1. xdpDevices'[a] = [user |-> u, session |-> "none", node |-> node]
    BY <1>6 DEF FirewallTypeOK
  <2>2. xdpDevices'[a] # Absent
    <3>1. node \in Nodes \cup {NoNode}
      BY <1>1 DEF HandlerOK, DeviceRecord
    <3>2. [user |-> u, session |-> "none", node |-> node] \in FwEntry
      BY <3>1 DEF FwEntry, SessionStates
    <3> QED
      BY <2>1, <3>2, EntryAssumption
  <2> QED
    BY <1>6, <2>1, <2>2 DEF Known, FirewallTypeOK
<1>13. \A w \in Users : a \in Tracked(w)' => w = u
  BY <1>4, <1>8 DEF Forgotten, Tracked
<1>14. a \in Tracked(u)'
  BY <1>8 DEF Tracked
<1>15. \A j \in Keys : peers'[j] = a <=> j = k
  BY <1>4, <1>10 DEF Forgotten
<1>16. Remembered(a, u, k)'
  BY <1>8, <1>12, <1>13, <1>15 DEF Remembered
<1>17. Entire(a, u, k)'
  BY <1>12, <1>14, <1>15 DEF Entire
<1>18. Reflects(y)'
  <2>1. \A w \in y.users : accountLocked'[w] # Absent
    BY <1>6, <1>7 DEF Reflects, View
  <2>2. k # Absent
    OBVIOUS
  <2> QED
    BY <1>7, <1>9, <1>11, <1>16, <1>17, <2>1, <2>2, ReflectsNext
<1> QED
  BY <1>1, <1>2, <1>5, <1>18

\* A device that is gone is forgotten.
LEMMA RemovePeerReflects ==
  ASSUME FirewallTypeOK, NEW x \in View, Sound(x), Reflects(x), NEW h, HandlerOK(h),
         h.topic = "devices", Removes(h), ~Creates(h), Fits(x, h),
         RemovePeer(h.cur.key, h.id)
  PROVE  Reflects(After(x, h))'
<1> USE FirewallSentinels
<1>1. PICK a \in Addresses, u \in Users, k \in Keys : a = h.id /\ u = h.cur.owner /\ k = h.cur.key
  BY DEF HandlerOK, DeviceRecord
<1>2. PICK y \in View : y = After(x, h)
  BY AfterView
<1>3. x.key[a] = k /\ x.owner[a] = u
  <2>1. ~Rekeys(h)
    BY HasOne DEF Rekeys, Removes
  <2> QED
    BY <1>1, <2>1 DEF Fits
<1>4. Remembered(a, u, k)
  BY <1>3 DEF Reflects
<1>5. /\ \A w \in Users : w \in y.users <=> w \in x.users
      /\ y.key[a] = Absent /\ a \notin y.kept
      /\ \A b \in Addresses : b # a => Alike(x, y, b)
  BY <1>1, <1>2, AfterDevice DEF Alike
<1>6. /\ peers' = [peers EXCEPT ![k] = Absent]
      /\ xdpDevices' = [xdpDevices EXCEPT ![a] = Absent]
      /\ usersToAddresses' = [usersToAddresses EXCEPT ![u][a] = Absent]
      /\ UNCHANGED <<accountLocked, addressesToUsers>>
  BY <1>1, <1>4 DEF RemovePeer, Remembered
<1>7. usersToAddresses[u] \in [Addresses -> Keys \cup {Absent}] /\ usersToAddresses[u] # Absent
  BY <1>4 DEF FirewallTypeOK, Remembered
<1>8. PICK new : new = [usersToAddresses[u] EXCEPT ![a] = Absent]
  OBVIOUS
<1>9. /\ new \in [Addresses -> Keys \cup {Absent}] /\ new[a] = Absent
      /\ \A b \in Addresses : b # a => new[b] = usersToAddresses[u][b]
  BY <1>7, <1>8
<1>10. /\ usersToAddresses'[u] = new /\ new # Absent
       /\ \A w \in Users : w # u => usersToAddresses'[w] = usersToAddresses[w]
  <2>1. usersToAddresses' = [usersToAddresses EXCEPT ![u] = new]
    BY <1>6, <1>8
  <2> QED
    BY <1>9, <2>1 DEF FirewallTypeOK
<1>11. MapsStay
  BY <1>10 DEF MapsStay
<1>12. \A j \in Keys : peers'[j] = IF j = k THEN Absent ELSE peers[j]
  BY <1>6 DEF FirewallTypeOK
<1>13. ASSUME NEW b \in Addresses, b # a PROVE SameAt(b)
  <2>1. Known(b)' <=> Known(b)
    BY <1>6, <1>13 DEF Known, FirewallTypeOK
  <2>2. xdpDevices'[b] = xdpDevices[b] /\ addressesToUsers'[b] = addressesToUsers[b]
    BY <1>6, <1>13 DEF FirewallTypeOK
  <2>3. ASSUME NEW j \in Keys PROVE peers'[j] = b <=> peers[j] = b
    <3>1. j = k => peers[j] # b
      <4> SUFFICES ASSUME peers[k] = b PROVE FALSE
        OBVIOUS
      <4>1. x.key[b] = k
        BY PeerOf
      <4> QED
        BY <1>3, <1>13, <4>1 DEF Sound
    <3> QED
      BY <1>12, <3>1
  <2>4. ASSUME NEW w \in Users
        PROVE  /\ b \in Tracked(w)' <=> b \in Tracked(w)
               /\ b \in Tracked(w) => usersToAddresses'[w][b] = usersToAddresses[w][b]
    BY <1>7, <1>9, <1>10, <1>13 DEF Tracked
  <2> QED
    BY <2>1, <2>2, <2>3, <2>4 DEF SameAt
<1>14. Forgotten(a)'
  <2>1. ~Known(a)'
    BY <1>6 DEF Known, FirewallTypeOK
  <2>2. \A j \in Keys : peers'[j] # a
    BY <1>4, <1>12 DEF Remembered
  <2>3. \A w \in Users : a \notin Tracked(w)'
    BY <1>4, <1>9, <1>10 DEF Tracked, Remembered
  <2> QED
    BY <2>1, <2>2, <2>3 DEF Forgotten
<1>15. Reflects(y)'
  <2>1. \A w \in y.users : accountLocked'[w] # Absent
    BY <1>5, <1>6 DEF Reflects, View
  <2> QED
    BY <1>5, <1>11, <1>13, <1>14, <2>1, ReflectsNext
<1> QED
  BY <1>2, <1>15

\* A device gets another key; its owner has a map.
LEMMA ReplacePeerReflects ==
  ASSUME FirewallTypeOK, NEW x \in View, Sound(x), Reflects(x), NEW h, HandlerOK(h),
         h.topic = "devices", ~Removes(h), ~Creates(h), Rekeys(h), h.old \in Keys, Fits(x, h),
         Sound(After(x, h))
  PROVE  /\ ~ReplacePanics(h.cur.owner)
         /\ ReplacePeer(h.cur.owner, h.id, h.old, h.cur.key) => Reflects(After(x, h))'
<1> USE FirewallSentinels
<1>1. PICK a \in Addresses, u \in Users, k \in Keys : a = h.id /\ u = h.cur.owner /\ k = h.cur.key
  BY DEF HandlerOK, DeviceRecord
<1>2. PICK y \in View : y = After(x, h)
  BY AfterView
<1>3. x.key[a] = h.old /\ x.owner[a] = u
  BY <1>1 DEF Fits
<1>4. Remembered(a, u, h.old)
  BY <1>3 DEF Reflects
<1>5. ~ReplacePanics(u)
  BY <1>4 DEF Remembered, ReplacePanics
<1>6. /\ \A w \in Users : w \in y.users <=> w \in x.users
      /\ y.key[a] = k /\ y.owner[a] = u
      /\ a \in y.kept <=> a \in x.kept
      /\ \A b \in Addresses : b # a => Alike(x, y, b)
  BY <1>1, <1>2, <1>3, AfterDevice DEF Alike
<1> SUFFICES ASSUME ReplacePeer(u, a, h.old, k) PROVE Reflects(y)'
  BY <1>1, <1>2, <1>5
<1>7. /\ peers' = WithPeer([peers EXCEPT ![h.old] = Absent], k, a)
      /\ usersToAddresses' = Tracking(u, a, k)
      /\ UNCHANGED <<xdpDevices, accountLocked, addressesToUsers>>
  BY DEF ReplacePeer
<1>8. /\ usersToAddresses'[u] # Absent /\ usersToAddresses'[u][a] = k
      /\ \A w \in Users : w # u => usersToAddresses'[w] = usersToAddresses[w]
      /\ \A b \in Addresses : b # a =>
           /\ b \in Tracked(u)' <=> b \in Tracked(u)
           /\ b \in Tracked(u) => usersToAddresses'[u][b] = usersToAddresses[u][b]
  BY <1>7, TrackingParts
<1>9. MapsStay
  BY <1>8 DEF MapsStay
<1>10. \A j \in Keys : peers'[j] = IF j = k THEN a
                                   ELSE IF j = h.old THEN Absent
                                   ELSE peers[j]
  <2> SUFFICES ASSUME NEW j \in Keys
               PROVE  peers'[j] = IF j = k THEN a ELSE IF j = h.old THEN Absent ELSE peers[j]
    OBVIOUS
  <2>1. PICK ps : ps = [peers EXCEPT ![h.old] = Absent]
    OBVIOUS
  <2>2. ps[j] = IF j = h.old THEN Absent ELSE peers[j]
    BY <2>1 DEF FirewallTypeOK
  <2>3. peers'[j] = IF j = k THEN a ELSE IF ps[j] = a THEN NoAddress ELSE ps[j]
    BY <1>7, <2>1 DEF WithPeer
  <2>4. ps[j] # a
    BY <1>4, <2>2 DEF Remembered
  <2> QED
    BY <2>2, <2>3, <2>4
<1>11. ASSUME NEW b \in Addresses, b # a PROVE SameAt(b)
  <2>1. (Known(b)' <=> Known(b)) /\ xdpDevices'[b] = xdpDevices[b]
        /\ addressesToUsers'[b] = addressesToUsers[b]
    BY <1>7 DEF Known
  <2>2. ASSUME NEW j \in Keys PROVE peers'[j] = b <=> peers[j] = b
    <3>1. peers[j] = b => x.key[b] = j
      BY PeerOf
    <3>2. peers[j] = b => j # h.old
      BY <1>3, <1>11, <3>1 DEF Sound
    <3>3. peers[j] = b => j # k
      BY <1>2, <1>6, <1>11, <3>1 DEF Sound, Alike
    <3> QED
      BY <1>10, <1>11, <3>2, <3>3
  <2>3. ASSUME NEW w \in Users
        PROVE  /\ b \in Tracked(w)' <=> b \in Tracked(w)
               /\ b \in Tracked(w) => usersToAddresses'[w][b] = usersToAddresses[w][b]
    BY <1>8, <1>11 DEF Tracked
  <2> QED
    BY <2>1, <2>2, <2>3 DEF SameAt
<1>12. (Known(a)' <=> Known(a)) /\ xdpDevices'[a] = xdpDevices[a]
       /\ addressesToUsers'[a] = addressesToUsers[a]
  BY <1>7 DEF Known
<1>13. \A j \in Keys : peers'[j] = a <=> j = k
  BY <1>4, <1>10 DEF Remembered
<1>14. \A w \in Users : a \in Tracked(w)' <=> w = u
  BY <1>4, <1>8 DEF Tracked, Remembered
<1>15. Remembered(a, u, k)'
  BY <1>4, <1>8, <1>12, <1>13, <1>14 DEF Remembered
<1>16. a \in y.kept => Entire(a, u, k)'
  <2>1. a \in x.kept => Known(a)
    BY DEF Reflects, Entire
  <2> QED
    BY <1>6, <1>12, <1>13, <1>14, <2>1 DEF Entire
<1>17. \A w \in y.users : accountLocked'[w] # Absent
  BY <1>6, <1>7 DEF Reflects, View
<1>18. k # Absent
  OBVIOUS
<1> QED
  BY <1>6, <1>9, <1>11, <1>15, <1>16, <1>17, <1>18, ReflectsNext

\* A new user has no devices yet.
LEMMA AddUserReflects ==
  ASSUME FirewallTypeOK, NEW x \in View, Sound(x), Reflects(x), NEW h, HandlerOK(h),
         h.topic = "users", Adds(h), ~Takes(h), Fits(x, h), AddUser(h.id, h.acl)
  PROVE  Reflects(After(x, h))'
<1> USE FirewallSentinels
<1>1. PICK u \in Users : u = h.id
  BY DEF HandlerOK
<1>2. PICK y \in View : y = After(x, h)
  BY AfterView
<1>3. u \notin x.users
  BY <1>1 DEF Fits
<1>4. /\ \A w \in Users : w \in y.users <=> w = u \/ w \in x.users
      /\ \A b \in Addresses : /\ y.key[b] = x.key[b] /\ y.owner[b] = x.owner[b]
                              /\ b \in y.kept <=> b \in x.kept
  BY <1>1, <1>2, AfterOther DEF User
<1>5. \A b \in Addresses : Alike(x, y, b)
  BY <1>4 DEF Alike
<1>6. CASE accountLocked[u] # Absent
  <2>1. UNCHANGED firewall
    BY <1>1, <1>6 DEF AddUser
  <2>2. MapsStay /\ \A b \in Addresses : SameAt(b)
    BY <2>1 DEF firewall, MapsStay, SameAt, Known, Tracked
  <2>3. \A w \in y.users : accountLocked'[w] # Absent
    BY <1>4, <1>6, <2>1 DEF firewall, Reflects, View
  <2> QED
    BY <1>2, <1>5, <2>2, <2>3, ReflectsNext
<1>7. CASE accountLocked[u] = Absent
  <2>1. /\ accountLocked' = [accountLocked EXCEPT ![u] = FALSE]
        /\ usersToAddresses' = [usersToAddresses EXCEPT ![u] = NoAddresses]
        /\ UNCHANGED <<xdpDevices, peers, addressesToUsers>>
    BY <1>1, <1>7 DEF AddUser
  <2>2. NoAddresses \in [Addresses -> Keys \cup {Absent}] /\ NoAddresses # Absent
    BY DEF NoAddresses
  <2>3. /\ usersToAddresses'[u] = NoAddresses
        /\ \A w \in Users : w # u => usersToAddresses'[w] = usersToAddresses[w]
    BY <2>1 DEF FirewallTypeOK
  <2>4. MapsStay
    BY <2>2, <2>3 DEF MapsStay
  <2>5. \A w \in y.users : accountLocked'[w] # Absent
    BY <1>4, <2>1 DEF Reflects, View, FirewallTypeOK
  <2>6. Tracked(u)' = {} /\ \A w \in Users : w # u => Tracked(w)' = Tracked(w)
    <3>1. Tracked(u)' = {}
      BY <2>2, <2>3 DEF Tracked, NoAddresses
    <3>2. \A w \in Users : w # u => Tracked(w)' = Tracked(w)
      BY <2>3 DEF Tracked
    <3> QED
      BY <3>1, <3>2
  <2>7. ASSUME NEW b \in Addresses
        PROVE  /\ y.key[b] = Absent => Forgotten(b)'
               /\ y.key[b] # Absent => Remembered(b, y.owner[b], y.key[b])'
               /\ b \in y.kept => Entire(b, y.owner[b], y.key[b])'
    <3>1. Known(b)' <=> Known(b)
      BY <2>1 DEF Known
    <3>2. y.key[b] = Absent => Forgotten(b)'
      BY <1>4, <2>1, <2>6, <3>1 DEF Reflects, Forgotten
    <3>3. y.key[b] # Absent => Remembered(b, y.owner[b], y.key[b])'
      <4> SUFFICES ASSUME Remembered(b, x.owner[b], x.key[b])
                   PROVE  Remembered(b, x.owner[b], x.key[b])'
        BY <1>4 DEF Reflects
      <4> QED
        BY <2>1, <2>3, <2>4, <2>6, <3>1 DEF Remembered, MapsStay
    <3>4. b \in y.kept => Entire(b, y.owner[b], y.key[b])'
      <4> SUFFICES ASSUME b \in x.kept PROVE Entire(b, x.owner[b], x.key[b])'
        BY <1>4
      <4>1. Entire(b, x.owner[b], x.key[b]) /\ x.owner[b] # u /\ x.owner[b] \in Users
        BY <1>3 DEF Reflects, Sound, View
      <4> QED
        BY <2>1, <2>6, <3>1, <4>1 DEF Entire
    <3> QED
      BY <3>2, <3>3, <3>4
  <2> QED
    BY <1>2, <2>4, <2>5, <2>7, ReflectsNext
<1> QED
  BY <1>6, <1>7

\* A user that is gone takes its devices along.
LEMMA RemoveUserReflects ==
  ASSUME FirewallTypeOK, NEW x \in View, Sound(x), Reflects(x), NEW h, HandlerOK(h),
         h.topic = "users", Takes(h), ~Adds(h), Fits(x, h), RemoveUser(h.id)
  PROVE  Reflects(After(x, h))'
<1> USE FirewallSentinels
<1>1. PICK u \in Users : u = h.id
  BY DEF HandlerOK
<1>2. PICK y \in View : y = After(x, h)
  BY AfterView
<1>3. u \in x.users /\ accountLocked[u] # Absent
  BY <1>1 DEF Fits, Reflects
<1>4. /\ \A w \in Users : w \in y.users <=> w # u /\ w \in x.users
      /\ \A b \in Addresses : /\ y.key[b] = x.key[b] /\ y.owner[b] = x.owner[b]
                              /\ b \in y.kept <=> b \in x.kept /\ x.owner[b] # u
  BY <1>1, <1>2, AfterOther DEF User
<1>5. PICK gone : gone = Tracked(u)
  OBVIOUS
<1>6. PICK keys : keys = {usersToAddresses[u][a] : a \in gone}
  OBVIOUS
<1>7. /\ accountLocked' = [accountLocked EXCEPT ![u] = Absent]
      /\ peers' = [k \in Keys |-> IF k \in keys THEN Absent ELSE peers[k]]
      /\ xdpDevices' = [a \in Addresses |-> IF a \in gone THEN Absent ELSE xdpDevices[a]]
      /\ usersToAddresses' =
           [w \in Users |->
              IF usersToAddresses[w] = Absent THEN Absent
              ELSE [a \in Addresses |->
                      IF a \in gone /\ addressesToUsers[a] = w THEN Absent
                      ELSE usersToAddresses[w][a]]]
      /\ UNCHANGED addressesToUsers
  BY <1>1, <1>3, <1>5, <1>6 DEF RemoveUser
<1>8. \A a \in gone : a \in Addresses /\ x.key[a] # Absent /\ x.owner[a] = u
                      /\ usersToAddresses[u][a] = x.key[a]
  <2> SUFFICES ASSUME NEW a \in gone
               PROVE  a \in Addresses /\ x.key[a] # Absent /\ x.owner[a] = u
                      /\ usersToAddresses[u][a] = x.key[a]
    OBVIOUS
  <2>1. a \in Addresses /\ a \in Tracked(u)
    BY <1>5 DEF Tracked
  <2> QED
    BY <2>1 DEF Reflects, Forgotten, Remembered
<1>9. \A k \in keys : \E a \in gone : x.key[a] = k
  BY <1>6, <1>8
<1>10. ASSUME NEW w \in Users
       PROVE  /\ usersToAddresses[w] = Absent <=> usersToAddresses'[w] = Absent
              /\ \A b \in Addresses : b \in Tracked(w)' => b \in Tracked(w)
              /\ \A b \in Addresses : b \in Tracked(w)' =>
                   usersToAddresses'[w][b] = usersToAddresses[w][b]
              /\ \A b \in Addresses : b \notin gone => (b \in Tracked(w)' <=> b \in Tracked(w))
  <2>1. CASE usersToAddresses[w] = Absent
    <3>1. usersToAddresses'[w] = Absent
      BY <1>7, <2>1
    <3> QED
      BY <2>1, <3>1 DEF Tracked
  <2>2. CASE usersToAddresses[w] # Absent
    <3>1. PICK map : map = [a \in Addresses |->
                              IF a \in gone /\ addressesToUsers[a] = w THEN Absent
                              ELSE usersToAddresses[w][a]]
      OBVIOUS
    <3>2. usersToAddresses'[w] = map
      BY <1>7, <2>2, <3>1
    <3>3. usersToAddresses[w] \in [Addresses -> Keys \cup {Absent}]
      BY <2>2 DEF FirewallTypeOK
    <3>4. map \in [Addresses -> Keys \cup {Absent}]
      BY <3>1, <3>3
    <3>5. map # Absent
      BY <3>4
    <3> QED
      BY <2>2, <3>1, <3>2, <3>5 DEF Tracked
  <2> QED
    BY <2>1, <2>2
<1>11. MapsStay
  BY <1>10 DEF MapsStay
<1>12. \A w \in y.users : accountLocked'[w] # Absent
  BY <1>4, <1>7 DEF Reflects, View, FirewallTypeOK
<1>13. ASSUME NEW b \in Addresses, b \notin gone PROVE SameAt(b)
  <2>1. (Known(b)' <=> Known(b)) /\ xdpDevices'[b] = xdpDevices[b]
    BY <1>7, <1>13 DEF Known
  <2>2. ASSUME NEW j \in Keys PROVE peers'[j] = b <=> peers[j] = b
    <3>1. peers[j] = b => j \notin keys
      <4> SUFFICES ASSUME peers[j] = b, NEW a \in gone, x.key[a] = j PROVE FALSE
        BY <1>9
      <4>1. x.key[b] = j
        BY PeerOf
      <4> QED
        BY <1>8, <1>13, <4>1 DEF Sound
    <3> QED
      BY <1>7, <3>1
  <2> QED
    BY <1>7, <1>10, <1>13, <2>1, <2>2 DEF SameAt
<1>14. ASSUME NEW b \in Addresses, b \notin gone
       PROVE  SameAt(b) /\ Alike(x, y, b)
  BY <1>4, <1>13, <1>14 DEF Alike
<1>15. ASSUME NEW b \in Addresses, b \in gone
       PROVE  /\ y.key[b] # Absent /\ b \notin y.kept
              /\ Remembered(b, y.owner[b], y.key[b])'
  <2>1. y.key[b] = x.key[b] /\ y.owner[b] = u /\ x.key[b] # Absent /\ b \notin y.kept
    BY <1>4, <1>8, <1>15
  <2>2. Remembered(b, u, x.key[b])
    BY <1>8, <1>15, <2>1 DEF Reflects
  <2>3. ~Known(b)'
    BY <1>7, <1>15 DEF Known
  <2>4. \A j \in Keys : peers'[j] = b => peers[j] = b
    BY <1>7
  <2>5. Remembered(b, u, x.key[b])'
    BY <1>7, <1>10, <2>2, <2>3, <2>4 DEF Remembered
  <2> QED
    BY <2>1, <2>5
<1>16. Reflects(y)'
  BY <1>11, <1>12, <1>14, <1>15, ReflectsNext
<1> QED
  BY <1>2, <1>16

-----------------------------------------------------------------------------
(***************************************************************************)
(* A call of the first handler.                                            *)
(***************************************************************************)

\* What the handler may have left to do after a call.
Resumes(h, todo) ==
  /\ h.topic \in {"devices", "users"}
  /\ h.todo # <<"authorise">> /\ h.todo # <<"replacePeer">>
  /\ h.topic = "devices" =>
       /\ ~Creates(h) /\ ~Removes(h)
       /\ todo # <<"addPeer">> /\ todo # <<"removePeer">> /\ ~Has(todo, "replacePeer")
  /\ h.topic = "users" =>
       ~Adds(h) /\ ~Takes(h) /\ ~Has(todo, "addUser") /\ ~Has(todo, "removeUser")

\* What the call does to a user who is gone,
GoneMoves(h) ==
  \A u \in Users : user[u] = Absent =>
    /\ accountLocked[u] = Absent /\ ~User(h, u) => accountLocked'[u] = Absent
    /\ User(h, u) /\ Takes(h) => accountLocked'[u] = Absent

\* to the access lists,
AclsMove(h) ==
  \A u \in Users : user[u] # Absent =>
    \/ accountLocked'[u] = Absent
    \/ policies'[u] = acl[u]
    \/ /\ accountLocked[u] # Absent /\ policies'[u] = policies[u]
       /\ ~Refreshes(h, u) /\ ~(User(h, u) /\ Takes(h))
    \/ User(h, u) /\ h.todo = <<"addUser">> /\ policies'[u] = h.acl

\* and to the sessions of logins nothing has ended.
LoginsMove(h, x) ==
  \A a \in Addresses : granted[a] =>
    /\ /\ Open(a, device[a].owner) /\ ~User(h, device[a].owner)
       /\ Device(h, a) => h.todo = <<"replacePeer">>
       => Open(a, device[a].owner)'
    /\ /\ Device(h, a) /\ h.todo = <<"authorise">> /\ h.cur.owner = device[a].owner
       /\ a \in x.kept
       /\ \A j \in DOMAIN pool : ~OfUser(j, device[a].owner)
       => Open(a, device[a].owner)'

\* A handler that changes nothing leaves the view as it is.
LEMMA AfterSame ==
  ASSUME NEW x \in View, NEW h,
         h.topic = "devices" =>
           ~Creates(h) /\ ~Removes(h) /\ h.id \in Addresses /\ x.key[h.id] = h.cur.key,
         h.topic = "users" => ~Adds(h) /\ ~Takes(h)
  PROVE  After(x, h) = x
<1>1. PICK y : y = After(x, h)
  OBVIOUS
<1>2. /\ x.users \in SUBSET Users /\ x.kept \in SUBSET Addresses
      /\ x.owner \in [Addresses -> Users \cup {Absent}]
      /\ x.key \in [Addresses -> Keys \cup {Absent}]
      /\ x = [users |-> x.users, owner |-> x.owner, key |-> x.key, kept |-> x.kept]
  BY DEF View
<1>3. \A u \in Users : u \in y.users <=> u \in x.users
  BY <1>1, AfterParts DEF User
<1>4. \A a \in Addresses :
        y.owner[a] = x.owner[a] /\ y.key[a] = x.key[a] /\ (a \in y.kept <=> a \in x.kept)
  <2>1. CASE h.topic = "devices"
    BY <1>1, <2>1, AfterDevice
  <2>2. CASE h.topic # "devices"
    BY <1>1, <2>2, AfterOther
  <2> QED
    BY <2>1, <2>2
<1>5. /\ y = [users |-> y.users, owner |-> y.owner, key |-> y.key, kept |-> y.kept]
      /\ y.users \subseteq Users /\ y.kept \subseteq Addresses
      /\ y.owner = [a \in Addresses |-> y.owner[a]]
      /\ y.key = [a \in Addresses |-> y.key[a]]
  BY <1>1 DEF After
<1>6. y.users = x.users /\ y.kept = x.kept
  BY <1>2, <1>3, <1>4, <1>5
<1>7. y.owner = x.owner /\ y.key = x.key
  BY <1>2, <1>4, <1>5
<1> QED
  BY <1>1, <1>2, <1>5, <1>6, <1>7

\* The handler ends.
LEMMA EndedMirror ==
  ASSUME SyncTypes, OneByOne, 1 \in DOMAIN pool, NEW v, Follows(v), Reflects(v[2])',
         UNCHANGED <<user, device, acl, deleting, granted>>, pool' = RemoveAt(pool, 1),
         GoneMoves(pool[1]), AclsMove(pool[1]), LoginsMove(pool[1], v[1])
  PROVE  OneByOne' /\ \E v2 : Follows(v2)'
<1>1. PICK l \in Nat : l = Len(pool)
  BY DEF SyncTypes, HandlersOK, PoolOK
<1>2. pool \in Seq(HandlerRecord) /\ 1 <= l /\ DOMAIN pool = 1..l
  BY <1>1 DEF SyncTypes, HandlersOK, PoolOK
<1>3. /\ Len(pool') = l - 1 /\ DOMAIN pool' = 1..(l - 1)
      /\ \A k \in 1..(l - 1) : pool'[k] = pool[k + 1]
  <2>1. \A k \in 1..(l - 1) : ~(k < 1)
    OBVIOUS
  <2>2. /\ RemoveAt(pool, 1) \in Seq(HandlerRecord)
        /\ Len(RemoveAt(pool, 1)) = l - 1
        /\ \A k \in 1..(l - 1) : RemoveAt(pool, 1)[k] = IF k < 1 THEN pool[k] ELSE pool[k + 1]
    BY <1>1, <1>2, Removed
  <2>3. pool' \in Seq(HandlerRecord) /\ Len(pool') = l - 1
    BY <2>2
  <2> QED
    BY <2>1, <2>2, <2>3
<1>4. \A k \in 1..(l - 1) : /\ k + 1 \in 1..l /\ k + 1 # 1
                            /\ \A u : OfUser(k, u)' <=> OfUser(k + 1, u)
                            /\ \A a : Of(k, a)' <=> Of(k + 1, a)
  BY <1>3 DEF OfUser, Of
<1>5. \A j \in 1..l : j # 1 => \E k \in 1..(l - 1) : j = k + 1
  <2> SUFFICES ASSUME NEW j \in 1..l, j # 1 PROVE \E k \in 1..(l - 1) : j = k + 1
    OBVIOUS
  <2>1. j - 1 \in 1..(l - 1) /\ j = (j - 1) + 1
    OBVIOUS
  <2> QED
    BY <2>1
<1>6. /\ Story(v) /\ v \in [1..(l + 1) -> View] /\ v[2] = After(v[1], pool[1])
      /\ 2 \in 1..(l + 1) /\ v[2] \in View /\ Sound(v[2])
  BY <1>1, <1>2 DEF Follows, Story
<1>7. PICK v2 : Story(v2)' /\ v2[1] = v[2] /\ \A p \in 1..l : v2[p] = v[p + 1]
  <2>1. PICK v2 : Story(v2)' /\ \A p \in 1..Len(pool) : v2[p] = v[p + 1]
    BY <1>6, StoryEnds
  <2>2. 1 \in 1..l /\ 1 + 1 = 2
    BY <1>2
  <2> QED
    BY <1>1, <2>1, <2>2
<1>8. OneByOne'
  <2>1. \A k \in 1..(l - 1) : ~pool[k + 1].started /\ pool[k + 1].todo # <<"addUser">>
    BY <1>2, <1>4 DEF OneByOne
  <2> QED
    BY <1>3, <2>1 DEF OneByOne
<1>9. GoneFollow'
  <2> SUFFICES ASSUME NEW u \in Users, user[u] = Absent
               PROVE  \E i \in 0..Len(pool') :
                        /\ i = 0 => accountLocked'[u] = Absent
                        /\ i # 0 => OfUser(i, u)' /\ Takes(pool'[i])
                        /\ \A j \in DOMAIN pool' : i < j => ~OfUser(j, u)'
    BY DEF GoneFollow, Takes
  <2>1. PICK i \in 0..l : /\ i = 0 => accountLocked[u] = Absent
                          /\ i # 0 => OfUser(i, u) /\ Takes(pool[i])
                          /\ \A j \in DOMAIN pool : i < j => ~OfUser(j, u)
    BY <1>1 DEF Follows, GoneFollow
  <2>2. CASE i = 0 \/ i = 1
    <3>1. accountLocked'[u] = Absent
      BY <1>2, <2>1, <2>2 DEF GoneMoves, OfUser, User
    <3>2. \A j \in 1..(l - 1) : i < j + 1
      BY <2>2
    <3>3. \A j \in DOMAIN pool' : ~OfUser(j, u)'
      BY <1>2, <1>3, <1>4, <2>1, <3>2
    <3>4. 0 \in 0..Len(pool')
      BY <1>2, <1>3
    <3> QED
      BY <3>1, <3>3, <3>4
  <2>3. CASE i # 0 /\ i # 1
    <3>1. PICK k \in 1..(l - 1) : i = k + 1
      BY <1>5, <2>3
    <3>2. OfUser(k, u)' /\ Takes(pool'[k])
      BY <1>3, <1>4, <2>1, <2>3, <3>1
    <3>3. \A j \in 1..(l - 1) : k < j => i < j + 1
      BY <3>1
    <3>4. \A j \in DOMAIN pool' : k < j => ~OfUser(j, u)'
      BY <1>2, <1>3, <1>4, <2>1, <3>3
    <3>5. k \in 0..Len(pool') /\ k # 0
      BY <1>3
    <3> QED
      BY <3>2, <3>4, <3>5
  <2> QED
    BY <2>2, <2>3
<1>10. AclsFollow'
  <2> SUFFICES ASSUME NEW u \in Users, user[u] # Absent, ~Unsettled(u)', accountLocked'[u] # Absent
               PROVE  policies'[u] = acl[u]
    <3>1. \A i \in DOMAIN pool' : pool'[i].todo # <<"addUser">>
      BY <1>2, <1>3, <1>4 DEF OneByOne
    <3> QED
      BY <3>1 DEF AclsFollow
  <2>1. Unsettled(u) => Refreshes(pool[1], u) \/ (User(pool[1], u) /\ Takes(pool[1]))
    <3> SUFFICES ASSUME NEW j \in DOMAIN pool, j # 1,
                        Refreshes(pool[j], u) \/ (User(pool[j], u) /\ Takes(pool[j]))
                 PROVE  FALSE
      BY DEF Unsettled
    <3>1. PICK k \in 1..(l - 1) : j = k + 1
      BY <1>2, <1>5
    <3>2. k \in DOMAIN pool' /\ pool'[k] = pool[j]
      BY <1>3, <3>1
    <3> QED
      BY <3>2 DEF Unsettled, Refreshes, User, Takes
  <2>2. ~Unsettled(u) => /\ accountLocked[u] # Absent => policies[u] = acl[u]
                         /\ User(pool[1], u) /\ pool[1].todo = <<"addUser">> => pool[1].acl = acl[u]
    BY DEF Follows, AclsFollow, OfUser, User
  <2>3. User(pool[1], u) /\ pool[1].todo = <<"addUser">> =>
          ~Refreshes(pool[1], u) /\ ~Takes(pool[1])
    BY HasOne DEF User, Refreshes, Takes
  <2> QED
    BY <2>1, <2>2, <2>3 DEF AclsMove
<1>11. LoginsFollow(v2)'
  <2> SUFFICES ASSUME NEW a \in Addresses, granted[a], device[a].owner \notin deleting
               PROVE  \E i \in 0..Len(pool') :
                        /\ i = 0 => Open(a, device[a].owner)'
                        /\ i # 0 => /\ Of(i, a)' /\ pool'[i].todo = <<"authorise">>
                                    /\ pool'[i].cur.owner = device[a].owner
                                    /\ a \in v2[i].kept
                        /\ \A j \in DOMAIN pool' : i < j =>
                             /\ Of(j, a)' => pool'[j].todo = <<"replacePeer">>
                             /\ ~OfUser(j, device[a].owner)'
    BY DEF LoginsFollow, Open, Known
  <2>0. PICK o : o = device[a].owner
    OBVIOUS
  <2>1. PICK i \in 0..l :
          /\ i = 0 => Open(a, o)
          /\ i # 0 => /\ Of(i, a) /\ pool[i].todo = <<"authorise">>
                      /\ pool[i].cur.owner = o /\ a \in v[i].kept
          /\ \A j \in DOMAIN pool : i < j =>
               (Of(j, a) => pool[j].todo = <<"replacePeer">>) /\ ~OfUser(j, o)
    BY <1>1, <2>0 DEF Follows, LoginsFollow
  <2>2. CASE i = 0 \/ i = 1
    <3>1. Open(a, device[a].owner)'
      <4>1. CASE i = 0
        <5>1. ~User(pool[1], o) /\ (Device(pool[1], a) => pool[1].todo = <<"replacePeer">>)
          BY <1>2, <2>1, <4>1 DEF OfUser, User, Of, Device
        <5> QED
          BY <2>0, <2>1, <4>1, <5>1 DEF LoginsMove
      <4>2. CASE i = 1
        <5>1. Device(pool[1], a)
          BY <2>1, <4>2 DEF Of, Device
        <5>2. \A j \in DOMAIN pool : ~OfUser(j, o)
          <6>1. ~OfUser(1, o)
            BY <5>1 DEF OfUser, Device
          <6>2. \A j \in DOMAIN pool : j = 1 \/ i < j
            BY <1>2, <4>2
          <6> QED
            BY <2>1, <6>1, <6>2
        <5> QED
          BY <2>0, <2>1, <4>2, <5>1, <5>2 DEF LoginsMove
      <4> QED
        BY <2>2, <4>1, <4>2
    <3>2. \A j \in 1..(l - 1) : i < j + 1
      BY <2>2
    <3>3. \A j \in DOMAIN pool' : /\ Of(j, a)' => pool'[j].todo = <<"replacePeer">>
                                  /\ ~OfUser(j, o)'
      BY <1>2, <1>3, <1>4, <2>1, <3>2
    <3>4. 0 \in 0..Len(pool')
      BY <1>2, <1>3
    <3> QED
      BY <2>0, <3>1, <3>3, <3>4 DEF OfUser
  <2>3. CASE i # 0 /\ i # 1
    <3>1. PICK k \in 1..(l - 1) : i = k + 1
      BY <1>5, <2>3
    <3>2. Of(k, a)' /\ pool'[k].todo = <<"authorise">> /\ pool'[k].cur.owner = o
      BY <1>3, <1>4, <2>1, <2>3, <3>1
    <3>3. a \in v2[k].kept
      BY <1>7, <2>1, <2>3, <3>1
    <3>4. \A j \in 1..(l - 1) : k < j => i < j + 1
      BY <3>1
    <3>5. \A j \in DOMAIN pool' : k < j =>
            (Of(j, a)' => pool'[j].todo = <<"replacePeer">>) /\ ~OfUser(j, o)'
      <4> SUFFICES ASSUME NEW j \in 1..(l - 1), k < j
                   PROVE  (Of(j, a)' => pool'[j].todo = <<"replacePeer">>) /\ ~OfUser(j, o)'
        BY <1>3
      <4>1. j + 1 \in DOMAIN pool /\ i < j + 1
        BY <1>2, <1>4, <3>4
      <4>2. (Of(j + 1, a) => pool[j + 1].todo = <<"replacePeer">>) /\ ~OfUser(j + 1, o)
        BY <2>1, <4>1
      <4>3. pool'[j] = pool[j + 1] /\ (Of(j, a)' <=> Of(j + 1, a))
        BY <1>3, <1>4
      <4> QED
        BY <4>2, <4>3 DEF OfUser
    <3>6. k \in 0..Len(pool') /\ k # 0
      BY <1>3
    <3> QED
      BY <2>0, <3>2, <3>3, <3>5, <3>6 DEF OfUser
  <2> QED
    BY <2>2, <2>3
<1>12. Reflects(v2[1])'
  <2>1. Reflects(v[2])' => Reflects(v2[1])'
    BY <1>7 DEF Reflects
  <2> QED
    BY <2>1
<1> QED
  BY <1>7, <1>8, <1>9, <1>10, <1>11, <1>12 DEF Follows

\* The handler goes on.
LEMMA WentOnMirror ==
  ASSUME SyncTypes, OneByOne, 1 \in DOMAIN pool, NEW v, Follows(v), Reflects(v[2])',
         UNCHANGED <<user, device, acl, deleting, granted>>,
         NEW n, pool' = [pool EXCEPT ![1] = n],
         n.topic = pool[1].topic, n.id = pool[1].id, n.cur = pool[1].cur,
         Resumes(pool[1], n.todo),
         GoneMoves(pool[1]), AclsMove(pool[1]), LoginsMove(pool[1], v[1])
  PROVE  OneByOne' /\ \E v2 : Follows(v2)'
<1>1. PICK l \in Nat : l = Len(pool)
  BY DEF SyncTypes, HandlersOK, PoolOK
<1>2. /\ pool \in Seq(HandlerRecord) /\ 1 <= l /\ DOMAIN pool = 1..l
      /\ HandlerOK(pool[1])
  BY <1>1 DEF SyncTypes, HandlersOK, PoolOK
<1>3. /\ Len(pool') = l /\ DOMAIN pool' = 1..l /\ pool'[1] = n
      /\ \A k \in 1..l : k # 1 => pool'[k] = pool[k]
  BY <1>1, <1>2
<1>4. PICK h : h = pool[1] /\ HandlerOK(h)
  BY <1>2
<1>5. /\ Story(v) /\ v \in [1..(l + 1) -> View] /\ v[2] = After(v[1], h) /\ Fits(v[1], h)
      /\ v[1] \in View /\ v[2] \in View /\ Sound(v[2])
  <2>1. 1 \in 1..l /\ 1 \in 1..(l + 1) /\ 2 \in 1..(l + 1) /\ 1 + 1 = 2
    BY <1>2
  <2>2. Story(v)
    BY DEF Follows
  <2>3. /\ v \in [1..(l + 1) -> View]
        /\ \A p \in 1..l : Fits(v[p], pool[p]) /\ v[p + 1] = After(v[p], pool[p])
        /\ \A p \in 1..(l + 1) : Sound(v[p])
    BY <1>1, <2>2 DEF Story
  <2> QED
    BY <1>4, <2>1, <2>2, <2>3
<1>6. /\ n.topic = h.topic /\ n.id = h.id /\ n.cur = h.cur /\ h.topic \in {"devices", "users"}
      /\ h.todo # <<"authorise">> /\ h.todo # <<"replacePeer">>
      /\ h.topic = "devices" =>
           /\ ~Creates(h) /\ ~Removes(h) /\ ~Creates(n) /\ ~Removes(n) /\ ~Rekeys(n)
      /\ h.topic = "users" => ~Adds(h) /\ ~Takes(h) /\ ~Adds(n) /\ ~Takes(n)
  BY <1>4 DEF Resumes, Creates, Removes, Rekeys, Adds, Takes
<1>7. /\ h.topic = "devices" => /\ h.id \in Addresses
                                /\ v[2].owner[h.id] = h.cur.owner /\ v[2].key[h.id] = h.cur.key
      /\ h.topic = "users" => h.id \in v[2].users
  <2>1. CASE h.topic = "devices"
    <3>1. h.id \in Addresses /\ v[1].owner[h.id] = h.cur.owner
      BY <1>4, <1>5, <1>6, <2>1 DEF HandlerOK, Fits
    <3> QED
      BY <1>5, <1>6, <2>1, <3>1, AfterDevice
  <2>2. CASE h.topic = "users"
    <3>1. h.id \in Users /\ h.id \in v[1].users
      BY <1>4, <1>5, <1>6, <2>2 DEF HandlerOK, Fits
    <3> QED
      BY <1>5, <1>6, <2>2, <3>1, AfterOther
  <2> QED
    BY <1>6, <2>1, <2>2
<1>8. Fits(v[2], n)
  BY <1>6, <1>7 DEF Fits
<1>9. v[2] = After(v[2], n)
  BY <1>5, <1>6, <1>7, AfterSame
<1>10. PICK v2 : Story(v2)' /\ v2[1] = v[2] /\ \A p \in 2..(l + 1) : v2[p] = v[p]
  <2>1. \E v2 : /\ Story(v2)' /\ v2[1] = v[2]
                /\ \A p \in 2..(Len(pool) + 1) : v2[p] = v[p]
    BY <1>1, <1>2, <1>3, <1>5, <1>8, <1>9, StoryGoesOn
  <2> QED
    BY <1>1, <2>1
<1>11. \A k \in 1..l : /\ \A u : OfUser(k, u)' <=> OfUser(k, u)
                       /\ \A a : Of(k, a)' <=> Of(k, a)
  BY <1>3, <1>4, <1>6 DEF OfUser, Of
<1>12. OneByOne'
  BY <1>2, <1>3 DEF OneByOne
<1>13. GoneFollow'
  <2> SUFFICES ASSUME NEW u \in Users, user[u] = Absent
               PROVE  \E i \in 0..Len(pool') :
                        /\ i = 0 => accountLocked'[u] = Absent
                        /\ i # 0 => OfUser(i, u)' /\ Takes(pool'[i])
                        /\ \A j \in DOMAIN pool' : i < j => ~OfUser(j, u)'
    BY DEF GoneFollow, Takes
  <2>1. PICK i \in 0..l : /\ i = 0 => accountLocked[u] = Absent
                          /\ i # 0 => OfUser(i, u) /\ Takes(pool[i])
                          /\ \A j \in DOMAIN pool : i < j => ~OfUser(j, u)
    BY <1>1 DEF Follows, GoneFollow
  <2>2. \A j \in DOMAIN pool' : i < j => ~OfUser(j, u)'
    BY <1>2, <1>3, <1>11, <2>1
  <2>3. i = 0 => accountLocked'[u] = Absent
    <3>1. i = 0 => ~User(pool[1], u)
      BY <1>2, <2>1 DEF OfUser, User
    <3> QED
      BY <2>1, <3>1 DEF GoneMoves
  <2>4. i # 1
    BY <1>4, <1>6, <2>1 DEF OfUser
  <2>5. i # 0 => OfUser(i, u)' /\ Takes(pool'[i])
    BY <1>3, <1>11, <2>1, <2>4
  <2> QED
    BY <1>3, <2>2, <2>3, <2>5
<1>14. AclsFollow'
  <2> SUFFICES ASSUME NEW u \in Users, user[u] # Absent, ~Unsettled(u)'
               PROVE  /\ accountLocked'[u] # Absent => policies'[u] = acl[u]
                      /\ \A i \in DOMAIN pool' :
                           OfUser(i, u)' /\ pool'[i].todo = <<"addUser">> => pool'[i].acl = acl[u]
    BY DEF AclsFollow
  <2>1. \A i \in DOMAIN pool' : ~(OfUser(i, u)' /\ pool'[i].todo = <<"addUser">>)
    <3>1. n.todo = <<"addUser">> /\ n.topic = "users" => FALSE
      <4>1. Has(<<"addUser">>, "addUser")
        BY HasOne
      <4> QED
        BY <1>6, <4>1 DEF Adds
    <3>2. \A i \in 1..l : i # 1 => pool'[i].todo # <<"addUser">>
      BY <1>2, <1>3 DEF OneByOne
    <3> QED
      BY <1>3, <3>1, <3>2 DEF OfUser
  <2>2. ~Unsettled(u)
    <3> SUFFICES ASSUME NEW j \in DOMAIN pool,
                        Refreshes(pool[j], u) \/ (User(pool[j], u) /\ Takes(pool[j]))
                 PROVE  FALSE
      BY DEF Unsettled
    <3>1. j # 1
      BY <1>4, <1>6 DEF Refreshes, User
    <3>2. j \in DOMAIN pool' /\ pool'[j] = pool[j]
      BY <1>2, <1>3, <3>1
    <3> QED
      BY <3>2 DEF Unsettled, Refreshes, User, Takes
  <2>3. accountLocked[u] # Absent => policies[u] = acl[u]
    BY <2>2 DEF Follows, AclsFollow
  <2>4. ~(User(h, u) /\ h.todo = <<"addUser">>)
    BY <1>6, HasOne DEF User, Adds
  <2> QED
    BY <1>4, <2>1, <2>3, <2>4 DEF AclsMove
<1>15. LoginsFollow(v2)'
  <2> SUFFICES ASSUME NEW a \in Addresses, granted'[a], device'[a].owner \notin deleting'
               PROVE  \E i \in 0..Len(pool') :
                        /\ i = 0 => Open(a, device[a].owner)'
                        /\ i # 0 => /\ Of(i, a)' /\ pool'[i].todo = <<"authorise">>
                                    /\ pool'[i].cur.owner = device'[a].owner
                                    /\ a \in v2[i].kept
                        /\ \A j \in DOMAIN pool' : i < j =>
                             /\ Of(j, a)' => pool'[j].todo = <<"replacePeer">>
                             /\ ~OfUser(j, device[a].owner)'
    BY Zenon DEF LoginsFollow
  <2>0. PICK o : o = device[a].owner
    OBVIOUS
  <2>1. PICK i \in 0..l :
          /\ i = 0 => Open(a, o)
          /\ i # 0 => /\ Of(i, a) /\ pool[i].todo = <<"authorise">>
                      /\ pool[i].cur.owner = o /\ a \in v[i].kept
          /\ \A j \in DOMAIN pool : i < j =>
               (Of(j, a) => pool[j].todo = <<"replacePeer">>) /\ ~OfUser(j, o)
    BY <1>1, <2>0 DEF Follows, LoginsFollow
  <2>2. i # 1
    BY <1>4, <1>6, <2>1
  <2>3. i = 0 => Open(a, device[a].owner)'
    <3> SUFFICES ASSUME i = 0 PROVE Open(a, device[a].owner)'
      OBVIOUS
    <3>1. ~User(pool[1], o) /\ (Device(pool[1], a) => pool[1].todo = <<"replacePeer">>)
      BY <1>2, <2>1 DEF OfUser, User, Of, Device
    <3> QED
      BY <2>0, <2>1, <3>1 DEF LoginsMove
  <2>4. i # 0 => /\ Of(i, a)' /\ pool'[i].todo = <<"authorise">>
                 /\ pool'[i].cur.owner = o /\ a \in v2[i].kept
    <3> SUFFICES ASSUME i # 0
                 PROVE  /\ Of(i, a)' /\ pool'[i].todo = <<"authorise">>
                        /\ pool'[i].cur.owner = o /\ a \in v2[i].kept
      OBVIOUS
    <3>1. i \in 1..l /\ i \in 2..(l + 1)
      BY <2>2
    <3> QED
      BY <1>3, <1>10, <1>11, <2>1, <2>2, <3>1
  <2>5. \A j \in 1..l : i < j => j # 1 \/ i = 0
    OBVIOUS
  <2>6. i = 0 => ~Of(1, a)
    BY <1>2, <1>4, <1>6, <2>1
  <2>7. \A j \in DOMAIN pool' : i < j =>
          (Of(j, a)' => pool'[j].todo = <<"replacePeer">>) /\ ~OfUser(j, o)'
    <3> SUFFICES ASSUME NEW j \in 1..l, i < j
                 PROVE  (Of(j, a)' => pool'[j].todo = <<"replacePeer">>) /\ ~OfUser(j, o)'
      BY <1>3
    <3>1. (Of(j, a) => pool[j].todo = <<"replacePeer">>) /\ ~OfUser(j, o)
      BY <1>2, <2>1
    <3>2. j = 1 => ~Of(j, a)
      BY <2>5, <2>6
    <3> QED
      BY <1>3, <1>11, <3>1, <3>2
  <2> QED
    BY <1>3, <2>0, <2>3, <2>4, <2>7 DEF OfUser
<1>16. Reflects(v2[1])'
  <2>1. Reflects(v[2])' => Reflects(v2[1])'
    BY <1>10 DEF Reflects
  <2> QED
    BY <2>1
<1> QED
  BY <1>10, <1>12, <1>13, <1>14, <1>15, <1>16 DEF Follows

\* It goes on, or ends.
LEMMA ContinuedMirror ==
  ASSUME SyncTypes, OneByOne, 1 \in DOMAIN pool, NEW v, Follows(v), Reflects(v[2])',
         NEW todo, Continue(1, todo), UNCHANGED granted, todo = <<>> \/ Resumes(pool[1], todo),
         GoneMoves(pool[1]), AclsMove(pool[1]), LoginsMove(pool[1], v[1])
  PROVE  OneByOne' /\ \E v2 : Follows(v2)'
<1>1. /\ UNCHANGED <<user, device, acl, deleting, granted>>
      /\ pool' = IF todo = <<>> THEN RemoveAt(pool, 1)
                 ELSE [pool EXCEPT ![1].todo = todo, ![1].started = TRUE]
  BY DEF Continue, etcd
<1>2. CASE todo = <<>>
  BY <1>1, <1>2, EndedMirror
<1>3. CASE todo # <<>>
  <2>1. pool \in Seq(HandlerRecord) /\ pool[1] \in HandlerRecord
    BY DEF SyncTypes, HandlersOK, PoolOK
  <2>2. PICK n : n = [pool[1] EXCEPT !.todo = todo, !.started = TRUE]
    OBVIOUS
  <2>3. pool' = [pool EXCEPT ![1] = n]
    BY <1>1, <1>3, <2>1, <2>2
  <2>4. n.topic = pool[1].topic /\ n.id = pool[1].id /\ n.cur = pool[1].cur /\ n.todo = todo
    BY <2>1, <2>2 DEF HandlerRecord
  <2>5. Resumes(pool[1], n.todo)
    BY <1>3, <2>4
  <2> QED
    BY <1>1, <2>3, <2>4, <2>5, WentOnMirror
<1> QED
  BY <1>2, <1>3

\* The access list of a new user is read.
LEMMA ReadAclMirror ==
  ASSUME SyncTypes, OneByOne, 1 \in DOMAIN pool, NEW v, Follows(v), HandleReadAcl(1)
  PROVE  OneByOne' /\ \E v2 : Follows(v2)'
<1>1. PICK l \in Nat : l = Len(pool)
  BY DEF SyncTypes, HandlersOK, PoolOK
<1>2. PICK h : h = pool[1]
  OBVIOUS
<1>3. /\ pool \in Seq(HandlerRecord) /\ 1 <= l /\ DOMAIN pool = 1..l
      /\ h \in HandlerRecord
  BY <1>1, <1>2 DEF SyncTypes, HandlersOK, PoolOK
<1>4. /\ UNCHANGED <<firewall, user, device, acl, deleting, granted>>
      /\ pool' = [pool EXCEPT ![1].acl = acl[pool[1].id], ![1].todo = Tail(pool[1].todo),
                              ![1].started = TRUE]
      /\ Head(h.todo) = "readAcl"
  BY <1>2 DEF HandleReadAcl, Calls, etcd
<1>5. /\ h.topic = "users" /\ h.id \in Users
      /\ h.todo = <<"readAcl", "addUser">> /\ Tail(h.todo) = <<"addUser">>
  BY <1>2, <1>4, UserCall, FirstUserCall
<1>6. PICK n : n = [h EXCEPT !.acl = acl[h.id], !.todo = Tail(h.todo), !.started = TRUE]
  OBVIOUS
<1>7. pool' = [pool EXCEPT ![1] = n]
  BY <1>2, <1>3, <1>4, <1>6
<1>8. /\ n.topic = "users" /\ n.id = h.id /\ n.cur = h.cur
      /\ n.todo = <<"addUser">> /\ n.acl = acl[h.id]
  BY <1>3, <1>5, <1>6 DEF HandlerRecord
<1>9. /\ Len(pool') = l /\ DOMAIN pool' = 1..l /\ pool'[1] = n
      /\ \A k \in 1..l : k # 1 => pool'[k] = pool[k]
  BY <1>1, <1>3, <1>7
<1>10. Adds(h) /\ ~Takes(h) /\ Adds(n) /\ ~Takes(n)
  BY <1>5, <1>8, HasOne, HasTwo DEF Adds, Takes
<1>11. /\ Story(v) /\ v[2] = After(v[1], h) /\ Fits(v[1], h)
       /\ v[1] \in View /\ Sound(v[1])
  <2>1. 1 \in 1..l /\ 1 \in 1..(l + 1) /\ 1 + 1 = 2 /\ Story(v)
    BY <1>3 DEF Follows
  <2>2. /\ v \in [1..(l + 1) -> View]
        /\ \A p \in 1..l : Fits(v[p], pool[p]) /\ v[p + 1] = After(v[p], pool[p])
        /\ \A p \in 1..(l + 1) : Sound(v[p])
    BY <1>1, <2>1 DEF Story
  <2> QED
    BY <1>2, <2>1, <2>2
<1>12. Fits(v[1], n)
  BY <1>5, <1>8, <1>10, <1>11 DEF Fits
<1>13. v[2] = After(v[1], n)
  <2>1. /\ \A u : (User(n, u) /\ Adds(n)) <=> (User(h, u) /\ Adds(h))
        /\ \A u : ~(User(n, u) /\ Takes(n)) /\ ~(User(h, u) /\ Takes(h))
        /\ \A a : ~Device(n, a) /\ ~Device(h, a)
    BY <1>5, <1>8, <1>10 DEF User, Device
  <2>2. After(v[1], n) = After(v[1], h)
    BY <1>8, <1>10, <2>1 DEF After
  <2> QED
    BY <1>11, <2>2
<1>14. PICK v2 : Story(v2)' /\ v2[1] = v[1] /\ \A p \in 2..(l + 1) : v2[p] = v[p]
  <2>1. \E v2 : /\ Story(v2)' /\ v2[1] = v[1]
                /\ \A p \in 2..(Len(pool) + 1) : v2[p] = v[p]
    BY <1>1, <1>3, <1>4, <1>9, <1>11, <1>12, <1>13, StoryGoesOn
  <2> QED
    BY <1>1, <2>1
<1>15. \A k \in 1..l : /\ \A u : OfUser(k, u)' <=> OfUser(k, u)
                       /\ \A a : Of(k, a)' <=> Of(k, a)
  BY <1>2, <1>5, <1>8, <1>9 DEF OfUser, Of
<1>16. OneByOne'
  BY <1>3, <1>9 DEF OneByOne
<1>17. GoneFollow'
  <2> SUFFICES ASSUME NEW u \in Users, user[u] = Absent
               PROVE  \E i \in 0..Len(pool') :
                        /\ i = 0 => accountLocked'[u] = Absent
                        /\ i # 0 => OfUser(i, u)' /\ Takes(pool'[i])
                        /\ \A j \in DOMAIN pool' : i < j => ~OfUser(j, u)'
    BY <1>4 DEF GoneFollow, Takes
  <2>1. PICK i \in 0..l : /\ i = 0 => accountLocked[u] = Absent
                          /\ i # 0 => OfUser(i, u) /\ Takes(pool[i])
                          /\ \A j \in DOMAIN pool : i < j => ~OfUser(j, u)
    BY <1>1 DEF Follows, GoneFollow
  <2>2. \A j \in DOMAIN pool' : i < j => ~OfUser(j, u)'
    BY <1>3, <1>9, <1>15, <2>1
  <2>3. i # 1
    BY <1>2, <1>10, <2>1
  <2>4. i # 0 => OfUser(i, u)' /\ Takes(pool'[i])
    BY <1>9, <1>15, <2>1, <2>3
  <2> QED
    BY <1>4, <1>9, <2>1, <2>2, <2>4 DEF firewall
<1>18. AclsFollow'
  <2> SUFFICES ASSUME NEW u \in Users, user[u] # Absent, ~Unsettled(u)'
               PROVE  /\ accountLocked'[u] # Absent => policies'[u] = acl[u]
                      /\ \A i \in DOMAIN pool' :
                           OfUser(i, u)' /\ pool'[i].todo = <<"addUser">> => pool'[i].acl = acl[u]
    BY <1>4 DEF AclsFollow
  <2>1. \A i \in 1..l : i # 1 => pool'[i].todo # <<"addUser">>
    BY <1>3, <1>9 DEF OneByOne
  <2>2. OfUser(1, u)' => n.acl = acl[u]
    BY <1>8, <1>9 DEF OfUser
  <2>3. ~Unsettled(u)
    <3> SUFFICES ASSUME NEW j \in DOMAIN pool,
                        Refreshes(pool[j], u) \/ (User(pool[j], u) /\ Takes(pool[j]))
                 PROVE  FALSE
      BY DEF Unsettled
    <3>1. j # 1
      BY <1>2, <1>5, <1>10 DEF Refreshes, User
    <3>2. j \in DOMAIN pool' /\ pool'[j] = pool[j]
      BY <1>3, <1>9, <3>1
    <3> QED
      BY <3>2 DEF Unsettled, Refreshes, User, Takes
  <2>4. accountLocked[u] # Absent => policies[u] = acl[u]
    BY <1>4, <2>3 DEF Follows, AclsFollow
  <2> QED
    BY <1>4, <1>9, <2>1, <2>2, <2>4 DEF firewall
<1>19. LoginsFollow(v2)'
  <2> SUFFICES ASSUME NEW a \in Addresses, granted'[a], device'[a].owner \notin deleting'
               PROVE  \E i \in 0..Len(pool') :
                        /\ i = 0 => Open(a, device[a].owner)'
                        /\ i # 0 => /\ Of(i, a)' /\ pool'[i].todo = <<"authorise">>
                                    /\ pool'[i].cur.owner = device'[a].owner
                                    /\ a \in v2[i].kept
                        /\ \A j \in DOMAIN pool' : i < j =>
                             /\ Of(j, a)' => pool'[j].todo = <<"replacePeer">>
                             /\ ~OfUser(j, device[a].owner)'
    BY Zenon DEF LoginsFollow
  <2>0. PICK o : o = device[a].owner /\ o = device'[a].owner
    BY <1>4
  <2>1. PICK i \in 0..l :
          /\ i = 0 => Open(a, o)
          /\ i # 0 => /\ Of(i, a) /\ pool[i].todo = <<"authorise">>
                      /\ pool[i].cur.owner = o /\ a \in v[i].kept
          /\ \A j \in DOMAIN pool : i < j =>
               (Of(j, a) => pool[j].todo = <<"replacePeer">>) /\ ~OfUser(j, o)
    <3>1. granted[a] /\ device[a].owner \notin deleting
      BY <1>4
    <3> QED
      BY <1>1, <2>0, <3>1 DEF Follows, LoginsFollow
  <2>2. i # 1
    BY <1>2, <1>5, <2>1 DEF Of
  <2>3. i = 0 => Open(a, device[a].owner)'
    BY <1>4, <2>0, <2>1 DEF Open, Known, firewall
  <2>4. i # 0 => /\ Of(i, a)' /\ pool'[i].todo = <<"authorise">>
                 /\ pool'[i].cur.owner = o /\ a \in v2[i].kept
    <3> SUFFICES ASSUME i # 0
                 PROVE  /\ Of(i, a)' /\ pool'[i].todo = <<"authorise">>
                        /\ pool'[i].cur.owner = o /\ a \in v2[i].kept
      OBVIOUS
    <3>1. i \in 1..l /\ i \in 2..(l + 1)
      BY <2>2
    <3> QED
      BY <1>9, <1>14, <1>15, <2>1, <2>2, <3>1
  <2>5. \A j \in DOMAIN pool' : i < j =>
          (Of(j, a)' => pool'[j].todo = <<"replacePeer">>) /\ ~OfUser(j, o)'
    <3> SUFFICES ASSUME NEW j \in 1..l, i < j
                 PROVE  (Of(j, a)' => pool'[j].todo = <<"replacePeer">>) /\ ~OfUser(j, o)'
      BY <1>9
    <3>1. (Of(j, a) => pool[j].todo = <<"replacePeer">>) /\ ~OfUser(j, o)
      BY <1>3, <2>1
    <3>2. j = 1 => ~Of(j, a)
      BY <1>2, <1>5 DEF Of
    <3> QED
      BY <1>9, <1>15, <3>1, <3>2
  <2> QED
    BY <1>9, <2>0, <2>3, <2>4, <2>5 DEF OfUser
<1>20. Reflects(v2[1])'
  <2>1. Reflects(v[1])
    BY DEF Follows
  <2>2. Reflects(v[1])'
    BY <1>4, <2>1 DEF Reflects, Forgotten, Remembered, Entire, Known, Tracked, firewall
  <2>3. Reflects(v[1])' => Reflects(v2[1])'
    BY <1>14 DEF Reflects
  <2> QED
    BY <2>2, <2>3
<1> QED
  BY <1>14, <1>16, <1>17, <1>18, <1>19, <1>20 DEF Follows

\* The views before and after the write of the first handler.
LEMMA FirstView ==
  ASSUME SyncTypes, 1 \in DOMAIN pool, NEW v, Follows(v)
  PROVE  /\ v[1] \in View /\ v[2] \in View /\ Sound(v[1]) /\ Sound(v[2])
         /\ Fits(v[1], pool[1]) /\ v[2] = After(v[1], pool[1])
         /\ Reflects(v[1]) /\ HandlerOK(pool[1])
<1>1. PICK l \in Nat : l = Len(pool)
  BY DEF SyncTypes, HandlersOK, PoolOK
<1>2. 1 \in 1..l /\ HandlerOK(pool[1]) /\ pool \in Seq(HandlerRecord)
  BY <1>1 DEF SyncTypes, HandlersOK, PoolOK
<1>3. 1 \in 1..(l + 1) /\ 2 \in 1..(l + 1) /\ 1 + 1 = 2 /\ Story(v) /\ Reflects(v[1])
  BY <1>2 DEF Follows
<1>4. /\ v \in [1..(l + 1) -> View]
      /\ \A p \in 1..l : Fits(v[p], pool[p]) /\ v[p + 1] = After(v[p], pool[p])
      /\ \A p \in 1..(l + 1) : Sound(v[p])
  BY <1>1, <1>3 DEF Story
<1> QED
  BY <1>2, <1>3, <1>4

\* A call that writes at most the entry of address a leaves it an entry.
LEMMA QuietEntries ==
  ASSUME FirewallTypeOK, NEW a \in Addresses, NEW u \in Users, NEW node \in Nodes,
         Deauthenticate(a) \/ UpdateNodeAssociation(a, node) \/ SetAuthorized(a, u, node)
  PROVE  /\ UNCHANGED <<accountLocked, policies, peers, usersToAddresses, addressesToUsers>>
         /\ \A b \in Addresses : b # a => xdpDevices'[b] = xdpDevices[b]
         /\ Known(a)' <=> Known(a)
         /\ Known(a) => xdpDevices'[a].user \in {xdpDevices[a].user, u}
<1>1. UNCHANGED <<accountLocked, policies, peers, usersToAddresses, addressesToUsers>>
  BY DEF Deauthenticate, UpdateNodeAssociation, SetAuthorized
<1>2. xdpDevices \in [Addresses -> FwEntry \cup {Absent}] /\ Absent \notin FwEntry
  BY EntryAssumption DEF FirewallTypeOK
<1>3. ASSUME NEW e \in FwEntry, Known(a), e.user \in {xdpDevices[a].user, u},
             xdpDevices' = [xdpDevices EXCEPT ![a] = e]
      PROVE  /\ \A b \in Addresses : b # a => xdpDevices'[b] = xdpDevices[b]
             /\ Known(a)' <=> Known(a)
             /\ Known(a) => xdpDevices'[a].user \in {xdpDevices[a].user, u}
  BY <1>2, <1>3 DEF Known
<1>4. CASE Deauthenticate(a)
  <2>1. xdpDevices' = [b \in Addresses |->
                         IF b \in {a} /\ Known(b) THEN [xdpDevices[b] EXCEPT !.session = "none"]
                         ELSE xdpDevices[b]]
    BY <1>4 DEF Deauthenticate, Deauthenticated
  <2>2. \A b \in Addresses : b # a => xdpDevices'[b] = xdpDevices[b]
    BY <2>1
  <2>3. Known(a) => /\ [xdpDevices[a] EXCEPT !.session = "none"] \in FwEntry
                    /\ [xdpDevices[a] EXCEPT !.session = "none"].user = xdpDevices[a].user
    BY EntryLemma DEF SessionStates
  <2> QED
    BY <1>1, <1>2, <2>1, <2>2, <2>3 DEF Known
<1>5. CASE UpdateNodeAssociation(a, node)
  <2>1. Known(a) => /\ [xdpDevices[a] EXCEPT !.node = node] \in FwEntry
                    /\ [xdpDevices[a] EXCEPT !.node = node].user = xdpDevices[a].user
    BY EntryLemma
  <2>2. PICK e : e = [xdpDevices[a] EXCEPT !.node = node]
    OBVIOUS
  <2>3. xdpDevices' = IF Known(a) THEN [xdpDevices EXCEPT ![a] = e] ELSE xdpDevices
    BY <1>5, <2>2 DEF UpdateNodeAssociation
  <2> QED
    BY <1>1, <1>3, <2>1, <2>2, <2>3 DEF Known
<1>6. CASE SetAuthorized(a, u, node)
  <2>1. PICK e : e = [user |-> u, session |-> "live", node |-> node]
    OBVIOUS
  <2>2. e \in FwEntry /\ e.user = u
    BY <2>1 DEF FwEntry, SessionStates
  <2>3. xdpDevices' = IF Known(a) THEN [xdpDevices EXCEPT ![a] = e] ELSE xdpDevices
    BY <1>6, <2>1 DEF SetAuthorized
  <2> QED
    BY <1>1, <1>3, <2>2, <2>3 DEF Known
<1> QED
  BY <1>4, <1>5, <1>6

\* A login that nothing has ended is of an account the router has unlocked,
\* where no handler of its user is to come.
LEMMA GrantedUnlocked ==
  ASSUME SessionsInv, Granted, InOrder, NEW a \in Addresses, granted[a],
         \A j \in DOMAIN pool : ~OfUser(j, device[a].owner)
  PROVE  device[a].owner \in Users /\ accountLocked[device[a].owner] = FALSE
<1>1. /\ phase = "up" /\ device[a] # Absent
      /\ user[device[a].owner] # Absent /\ ~user[device[a].owner].locked
  BY DEF Granted
<1>2. device[a].owner \in Users
  BY <1>1, DeviceThere DEF SessionsInv, DeviceRecord
<1>3. user[device[a].owner].locked \in BOOLEAN
  BY <1>1, <1>2 DEF SessionsInv, SyncTypes, EtcdOK, UserRecord
<1>4. accountLocked[device[a].owner] = Lock(device[a].owner)
  BY <1>1, <1>2 DEF SessionsInv, Locks, LocksHold, LocksFollow
<1> QED
  BY <1>1, <1>2, <1>3, <1>4 DEF Lock

\* The calls of a changed device, but for a new key.
LEMMA ChangeMirror ==
  ASSUME SessionsInv, Granted, InOrder, OneByOne, 1 \in DOMAIN pool, NEW v, Follows(v),
         \/ HandleChallenge(1) \/ HandleVerify(1) \/ HandleCheckLockout(1)
         \/ HandleDeauthenticate(1) \/ HandleAssociate(1) \/ HandleAuthorise(1)
  PROVE  OneByOne' /\ \E v2 : Follows(v2)'
<1> USE DEF Calls
<1>0. SyncTypes /\ FirewallTypeOK /\ Absent \notin FwEntry
  BY EntryAssumption DEF SessionsInv, SyncTypes, RouterOK
<1>1. PICK h : h = pool[1]
  OBVIOUS
<1>2. /\ v[1] \in View /\ v[2] \in View /\ Sound(v[1]) /\ Sound(v[2])
      /\ Fits(v[1], h) /\ v[2] = After(v[1], h) /\ Reflects(v[1]) /\ HandlerOK(h)
  BY <1>0, <1>1, FirstView
<1>3. Head(h.todo) \in ChangeCalls \ {"replacePeer"}
  BY <1>1 DEF HandleChallenge, HandleVerify, HandleCheckLockout, HandleDeauthenticate,
     HandleAssociate, HandleAuthorise, ChangeCalls
<1>4. /\ h.topic = "devices" /\ h.id \in Addresses /\ h.cur.owner \in Users
      /\ h.todo \in Seq(ChangeCalls) /\ h.todo # <<>>
      /\ Head(h.todo) \in PlaceCalls => h.cur.node \in Nodes
  BY <1>0, <1>1, <1>2, <1>3, DeviceCall DEF Changes, HandlerOK
<1>5. ~Creates(h) /\ ~Removes(h) /\ ~Rekeys(h)
  BY <1>2, <1>3, <1>4, ChangeCallsKeep DEF Fits
<1>6. /\ v[1].owner[h.id] = h.cur.owner /\ v[1].key[h.id] = h.cur.key
      /\ v[2] = v[1]
  <2>1. v[1].owner[h.id] = h.cur.owner /\ v[1].key[h.id] = h.cur.key
    BY <1>2, <1>4, <1>5 DEF Fits
  <2> QED
    BY <1>2, <1>4, <1>5, <2>1, AfterSame
<1>7. Tail(h.todo) \in Seq(ChangeCalls) /\ ~Has(Tail(h.todo), "replacePeer")
  BY <1>4, <1>5, HasTail DEF Rekeys
<1>8. ASSUME NEW todo \in Seq(ChangeCalls), ~Has(todo, "replacePeer"), Continue(1, todo),
             UNCHANGED granted,
             todo # <<>> => h.todo # <<"authorise">>,
             UNCHANGED <<accountLocked, policies, peers, usersToAddresses, addressesToUsers>>,
             \A b \in Addresses : b # h.id => xdpDevices'[b] = xdpDevices[b],
             Known(h.id)' <=> Known(h.id),
             Known(h.id) => xdpDevices'[h.id].user \in {xdpDevices[h.id].user, h.cur.owner},
             h.todo = <<"authorise">> /\ Known(h.id) =>
               xdpDevices'[h.id].user = h.cur.owner /\ xdpDevices'[h.id].session = "live"
      PROVE  OneByOne' /\ \E v2 : Follows(v2)'
  <2>1. \A b \in Addresses : /\ Known(b)' <=> Known(b)
                             /\ Known(b) => xdpDevices'[b].user \in
                                              {xdpDevices[b].user, v[1].owner[b]}
    BY <1>6, <1>8 DEF Known
  <2>2. Reflects(v[1])'
    BY <1>2, <1>8, <2>1, ReflectsKept
  <2>3. Reflects(v[2])'
    BY <1>6, <2>2
  <2>4. todo = <<>> \/ Resumes(h, todo)
    <3>1. h.todo # <<"replacePeer">>
      BY <1>5, HasOne DEF Rekeys
    <3>2. \A c : todo = <<c>> => c \in ChangeCalls
      <4> SUFFICES ASSUME NEW c, todo = <<c>> PROVE c \in ChangeCalls
        OBVIOUS
      <4>1. 1 \in DOMAIN todo /\ todo[1] = c
        OBVIOUS
      <4> QED
        BY <1>8, <4>1
    <3>3. todo # <<"addPeer">> /\ todo # <<"removePeer">>
      BY <3>2 DEF ChangeCalls
    <3> QED
      BY <1>4, <1>5, <1>8, <3>1, <3>3 DEF Resumes
  <2>5. GoneMoves(h)
    BY <1>4, <1>8 DEF GoneMoves, User
  <2>6. AclsMove(h)
    BY <1>4, <1>8 DEF AclsMove, Refreshes, User
  <2>7. LoginsMove(h, v[1])
    <3> SUFFICES ASSUME NEW a \in Addresses, granted[a]
                 PROVE  /\ /\ Open(a, device[a].owner) /\ ~User(h, device[a].owner)
                           /\ Device(h, a) => h.todo = <<"replacePeer">>
                           => Open(a, device[a].owner)'
                        /\ /\ Device(h, a) /\ h.todo = <<"authorise">>
                           /\ h.cur.owner = device[a].owner /\ a \in v[1].kept
                           /\ \A j \in DOMAIN pool : ~OfUser(j, device[a].owner)
                           => Open(a, device[a].owner)'
      BY DEF LoginsMove
    <3>0. device' = device
      BY <1>8 DEF Continue, etcd
    <3>1. ASSUME Open(a, device[a].owner), Device(h, a) => h.todo = <<"replacePeer">>
          PROVE  Open(a, device[a].owner)'
      <4>0. h.todo # <<"replacePeer">>
        BY <1>5, HasOne DEF Rekeys
      <4>1. a # h.id
        BY <1>4, <3>1, <4>0 DEF Device
      <4> QED
        BY <1>8, <3>0, <3>1, <4>1 DEF Open, Known
    <3>2. ASSUME Device(h, a), h.todo = <<"authorise">>, h.cur.owner = device[a].owner,
                 a \in v[1].kept, \A j \in DOMAIN pool : ~OfUser(j, device[a].owner)
          PROVE  Open(a, device[a].owner)'
      <4>1. Known(a) /\ a = h.id
        BY <1>2, <3>2 DEF Reflects, Entire, Device
      <4>2. accountLocked[device[a].owner] = FALSE
        BY <3>2, GrantedUnlocked
      <4> QED
        BY <1>8, <3>0, <3>2, <4>1, <4>2 DEF Open
    <3> QED
      BY <3>1, <3>2
  <2> QED
    BY <1>0, <1>1, <1>8, <2>3, <2>4, <2>5, <2>6, <2>7, ContinuedMirror
<1>9. h.todo = <<"authorise">> => Tail(h.todo) = <<>> /\ Head(h.todo) = "authorise"
  BY HeadTail, Zenon
<1>10. ASSUME NEW call \in {"verify", "deauthenticate"}, NEW todo,
              todo = <<call>> \o Tail(h.todo) \/ todo = Tail(h.todo),
              Continue(1, todo), UNCHANGED <<firewall, granted>>, Head(h.todo) # "authorise"
       PROVE  OneByOne' /\ \E v2 : Follows(v2)'
  <2>1. <<call>> \in Seq(ChangeCalls) /\ ~Has(<<call>>, "replacePeer")
    BY HasOne DEF ChangeCalls
  <2>2. <<call>> \o Tail(h.todo) \in Seq(ChangeCalls)
    BY <1>7, <2>1, ConcatSeq
  <2>3. ~Has(<<call>> \o Tail(h.todo), "replacePeer")
    BY <1>7, <2>1, HasConcat
  <2>4. todo \in Seq(ChangeCalls) /\ ~Has(todo, "replacePeer")
    BY <1>7, <1>10, <2>2, <2>3
  <2> QED
    BY <1>8, <1>9, <1>10, <2>4 DEF firewall, Known
<1>11. ASSUME Proceed(1) \/ Fail(1), UNCHANGED granted,
              h.todo # <<"authorise">>, NEW node \in Nodes,
              UNCHANGED firewall \/ Deauthenticate(h.id) \/ UpdateNodeAssociation(h.id, node)
       PROVE  OneByOne' /\ \E v2 : Follows(v2)'
  <2>1. PICK todo \in {Tail(h.todo), <<>>} : Continue(1, todo)
    BY <1>1, <1>11 DEF Proceed, Fail
  <2>2. todo \in Seq(ChangeCalls) /\ ~Has(todo, "replacePeer")
    <3>1. <<>> \in Seq(ChangeCalls)
      OBVIOUS
    <3>2. ~Has(<<>>, "replacePeer")
      BY HasNone
    <3> QED
      BY <1>7, <2>1, <3>1, <3>2
  <2>3. /\ UNCHANGED <<accountLocked, policies, peers, usersToAddresses, addressesToUsers>>
        /\ \A b \in Addresses : b # h.id => xdpDevices'[b] = xdpDevices[b]
        /\ Known(h.id)' <=> Known(h.id)
        /\ Known(h.id) => xdpDevices'[h.id].user \in {xdpDevices[h.id].user, h.cur.owner}
    <3>1. CASE UNCHANGED firewall
      BY <3>1 DEF firewall, Known
    <3>2. CASE Deauthenticate(h.id) \/ UpdateNodeAssociation(h.id, node)
      BY <1>0, <1>4, <3>2, QuietEntries
    <3> QED
      BY <1>11, <3>1, <3>2
  <2> QED
    BY <1>8, <1>11, <2>1, <2>2, <2>3
<1>12. CASE HandleChallenge(1)
  BY <1>1, <1>10, <1>12 DEF HandleChallenge
<1>13. CASE HandleCheckLockout(1)
  BY <1>1, <1>10, <1>13 DEF HandleCheckLockout
<1>14. CASE HandleVerify(1)
  <2>1. /\ Head(h.todo) = "verify" /\ (Proceed(1) \/ Fail(1))
        /\ UNCHANGED granted /\ (UNCHANGED firewall \/ Deauthenticate(h.id))
    BY <1>1, <1>14 DEF HandleVerify, ProceedIf
  <2>2. h.todo # <<"authorise">>
    BY <1>9, <2>1
  <2>3. Self \in Nodes
    BY FirewallSyncAssumption
  <2> QED
    BY <1>11, <2>1, <2>2, <2>3
<1>15. CASE HandleDeauthenticate(1)
  <2>1. /\ Head(h.todo) = "deauthenticate" /\ (Proceed(1) \/ Fail(1))
        /\ UNCHANGED granted /\ Deauthenticate(h.id)
    BY <1>1, <1>15 DEF HandleDeauthenticate, ProceedIf
  <2>2. h.todo # <<"authorise">>
    BY <1>9, <2>1
  <2>3. Self \in Nodes
    BY FirewallSyncAssumption
  <2> QED
    BY <1>11, <2>1, <2>2, <2>3
<1>16. CASE HandleAssociate(1)
  <2>1. /\ Head(h.todo) = "associate" /\ (Proceed(1) \/ Fail(1))
        /\ UNCHANGED granted /\ UpdateNodeAssociation(h.id, h.cur.node)
    BY <1>1, <1>16 DEF HandleAssociate, ProceedIf
  <2>2. h.todo # <<"authorise">> /\ h.cur.node \in Nodes
    BY <1>4, <1>9, <2>1 DEF PlaceCalls
  <2> QED
    BY <1>11, <2>1, <2>2
<1>17. CASE HandleAuthorise(1)
  <2>1. /\ Head(h.todo) = "authorise" /\ Continue(1, Tail(h.todo)) /\ UNCHANGED granted
        /\ SetAuthorized(h.id, h.cur.owner, h.cur.node)
    BY <1>1, <1>17 DEF HandleAuthorise, Proceed
  <2>2. h.cur.node \in Nodes
    BY <1>4, <2>1 DEF PlaceCalls
  <2>3. /\ UNCHANGED <<accountLocked, policies, peers, usersToAddresses, addressesToUsers>>
        /\ \A b \in Addresses : b # h.id => xdpDevices'[b] = xdpDevices[b]
        /\ Known(h.id)' <=> Known(h.id)
        /\ Known(h.id) => xdpDevices'[h.id].user \in {xdpDevices[h.id].user, h.cur.owner}
    BY <1>0, <1>4, <2>1, <2>2, QuietEntries
  <2>4. Known(h.id) =>
          xdpDevices'[h.id].user = h.cur.owner /\ xdpDevices'[h.id].session = "live"
    <3>1. PICK e : e = [user |-> h.cur.owner, session |-> "live", node |-> h.cur.node]
      OBVIOUS
    <3>2. Known(h.id) => xdpDevices' = [xdpDevices EXCEPT ![h.id] = e]
      BY <2>1, <3>1 DEF SetAuthorized
    <3>3. Known(h.id) => xdpDevices'[h.id] = e
      BY <1>0, <1>4, <3>2 DEF FirewallTypeOK
    <3> QED
      BY <3>1, <3>3
  <2> QED
    BY <1>7, <1>8, <1>9, <2>1, <2>3, <2>4
<1> QED
  BY <1>12, <1>13, <1>14, <1>15, <1>16, <1>17

\* The calls that enter, remove and rekey a peer.
LEMMA PeerMirror ==
  ASSUME SessionsInv, OneByOne, 1 \in DOMAIN pool, NEW v, Follows(v),
         HandleAddPeer(1) \/ HandleRemovePeer(1) \/ HandleReplacePeer(1)
  PROVE  OneByOne' /\ \E v2 : Follows(v2)'
<1> USE DEF Calls
<1>0. SyncTypes /\ FirewallTypeOK
  BY DEF SessionsInv, SyncTypes, RouterOK
<1>1. PICK h : h = pool[1]
  OBVIOUS
<1>2. /\ v[1] \in View /\ v[2] \in View /\ Sound(v[1]) /\ Sound(v[2])
      /\ Fits(v[1], h) /\ v[2] = After(v[1], h) /\ Reflects(v[1]) /\ HandlerOK(h)
  BY <1>0, <1>1, FirstView
<1>3. Head(h.todo) \in {"addPeer", "removePeer", "replacePeer"}
  BY <1>1 DEF HandleAddPeer, HandleRemovePeer, HandleReplacePeer
<1>4. /\ h.topic = "devices" /\ h.id \in Addresses /\ h.cur.owner \in Users
      /\ h.cur.key \in Keys
      /\ Head(h.todo) = "addPeer" => Creates(h)
      /\ Head(h.todo) = "removePeer" => Removes(h)
      /\ Head(h.todo) = "replacePeer" => Changes(h)
      /\ h.todo \in Seq(Steps) /\ h.todo # <<>>
  BY <1>0, <1>1, <1>2, <1>3, DeviceCall DEF ChangeCalls, HandlerOK, HandlerRecord
<1>5. /\ Head(<<"authorise">>) = "authorise" /\ Head(<<"replacePeer">>) = "replacePeer"
      /\ Tail(<<"replacePeer">>) = <<>>
      /\ Tail(<<"addPeer">>) = <<>> /\ Tail(<<"removePeer">>) = <<>>
      /\ Head(<<"addPeer">>) = "addPeer" /\ Head(<<"removePeer">>) = "removePeer"
  BY HeadTail
<1>6. ASSUME NEW todo, todo = <<>> \/ Resumes(h, todo), Continue(1, todo), UNCHANGED granted,
             Reflects(v[2])', UNCHANGED <<accountLocked, policies>>,
             \A b \in Addresses : b # h.id \/ h.todo = <<"replacePeer">> =>
               xdpDevices'[b] = xdpDevices[b]
      PROVE  OneByOne' /\ \E v2 : Follows(v2)'
  <2>1. GoneMoves(h)
    BY <1>4, <1>6 DEF GoneMoves, User
  <2>2. AclsMove(h)
    BY <1>4, <1>6 DEF AclsMove, Refreshes, User
  <2>3. LoginsMove(h, v[1])
    <3>1. device' = device /\ h.todo # <<"authorise">>
      BY <1>3, <1>5, <1>6 DEF Continue, etcd
    <3> SUFFICES ASSUME NEW a \in Addresses, Open(a, device[a].owner),
                        Device(h, a) => h.todo = <<"replacePeer">>
                 PROVE  Open(a, device[a].owner)'
      BY <3>1 DEF LoginsMove
    <3>2. a # h.id \/ h.todo = <<"replacePeer">>
      BY <1>4 DEF Device
    <3> QED
      BY <1>6, <3>1, <3>2 DEF Open, Known
  <2> QED
    BY <1>0, <1>1, <1>6, <2>1, <2>2, <2>3, ContinuedMirror
<1>7. CASE HandleAddPeer(1)
  <2>1. /\ AddPeer(h.cur.key, h.cur.owner, h.id, h.cur.node) /\ UNCHANGED granted
        /\ ProceedIf(1, CanAddPeer(h.cur.owner, h.id)) /\ Head(h.todo) = "addPeer"
    BY <1>1, <1>7 DEF HandleAddPeer
  <2>2. Creates(h) /\ ~Removes(h)
    <3>1. h.todo = <<"addPeer">>
      BY <1>4, <2>1 DEF Creates
    <3> QED
      BY <1>5, <3>1 DEF Creates, Removes
  <2>3. CanAddPeer(h.cur.owner, h.id) /\ Reflects(v[2])'
    BY <1>0, <1>2, <1>4, <2>1, <2>2, AddPeerReflects
  <2>4. Continue(1, <<>>)
    BY <1>1, <1>5, <2>1, <2>2, <2>3 DEF ProceedIf, Proceed, Creates
  <2>5. UNCHANGED <<accountLocked, policies>>
    BY <2>1 DEF AddPeer, firewall
  <2>6. h.todo # <<"replacePeer">>
    BY <1>5, <2>1
  <2>7. \A b \in Addresses : b # h.id => xdpDevices'[b] = xdpDevices[b]
    BY <1>0, <2>1, <2>3 DEF AddPeer, FirewallTypeOK
  <2> QED
    BY <1>6, <2>1, <2>3, <2>4, <2>5, <2>6, <2>7
<1>8. CASE HandleRemovePeer(1)
  <2>1. /\ RemovePeer(h.cur.key, h.id) /\ UNCHANGED granted
        /\ Proceed(1) /\ Head(h.todo) = "removePeer"
    BY <1>1, <1>8 DEF HandleRemovePeer
  <2>2. Removes(h) /\ ~Creates(h)
    <3>1. h.todo = <<"removePeer">>
      BY <1>4, <2>1 DEF Removes
    <3> QED
      BY <1>5, <3>1 DEF Creates, Removes
  <2>3. Reflects(v[2])'
    BY <1>0, <1>2, <1>4, <2>1, <2>2, RemovePeerReflects
  <2>4. Continue(1, <<>>)
    BY <1>1, <1>5, <2>1, <2>2 DEF Proceed, Removes
  <2>5. UNCHANGED <<accountLocked, policies>>
    BY <2>1 DEF RemovePeer
  <2>6. h.todo # <<"replacePeer">>
    BY <1>5, <2>1
  <2>7. \A b \in Addresses : b # h.id => xdpDevices'[b] = xdpDevices[b]
    BY <1>0, <2>1 DEF RemovePeer, FirewallTypeOK
  <2> QED
    BY <1>6, <2>1, <2>3, <2>4, <2>5, <2>6, <2>7
<1>9. CASE HandleReplacePeer(1)
  <2>1. Changes(h) /\ Head(h.todo) = "replacePeer"
    BY <1>1, <1>4, <1>9 DEF HandleReplacePeer
  <2>2. /\ h.todo \in Seq(ChangeCalls) /\ h.old \in Keys
        /\ ~Creates(h) /\ ~Removes(h)
    BY <2>1, ChangeCallsKeep DEF Changes
  <2>3. Rekeys(h) /\ Tail(h.todo) \in Seq(ChangeCalls)
    <3>1. Has(h.todo, "replacePeer")
      BY <1>4, <2>1, <2>2, HasTail
    <3>2. Tail(h.todo) \in Seq(ChangeCalls)
      BY <1>4, <2>2
    <3> QED
      BY <3>1, <3>2 DEF Rekeys
  <2>4. ~Has(Tail(h.todo), "replacePeer")
    BY <1>2, <1>4, <2>2, <2>3 DEF Fits
  <2>5. /\ ~ReplacePanics(h.cur.owner)
        /\ ReplacePeer(h.cur.owner, h.id, h.old, h.cur.key) => Reflects(v[2])'
    BY <1>0, <1>2, <1>4, <2>2, <2>3, ReplacePeerReflects
  <2>6. /\ ReplacePeer(h.cur.owner, h.id, h.old, h.cur.key) /\ Continue(1, Tail(h.todo))
        /\ UNCHANGED granted
    BY <1>1, <1>9, <2>5 DEF HandleReplacePeer, Proceed
  <2>7. UNCHANGED <<accountLocked, policies, xdpDevices>>
    BY <2>6 DEF ReplacePeer
  <2>8. Tail(h.todo) = <<>> \/ Resumes(h, Tail(h.todo))
    <3>1. h.todo = <<"replacePeer">> => Tail(h.todo) = <<>>
      BY <1>5
    <3>2. h.todo # <<"authorise">>
      BY <1>5, <2>1
    <3>3. Tail(h.todo) # <<"addPeer">> /\ Tail(h.todo) # <<"removePeer">>
      <4>1. \A s \in Seq(ChangeCalls) : s # <<>> => Head(s) \in ChangeCalls
        OBVIOUS
      <4>2. <<"addPeer">> # <<>> /\ <<"removePeer">> # <<>>
        OBVIOUS
      <4>3. "addPeer" \notin ChangeCalls /\ "removePeer" \notin ChangeCalls
        BY DEF ChangeCalls
      <4> QED
        BY <1>5, <2>3, <4>1, <4>2, <4>3, Zenon
    <3> QED
      BY <1>4, <2>2, <2>4, <3>1, <3>2, <3>3 DEF Resumes
  <2> QED
    BY <1>6, <2>5, <2>6, <2>7, <2>8
<1> QED
  BY <1>7, <1>8, <1>9

\* A call that ends the sessions of the addresses in S keeps their entries,
LEMMA EndedKeeps ==
  ASSUME FirewallTypeOK, NEW S \in SUBSET Addresses, xdpDevices' = Deauthenticated(S)
  PROVE  \A b \in Addresses :
           /\ Known(b)' <=> Known(b)
           /\ Known(b) => xdpDevices'[b].user = xdpDevices[b].user
           /\ b \notin S => xdpDevices'[b] = xdpDevices[b]
<1> SUFFICES ASSUME NEW b \in Addresses
             PROVE  /\ Known(b)' <=> Known(b)
                    /\ Known(b) => xdpDevices'[b].user = xdpDevices[b].user
                    /\ b \notin S => xdpDevices'[b] = xdpDevices[b]
  OBVIOUS
<1>1. xdpDevices'[b] = IF b \in S /\ Known(b) THEN [xdpDevices[b] EXCEPT !.session = "none"]
                       ELSE xdpDevices[b]
  BY DEF Deauthenticated
<1>2. Known(b) => /\ [xdpDevices[b] EXCEPT !.session = "none"] \in FwEntry
                  /\ [xdpDevices[b] EXCEPT !.session = "none"].user = xdpDevices[b].user
  BY EntryLemma DEF SessionStates
<1> QED
  BY <1>1, <1>2, EntryAssumption DEF Known

\* and so does one that brings idle sessions back.
LEMMA RevivedKeeps ==
  ASSUME FirewallTypeOK, NEW S \in SUBSET Idle(Addresses),
         xdpDevices' = [a \in Addresses |->
                          IF a \in S THEN [xdpDevices[a] EXCEPT !.session = "live"]
                          ELSE xdpDevices[a]]
  PROVE  \A b \in Addresses :
           /\ Known(b)' <=> Known(b)
           /\ Known(b) => xdpDevices'[b].user = xdpDevices[b].user
           /\ Known(b) /\ xdpDevices[b].session = "live" => xdpDevices'[b].session = "live"
<1> SUFFICES ASSUME NEW b \in Addresses
             PROVE  /\ Known(b)' <=> Known(b)
                    /\ Known(b) => xdpDevices'[b].user = xdpDevices[b].user
                    /\ Known(b) /\ xdpDevices[b].session = "live" =>
                         xdpDevices'[b].session = "live"
  OBVIOUS
<1>1. CASE b \in S
  <2>1. Known(b) /\ xdpDevices[b].session = "idle"
    BY <1>1 DEF Idle
  <2>2. /\ [xdpDevices[b] EXCEPT !.session = "live"] \in FwEntry
        /\ [xdpDevices[b] EXCEPT !.session = "live"].user = xdpDevices[b].user
    BY <2>1, EntryLemma DEF SessionStates
  <2>3. xdpDevices'[b] = [xdpDevices[b] EXCEPT !.session = "live"]
    BY <1>1
  <2> QED
    BY <2>1, <2>2, <2>3, EntryAssumption DEF Known
<1>2. CASE b \notin S
  BY <1>2 DEF Known
<1> QED
  BY <1>1, <1>2

\* An entry among the addresses of a user is that user's.
LEMMA TrackedOwner ==
  ASSUME NEW x \in View, Reflects(x), NEW a \in Addresses, Known(a),
         NEW w \in Users, a \in Tracked(w)
  PROVE  xdpDevices[a].user = w
BY DEF Reflects, Forgotten, Remembered

\* The calls that change no peer and no user end nothing but sessions of
\* other users, where the account they are about is known.
LEMMA KeptMirror ==
  ASSUME SyncTypes, OneByOne, 1 \in DOMAIN pool, NEW v, Follows(v), NEW h, h = pool[1],
         h.topic # "devices", h.topic = "users" => ~Adds(h) /\ ~Takes(h),
         NEW todo, todo = <<>> \/ Resumes(h, todo), Continue(1, todo), UNCHANGED granted,
         UNCHANGED <<peers, usersToAddresses, addressesToUsers>>,
         \A b \in Addresses : /\ Known(b)' <=> Known(b)
                              /\ Known(b) => xdpDevices'[b].user = xdpDevices[b].user,
         \A u \in Users :
           /\ accountLocked[u] # Absent => accountLocked'[u] # Absent
           /\ user[u] = Absent /\ ~User(h, u) => accountLocked'[u] = accountLocked[u]
           /\ accountLocked[u] = Absent /\ user[u] # Absent =>
                accountLocked'[u] = Absent \/ policies'[u] = acl[u],
         \A u \in Users : user[u] # Absent =>
           policies'[u] = acl[u] \/ (policies'[u] = policies[u] /\ ~Refreshes(h, u)),
         \A a \in Addresses :
           granted[a] /\ Open(a, device[a].owner) /\ ~User(h, device[a].owner)
             => Open(a, device[a].owner)'
  PROVE  OneByOne' /\ \E v2 : Follows(v2)'
<1>1. /\ v[1] \in View /\ Sound(v[1]) /\ v[2] = After(v[1], h) /\ Reflects(v[1])
  BY FirstView
<1>2. v[2] = v[1]
  BY <1>1, AfterSame
<1>3. \A b \in Addresses : Known(b) => xdpDevices'[b].user \in {xdpDevices[b].user, v[1].owner[b]}
  OBVIOUS
<1>4. \A u \in v[1].users : accountLocked[u] # Absent => accountLocked'[u] # Absent
  BY <1>1 DEF View
<1>5. Reflects(v[1])'
  BY <1>1, <1>3, <1>4, ReflectsKept
<1>6. Reflects(v[2])'
  BY <1>2, <1>5
<1>7. GoneMoves(h)
  BY DEF GoneMoves, User
<1>8. AclsMove(h)
  BY DEF AclsMove, User
<1>9. LoginsMove(h, v[1])
  <2>1. \A a : ~Device(h, a)
    BY DEF Device
  <2> QED
    BY <2>1 DEF LoginsMove
<1> QED
  BY <1>6, <1>7, <1>8, <1>9, ContinuedMirror

\* A user is added or removed.
LEMMA UserMirror ==
  ASSUME SyncTypes, OneByOne, 1 \in DOMAIN pool, NEW v, Follows(v),
         HandleAddUser(1) \/ HandleRemoveUser(1)
  PROVE  OneByOne' /\ \E v2 : Follows(v2)'
<1> USE DEF Calls
<1>0. FirewallTypeOK
  BY DEF SyncTypes, RouterOK
<1>1. PICK h : h = pool[1]
  OBVIOUS
<1>2. /\ v[1] \in View /\ v[2] \in View /\ Sound(v[1]) /\ Sound(v[2])
      /\ Fits(v[1], h) /\ v[2] = After(v[1], h) /\ Reflects(v[1]) /\ HandlerOK(h)
  BY <1>1, FirstView
<1>3. /\ h.topic = "users" /\ h.id \in Users
      /\ Head(h.todo) = "addUser" => h.todo = <<"addUser">>
      /\ Head(h.todo) = "removeUser" => h.todo = <<"removeUser">>
  <2>1. Head(h.todo) \in {"addUser", "removeUser"}
    BY <1>1 DEF HandleAddUser, HandleRemoveUser
  <2>2. h.topic = "users" /\ h.id \in Users
    BY <1>1, <2>1, UserCall
  <2> QED
    BY <1>1, <2>2, FirstUserCall
<1>4. \A c : Tail(<<c>>) = <<>>
  BY HeadTail
<1>5. /\ \A a : ~Device(h, a) /\ \A u : User(h, u) <=> u = h.id
      /\ \A u : ~Refreshes(h, u)
  BY <1>3 DEF Device, User, Refreshes
<1>6. CASE HandleAddUser(1)
  <2>1. /\ AddUser(h.id, h.acl) /\ Continue(1, Tail(h.todo)) /\ UNCHANGED granted
        /\ h.todo = <<"addUser">>
    BY <1>1, <1>3, <1>6 DEF HandleAddUser, Proceed
  <2>2. Adds(h) /\ ~Takes(h)
    BY <2>1, HasOne DEF Adds, Takes
  <2>3. Reflects(v[2])'
    BY <1>0, <1>2, <1>3, <2>1, <2>2, AddUserReflects
  <2>4. Continue(1, <<>>)
    BY <1>4, <2>1
  <2>5. /\ UNCHANGED xdpDevices
        /\ \A u \in Users : u # h.id =>
             accountLocked'[u] = accountLocked[u] /\ policies'[u] = policies[u]
        /\ accountLocked[h.id] # Absent => UNCHANGED <<accountLocked, policies>>
        /\ accountLocked[h.id] = Absent => policies'[h.id] = h.acl
    <3>1. CASE accountLocked[h.id] # Absent
      <4>1. UNCHANGED firewall
        BY <2>1, <3>1 DEF AddUser
      <4> QED
        BY <3>1, <4>1 DEF firewall
    <3>2. CASE accountLocked[h.id] = Absent
      <4>1. /\ accountLocked' = [accountLocked EXCEPT ![h.id] = FALSE]
            /\ policies' = [policies EXCEPT ![h.id] = h.acl]
            /\ UNCHANGED xdpDevices
        BY <2>1, <3>2 DEF AddUser
      <4> QED
        BY <1>0, <1>3, <3>2, <4>1 DEF FirewallTypeOK
    <3> QED
      BY <3>1, <3>2
  <2>6. GoneMoves(h)
    BY <1>5, <2>2, <2>5 DEF GoneMoves
  <2>7. AclsMove(h)
    BY <1>5, <2>1, <2>2, <2>5 DEF AclsMove
  <2>8. LoginsMove(h, v[1])
    <3>1. device' = device
      BY <2>1 DEF Continue, etcd
    <3> SUFFICES ASSUME NEW a \in Addresses, granted[a], Open(a, device[a].owner),
                        device[a].owner # h.id
                 PROVE  Open(a, device[a].owner)'
      BY <1>5 DEF LoginsMove
    <3>2. device[a].owner \in Users
      BY <1>0, EntryLemma DEF Open
    <3> QED
      BY <2>5, <3>1, <3>2 DEF Open, Known
  <2> QED
    BY <1>1, <2>1, <2>3, <2>4, <2>6, <2>7, <2>8, ContinuedMirror
<1>7. CASE HandleRemoveUser(1)
  <2>1. /\ RemoveUser(h.id) /\ Continue(1, Tail(h.todo)) /\ UNCHANGED granted
        /\ h.todo = <<"removeUser">>
    BY <1>1, <1>3, <1>7 DEF HandleRemoveUser, Proceed
  <2>2. Takes(h) /\ ~Adds(h)
    BY <2>1, HasOne DEF Adds, Takes
  <2>3. Reflects(v[2])'
    BY <1>0, <1>2, <1>3, <2>1, <2>2, RemoveUserReflects
  <2>4. Continue(1, <<>>)
    BY <1>4, <2>1
  <2>5. accountLocked[h.id] # Absent
    BY <1>2, <1>3, <2>2 DEF Fits, Reflects
  <2>6. /\ accountLocked' = [accountLocked EXCEPT ![h.id] = Absent]
        /\ policies' = [policies EXCEPT ![h.id] = Absent]
        /\ xdpDevices' = [a \in Addresses |->
                            IF a \in Tracked(h.id) THEN Absent ELSE xdpDevices[a]]
    BY <2>1, <2>5 DEF RemoveUser
  <2>7. /\ accountLocked'[h.id] = Absent
        /\ \A u \in Users : u # h.id =>
             accountLocked'[u] = accountLocked[u] /\ policies'[u] = policies[u]
    BY <1>0, <1>3, <2>6 DEF FirewallTypeOK
  <2>8. GoneMoves(h)
    BY <1>5, <2>7 DEF GoneMoves
  <2>9. AclsMove(h)
    BY <1>5, <2>7 DEF AclsMove
  <2>10. LoginsMove(h, v[1])
    <3>1. device' = device
      BY <2>1 DEF Continue, etcd
    <3> SUFFICES ASSUME NEW a \in Addresses, granted[a], Open(a, device[a].owner),
                        device[a].owner # h.id
                 PROVE  Open(a, device[a].owner)'
      BY <1>5 DEF LoginsMove
    <3>2. device[a].owner \in Users
      BY <1>0, EntryLemma DEF Open
    <3>3. a \notin Tracked(h.id)
      BY <1>2, <1>3, TrackedOwner DEF Open
    <3>4. xdpDevices'[a] = xdpDevices[a]
      BY <2>6, <3>3
    <3> QED
      BY <2>7, <3>1, <3>2, <3>4 DEF Open, Known
  <2> QED
    BY <1>1, <2>1, <2>3, <2>4, <2>8, <2>9, <2>10, ContinuedMirror
<1> QED
  BY <1>6, <1>7

\* An account is locked or unlocked, or the sessions of a user ended.
LEMMA LockMirror ==
  ASSUME SyncTypes, OneByOne, 1 \in DOMAIN pool, NEW v, Follows(v),
         HandleLock(1) \/ HandleDeauthenticateAll(1)
  PROVE  OneByOne' /\ \E v2 : Follows(v2)'
<1> USE DEF Calls
<1>0. FirewallTypeOK
  BY DEF SyncTypes, RouterOK
<1>1. PICK h : h = pool[1]
  OBVIOUS
<1>2. v[1] \in View /\ Fits(v[1], h) /\ Reflects(v[1])
  BY <1>1, FirstView
<1>3. /\ h.topic = "users" /\ h.id \in Users
      /\ h.todo \in Seq({"lock", "deauthenticateAll"}) /\ h.todo # <<>>
      /\ Head(h.todo) = "lock" => h.cur.locked \in BOOLEAN
  <2>1. Head(h.todo) \in {"lock", "deauthenticateAll"}
    BY <1>1 DEF HandleLock, HandleDeauthenticateAll
  <2>2. h.topic = "users" /\ h.id \in Users /\ (Head(h.todo) = "lock" => h.cur.locked \in BOOLEAN)
    BY <1>1, <2>1, UserCall
  <2> QED
    BY <1>1, <2>1, <2>2, FirstUserCall
<1>4. \A s \in Seq({"lock", "deauthenticateAll"}) : ~Has(s, "addUser") /\ ~Has(s, "removeUser")
  BY DEF Has
<1>5. ~Adds(h) /\ ~Takes(h) /\ accountLocked[h.id] # Absent
  <2>1. ~Adds(h) /\ ~Takes(h)
    BY <1>3, <1>4 DEF Adds, Takes
  <2> QED
    BY <1>2, <1>3, <2>1 DEF Fits, Reflects
<1>6. /\ \A u : User(h, u) <=> u = h.id
      /\ \A u : ~Refreshes(h, u)
  BY <1>3 DEF User, Refreshes
<1>7. Tail(h.todo) = <<>> \/ Resumes(h, Tail(h.todo))
  <2>1. Tail(h.todo) \in Seq({"lock", "deauthenticateAll"})
    BY <1>3
  <2>2. Head(<<"authorise">>) = "authorise" /\ Head(<<"replacePeer">>) = "replacePeer"
    BY HeadTail
  <2>3. \A s \in Seq({"lock", "deauthenticateAll"}) :
          s # <<>> => Head(s) \in {"lock", "deauthenticateAll"}
    OBVIOUS
  <2>4. h.todo # <<"authorise">> /\ h.todo # <<"replacePeer">>
    BY <1>3, <2>2, <2>3
  <2> QED
    BY <1>3, <1>4, <1>5, <2>1, <2>4 DEF Resumes
<1>8. ASSUME Proceed(1), UNCHANGED granted, NEW S \in SUBSET Tracked(h.id),
             xdpDevices' = Deauthenticated(S),
             UNCHANGED <<policies, peers, usersToAddresses, addressesToUsers>>,
             \A u \in Users : u # h.id => accountLocked'[u] = accountLocked[u],
             accountLocked'[h.id] # Absent
      PROVE  OneByOne' /\ \E v2 : Follows(v2)'
  <2>1. S \in SUBSET Addresses
    BY DEF Tracked
  <2>2. \A b \in Addresses :
          /\ Known(b)' <=> Known(b)
          /\ Known(b) => xdpDevices'[b].user = xdpDevices[b].user
          /\ b \notin S => xdpDevices'[b] = xdpDevices[b]
    BY <1>0, <1>8, <2>1, EndedKeeps
  <2>3. ASSUME NEW a \in Addresses, Open(a, device[a].owner), device[a].owner # h.id
        PROVE  Open(a, device[a].owner)'
    <3>1. device' = device
      BY <1>8 DEF Proceed, Continue, etcd
    <3>2. device[a].owner \in Users
      BY <1>0, <2>3, EntryLemma DEF Open
    <3>3. a \notin S
      BY <1>2, <1>3, <2>3, TrackedOwner DEF Open
    <3> QED
      BY <1>8, <2>2, <2>3, <3>1, <3>2, <3>3 DEF Open
  <2>4. Continue(1, Tail(h.todo)) /\ h.topic # "devices"
    BY <1>1, <1>3, <1>8 DEF Proceed
  <2>5. \A u \in Users :
           /\ accountLocked[u] # Absent => accountLocked'[u] # Absent
           /\ user[u] = Absent /\ ~User(h, u) => accountLocked'[u] = accountLocked[u]
           /\ accountLocked[u] = Absent /\ user[u] # Absent =>
                accountLocked'[u] = Absent \/ policies'[u] = acl[u]
    BY <1>5, <1>6, <1>8
  <2>6. \A u \in Users : user[u] # Absent =>
           policies'[u] = acl[u] \/ (policies'[u] = policies[u] /\ ~Refreshes(h, u))
    BY <1>6, <1>8
  <2>7. \A a \in Addresses :
           granted[a] /\ Open(a, device[a].owner) /\ ~User(h, device[a].owner)
             => Open(a, device[a].owner)'
    BY <1>6, <2>3
  <2> QED
    BY <1>1, <1>5, <1>7, <1>8, <2>2, <2>4, <2>5, <2>6, <2>7, KeptMirror
<1>9. CASE HandleLock(1)
  <2>1. /\ SetLockAccount(h.id, h.cur.locked) /\ Proceed(1) /\ UNCHANGED granted
        /\ h.cur.locked \in BOOLEAN
    BY <1>1, <1>3, <1>9 DEF HandleLock
  <2>2. /\ xdpDevices' = Deauthenticated(Tracked(h.id))
        /\ accountLocked' = [accountLocked EXCEPT ![h.id] = h.cur.locked]
        /\ UNCHANGED <<policies, peers, usersToAddresses, addressesToUsers>>
    BY <2>1 DEF SetLockAccount
  <2>3. /\ \A u \in Users : u # h.id => accountLocked'[u] = accountLocked[u]
        /\ accountLocked'[h.id] # Absent
    BY <1>0, <1>3, <2>1, <2>2, FirewallSentinels DEF FirewallTypeOK
  <2> QED
    BY <1>8, <2>1, <2>2, <2>3
<1>10. CASE HandleDeauthenticateAll(1)
  <2>1. DeauthenticateAllDevices(h.id) /\ Proceed(1) /\ UNCHANGED granted
    BY <1>1, <1>10 DEF HandleDeauthenticateAll
  <2>2. PICK S \in SUBSET Tracked(h.id) : xdpDevices' = Deauthenticated(S)
    BY <2>1 DEF DeauthenticateAllDevices
  <2>3. UNCHANGED <<accountLocked, policies, peers, usersToAddresses, addressesToUsers>>
    BY <2>1 DEF DeauthenticateAllDevices
  <2> QED
    BY <1>5, <1>8, <2>1, <2>2, <2>3
<1> QED
  BY <1>9, <1>10

\* Access lists, locks and the timeout are read again.
LEMMA RefreshMirror ==
  ASSUME SyncTypes, Granted, OneByOne, 1 \in DOMAIN pool, NEW v, Follows(v),
         HandleRefreshUser(1) \/ HandleRefresh(1) \/ HandleSetTimeout(1)
  PROVE  OneByOne' /\ \E v2 : Follows(v2)'
<1> USE DEF Calls
<1>0. FirewallTypeOK
  BY DEF SyncTypes, RouterOK
<1>1. PICK h : h = pool[1]
  OBVIOUS
<1>2. HandlerOK(h) /\ h.todo \in Seq(Steps) /\ h.todo # <<>>
  BY <1>1 DEF SyncTypes, HandlersOK, PoolOK, HandlerOK, HandlerRecord
<1>3. /\ h.topic \in {"membership", "acls", "timeout"}
      /\ Head(h.todo) = "refreshUser" => h.topic = "membership"
      /\ Head(h.todo) = "refresh" => h.topic = "acls"
      /\ Head(h.todo) = "setTimeout" => h.topic = "timeout"
  <2>1. Head(h.todo) \in {"refreshUser", "refresh", "setTimeout"}
    BY <1>1 DEF HandleRefreshUser, HandleRefresh, HandleSetTimeout
  <2>2. \A s \in Seq({"lock", "deauthenticateAll"}) :
          s # <<>> => Head(s) \in {"lock", "deauthenticateAll"}
    OBVIOUS
  <2>3. \A s \in Seq(ChangeCalls) : s # <<>> => Head(s) \in ChangeCalls
    OBVIOUS
  <2>4. h.topic # "users"
    BY <1>2, <2>1, <2>2, HeadTail DEF HandlerOK
  <2>5. h.topic # "devices"
    <3>1. ~Creates(h) /\ ~Removes(h)
      BY <2>1, HeadTail DEF Creates, Removes
    <3>2. ~Changes(h)
      BY <1>2, <2>1, <2>3 DEF Changes, ChangeCalls
    <3> QED
      BY <1>2, <3>1, <3>2 DEF HandlerOK
  <2>6. h.topic \in {"membership", "acls", "timeout"}
    BY <1>2, <2>4, <2>5 DEF HandlerOK, HandlerRecord
  <2> QED
    BY <1>2, <2>6, HeadTail DEF HandlerOK
<1>4. Tail(h.todo) = <<>>
  BY <1>2, <1>3, HeadTail DEF HandlerOK
<1>5. \A u : ~User(h, u)
  BY <1>3 DEF User
<1>6. ASSUME Proceed(1), UNCHANGED granted,
             UNCHANGED <<peers, usersToAddresses, addressesToUsers>>,
             \A b \in Addresses :
               /\ Known(b)' <=> Known(b)
               /\ Known(b) => xdpDevices'[b].user = xdpDevices[b].user
               /\ Known(b) /\ xdpDevices[b].session = "live" => xdpDevices'[b].session = "live",
             \A u \in Users : \/ accountLocked'[u] = accountLocked[u]
                              \/ /\ user[u] # Absent /\ accountLocked'[u] = user[u].locked
                                 /\ policies'[u] = acl[u],
             \A u \in Users : user[u] # Absent =>
               policies'[u] = acl[u] \/ (policies'[u] = policies[u] /\ ~Refreshes(h, u))
      PROVE  OneByOne' /\ \E v2 : Follows(v2)'
  <2>1. \A u \in Users : user[u] # Absent => user[u].locked \in BOOLEAN
    BY DEF SyncTypes, EtcdOK, UserRecord
  <2>2. \A u \in Users :
           /\ accountLocked[u] # Absent => accountLocked'[u] # Absent
           /\ user[u] = Absent /\ ~User(h, u) => accountLocked'[u] = accountLocked[u]
           /\ accountLocked[u] = Absent /\ user[u] # Absent =>
                accountLocked'[u] = Absent \/ policies'[u] = acl[u]
    BY <1>6, <2>1, FirewallSentinels
  <2>3. ASSUME NEW a \in Addresses, granted[a], Open(a, device[a].owner)
        PROVE  Open(a, device[a].owner)'
    <3>1. device' = device
      BY <1>6 DEF Proceed, Continue, etcd
    <3>2. device[a].owner \in Users
      BY <1>0, <2>3, EntryLemma DEF Open
    <3>3. user[device[a].owner].locked = FALSE
      BY <2>1, <2>3, <3>2 DEF Granted
    <3>4. accountLocked'[device[a].owner] = FALSE
      BY <1>6, <2>3, <3>2, <3>3 DEF Open
    <3> QED
      BY <1>6, <2>3, <3>1, <3>4 DEF Open
  <2>4. Continue(1, <<>>) /\ h.topic # "devices" /\ h.topic # "users"
    BY <1>1, <1>3, <1>4, <1>6 DEF Proceed
  <2> QED
    BY <1>1, <1>6, <2>2, <2>3, <2>4, KeptMirror
<1>7. CASE HandleRefreshUser(1)
  <2>1. RefreshUserAcls(h.id, acl[h.id]) /\ Proceed(1) /\ UNCHANGED granted
        /\ h.topic = "membership"
    BY <1>1, <1>3, <1>7 DEF HandleRefreshUser
  <2>2. /\ policies' = [policies EXCEPT ![h.id] = acl[h.id]]
        /\ UNCHANGED <<xdpDevices, accountLocked, peers, usersToAddresses, addressesToUsers>>
    BY <2>1 DEF RefreshUserAcls
  <2>3. \A u \in Users :
          policies'[u] = acl[u] \/ (policies'[u] = policies[u] /\ ~Refreshes(h, u))
    BY <1>0, <2>1, <2>2 DEF FirewallTypeOK, Refreshes
  <2> QED
    BY <1>6, <2>1, <2>2, <2>3 DEF Known
<1>8. CASE HandleRefresh(1)
  <2>1. PICK S \in SUBSET Idle(Addresses) : RefreshConfiguration(user, acl, S)
    BY <1>8 DEF HandleRefresh
  <2>2. /\ accountLocked' =
             [u \in Users |-> IF user[u] = Absent THEN accountLocked[u] ELSE user[u].locked]
        /\ policies' = [u \in Users |-> IF user[u] = Absent THEN policies[u] ELSE acl[u]]
        /\ xdpDevices' =
             [a \in Addresses |->
                IF a \in S THEN [xdpDevices[a] EXCEPT !.session = "live"] ELSE xdpDevices[a]]
        /\ UNCHANGED <<peers, usersToAddresses, addressesToUsers>>
    BY <2>1 DEF RefreshConfiguration
  <2>3. \A b \in Addresses :
          /\ Known(b)' <=> Known(b)
          /\ Known(b) => xdpDevices'[b].user = xdpDevices[b].user
          /\ Known(b) /\ xdpDevices[b].session = "live" => xdpDevices'[b].session = "live"
    BY <1>0, <2>2, RevivedKeeps
  <2>4. Proceed(1) /\ UNCHANGED granted
    BY <1>8 DEF HandleRefresh
  <2> QED
    BY <1>6, <2>2, <2>3, <2>4
<1>9. CASE HandleSetTimeout(1)
  <2>1. PICK S \in SUBSET Idle(Addresses) : SetInactivityTimeout(S)
    BY <1>9 DEF HandleSetTimeout
  <2>2. /\ xdpDevices' =
             [a \in Addresses |->
                IF a \in S THEN [xdpDevices[a] EXCEPT !.session = "live"] ELSE xdpDevices[a]]
        /\ UNCHANGED <<accountLocked, policies, peers, usersToAddresses, addressesToUsers>>
    BY <2>1 DEF SetInactivityTimeout
  <2>3. \A b \in Addresses :
          /\ Known(b)' <=> Known(b)
          /\ Known(b) => xdpDevices'[b].user = xdpDevices[b].user
          /\ Known(b) /\ xdpDevices[b].session = "live" => xdpDevices'[b].session = "live"
    BY <1>0, <2>2, RevivedKeeps
  <2>4. Proceed(1) /\ UNCHANGED granted /\ h.topic = "timeout"
    BY <1>1, <1>3, <1>9 DEF HandleSetTimeout
  <2>5. \A u : ~Refreshes(h, u)
    BY <2>4 DEF Refreshes
  <2> QED
    BY <1>6, <2>2, <2>3, <2>4, <2>5
<1> QED
  BY <1>7, <1>8, <1>9

\* No step but the end of the process makes handlers serial again.
LEMMA SerialKept ==
  ASSUME [Next]_vars, Serial'
  PROVE  Serial \/ Crash
<1> USE DEF Serial
<1>1. ASSUME NEW topic, NEW hs, Publish(topic, hs) PROVE Serial
  BY <1>1 DEF Publish
<1>2. ASSUME NEW i, NEW todo, Continue(i, todo) PROVE Serial
  BY <1>2 DEF Continue, NoteOrder
<1>3. CASE UNCHANGED <<order, missed>>
  BY <1>3
<1>4. CASE UNCHANGED vars
  BY <1>3, <1>4 DEF vars
<1>5. CASE UserWrite
  <2>1. PICK u : \/ \E new, ends : WriteUser(u, new, ends)
                 \/ CreateUser(u) \/ DeleteUser(u) \/ DeleteDevices(u)
                 \/ \E l : SetUserGroupMembership(u, l)
    BY <1>5 DEF UserWrite, SetUserLock, SetUserMfa, SetEnforceMFA
  <2> QED
    BY <1>1, <2>1 DEF WriteUser, CreateUser, DeleteUser, DeleteDevices, SetUserGroupMembership
<1>6. CASE DeviceWrite
  <2>1. PICK a : \/ \E u, k : AddDevice(u, a, k)
                 \/ DeleteDevice(a) \/ CheckAccountLock(a)
                 \/ \E new, again : WriteDevice(a, new, again)
    BY <1>6 DEF DeviceWrite, UpdateDevicePublicKey, IncrementAuthenticationAttempt,
       SetDeviceAuthenticationAttempts, AuthoriseDevice, UpdateDeviceConnectionDetails,
       DeauthenticateDevice
  <2> QED
    BY <1>1, <1>3, <2>1 DEF AddDevice, DeleteDevice, CheckAccountLock, WriteDevice
<1>7. CASE ConfigWrite
  BY <1>1, <1>7 DEF ConfigWrite, SetAcl, SetSessionInactivityTimeout
<1>8. ASSUME NEW i, Handle(i) PROVE Serial \/ Crash
  <2>1. CASE HandleReadAcl(i)
    BY <2>1 DEF HandleReadAcl, NoteOrder
  <2>2. CASE HandleReplacePeer(i)
    BY <1>2, <2>2 DEF HandleReplacePeer, Proceed
  <2>3. CASE ~HandleReadAcl(i) /\ ~HandleReplacePeer(i)
    <3>1. \E todo : Continue(i, todo)
      BY <1>8, <2>3 DEF Handle, HandleAddPeer, HandleRemovePeer, HandleChallenge, HandleVerify,
         HandleCheckLockout, HandleDeauthenticate, HandleAssociate, HandleAuthorise, HandleAddUser,
         HandleRemoveUser, HandleLock, HandleDeauthenticateAll, HandleRefreshUser, HandleRefresh,
         HandleSetTimeout, Proceed, Fail, ProceedIf
    <3> QED
      BY <1>2, <3>1
  <2> QED
    BY <2>1, <2>2, <2>3
<1>9. CASE Lifecycle
  BY <1>3, <1>9 DEF Lifecycle, GetInitialData, SetupRouter, RegisterEventListener, Restart,
     SessionLapse
<1> QED
  BY <1>4, <1>5, <1>6, <1>7, <1>8, <1>9 DEF Next

\* A call is made by the first handler or by one that has started.
LEMMA InTurnOnly ==
  ASSUME NEW i, Handle(i), Serial'
  PROVE  Crash \/ pool[i].started \/ i = 1
<1> USE DEF Serial
<1>1. ASSUME NEW todo, Continue(i, todo) PROVE pool[i].started \/ i = 1
  BY <1>1 DEF Continue, NoteOrder
<1>2. CASE HandleReadAcl(i)
  BY <1>2 DEF HandleReadAcl, NoteOrder
<1>3. CASE HandleReplacePeer(i)
  BY <1>1, <1>3 DEF HandleReplacePeer, Proceed
<1>4. CASE ~HandleReadAcl(i) /\ ~HandleReplacePeer(i)
  <2>1. \E todo : Continue(i, todo)
    BY <1>4 DEF Handle, HandleAddPeer, HandleRemovePeer, HandleChallenge, HandleVerify,
       HandleCheckLockout, HandleDeauthenticate, HandleAssociate, HandleAuthorise, HandleAddUser,
       HandleRemoveUser, HandleLock, HandleDeauthenticateAll, HandleRefreshUser, HandleRefresh,
       HandleSetTimeout, Proceed, Fail, ProceedIf
  <2> QED
    BY <1>1, <2>1
<1> QED
  BY <1>2, <1>3, <1>4

\* A process that has ended has no handlers.
LEMMA CrashMirror == Crash => Mirror'
<1> SUFFICES ASSUME Crash PROVE Mirror'
  OBVIOUS
<1>1. phase' = "down" /\ DOMAIN pool' = {}
  BY DEF Crash
<1> QED
  BY <1>1 DEF Mirror, OneByOne

\* Where the handlers run one after the other it is the first that makes a call.
LEMMA HandleMirror ==
  ASSUME SessionsInv, Granted, Serial => Mirror, NEW i \in DOMAIN pool, Handle(i),
         Serial', [Next]_vars
  PROVE  Mirror'
<1>1. CASE Crash
  BY <1>1, CrashMirror
<1>2. CASE ~Crash
  <2>1. Serial /\ Mirror /\ InOrder /\ SyncTypes
    BY <1>2, SerialKept DEF SessionsInv, Serial, InOrder
  <2>2. i = 1
    BY <1>2, <2>1, InTurnOnly DEF Mirror, OneByOne
  <2>3. phase = "up"
    <3>1. pool # <<>>
      OBVIOUS
    <3> QED
      BY <2>1, <3>1 DEF SyncTypes, RouterOK
  <2>4. PICK v : Follows(v)
    BY <2>1, <2>3 DEF Mirror
  <2>5. OneByOne
    BY <2>1 DEF Mirror
  <2>6. OneByOne' /\ \E v2 : Follows(v2)'
    BY <2>1, <2>2, <2>4, <2>5,
       PeerMirror, ChangeMirror, ReadAclMirror, UserMirror, LockMirror, RefreshMirror
    DEF Handle
  <2> QED
    BY <2>6 DEF Mirror
<1> QED
  BY <1>1, <1>2

-----------------------------------------------------------------------------
(***************************************************************************)
(* Writes.                                                                 *)
(***************************************************************************)

\* The handlers of a write have yet to begin.
Idling(hs) == \A n \in DOMAIN hs : ~hs[n].started /\ hs[n].todo # <<"addUser">>

\* Of a user who is gone after the write nothing but a removal is to come.
GoneWritten(hs) ==
  \A u \in Users : user'[u] = Absent =>
    \/ user[u] = Absent /\ \A n \in DOMAIN hs : ~User(hs[n], u)
    \/ \E n \in DOMAIN hs : /\ User(hs[n], u) /\ Takes(hs[n])
                            /\ \A m \in DOMAIN hs : n < m => ~User(hs[m], u)

\* An access list that is written is read again.
AclsWritten(hs) ==
  \A u \in Users : user'[u] # Absent =>
    \/ \E n \in DOMAIN hs : Refreshes(hs[n], u)
    \/ user[u] = Absent
    \/ acl'[u] = acl[u]

\* A login was there before and the handlers leave it, or it is theirs.
LoginsWritten(hs) ==
  \A a \in Addresses : granted'[a] /\ device'[a].owner \notin deleting' =>
    /\ device[a].owner = device'[a].owner /\ device[a].owner \notin deleting
    /\ \/ /\ granted[a]
          /\ \A n \in DOMAIN hs : /\ Device(hs[n], a) => hs[n].todo = <<"replacePeer">>
                                  /\ ~User(hs[n], device[a].owner)
       \/ /\ device[a] # Absent
          /\ \E h : /\ hs = <<h>> /\ Device(h, a) /\ h.todo = <<"authorise">>
                    /\ h.cur.owner = device[a].owner

\* The handlers of a write follow those before it.
LEMMA AppendedMirror ==
  ASSUME SyncTypes, OneByOne, NEW v, Follows(v), NEW R, NEW hs \in Seq(R), pool' = pool \o hs,
         UNCHANGED firewall, Idling(hs), GoneWritten(hs), AclsWritten(hs), LoginsWritten(hs),
         \E w : Adding(v[Len(pool) + 1], hs, w)
  PROVE  OneByOne' /\ \E v2 : Follows(v2)'
<1>1. PICK l \in Nat, m \in Nat : l = Len(pool) /\ m = Len(hs)
  BY DEF SyncTypes, HandlersOK, PoolOK
<1>2. pool \in Seq(HandlerRecord) /\ DOMAIN pool = 1..l /\ DOMAIN hs = 1..m
  BY <1>1 DEF SyncTypes, HandlersOK, PoolOK
<1>3. Len(pool') = l + m /\ DOMAIN pool' = 1..(l + m)
  <2>1. pool \in Seq(HandlerRecord \cup R) /\ hs \in Seq(HandlerRecord \cup R)
    BY <1>2
  <2>2. Len(pool \o hs) = l + m /\ DOMAIN (pool \o hs) = 1..(l + m)
    BY <1>1, <2>1
  <2> QED
    BY <2>2
<1>4. \A k \in 1..(l + m) : pool'[k] = IF k <= l THEN pool[k] ELSE hs[k - l]
  <2>1. pool \in Seq(HandlerRecord \cup R) /\ hs \in Seq(HandlerRecord \cup R)
    BY <1>2
  <2>2. \A k \in 1..(l + m) : (pool \o hs)[k] = IF k <= l THEN pool[k] ELSE hs[k - l]
    BY <1>1, <2>1, ConcatProperties
  <2> QED
    BY <2>2
<1>5. \A k \in 1..l : k \in 1..(l + m) /\ pool'[k] = pool[k]
  <2> SUFFICES ASSUME NEW k \in 1..l PROVE k \in 1..(l + m) /\ pool'[k] = pool[k]
    OBVIOUS
  <2>1. k \in 1..(l + m) /\ k <= l
    OBVIOUS
  <2> QED
    BY <1>4, <2>1
<1>6. \A n \in 1..m : l + n \in 1..(l + m) /\ pool'[l + n] = hs[n]
  <2> SUFFICES ASSUME NEW n \in 1..m PROVE l + n \in 1..(l + m) /\ pool'[l + n] = hs[n]
    OBVIOUS
  <2>1. l + n \in 1..(l + m) /\ ~(l + n <= l) /\ (l + n) - l = n
    OBVIOUS
  <2> QED
    BY <1>4, <2>1
<1>7. \A k \in 1..(l + m) : k \in 1..l \/ \E n \in 1..m : k = l + n
  <2> SUFFICES ASSUME NEW k \in 1..(l + m), k \notin 1..l PROVE \E n \in 1..m : k = l + n
    OBVIOUS
  <2>1. k - l \in 1..m /\ k = l + (k - l)
    OBVIOUS
  <2> QED
    BY <2>1
<1>8. /\ \A k \in 1..l, u \in Users : OfUser(k, u)' <=> OfUser(k, u)
      /\ \A k \in 1..l, a \in Addresses : Of(k, a)' <=> Of(k, a)
      /\ \A n \in 1..m, u \in Users : OfUser(l + n, u)' <=> User(hs[n], u)
      /\ \A n \in 1..m, a \in Addresses : Of(l + n, a)' <=> Device(hs[n], a)
  BY <1>5, <1>6 DEF Of, OfUser, User, Device
<1>9. PICK v2 : Story(v2)' /\ \A p \in 1..(l + 1) : v2[p] = v[p]
  <2>1. PICK w : Adding(v[Len(pool) + 1], hs, w)
    OBVIOUS
  <2>2. Story(v)
    BY DEF Follows
  <2> QED
    BY <1>1, <2>1, <2>2, StoryGrows
<1>10. OneByOne'
  <2> SUFFICES ASSUME NEW k \in 1..(l + m), pool'[k].started \/ pool'[k].todo = <<"addUser">>
               PROVE  k = 1
    BY <1>3 DEF OneByOne
  <2>1. \A n \in 1..m : k # l + n
    BY <1>2, <1>6 DEF Idling
  <2> QED
    BY <1>2, <1>5, <1>7, <2>1 DEF OneByOne
<1>11. GoneFollow'
  <2> SUFFICES ASSUME NEW u \in Users, user'[u] = Absent
               PROVE  \E i \in 0..Len(pool') :
                        /\ i = 0 => accountLocked'[u] = Absent
                        /\ i # 0 => OfUser(i, u)' /\ Takes(pool'[i])
                        /\ \A j \in DOMAIN pool' : i < j => ~OfUser(j, u)'
    BY DEF GoneFollow, Takes
  <2>1. CASE user[u] = Absent /\ \A n \in DOMAIN hs : ~User(hs[n], u)
    <3>1. PICK i \in 0..l : /\ i = 0 => accountLocked[u] = Absent
                            /\ i # 0 => OfUser(i, u) /\ Takes(pool[i])
                            /\ \A j \in DOMAIN pool : i < j => ~OfUser(j, u)
      BY <1>1, <2>1 DEF Follows, GoneFollow
    <3>2. i # 0 => i \in 1..l
      OBVIOUS
    <3>3. i # 0 => OfUser(i, u)' /\ Takes(pool'[i])
      BY <1>5, <1>8, <3>1, <3>2
    <3>4. \A j \in 1..l : i < j => ~OfUser(j, u)'
      BY <1>2, <1>8, <3>1
    <3>5. \A n \in 1..m : ~OfUser(l + n, u)'
      BY <1>2, <1>8, <2>1
    <3>6. \A j \in DOMAIN pool' : i < j => ~OfUser(j, u)'
      BY <1>3, <1>7, <3>4, <3>5
    <3>7. i \in 0..Len(pool') /\ (i = 0 => accountLocked'[u] = Absent)
      BY <1>3, <3>1 DEF firewall
    <3> QED
      BY <3>3, <3>6, <3>7
  <2>2. ASSUME NEW n \in DOMAIN hs, User(hs[n], u), Takes(hs[n]),
               \A p \in DOMAIN hs : n < p => ~User(hs[p], u)
        PROVE  \E i \in 0..Len(pool') :
                 /\ i = 0 => accountLocked'[u] = Absent
                 /\ i # 0 => OfUser(i, u)' /\ Takes(pool'[i])
                 /\ \A j \in DOMAIN pool' : i < j => ~OfUser(j, u)'
    <3>1. n \in 1..m /\ OfUser(l + n, u)' /\ Takes(pool'[l + n])
      BY <1>2, <1>6, <1>8, <2>2
    <3>2. \A j \in 1..l : ~(l + n < j)
      BY <3>1
    <3>3. \A p \in 1..m : l + n < l + p => n < p
      BY <3>1
    <3>4. \A p \in 1..m : l + n < l + p => ~OfUser(l + p, u)'
      BY <1>2, <1>8, <2>2, <3>3
    <3>5. \A j \in DOMAIN pool' : l + n < j => ~OfUser(j, u)'
      <4> SUFFICES ASSUME NEW j \in DOMAIN pool', l + n < j PROVE ~OfUser(j, u)'
        OBVIOUS
      <4>1. PICK p \in 1..m : j = l + p
        BY <1>3, <1>7, <3>2
      <4> QED
        BY <3>4, <4>1
    <3>6. l + n \in 0..Len(pool') /\ l + n # 0
      BY <1>3, <3>1
    <3> QED
      BY <3>1, <3>5, <3>6
  <2> QED
    BY <2>1, <2>2 DEF GoneWritten
<1>12. AclsFollow'
  <2> SUFFICES ASSUME NEW u \in Users, user'[u] # Absent, ~Unsettled(u)'
               PROVE  /\ accountLocked'[u] # Absent => policies'[u] = acl'[u]
                      /\ \A i \in DOMAIN pool' :
                           OfUser(i, u)' /\ pool'[i].todo = <<"addUser">> => pool'[i].acl = acl'[u]
    BY DEF AclsFollow
  <2>1. \A n \in 1..m : pool'[l + n].todo # <<"addUser">> /\ ~Refreshes(hs[n], u)
    <3> SUFFICES ASSUME NEW n \in 1..m
                 PROVE  pool'[l + n].todo # <<"addUser">> /\ ~Refreshes(hs[n], u)
      OBVIOUS
    <3>1. pool'[l + n].todo # <<"addUser">>
      BY <1>2, <1>6 DEF Idling
    <3>2. ~Refreshes(pool'[l + n], u)
      BY <1>3, <1>6 DEF Unsettled, Refreshes
    <3> QED
      BY <1>6, <3>1, <3>2
  <2>2. \A j \in 1..l : ~Refreshes(pool[j], u) /\ ~(User(pool[j], u) /\ Takes(pool[j]))
    <3> SUFFICES ASSUME NEW j \in 1..l,
                        Refreshes(pool[j], u) \/ (User(pool[j], u) /\ Takes(pool[j]))
                 PROVE  FALSE
      OBVIOUS
    <3>1. j \in DOMAIN pool' /\ pool'[j] = pool[j]
      BY <1>3, <1>5
    <3> QED
      BY <3>1 DEF Unsettled, Refreshes, User, Takes
  <2>3. ~Unsettled(u)
    BY <1>2, <2>2 DEF Unsettled
  <2>4. CASE user[u] = Absent
    <3>1. PICK i \in 0..l : /\ i = 0 => accountLocked[u] = Absent
                            /\ i # 0 => OfUser(i, u) /\ Takes(pool[i])
                            /\ \A j \in DOMAIN pool : i < j => ~OfUser(j, u)
      BY <1>1, <2>4 DEF Follows, GoneFollow
    <3>2. i = 0
      <4>1. i # 0 => i \in 1..l
        OBVIOUS
      <4> QED
        BY <2>2, <3>1, <4>1 DEF OfUser, User
    <3>3. \A j \in 1..l : ~OfUser(j, u)'
      BY <1>2, <1>8, <3>1, <3>2
    <3>4. accountLocked'[u] = Absent
      BY <3>1, <3>2 DEF firewall
    <3> QED
      BY <1>3, <1>7, <2>1, <3>3, <3>4
  <2>5. CASE user[u] # Absent /\ acl'[u] = acl[u]
    <3>1. /\ accountLocked[u] # Absent => policies[u] = acl[u]
          /\ \A i \in DOMAIN pool :
               OfUser(i, u) /\ pool[i].todo = <<"addUser">> => pool[i].acl = acl[u]
      BY <2>3, <2>5 DEF Follows, AclsFollow
    <3>2. \A i \in 1..l : OfUser(i, u)' /\ pool'[i].todo = <<"addUser">> => pool'[i].acl = acl'[u]
      BY <1>2, <1>5, <1>8, <2>5, <3>1
    <3>3. accountLocked'[u] # Absent => policies'[u] = acl'[u]
      BY <2>5, <3>1 DEF firewall
    <3> QED
      BY <1>3, <1>7, <2>1, <3>2, <3>3
  <2> QED
    BY <1>2, <2>1, <2>4, <2>5 DEF AclsWritten
<1>13. LoginsFollow(v2)'
  <2> SUFFICES ASSUME NEW a \in Addresses, granted'[a], device'[a].owner \notin deleting'
               PROVE  \E i \in 0..Len(pool') :
                        /\ i = 0 => Open(a, device[a].owner)'
                        /\ i # 0 => /\ Of(i, a)' /\ pool'[i].todo = <<"authorise">>
                                    /\ pool'[i].cur.owner = device'[a].owner
                                    /\ a \in v2[i].kept
                        /\ \A j \in DOMAIN pool' : i < j =>
                             /\ Of(j, a)' => pool'[j].todo = <<"replacePeer">>
                             /\ ~OfUser(j, device[a].owner)'
    BY Zenon DEF LoginsFollow
  <2>1. PICK o : o = device[a].owner /\ o = device'[a].owner /\ o \notin deleting
    BY DEF LoginsWritten
  <2>2. CASE granted[a] /\ \A n \in DOMAIN hs : /\ Device(hs[n], a) => hs[n].todo = <<"replacePeer">>
                                                /\ ~User(hs[n], o)
    <3>1. PICK i \in 0..l :
            /\ i = 0 => Open(a, o)
            /\ i # 0 => /\ Of(i, a) /\ pool[i].todo = <<"authorise">>
                        /\ pool[i].cur.owner = o /\ a \in v[i].kept
            /\ \A j \in DOMAIN pool : i < j =>
                 (Of(j, a) => pool[j].todo = <<"replacePeer">>) /\ ~OfUser(j, o)
      BY <1>1, <2>1, <2>2 DEF Follows, LoginsFollow
    <3>2. i # 0 => i \in 1..l /\ i \in 1..(l + 1)
      OBVIOUS
    <3>3. i # 0 => /\ Of(i, a)' /\ pool'[i].todo = <<"authorise">>
                   /\ pool'[i].cur.owner = o /\ a \in v2[i].kept
      BY <1>5, <1>8, <1>9, <3>1, <3>2
    <3>4. \A j \in 1..l : i < j => (Of(j, a)' => pool'[j].todo = <<"replacePeer">>)
                                   /\ ~OfUser(j, o)'
      BY <1>2, <1>5, <3>1 DEF Of, OfUser
    <3>5. \A n \in 1..m : (Of(l + n, a)' => pool'[l + n].todo = <<"replacePeer">>)
                          /\ ~OfUser(l + n, o)'
      BY <1>2, <1>6, <2>2 DEF Of, OfUser, User, Device
    <3>6. \A j \in DOMAIN pool' : i < j => (Of(j, a)' => pool'[j].todo = <<"replacePeer">>)
                                           /\ ~OfUser(j, o)'
      BY <1>3, <1>7, <3>4, <3>5
    <3>7. i \in 0..Len(pool') /\ (i = 0 => Open(a, device[a].owner)')
      BY <1>3, <2>1, <3>1 DEF firewall, Open, Known
    <3>8. i # 0 => /\ Of(i, a)' /\ pool'[i].todo = <<"authorise">>
                   /\ pool'[i].cur.owner = device'[a].owner /\ a \in v2[i].kept
      BY <2>1, <3>3
    <3>9. \A j \in DOMAIN pool' : i < j => /\ Of(j, a)' => pool'[j].todo = <<"replacePeer">>
                                           /\ ~OfUser(j, device[a].owner)'
      BY <2>1, <3>6 DEF OfUser
    <3> QED
      BY <3>7, <3>8, <3>9, Zenon
  <2>3. ASSUME device[a] # Absent,
               NEW h, hs = <<h>>, Device(h, a), h.todo = <<"authorise">>, h.cur.owner = o
        PROVE  \E i \in 0..Len(pool') :
                 /\ i = 0 => Open(a, device[a].owner)'
                 /\ i # 0 => /\ Of(i, a)' /\ pool'[i].todo = <<"authorise">>
                             /\ pool'[i].cur.owner = device'[a].owner
                             /\ a \in v2[i].kept
                 /\ \A j \in DOMAIN pool' : i < j =>
                      /\ Of(j, a)' => pool'[j].todo = <<"replacePeer">>
                      /\ ~OfUser(j, device[a].owner)'
    <3>1. m = 1 /\ hs[1] = h
      BY <1>1, <2>3
    <3>2. Of(l + 1, a)' /\ pool'[l + 1].todo = <<"authorise">> /\ pool'[l + 1].cur.owner = o
      <4>1. 1 \in 1..m
        BY <3>1
      <4>2. pool'[l + 1] = h
        BY <1>6, <3>1, <4>1
      <4> QED
        BY <2>3, <4>2 DEF Of, Device
    <3>3. a \in v2[l + 1].kept
      <4>1. Matches(v[l + 1])
        BY <1>1 DEF Follows, Story
      <4>2. a \in v[l + 1].kept
        BY <2>1, <2>3, <4>1 DEF Matches
      <4>3. l + 1 \in 1..(l + 1)
        OBVIOUS
      <4>4. v2[l + 1] = v[l + 1]
        BY <1>9, <4>3
      <4> QED
        BY <4>2, <4>4
    <3>4. \A j \in DOMAIN pool' : ~(l + 1 < j)
      BY <1>3, <3>1
    <3>5. l + 1 \in 0..Len(pool') /\ l + 1 # 0
      BY <1>3, <3>1
    <3> QED
      BY <2>1, <3>2, <3>3, <3>4, <3>5
  <2> QED
    BY <2>1, <2>2, <2>3 DEF LoginsWritten
<1>14. Reflects(v2[1])'
  <2>1. Reflects(v[1])
    BY DEF Follows
  <2>2. Reflects(v[1])'
    BY <2>1 DEF Reflects, Forgotten, Remembered, Entire, Known, Tracked, firewall
  <2>3. v2[1] = v[1]
    BY <1>9
  <2>4. Reflects(v[1])' => Reflects(v2[1])'
    BY <2>3 DEF Reflects
  <2> QED
    BY <2>2, <2>4
<1> QED
  BY <1>9, <1>10, <1>11, <1>12, <1>13, <1>14 DEF Follows

\* So they do when a node listens, and a node that does not has no handlers.
LEMMA PublishedMirror ==
  ASSUME SyncTypes, Serial => Mirror, Serial', NEW topic, NEW R, NEW hs \in Seq(R),
         Publish(topic, hs),
         Idling(hs), GoneWritten(hs), AclsWritten(hs), LoginsWritten(hs),
         \A x \in View : Sound(x) /\ Matches(x) => \E w : Adding(x, hs, w)
  PROVE  Mirror'
<1>1. /\ IF topic \in Registered
         THEN pool' = pool \o hs /\ UNCHANGED missed
         ELSE missed' = (missed \/ phase # "down") /\ UNCHANGED pool
      /\ UNCHANGED <<firewall, phase, order>>
  BY DEF Publish, router
<1>2. CASE topic \in Registered
  <2>1. pool' = pool \o hs /\ UNCHANGED firewall
    BY <1>1, <1>2
  <2>2. phase = "up"
    BY <1>2 DEF SyncTypes, RouterOK, Registered
  <2>3. Mirror
    BY <1>1, <1>2 DEF Serial
  <2>4. PICK v : Follows(v)
    BY <2>2, <2>3 DEF Mirror
  <2>5. Len(pool) + 1 \in 1..(Len(pool) + 1)
    BY DEF SyncTypes, HandlersOK, PoolOK
  <2>6. v[Len(pool) + 1] \in View /\ Sound(v[Len(pool) + 1]) /\ Matches(v[Len(pool) + 1])
    BY <2>4, <2>5 DEF Follows, Story
  <2>7. \E w : Adding(v[Len(pool) + 1], hs, w)
    BY <2>6
  <2>8. OneByOne' /\ \E v2 : Follows(v2)'
    BY <2>1, <2>3, <2>4, <2>7, AppendedMirror DEF Mirror
  <2> QED
    BY <2>8 DEF Mirror
<1>3. CASE topic \notin Registered
  <2>1. phase = "down"
    BY <1>1, <1>3 DEF Serial
  <2>2. DOMAIN pool' = {} /\ phase' = "down"
    BY <1>1, <1>3, <2>1 DEF SyncTypes, RouterOK
  <2> QED
    BY <2>2 DEF Mirror, OneByOne
<1> QED
  BY <1>2, <1>3

\* A write without handlers leaves the view as it is.
LEMMA NothingAdded ==
  ASSUME NEW x \in View, Sound(x), Matches(x)'
  PROVE  \E w : Adding(x, <<>>, w)
<1>1. PICK w : w = [n \in 1..1 |-> x]
  OBVIOUS
<1>2. Len(<<>>) = 0 /\ 0 + 1 = 1 /\ 1..0 = {} /\ 1 \in 1..1
  OBVIOUS
<1>3. w \in [1..1 -> View] /\ w[1] = x /\ \A n \in 1..1 : w[n] = x
  BY <1>1, <1>2
<1>4. Matches(w[1])'
  BY <1>3 DEF Matches
<1>5. \A n \in 1..1 : Sound(w[n])
  BY <1>3
<1> QED
  BY <1>2, <1>3, <1>4, <1>5 DEF Adding

\* One with one handler leaves the view after it.
LEMMA OneAdded ==
  ASSUME NEW x \in View, Sound(x), NEW h, HandlerOK(h), Fits(x, h),
         NEW y, y = After(x, h), Sound(y), Matches(y)'
  PROVE  \E w : Adding(x, <<h>>, w)
<1>1. PICK w : w = [n \in 1..2 |-> IF n = 1 THEN x ELSE y]
  OBVIOUS
<1>2. /\ Len(<<h>>) = 1 /\ 1 + 1 = 2 /\ <<h>>[1] = h
      /\ \A n \in 1..1 : n = 1
      /\ \A n \in 1..2 : n = 1 \/ n = 2
      /\ 1 \in 1..2 /\ 2 \in 1..2 /\ 2 # 1
  OBVIOUS
<1>3. y \in View
  BY AfterView
<1>4. w[1] = x /\ w[2] = y
  BY <1>1, <1>2
<1>5. w \in [1..2 -> View]
  BY <1>1, <1>3
<1>6. Matches(w[2])'
  BY <1>4 DEF Matches
<1>7. \A n \in 1..2 : Sound(w[n])
  BY <1>2, <1>4
<1>8. \A n \in 1..1 : Fits(w[n], <<h>>[n]) /\ w[n + 1] = After(w[n], <<h>>[n])
  BY <1>2, <1>4
<1> QED
  BY <1>2, <1>4, <1>5, <1>6, <1>7, <1>8 DEF Adding

\* The keys of a view of now differ as those of etcd do.
LEMMA KeysOfNow ==
  ASSUME NEW y, Matches(y)', KeysDiffer'
  PROVE  \A a, b \in Addresses : y.key[a] = y.key[b] /\ y.key[a] # Absent => a = b
<1> SUFFICES ASSUME NEW a \in Addresses, NEW b \in Addresses,
                    y.key[a] = y.key[b], y.key[a] # Absent
             PROVE  a = b
  OBVIOUS
<1>1. device'[a] # Absent /\ device'[b] # Absent
  BY DEF Matches
<1>2. y.key[a] = device'[a].key /\ y.key[b] = device'[b].key
  BY <1>1 DEF Matches
<1> QED
  BY <1>1, <1>2 DEF KeysDiffer

\* A write with one handler.
LEMMA OneMirror ==
  ASSUME SyncTypes, Serial => Mirror, Serial', NEW topic, NEW h, Publish(topic, <<h>>),
         HandlerOK(h), ~h.started, h.todo # <<"addUser">>,
         GoneWritten(<<h>>), AclsWritten(<<h>>), LoginsWritten(<<h>>),
         \A x \in View : Sound(x) /\ Matches(x) =>
           Fits(x, h) /\ \A y : y = After(x, h) => Sound(y) /\ Matches(y)'
  PROVE  Mirror'
<1>1. <<h>> \in Seq({h}) /\ \A n \in DOMAIN <<h>> : <<h>>[n] = h
  OBVIOUS
<1>2. Idling(<<h>>)
  BY <1>1 DEF Idling
<1>3. ASSUME NEW x \in View, Sound(x), Matches(x) PROVE \E w : Adding(x, <<h>>, w)
  <2>1. PICK y : y = After(x, h)
    OBVIOUS
  <2>2. Fits(x, h) /\ Sound(y) /\ Matches(y)'
    BY <1>3, <2>1
  <2> QED
    BY <1>3, <2>1, <2>2, OneAdded
<1> QED
  BY <1>1, <1>2, <1>3, PublishedMirror

\* One with none.
LEMMA UnseenMirror ==
  ASSUME SyncTypes, Serial => Mirror, Serial', NEW topic, Publish(topic, <<>>),
         \A u \in Users : user'[u] = Absent => user[u] = Absent,
         UNCHANGED <<acl, deleting>>,
         \A a \in Addresses : granted'[a] => granted[a] /\ device'[a].owner = device[a].owner,
         \A x \in View : Sound(x) /\ Matches(x) => Matches(x)'
  PROVE  Mirror'
<1>1. <<>> \in Seq({}) /\ DOMAIN <<>> = {}
  OBVIOUS
<1>2. Idling(<<>>)
  BY <1>1 DEF Idling
<1>3. GoneWritten(<<>>)
  BY <1>1 DEF GoneWritten
<1>4. AclsWritten(<<>>)
  BY DEF AclsWritten
<1>5. LoginsWritten(<<>>)
  BY <1>1 DEF LoginsWritten
<1>6. \A x \in View : Sound(x) /\ Matches(x) => \E w : Adding(x, <<>>, w)
  BY NothingAdded
<1> QED
  BY <1>1, <1>2, <1>3, <1>4, <1>5, <1>6, PublishedMirror

\* Its handlers add and remove neither a user nor a device.
LEMMA SameMatches ==
  ASSUME NEW x, Matches(x), UNCHANGED <<device, deleting>>,
         \A u \in Users : user'[u] = Absent <=> user[u] = Absent
  PROVE  Matches(x)'
BY DEF Matches

\* A changed user.
LEMMA WriteUserMirror ==
  ASSUME SyncTypes, Granted, Serial => Mirror, Serial', NEW u \in Users, NEW new,
         user[u] # Absent => new \in UserRecord, WriteUser(u, new, TRUE)
  PROVE  Mirror'
<1>1. PICK h : h = Handler("users", u, new, Absent, UserCalls(user[u], new))
  OBVIOUS
<1>2. /\ user[u] # Absent /\ user' = [user EXCEPT ![u] = new] /\ Publish("users", Event(h))
      /\ granted' = Revoked(Owned(u)) /\ UNCHANGED <<device, acl, deleting>>
      /\ new \in UserRecord
  BY <1>1 DEF WriteUser
<1>3. /\ user[u] \in UserRecord /\ user'[u] # Absent
      /\ \A w \in Users : w # u => user'[w] = user[w]
  BY <1>2, AbsentAssumption DEF SyncTypes, EtcdOK
<1>4. h.topic = "users" /\ h.id = u /\ h.todo = UserCalls(user[u], new) /\ ~h.started
  BY <1>1, HandlerFields
<1>5. ~Adds(h) /\ ~Takes(h)
  BY <1>2, <1>3, <1>4, UserCallsHas DEF Adds, Takes
<1>6. ASSUME NEW a \in Addresses, granted'[a]
      PROVE  granted[a] /\ device[a].owner # u /\ device[a] # Absent
  <2>1. granted[a] /\ a \notin Owned(u)
    BY <1>2, <1>6 DEF Revoked
  <2> QED
    BY <2>1 DEF Granted, Owned
<1>7. \A x \in View : Matches(x) => Matches(x)'
  BY <1>2, <1>3, SameMatches
<1>8. CASE h.todo = <<>>
  <2>1. Publish("users", <<>>)
    BY <1>2, <1>8 DEF Event
  <2> QED
    BY <1>2, <1>3, <1>6, <1>7, <2>1, UnseenMirror
<1>9. CASE h.todo # <<>>
  <2>1. Publish("users", <<h>>)
    BY <1>2, <1>9 DEF Event
  <2>2. HandlerOK(h)
    <3>1. UserCalls(user[u], new) \in Seq({"lock", "deauthenticateAll"})
      BY UserCallsSeq
    <3>2. UserCalls(user[u], new) \in Seq(Steps)
      BY <3>1 DEF Steps
    <3>3. h \in HandlerRecord
      BY <1>1, <1>2, <3>2, NewHandler
    <3>4. h.cur = new
      BY <1>1, HandlerFields
    <3> QED
      BY <1>2, <1>4, <1>9, <3>1, <3>3, <3>4 DEF HandlerOK
  <2>3. \A n \in DOMAIN <<h>> : <<h>>[n] = h
    OBVIOUS
  <2>4. h.todo # <<"addUser">>
    BY <1>5, HasOne DEF Adds
  <2>5. GoneWritten(<<h>>)
    BY <1>3, <1>4, <2>3 DEF GoneWritten, User
  <2>6. AclsWritten(<<h>>)
    BY <1>2 DEF AclsWritten
  <2>7. LoginsWritten(<<h>>)
    BY <1>2, <1>4, <1>6, <2>3 DEF LoginsWritten, User, Device
  <2>8. ASSUME NEW x \in View, Sound(x), Matches(x)
        PROVE  Fits(x, h) /\ \A y : y = After(x, h) => Sound(y) /\ Matches(y)'
    <3>1. After(x, h) = x
      BY <1>4, <1>5, AfterSame
    <3>2. Fits(x, h)
      BY <1>2, <1>4, <1>5, <2>8 DEF Fits, Matches
    <3> QED
      BY <1>7, <2>8, <3>1, <3>2
  <2> QED
    BY <1>4, <2>1, <2>2, <2>4, <2>5, <2>6, <2>7, <2>8, OneMirror
<1> QED
  BY <1>8, <1>9

\* A new user.
LEMMA CreateUserMirror ==
  ASSUME SyncTypes, Granted, KeysDiffer', Serial => Mirror, Serial', NEW u \in Users, CreateUser(u)
  PROVE  Mirror'
<1>1. PICK h : h = Handler("users", u, NewUser, Absent, <<"readAcl", "addUser">>)
  OBVIOUS
<1>2. /\ user[u] = Absent /\ user' = [user EXCEPT ![u] = NewUser] /\ Publish("users", <<h>>)
      /\ UNCHANGED <<device, acl, deleting, granted>>
  BY <1>1 DEF CreateUser
<1>3. NewUser \in UserRecord
  BY DEF NewUser, UserRecord
<1>4. user'[u] # Absent /\ \A w \in Users : w # u => user'[w] = user[w]
  BY <1>2, <1>3, AbsentAssumption DEF SyncTypes, EtcdOK
<1>5. /\ h.topic = "users" /\ h.id = u /\ h.cur = NewUser /\ ~h.started
      /\ h.todo = <<"readAcl", "addUser">>
  BY <1>1, HandlerFields
<1>6. \A c : Has(h.todo, c) <=> c = "readAcl" \/ c = "addUser"
  BY <1>5, HasTwo
<1>7. Adds(h) /\ ~Takes(h)
  BY <1>6 DEF Adds, Takes
<1>8. HandlerOK(h)
  <2>1. <<"readAcl", "addUser">> \in Seq(Steps) /\ <<"readAcl", "addUser">> # <<>>
    BY DEF Steps
  <2>2. h \in HandlerRecord
    BY <1>1, <1>3, <2>1, NewHandler
  <2> QED
    BY <1>3, <1>5, <2>1, <2>2 DEF HandlerOK
<1>9. h.todo # <<"addUser">>
  <2>1. Has(h.todo, "readAcl") /\ ~Has(<<"addUser">>, "readAcl")
    BY <1>6, HasOne
  <2> QED
    BY <2>1
<1>10. \A n \in DOMAIN <<h>> : <<h>>[n] = h
  OBVIOUS
<1>11. GoneWritten(<<h>>)
  BY <1>4, <1>5, <1>10 DEF GoneWritten, User
<1>12. AclsWritten(<<h>>)
  BY <1>2 DEF AclsWritten
<1>13. LoginsWritten(<<h>>)
  <2>1. \A a \in Addresses : granted[a] => device[a].owner # u
    BY <1>2 DEF Granted
  <2> QED
    BY <1>2, <1>5, <1>10, <2>1 DEF LoginsWritten, User, Device
<1>14. ASSUME NEW x \in View, Sound(x), Matches(x), NEW y, y = After(x, h)
       PROVE  Fits(x, h) /\ Sound(y) /\ Matches(y)'
  <2>1. /\ \A w \in Users : w \in y.users <=> w = u \/ w \in x.users
        /\ \A a \in Addresses : /\ y.owner[a] = x.owner[a] /\ y.key[a] = x.key[a]
                                /\ a \in y.kept <=> a \in x.kept
    BY <1>5, <1>7, <1>14, AfterOther DEF User
  <2>2. x.kept \subseteq Addresses /\ x.users \subseteq Users /\ y.kept \subseteq Addresses
    BY <1>14 DEF View, After
  <2>3. Fits(x, h)
    BY <1>2, <1>5, <1>7, <1>14 DEF Fits, Matches
  <2>4. Sound(y)
    BY <1>14, <2>1, <2>2 DEF Sound
  <2>5. Matches(y)'
    BY <1>2, <1>4, <1>14, <2>1 DEF Matches
  <2> QED
    BY <2>3, <2>4, <2>5
<1>15. \A x \in View : Sound(x) /\ Matches(x) =>
         Fits(x, h) /\ \A y : y = After(x, h) => Sound(y) /\ Matches(y)'
  BY <1>14
<1> QED
  BY <1>2, <1>5, <1>8, <1>9, <1>11, <1>12, <1>13, <1>15, OneMirror

\* A user that is gone.
LEMMA DeleteUserMirror ==
  ASSUME SyncTypes, Granted, Serial => Mirror, Serial', NEW u \in Users, DeleteUser(u)
  PROVE  Mirror'
<1>1. PICK h : h = Handler("users", u, user[u], Absent, <<"removeUser">>)
  OBVIOUS
<1>2. /\ user[u] # Absent /\ user' = [user EXCEPT ![u] = Absent] /\ Publish("users", <<h>>)
      /\ deleting' = deleting \cup {u} /\ granted' = Revoked(Owned(u))
      /\ UNCHANGED <<device, acl>>
  BY <1>1 DEF DeleteUser
<1>3. user[u] \in UserRecord
  BY <1>2 DEF SyncTypes, EtcdOK
<1>4. user'[u] = Absent /\ \A w \in Users : w # u => user'[w] = user[w]
  BY <1>2 DEF SyncTypes, EtcdOK
<1>5. /\ h.topic = "users" /\ h.id = u /\ h.cur = user[u] /\ ~h.started
      /\ h.todo = <<"removeUser">>
  BY <1>1, HandlerFields
<1>6. \A c : Has(h.todo, c) <=> c = "removeUser"
  BY <1>5, HasOne
<1>7. ~Adds(h) /\ Takes(h)
  BY <1>6 DEF Adds, Takes
<1>8. HandlerOK(h)
  <2>1. <<"removeUser">> \in Seq(Steps) /\ <<"removeUser">> # <<>>
    BY DEF Steps
  <2>2. h \in HandlerRecord
    BY <1>1, <1>3, <2>1, NewHandler
  <2> QED
    BY <1>3, <1>5, <2>1, <2>2 DEF HandlerOK
<1>9. h.todo # <<"addUser">>
  BY <1>7, HasOne DEF Adds
<1>10. /\ \A n \in DOMAIN <<h>> : n = 1 /\ <<h>>[n] = h
       /\ 1 \in DOMAIN <<h>> /\ <<h>>[1] = h /\ ~(1 < 1)
  OBVIOUS
<1>11. GoneWritten(<<h>>)
  <2> SUFFICES ASSUME NEW w \in Users, user'[w] = Absent
               PROVE  \/ user[w] = Absent /\ \A n \in DOMAIN <<h>> : ~User(<<h>>[n], w)
                      \/ \E n \in DOMAIN <<h>> :
                           /\ User(<<h>>[n], w) /\ Takes(<<h>>[n])
                           /\ \A m \in DOMAIN <<h>> : n < m => ~User(<<h>>[m], w)
    BY DEF GoneWritten
  <2>1. CASE w = u
    <3>1. User(<<h>>[1], w) /\ Takes(<<h>>[1])
      BY <1>5, <1>7, <1>10, <2>1 DEF User
    <3>2. \A m \in DOMAIN <<h>> : 1 < m => ~User(<<h>>[m], w)
      BY <1>10
    <3> QED
      BY <1>10, <3>1, <3>2
  <2>2. CASE w # u
    BY <1>4, <1>5, <1>10, <2>2 DEF User
  <2> QED
    BY <2>1, <2>2
<1>12. AclsWritten(<<h>>)
  BY <1>2 DEF AclsWritten
<1>13. LoginsWritten(<<h>>)
  <2>1. ASSUME NEW a \in Addresses, granted'[a]
        PROVE  granted[a] /\ device[a].owner # u
    BY <1>2, <2>1 DEF Revoked, Granted, Owned
  <2> QED
    BY <1>2, <1>5, <1>10, <2>1 DEF LoginsWritten, User, Device
<1>14. ASSUME NEW x \in View, Sound(x), Matches(x), NEW y, y = After(x, h)
       PROVE  Fits(x, h) /\ Sound(y) /\ Matches(y)'
  <2>1. /\ \A w \in Users : w \in y.users <=> w # u /\ w \in x.users
        /\ \A a \in Addresses : /\ y.owner[a] = x.owner[a] /\ y.key[a] = x.key[a]
                                /\ a \in y.kept <=> a \in x.kept /\ x.owner[a] # u
    BY <1>5, <1>7, <1>14, AfterOther DEF User
  <2>2. x.kept \subseteq Addresses /\ x.users \subseteq Users /\ y.kept \subseteq Addresses
    BY <1>14 DEF View, After
  <2>3. Fits(x, h)
    BY <1>2, <1>5, <1>7, <1>14 DEF Fits, Matches
  <2>4. Sound(y)
    BY <1>14, <2>1, <2>2 DEF Sound
  <2>5. Matches(y)'
    BY <1>2, <1>4, <1>14, <2>1 DEF Matches
  <2> QED
    BY <2>3, <2>4, <2>5
<1>15. \A x \in View : Sound(x) /\ Matches(x) =>
         Fits(x, h) /\ \A y : y = After(x, h) => Sound(y) /\ Matches(y)'
  BY <1>14
<1> QED
  BY <1>2, <1>5, <1>8, <1>9, <1>11, <1>12, <1>13, <1>15, OneMirror

\* A write that is about no user and no device.
LEMMA ConfigMirror ==
  ASSUME SyncTypes, Serial => Mirror, Serial', NEW topic, NEW h, Publish(topic, <<h>>),
         h.topic \in {"membership", "acls", "timeout"}, HandlerOK(h), ~h.started,
         AclsWritten(<<h>>), UNCHANGED <<user, device, deleting, granted>>
  PROVE  Mirror'
<1>1. \A n \in DOMAIN <<h>> : <<h>>[n] = h
  OBVIOUS
<1>2. h.topic # "users" /\ h.topic # "devices" /\ h.todo # <<"addUser">>
  <2>1. h.todo = <<"refreshUser">> \/ h.todo = <<"refresh">> \/ h.todo = <<"setTimeout">>
    BY DEF HandlerOK
  <2>2. ~Has(h.todo, "addUser") /\ Has(<<"addUser">>, "addUser")
    BY <2>1, HasOne
  <2> QED
    BY <2>2
<1>3. GoneWritten(<<h>>)
  BY <1>1, <1>2 DEF GoneWritten, User
<1>4. LoginsWritten(<<h>>)
  BY <1>1, <1>2 DEF LoginsWritten, User, Device
<1>5. ASSUME NEW x \in View, Sound(x), Matches(x)
      PROVE  Fits(x, h) /\ \A y : y = After(x, h) => Sound(y) /\ Matches(y)'
  <2>1. After(x, h) = x
    BY <1>2, AfterSame
  <2>2. Fits(x, h)
    BY <1>2 DEF Fits
  <2>3. Matches(x)'
    BY <1>5, SameMatches
  <2> QED
    BY <1>5, <2>1, <2>2, <2>3
<1> QED
  BY <1>2, <1>3, <1>4, <1>5, OneMirror

\* Who may go where, and for how long.
LEMMA ConfigWriteMirror ==
  ASSUME SyncTypes, Serial => Mirror, Serial',
         \/ \E u \in Users, l \in Acls : SetUserGroupMembership(u, l)
         \/ \E new : SetAcl(new)
         \/ SetSessionInactivityTimeout
  PROVE  Mirror'
<1>0. /\ <<"refreshUser">> \in Seq(Steps) /\ <<"refresh">> \in Seq(Steps)
      /\ <<"setTimeout">> \in Seq(Steps)
      /\ <<"refreshUser">> # <<>> /\ <<"refresh">> # <<>> /\ <<"setTimeout">> # <<>>
  BY DEF Steps
<1>1. ASSUME NEW u \in Users, NEW l \in Acls, SetUserGroupMembership(u, l) PROVE Mirror'
  <2>1. PICK h : h = Handler("membership", u, Absent, Absent, <<"refreshUser">>)
    OBVIOUS
  <2>2. /\ Publish("membership", <<h>>) /\ acl' = [acl EXCEPT ![u] = l]
        /\ UNCHANGED <<user, device, deleting, granted>>
    BY <1>1, <2>1 DEF SetUserGroupMembership
  <2>3. h.topic = "membership" /\ h.id = u /\ ~h.started /\ h.todo = <<"refreshUser">>
    BY <2>1, HandlerFields
  <2>4. h \in HandlerRecord
    BY <1>0, <2>1, NewHandler
  <2>5. HandlerOK(h)
    BY <1>0, <2>3, <2>4 DEF HandlerOK
  <2>6. 1 \in DOMAIN <<h>> /\ <<h>>[1] = h
    OBVIOUS
  <2>7. \A w \in Users : w # u => acl'[w] = acl[w]
    BY <2>2 DEF SyncTypes, EtcdOK
  <2>8. AclsWritten(<<h>>)
    BY <2>3, <2>6, <2>7 DEF AclsWritten, Refreshes
  <2> QED
    BY <2>2, <2>3, <2>5, <2>8, ConfigMirror
<1>2. ASSUME NEW new, SetAcl(new) PROVE Mirror'
  <2>1. PICK h : h = Handler("acls", Absent, Absent, Absent, <<"refresh">>)
    OBVIOUS
  <2>2. Publish("acls", <<h>>) /\ UNCHANGED <<user, device, deleting, granted>>
    BY <1>2, <2>1 DEF SetAcl
  <2>3. h.topic = "acls" /\ ~h.started /\ h.todo = <<"refresh">>
    BY <2>1, HandlerFields
  <2>4. h \in HandlerRecord
    BY <1>0, <2>1, NewHandler
  <2>5. HandlerOK(h)
    BY <1>0, <2>3, <2>4 DEF HandlerOK
  <2>6. 1 \in DOMAIN <<h>> /\ <<h>>[1] = h
    OBVIOUS
  <2>7. AclsWritten(<<h>>)
    BY <2>3, <2>6 DEF AclsWritten, Refreshes
  <2> QED
    BY <2>2, <2>3, <2>5, <2>7, ConfigMirror
<1>3. CASE SetSessionInactivityTimeout
  <2>1. PICK h : h = Handler("timeout", Absent, Absent, Absent, <<"setTimeout">>)
    OBVIOUS
  <2>2. Publish("timeout", <<h>>) /\ UNCHANGED <<user, device, acl, deleting, granted>>
    BY <1>3, <2>1 DEF SetSessionInactivityTimeout, etcd
  <2>3. h.topic = "timeout" /\ ~h.started /\ h.todo = <<"setTimeout">>
    BY <2>1, HandlerFields
  <2>4. h \in HandlerRecord
    BY <1>0, <2>1, NewHandler
  <2>5. HandlerOK(h)
    BY <1>0, <2>3, <2>4 DEF HandlerOK
  <2>6. AclsWritten(<<h>>)
    BY <2>2 DEF AclsWritten
  <2> QED
    BY <2>2, <2>3, <2>5, <2>6, ConfigMirror
<1> QED
  BY <1>1, <1>2, <1>3

\* What the handler of a device says of the write.
Written(a, h) ==
  \/ /\ Creates(h) /\ ~Removes(h)
     /\ device[a] = Absent /\ device'[a] = h.cur /\ user[h.cur.owner] # Absent
  \/ /\ Removes(h) /\ ~Creates(h)
     /\ device[a] = h.cur /\ device'[a] = Absent
  \/ /\ ~Creates(h) /\ ~Removes(h)
     /\ device[a] # Absent /\ device'[a] = h.cur
     /\ device[a].owner = h.cur.owner
     /\ device[a].key = IF Rekeys(h) THEN h.old ELSE h.cur.key
     /\ Rekeys(h) => Head(h.todo) = "replacePeer" /\ ~Has(Tail(h.todo), "replacePeer")

\* Of a login there is after it.
LoginWritten(a, h) ==
  granted'[a] =>
    /\ device[a] # Absent /\ device'[a].owner = device[a].owner
    /\ \/ granted[a] /\ h.todo = <<"replacePeer">>
       \/ h.todo = <<"authorise">> /\ h.cur.owner = device[a].owner

\* The view after a write of one device.
LEMMA DeviceAfter ==
  ASSUME SyncTypes, KeysDiffer', NEW a \in Addresses, NEW h, HandlerOK(h),
         h.topic = "devices", h.id = a, Written(a, h),
         UNCHANGED <<user, deleting>>, \A b \in Addresses : b # a => device'[b] = device[b],
         NEW x \in View, Sound(x), Matches(x), NEW y, y = After(x, h)
  PROVE  Fits(x, h) /\ Sound(y) /\ Matches(y)'
<1>1. h.cur \in DeviceRecord /\ h.cur # Absent
  BY AbsentAssumption DEF HandlerOK
<1>2. h.cur.owner \in Users /\ h.cur.key \in Keys /\ h.cur.key # Absent
  BY <1>1, FirewallSentinels DEF DeviceRecord
<1>3. Removes(h) => ~Rekeys(h)
  BY HasOne DEF Removes, Rekeys
<1>4. /\ \A u \in Users : u \in y.users <=> u \in x.users
      /\ \A b \in Addresses : b # a =>
           y.owner[b] = x.owner[b] /\ y.key[b] = x.key[b] /\ (b \in y.kept <=> b \in x.kept)
      /\ y.owner[a] = IF Creates(h) THEN h.cur.owner ELSE x.owner[a]
      /\ y.key[a] = IF Removes(h) THEN Absent ELSE h.cur.key
      /\ a \in y.kept <=> Creates(h) \/ (a \in x.kept /\ ~Removes(h))
  BY AfterDevice
<1>5. /\ \A u \in Users : u \in x.users <=> user[u] # Absent
      /\ \A b \in Addresses :
           /\ device[b] = Absent => x.key[b] = Absent
           /\ device[b] # Absent =>
                /\ x.key[b] = device[b].key /\ x.owner[b] = device[b].owner
                /\ b \in x.kept \/ device[b].owner \in deleting
  BY DEF Matches
<1>6. Matches(y)'
  <2>1. \A u \in Users : u \in y.users <=> user'[u] # Absent
    BY <1>4, <1>5
  <2>2. ASSUME NEW b \in Addresses, b # a
        PROVE  /\ device'[b] = Absent => y.key[b] = Absent
               /\ device'[b] # Absent =>
                    /\ y.key[b] = device'[b].key /\ y.owner[b] = device'[b].owner
                    /\ b \in y.kept \/ device'[b].owner \in deleting'
    <3>1. device'[b] = device[b]
      BY <2>2
    <3>2. y.owner[b] = x.owner[b] /\ y.key[b] = x.key[b] /\ (b \in y.kept <=> b \in x.kept)
      BY <1>4, <2>2
    <3> QED
      BY <1>5, <3>1, <3>2
  <2>3. device'[a] = Absent => y.key[a] = Absent
    BY <1>1, <1>4 DEF Written
  <2>4. ASSUME device'[a] # Absent
        PROVE  /\ y.key[a] = device'[a].key /\ y.owner[a] = device'[a].owner
               /\ a \in y.kept \/ device'[a].owner \in deleting'
    <3>1. device'[a] = h.cur /\ ~Removes(h)
      BY <2>4 DEF Written
    <3>2. CASE Creates(h)
      BY <1>4, <3>1, <3>2
    <3>3. CASE ~Creates(h)
      <4>1. device[a] # Absent /\ device[a].owner = h.cur.owner
        BY <3>1, <3>3 DEF Written
      <4> QED
        BY <1>4, <1>5, <3>1, <3>3, <4>1
    <3> QED
      BY <3>2, <3>3
  <2> QED
    BY <2>1, <2>2, <2>3, <2>4 DEF Matches
<1>7. Sound(y)
  <2>1. \A b, c \in Addresses : y.key[b] = y.key[c] /\ y.key[b] # Absent => b = c
    BY <1>6, KeysOfNow
  <2>2. ASSUME NEW b \in y.kept PROVE y.key[b] # Absent /\ y.owner[b] \in y.users
    <3>1. b \in Addresses /\ x.kept \subseteq Addresses /\ x.users \subseteq Users
      BY <2>2 DEF After, View
    <3>2. CASE b # a
      BY <1>4, <2>2, <3>1, <3>2 DEF Sound
    <3>3. CASE b = a /\ Creates(h)
      <4>1. user[h.cur.owner] # Absent /\ ~Removes(h)
        BY <3>3 DEF Written
      <4> QED
        BY <1>2, <1>4, <1>5, <3>3, <4>1
    <3>4. CASE b = a /\ ~Creates(h)
      <4>1. ~Removes(h) /\ a \in x.kept
        BY <1>4, <2>2, <3>4
      <4>2. x.owner[a] \in x.users
        BY <4>1 DEF Sound
      <4> QED
        BY <1>2, <1>4, <3>1, <3>4, <4>1, <4>2
    <3> QED
      BY <3>2, <3>3, <3>4
  <2> QED
    BY <2>1, <2>2 DEF Sound
<1>8. Fits(x, h)
  <2>1. CASE Creates(h)
    <3>1. device[a] = Absent /\ user[h.cur.owner] # Absent
      BY <2>1 DEF Written
    <3> QED
      BY <1>2, <1>5, <2>1, <3>1 DEF Fits
  <2>2. CASE ~Creates(h)
    <3>1. /\ device[a] # Absent /\ device[a].owner = h.cur.owner
          /\ device[a].key = IF Rekeys(h) THEN h.old ELSE h.cur.key
          /\ Rekeys(h) => Head(h.todo) = "replacePeer" /\ ~Has(Tail(h.todo), "replacePeer")
      BY <1>1, <1>3, <2>2 DEF Written
    <3> QED
      BY <1>5, <2>2, <3>1 DEF Fits
  <2> QED
    BY <2>1, <2>2
<1> QED
  BY <1>6, <1>7, <1>8

\* A write of one device, with its handler.
LEMMA OneDeviceMirror ==
  ASSUME SyncTypes, Granted, KeysDiffer', Serial => Mirror, Serial',
         NEW a \in Addresses, NEW h, Publish("devices", <<h>>), HandlerOK(h), ~h.started,
         h.topic = "devices", h.id = a, Written(a, h), LoginWritten(a, h),
         UNCHANGED <<user, acl, deleting>>,
         \A b \in Addresses : b # a => device'[b] = device[b] /\ (granted'[b] => granted[b])
  PROVE  Mirror'
<1>1. \A n \in DOMAIN <<h>> : <<h>>[n] = h
  OBVIOUS
<1>2. h.todo # <<"addUser">>
  <2>1. \A s : s \in Seq(ChangeCalls) => ~Has(s, "addUser")
    BY DEF Has, ChangeCalls
  <2>2. h.todo = <<"addPeer">> \/ h.todo = <<"removePeer">> \/ h.todo \in Seq(ChangeCalls)
    BY DEF HandlerOK, Creates, Removes, Changes
  <2>3. ~Has(h.todo, "addUser")
    BY <2>1, <2>2, HasOne
  <2> QED
    BY <2>3, HasOne
<1>3. GoneWritten(<<h>>)
  BY <1>1 DEF GoneWritten, User
<1>4. AclsWritten(<<h>>)
  BY DEF AclsWritten
<1>5. LoginsWritten(<<h>>)
  <2> SUFFICES ASSUME NEW b \in Addresses, granted'[b], device'[b].owner \notin deleting'
               PROVE  /\ device[b].owner = device'[b].owner /\ device[b].owner \notin deleting
                      /\ \/ /\ granted[b]
                            /\ \A n \in DOMAIN <<h>> :
                                 /\ Device(<<h>>[n], b) => <<h>>[n].todo = <<"replacePeer">>
                                 /\ ~User(<<h>>[n], device[b].owner)
                         \/ /\ device[b] # Absent
                            /\ \E g : /\ <<h>> = <<g>> /\ Device(g, b)
                                      /\ g.todo = <<"authorise">>
                                      /\ g.cur.owner = device[b].owner
    BY DEF LoginsWritten
  <2>1. CASE b # a
    BY <1>1, <2>1 DEF User, Device
  <2>2. CASE b = a
    <3>1. /\ device[a] # Absent /\ device'[a].owner = device[a].owner
          /\ \/ granted[a] /\ h.todo = <<"replacePeer">>
             \/ h.todo = <<"authorise">> /\ h.cur.owner = device[a].owner
      BY <2>2 DEF LoginWritten
    <3>2. CASE granted[a] /\ h.todo = <<"replacePeer">>
      BY <1>1, <2>2, <3>1, <3>2 DEF User
    <3>3. CASE h.todo = <<"authorise">> /\ h.cur.owner = device[a].owner
      BY <2>2, <3>1, <3>3 DEF Device
    <3> QED
      BY <3>1, <3>2, <3>3
  <2> QED
    BY <2>1, <2>2
<1>6. \A x \in View : Sound(x) /\ Matches(x) =>
        Fits(x, h) /\ \A y : y = After(x, h) => Sound(y) /\ Matches(y)'
  BY DeviceAfter
<1> QED
  BY <1>2, <1>3, <1>4, <1>5, <1>6, OneMirror

\* The calls of a sequence put before others.
LEMMA HeadConcat ==
  ASSUME NEW S, NEW s \in Seq(S), NEW t \in Seq(S), s # <<>>
  PROVE  s \o t # <<>> /\ Head(s \o t) = Head(s) /\ Tail(s \o t) = Tail(s) \o t
<1>1. /\ Len(s) \in Nat /\ Len(s) >= 1 /\ Len(t) \in Nat
      /\ s \o t \in Seq(S) /\ Len(s \o t) = Len(s) + Len(t)
      /\ \A k \in 1..(Len(s) + Len(t)) : (s \o t)[k] = IF k <= Len(s) THEN s[k] ELSE t[k - Len(s)]
  OBVIOUS
<1>2. s \o t # <<>>
  BY <1>1
<1>3. Head(s \o t) = Head(s)
  <2>1. 1 \in 1..(Len(s) + Len(t)) /\ 1 <= Len(s)
    BY <1>1
  <2>2. (s \o t)[1] = s[1]
    BY <1>1, <2>1
  <2> QED
    BY <1>1, <1>2, <2>2
<1>4. Tail(s \o t) = Tail(s) \o t
  <2>1. Tail(s) \in Seq(S) /\ Len(Tail(s)) = Len(s) - 1
    BY <1>1
  <2>2. /\ Tail(s \o t) \in Seq(S)
        /\ Len(Tail(s \o t)) = Len(s) + Len(t) - 1
    BY <1>1, <1>2
  <2>3. /\ Tail(s) \o t \in Seq(S)
        /\ Len(Tail(s) \o t) = Len(s) + Len(t) - 1
    BY <1>1, <2>1
  <2>4. ASSUME NEW k \in 1..(Len(s) + Len(t) - 1)
        PROVE  Tail(s \o t)[k] = (Tail(s) \o t)[k]
    <3>1. k + 1 \in 1..(Len(s) + Len(t))
      BY <1>1
    <3>2. Tail(s \o t)[k] = (s \o t)[k + 1]
      BY <1>1, <1>2, <2>2
    <3>3. CASE k <= Len(s) - 1
      <4>1. k + 1 <= Len(s) /\ k \in 1..(Len(s) - 1)
        BY <1>1, <3>3
      <4>2. (Tail(s) \o t)[k] = Tail(s)[k] /\ Tail(s)[k] = s[k + 1]
        BY <1>1, <2>1, <4>1
      <4> QED
        BY <1>1, <3>1, <3>2, <4>1, <4>2
    <3>4. CASE ~(k <= Len(s) - 1)
      <4>1. ~(k + 1 <= Len(s)) /\ (k + 1) - Len(s) = k - (Len(s) - 1)
        BY <1>1, <3>4
      <4>2. (Tail(s) \o t)[k] = t[k - (Len(s) - 1)]
        BY <1>1, <2>1, <3>4
      <4> QED
        BY <1>1, <3>1, <3>2, <4>1, <4>2
    <3> QED
      BY <3>3, <3>4
  <2> QED
    BY <2>2, <2>3, <2>4, SeqEqual
<1> QED
  BY <1>2, <1>3, <1>4

\* A key is replaced first, and once.
LEMMA RekeyFirst ==
  ASSUME NEW prev \in DeviceRecord, NEW cur \in DeviceRecord, NEW again \in BOOLEAN
  PROVE  LET todo == DeviceCalls(prev, cur, again) IN
         /\ Has(todo, "replacePeer") <=> cur.key # prev.key
         /\ cur.key # prev.key =>
              Head(todo) = "replacePeer" /\ ~Has(Tail(todo), "replacePeer")
<1> DEFINE s1 == CallIf(cur.key # prev.key, "replacePeer")
           s2 == CallIf(cur.endpoint # prev.endpoint, "challenge")
           s3 == CallIf(cur.attempts > Lockout /\ cur.authorised, "checkLockout")
           s4 == CallIf(~cur.authorised, "deauthenticate")
           s5 == CallIf(cur.node # prev.node, "associate")
           s6 == CallIf(again /\ cur.attempts <= Lockout /\ cur.node = prev.node, "authorise")
<1>1. /\ s1 \in Seq(ChangeCalls) /\ s2 \in Seq(ChangeCalls) /\ s3 \in Seq(ChangeCalls)
      /\ s4 \in Seq(ChangeCalls) /\ s5 \in Seq(ChangeCalls) /\ s6 \in Seq(ChangeCalls)
  BY CallIfSeq DEF ChangeCalls
<1>2. \A c : /\ Has(s1, c) <=> cur.key # prev.key /\ c = "replacePeer"
             /\ Has(s2, c) => c = "challenge"
             /\ Has(s3, c) => c = "checkLockout"
             /\ Has(s4, c) => c = "deauthenticate"
             /\ Has(s5, c) => c = "associate"
             /\ Has(s6, c) => c = "authorise"
  BY HasCallIf, Zenon
<1>3. cur.key # prev.key =>
        s1 # <<>> /\ Head(s1) = "replacePeer" /\ Tail(s1) = <<>>
  <2>1. <<"replacePeer">> # <<>>
    OBVIOUS
  <2> QED
    BY <2>1, HeadTail, Zenon DEF CallIf
<1> DEFINE t2 == s1 \o s2
           t3 == t2 \o s3
           t4 == t3 \o s4
           t5 == t4 \o s5
<1>4. DeviceCalls(prev, cur, again) = t5 \o s6
  BY DEF DeviceCalls
<1> HIDE DEF s1, s2, s3, s4, s5, s6
<1>5. /\ t2 \in Seq(ChangeCalls) /\ t3 \in Seq(ChangeCalls)
      /\ t4 \in Seq(ChangeCalls) /\ t5 \in Seq(ChangeCalls)
  BY <1>1, ConcatSeq
<1>6. /\ t2 = s1 \o s2 /\ t3 = t2 \o s3 /\ t4 = t3 \o s4 /\ t5 = t4 \o s5
  OBVIOUS
<1> HIDE DEF t2, t3, t4, t5
<1>7. \A s, t \in Seq(ChangeCalls) :
        /\ \A c : Has(s \o t, c) <=> Has(s, c) \/ Has(t, c)
        /\ s # <<>> => s \o t # <<>> /\ Head(s \o t) = Head(s) /\ Tail(s \o t) = Tail(s) \o t
  BY HasConcat, HeadConcat
<1>8. /\ Has(t2, "replacePeer") <=> Has(s1, "replacePeer")
      /\ Has(t3, "replacePeer") <=> Has(t2, "replacePeer")
      /\ Has(t4, "replacePeer") <=> Has(t3, "replacePeer")
      /\ Has(t5, "replacePeer") <=> Has(t4, "replacePeer")
      /\ Has(t5 \o s6, "replacePeer") <=> Has(t5, "replacePeer")
  <2>1. /\ ~Has(s2, "replacePeer") /\ ~Has(s3, "replacePeer") /\ ~Has(s4, "replacePeer")
        /\ ~Has(s5, "replacePeer") /\ ~Has(s6, "replacePeer")
    BY <1>2
  <2>2. \A s, t \in Seq(ChangeCalls) :
          ~Has(t, "replacePeer") => (Has(s \o t, "replacePeer") <=> Has(s, "replacePeer"))
    BY <1>7
  <2>3. /\ Has(t2, "replacePeer") <=> Has(s1, "replacePeer")
        /\ Has(t3, "replacePeer") <=> Has(t2, "replacePeer")
    BY <1>1, <1>5, <1>6, <2>1, <2>2, Zenon
  <2>4. /\ Has(t4, "replacePeer") <=> Has(t3, "replacePeer")
        /\ Has(t5, "replacePeer") <=> Has(t4, "replacePeer")
    BY <1>1, <1>5, <1>6, <2>1, <2>2, Zenon
  <2>5. Has(t5 \o s6, "replacePeer") <=> Has(t5, "replacePeer")
    BY <1>1, <1>5, <2>1, <2>2, Zenon
  <2> QED
    BY <2>3, <2>4, <2>5
<1>9. Has(t5 \o s6, "replacePeer") <=> cur.key # prev.key
  BY <1>2, <1>8
<1>10. ASSUME cur.key # prev.key
       PROVE  Head(t5 \o s6) = "replacePeer" /\ ~Has(Tail(t5 \o s6), "replacePeer")
  <2>1. s1 # <<>> /\ Head(s1) = "replacePeer" /\ Tail(s1) = <<>>
    BY <1>3, <1>10
  <2>2. \A s, t \in Seq(ChangeCalls) :
          /\ s # <<>> /\ Head(s) = "replacePeer"
          /\ Tail(s) \in Seq(ChangeCalls) /\ ~Has(Tail(s), "replacePeer")
          /\ ~Has(t, "replacePeer")
          => /\ s \o t # <<>> /\ Head(s \o t) = "replacePeer"
             /\ Tail(s \o t) \in Seq(ChangeCalls) /\ ~Has(Tail(s \o t), "replacePeer")
    <3> SUFFICES ASSUME NEW s \in Seq(ChangeCalls), NEW t \in Seq(ChangeCalls),
                        s # <<>>, Head(s) = "replacePeer",
                        Tail(s) \in Seq(ChangeCalls), ~Has(Tail(s), "replacePeer"),
                        ~Has(t, "replacePeer")
                 PROVE  /\ s \o t # <<>> /\ Head(s \o t) = "replacePeer"
                        /\ Tail(s \o t) \in Seq(ChangeCalls)
                        /\ ~Has(Tail(s \o t), "replacePeer")
      OBVIOUS
    <3>1. s \o t # <<>> /\ Head(s \o t) = Head(s) /\ Tail(s \o t) = Tail(s) \o t
      BY <1>7, Zenon
    <3>2. Tail(s) \o t \in Seq(ChangeCalls)
      BY ConcatSeq
    <3>3. ~Has(Tail(s) \o t, "replacePeer")
      BY <1>7, Zenon
    <3> QED
      BY <3>1, <3>2, <3>3, Zenon
  <2>3. <<>> \in Seq(ChangeCalls) /\ ~Has(<<>>, "replacePeer")
    BY HasNone
  <2>4. /\ ~Has(s2, "replacePeer") /\ ~Has(s3, "replacePeer") /\ ~Has(s4, "replacePeer")
        /\ ~Has(s5, "replacePeer") /\ ~Has(s6, "replacePeer")
    BY <1>2
  <2> DEFINE First(s) == /\ s # <<>> /\ Head(s) = "replacePeer"
                         /\ Tail(s) \in Seq(ChangeCalls) /\ ~Has(Tail(s), "replacePeer")
  <2>5. \A s, t \in Seq(ChangeCalls) : First(s) /\ ~Has(t, "replacePeer") => First(s \o t)
    BY <2>2
  <2>6. First(s1)
    BY <2>1, <2>3, Zenon
  <2>7. First(t5 \o s6) =>
          Head(t5 \o s6) = "replacePeer" /\ ~Has(Tail(t5 \o s6), "replacePeer")
    OBVIOUS
  <2> HIDE DEF First
  <2>8. First(t2)
    BY <1>1, <1>6, <2>4, <2>5, <2>6, Zenon
  <2>9. First(t3)
    BY <1>1, <1>5, <1>6, <2>4, <2>5, <2>8, Zenon
  <2>10. First(t4)
    BY <1>1, <1>5, <1>6, <2>4, <2>5, <2>9, Zenon
  <2>11. First(t5)
    BY <1>1, <1>5, <1>6, <2>4, <2>5, <2>10, Zenon
  <2>12. First(t5 \o s6)
    BY <1>1, <1>5, <2>4, <2>5, <2>11, Zenon
  <2> QED
    BY <2>7, <2>12
<1> QED
  BY <1>4, <1>9, <1>10

\* A device let in where it was seen: nothing but its new key or its login.
LEMMA LoneCall ==
  ASSUME NEW prev \in DeviceRecord, NEW cur \in DeviceRecord, NEW again \in BOOLEAN,
         cur.endpoint = prev.endpoint, cur.node = prev.node, cur.authorised,
         cur.attempts <= Lockout
  PROVE  /\ cur.key # prev.key /\ ~again => DeviceCalls(prev, cur, again) = <<"replacePeer">>
         /\ cur.key = prev.key /\ again => DeviceCalls(prev, cur, again) = <<"authorise">>
<1>1. ~(cur.attempts > Lockout)
  BY LockoutAssumption DEF DeviceRecord
<1>2. /\ CallIf(cur.endpoint # prev.endpoint, "challenge") = <<>>
      /\ CallIf(cur.attempts > Lockout /\ cur.authorised, "checkLockout") = <<>>
      /\ CallIf(~cur.authorised, "deauthenticate") = <<>>
      /\ CallIf(cur.node # prev.node, "associate") = <<>>
  BY <1>1, Zenon DEF CallIf
<1> DEFINE s1 == CallIf(cur.key # prev.key, "replacePeer")
           s6 == CallIf(again /\ cur.attempts <= Lockout /\ cur.node = prev.node, "authorise")
<1>3. s1 \in Seq(ChangeCalls) /\ s6 \in Seq(ChangeCalls)
  BY CallIfSeq DEF ChangeCalls
<1>4. DeviceCalls(prev, cur, again) = ((((s1 \o <<>>) \o <<>>) \o <<>>) \o <<>>) \o s6
  BY <1>2, Zenon DEF DeviceCalls
<1>5. /\ cur.key # prev.key /\ ~again => s1 = <<"replacePeer">> /\ s6 = <<>>
      /\ cur.key = prev.key /\ again => s1 = <<>> /\ s6 = <<"authorise">>
  BY Zenon DEF CallIf
<1> HIDE DEF s1, s6
<1>6. \A s \in Seq(ChangeCalls) : s \o <<>> = s /\ <<>> \o s = s
  BY ConcatEmptySeq
<1>7. DeviceCalls(prev, cur, again) = s1 \o s6
  BY <1>3, <1>4, <1>6, Zenon
<1> QED
  BY <1>3, <1>5, <1>6, <1>7, Zenon

\* A new device.
LEMMA AddDeviceMirror ==
  ASSUME SyncTypes, Granted, KeysDiffer', Serial => Mirror, Serial',
         NEW u \in Users, NEW a \in Addresses, NEW k \in Keys, AddDevice(u, a, k)
  PROVE  Mirror'
<1>1. PICK new : new = NewDevice(u, k)
  OBVIOUS
<1>2. PICK h : h = Handler("devices", a, new, Absent, <<"addPeer">>)
  OBVIOUS
<1>3. /\ user[u] # Absent /\ device[a] = Absent
      /\ device' = [device EXCEPT ![a] = new]
      /\ Publish("devices", <<h>>)
      /\ UNCHANGED <<user, acl, deleting, granted>>
  BY <1>1, <1>2 DEF AddDevice
<1>4. new \in DeviceRecord /\ new.owner = u
  BY <1>1, LockoutAssumption DEF NewDevice, DeviceRecord
<1>5. device'[a] = new /\ \A b \in Addresses : b # a => device'[b] = device[b]
  BY <1>3 DEF SyncTypes, EtcdOK
<1>6. /\ h.topic = "devices" /\ h.id = a /\ h.cur = new /\ ~h.started
      /\ h.todo = <<"addPeer">>
  BY <1>2, HandlerFields
<1>7. Creates(h) /\ ~Removes(h)
  <2>1. Has(<<"addPeer">>, "addPeer") /\ ~Has(<<"removePeer">>, "addPeer")
    BY HasOne
  <2> QED
    BY <1>6, <2>1 DEF Creates, Removes
<1>8. HandlerOK(h)
  <2>1. <<"addPeer">> \in Seq(Steps) /\ <<"addPeer">> # <<>>
    BY DEF Steps
  <2>2. h \in HandlerRecord
    BY <1>2, <1>4, <2>1, NewHandler
  <2> QED
    BY <1>4, <1>6, <1>7, <2>1, <2>2 DEF HandlerOK
<1>9. Written(a, h)
  BY <1>3, <1>4, <1>5, <1>6, <1>7 DEF Written
<1>10. LoginWritten(a, h)
  BY <1>3 DEF LoginWritten, Granted
<1> QED
  BY <1>3, <1>5, <1>6, <1>8, <1>9, <1>10, OneDeviceMirror

\* A device that is gone.
LEMMA DeleteDeviceMirror ==
  ASSUME SyncTypes, Granted, KeysDiffer', Serial => Mirror, Serial',
         NEW a \in Addresses, DeleteDevice(a)
  PROVE  Mirror'
<1>1. PICK h : h = Removal(a)
  OBVIOUS
<1>2. /\ device[a] # Absent /\ device' = [device EXCEPT ![a] = Absent]
      /\ Publish("devices", <<h>>)
      /\ granted' = Revoked({a})
      /\ UNCHANGED <<user, acl, deleting>>
  BY <1>1 DEF DeleteDevice
<1>3. device'[a] = Absent /\ \A b \in Addresses : b # a => device'[b] = device[b]
  BY <1>2 DEF SyncTypes, EtcdOK
<1>4. /\ h.topic = "devices" /\ h.id = a /\ h.cur = device[a] /\ ~h.started
      /\ h.todo = <<"removePeer">>
  BY <1>1, HandlerFields DEF Removal
<1>5. Removes(h) /\ ~Creates(h)
  <2>1. Has(<<"addPeer">>, "addPeer") /\ ~Has(<<"removePeer">>, "addPeer")
    BY HasOne
  <2> QED
    BY <1>4, <2>1 DEF Creates, Removes
<1>6. HandlerOK(h)
  BY <1>1, <1>2, RemovalOK
<1>7. Written(a, h)
  BY <1>3, <1>4, <1>5 DEF Written
<1>8. ~granted'[a] /\ \A b \in Addresses : granted'[b] => granted[b]
  BY <1>2 DEF Revoked
<1>9. LoginWritten(a, h)
  BY <1>8 DEF LoginWritten
<1> QED
  BY <1>2, <1>3, <1>4, <1>6, <1>7, <1>8, <1>9, OneDeviceMirror

\* A login there is after a write of a device: one whose device has got a new
\* key, or the one that is written.
LoginKept(a, new, again) ==
  granted'[a] =>
    /\ new.endpoint = device[a].endpoint /\ new.node = device[a].node
    /\ new.authorised /\ new.attempts <= Lockout
    /\ \/ granted[a] /\ ~again /\ new.key # device[a].key
       \/ again /\ new.key = device[a].key

\* A changed device.
LEMMA WriteDeviceMirror ==
  ASSUME SyncTypes, Granted, KeysDiffer', Serial => Mirror, Serial',
         NEW a \in Addresses, NEW new, NEW again \in BOOLEAN, WriteDevice(a, new, again),
         device[a] # Absent =>
           /\ new \in DeviceRecord /\ new.owner = device[a].owner
           /\ new.node \in Nodes \/ (~again /\ new.node = device[a].node)
           /\ LoginKept(a, new, again),
         \A b \in Addresses : b # a /\ granted'[b] => granted[b]
  PROVE  Mirror'
<1>1. PICK h : h = Handler("devices", a, new, device[a].key, DeviceCalls(device[a], new, again))
  OBVIOUS
<1>2. /\ device[a] # Absent /\ device' = [device EXCEPT ![a] = new]
      /\ Publish("devices", Event(h)) /\ UNCHANGED <<user, acl, deleting>>
      /\ new \in DeviceRecord /\ new.owner = device[a].owner
      /\ new.node \in Nodes \/ (~again /\ new.node = device[a].node)
      /\ LoginKept(a, new, again)
  BY <1>1 DEF WriteDevice
<1>3. device'[a] = new /\ \A b \in Addresses : b # a => device'[b] = device[b]
  BY <1>2 DEF SyncTypes, EtcdOK
<1>4. device[a] \in DeviceRecord
  BY <1>2, DeviceThere
<1>5. /\ h.topic = "devices" /\ h.id = a /\ h.cur = new /\ ~h.started
      /\ h.todo = DeviceCalls(device[a], new, again)
  BY <1>1, HandlerFields
<1>6. h.old = device[a].key
  BY <1>1 DEF Handler
<1>7. /\ Rekeys(h) <=> new.key # device[a].key
      /\ Rekeys(h) => Head(h.todo) = "replacePeer" /\ ~Has(Tail(h.todo), "replacePeer")
  BY <1>2, <1>4, <1>5, RekeyFirst DEF Rekeys
<1>8. ASSUME granted'[a]
      PROVE  \/ granted[a] /\ h.todo = <<"replacePeer">>
             \/ h.todo = <<"authorise">>
  BY <1>2, <1>4, <1>5, <1>8, LoneCall DEF LoginKept
<1>9. CASE h.todo = <<>>
  <2>1. ~granted'[a]
    <3>1. <<"replacePeer">> # <<>> /\ <<"authorise">> # <<>>
      OBVIOUS
    <3> QED
      BY <1>8, <1>9, <3>1
  <2>2. new.key = device[a].key
    BY <1>7, <1>9, HasNone DEF Rekeys
  <2>3. \A x \in View : Matches(x) => Matches(x)'
    <3> SUFFICES ASSUME NEW x \in View, Matches(x)
                 PROVE  Matches(x)'
      OBVIOUS
    <3>1. \A b \in Addresses :
            /\ device'[b] = Absent => device[b] = Absent
            /\ device'[b] # Absent =>
                 /\ device[b] # Absent
                 /\ device'[b].key = device[b].key /\ device'[b].owner = device[b].owner
      BY <1>2, <1>3, <2>2, AbsentAssumption
    <3> QED
      BY <1>2, <3>1 DEF Matches
  <2>4. \A b \in Addresses : granted'[b] => granted[b] /\ device'[b].owner = device[b].owner
    BY <1>3, <2>1
  <2>5. Publish("devices", <<>>)
    BY <1>2, <1>9 DEF Event
  <2> QED
    BY <1>2, <2>3, <2>4, <2>5, UnseenMirror
<1>10. CASE h.todo # <<>>
  <2>1. HandlerOK(h)
    BY <1>1, <1>2, <1>10, ChangeOK
  <2>2. ~Creates(h) /\ ~Removes(h)
    <3>1. h.todo \in Seq(ChangeCalls)
      BY <1>2, <1>4, <1>5, DeviceCallsSeq DEF ChangeCalls
    <3> QED
      BY <3>1, ChangeCallsKeep
  <2>3. Written(a, h)
    BY <1>2, <1>3, <1>5, <1>6, <1>7, <2>2 DEF Written
  <2>4. LoginWritten(a, h)
    BY <1>2, <1>3, <1>5, <1>8 DEF LoginWritten
  <2>5. Publish("devices", <<h>>)
    BY <1>2, <1>10 DEF Event
  <2> QED
    BY <1>2, <1>3, <1>5, <2>1, <2>3, <2>4, <2>5, OneDeviceMirror
<1> QED
  BY <1>9, <1>10

\* What a new key and a login keep of a device.
LEMMA DeviceKept ==
  ASSUME NEW d \in DeviceRecord
  PROVE  /\ \A k \in Keys :
              /\ WithKey(d, k).key = k /\ WithKey(d, k).endpoint = d.endpoint
              /\ WithKey(d, k).authorised = d.authorised /\ WithKey(d, k).attempts = d.attempts
         /\ \A n \in Nodes :
              /\ WithAuthorisation(d, n).key = d.key
              /\ WithAuthorisation(d, n).endpoint = d.endpoint
              /\ WithAuthorisation(d, n).authorised
              /\ WithAuthorisation(d, n).attempts = 0
<1>1. \A k \in Keys :
        /\ WithKey(d, k).key = k /\ WithKey(d, k).endpoint = d.endpoint
        /\ WithKey(d, k).authorised = d.authorised /\ WithKey(d, k).attempts = d.attempts
  BY DEF WithKey, DeviceRecord
<1>2. ASSUME NEW n \in Nodes
      PROVE  /\ WithAuthorisation(d, n).key = d.key
             /\ WithAuthorisation(d, n).endpoint = d.endpoint
             /\ WithAuthorisation(d, n).authorised
             /\ WithAuthorisation(d, n).attempts = 0
  <2>1. PICK f : f = [d EXCEPT !.authorised = TRUE]
    OBVIOUS
  <2>2. PICK g : g = [f EXCEPT !.attempts = 0]
    OBVIOUS
  <2>3. f \in DeviceRecord /\ f.key = d.key /\ f.endpoint = d.endpoint /\ f.authorised
    BY <2>1 DEF DeviceRecord
  <2>4. /\ g \in DeviceRecord /\ g.key = d.key /\ g.endpoint = d.endpoint /\ g.authorised
        /\ g.attempts = 0
    BY <2>2, <2>3, LockoutAssumption DEF DeviceRecord
  <2>5. WithAuthorisation(d, n) = [g EXCEPT !.node = n]
    BY <2>1, <2>2 DEF WithAuthorisation
  <2> QED
    BY <2>4, <2>5 DEF DeviceRecord
<1> QED
  BY <1>1, <1>2

\* The writes of a device that is there.
LEMMA DeviceWriteMirror ==
  ASSUME SyncTypes, Granted, KeysDiffer', Serial => Mirror, Serial', NEW a \in Addresses,
         \/ \E k \in Keys : UpdateDevicePublicKey(a, k)
         \/ IncrementAuthenticationAttempt(a)
         \/ \E n \in {0, Lockout + 1} : SetDeviceAuthenticationAttempts(a, n)
         \/ \E n \in Nodes :
              AuthoriseDevice(a, n) \/ \E e \in Endpoints : UpdateDeviceConnectionDetails(a, e, n)
         \/ DeauthenticateDevice(a)
  PROVE  Mirror'
<1>1. device[a] # Absent => device[a] \in DeviceRecord
  BY DeviceThere
<1>2. ASSUME granted' = Revoked({a})
      PROVE  ~granted'[a] /\ \A b \in Addresses : granted'[b] => granted[b]
  BY <1>2 DEF Revoked
<1>3. ASSUME NEW k \in Keys, UpdateDevicePublicKey(a, k) PROVE Mirror'
  <2>1. PICK new : new = WithKey(device[a], k)
    OBVIOUS
  <2>2. WriteDevice(a, new, FALSE) /\ UNCHANGED granted /\ FreshKey(k)
    BY <1>3, <2>1 DEF UpdateDevicePublicKey
  <2>3. ASSUME device[a] # Absent
        PROVE  /\ new \in DeviceRecord /\ new.owner = device[a].owner
               /\ new.node = device[a].node /\ LoginKept(a, new, FALSE)
    <3>1. /\ new \in DeviceRecord /\ new.owner = device[a].owner
          /\ new.node = device[a].node
      BY <1>1, <2>1, <2>3, DeviceWritten
    <3>2. /\ new.key = k /\ new.endpoint = device[a].endpoint
          /\ new.authorised = device[a].authorised /\ new.attempts = device[a].attempts
      BY <1>1, <2>1, <2>3, DeviceKept
    <3>3. k # device[a].key
      BY <2>2, <2>3 DEF FreshKey
    <3> QED
      BY <2>2, <3>1, <3>2, <3>3 DEF LoginKept, Granted
  <2> QED
    BY <2>2, <2>3, WriteDeviceMirror
<1>4. ASSUME NEW new, WriteDevice(a, new, FALSE), granted' = Revoked({a}),
             device[a] # Absent =>
               /\ new \in DeviceRecord /\ new.owner = device[a].owner
               /\ new.node \in Nodes \/ new.node = device[a].node
      PROVE  Mirror'
  <2>1. LoginKept(a, new, FALSE) /\ \A b \in Addresses : granted'[b] => granted[b]
    BY <1>2, <1>4 DEF LoginKept
  <2> QED
    BY <1>4, <2>1, WriteDeviceMirror
<1>5. CASE IncrementAuthenticationAttempt(a)
  BY <1>1, <1>4, <1>5, DeviceWritten DEF IncrementAuthenticationAttempt
<1>6. ASSUME NEW n \in {0, Lockout + 1}, SetDeviceAuthenticationAttempts(a, n) PROVE Mirror'
  BY <1>1, <1>4, <1>6, DeviceWritten DEF SetDeviceAuthenticationAttempts
<1>7. ASSUME NEW n \in Nodes, AuthoriseDevice(a, n) PROVE Mirror'
  <2>1. PICK new : new = WithAuthorisation(device[a], n)
    OBVIOUS
  <2>2. WriteDevice(a, new, TRUE)
    BY <1>7, <2>1 DEF AuthoriseDevice
  <2>3. /\ granted'[a] => device[a].node = n
        /\ \A b \in Addresses : b # a => granted'[b] = granted[b]
    BY <1>7 DEF AuthoriseDevice, SyncTypes
  <2>4. ASSUME device[a] # Absent
        PROVE  /\ new \in DeviceRecord /\ new.owner = device[a].owner
               /\ new.node \in Nodes /\ LoginKept(a, new, TRUE)
    <3>1. new \in DeviceRecord /\ new.owner = device[a].owner /\ new.node = n
      BY <1>1, <2>1, <2>4, DeviceWritten
    <3>2. /\ new.key = device[a].key /\ new.endpoint = device[a].endpoint
          /\ new.authorised /\ new.attempts = 0 /\ 0 <= Lockout
      BY <1>1, <2>1, <2>4, DeviceKept, LockoutAssumption
    <3> QED
      BY <2>3, <3>1, <3>2 DEF LoginKept
  <2> QED
    BY <2>2, <2>3, <2>4, WriteDeviceMirror
<1>8. ASSUME NEW n \in Nodes, NEW e \in Endpoints, UpdateDeviceConnectionDetails(a, e, n)
      PROVE  Mirror'
  BY <1>1, <1>4, <1>8, DeviceWritten DEF UpdateDeviceConnectionDetails
<1>9. CASE DeauthenticateDevice(a)
  BY <1>1, <1>4, <1>9, DeviceWritten DEF DeauthenticateDevice
<1> QED
  BY <1>3, <1>5, <1>6, <1>7, <1>8, <1>9

\* The views while the devices of a deleted user go one after the other.
Without(x, key, n) ==
  [users |-> x.users, owner |-> x.owner,
   key |-> [a \in Addresses |-> IF \E i \in 1..(n - 1) : key[i] = a THEN Absent ELSE x.key[a]],
   kept |-> {a \in x.kept : \A i \in 1..(n - 1) : key[i] # a}]

\* Each is a view the history may have.
LEMMA WithoutView ==
  ASSUME NEW x \in View, Sound(x), NEW key, NEW n \in Nat
  PROVE  Without(x, key, n) \in View /\ Sound(Without(x, key, n))
<1>1. PICK y : y = Without(x, key, n)
  OBVIOUS
<1>2. /\ x.users \in SUBSET Users /\ x.kept \in SUBSET Addresses
      /\ x.owner \in [Addresses -> Users \cup {Absent}]
      /\ x.key \in [Addresses -> Keys \cup {Absent}]
  BY DEF View
<1>3. /\ y.users = x.users /\ y.owner = x.owner
      /\ y.key = [a \in Addresses |->
                    IF \E i \in 1..(n - 1) : key[i] = a THEN Absent ELSE x.key[a]]
      /\ y.kept = {a \in x.kept : \A i \in 1..(n - 1) : key[i] # a}
      /\ y = [users |-> y.users, owner |-> y.owner, key |-> y.key, kept |-> y.kept]
  BY <1>1 DEF Without
<1>4. y.key \in [Addresses -> Keys \cup {Absent}] /\ y.kept \in SUBSET Addresses
  BY <1>2, <1>3
<1>5. y \in View
  BY <1>2, <1>3, <1>4 DEF View
<1>6. \A a \in Addresses :
        y.key[a] = IF \E i \in 1..(n - 1) : key[i] = a THEN Absent ELSE x.key[a]
  BY <1>3
<1>7. \A a, b \in Addresses : y.key[a] = y.key[b] /\ y.key[a] # Absent => a = b
  BY <1>6 DEF Sound
<1>8. \A a \in y.kept : y.key[a] # Absent /\ y.owner[a] \in y.users
  BY <1>2, <1>3, <1>6 DEF Sound
<1> QED
  BY <1>1, <1>5, <1>7, <1>8 DEF Sound

\* The next one goes.
LEMMA WithoutNext ==
  ASSUME NEW x \in View, NEW n \in Nat, NEW key \in [1..n -> Addresses],
         \A i, j \in 1..n : key[i] = key[j] => i = j,
         NEW m \in 1..n, NEW h, h.topic = "devices", h.id = key[m], Removes(h)
  PROVE  After(Without(x, key, m), h) = Without(x, key, m + 1)
<1>1. PICK y, z, w : y = Without(x, key, m) /\ z = Without(x, key, m + 1) /\ w = After(y, h)
  OBVIOUS
<1>2. ~Creates(h)
  <2>1. Has(<<"addPeer">>, "addPeer") /\ ~Has(<<"removePeer">>, "addPeer")
    BY HasOne
  <2> QED
    BY <2>1 DEF Creates, Removes
<1>3. key[m] \in Addresses
  OBVIOUS
<1>4. \A a : (\E i \in 1..m : key[i] = a) <=> a = key[m] \/ \E i \in 1..(m - 1) : key[i] = a
  <2>1. \A i \in 1..m : i = m \/ i \in 1..(m - 1)
    OBVIOUS
  <2>2. m \in 1..m /\ \A i \in 1..(m - 1) : i \in 1..m
    OBVIOUS
  <2> QED
    BY <2>1, <2>2
<1>5. /\ y.users = x.users /\ y.owner = x.owner
      /\ y.key = [a \in Addresses |->
                    IF \E i \in 1..(m - 1) : key[i] = a THEN Absent ELSE x.key[a]]
      /\ y.kept = {a \in x.kept : \A i \in 1..(m - 1) : key[i] # a}
  BY <1>1 DEF Without
<1>6. /\ z.users = x.users /\ z.owner = x.owner
      /\ z.key = [a \in Addresses |-> IF \E i \in 1..m : key[i] = a THEN Absent ELSE x.key[a]]
      /\ z.kept = {a \in x.kept : \A i \in 1..m : key[i] # a}
      /\ z = [users |-> z.users, owner |-> z.owner, key |-> z.key, kept |-> z.kept]
  <2>1. (m + 1) - 1 = m
    OBVIOUS
  <2> QED
    BY <1>1, <2>1 DEF Without
<1>7. /\ w.users = {u \in Users : u \in y.users}
      /\ w.owner = [a \in Addresses |-> y.owner[a]]
      /\ w.key = [a \in Addresses |-> IF a # key[m] THEN y.key[a] ELSE Absent]
      /\ w.kept = {a \in Addresses : a \in y.kept /\ a # key[m]}
      /\ w = [users |-> w.users, owner |-> w.owner, key |-> w.key, kept |-> w.kept]
  <2>1. h.topic # "users" /\ \A a : Device(h, a) <=> a = key[m]
    BY DEF Device
  <2>2. w = [users |-> {u \in Users : \/ User(h, u) /\ Adds(h)
                                      \/ u \in y.users /\ ~(User(h, u) /\ Takes(h))},
             owner |-> [a \in Addresses |->
                          IF Device(h, a) /\ Creates(h) THEN h.cur.owner ELSE y.owner[a]],
             key |-> [a \in Addresses |->
                        IF ~Device(h, a) THEN y.key[a]
                        ELSE IF Removes(h) THEN Absent ELSE h.cur.key],
             kept |-> {a \in Addresses :
                         \/ Device(h, a) /\ Creates(h)
                         \/ /\ a \in y.kept
                            /\ ~(Device(h, a) /\ Removes(h))
                            /\ ~(h.topic = "users" /\ Takes(h) /\ y.owner[a] = h.id)}]
    BY <1>1 DEF After
  <2>3. w.users = {u \in Users : u \in y.users}
    BY <2>1, <2>2 DEF User
  <2>4. w.owner = [a \in Addresses |-> y.owner[a]]
    BY <1>2, <2>2
  <2>5. w.key = [a \in Addresses |-> IF a # key[m] THEN y.key[a] ELSE Absent]
    BY <2>1, <2>2
  <2>6. w.kept = {a \in Addresses : a \in y.kept /\ a # key[m]}
    BY <1>2, <2>1, <2>2
  <2> QED
    BY <2>2, <2>3, <2>4, <2>5, <2>6
<1>8. /\ x.users \subseteq Users /\ x.kept \subseteq Addresses
      /\ x.owner = [a \in Addresses |-> x.owner[a]]
  BY DEF View
<1>9. w.users = z.users /\ w.owner = z.owner
  BY <1>5, <1>6, <1>7, <1>8
<1>10. w.kept = z.kept
  BY <1>4, <1>5, <1>6, <1>7, <1>8
<1>11. w.key = z.key
  <2>1. \A a \in Addresses : w.key[a] = z.key[a]
    BY <1>4, <1>5, <1>6, <1>7
  <2> QED
    BY <1>6, <1>7, <2>1
<1> QED
  BY <1>1, <1>6, <1>7, <1>9, <1>10, <1>11

\* The devices of a deleted user, in any order.
LEMMA DeleteDevicesMirror ==
  ASSUME SyncTypes, Granted, Serial => Mirror, Serial', NEW u \in Users, DeleteDevices(u)
  PROVE  Mirror'
<1>1. PICK key \in InSomeOrder(Owned(u)) :
        Publish("devices", [n \in DOMAIN key |-> Removal(key[n])])
  BY DEF DeleteDevices
<1>2. PICK n \in Nat : /\ key \in [1..n -> Owned(u)] /\ DOMAIN key = 1..n
                       /\ \A b \in Owned(u) : \E i \in 1..n : key[i] = b
                       /\ \A i, j \in 1..n : key[i] = key[j] => i = j
  BY OrderedLemma
<1>3. PICK hs : hs = [m \in DOMAIN key |-> Removal(key[m])]
  OBVIOUS
<1>4. /\ device' = [a \in Addresses |-> IF a \in Owned(u) THEN Absent ELSE device[a]]
      /\ deleting' = deleting \ {u} /\ granted' = Revoked(Owned(u))
      /\ UNCHANGED <<user, acl>>
  BY DEF DeleteDevices
<1>5. \A m \in 1..n : /\ key[m] \in Addresses /\ key[m] \in Owned(u)
                      /\ device[key[m]] # Absent /\ device[key[m]].owner = u
  BY <1>2 DEF Owned
<1>6. DOMAIN hs = 1..n /\ \A m \in 1..n : hs[m] = Removal(key[m])
  BY <1>2, <1>3
<1>7. \A m \in 1..n : /\ hs[m].topic = "devices" /\ hs[m].id = key[m] /\ ~hs[m].started
                      /\ hs[m].cur = device[key[m]] /\ hs[m].todo = <<"removePeer">>
                      /\ hs[m] \in HandlerRecord
  BY <1>5, <1>6, HandlerFields, RemovalOK DEF Removal
<1>8. hs \in Seq(HandlerRecord) /\ Len(hs) = n
  <2>1. hs = [m \in 1..n |-> hs[m]] /\ \A m \in 1..n : hs[m] \in HandlerRecord
    BY <1>2, <1>3, <1>7
  <2> QED
    BY <2>1
<1>9. /\ <<"removePeer">> # <<"addPeer">> /\ <<"removePeer">> # <<"addUser">>
      /\ ~Has(<<"removePeer">>, "replacePeer")
  <2>1. Has(<<"addPeer">>, "addPeer") /\ Has(<<"addUser">>, "addUser")
    BY HasOne
  <2>2. ~Has(<<"removePeer">>, "addPeer") /\ ~Has(<<"removePeer">>, "addUser")
    BY HasOne
  <2> QED
    BY <2>1, <2>2, HasOne
<1>10. Idling(hs)
  BY <1>6, <1>7, <1>9 DEF Idling
<1>11. GoneWritten(hs)
  BY <1>4, <1>6, <1>7 DEF GoneWritten, User
<1>12. AclsWritten(hs)
  BY <1>4 DEF AclsWritten
<1>13. LoginsWritten(hs)
  <2> SUFFICES ASSUME NEW a \in Addresses, granted'[a], device'[a].owner \notin deleting'
               PROVE  /\ device[a].owner = device'[a].owner /\ device[a].owner \notin deleting
                      /\ granted[a]
                      /\ \A m \in DOMAIN hs : /\ ~Device(hs[m], a)
                                              /\ ~User(hs[m], device[a].owner)
    BY DEF LoginsWritten
  <2>1. granted[a] /\ a \notin Owned(u)
    BY <1>4 DEF Revoked
  <2>2. device[a] # Absent /\ device[a].owner # u
    BY <2>1 DEF Granted, Owned
  <2> QED
    BY <1>4, <1>5, <1>6, <1>7, <2>1, <2>2 DEF Device, User
<1>14. ASSUME NEW x \in View, Sound(x), Matches(x)
       PROVE  \E w : Adding(x, hs, w)
  <2>1. PICK w : w = [m \in 1..(n + 1) |-> Without(x, key, m)]
    OBVIOUS
  <2>2. \A m \in 1..(n + 1) : w[m] = Without(x, key, m) /\ w[m] \in View /\ Sound(w[m])
    BY <1>14, <2>1, WithoutView
  <2>3. w \in [1..(n + 1) -> View]
    BY <2>1, <2>2
  <2>4. w[1] = x
    <3>1. 1 \in 1..(n + 1) /\ 1..(1 - 1) = {}
      OBVIOUS
    <3>2. w[1] = [users |-> x.users, owner |-> x.owner, key |-> [a \in Addresses |-> x.key[a]],
                  kept |-> {a \in x.kept : TRUE}]
      BY <2>2, <3>1 DEF Without
    <3>3. /\ x.key = [a \in Addresses |-> x.key[a]] /\ x.kept = {a \in x.kept : TRUE}
          /\ x = [users |-> x.users, owner |-> x.owner, key |-> x.key, kept |-> x.kept]
      BY <1>14 DEF View
    <3> QED
      BY <3>2, <3>3
  <2>5. \A a \in Addresses :
          /\ device[a] = Absent => x.key[a] = Absent
          /\ device[a] # Absent =>
               /\ x.key[a] = device[a].key /\ x.owner[a] = device[a].owner
               /\ a \in x.kept \/ device[a].owner \in deleting
    BY <1>14 DEF Matches
  <2>6. ASSUME NEW m \in 1..n
        PROVE  Fits(w[m], hs[m]) /\ w[m + 1] = After(w[m], hs[m])
    <3>1. m \in 1..(n + 1) /\ m + 1 \in 1..(n + 1) /\ \A i \in 1..(m - 1) : i \in 1..n /\ i # m
      OBVIOUS
    <3>2. Removes(hs[m]) /\ ~Creates(hs[m]) /\ ~Rekeys(hs[m])
      BY <1>7, <1>9 DEF Removes, Creates, Rekeys
    <3>3. \A i \in 1..(m - 1) : key[i] # key[m]
      BY <1>2, <3>1
    <3>4. w[m].owner[key[m]] = x.owner[key[m]] /\ w[m].key[key[m]] = x.key[key[m]]
      <4>1. PICK y : y = w[m]
        OBVIOUS
      <4>2. /\ y.owner = x.owner
            /\ y.key = [a \in Addresses |->
                          IF \E i \in 1..(m - 1) : key[i] = a THEN Absent ELSE x.key[a]]
        <5>1. y = Without(x, key, m)
          BY <2>2, <3>1, <4>1
        <5> QED
          BY <5>1 DEF Without
      <4>3. y.key[key[m]] = x.key[key[m]]
        BY <1>5, <3>3, <4>2
      <4> QED
        BY <4>1, <4>2, <4>3
    <3>5. Fits(w[m], hs[m])
      BY <1>5, <1>7, <2>5, <3>2, <3>4 DEF Fits
    <3>6. key \in [1..n -> Addresses]
      BY <1>2, <1>5
    <3>7. After(Without(x, key, m), hs[m]) = Without(x, key, m + 1)
      <4>1. PICK h : h = hs[m]
        OBVIOUS
      <4>2. h.topic = "devices" /\ h.id = key[m] /\ Removes(h)
        BY <1>7, <3>2, <4>1
      <4>3. \A i, j \in 1..n : key[i] = key[j] => i = j
        BY <1>2
      <4>4. x \in View
        BY <1>14
      <4> QED
        BY <3>6, <4>1, <4>2, <4>3, <4>4, WithoutNext
    <3> QED
      BY <2>2, <3>1, <3>5, <3>7
  <2>7. Matches(w[n + 1])'
    <3>1. PICK y : y = w[n + 1]
      OBVIOUS
    <3>2. n + 1 \in 1..(n + 1) /\ (n + 1) - 1 = n
      OBVIOUS
    <3>3. /\ y.users = x.users /\ y.owner = x.owner
          /\ \A a \in Addresses :
               /\ y.key[a] = IF a \in Owned(u) THEN Absent ELSE x.key[a]
               /\ a \in y.kept <=> a \in x.kept /\ a \notin Owned(u)
      <4>1. \A a \in Addresses : a \in Owned(u) <=> \E i \in 1..n : key[i] = a
        BY <1>2, <1>5
      <4>2. y = Without(x, key, n + 1)
        BY <2>2, <3>1, <3>2
      <4> QED
        BY <3>2, <4>1, <4>2 DEF Without
    <3>4. \A v \in Users : v \in y.users <=> user'[v] # Absent
      BY <1>4, <1>14, <3>3 DEF Matches
    <3>5. ASSUME NEW a \in Addresses
          PROVE  /\ device'[a] = Absent => y.key[a] = Absent
                 /\ device'[a] # Absent =>
                      /\ y.key[a] = device'[a].key /\ y.owner[a] = device'[a].owner
                      /\ a \in y.kept \/ device'[a].owner \in deleting'
      <4>1. CASE a \in Owned(u)
        BY <1>4, <3>3, <4>1
      <4>2. CASE a \notin Owned(u)
        <5>1. device'[a] = device[a] /\ (device[a] # Absent => device[a].owner # u)
          BY <1>4, <4>2 DEF Owned
        <5> QED
          BY <1>4, <2>5, <3>3, <4>2, <5>1
      <4> QED
        BY <4>1, <4>2
    <3>6. Matches(y)'
      BY <3>4, <3>5 DEF Matches
    <3> QED
      BY <3>1, <3>6 DEF Matches
  <2> QED
    BY <1>8, <2>2, <2>3, <2>4, <2>6, <2>7 DEF Adding
<1> QED
  BY <1>1, <1>3, <1>8, <1>10, <1>11, <1>12, <1>13, <1>14, PublishedMirror

\* Nothing the mirror depends on changes.
LEMMA SameMirror ==
  ASSUME Mirror, UNCHANGED <<firewall, user, device, acl, deleting, pool, phase, granted>>
  PROVE  Mirror'
<1>1. OneByOne'
  BY DEF Mirror, OneByOne
<1>2. ASSUME NEW v, Follows(v) PROVE Follows(v)'
  <2>1. GoneFollow'
    BY <1>2 DEF Follows, GoneFollow, OfUser, Takes, firewall
  <2>2. AclsFollow'
    BY <1>2 DEF Follows, AclsFollow, Unsettled, Refreshes, User, Takes, OfUser, firewall
  <2>3. Story(v)'
    <3>1. Matches(v[Len(pool) + 1])'
      BY <1>2 DEF Follows, Story, Matches
    <3> QED
      BY <1>2, <3>1 DEF Follows, Story
  <2>4. Reflects(v[1])'
    BY <1>2 DEF Follows, Reflects, Forgotten, Remembered, Entire, Known, Tracked, firewall
  <2>5. LoginsFollow(v)'
    <3>1. LoginsFollow(v)
      BY <1>2 DEF Follows
    <3>2. \A a, u : Open(a, u)' <=> Open(a, u)
      BY DEF Open, Known, firewall
    <3>3. \A i, a : (Of(i, a)' <=> Of(i, a)) /\ (OfUser(i, a)' <=> OfUser(i, a))
      BY DEF Of, OfUser
    <3> QED
      BY <3>1, <3>2, <3>3 DEF LoginsFollow
  <2> QED
    BY <2>1, <2>2, <2>3, <2>4, <2>5 DEF Follows
<1> QED
  BY <1>1, <1>2 DEF Mirror

\* The writes of a user, its devices and its groups.
LEMMA UserWriteMirror ==
  ASSUME SyncTypes, Granted, KeysDiffer', Serial => Mirror, Serial', UserWrite
  PROVE  Mirror'
<1> SUFFICES ASSUME NEW u \in Users,
               \/ \E l \in BOOLEAN : SetUserLock(u, l)
               \/ \E m \in Mfas \cup {Unset} : SetUserMfa(u, m)
               \/ \E e \in BOOLEAN : SetEnforceMFA(u, e)
               \/ CreateUser(u) \/ DeleteUser(u) \/ DeleteDevices(u)
               \/ \E l \in Acls : SetUserGroupMembership(u, l)
             PROVE Mirror'
  BY DEF UserWrite, SyncTypes, EtcdOK
<1>1. user[u] # Absent => user[u] \in UserRecord
  BY DEF SyncTypes, EtcdOK
<1>2. ASSUME NEW l \in BOOLEAN, SetUserLock(u, l) PROVE Mirror'
  <2>1. user[u] # Absent => WithLock(user[u], l) \in UserRecord
    BY <1>1, UserWritten
  <2> QED
    BY <1>2, <2>1, WriteUserMirror DEF SetUserLock
<1>3. ASSUME NEW m \in Mfas \cup {Unset}, SetUserMfa(u, m) PROVE Mirror'
  <2>1. user[u] # Absent => WithMfa(user[u], m) \in UserRecord
    BY <1>1, UserWritten
  <2> QED
    BY <1>3, <2>1, WriteUserMirror DEF SetUserMfa
<1>4. ASSUME NEW e \in BOOLEAN, SetEnforceMFA(u, e) PROVE Mirror'
  <2>1. user[u] # Absent => WithEnforcing(user[u], e) \in UserRecord
    BY <1>1, UserWritten
  <2> QED
    BY <1>4, <2>1, WriteUserMirror DEF SetEnforceMFA
<1>5. ASSUME NEW l \in Acls, SetUserGroupMembership(u, l) PROVE Mirror'
  BY <1>5, ConfigWriteMirror
<1> QED
  BY <1>2, <1>3, <1>4, <1>5, CreateUserMirror, DeleteUserMirror, DeleteDevicesMirror

\* All writes.
LEMMA WriteMirror ==
  ASSUME SyncTypes, Granted, KeysDiffer', Serial => Mirror, Serial',
         UserWrite \/ DeviceWrite \/ ConfigWrite
  PROVE  Mirror'
<1>1. CASE DeviceWrite
  <2>1. PICK a \in Addresses :
          \/ \E u \in Users, k \in Keys : AddDevice(u, a, k)
          \/ DeleteDevice(a)
          \/ \E k \in Keys : UpdateDevicePublicKey(a, k)
          \/ IncrementAuthenticationAttempt(a)
          \/ \E n \in {0, Lockout + 1} : SetDeviceAuthenticationAttempts(a, n)
          \/ CheckAccountLock(a)
          \/ \E n \in Nodes :
               AuthoriseDevice(a, n) \/ \E e \in Endpoints : UpdateDeviceConnectionDetails(a, e, n)
          \/ DeauthenticateDevice(a)
    BY <1>1 DEF DeviceWrite
  <2>2. CASE CheckAccountLock(a)
    <3>1. UNCHANGED <<firewall, user, device, acl, deleting, pool, phase, order, missed, granted>>
      BY <2>2 DEF CheckAccountLock, router
    <3>2. Mirror
      BY <3>1 DEF Serial
    <3> QED
      BY <3>1, <3>2, SameMirror
  <2> QED
    BY <2>1, <2>2, AddDeviceMirror, DeleteDeviceMirror, DeviceWriteMirror
<1>2. CASE ConfigWrite
  BY <1>2, ConfigWriteMirror DEF ConfigWrite
<1> QED
  BY <1>1, <1>2, UserWriteMirror

-----------------------------------------------------------------------------
(***************************************************************************)
(* What holds however the handlers run.                                    *)
(***************************************************************************)

\* A write of one device leaves the keys different if that of the device is
\* its own or new.
LEMMA WrittenKeys ==
  ASSUME SyncTypes, KeysDiffer, NEW a \in Addresses, NEW new, device' = [device EXCEPT ![a] = new],
         new # Absent => \/ device[a] # Absent /\ new.key = device[a].key
                         \/ FreshKey(new.key)
  PROVE  KeysDiffer'
<1>1. device'[a] = new /\ \A b \in Addresses : b # a => device'[b] = device[b]
  BY DEF SyncTypes, EtcdOK
<1>2. \A b \in Addresses : b # a /\ device'[a] # Absent /\ device'[b] # Absent =>
        device'[a].key # device'[b].key
  BY <1>1 DEF KeysDiffer, FreshKey
<1>3. \A b, c \in Addresses : b # a /\ c # a /\ device'[b] # Absent /\ device'[c] # Absent
                              /\ device'[b].key = device'[c].key => b = c
  BY <1>1 DEF KeysDiffer
<1> QED
  BY <1>2, <1>3 DEF KeysDiffer

\* Keys are generated.
LEMMA DeviceWriteKeys ==
  ASSUME SyncTypes, KeysDiffer, DeviceWrite
  PROVE  KeysDiffer'
<1>1. PICK a \in Addresses :
        \/ \E u \in Users, k \in Keys : AddDevice(u, a, k)
        \/ DeleteDevice(a)
        \/ \E k \in Keys : UpdateDevicePublicKey(a, k)
        \/ IncrementAuthenticationAttempt(a)
        \/ \E n \in {0, Lockout + 1} : SetDeviceAuthenticationAttempts(a, n)
        \/ CheckAccountLock(a)
        \/ \E n \in Nodes :
             AuthoriseDevice(a, n) \/ \E e \in Endpoints : UpdateDeviceConnectionDetails(a, e, n)
        \/ DeauthenticateDevice(a)
  BY DEF DeviceWrite
<1>2. device[a] # Absent => device[a] \in DeviceRecord
  BY DeviceThere
<1>3. ASSUME NEW u \in Users, NEW k \in Keys, AddDevice(u, a, k) PROVE KeysDiffer'
  <2>1. device' = [device EXCEPT ![a] = NewDevice(u, k)] /\ FreshKey(k)
    BY <1>3 DEF AddDevice
  <2>2. NewDevice(u, k).key = k
    BY DEF NewDevice
  <2> QED
    BY <2>1, <2>2, WrittenKeys
<1>4. CASE DeleteDevice(a)
  <2>1. device' = [device EXCEPT ![a] = Absent]
    BY <1>4 DEF DeleteDevice
  <2> QED
    BY <2>1, WrittenKeys
<1>5. ASSUME NEW new, NEW again, WriteDevice(a, new, again),
             device[a] # Absent => new.key = device[a].key \/ FreshKey(new.key)
      PROVE  KeysDiffer'
  <2>1. device[a] # Absent /\ device' = [device EXCEPT ![a] = new]
    BY <1>5 DEF WriteDevice
  <2> QED
    BY <1>5, <2>1, WrittenKeys
<1>6. ASSUME NEW k \in Keys, UpdateDevicePublicKey(a, k) PROVE KeysDiffer'
  <2>1. WriteDevice(a, WithKey(device[a], k), FALSE) /\ FreshKey(k)
    BY <1>6 DEF UpdateDevicePublicKey
  <2>2. device[a] # Absent => WithKey(device[a], k).key = k
    BY <1>2, DeviceKept
  <2> QED
    BY <1>5, <2>1, <2>2
<1>7. ASSUME device[a] # Absent
      PROVE  /\ WithAttempt(device[a]).key = device[a].key
             /\ \A n : WithAttempts(device[a], n).key = device[a].key
             /\ \A n \in Nodes : WithAuthorisation(device[a], n).key = device[a].key
             /\ WithoutAuthorisation(device[a]).key = device[a].key
             /\ \A e, n : WithConnection(device[a], e, n).key = device[a].key
  <2>1. device[a] \in DeviceRecord
    BY <1>2, <1>7
  <2>2. WithAttempt(device[a]).key = device[a].key
    BY <2>1 DEF WithAttempt, DeviceRecord
  <2>3. \A n : WithAttempts(device[a], n).key = device[a].key
    BY <2>1 DEF WithAttempts, DeviceRecord
  <2>4. \A n \in Nodes : WithAuthorisation(device[a], n).key = device[a].key
    BY <2>1, DeviceKept
  <2>5. WithoutAuthorisation(device[a]).key = device[a].key
    BY <2>1 DEF WithoutAuthorisation, DeviceRecord
  <2>6. \A e, n : WithConnection(device[a], e, n).key = device[a].key
    BY <2>1 DEF WithConnection, DeviceRecord
  <2> QED
    BY <2>2, <2>3, <2>4, <2>5, <2>6
<1>8. CASE IncrementAuthenticationAttempt(a)
  BY <1>5, <1>7, <1>8 DEF IncrementAuthenticationAttempt
<1>9. ASSUME NEW n, SetDeviceAuthenticationAttempts(a, n) PROVE KeysDiffer'
  BY <1>5, <1>7, <1>9 DEF SetDeviceAuthenticationAttempts
<1>10. CASE CheckAccountLock(a)
  BY <1>10 DEF CheckAccountLock, KeysDiffer
<1>11. ASSUME NEW n \in Nodes, AuthoriseDevice(a, n) PROVE KeysDiffer'
  BY <1>5, <1>7, <1>11 DEF AuthoriseDevice
<1>12. ASSUME NEW n, NEW e, UpdateDeviceConnectionDetails(a, e, n) PROVE KeysDiffer'
  BY <1>5, <1>7, <1>12 DEF UpdateDeviceConnectionDetails
<1>13. CASE DeauthenticateDevice(a)
  BY <1>5, <1>7, <1>13 DEF DeauthenticateDevice
<1> QED
  BY <1>1, <1>3, <1>4, <1>6, <1>8, <1>9, <1>10, <1>11, <1>12, <1>13

\* A handler writes nothing to etcd and ends no login, unless the process ends.
LEMMA HandleLeaves ==
  ASSUME NEW i, Handle(i)
  PROVE  UNCHANGED etcd /\ (Crash \/ UNCHANGED <<granted, phase>>)
<1> USE DEF router
<1>1. ASSUME NEW todo, Continue(i, todo) PROVE UNCHANGED etcd /\ UNCHANGED phase
  BY <1>1 DEF Continue
<1>2. CASE HandleReadAcl(i)
  BY <1>2 DEF HandleReadAcl
<1>3. CASE HandleReplacePeer(i)
  BY <1>1, <1>3 DEF HandleReplacePeer, Proceed, Crash
<1>4. CASE ~HandleReadAcl(i) /\ ~HandleReplacePeer(i)
  <2>1. (\E todo : Continue(i, todo)) /\ UNCHANGED granted
    BY <1>4 DEF Handle, HandleAddPeer, HandleRemovePeer, HandleChallenge, HandleVerify,
       HandleCheckLockout, HandleDeauthenticate, HandleAssociate, HandleAuthorise, HandleAddUser,
       HandleRemoveUser, HandleLock, HandleDeauthenticateAll, HandleRefreshUser, HandleRefresh,
       HandleSetTimeout, Proceed, Fail, ProceedIf
  <2> QED
    BY <1>1, <2>1
<1> QED
  BY <1>2, <1>3, <1>4

\* No step makes two devices have the same key.
LEMMA NextKeys ==
  ASSUME SyncTypes, KeysDiffer, [Next]_vars
  PROVE  KeysDiffer'
<1>1. CASE UNCHANGED device
  BY <1>1 DEF KeysDiffer
<1>2. CASE UNCHANGED vars
  BY <1>1, <1>2 DEF vars
<1>3. CASE UserWrite
  <2>1. PICK u : \/ \E new, ends : WriteUser(u, new, ends)
                 \/ CreateUser(u) \/ DeleteUser(u) \/ DeleteDevices(u)
                 \/ \E l : SetUserGroupMembership(u, l)
    BY <1>3 DEF UserWrite, SetUserLock, SetUserMfa, SetEnforceMFA
  <2>2. CASE DeleteDevices(u)
    BY <2>2 DEF DeleteDevices, KeysDiffer
  <2> QED
    BY <1>1, <2>1, <2>2 DEF WriteUser, CreateUser, DeleteUser, SetUserGroupMembership
<1>4. CASE ConfigWrite
  BY <1>1, <1>4 DEF ConfigWrite, SetAcl, SetSessionInactivityTimeout, etcd
<1>5. ASSUME NEW i, Handle(i) PROVE KeysDiffer'
  BY <1>1, <1>5, HandleLeaves DEF etcd
<1>6. CASE Lifecycle
  BY <1>1, <1>6 DEF Lifecycle, GetInitialData, SetupRouter, RegisterEventListener, Restart,
     SessionLapse, Crash, etcd
<1> QED
  BY <1>2, <1>3, <1>4, <1>5, <1>6, DeviceWriteKeys DEF Next

\* A login stays granted where neither its device nor its account is written.
LEMMA GrantedKept ==
  ASSUME Granted, UNCHANGED phase,
         \A a \in Addresses : granted'[a] =>
           /\ granted[a] /\ device'[a] = device[a]
           /\ user'[device[a].owner] = user[device[a].owner]
  PROVE  Granted'
BY DEF Granted

\* The writes of a user end the logins of its devices.
LEMMA UserWriteGranted ==
  ASSUME SyncTypes, Granted, UserWrite
  PROVE  Granted'
<1> SUFFICES ASSUME NEW u \in Users,
               \/ \E l \in BOOLEAN : SetUserLock(u, l)
               \/ \E m \in Mfas \cup {Unset} : SetUserMfa(u, m)
               \/ \E e \in BOOLEAN : SetEnforceMFA(u, e)
               \/ CreateUser(u) \/ DeleteUser(u) \/ DeleteDevices(u)
               \/ \E l \in Acls : SetUserGroupMembership(u, l)
             PROVE Granted'
  BY DEF UserWrite, SyncTypes, EtcdOK
<1>1. ASSUME NEW a \in Addresses, granted[a]
      PROVE  device[a] # Absent /\ device[a].owner \in Users /\ user[device[a].owner] # Absent
  BY <1>1, DeviceThere DEF Granted, DeviceRecord
<1>2. ASSUME NEW topic, NEW hs, Publish(topic, hs) PROVE UNCHANGED phase
  BY <1>2 DEF Publish, router
<1>3. ASSUME NEW new, user' = [user EXCEPT ![u] = new]
      PROVE  \A w \in Users : w # u => user'[w] = user[w]
  BY <1>3 DEF SyncTypes, EtcdOK
<1>4. ASSUME granted' = Revoked(Owned(u)), NEW a \in Addresses, granted'[a]
      PROVE  granted[a] /\ a \notin Owned(u) /\ device[a].owner # u
  BY <1>1, <1>4 DEF Revoked, Owned
<1>5. ASSUME NEW new, WriteUser(u, new, TRUE) PROVE Granted'
  <2>1. /\ user' = [user EXCEPT ![u] = new] /\ UNCHANGED <<device, phase>>
        /\ granted' = Revoked(Owned(u))
    BY <1>2, <1>5 DEF WriteUser
  <2> QED
    BY <1>1, <1>3, <1>4, <2>1, GrantedKept
<1>6. CASE CreateUser(u)
  <2>1. /\ user[u] = Absent /\ user' = [user EXCEPT ![u] = NewUser]
        /\ UNCHANGED <<device, phase, granted>>
    BY <1>2, <1>6 DEF CreateUser
  <2> QED
    BY <1>1, <1>3, <2>1, GrantedKept
<1>7. CASE DeleteUser(u)
  <2>1. /\ user' = [user EXCEPT ![u] = Absent] /\ UNCHANGED <<device, phase>>
        /\ granted' = Revoked(Owned(u))
    BY <1>2, <1>7 DEF DeleteUser
  <2> QED
    BY <1>1, <1>3, <1>4, <2>1, GrantedKept
<1>8. CASE DeleteDevices(u)
  <2>1. /\ UNCHANGED <<user, phase>> /\ granted' = Revoked(Owned(u))
        /\ device' = [a \in Addresses |-> IF a \in Owned(u) THEN Absent ELSE device[a]]
    BY <1>2, <1>8 DEF DeleteDevices
  <2> QED
    BY <1>4, <2>1, GrantedKept
<1>9. ASSUME NEW l \in Acls, SetUserGroupMembership(u, l) PROVE Granted'
  <2>1. UNCHANGED <<user, device, granted, phase>>
    BY <1>2, <1>9 DEF SetUserGroupMembership
  <2> QED
    BY <2>1, GrantedKept
<1> QED
  BY <1>5, <1>6, <1>7, <1>8, <1>9 DEF SetUserLock, SetUserMfa, SetEnforceMFA

\* A login is granted to a device and an account that may have it.
LEMMA DeviceWriteGranted ==
  ASSUME SyncTypes, Granted, DeviceWrite
  PROVE  Granted'
<1>1. PICK a \in Addresses :
        \/ \E u \in Users, k \in Keys : AddDevice(u, a, k)
        \/ DeleteDevice(a)
        \/ \E k \in Keys : UpdateDevicePublicKey(a, k)
        \/ IncrementAuthenticationAttempt(a)
        \/ \E n \in {0, Lockout + 1} : SetDeviceAuthenticationAttempts(a, n)
        \/ CheckAccountLock(a)
        \/ \E n \in Nodes :
             AuthoriseDevice(a, n) \/ \E e \in Endpoints : UpdateDeviceConnectionDetails(a, e, n)
        \/ DeauthenticateDevice(a)
  BY DEF DeviceWrite
<1>2. device[a] # Absent => device[a] \in DeviceRecord
  BY DeviceThere
<1>3. ASSUME NEW topic, NEW hs, Publish(topic, hs) PROVE UNCHANGED phase
  BY <1>3 DEF Publish, router
<1>4. ASSUME NEW new, device' = [device EXCEPT ![a] = new]
      PROVE  device'[a] = new /\ \A b \in Addresses : b # a => device'[b] = device[b]
  BY <1>4 DEF SyncTypes, EtcdOK
<1>5. ASSUME granted' = Revoked({a})
      PROVE  ~granted'[a] /\ \A b \in Addresses : granted'[b] => granted[b]
  BY <1>5 DEF Revoked
<1>6. ASSUME NEW u \in Users, NEW k \in Keys, AddDevice(u, a, k) PROVE Granted'
  <2>1. /\ device[a] = Absent /\ device' = [device EXCEPT ![a] = NewDevice(u, k)]
        /\ UNCHANGED <<user, granted, phase>>
    BY <1>3, <1>6 DEF AddDevice
  <2>2. ~granted[a]
    BY <2>1 DEF Granted
  <2> QED
    BY <1>4, <2>1, <2>2, GrantedKept
<1>7. ASSUME NEW new, device' = [device EXCEPT ![a] = new], granted' = Revoked({a}),
             UNCHANGED <<user, phase>>
      PROVE  Granted'
  BY <1>4, <1>5, <1>7, GrantedKept
<1>8. CASE DeleteDevice(a)
  BY <1>3, <1>7, <1>8 DEF DeleteDevice
<1>9. ASSUME NEW new, NEW again, WriteDevice(a, new, again)
      PROVE  /\ device[a] # Absent /\ device' = [device EXCEPT ![a] = new]
             /\ UNCHANGED <<user, phase>>
  BY <1>3, <1>9 DEF WriteDevice
<1>10. ASSUME NEW k \in Keys, UpdateDevicePublicKey(a, k) PROVE Granted'
  <2>1. PICK new : new = WithKey(device[a], k)
    OBVIOUS
  <2>2. /\ device[a] # Absent /\ device' = [device EXCEPT ![a] = new]
        /\ UNCHANGED <<user, phase, granted>>
    BY <1>9, <1>10, <2>1 DEF UpdateDevicePublicKey
  <2>3. /\ new \in DeviceRecord /\ new.owner = device[a].owner
        /\ new.authorised = device[a].authorised /\ new.attempts = device[a].attempts
    BY <1>2, <2>1, <2>2, DeviceWritten, DeviceKept
  <2>4. new # Absent
    BY <2>3, AbsentAssumption
  <2> QED
    BY <1>4, <2>2, <2>3, <2>4 DEF Granted
<1>11. ASSUME NEW n \in Nodes, AuthoriseDevice(a, n) PROVE Granted'
  <2>1. PICK new : new = WithAuthorisation(device[a], n)
    OBVIOUS
  <2>2. /\ device[a] # Absent /\ device' = [device EXCEPT ![a] = new]
        /\ UNCHANGED <<user, phase>>
    BY <1>9, <1>11, <2>1 DEF AuthoriseDevice
  <2>3. /\ granted'[a] => /\ "devices" \in Registered
                          /\ user[device[a].owner] # Absent
                          /\ ~user[device[a].owner].locked
        /\ \A b \in Addresses : b # a => granted'[b] = granted[b]
    BY <1>11 DEF AuthoriseDevice, SyncTypes
  <2>4. "devices" \in Registered => phase = "up"
    BY DEF SyncTypes, RouterOK, Registered
  <2>5. /\ new \in DeviceRecord /\ new.owner = device[a].owner
        /\ new.authorised /\ new.attempts = 0 /\ 0 <= Lockout
    <3>1. device[a] \in DeviceRecord
      BY <1>2, <2>2
    <3>2. new \in DeviceRecord /\ new.owner = device[a].owner
      BY <2>1, <3>1, DeviceWritten
    <3>3. new.authorised /\ new.attempts = 0
      BY <2>1, <3>1 DEF WithAuthorisation, DeviceRecord
    <3> QED
      BY <3>2, <3>3, LockoutAssumption
  <2>6. new # Absent
    BY <2>5, AbsentAssumption
  <2>7. ASSUME NEW b \in Addresses, granted'[b], b # a
        PROVE  /\ phase' = "up"
               /\ device'[b] # Absent /\ device'[b].authorised /\ device'[b].attempts <= Lockout
               /\ user'[device'[b].owner] # Absent /\ ~user'[device'[b].owner].locked
    BY <1>4, <2>2, <2>3, <2>7 DEF Granted
  <2>8. ASSUME granted'[a]
        PROVE  /\ phase' = "up"
               /\ device'[a] # Absent /\ device'[a].authorised /\ device'[a].attempts <= Lockout
               /\ user'[device'[a].owner] # Absent /\ ~user'[device'[a].owner].locked
    BY <1>4, <2>2, <2>3, <2>4, <2>5, <2>6, <2>8
  <2> QED
    BY <2>7, <2>8 DEF Granted
<1>12. CASE CheckAccountLock(a)
  <2>1. UNCHANGED <<user, device, granted, phase>>
    BY <1>12 DEF CheckAccountLock, router
  <2> QED
    BY <2>1, GrantedKept
<1>13. CASE IncrementAuthenticationAttempt(a)
  BY <1>7, <1>9, <1>13 DEF IncrementAuthenticationAttempt
<1>14. ASSUME NEW n, SetDeviceAuthenticationAttempts(a, n) PROVE Granted'
  BY <1>7, <1>9, <1>14 DEF SetDeviceAuthenticationAttempts
<1>15. ASSUME NEW n, NEW e, UpdateDeviceConnectionDetails(a, e, n) PROVE Granted'
  BY <1>7, <1>9, <1>15 DEF UpdateDeviceConnectionDetails
<1>16. CASE DeauthenticateDevice(a)
  BY <1>7, <1>9, <1>16 DEF DeauthenticateDevice
<1> QED
  BY <1>1, <1>6, <1>8, <1>10, <1>11, <1>12, <1>13, <1>14, <1>15, <1>16

\* So it is after every step.
LEMMA NextGranted ==
  ASSUME SyncTypes, Granted, [Next]_vars
  PROVE  Granted'
<1>1. CASE UNCHANGED <<user, device, granted, phase>>
  BY <1>1, GrantedKept
<1>2. CASE UNCHANGED vars
  BY <1>1, <1>2 DEF vars
<1>3. CASE Crash
  BY <1>3 DEF Crash, Revoked, Granted
<1>4. CASE ConfigWrite
  BY <1>1, <1>4 DEF ConfigWrite, SetAcl, SetSessionInactivityTimeout, etcd, Publish, router
<1>5. ASSUME NEW i, Handle(i) PROVE Granted'
  BY <1>1, <1>3, <1>5, HandleLeaves DEF etcd
<1>6. CASE GetInitialData
  <2>1. phase = "down"
    BY <1>6 DEF GetInitialData
  <2>2. UNCHANGED granted
    BY <1>6 DEF GetInitialData
  <2> QED
    BY <2>1, <2>2 DEF Granted
<1>7. CASE SetupRouter
  <2>1. Crash \/ (phase = "read" /\ UNCHANGED granted)
    BY <1>7 DEF SetupRouter
  <2> QED
    BY <1>3, <2>1 DEF Granted
<1>8. CASE RegisterEventListener
  BY <1>1, <1>8 DEF RegisterEventListener, etcd
<1>9. ASSUME NEW a, NEW to, SessionLapse(a, to) PROVE Granted'
  <2>1. granted' = Revoked({a}) /\ UNCHANGED <<user, device, phase>>
    BY <1>9 DEF SessionLapse, etcd, router
  <2> QED
    BY <2>1, GrantedKept DEF Revoked
<1> QED
  BY <1>2, <1>3, <1>4, <1>5, <1>6, <1>7, <1>8, <1>9, UserWriteGranted, DeviceWriteGranted
  DEF Next, Lifecycle, Restart

-----------------------------------------------------------------------------
(***************************************************************************)
(* A router that has just been set up.                                     *)
(***************************************************************************)

\* It has been filled from what etcd has now, and no handler or login is there.
JustSetUp ==
  /\ EtcdOK /\ KeysDiffer /\ CanSetup(user, device) /\ SetUp(user, device, acl)
  /\ pool = <<>> /\ phase = "up" /\ \A a \in Addresses : ~granted[a]

\* What Setup enters for an address without a device.
LEMMA SetUpForgotten ==
  ASSUME JustSetUp, NEW a \in Addresses, device[a] = Absent
  PROVE  Forgotten(a)
<1> USE FirewallSentinels
<1>1. ~Known(a)
  BY DEF JustSetUp, SetUp, SetupXDP, Known
<1>2. ASSUME NEW k \in Keys PROVE peers[k] # a
  <2>1. PICK at : at = {b \in Addresses : device[b] # Absent /\ device[b].key = k}
    OBVIOUS
  <2>2. peers[k] = IF at = {} THEN Absent ELSE CHOOSE b \in at : TRUE
    BY <2>1 DEF JustSetUp, SetUp, SetupWireguard
  <2>3. at # {} => (CHOOSE b \in at : TRUE) \in at
    BY Zenon
  <2>4. a \notin at /\ a # Absent
    BY <2>1
  <2> QED
    BY <2>2, <2>3, <2>4
<1>3. ASSUME NEW u \in Users PROVE a \notin Tracked(u)
  <2>1. PICK owned : owned = {b \in Addresses : device[b] # Absent /\ device[b].owner = u}
    OBVIOUS
  <2>2. usersToAddresses[u] =
          IF owned = {} THEN Absent
          ELSE [b \in Addresses |-> IF b \in owned THEN device[b].key ELSE Absent]
    BY <2>1 DEF JustSetUp, SetUp, SetupWireguard
  <2>3. a \notin owned
    BY <2>1
  <2>4. owned = {} => usersToAddresses[u] = Absent
    BY <2>2
  <2>5. owned # {} => usersToAddresses[u][a] = Absent
    BY <2>2, <2>3
  <2> QED
    BY <2>4, <2>5 DEF Tracked
<1> QED
  BY <1>1, <1>2, <1>3 DEF Forgotten

\* What it enters for one that has a device.
LEMMA SetUpEntire ==
  ASSUME JustSetUp, NEW a \in Addresses, NEW d, d = device[a], d # Absent
  PROVE  Remembered(a, d.owner, d.key) /\ Entire(a, d.owner, d.key)
<1> USE FirewallSentinels
<1>1. d \in DeviceRecord
  BY DEF JustSetUp, EtcdOK
<1>2. d.owner \in Users /\ d.key \in Keys /\ d.node \in Nodes \cup {NoNode}
  BY <1>1 DEF DeviceRecord
<1>3. addressesToUsers[a] = d.owner
  BY DEF JustSetUp, SetUp, SetupWireguard
<1>4. Known(a) /\ xdpDevices[a].user = d.owner
  <2>1. PICK e : e = [user |-> d.owner, session |-> "none", node |-> d.node]
    OBVIOUS
  <2>2. e \in FwEntry /\ e.user = d.owner
    BY <1>2, <2>1 DEF FwEntry, SessionStates
  <2>3. xdpDevices[a] = e
    BY <2>1 DEF JustSetUp, SetUp, SetupXDP
  <2> QED
    BY <2>2, <2>3, EntryAssumption DEF Known
<1>5. ASSUME NEW j \in Keys
      PROVE  /\ peers[j] = a => j = d.key
             /\ j = d.key => peers[j] = a
  <2>1. PICK at : at = {b \in Addresses : device[b] # Absent /\ device[b].key = j}
    OBVIOUS
  <2>2. peers[j] = IF at = {} THEN Absent ELSE CHOOSE b \in at : TRUE
    BY <2>1 DEF JustSetUp, SetUp, SetupWireguard
  <2>3. at # {} => (CHOOSE b \in at : TRUE) \in at
    BY Zenon
  <2>4. a # Absent /\ (a \in at => j = d.key) /\ (j = d.key => a \in at)
    BY <2>1
  <2>5. ASSUME NEW b \in at, j = d.key PROVE b = a
    BY <2>1, <2>5 DEF JustSetUp, KeysDiffer
  <2> QED
    BY <2>2, <2>3, <2>4, <2>5
<1>6. ASSUME NEW w \in Users
      PROVE  /\ a \in Tracked(w) => w = d.owner /\ usersToAddresses[w][a] = d.key
             /\ w = d.owner => a \in Tracked(w) /\ usersToAddresses[w] # Absent
  <2>1. PICK owned : owned = {b \in Addresses : device[b] # Absent /\ device[b].owner = w}
    OBVIOUS
  <2>2. PICK m : m = [b \in Addresses |-> IF b \in owned THEN device[b].key ELSE Absent]
    OBVIOUS
  <2>3. usersToAddresses[w] = IF owned = {} THEN Absent ELSE m
    BY <2>1, <2>2 DEF JustSetUp, SetUp, SetupWireguard
  <2>4. a \in owned <=> w = d.owner
    BY <2>1
  <2>5. m \in [Addresses -> Keys \cup {Absent}]
    BY <2>1, <2>2 DEF JustSetUp, EtcdOK, DeviceRecord
  <2>6. m # Absent
    BY <2>5
  <2>7. m[a] = IF a \in owned THEN d.key ELSE Absent
    BY <2>2
  <2>8. d.key # Absent
    BY <1>2
  <2> QED
    BY <2>3, <2>4, <2>6, <2>7, <2>8 DEF Tracked
<1> QED
  BY <1>2, <1>3, <1>4, <1>5, <1>6 DEF Remembered, Entire

\* It has what etcd has.
LEMMA SetUpMirror == JustSetUp => Mirror
<1> SUFFICES ASSUME JustSetUp PROVE Mirror
  OBVIOUS
<1> USE FirewallSentinels
<1>1. DOMAIN pool = {} /\ Len(pool) = 0
  BY DEF JustSetUp
<1>2. PICK x : x = [users |-> {u \in Users : user[u] # Absent},
                    owner |-> [a \in Addresses |->
                                 IF device[a] = Absent THEN Absent ELSE device[a].owner],
                    key |-> [a \in Addresses |->
                               IF device[a] = Absent THEN Absent ELSE device[a].key],
                    kept |-> {a \in Addresses : device[a] # Absent}]
  OBVIOUS
<1>3. /\ \A u \in Users : u \in x.users <=> user[u] # Absent
      /\ x.users \in SUBSET Users
  BY <1>2
<1>4. ASSUME NEW a \in Addresses
      PROVE  /\ device[a] = Absent => x.key[a] = Absent /\ x.owner[a] = Absent
             /\ device[a] # Absent => x.key[a] = device[a].key /\ x.owner[a] = device[a].owner
             /\ a \in x.kept <=> device[a] # Absent
  BY <1>2
<1>5. ASSUME NEW a \in Addresses, device[a] # Absent
      PROVE  /\ device[a].owner \in Users /\ device[a].key \in Keys
             /\ user[device[a].owner] # Absent /\ device[a].key # Absent
  <2>1. device[a].owner \in Users /\ device[a].key \in Keys
    BY <1>5 DEF JustSetUp, EtcdOK, DeviceRecord
  <2>2. user[device[a].owner] # Absent
    BY <1>5 DEF JustSetUp, CanSetup
  <2> QED
    BY <2>1, <2>2
<1>6. x \in View
  <2>1. x.owner \in [Addresses -> Users \cup {Absent}]
    BY <1>2, <1>5
  <2>2. x.key \in [Addresses -> Keys \cup {Absent}]
    BY <1>2, <1>5
  <2>3. x.users \in SUBSET Users /\ x.kept \in SUBSET Addresses
    BY <1>2
  <2> QED
    BY <1>2, <2>1, <2>2, <2>3 DEF View
<1>7. Sound(x)
  <2>1. ASSUME NEW a \in Addresses, NEW b \in Addresses, x.key[a] = x.key[b], x.key[a] # Absent
        PROVE  a = b
    BY <1>4, <2>1 DEF JustSetUp, KeysDiffer
  <2>2. ASSUME NEW a \in x.kept PROVE x.key[a] # Absent /\ x.owner[a] \in x.users
    <3>1. a \in Addresses /\ device[a] # Absent
      BY <1>2
    <3> QED
      BY <1>3, <1>4, <1>5, <3>1
  <2> QED
    BY <2>1, <2>2 DEF Sound
<1>8. Matches(x)
  BY <1>3, <1>4 DEF Matches
<1>9. Reflects(x)
  <2>1. ASSUME NEW u \in x.users PROVE accountLocked[u] # Absent
    <3>1. u \in Users /\ user[u] # Absent
      BY <1>3
    <3>2. accountLocked[u] = user[u].locked
      BY <3>1 DEF JustSetUp, SetUp, SetupXDP
    <3>3. user[u].locked \in BOOLEAN
      BY <3>1 DEF JustSetUp, EtcdOK, UserRecord
    <3> QED
      BY <3>2, <3>3
  <2>2. ASSUME NEW a \in Addresses, device[a] = Absent
        PROVE  Forgotten(a) /\ x.key[a] = Absent /\ a \notin x.kept
    BY <1>4, <2>2, SetUpForgotten
  <2>3. ASSUME NEW a \in Addresses, device[a] # Absent
        PROVE  /\ Remembered(a, x.owner[a], x.key[a]) /\ Entire(a, x.owner[a], x.key[a])
               /\ x.key[a] # Absent
    <3>1. PICK d : d = device[a]
      OBVIOUS
    <3>2. Remembered(a, d.owner, d.key) /\ Entire(a, d.owner, d.key)
      BY <2>3, <3>1, SetUpEntire
    <3>3. x.owner[a] = d.owner /\ x.key[a] = d.key /\ d.key # Absent
      BY <1>4, <1>5, <2>3, <3>1
    <3> QED
      BY <3>2, <3>3
  <2> QED
    BY <2>1, <2>2, <2>3 DEF Reflects
<1>10. PICK v : v = [p \in 1..1 |-> x]
  OBVIOUS
<1>11. v \in [1..1 -> View] /\ v[1] = x
  BY <1>6, <1>10
<1>12. Story(v)
  BY <1>1, <1>7, <1>8, <1>11 DEF Story
<1>13. GoneFollow
  <2>1. \A u \in Users : user[u] = Absent => accountLocked[u] = Absent
    BY DEF JustSetUp, SetUp, SetupXDP
  <2> QED
    BY <1>1, <2>1 DEF GoneFollow
<1>14. AclsFollow
  <2>1. \A u \in Users : user[u] # Absent => policies[u] = acl[u]
    BY DEF JustSetUp, SetUp, SetupXDP
  <2> QED
    BY <1>1, <2>1 DEF AclsFollow
<1>15. LoginsFollow(v)
  BY DEF JustSetUp, LoginsFollow
<1>16. OneByOne
  BY <1>1 DEF OneByOne
<1> QED
  BY <1>9, <1>11, <1>12, <1>13, <1>14, <1>15, <1>16 DEF Mirror, Follows

\* So it is after the step that sets it up.
LEMMA SetUpMirrorNext == JustSetUp' => Mirror'
BY SetUpMirror, PTL

-----------------------------------------------------------------------------
(***************************************************************************)
(* The router's own life.                                                  *)
(***************************************************************************)

\* The router is set up from the snapshot, which is what etcd still has where
\* no change was missed.
LEMMA SetupMirror ==
  ASSUME SessionsInv, KeysDiffer, Granted, SetupRouter, ~Crash, Serial'
  PROVE  Mirror'
<1>1. /\ phase = "read" /\ phase' = "up"
      /\ Setup(snapshot.users, snapshot.devices, acl)
      /\ UNCHANGED <<etcd, pool, order, missed, granted>>
  BY DEF SetupRouter
<1>2. InOrder
  BY <1>1 DEF Serial, InOrder
<1>3. snapshot.users = user
  BY <1>1, <1>2 DEF SessionsInv, Locks, LocksHold, CurrentUsers
<1>4. snapshot.devices = device
  BY <1>1, <1>2 DEF SessionsInv, Chain, Current
<1>5. EtcdOK /\ pool = <<>>
  BY <1>1 DEF SessionsInv, SyncTypes, RouterOK
<1>6. UNCHANGED <<user, device, acl, population, deleting, logins>>
  BY <1>1 DEF etcd
<1>7. EtcdOK' /\ KeysDiffer'
  BY <1>5, <1>6 DEF EtcdOK, KeysDiffer
<1>8. Setup(user, device, acl)
  BY <1>1, <1>3, <1>4
<1>9. CanSetup(user, device)' /\ SetUp(user, device, acl)'
  BY <1>6, <1>8 DEF Setup, SetUp, CanSetup
<1>10. \A a \in Addresses : ~granted'[a]
  BY <1>1 DEF Granted
<1> QED
  BY <1>1, <1>5, <1>7, <1>9, <1>10, SetUpMirrorNext DEF JustSetUp

\* A session that lapses is no longer that of a login.
LEMMA LapseMirror ==
  ASSUME SyncTypes, Granted, Mirror, NEW c \in Addresses, NEW to \in SessionStates,
         SessionLapse(c, to)
  PROVE  Mirror'
<1>1. /\ Known(c) /\ xdpDevices' = [xdpDevices EXCEPT ![c].session = to]
      /\ UNCHANGED <<accountLocked, policies, peers, usersToAddresses, addressesToUsers>>
      /\ UNCHANGED <<user, device, acl, deleting, pool, phase>> /\ granted' = Revoked({c})
  BY DEF SessionLapse, Lapse, etcd, router
<1>2. FirewallTypeOK
  BY DEF SyncTypes, RouterOK
<1>3. PICK e : e = [xdpDevices[c] EXCEPT !.session = to]
  OBVIOUS
<1>4. e \in FwEntry /\ e.user = xdpDevices[c].user
  BY <1>1, <1>2, <1>3, EntryLemma
<1>5. xdpDevices' = [xdpDevices EXCEPT ![c] = e]
  BY <1>1, <1>3
<1>6. xdpDevices'[c] = e /\ \A b \in Addresses : b # c => xdpDevices'[b] = xdpDevices[b]
  BY <1>2, <1>5 DEF FirewallTypeOK
<1>7. \A b \in Addresses : Known(b)' <=> Known(b)
  BY <1>1, <1>4, <1>6, EntryAssumption DEF Known
<1>8. \A b \in Addresses : xdpDevices'[b].user = xdpDevices[b].user
  BY <1>4, <1>6
<1>9. OneByOne'
  BY <1>1 DEF Mirror, OneByOne
<1>10. ASSUME NEW v, Follows(v) PROVE Follows(v)'
  <2>1. GoneFollow'
    BY <1>1, <1>10 DEF Follows, GoneFollow, OfUser, Takes
  <2>2. AclsFollow'
    BY <1>1, <1>10 DEF Follows, AclsFollow, Unsettled, Refreshes, User, Takes, OfUser
  <2>3. Story(v)'
    <3>1. Matches(v[Len(pool) + 1])'
      BY <1>1, <1>10 DEF Follows, Story, Matches
    <3> QED
      BY <1>1, <1>10, <3>1 DEF Follows, Story
  <2>4. Reflects(v[1])'
    <3>1. PICK l \in Nat : l = Len(pool)
      BY DEF SyncTypes, HandlersOK, PoolOK
    <3>2. 1 \in 1..(l + 1)
      OBVIOUS
    <3>3. PICK x \in View : x = v[1] /\ Sound(x) /\ Reflects(x)
      BY <1>10, <3>1, <3>2 DEF Follows, Story
    <3>4. Reflects(x)'
      BY <1>1, <1>7, <1>8, <3>3, ReflectsKept
    <3> QED
      BY <3>3, <3>4
  <2>5. LoginsFollow(v)'
    <3>1. LoginsFollow(v)
      BY <1>10 DEF Follows
    <3>2. \A a \in Addresses : granted'[a] => granted[a] /\ a # c
      BY <1>1 DEF Revoked
    <3>3. \A u : \A a \in Addresses : a # c => (Open(a, u)' <=> Open(a, u))
      BY <1>1, <1>6, <1>7 DEF Open
    <3>4. \A i, a : (Of(i, a)' <=> Of(i, a)) /\ (OfUser(i, a)' <=> OfUser(i, a))
      BY <1>1 DEF Of, OfUser
    <3> QED
      BY <1>1, <3>1, <3>2, <3>3, <3>4 DEF LoginsFollow
  <2> QED
    BY <2>1, <2>2, <2>3, <2>4, <2>5 DEF Follows
<1> QED
  BY <1>1, <1>9, <1>10 DEF Mirror

\* The router starts, listens, ends, and time passes.
LEMMA LifecycleMirror ==
  ASSUME SessionsInv, KeysDiffer, Granted, Serial => Mirror, Lifecycle, Serial', [Next]_vars
  PROVE  Mirror'
<1>1. CASE Crash
  BY <1>1, CrashMirror
<1>2. CASE GetInitialData
  <2>1. phase = "down" /\ phase' = "read" /\ UNCHANGED pool
    BY <1>2 DEF GetInitialData
  <2>2. DOMAIN pool' = {}
    BY <2>1 DEF SessionsInv, SyncTypes, RouterOK
  <2> QED
    BY <2>1, <2>2 DEF Mirror, OneByOne
<1>3. CASE RegisterEventListener
  <2>1. UNCHANGED <<firewall, user, device, acl, deleting, pool, phase, order, missed, granted>>
    BY <1>3 DEF RegisterEventListener, etcd
  <2>2. Mirror
    BY <2>1 DEF Serial
  <2> QED
    BY <2>1, <2>2, SameMirror
<1>4. ASSUME NEW a \in Addresses, NEW to \in SessionStates, SessionLapse(a, to) PROVE Mirror'
  <2>1. UNCHANGED <<order, missed>>
    BY <1>4 DEF SessionLapse
  <2>2. Mirror
    BY <2>1 DEF Serial
  <2> QED
    BY <1>4, <2>2, LapseMirror DEF SessionsInv
<1> QED
  BY <1>1, <1>2, <1>3, <1>4, SetupMirror DEF Lifecycle, Restart

\* It holds of a router that has caught up.
LEMMA InitMirror == Init => MirrorInv
<1> SUFFICES ASSUME Init PROVE MirrorInv
  OBVIOUS
<1>1. PICK u \in Users, m \in Mfas, a \in Addresses, k \in Keys, l \in Acls :
        /\ workload \in Workloads
        /\ population = IF "others" \in workload THEN Users ELSE {u}
        /\ user = [x \in Users |-> IF x \in population
                                   THEN WithEnforcing(WithMfa(NewUser, m), TRUE) ELSE Absent]
        /\ device = [x \in Addresses |-> IF x = a THEN NewDevice(u, k) ELSE Absent]
        /\ acl = [x \in Users |-> l]
        /\ deleting = {}
        /\ logins = {}
        /\ SetUp(user, device, acl)
        /\ pool = <<>>
        /\ phase = "up"
        /\ snapshot = Absent
        /\ listening = Len(Topics)
        /\ order = "serial"
        /\ missed = FALSE
        /\ granted = [x \in Addresses |-> FALSE]
  BY DEF Init
<1>2. EtcdOK
  BY InitTypes DEF SyncTypes
<1>3. CanSetup(user, device)
  <2>1. u \in population
    BY <1>1
  <2>2. WithEnforcing(WithMfa(NewUser, m), TRUE) \in UserRecord
    BY DEF UserRecord, NewUser, WithMfa, WithEnforcing
  <2>3. user[u] # Absent
    BY <1>1, <2>1, <2>2, AbsentAssumption
  <2>4. NewDevice(u, k).owner = u
    BY DEF NewDevice
  <2> QED
    BY <1>1, <2>3, <2>4 DEF CanSetup
<1>4. KeysDiffer
  BY <1>1 DEF KeysDiffer
<1>5. Granted
  BY <1>1 DEF Granted
<1>6. JustSetUp
  BY <1>1, <1>2, <1>3, <1>4 DEF JustSetUp
<1> QED
  BY <1>4, <1>5, <1>6, SetUpMirror, InitSessions DEF MirrorInv

\* Every step keeps it.
LEMMA NextMirror == MirrorInv /\ [Next]_vars => MirrorInv'
<1> SUFFICES ASSUME MirrorInv, [Next]_vars PROVE MirrorInv'
  OBVIOUS
<1>1. SessionsInv /\ KeysDiffer /\ Granted /\ SyncTypes /\ (Serial => Mirror)
  BY DEF MirrorInv, SessionsInv
<1>2. SessionsInv'
  BY <1>1, NextSessions
<1>3. KeysDiffer' /\ Granted'
  BY <1>1, NextKeys, NextGranted
<1>4. ASSUME Serial' PROVE Mirror'
  <2>1. CASE UNCHANGED vars
    <3>1. UNCHANGED <<firewall, user, device, acl, deleting, pool, phase, order, missed, granted>>
      BY <2>1 DEF vars
    <3>2. Mirror
      BY <1>1, <1>4, <3>1 DEF Serial
    <3> QED
      BY <3>1, <3>2, SameMirror
  <2>2. CASE UserWrite \/ DeviceWrite \/ ConfigWrite
    BY <1>1, <1>3, <1>4, <2>2, WriteMirror
  <2>3. ASSUME NEW i \in DOMAIN pool, Handle(i) PROVE Mirror'
    BY <1>1, <1>4, <2>3, HandleMirror
  <2>4. CASE Lifecycle
    BY <1>1, <1>4, <2>4, LifecycleMirror
  <2> QED
    BY <2>1, <2>2, <2>3, <2>4 DEF Next
<1> QED
  BY <1>2, <1>3, <1>4 DEF MirrorInv

-----------------------------------------------------------------------------
(***************************************************************************)
(* What the router has of etcd.                                            *)
(***************************************************************************)

\* Without handlers the router has what etcd has now.
LEMMA CaughtUp ==
  ASSUME MirrorInv, Settled, Serial
  PROVE  \E v : /\ GoneFollow /\ AclsFollow /\ LoginsFollow(v)
                /\ Matches(v[1]) /\ Reflects(v[1])
<1>1. Mirror /\ phase = "up" /\ Len(pool) = 0
  BY DEF MirrorInv, Settled
<1>2. PICK v : Follows(v)
  BY <1>1 DEF Mirror
<1>3. Matches(v[1])
  <2>1. Len(pool) + 1 = 1
    BY <1>1
  <2> QED
    BY <1>2, <2>1 DEF Follows, Story
<1> QED
  BY <1>2, <1>3 DEF Follows

LEMMA MirrorsWhereFollowed == MirrorInv => MirrorsEtcd
<1> SUFFICES ASSUME MirrorInv, Settled, Serial PROVE MirrorsEtcd
  BY DEF MirrorsEtcd
<1>1. PICK v : AclsFollow /\ Matches(v[1]) /\ Reflects(v[1])
  BY CaughtUp
<1>2. PICK x : x = v[1]
  OBVIOUS
<1>3. DOMAIN pool = {} /\ InOrder /\ SyncTypes
  BY DEF Settled, Serial, InOrder, MirrorInv, SessionsInv
<1>4. ASSUME NEW a \in Addresses, device[a] = Absent
      PROVE  ~Known(a) /\ \A k \in Keys : peers[k] # a
  BY <1>1, <1>2, <1>4 DEF Matches, Reflects, Forgotten
<1>5. ASSUME NEW a \in Addresses, NEW d, d = device[a], d # Absent, d.owner \notin deleting
      PROVE  /\ Known(a) /\ xdpDevices[a].user = d.owner /\ peers[d.key] = a
             /\ usersToAddresses[d.owner][a] = d.key
  <2>1. x.key[a] = d.key /\ x.owner[a] = d.owner /\ a \in x.kept
    BY <1>1, <1>2, <1>5 DEF Matches
  <2>2. d.key # Absent
    BY <1>3, <1>5, DeviceThere, FirewallSentinels DEF DeviceRecord
  <2>3. Remembered(a, d.owner, d.key) /\ Entire(a, d.owner, d.key)
    BY <1>1, <1>2, <2>1, <2>2 DEF Reflects
  <2> QED
    BY <2>3 DEF Remembered, Entire
<1>6. ASSUME NEW u \in Users
      PROVE  IF user[u] = Absent THEN accountLocked[u] = Absent
             ELSE accountLocked[u] = user[u].locked /\ policies[u] = acl[u]
  <2>1. accountLocked[u] = Lock(u)
    BY <1>3, MirroredWhereFollowed DEF LocksMirrored, MirrorInv
  <2>2. user[u] # Absent => user[u].locked \in BOOLEAN
    BY <1>3 DEF SyncTypes, EtcdOK, UserRecord
  <2>3. ~Unsettled(u)
    BY <1>3 DEF Unsettled
  <2>4. user[u] # Absent => accountLocked[u] # Absent
    BY <2>1, <2>2, FirewallSentinels DEF Lock
  <2>5. user[u] # Absent => policies[u] = acl[u]
    BY <1>1, <2>3, <2>4 DEF AclsFollow
  <2> QED
    BY <2>1, <2>5 DEF Lock
<1>7. ASSUME NEW a \in Addresses
      PROVE  LET d == device[a] IN
             IF d = Absent THEN ~Known(a) /\ \A k \in Keys : peers[k] # a
             ELSE \/ d.owner \in deleting
                  \/ /\ Known(a)
                     /\ xdpDevices[a].user = d.owner
                     /\ peers[d.key] = a
                     /\ usersToAddresses[d.owner][a] = d.key
  BY <1>4, <1>5
<1> QED
  BY <1>6, <1>7 DEF MirrorsEtcd

\* The first handler finds what the view before its write has.
LEMMA FindsWhereFollowed == MirrorInv => ReplaceFindsMap
<1> SUFFICES ASSUME MirrorInv, Serial, 1 \in DOMAIN pool, Calls(1, "replacePeer")
             PROVE  ~ReplacePanics(pool[1].cur.owner)
  BY DEF ReplaceFindsMap
<1>1. SyncTypes /\ Mirror /\ FirewallTypeOK
  BY DEF MirrorInv, SessionsInv, SyncTypes, RouterOK
<1>2. phase = "up"
  BY <1>1 DEF SyncTypes, RouterOK
<1>3. PICK v : Follows(v)
  BY <1>1, <1>2 DEF Mirror
<1>4. PICK h : h = pool[1]
  OBVIOUS
<1>5. Fits(v[1], h) /\ Reflects(v[1]) /\ HandlerOK(h)
  BY <1>1, <1>3, <1>4, FirstView
<1>6. Head(h.todo) = "replacePeer"
  BY <1>4 DEF Calls
<1>7. /\ h.topic = "devices" /\ h.id \in Addresses /\ Changes(h)
      /\ h.todo \in Seq(Steps) /\ h.todo # <<>>
  BY <1>1, <1>4, <1>5, <1>6, DeviceCall DEF ChangeCalls, HandlerOK, HandlerRecord
<1>8. h.todo \in Seq(ChangeCalls) /\ h.old \in Keys /\ ~Creates(h)
  BY <1>7, ChangeCallsKeep DEF Changes
<1>9. Rekeys(h)
  BY <1>6, <1>7, <1>8, HasTail DEF Rekeys
<1>10. v[1].key[h.id] = h.old /\ v[1].owner[h.id] = h.cur.owner /\ h.old # Absent
  BY <1>5, <1>7, <1>8, <1>9, FirewallSentinels DEF Fits
<1>11. Remembered(h.id, h.cur.owner, h.old)
  BY <1>5, <1>7, <1>10 DEF Reflects
<1> QED
  BY <1>4, <1>11 DEF Remembered, ReplacePanics

\* Without handlers a login that nothing has ended has been given.
LEMMA LoginsWhereFollowed == MirrorInv => LoginsTakeEffect
<1> SUFFICES ASSUME MirrorInv, Settled, Serial, NEW a \in Addresses, granted[a],
                    device[a].owner \notin deleting
             PROVE  IsAuthed(a)
  BY DEF LoginsTakeEffect
<1>1. PICK v : LoginsFollow(v)
  BY CaughtUp
<1>2. DOMAIN pool = {} /\ 0..Len(pool) = {0}
  BY DEF Settled
<1>3. Open(a, device[a].owner)
  BY <1>1, <1>2 DEF LoginsFollow
<1> QED
  BY <1>3 DEF Open, IsAuthed

\* What setupXDP, setupWireguard, AddPeer, RemovePeer, ReplacePeer, AddUser,
\* RemoveUser and the refreshes make of the router together, whatever is written
\* and whenever it restarts: with handlers one after the other, a node that has
\* caught up has exactly the peers, users, locks and access lists etcd has.
THEOREM MirrorTheorem == Spec => []MirrorsEtcd
BY InitMirror, NextMirror, MirrorsWhereFollowed, PTL DEF Spec

\* The handler of a new key never writes into the nil map of a user without
\* devices, which would end the process: AddPeer or Setup has made the map.
THEOREM ReplaceTheorem == Spec => []ReplaceFindsMap
BY InitMirror, NextMirror, FindsWhereFollowed, PTL DEF Spec

\* A login AuthoriseDevice has committed, and no write or timeout has ended
\* since, has its session in the maps of a node that has caught up: no handler
\* of an earlier change, a refresh or a lock among them, takes it back.
THEOREM LoginsTheorem == Spec => []LoginsTakeEffect
BY InitMirror, NextMirror, LoginsWhereFollowed, PTL DEF Spec

=============================================================================
