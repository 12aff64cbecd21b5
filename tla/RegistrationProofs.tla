-------------------------- MODULE RegistrationProofs --------------------------
(***************************************************************************)
(* For any subnet, users, tokens and number of registrations at once:      *)
(* tokens are used no more often than they allow, but for those who are    *)
(* at them together, and addresses lead to the devices that have them.     *)
(***************************************************************************)
EXTENDS Registration, FiniteSetTheorems, TLAPS

\* The steps of registerDevice that know whom the device is for.
Registering ==
  {"membership", "findUser", "createUser", "lease", "search", "assign", "reply", "finalise"}

\* What a request is, according to its step.
Typed(q) ==
  /\ q \in RequestRecord
  /\ q.step \in Registering => q.user \in Users /\ q.token \in Tokens
  /\ q.step = "deleteToken" => q.token \in Tokens
  /\ q.step = "search" => q.addr \in Addresses /\ q.start \in Addresses
  /\ q.step \in {"assign", "reply", "finalise"} => q.addr \in Addresses \ {Server}
  /\ q.step \in {"find", "remove"} => q.addr \in Addresses
  /\ q.step = "remove" => q.user \in Users
  /\ q.leased => q.step \in {"search", "assign"}

RequestsTyped == \A r \in Requests : Typed(requests[r])

TypeInv == TypeOK /\ RequestsTyped

\* The requests that have used a token up and are about to delete it.
DeletingOf(t) == {r \in Requests : requests[r].step = "deleteToken" /\ requests[r].token = t}

\* As long as a token is there every use accepted is one taken off it, or the
\* last one, of a request that has yet to delete the token.
UsesCounted ==
  \A t \in Tokens : token[t] # Absent =>
    accepted[t] + Granted(token[t].uses) <= granted[t] + Cardinality(DeletingOf(t))

\* A request that has seen its user has one, or one that was deleted since.
UsersKnown ==
  \A r \in Requests : requests[r].step \in {"lease", "search", "assign"} =>
    requests[r].user \in user \cup outlived

\* Who may assign an address, with the lease for it, is alone in that, and the
\* address is held and nobody's.
Assigning(r) == requests[r].step = "assign" /\ requests[r].leased

HoldersAlone ==
  \A r \in Requests : Assigning(r) =>
    /\ requests[r].addr \in hold
    /\ requests[r].addr \in contested \/ ref[requests[r].addr] = Absent
    /\ \A s \in Requests \ {r} : Assigning(s) => requests[s].addr # requests[r].addr

\* Who removes a device removes the only one of its address.
RemovesOnly ==
  \A r \in Requests, u \in Users :
    /\ requests[r].step = "remove" /\ requests[r].addr \notin contested
    /\ <<u, requests[r].addr>> \in device
    => u = requests[r].user

\* Request r will accept device <<u, a>> or remove it.
SeesTo(r, u, a) ==
  /\ requests[r].addr = a
  /\ \/ requests[r].step \in {"reply", "finalise"} /\ requests[r].user = u
     \/ requests[r].step \in {"find", "remove"}

\* The devices registrations have come to an end with.
settled == kept \cup left

\* Every device is one of those or some request sees to it.
DevicesSeenTo ==
  \A u \in Users, a \in Addresses :
    <<u, a>> \in device /\ a \notin contested /\ <<u, a>> \notin settled
    => \E r \in Requests : SeesTo(r, u, a)

TokenInv == UsesCounted /\ TokenUsesBounded

UserInv == UsersKnown /\ DevicesHaveUsers

AddressInv == HoldersAlone /\ RemovesOnly /\ AddressLeadsToDevice /\ DevicesSeenTo

-----------------------------------------------------------------------------
(***************************************************************************)
(* Types.                                                                  *)
(***************************************************************************)

\* The first address is one of the subnet, and so is the one after the
\* server's.
LEMMA SubnetFacts ==
  /\ 1 \in Addresses /\ Server \in Addresses /\ Server + 1 \in Addresses \ {Server}
  /\ \A a \in Addresses : a \in Int /\ a \in 0..Last
  /\ \A a \in Addresses : a < Last => a + 1 \in Addresses
BY SubnetAssumption DEF Addresses

\* A request that has ended is one.
LEMMA IdleTyped == Typed(Idle) /\ Idle.step = "idle" /\ Idle.leased = FALSE
BY SubnetAssumption DEF Typed, Idle, RequestRecord, Steps, Registering

\* A request that begins to remove a device.
LEMMA RemovingTyped ==
  ASSUME NEW a \in Addresses
  PROVE  LET q == [Idle EXCEPT !.step = "find", !.addr = a] IN
         Typed(q) /\ q.step = "find" /\ q.addr = a /\ q.leased = FALSE
<1>1. a \in 0..Last /\ 0 \in 0..Last
  BY SubnetFacts, SubnetAssumption
<1> QED
  BY <1>1 DEF Idle, RequestRecord, Steps, Typed, Registering

\* A request that starts, with a token and its user.
LEMMA StartedTyped ==
  ASSUME NEW step \in {"membership", "findUser"}, NEW t \in Tokens, NEW u \in Users
  PROVE  LET q == [Idle EXCEPT !.step = step, !.token = t, !.user = u] IN
         Typed(q) /\ q.step = step /\ q.addr = 0 /\ q.leased = FALSE
<1>1. 0 \in 0..Last /\ step \in Steps
  BY SubnetAssumption DEF Steps
<1> QED
  BY <1>1 DEF Idle, RequestRecord, Typed, Registering

\* A request that has a token to delete.
LEMMA SpendingTyped ==
  ASSUME NEW t \in Tokens
  PROVE  LET q == [Idle EXCEPT !.step = "deleteToken", !.token = t] IN
         Typed(q) /\ q.step = "deleteToken" /\ q.token = t /\ q.leased = FALSE
<1>1. 0 \in 0..Last
  BY SubnetAssumption
<1> QED
  BY <1>1 DEF Idle, RequestRecord, Steps, Typed, Registering

\* A request that moves on, and keeps what it knows.
LEMMA MovedTyped ==
  ASSUME NEW q, Typed(q), ~q.leased, NEW step \in Steps,
         \/ q.step \in {"membership", "findUser", "createUser"}
            /\ step \in {"findUser", "createUser", "lease"}
         \/ q.step = "reply" /\ step = "finalise"
  PROVE  LET p == [q EXCEPT !.step = step] IN
         /\ Typed(p) /\ p.step = step /\ p.leased = FALSE
         /\ p.addr = q.addr /\ p.user = q.user /\ p.token = q.token
BY DEF Typed, RequestRecord, Registering, Steps

\* One request changes, into a request.
LEMMA OneTyped ==
  ASSUME TypeInv, NEW r \in Requests, NEW q, Typed(q),
         requests' = [requests EXCEPT ![r] = q]
  PROVE  requests' \in [Requests -> RequestRecord] /\ RequestsTyped'
<1>1. requests' \in [Requests -> RequestRecord]
  BY DEF TypeInv, TypeOK, Typed
<1>2. \A s \in Requests : requests'[s] = IF s = r THEN q ELSE requests[s]
  BY DEF TypeInv, TypeOK
<1>3. \A s \in Requests : Typed(requests'[s])
  BY <1>2 DEF TypeInv, RequestsTyped
<1> QED
  BY <1>1, <1>3 DEF RequestsTyped

-----------------------------------------------------------------------------
\* What an action does to the requests: one of them becomes another.
Becomes(r, q) == requests' = [requests EXCEPT ![r] = q] /\ Typed(q)

\* It goes on to another step, and keeps what it knows.
GoesOn(r, step) ==
  \E q : /\ Becomes(r, q) /\ q.step = step /\ q.leased = FALSE
        /\ q.addr = requests[r].addr /\ q.user = requests[r].user
        /\ q.token = requests[r].token

\* It begins to remove the device of an address.
Removes(r, a) ==
  \E q : Becomes(r, q) /\ q.step = "find" /\ q.addr = a /\ q.leased = FALSE

\* A request that ends, or removes its device.
LEMMA EndedBecomes ==
  ASSUME NEW r \in Requests
  PROVE  /\ Ended(r) => Becomes(r, Idle)
         /\ \A a \in Addresses : Removing(r, a) => Removes(r, a)
BY IdleTyped, RemovingTyped DEF Ended, Removing, Becomes, Removes

\* A request that takes the next step of registerDevice.
LEMMA MovedGoesOn ==
  ASSUME TypeInv, NEW r \in Requests, NEW step,
         \/ requests[r].step \in {"membership", "findUser", "createUser"}
            /\ step \in {"findUser", "createUser", "lease"}
         \/ requests[r].step = "reply" /\ step = "finalise",
         MovedTo(r, step)
  PROVE  GoesOn(r, step)
<1> DEFINE q == [requests[r] EXCEPT !.step = step]
<1>1. Typed(requests[r]) /\ requests[r].leased = FALSE /\ step \in Steps
  BY DEF TypeInv, RequestsTyped, Typed, Steps, RequestRecord
<1>2. /\ Typed(q) /\ q.step = step /\ q.leased = FALSE /\ q.addr = requests[r].addr
      /\ q.user = requests[r].user /\ q.token = requests[r].token
  BY <1>1, MovedTyped
<1>3. requests' = [requests EXCEPT ![r] = q]
  BY DEF MovedTo
<1> QED
  BY <1>2, <1>3 DEF Becomes, GoesOn

-----------------------------------------------------------------------------
(***************************************************************************)
(* The actions, as what becomes of their request.                          *)
(***************************************************************************)

LEMMA GetTokenBecomes ==
  ASSUME TypeInv, NEW r \in Requests, NEW t \in Tokens, GetRegistrationToken(r, t)
  PROVE  /\ requests[r].step = "idle"
         /\ \E q : /\ Becomes(r, q) /\ q.step \in {"membership", "findUser"}
                  /\ q.leased = FALSE /\ q.addr = 0
<1> DEFINE step == IF token[t].groups THEN "membership" ELSE "findUser"
           u == token[t].user
           q == [Idle EXCEPT !.step = step, !.token = t, !.user = u]
<1>1. step \in {"membership", "findUser"} /\ u \in Users
  BY DEF GetRegistrationToken, TypeInv, TypeOK, TokenRecord
<1>2. requests' = [requests EXCEPT ![r] = q] /\ requests[r].step = "idle"
  BY DEF GetRegistrationToken
<1> HIDE DEF step, u
<1>3. Typed(q) /\ q.step = step /\ q.leased = FALSE /\ q.addr = 0
  BY <1>1, StartedTyped DEF Idle
<1> QED
  BY <1>1, <1>2, <1>3 DEF Becomes

LEMMA MembershipBecomes ==
  ASSUME TypeInv, NEW r \in Requests, SetUserGroupMembership(r)
  PROVE  /\ requests[r].step = "membership"
         /\ Becomes(r, Idle) \/ GoesOn(r, "findUser")
BY EndedBecomes, MovedGoesOn DEF SetUserGroupMembership

LEMMA GetUserBecomes ==
  ASSUME TypeInv, NEW r \in Requests, GetUser(r)
  PROVE  /\ requests[r].step = "findUser"
         /\ \/ GoesOn(r, "createUser")
            \/ GoesOn(r, "lease") /\ requests[r].user \in user
<1>1. requests[r].step = "findUser"
  BY DEF GetUser
<1>2. CASE requests[r].user \in user
  <2>1. MovedTo(r, "lease")
    BY <1>2 DEF GetUser
  <2> QED
    BY <1>1, <1>2, <2>1, MovedGoesOn
<1>3. CASE requests[r].user \notin user
  <2>1. MovedTo(r, "createUser")
    BY <1>3 DEF GetUser
  <2> QED
    BY <1>1, <2>1, MovedGoesOn
<1> QED
  BY <1>2, <1>3

LEMMA CreateUserBecomes ==
  ASSUME TypeInv, NEW r \in Requests, CreateUser(r)
  PROVE  /\ requests[r].step = "createUser"
         /\ requests[r].user \in Users
         /\ \/ Becomes(r, Idle) /\ UNCHANGED accounts
            \/ /\ GoesOn(r, "lease")
               /\ user' = user \cup {requests[r].user}
               /\ membership' = membership \cup {requests[r].user}
<1>1. requests[r].step = "createUser" /\ Typed(requests[r])
  BY DEF CreateUser, TypeInv, RequestsTyped
<1>2. requests[r].user \in Users
  BY <1>1 DEF Typed, Registering
<1>3. CASE requests[r].user \in user
  BY <1>1, <1>2, <1>3, EndedBecomes DEF CreateUser
<1>4. CASE requests[r].user \notin user
  <2>1. MovedTo(r, "lease")
    BY <1>4 DEF CreateUser
  <2>2. GoesOn(r, "lease")
    BY <1>1, <2>1, MovedGoesOn
  <2> QED
    BY <1>1, <1>2, <1>4, <2>2 DEF CreateUser
<1> QED
  BY <1>3, <1>4

LEMMA ReplyBecomes ==
  ASSUME TypeInv, NEW r \in Requests, Reply(r)
  PROVE  /\ requests[r].step = "reply"
         /\ requests[r].addr \in Addresses /\ requests[r].user \in Users
         /\ \/ /\ GoesOn(r, "finalise") \/ Removes(r, requests[r].addr)
               /\ UNCHANGED left
            \/ /\ Becomes(r, Idle)
               /\ left' = (left \cup {<<requests[r].user, requests[r].addr>>}) \cap device
<1>1. requests[r].step = "reply" /\ Typed(requests[r])
  BY DEF Reply, TypeInv, RequestsTyped
<1>2. requests[r].addr \in Addresses /\ requests[r].user \in Users
  BY <1>1 DEF Typed, Registering
<1>3. \/ (MovedTo(r, "finalise") \/ Removing(r, requests[r].addr)) /\ UNCHANGED left
      \/ /\ Ended(r)
         /\ left' = (left \cup {<<requests[r].user, requests[r].addr>>}) \cap device
  BY DEF Reply
<1> QED
  BY <1>1, <1>2, <1>3, MovedGoesOn, EndedBecomes

LEMMA SpendingBecomes ==
  ASSUME NEW r \in Requests, NEW t \in Tokens, Spending(r, t)
  PROVE  \E q : Becomes(r, q) /\ q.step = "deleteToken" /\ q.token = t /\ q.leased = FALSE
BY SpendingTyped DEF Spending, Becomes

LEMMA FinaliseBecomes ==
  ASSUME TypeInv, NEW r \in Requests, FinaliseRegistration(r)
  PROVE  /\ requests[r].step = "finalise" /\ Typed(requests[r])
         /\ requests[r].addr \in Addresses
         /\ requests[r].token \in Tokens /\ requests[r].user \in Users
         /\ \/ Removes(r, requests[r].addr)
            \/ Becomes(r, Idle)
            \/ \E q : /\ Becomes(r, q) /\ q.step = "deleteToken" /\ q.leased = FALSE
                     /\ q.token = requests[r].token
<1>1. requests[r].step = "finalise" /\ Typed(requests[r])
  BY DEF FinaliseRegistration, TypeInv, RequestsTyped
<1>2. requests[r].addr \in Addresses /\ requests[r].token \in Tokens /\ requests[r].user \in Users
  BY <1>1 DEF Typed, Registering
<1>3. Removing(r, requests[r].addr) \/ Ended(r) \/ Spending(r, requests[r].token)
  BY DEF FinaliseRegistration
<1>4. \/ Removes(r, requests[r].addr)
      \/ Becomes(r, Idle)
      \/ \E q : /\ Becomes(r, q) /\ q.step = "deleteToken" /\ q.leased = FALSE
               /\ q.token = requests[r].token
  <2>1. CASE Removing(r, requests[r].addr)
    BY <1>2, <2>1, EndedBecomes
  <2>2. CASE Ended(r)
    BY <2>2, EndedBecomes
  <2>3. CASE Spending(r, requests[r].token)
    <3> DEFINE t == requests[r].token
    <3>1. t \in Tokens /\ Spending(r, t)
      BY <1>2, <2>3
    <3> HIDE DEF t
    <3>2. \E q : Becomes(r, q) /\ q.step = "deleteToken" /\ q.token = t /\ q.leased = FALSE
      BY <3>1, SpendingBecomes
    <3> QED
      BY <3>2 DEF t
  <2> QED
    BY <1>3, <2>1, <2>2, <2>3
<1> QED
  BY <1>1, <1>2, <1>4

LEMMA DeleteSpentBecomes ==
  ASSUME TypeInv, NEW r \in Requests, DeleteSpentToken(r)
  PROVE  /\ requests[r].step = "deleteToken" /\ requests[r].token \in Tokens
         /\ Becomes(r, Idle)
<1>1. requests[r].step = "deleteToken" /\ Typed(requests[r])
  BY DEF DeleteSpentToken, TypeInv, RequestsTyped
<1> QED
  BY <1>1, EndedBecomes DEF DeleteSpentToken, Typed

LEMMA RemoveDeviceBecomes ==
  ASSUME NEW r \in Requests, NEW a \in Addresses, RemoveDevice(r, a)
  PROVE  requests[r].step = "idle" /\ Removes(r, a)
BY EndedBecomes DEF RemoveDevice

LEMMA GrantLeaseBecomes ==
  ASSUME TypeInv, NEW r \in Requests, GrantLease(r)
  PROVE  /\ requests[r].step = "lease"
         /\ \E q : /\ Becomes(r, q) /\ q.step = "search"
                  /\ q.user = requests[r].user
<1>1. requests[r].step = "lease" /\ Typed(requests[r])
  BY DEF GrantLease, TypeInv, RequestsTyped
<1>2. PICK i \in 1..(Last - 1) :
        LET first == IF i = Server THEN i + 1 ELSE i IN
        requests' = [requests EXCEPT
          ![r] = [@ EXCEPT !.step = "search", !.addr = first, !.start = first, !.leased = TRUE]]
  BY DEF GrantLease
<1> DEFINE first == IF i = Server THEN i + 1 ELSE i
           q == [requests[r] EXCEPT !.step = "search", !.addr = first, !.start = first,
                                    !.leased = TRUE]
<1>3. first \in Addresses /\ first \in 0..Last
  BY SubnetAssumption DEF Addresses
<1>4. requests' = [requests EXCEPT ![r] = q]
  BY <1>2
<1> HIDE DEF first
<1>5. Typed(q) /\ q.step = "search" /\ q.user = requests[r].user
  BY <1>1, <1>3 DEF Typed, RequestRecord, Registering, Steps
<1> QED
  BY <1>1, <1>4, <1>5 DEF Becomes

\* The address a request looks at: never the server's.
LEMMA LooksAt ==
  ASSUME NEW q, Typed(q), q.step = "search"
  PROVE  (IF q.addr = Server THEN q.addr + 1 ELSE q.addr) \in Addresses \ {Server}
BY SubnetFacts DEF Typed

LEMMA SearchBecomes ==
  ASSUME TypeInv, NEW r \in Requests, Search(r)
  PROVE  /\ requests[r].step = "search"
         /\ \/ Becomes(r, Idle)
            \/ \E q : /\ Becomes(r, q) /\ q.step = "search"
                     /\ q.user = requests[r].user
<1> DEFINE a == IF requests[r].addr = Server THEN requests[r].addr + 1 ELSE requests[r].addr
           p(b) == [requests[r] EXCEPT !.addr = b]
<1>1. requests[r].step = "search" /\ Typed(requests[r])
  BY DEF Search, TypeInv, RequestsTyped
<1>2. a \in Addresses
  BY <1>1, LooksAt
<1>3. \A b \in Addresses : Typed(p(b)) /\ p(b).step = "search" /\ p(b).user = requests[r].user
  BY <1>1, SubnetFacts DEF Typed, RequestRecord, Registering
<1>4. \A b \in Addresses : requests' = [requests EXCEPT ![r].addr = b] =>
        \E q : Becomes(r, q) /\ q.step = "search" /\ q.user = requests[r].user
  BY <1>3 DEF Becomes
<1>5. \/ a < Last /\ requests' = [requests EXCEPT ![r].addr = a + 1]
      \/ Ended(r)
      \/ requests' = [requests EXCEPT ![r].addr = 1]
  BY DEF Search
<1> HIDE DEF a
<1> QED
  BY <1>1, <1>2, <1>4, <1>5, SubnetFacts, EndedBecomes

LEMMA HoldBecomes ==
  ASSUME TypeInv, NEW r \in Requests, Hold(r)
  PROVE  /\ requests[r].step = "search"
         /\ \/ Becomes(r, Idle) /\ UNCHANGED hold
            \/ \E q : /\ Becomes(r, q) /\ q.step = "assign"
                     /\ q.user = requests[r].user /\ q.leased
                     /\ q.addr \in Addresses \ {Server} /\ Free(q.addr)
                     /\ hold' = hold \cup {q.addr}
<1> DEFINE a == IF requests[r].addr = Server THEN requests[r].addr + 1 ELSE requests[r].addr
           q0 == [requests[r] EXCEPT !.step = "assign"]
           q == [q0 EXCEPT !.addr = a]
<1>1. requests[r].step = "search" /\ Typed(requests[r]) /\ Free(a)
  BY DEF Hold, TypeInv, RequestsTyped
<1>2. a \in Addresses \ {Server} /\ a \in 0..Last
  BY <1>1, LooksAt, SubnetFacts
<1>3. CASE ~requests[r].leased
  BY <1>1, <1>3, EndedBecomes DEF Hold
<1>4. CASE requests[r].leased
  <2>1. requests' = [requests EXCEPT ![r].step = "assign", ![r].addr = a] /\ hold' = hold \cup {a}
    BY <1>4 DEF Hold
  <2>2. requests' = [requests EXCEPT ![r] = q]
    BY <2>1 DEF TypeInv, TypeOK
  <2> HIDE DEF a
  <2>3. /\ Typed(q) /\ q.step = "assign" /\ q.addr = a
        /\ q.user = requests[r].user /\ q.leased
    BY <1>1, <1>2, <1>4 DEF Typed, RequestRecord, Registering, Steps
  <2> QED
    BY <1>1, <1>2, <2>1, <2>2, <2>3 DEF Becomes
<1> QED
  BY <1>3, <1>4

LEMMA AssignBecomes ==
  ASSUME TypeInv, NEW r \in Requests, Assign(r)
  PROVE  /\ requests[r].step = "assign" /\ requests[r].user \in Users
         /\ requests[r].addr \in Addresses \ {Server}
         /\ GoesOn(r, "reply")
<1> DEFINE q0 == [requests[r] EXCEPT !.step = "reply"]
           q == [q0 EXCEPT !.leased = FALSE]
<1>1. requests[r].step = "assign" /\ Typed(requests[r])
  BY DEF Assign, TypeInv, RequestsTyped
<1>2. requests[r].addr \in Addresses \ {Server} /\ requests[r].user \in Users
  BY <1>1 DEF Typed, Registering
<1>3. requests' = [requests EXCEPT ![r] = q]
  BY DEF Assign, TypeInv, TypeOK
<1>4. /\ Typed(q) /\ q.step = "reply" /\ q.leased = FALSE /\ q.addr = requests[r].addr
      /\ q.user = requests[r].user /\ q.token = requests[r].token
  BY <1>1 DEF Typed, RequestRecord, Registering, Steps
<1> QED
  BY <1>1, <1>2, <1>3, <1>4 DEF Becomes, GoesOn

LEMMA LeaseBecomes ==
  ASSUME TypeInv, NEW r \in Requests, LeaseLapses(r)
  PROVE  /\ requests[r].step \in {"search", "assign"} /\ requests[r].leased
         /\ GoesOn(r, requests[r].step)
<1> DEFINE q == [requests[r] EXCEPT !.leased = FALSE]
<1>1. Typed(requests[r]) /\ requests[r].leased
  BY DEF LeaseLapses, TypeInv, RequestsTyped
<1>2. requests[r].step \in {"search", "assign"}
  BY <1>1 DEF Typed
<1>3. requests' = [requests EXCEPT ![r] = q]
  BY DEF LeaseLapses, TypeInv, TypeOK
<1>4. /\ Typed(q) /\ q.step = requests[r].step /\ q.leased = FALSE
      /\ q.addr = requests[r].addr
      /\ q.user = requests[r].user /\ q.token = requests[r].token
  BY <1>1 DEF Typed, RequestRecord, Registering
<1> QED
  BY <1>1, <1>2, <1>3, <1>4 DEF Becomes, GoesOn

LEMMA FindBecomes ==
  ASSUME TypeInv, NEW r \in Requests, FindDevice(r)
  PROVE  /\ requests[r].step = "find" /\ requests[r].addr \in Addresses
         /\ \/ Becomes(r, Idle)
               /\ ~(/\ ref[requests[r].addr] # Absent
                    /\ <<ref[requests[r].addr], requests[r].addr>> \in device)
            \/ \E q : /\ Becomes(r, q) /\ q.step = "remove" /\ q.leased = FALSE
                     /\ q.addr = requests[r].addr /\ q.user = ref[requests[r].addr]
                     /\ <<q.user, q.addr>> \in device
<1> DEFINE a == requests[r].addr
           u == ref[a]
           q0 == [requests[r] EXCEPT !.step = "remove"]
           q == [q0 EXCEPT !.user = u]
<1>1. requests[r].step = "find" /\ Typed(requests[r])
  BY DEF FindDevice, TypeInv, RequestsTyped
<1>2. a \in Addresses
  BY <1>1 DEF Typed
<1>3. CASE u # Absent /\ <<u, a>> \in device
  <2>1. u \in Users
    BY <1>2, <1>3 DEF TypeInv, TypeOK
  <2>2. requests' = [requests EXCEPT ![r] = q]
    BY <1>3 DEF FindDevice, TypeInv, TypeOK
  <2> HIDE DEF u
  <2>3. Typed(q) /\ q.step = "remove" /\ q.leased = FALSE /\ q.addr = a /\ q.user = u
    BY <1>1, <2>1 DEF Typed, RequestRecord, Registering, Steps
  <2> QED
    BY <1>1, <1>2, <1>3, <2>2, <2>3 DEF Becomes, u
<1>4. CASE ~(u # Absent /\ <<u, a>> \in device)
  BY <1>1, <1>2, <1>4, EndedBecomes DEF FindDevice
<1> QED
  BY <1>3, <1>4

LEMMA RemoveBecomes ==
  ASSUME TypeInv, NEW r \in Requests, Remove(r)
  PROVE  /\ requests[r].step = "remove" /\ requests[r].addr \in Addresses
         /\ requests[r].user \in Users /\ Becomes(r, Idle)
<1>1. requests[r].step = "remove" /\ Typed(requests[r])
  BY DEF Remove, TypeInv, RequestsTyped
<1> QED
  BY <1>1, EndedBecomes DEF Remove, Typed

-----------------------------------------------------------------------------
(***************************************************************************)
(* TypeOK.                                                                 *)
(***************************************************************************)

LEMMA InitTypes == Init => TypeInv
<1> SUFFICES ASSUME Init PROVE TypeInv
  OBVIOUS
<1>1. Idle \in RequestRecord /\ Typed(Idle)
  BY IdleTyped DEF Typed
<1>2. \A r \in Requests : requests[r] = Idle
  BY DEF Init
<1>3. RequestsTyped
  BY <1>1, <1>2 DEF RequestsTyped
<1>4. token \in [Tokens -> TokenRecord]
  BY RegistrationAssumption DEF Init
<1>5. granted \in [Tokens -> Nat]
  <2>1. \A t \in Tokens : Granted(token[t].uses) \in Nat
    BY <1>4 DEF TokenRecord, Granted
  <2> QED
    BY <2>1 DEF Init
<1>6. device \subseteq Users \X (Addresses \ {Server}) /\ ref \in [Addresses -> Users \cup {Absent}]
  BY DEF Init, InitPool
<1>7. hold \subseteq Addresses \ {Server} /\ contested \subseteq Addresses
  BY DEF Init, InitPool
<1>8. requests \in [Requests -> RequestRecord]
  BY <1>1 DEF Init
<1> QED
  BY <1>3, <1>4, <1>5, <1>6, <1>7, <1>8 DEF Init, TypeInv, TypeOK

\* The requests keep their types when one of them becomes another.
LEMMA BecomesTyped ==
  ASSUME TypeInv, NEW r \in Requests,
         \/ \E q : Becomes(r, q)
         \/ \E step : GoesOn(r, step)
         \/ \E a : Removes(r, a)
  PROVE  requests' \in [Requests -> RequestRecord] /\ RequestsTyped'
<1>1. PICK q : Becomes(r, q)
  BY DEF GoesOn, Removes
<1> QED
  BY <1>1, OneTyped DEF Becomes

LEMMA RequestTypes ==
  ASSUME TypeInv, NEW r \in Requests, RequestStep(r)
  PROVE  TypeInv'
<1> USE DEF pool, admin, tokens, accounts, marks, Forgotten
<1>1. CASE SetUserGroupMembership(r)
  BY <1>1, MembershipBecomes, BecomesTyped DEF SetUserGroupMembership, TypeInv, TypeOK
<1>2. CASE GetUser(r)
  BY <1>2, GetUserBecomes, BecomesTyped DEF GetUser, TypeInv, TypeOK
<1>3. CASE CreateUser(r)
  BY <1>3, CreateUserBecomes, BecomesTyped DEF CreateUser, TypeInv, TypeOK
<1>4. CASE Reply(r)
  <2>1. requests' \in [Requests -> RequestRecord] /\ RequestsTyped'
    BY <1>4, ReplyBecomes, BecomesTyped
  <2>2. left' \subseteq Users \X Addresses
    BY <1>4, ReplyBecomes DEF TypeInv, TypeOK
  <2> QED
    BY <1>4, <2>1, <2>2 DEF Reply, TypeInv, TypeOK
<1>5. CASE FinaliseRegistration(r)
  <2> DEFINE t == requests[r].token
  <2>1. requests' \in [Requests -> RequestRecord] /\ RequestsTyped'
    BY <1>5, FinaliseBecomes, BecomesTyped
  <2>2. t \in Tokens /\ requests[r].user \in Users /\ requests[r].addr \in Addresses
    BY <1>5, FinaliseBecomes
  <2>3. accepted' \in [Tokens -> Nat] /\ kept' \subseteq Users \X Addresses
    BY <1>5, <2>2 DEF FinaliseRegistration, TypeInv, TypeOK
  <2>4. token' \in [Tokens -> TokenRecord \cup {Absent}]
    <3>1. CASE UNCHANGED token
      BY <3>1 DEF TypeInv, TypeOK
    <3>2. CASE token[t] # Absent /\ token[t].uses > 1 /\ token' = [token EXCEPT ![t].uses = @ - 1]
      <4>1. token[t] \in TokenRecord
        BY <2>2, <3>2 DEF TypeInv, TypeOK
      <4>2. [token[t] EXCEPT !.uses = @ - 1] \in TokenRecord
        BY <3>2, <4>1 DEF TokenRecord
      <4>3. token' = [token EXCEPT ![t] = [token[t] EXCEPT !.uses = @ - 1]]
        BY <3>2 DEF TypeInv, TypeOK
      <4> QED
        BY <2>2, <4>2, <4>3 DEF TypeInv, TypeOK
    <3> QED
      BY <1>5, <3>1, <3>2 DEF FinaliseRegistration
  <2>5. UNCHANGED <<pool, admin, accounts, granted, left>>
    BY <1>5 DEF FinaliseRegistration
  <2> QED
    BY <2>1, <2>3, <2>4, <2>5 DEF TypeInv, TypeOK
<1>6. CASE DeleteSpentToken(r)
  BY <1>6, DeleteSpentBecomes, BecomesTyped DEF DeleteSpentToken, TypeInv, TypeOK
<1>7. CASE PoolStep(r) /\ Forgotten /\ UNCHANGED <<admin, tokens, accounts>>
  <2>1. CASE GrantLease(r)
    BY <1>7, <2>1, GrantLeaseBecomes, BecomesTyped DEF GrantLease, TypeInv, TypeOK
  <2>2. CASE Search(r)
    BY <1>7, <2>2, SearchBecomes, BecomesTyped DEF Search, TypeInv, TypeOK
  <2>3. CASE Hold(r)
    <3>1. hold' \subseteq Addresses \ {Server}
      BY <2>3, HoldBecomes DEF TypeInv, TypeOK
    <3>2. requests' \in [Requests -> RequestRecord] /\ RequestsTyped'
      BY <2>3, HoldBecomes, BecomesTyped
    <3>3. UNCHANGED <<device, ref, contested>>
      BY <2>3 DEF Hold
    <3> QED
      BY <1>7, <3>1, <3>2, <3>3 DEF TypeInv, TypeOK
  <2>4. CASE Assign(r)
    <3> DEFINE a == requests[r].addr
    <3>1. requests[r].user \in Users /\ a \in Addresses \ {Server}
      BY <2>4, AssignBecomes
    <3>2. device' \subseteq Users \X (Addresses \ {Server})
      BY <2>4, <3>1 DEF Assign, TypeInv, TypeOK
    <3>3. ref' \in [Addresses -> Users \cup {Absent}] /\ contested' \subseteq Addresses
      BY <2>4, <3>1 DEF Assign, TypeInv, TypeOK
    <3>4. requests' \in [Requests -> RequestRecord] /\ RequestsTyped'
      BY <2>4, AssignBecomes, BecomesTyped
    <3>5. UNCHANGED hold
      BY <2>4 DEF Assign
    <3> QED
      BY <1>7, <3>2, <3>3, <3>4, <3>5 DEF TypeInv, TypeOK
  <2>5. CASE FindDevice(r)
    BY <1>7, <2>5, FindBecomes, BecomesTyped DEF FindDevice, TypeInv, TypeOK
  <2>6. CASE Remove(r)
    BY <1>7, <2>6, RemoveBecomes, BecomesTyped DEF Remove, TypeInv, TypeOK
  <2> QED
    BY <1>7, <2>1, <2>2, <2>3, <2>4, <2>5, <2>6 DEF PoolStep
<1> QED
  BY <1>1, <1>2, <1>3, <1>4, <1>5, <1>6, <1>7 DEF RequestStep

LEMMA StepTypes == TypeInv /\ [Next]_vars => TypeInv'
<1> SUFFICES ASSUME TypeInv, [Next]_vars PROVE TypeInv'
  OBVIOUS
<1> USE DEF pool, admin, tokens, accounts, marks, Forgotten
<1>1. CASE \E r \in Requests : RequestStep(r)
  BY <1>1, RequestTypes
<1>2. ASSUME NEW r \in Requests, NEW t \in Tokens, GetRegistrationToken(r, t) PROVE TypeInv'
  BY <1>2, GetTokenBecomes, BecomesTyped DEF GetRegistrationToken, TypeInv, TypeOK
<1>3. ASSUME NEW r \in Requests, NEW a \in Addresses, RemoveDevice(r, a) PROVE TypeInv'
  BY <1>3, RemoveDeviceBecomes, BecomesTyped DEF RemoveDevice, TypeInv, TypeOK
<1>4. ASSUME NEW t \in Renewed, NEW u \in Users, NEW g \in BOOLEAN, NEW n \in Uses,
             AddRegistrationToken(t, u, g, n)
      PROVE  TypeInv'
  <2>1. t \in Tokens /\ n \in Nat /\ Granted(n) \in Nat
    BY RegistrationAssumption DEF Granted
  <2>2. [user |-> u, groups |-> g, uses |-> n] \in TokenRecord
    BY <2>1 DEF TokenRecord
  <2>3. /\ token' \in [Tokens -> TokenRecord \cup {Absent}]
        /\ accepted' \in [Tokens -> Nat] /\ granted' \in [Tokens -> Nat]
    BY <1>4, <2>1, <2>2 DEF AddRegistrationToken, TypeInv, TypeOK
  <2>4. UNCHANGED <<pool, requests, admin, accounts, marks>>
    BY <1>4 DEF AddRegistrationToken
  <2> QED
    BY <2>3, <2>4 DEF TypeInv, TypeOK, RequestsTyped
<1>5. ASSUME NEW t \in Renewed, DeleteRegistrationToken(t) PROVE TypeInv'
  BY <1>5, RegistrationAssumption DEF DeleteRegistrationToken, TypeInv, TypeOK, RequestsTyped
<1>6. ASSUME NEW u \in Deleted, DeleteUser(u) PROVE TypeInv'
  BY <1>6, RegistrationAssumption DEF DeleteUser, TypeInv, TypeOK, RequestsTyped
<1>7. ASSUME NEW u \in Deleted, DeleteDevices(u) PROVE TypeInv'
  BY <1>7 DEF DeleteDevices, TypeInv, TypeOK, RequestsTyped
<1>8. CASE Lapse
  <2>1. ASSUME NEW r \in Requests, LeaseLapses(r) PROVE TypeInv'
    BY <1>8, <2>1, LeaseBecomes, BecomesTyped DEF Lapse, LeaseLapses, TypeInv, TypeOK
  <2>2. ASSUME NEW a \in Addresses, HoldLapses(a) PROVE TypeInv'
    BY <1>8, <2>2 DEF Lapse, HoldLapses, TypeInv, TypeOK, RequestsTyped
  <2> QED
    BY <1>8, <2>1, <2>2 DEF Lapse
<1>10. ASSUME NEW u \in Deleted, DeleteUserFails(u) PROVE TypeInv'
  BY <1>10, RegistrationAssumption DEF DeleteUserFails, TypeInv, TypeOK, RequestsTyped
<1>9. CASE UNCHANGED vars
  BY <1>9 DEF vars, TypeInv, TypeOK, RequestsTyped
<1> QED
  BY <1>1, <1>2, <1>3, <1>4, <1>5, <1>6, <1>7, <1>8, <1>9, <1>10 DEF Next

\* TypeOK: the variables keep their types, and no device and no hold is at the
\* server's own address, whatever the order in which registerDevice,
\* DeleteDevice and the administrators' calls interleave.
THEOREM RegistrationTypeTheorem == Spec => []TypeOK
<1>1. TypeInv => TypeOK
  BY DEF TypeInv
<1> QED
  BY InitTypes, StepTypes, <1>1, PTL DEF Spec

-----------------------------------------------------------------------------
(***************************************************************************)
(* TokenUsesBounded.                                                       *)
(***************************************************************************)

\* Requests in a set that leaves one out.
LEMMA OneLess ==
  ASSUME NEW S, S \subseteq Requests, NEW r \in Requests, r \notin S
  PROVE  /\ Cardinality(S) \in Nat /\ Cardinality(Requests) \in Nat
         /\ Cardinality(S \cup {r}) = Cardinality(S) + 1
         /\ Cardinality(S) <= Cardinality(Requests) - 1
<1>1. IsFiniteSet(Requests) /\ IsFiniteSet(S) /\ IsFiniteSet(S \cup {r})
  BY RegistrationAssumption, FS_Subset, FS_AddElement
<1>2. Cardinality(S \cup {r}) = Cardinality(S) + 1
  BY <1>1, FS_AddElement
<1>3. Cardinality(S \cup {r}) <= Cardinality(Requests)
  BY <1>1, FS_Subset
<1>4. Cardinality(S) \in Nat /\ Cardinality(Requests) \in Nat
  BY <1>1, FS_CardinalityType
<1> QED
  BY <1>2, <1>3, <1>4

LEMMA CountedTyped ==
  \A t \in Tokens : Cardinality(DeletingOf(t)) \in Nat
BY RegistrationAssumption, FS_Subset, FS_CardinalityType DEF DeletingOf

LEMMA GrantedTyped == \A n \in Nat : Granted(n) \in Nat /\ Granted(n) >= 1
BY DEF Granted

\* Nobody begins or ends to delete a token.
LEMMA DeletingSame ==
  ASSUME TypeInv, NEW r \in Requests, NEW q, Becomes(r, q),
         requests[r].step # "deleteToken", q.step # "deleteToken"
  PROVE  \A t : DeletingOf(t)' = DeletingOf(t)
<1>1. \A s \in Requests : requests'[s] = IF s = r THEN q ELSE requests[s]
  BY DEF Becomes, TypeInv, TypeOK
<1> QED
  BY <1>1 DEF DeletingOf

LEMMA TokenKept ==
  ASSUME TokenInv, UNCHANGED tokens, \A t : DeletingOf(t)' = DeletingOf(t)
  PROVE  TokenInv'
BY DEF TokenInv, UsesCounted, TokenUsesBounded, tokens

LEMMA InitTokens ==
  ASSUME Init
  PROVE  TokenInv
<1>1. ASSUME NEW t \in Tokens
      PROVE  /\ token[t] \in TokenRecord /\ accepted[t] = 0
             /\ granted[t] = Granted(token[t].uses)
  BY RegistrationAssumption DEF Init
<1>2. ASSUME NEW t \in Tokens
      PROVE  Granted(token[t].uses) \in Nat /\ Granted(token[t].uses) >= 1
  BY <1>1, GrantedTyped DEF TokenRecord
<1>3. Cardinality(Requests) \in Nat
  BY RegistrationAssumption, FS_CardinalityType
<1> QED
  BY <1>1, <1>2, <1>3, CountedTyped DEF TokenInv, UsesCounted, TokenUsesBounded

\* The step that accepts a registration.
LEMMA FinaliseTokens ==
  ASSUME TypeInv, TokenInv, NEW r \in Requests, FinaliseRegistration(r)
  PROVE  TokenInv'
<1>0. PICK t \in Tokens : t = requests[r].token
  BY FinaliseBecomes
<1>1. requests[r].step = "finalise" /\ requests[r].addr \in Addresses
  BY FinaliseBecomes
<1>2. CASE token[t] = Absent
  <2>1. UNCHANGED tokens /\ Removing(r, requests[r].addr)
    BY <1>0, <1>2 DEF FinaliseRegistration, tokens
  <2>2. Removes(r, requests[r].addr)
    BY <1>1, <2>1, EndedBecomes
  <2> QED
    BY <1>1, <2>1, <2>2, DeletingSame, TokenKept DEF Removes
<1>3. CASE token[t] # Absent
  <2> DEFINE n == token[t].uses
  <2>1. token[t] \in TokenRecord /\ n \in Nat
    BY <1>1, <1>3 DEF TypeInv, TypeOK, TokenRecord
  <2>2. /\ \A x \in Tokens : accepted'[x] = IF x = t THEN accepted[x] + 1 ELSE accepted[x]
        /\ UNCHANGED granted
        /\ \A x \in Tokens : accepted[x] \in Nat /\ granted[x] \in Nat
    BY <1>0, <1>3 DEF FinaliseRegistration, TypeInv, TypeOK
  <2>3. accepted[t] + Granted(n) <= granted[t] + Cardinality(DeletingOf(t))
    BY <1>1, <1>3 DEF TokenInv, UsesCounted
  <2>4. r \notin DeletingOf(t) /\ DeletingOf(t) \subseteq Requests
    BY <1>1 DEF DeletingOf
  <2>5. /\ Cardinality(DeletingOf(t)) \in Nat /\ Cardinality(Requests) \in Nat
        /\ Cardinality(DeletingOf(t) \cup {r}) = Cardinality(DeletingOf(t)) + 1
        /\ Cardinality(DeletingOf(t)) <= Cardinality(Requests) - 1
    BY <2>4, OneLess
  <2>6. TokenUsesBounded'
    <3>1. accepted[t] + 1 <= granted[t] + Cardinality(Requests) - 1
      BY <1>1, <2>1, <2>2, <2>3, <2>5, GrantedTyped
    <3> QED
      BY <2>2, <3>1 DEF TokenInv, TokenUsesBounded
  <2>7. CASE n > 1
    <3>1. Ended(r) /\ token' = [token EXCEPT ![t].uses = @ - 1]
      BY <1>0, <1>3, <2>7 DEF FinaliseRegistration
    <3>2. \A x : DeletingOf(x)' = DeletingOf(x)
      BY <1>1, <3>1, EndedBecomes, IdleTyped, DeletingSame
    <3>3. \A x \in Tokens : token'[x] = IF x = t THEN [token[t] EXCEPT !.uses = @ - 1] ELSE token[x]
      BY <3>1 DEF TypeInv, TypeOK
    <3>4. token'[t].uses = n - 1
      BY <1>1, <2>1, <3>3 DEF TokenRecord
    <3>5. Granted(n) = n /\ Granted(n - 1) = n - 1
      BY <2>1, <2>7 DEF Granted
    <3>6. accepted'[t] + Granted(token'[t].uses) <= granted'[t] + Cardinality(DeletingOf(t)')
      BY <1>1, <2>1, <2>2, <2>3, <2>5, <3>2, <3>4, <3>5
    <3>7. \A x \in Tokens \ {t} : token'[x] # Absent =>
            accepted'[x] + Granted(token'[x].uses) <= granted'[x] + Cardinality(DeletingOf(x)')
      BY <2>2, <3>2, <3>3 DEF TokenInv, UsesCounted
    <3>8. UsesCounted'
      BY <3>6, <3>7 DEF UsesCounted
    <3> QED
      BY <2>6, <3>8 DEF TokenInv
  <2>8. CASE ~(n > 1)
    <3>1. Spending(r, t) /\ UNCHANGED token
      BY <1>0, <1>3, <2>8 DEF FinaliseRegistration
    <3> \E q : Becomes(r, q) /\ q.step = "deleteToken" /\ q.token = t /\ q.leased = FALSE
      BY <3>1, SpendingBecomes
    <3>2. PICK q : Becomes(r, q) /\ q.step = "deleteToken" /\ q.token = t
      OBVIOUS
    <3>3. \A s \in Requests : requests'[s] = IF s = r THEN q ELSE requests[s]
      BY <3>2 DEF Becomes, TypeInv, TypeOK
    <3>4. DeletingOf(t)' = DeletingOf(t) \cup {r}
      BY <3>2, <3>3 DEF DeletingOf
    <3>5. \A x \in Tokens \ {t} : DeletingOf(x)' = DeletingOf(x)
      BY <1>1, <3>2, <3>3 DEF DeletingOf
    <3>6. accepted'[t] + Granted(token'[t].uses) <= granted'[t] + Cardinality(DeletingOf(t)')
      BY <1>1, <2>1, <2>2, <2>3, <2>5, <3>1, <3>4, GrantedTyped
    <3>7. \A x \in Tokens \ {t} : token'[x] # Absent =>
            accepted'[x] + Granted(token'[x].uses) <= granted'[x] + Cardinality(DeletingOf(x)')
      BY <2>2, <3>1, <3>5 DEF TokenInv, UsesCounted
    <3>8. UsesCounted'
      BY <3>6, <3>7 DEF UsesCounted
    <3> QED
      BY <2>6, <3>8 DEF TokenInv
  <2> QED
    BY <2>7, <2>8
<1> QED
  BY <1>2, <1>3

\* Every other step of a request that is not at its token's end.
LEMMA OtherTokens ==
  ASSUME TypeInv, TokenInv, UNCHANGED tokens, NEW r \in Requests,
         requests[r].step # "deleteToken",
         \/ Becomes(r, Idle)
         \/ \E q : Becomes(r, q) /\ q.step # "deleteToken"
         \/ \E step \in Steps \ {"deleteToken"} : GoesOn(r, step)
         \/ \E a : Removes(r, a)
  PROVE  TokenInv'
<1>1. PICK q : Becomes(r, q) /\ q.step # "deleteToken"
  BY IdleTyped DEF GoesOn, Removes
<1> QED
  BY <1>1, DeletingSame, TokenKept

LEMMA RequestTokens ==
  ASSUME TypeInv, TokenInv, NEW r \in Requests, RequestStep(r)
  PROVE  TokenInv'
<1>1. CASE SetUserGroupMembership(r)
  BY <1>1, MembershipBecomes, OtherTokens DEF SetUserGroupMembership, Steps
<1>2. CASE GetUser(r)
  BY <1>2, GetUserBecomes, OtherTokens DEF GetUser, Steps
<1>3. CASE CreateUser(r)
  BY <1>3, CreateUserBecomes, OtherTokens DEF CreateUser, Steps
<1>4. CASE Reply(r)
  BY <1>4, ReplyBecomes, OtherTokens DEF Reply, Steps
<1>5. CASE FinaliseRegistration(r)
  BY <1>5, FinaliseTokens
<1>6. CASE DeleteSpentToken(r)
  <2>1. PICK t \in Tokens : t = requests[r].token
    BY <1>6, DeleteSpentBecomes
  <2>2. /\ token'[t] = Absent /\ \A x \in Tokens \ {t} : token'[x] = token[x]
        /\ UNCHANGED <<accepted, granted>>
    BY <1>6, <2>1 DEF DeleteSpentToken, TypeInv, TypeOK
  <2>3. \A s \in Requests : requests'[s] = IF s = r THEN Idle ELSE requests[s]
    BY <1>6, DeleteSpentBecomes DEF Becomes, TypeInv, TypeOK
  <2>4. \A x \in Tokens \ {t} : DeletingOf(x)' = DeletingOf(x)
    BY <1>6, <2>1, <2>3, IdleTyped, DeleteSpentBecomes DEF DeletingOf
  <2>5. \A x \in Tokens \ {t} : token'[x] # Absent =>
          accepted'[x] + Granted(token'[x].uses) <= granted'[x] + Cardinality(DeletingOf(x)')
    BY <2>2, <2>4 DEF TokenInv, UsesCounted
  <2>6. UsesCounted'
    BY <2>2, <2>5 DEF UsesCounted
  <2> QED
    BY <2>2, <2>6 DEF TokenInv, TokenUsesBounded
<1>7. CASE PoolStep(r) /\ Forgotten /\ UNCHANGED <<admin, tokens, accounts>>
  <2>1. CASE GrantLease(r)
    BY <1>7, <2>1, GrantLeaseBecomes, OtherTokens
  <2>2. CASE Search(r)
    BY <1>7, <2>2, SearchBecomes, OtherTokens
  <2>3. CASE Hold(r)
    BY <1>7, <2>3, HoldBecomes, OtherTokens
  <2>4. CASE Assign(r)
    BY <1>7, <2>4, AssignBecomes, OtherTokens DEF Steps
  <2>5. CASE FindDevice(r)
    BY <1>7, <2>5, FindBecomes, OtherTokens
  <2>6. CASE Remove(r)
    BY <1>7, <2>6, RemoveBecomes, OtherTokens
  <2> QED
    BY <1>7, <2>1, <2>2, <2>3, <2>4, <2>5, <2>6 DEF PoolStep
<1> QED
  BY <1>1, <1>2, <1>3, <1>4, <1>5, <1>6, <1>7 DEF RequestStep

LEMMA StepTokens == TypeInv /\ TokenInv /\ [Next]_vars => TokenInv'
<1> SUFFICES ASSUME TypeInv, TokenInv, [Next]_vars PROVE TokenInv'
  OBVIOUS
<1>0. UNCHANGED <<requests, tokens>> => TokenInv'
  BY TokenKept DEF DeletingOf
<1>1. CASE \E r \in Requests : RequestStep(r)
  BY <1>1, RequestTokens
<1>2. ASSUME NEW r \in Requests, NEW t \in Tokens, GetRegistrationToken(r, t) PROVE TokenInv'
  BY <1>2, GetTokenBecomes, OtherTokens DEF GetRegistrationToken
<1>3. ASSUME NEW r \in Requests, NEW a \in Addresses, RemoveDevice(r, a) PROVE TokenInv'
  BY <1>3, RemoveDeviceBecomes, OtherTokens DEF RemoveDevice
<1>4. ASSUME NEW t \in Renewed, NEW u \in Users, NEW g \in BOOLEAN, NEW n \in Uses,
             AddRegistrationToken(t, u, g, n)
      PROVE  TokenInv'
  <2>1. t \in Tokens /\ n \in Nat /\ Granted(n) \in Nat /\ Granted(n) >= 1
    BY RegistrationAssumption, GrantedTyped
  <2>2. \A x \in Tokens :
          /\ token'[x] = IF x = t THEN [user |-> u, groups |-> g, uses |-> n] ELSE token[x]
          /\ accepted'[x] = IF x = t THEN 0 ELSE accepted[x]
          /\ granted'[x] = IF x = t THEN Granted(n) ELSE granted[x]
    BY <1>4, <2>1 DEF AddRegistrationToken, TypeInv, TypeOK
  <2>3. \A x \in Tokens : DeletingOf(x)' = DeletingOf(x) /\ Cardinality(DeletingOf(x)) \in Nat
    BY <1>4, CountedTyped DEF AddRegistrationToken, DeletingOf
  <2>4. Cardinality(Requests) \in Nat
    BY RegistrationAssumption, FS_CardinalityType
  <2>5. accepted'[t] + Granted(token'[t].uses) <= granted'[t] + Cardinality(DeletingOf(t)')
    BY <2>1, <2>2, <2>3
  <2>6. \A x \in Tokens \ {t} : token'[x] # Absent =>
          accepted'[x] + Granted(token'[x].uses) <= granted'[x] + Cardinality(DeletingOf(x)')
    BY <2>2, <2>3 DEF TokenInv, UsesCounted
  <2>7. UsesCounted'
    BY <2>5, <2>6 DEF UsesCounted
  <2>8. TokenUsesBounded'
    BY <2>1, <2>2, <2>4 DEF TokenInv, TokenUsesBounded
  <2> QED
    BY <2>7, <2>8 DEF TokenInv
<1>5. ASSUME NEW t \in Renewed, DeleteRegistrationToken(t) PROVE TokenInv'
  <2>1. /\ token'[t] = Absent /\ \A x \in Tokens \ {t} : token'[x] = token[x]
        /\ UNCHANGED <<accepted, granted>>
    BY <1>5, RegistrationAssumption DEF DeleteRegistrationToken, TypeInv, TypeOK
  <2>2. \A x : DeletingOf(x)' = DeletingOf(x)
    BY <1>5 DEF DeleteRegistrationToken, DeletingOf
  <2> QED
    BY <2>1, <2>2 DEF TokenInv, UsesCounted, TokenUsesBounded
<1>6. ASSUME NEW u \in Deleted, DeleteUser(u) PROVE TokenInv'
  BY <1>0, <1>6 DEF DeleteUser
<1>7. ASSUME NEW u \in Deleted, DeleteDevices(u) PROVE TokenInv'
  BY <1>0, <1>7 DEF DeleteDevices
<1>8. CASE Lapse
  <2>1. ASSUME NEW r \in Requests, LeaseLapses(r) PROVE TokenInv'
    BY <1>8, <2>1, LeaseBecomes, OtherTokens DEF Lapse, Steps
  <2>2. ASSUME NEW a \in Addresses, HoldLapses(a) PROVE TokenInv'
    BY <1>0, <1>8, <2>2 DEF Lapse, HoldLapses
  <2> QED
    BY <1>8, <2>1, <2>2 DEF Lapse
<1>10. ASSUME NEW u \in Deleted, DeleteUserFails(u) PROVE TokenInv'
  BY <1>0, <1>10 DEF DeleteUserFails
<1>9. CASE UNCHANGED vars
  BY <1>0, <1>9 DEF vars, tokens
<1> QED
  BY <1>1, <1>2, <1>3, <1>4, <1>5, <1>6, <1>7, <1>8, <1>9, <1>10 DEF Next

\* TokenUsesBounded: the use of a token is taken after its device was made,
\* and the last one by a read and a separate delete (FinaliseRegistration); yet
\* a token made for n uses is accepted at most n times and once more for every
\* other request that may be under way, for any number of requests.
THEOREM TokenTheorem == Spec => []TokenUsesBounded
<1>1. Init => TokenInv
  BY InitTypes, InitTokens
<1>2. TokenInv => TokenUsesBounded
  BY DEF TokenInv
<1> QED
  BY InitTypes, StepTypes, StepTokens, <1>1, <1>2, PTL DEF Spec

-----------------------------------------------------------------------------
(***************************************************************************)
(* DevicesHaveUsers.                                                       *)
(***************************************************************************)

\* A step that makes no device, after which the request knows no more users.
LEMMA UsersKept ==
  ASSUME TypeInv, UserInv, NEW r \in Requests, NEW q, Becomes(r, q),
         q.step \in {"lease", "search", "assign"} => q.user \in (user \cup outlived)',
         user \cup outlived \subseteq (user \cup outlived)',
         UNCHANGED <<deleting, halfway>>, device' \subseteq device
  PROVE  UserInv'
<1>1. \A s \in Requests : requests'[s] = IF s = r THEN q ELSE requests[s]
  BY DEF Becomes, TypeInv, TypeOK
<1>2. UsersKnown'
  BY <1>1 DEF UserInv, UsersKnown
<1>3. DevicesHaveUsers'
  BY DEF UserInv, DevicesHaveUsers
<1> QED
  BY <1>2, <1>3 DEF UserInv

\* A request that does not come from a step that knows its user to one that does.
LEMMA OtherUsers ==
  ASSUME TypeInv, UserInv, UNCHANGED <<user, deleting, outlived, halfway>>,
         device' \subseteq device,
         NEW r \in Requests,
         \/ Becomes(r, Idle)
         \/ \E q : Becomes(r, q) /\ q.step \notin {"lease", "search", "assign"}
         \/ \E step : GoesOn(r, step) /\ step \notin {"lease", "search", "assign"}
         \/ \E a : Removes(r, a)
         \/ /\ requests[r].step \in {"lease", "search", "assign"}
            /\ \E q : Becomes(r, q) /\ q.user = requests[r].user
  PROVE  UserInv'
<1>1. CASE \E q : Becomes(r, q) /\ q.step \notin {"lease", "search", "assign"}
  BY <1>1, UsersKept
<1>2. CASE /\ requests[r].step \in {"lease", "search", "assign"}
           /\ \E q : Becomes(r, q) /\ q.user = requests[r].user
  BY <1>2, UsersKept DEF UserInv, UsersKnown
<1>3. CASE Becomes(r, Idle)
  BY <1>3, <1>1, IdleTyped
<1> QED
  BY <1>1, <1>2, <1>3 DEF GoesOn, Removes

LEMMA RequestUsers ==
  ASSUME TypeInv, UserInv, NEW r \in Requests, RequestStep(r)
  PROVE  UserInv'
<1> USE DEF pool, admin, accounts
<1>1. CASE SetUserGroupMembership(r)
  BY <1>1, MembershipBecomes, OtherUsers DEF SetUserGroupMembership
<1>2. CASE GetUser(r)
  <2>1. CASE GoesOn(r, "createUser")
    BY <1>2, <2>1, OtherUsers DEF GetUser
  <2>2. CASE GoesOn(r, "lease") /\ requests[r].user \in user
    BY <1>2, <2>2, UsersKept DEF GetUser, GoesOn
  <2> QED
    BY <1>2, <2>1, <2>2, GetUserBecomes
<1>3. CASE CreateUser(r)
  <2>1. CASE Becomes(r, Idle) /\ UNCHANGED accounts
    BY <1>3, <2>1, OtherUsers DEF CreateUser
  <2>2. CASE GoesOn(r, "lease") /\ user' = user \cup {requests[r].user}
    BY <1>3, <2>2, UsersKept DEF CreateUser, GoesOn
  <2> QED
    BY <1>3, <2>1, <2>2, CreateUserBecomes
<1>4. CASE Reply(r)
  BY <1>4, ReplyBecomes, OtherUsers DEF Reply
<1>5. CASE FinaliseRegistration(r)
  BY <1>5, FinaliseBecomes, OtherUsers DEF FinaliseRegistration
<1>6. CASE DeleteSpentToken(r)
  BY <1>6, DeleteSpentBecomes, OtherUsers DEF DeleteSpentToken
<1>7. CASE PoolStep(r) /\ Forgotten /\ UNCHANGED <<admin, tokens, accounts>>
  <2>1. CASE GrantLease(r)
    BY ZenonT(60), <1>7, <2>1, GrantLeaseBecomes, OtherUsers DEF GrantLease
  <2>2. CASE Search(r)
    BY <1>7, <2>2, SearchBecomes, OtherUsers DEF Search
  <2>3. CASE Hold(r)
    BY <1>7, <2>3, HoldBecomes, OtherUsers DEF Hold
  <2>4. CASE Assign(r)
    <3>1. PICK q : Becomes(r, q) /\ q.step = "reply"
      BY <2>4, AssignBecomes DEF GoesOn
    <3>2. \A s \in Requests : requests'[s] = IF s = r THEN q ELSE requests[s]
      BY <3>1 DEF Becomes, TypeInv, TypeOK
    <3>3. UsersKnown'
      BY <1>7, <3>1, <3>2 DEF UserInv, UsersKnown
    <3>4. requests[r].user \in user \cup outlived
      BY <2>4, AssignBecomes DEF UserInv, UsersKnown
    <3>5. DevicesHaveUsers'
      BY <1>7, <2>4, <3>4 DEF Assign, UserInv, DevicesHaveUsers
    <3> QED
      BY <3>3, <3>5 DEF UserInv
  <2>5. CASE FindDevice(r)
    BY <1>7, <2>5, FindBecomes, OtherUsers DEF FindDevice
  <2>6. CASE Remove(r)
    BY <1>7, <2>6, RemoveBecomes, OtherUsers DEF Remove
  <2> QED
    BY <1>7, <2>1, <2>2, <2>3, <2>4, <2>5, <2>6 DEF PoolStep
<1> QED
  BY <1>1, <1>2, <1>3, <1>4, <1>5, <1>6, <1>7 DEF RequestStep

LEMMA StepUsers == TypeInv /\ UserInv /\ [Next]_vars => UserInv'
<1> SUFFICES ASSUME TypeInv, UserInv, [Next]_vars PROVE UserInv'
  OBVIOUS
<1> USE DEF pool, admin, accounts
<1>0. UNCHANGED <<requests, device, user, deleting, outlived, halfway>> => UserInv'
  BY DEF UserInv, UsersKnown, DevicesHaveUsers
<1>1. CASE \E r \in Requests : RequestStep(r)
  BY <1>1, RequestUsers
<1>2. ASSUME NEW r \in Requests, NEW t \in Tokens, GetRegistrationToken(r, t) PROVE UserInv'
  BY <1>2, GetTokenBecomes, OtherUsers DEF GetRegistrationToken
<1>3. ASSUME NEW r \in Requests, NEW a \in Addresses, RemoveDevice(r, a) PROVE UserInv'
  BY <1>3, RemoveDeviceBecomes, OtherUsers DEF RemoveDevice
<1>4. ASSUME NEW t \in Renewed, NEW u \in Users, NEW g \in BOOLEAN, NEW n \in Uses,
             AddRegistrationToken(t, u, g, n)
      PROVE  UserInv'
  BY <1>0, <1>4 DEF AddRegistrationToken
<1>5. ASSUME NEW t \in Renewed, DeleteRegistrationToken(t) PROVE UserInv'
  BY <1>0, <1>5 DEF DeleteRegistrationToken
<1>6. ASSUME NEW u \in Deleted, DeleteUser(u) PROVE UserInv'
  <2>1. UsersKnown'
    BY <1>6 DEF DeleteUser, Knowing, UserInv, UsersKnown
  <2>2. DevicesHaveUsers'
    BY <1>6 DEF DeleteUser, UserInv, DevicesHaveUsers
  <2> QED
    BY <2>1, <2>2 DEF UserInv
<1>7. ASSUME NEW u \in Deleted, DeleteDevices(u) PROVE UserInv'
  <2>1. UsersKnown'
    BY <1>7 DEF DeleteDevices, Knowing, UserInv, UsersKnown
  <2>2. DevicesHaveUsers'
    BY <1>7 DEF DeleteDevices, UserInv, DevicesHaveUsers
  <2> QED
    BY <2>1, <2>2 DEF UserInv
<1>8. CASE Lapse
  <2>1. ASSUME NEW r \in Requests, LeaseLapses(r) PROVE UserInv'
    BY <1>8, <2>1, LeaseBecomes, OtherUsers DEF Lapse, LeaseLapses, GoesOn
  <2>2. ASSUME NEW a \in Addresses, HoldLapses(a) PROVE UserInv'
    BY <1>0, <1>8, <2>2 DEF Lapse, HoldLapses
  <2> QED
    BY <1>8, <2>1, <2>2 DEF Lapse
<1>10. ASSUME NEW u \in Deleted, DeleteUserFails(u) PROVE UserInv'
  BY <1>10 DEF DeleteUserFails, UserInv, UsersKnown, DevicesHaveUsers
<1>9. CASE UNCHANGED vars
  BY <1>0, <1>9 DEF vars
<1> QED
  BY <1>1, <1>2, <1>3, <1>4, <1>5, <1>6, <1>7, <1>8, <1>9, <1>10 DEF Next

\* DevicesHaveUsers: registerDevice makes sure of the user some trips to etcd
\* before AddDevice writes the device.  Still a device without a user is one of
\* three: DeleteUser has yet to come to it, or failed before it did, or ran
\* while a request that had seen the user went on.
THEOREM DeviceUserTheorem == Spec => []DevicesHaveUsers
<1>1. Init => UserInv
  BY DEF Init, InitPool, Idle, UserInv, UsersKnown, DevicesHaveUsers
<1>2. UserInv => DevicesHaveUsers
  BY DEF UserInv
<1> QED
  BY InitTypes, StepTypes, StepUsers, <1>1, <1>2, PTL DEF Spec

-----------------------------------------------------------------------------
(***************************************************************************)
(* AddressLeadsToDevice and FailedLeaveNoDevice.                           *)
(***************************************************************************)

\* A step of a request that leaves the pool alone, after which the request
\* neither assigns nor removes, and before which no device was in its hands.
LEMMA PoolKept ==
  ASSUME TypeInv, AddressInv, UNCHANGED pool, settled \cap device' \subseteq settled',
         NEW r \in Requests, NEW q, Becomes(r, q),
         q.step \notin {"assign", "remove"},
         requests[r].step \notin {"reply", "finalise", "find", "remove"}
  PROVE  AddressInv'
<1>1. \A s \in Requests : requests'[s] = IF s = r THEN q ELSE requests[s]
  BY DEF Becomes, TypeInv, TypeOK
<1>2. UNCHANGED <<device, ref, hold, contested>>
  BY DEF pool
<1>3. HoldersAlone'
  BY <1>1, <1>2 DEF AddressInv, HoldersAlone, Assigning
<1>4. RemovesOnly'
  BY <1>1, <1>2 DEF AddressInv, RemovesOnly
<1>5. AddressLeadsToDevice'
  BY <1>2 DEF AddressInv, AddressLeadsToDevice
<1>6. DevicesSeenTo'
  <2> SUFFICES ASSUME NEW u \in Users, NEW a \in Addresses, <<u, a>> \in device,
                      a \notin contested, <<u, a>> \notin settled'
               PROVE  \E s \in Requests : SeesTo(s, u, a)'
    BY <1>2 DEF DevicesSeenTo
  <2>1. PICK s \in Requests : SeesTo(s, u, a)
    BY <1>2 DEF AddressInv, DevicesSeenTo
  <2>2. s # r
    BY <2>1 DEF SeesTo
  <2> QED
    BY <1>1, <2>1, <2>2 DEF SeesTo
<1> QED
  BY <1>3, <1>4, <1>5, <1>6 DEF AddressInv

\* The same of the ways a request goes on.
LEMMA OtherPool ==
  ASSUME TypeInv, AddressInv, UNCHANGED pool, settled \cap device' \subseteq settled',
         NEW r \in Requests,
         requests[r].step \notin {"reply", "finalise", "find", "remove"},
         \/ Becomes(r, Idle)
         \/ \E q : Becomes(r, q) /\ q.step \notin {"assign", "remove"}
         \/ \E step : GoesOn(r, step) /\ step \notin {"assign", "remove"}
         \/ \E a : Removes(r, a)
  PROVE  AddressInv'
<1>1. PICK q : Becomes(r, q) /\ q.step \notin {"assign", "remove"}
  BY IdleTyped DEF GoesOn, Removes
<1> QED
  BY <1>1, PoolKept

\* A device in the hands of a request stays in them.
LEMMA HandedOn ==
  ASSUME TypeInv, AddressInv, UNCHANGED pool, settled \cap device' \subseteq settled',
         NEW r \in Requests, requests[r].step \in {"reply", "finalise"},
         \/ GoesOn(r, "finalise")
         \/ Removes(r, requests[r].addr)
  PROVE  AddressInv'
<1>1. PICK q : /\ Becomes(r, q) /\ q.addr = requests[r].addr
               /\ \/ q.step = "finalise" /\ q.user = requests[r].user
                  \/ q.step = "find"
  BY DEF GoesOn, Removes
<1>2. \A s \in Requests : requests'[s] = IF s = r THEN q ELSE requests[s]
  BY <1>1 DEF Becomes, TypeInv, TypeOK
<1>3. UNCHANGED <<device, ref, hold, contested>>
  BY DEF pool
<1>4. HoldersAlone'
  BY <1>1, <1>2, <1>3 DEF AddressInv, HoldersAlone, Assigning
<1>5. RemovesOnly'
  BY <1>1, <1>2, <1>3 DEF AddressInv, RemovesOnly
<1>6. AddressLeadsToDevice'
  BY <1>3 DEF AddressInv, AddressLeadsToDevice
<1>7. DevicesSeenTo'
  <2> SUFFICES ASSUME NEW u \in Users, NEW a \in Addresses, <<u, a>> \in device,
                      a \notin contested, <<u, a>> \notin settled'
               PROVE  \E s \in Requests : SeesTo(s, u, a)'
    BY <1>3 DEF DevicesSeenTo
  <2>1. PICK s \in Requests : SeesTo(s, u, a)
    BY <1>3 DEF AddressInv, DevicesSeenTo
  <2> QED
    BY <1>1, <1>2, <2>1 DEF SeesTo
<1> QED
  BY <1>4, <1>5, <1>6, <1>7 DEF AddressInv

\* A request is done with its device, accepted or left behind.
LEMMA LeftPool ==
  ASSUME TypeInv, AddressInv, UNCHANGED pool, NEW r \in Requests,
         requests[r].step \in {"reply", "finalise"},
         \/ Becomes(r, Idle)
         \/ \E q : Becomes(r, q) /\ q.step = "deleteToken",
         (settled \cup {<<requests[r].user, requests[r].addr>>}) \cap device \subseteq settled'
  PROVE  AddressInv'
<1>1. PICK q : Becomes(r, q) /\ q.step \notin {"assign", "remove"}
  BY IdleTyped
<1>2. \A s \in Requests : requests'[s] = IF s = r THEN q ELSE requests[s]
  BY <1>1 DEF Becomes, TypeInv, TypeOK
<1>3. UNCHANGED <<device, ref, hold, contested>>
  BY DEF pool
<1>4. HoldersAlone'
  BY <1>1, <1>2, <1>3 DEF AddressInv, HoldersAlone, Assigning
<1>5. RemovesOnly'
  BY <1>1, <1>2, <1>3 DEF AddressInv, RemovesOnly
<1>6. AddressLeadsToDevice'
  BY <1>3 DEF AddressInv, AddressLeadsToDevice
<1>7. DevicesSeenTo'
  <2> SUFFICES ASSUME NEW u \in Users, NEW a \in Addresses, <<u, a>> \in device,
                      a \notin contested, <<u, a>> \notin settled'
               PROVE  \E s \in Requests : SeesTo(s, u, a)'
    BY <1>3 DEF DevicesSeenTo
  <2>1. <<u, a>> \notin settled /\ <<u, a>> # <<requests[r].user, requests[r].addr>>
    OBVIOUS
  <2>2. PICK s \in Requests : SeesTo(s, u, a)
    BY <2>1 DEF AddressInv, DevicesSeenTo
  <2>3. s # r
    BY <2>1, <2>2 DEF SeesTo
  <2> QED
    BY <1>2, <2>2, <2>3 DEF SeesTo
<1> QED
  BY <1>4, <1>5, <1>6, <1>7 DEF AddressInv

LEMMA FinalisePool ==
  ASSUME TypeInv, AddressInv, NEW r \in Requests, FinaliseRegistration(r)
  PROVE  AddressInv'
<1>1. /\ requests[r].step = "finalise" /\ requests[r].addr \in Addresses
      /\ UNCHANGED pool
  BY FinaliseBecomes DEF FinaliseRegistration
<1>2. CASE token[requests[r].token] # Absent
  <2>1. /\ kept' = (kept \cup {<<requests[r].user, requests[r].addr>>}) \cap device
        /\ UNCHANGED left
        /\ Ended(r) \/ Spending(r, requests[r].token)
    BY <1>2 DEF FinaliseRegistration
  <2>2. \/ Becomes(r, Idle)
        \/ \E q : Becomes(r, q) /\ q.step = "deleteToken"
    BY <2>1, FinaliseBecomes, EndedBecomes, SpendingBecomes
  <2>3. (settled \cup {<<requests[r].user, requests[r].addr>>}) \cap device \subseteq settled'
    BY <2>1 DEF settled
  <2> QED
    BY <1>1, <2>2, <2>3, LeftPool
<1>3. CASE token[requests[r].token] = Absent
  <2>1. Removing(r, requests[r].addr) /\ UNCHANGED <<kept, left>>
    BY <1>3 DEF FinaliseRegistration
  <2>2. settled \cap device' \subseteq settled'
    BY <2>1 DEF settled
  <2> QED
    BY <1>1, <2>1, <2>2, EndedBecomes, HandedOn
<1> QED
  BY <1>2, <1>3

\* An address that is free is held by nobody who assigns it.
LEMMA HoldPool ==
  ASSUME TypeInv, AddressInv, NEW r \in Requests, Hold(r),
         settled \cap device' \subseteq settled'
  PROVE  AddressInv'
<1>1. requests[r].step = "search" /\ UNCHANGED <<device, ref, contested>>
  BY DEF Hold
<1>2. CASE Becomes(r, Idle) /\ UNCHANGED hold
  BY <1>1, <1>2, OtherPool DEF pool
<1>3. CASE \E q : /\ Becomes(r, q) /\ q.step = "assign" /\ q.user = requests[r].user /\ q.leased
                 /\ q.addr \in Addresses \ {Server} /\ Free(q.addr)
                 /\ hold' = hold \cup {q.addr}
  <2>1. PICK q : /\ Becomes(r, q) /\ q.step = "assign" /\ q.leased
                 /\ q.addr \in Addresses \ {Server} /\ Free(q.addr)
                 /\ hold' = hold \cup {q.addr}
    BY <1>3
  <2>2. \A s \in Requests : requests'[s] = IF s = r THEN q ELSE requests[s]
    BY <2>1 DEF Becomes, TypeInv, TypeOK
  <2>3. \A s \in Requests \ {r} : Assigning(s)' <=> Assigning(s)
    BY <2>2 DEF Assigning
  <2>4. \A s \in Requests \ {r} : Assigning(s) => requests[s].addr # q.addr
    BY <2>1 DEF AddressInv, HoldersAlone, Free
  <2>5. HoldersAlone'
    <3> SUFFICES ASSUME NEW s \in Requests, Assigning(s)'
                 PROVE  /\ requests'[s].addr \in hold'
                        /\ requests'[s].addr \in contested' \/ ref'[requests'[s].addr] = Absent
                        /\ \A x \in Requests \ {s} :
                             Assigning(x)' => requests'[x].addr # requests'[s].addr
      BY DEF HoldersAlone
    <3>1. CASE s = r
      BY <1>1, <2>1, <2>2, <2>3, <2>4, <3>1 DEF Free
    <3>2. CASE s # r
      <4>1. /\ requests'[s] = requests[s] /\ Assigning(s)
        BY <2>2, <2>3, <3>2
      <4>2. /\ requests[s].addr \in hold
            /\ requests[s].addr \in contested \/ ref[requests[s].addr] = Absent
            /\ \A x \in Requests \ {s} : Assigning(x) => requests[x].addr # requests[s].addr
        BY <4>1 DEF AddressInv, HoldersAlone
      <4>3. ASSUME NEW x \in Requests \ {s}, Assigning(x)'
            PROVE  requests'[x].addr # requests'[s].addr
        <5>1. CASE x = r
          BY <2>2, <2>4, <3>2, <4>1, <5>1
        <5>2. CASE x # r
          BY <2>2, <2>3, <4>1, <4>2, <4>3, <5>2
        <5> QED
          BY <5>1, <5>2
      <4> QED
        BY <1>1, <2>1, <4>1, <4>2, <4>3
    <3> QED
      BY <3>1, <3>2
  <2>6. RemovesOnly'
    BY <1>1, <2>1, <2>2 DEF AddressInv, RemovesOnly
  <2>7. AddressLeadsToDevice'
    BY <1>1 DEF AddressInv, AddressLeadsToDevice
  <2>8. DevicesSeenTo'
    <3> SUFFICES ASSUME NEW u \in Users, NEW a \in Addresses, <<u, a>> \in device,
                        a \notin contested, <<u, a>> \notin settled'
                 PROVE  \E s \in Requests : SeesTo(s, u, a)'
      BY <1>1 DEF DevicesSeenTo
    <3>1. PICK s \in Requests : SeesTo(s, u, a)
      BY <1>1 DEF AddressInv, DevicesSeenTo
    <3>2. s # r
      BY <1>1, <3>1 DEF SeesTo
    <3> QED
      BY <2>2, <3>1, <3>2 DEF SeesTo
  <2> QED
    BY <2>5, <2>6, <2>7, <2>8 DEF AddressInv
<1> QED
  BY <1>2, <1>3, HoldBecomes

\* AddDevice: with the lease for its hold the request is alone at the address
\* and the address is nobody's; without, or while another still means a device
\* by the address, the address becomes a contested one.
LEMMA AssignPool ==
  ASSUME TypeInv, AddressInv, NEW r \in Requests, Assign(r),
         settled \cap device' \subseteq settled'
  PROVE  AddressInv'
<1>1. PICK a \in Addresses, w \in Users : a = requests[r].addr /\ w = requests[r].user
  BY AssignBecomes
<1>2. PICK q : /\ Becomes(r, q) /\ q.step = "reply" /\ q.leased = FALSE
               /\ q.addr = a /\ q.user = w
  BY <1>1, AssignBecomes DEF GoesOn
<1>3. \A s \in Requests : requests'[s] = IF s = r THEN q ELSE requests[s]
  BY <1>2 DEF Becomes, TypeInv, TypeOK
<1>4. /\ requests[r].step = "assign" /\ UNCHANGED hold
      /\ device' = device \cup {<<w, a>>}
      /\ \A b \in Addresses : ref'[b] = IF b = a THEN w ELSE ref[b]
      /\ contested \subseteq contested' /\ contested' \subseteq contested \cup {a}
  BY <1>1 DEF Assign, TypeInv, TypeOK
<1>5. a \in contested' \/ (requests[r].leased /\ Meaning(a) = {})
  <2>1. contested' = IF ~requests[r].leased \/ Meaning(a) # {}
                     THEN contested \cup {a} ELSE contested
    BY <1>1 DEF Assign
  <2>2. requests[r].leased \in BOOLEAN
    BY DEF TypeInv, TypeOK, RequestRecord
  <2>3. CASE requests[r].leased = FALSE
    BY <2>1, <2>3
  <2>4. CASE requests[r].leased = TRUE
    BY <2>1, <2>4
  <2> QED
    BY <2>2, <2>3, <2>4
<1>6. a \notin contested' => /\ \A s \in Requests \ {r} : Assigning(s) => requests[s].addr # a
                            /\ \A u \in Users : <<u, a>> \notin device
  <2> SUFFICES ASSUME a \notin contested'
               PROVE  /\ \A s \in Requests \ {r} : Assigning(s) => requests[s].addr # a
                      /\ \A u \in Users : <<u, a>> \notin device
    OBVIOUS
  <2>1. Assigning(r) /\ a \notin contested
    BY <1>4, <1>5 DEF Assigning
  <2>2. /\ \A s \in Requests \ {r} : Assigning(s) => requests[s].addr # a
        /\ ref[a] = Absent
    BY <1>1, <2>1 DEF AddressInv, HoldersAlone
  <2>3. \A u \in Users : <<u, a>> \notin device
    BY <2>1, <2>2, UserAssumption DEF AddressInv, AddressLeadsToDevice
  <2> QED
    BY <2>2, <2>3
<1>7. \A s \in Requests : Assigning(s)' => s # r /\ Assigning(s) /\ requests'[s] = requests[s]
  BY <1>2, <1>3 DEF Assigning
<1>8. HoldersAlone'
  <2> SUFFICES ASSUME NEW s \in Requests, Assigning(s)'
               PROVE  /\ requests'[s].addr \in hold'
                      /\ requests'[s].addr \in contested' \/ ref'[requests'[s].addr] = Absent
                      /\ \A x \in Requests \ {s} :
                           Assigning(x)' => requests'[x].addr # requests'[s].addr
    BY DEF HoldersAlone
  <2>1. s # r /\ Assigning(s) /\ requests'[s] = requests[s]
    BY <1>7
  <2>2. /\ requests[s].addr \in hold
        /\ requests[s].addr \in contested \/ ref[requests[s].addr] = Absent
        /\ \A x \in Requests \ {s} : Assigning(x) => requests[x].addr # requests[s].addr
    BY <2>1 DEF AddressInv, HoldersAlone
  <2>3. requests[s].addr \in Addresses
    BY <2>1 DEF Assigning, TypeInv, RequestsTyped, Typed
  <2>4. requests[s].addr \in contested' \/ ref'[requests[s].addr] = Absent
    BY <1>4, <1>6, <2>1, <2>2, <2>3
  <2> QED
    BY <1>4, <1>7, <2>1, <2>2, <2>4
<1>9. RemovesOnly'
  <2> SUFFICES ASSUME NEW s \in Requests, NEW u \in Users, requests'[s].step = "remove",
                      requests'[s].addr \notin contested', <<u, requests'[s].addr>> \in device'
               PROVE  u = requests'[s].user
    BY DEF RemovesOnly
  <2>1. s # r /\ requests'[s] = requests[s]
    BY <1>2, <1>3
  <2>2. requests[s].addr # a
    BY <1>5, <2>1 DEF Meaning, At
  <2>3. <<u, requests[s].addr>> \in device /\ requests[s].addr \notin contested
    BY <1>4, <2>1, <2>2
  <2> QED
    BY <2>1, <2>3 DEF AddressInv, RemovesOnly
<1>10. AddressLeadsToDevice'
  <2> SUFFICES ASSUME NEW u \in Users, NEW b \in Addresses, <<u, b>> \in device',
                      b \notin contested'
               PROVE  ref'[b] = u
    BY DEF AddressLeadsToDevice
  <2>1. CASE b = a
    BY <1>4, <1>6, <2>1
  <2>2. CASE b # a
    BY <1>4, <2>2 DEF AddressInv, AddressLeadsToDevice
  <2> QED
    BY <2>1, <2>2
<1>11. DevicesSeenTo'
  <2> SUFFICES ASSUME NEW u \in Users, NEW b \in Addresses, <<u, b>> \in device',
                      b \notin contested', <<u, b>> \notin settled'
               PROVE  \E s \in Requests : SeesTo(s, u, b)'
    BY DEF DevicesSeenTo
  <2>1. CASE <<u, b>> = <<w, a>>
    BY <1>2, <1>3, <2>1 DEF SeesTo
  <2>2. CASE <<u, b>> # <<w, a>>
    <3>1. PICK s \in Requests : SeesTo(s, u, b)
      BY <1>4, <2>2 DEF AddressInv, DevicesSeenTo
    <3>2. s # r
      BY <1>4, <3>1 DEF SeesTo
    <3> QED
      BY <1>3, <3>1, <3>2 DEF SeesTo
  <2> QED
    BY <2>1, <2>2
<1> QED
  BY <1>8, <1>9, <1>10, <1>11 DEF AddressInv

\* DeleteDevice, its reads: the reference leads to the device to remove.
LEMMA FindPool ==
  ASSUME TypeInv, AddressInv, NEW r \in Requests, FindDevice(r),
         settled \cap device' \subseteq settled'
  PROVE  AddressInv'
<1>1. PICK a \in Addresses : a = requests[r].addr
  BY FindBecomes
<1>2. requests[r].step = "find" /\ UNCHANGED <<device, ref, hold, contested>>
  BY FindBecomes DEF FindDevice, pool
<1>3. PICK q : /\ Becomes(r, q) /\ q.step \in {"idle", "remove"}
               /\ q.step = "idle" => ~(ref[a] # Absent /\ <<ref[a], a>> \in device)
               /\ q.step = "remove" => q.addr = a /\ q.user = ref[a]
  BY <1>1, FindBecomes, IdleTyped
<1>4. \A s \in Requests : requests'[s] = IF s = r THEN q ELSE requests[s]
  BY <1>3 DEF Becomes, TypeInv, TypeOK
<1>5. HoldersAlone'
  BY <1>2, <1>3, <1>4 DEF AddressInv, HoldersAlone, Assigning
<1>6. RemovesOnly'
  BY <1>2, <1>3, <1>4 DEF AddressInv, RemovesOnly, AddressLeadsToDevice
<1>7. AddressLeadsToDevice'
  BY <1>2 DEF AddressInv, AddressLeadsToDevice
<1>8. DevicesSeenTo'
  <2> SUFFICES ASSUME NEW u \in Users, NEW b \in Addresses, <<u, b>> \in device,
                      b \notin contested, <<u, b>> \notin settled'
               PROVE  \E s \in Requests : SeesTo(s, u, b)'
    BY <1>2 DEF DevicesSeenTo
  <2>1. PICK s \in Requests : SeesTo(s, u, b)
    BY <1>2 DEF AddressInv, DevicesSeenTo
  <2>2. CASE s # r
    BY <1>4, <2>1, <2>2 DEF SeesTo
  <2>3. CASE s = r
    <3>1. b = a
      BY <1>1, <2>1, <2>3 DEF SeesTo
    <3>2. ref[a] = u /\ u # Absent
      BY <3>1, UserAssumption DEF AddressInv, AddressLeadsToDevice
    <3>3. q.step = "remove" /\ q.addr = a
      BY <1>3, <3>1, <3>2
    <3> QED
      BY <1>4, <3>1, <3>3 DEF SeesTo
  <2> QED
    BY <2>2, <2>3
<1> QED
  BY <1>5, <1>6, <1>7, <1>8 DEF AddressInv

\* DeleteDevice, its deletes: the only device of the address goes with the
\* reference.
LEMMA RemovePool ==
  ASSUME TypeInv, AddressInv, NEW r \in Requests, Remove(r),
         settled \cap device' \subseteq settled'
  PROVE  AddressInv'
<1>1. PICK a \in Addresses, w \in Users : a = requests[r].addr /\ w = requests[r].user
  BY RemoveBecomes
<1>2. /\ requests[r].step = "remove" /\ UNCHANGED <<hold, contested>>
      /\ device' = device \ {<<w, a>>}
      /\ \A b \in Addresses : ref'[b] = IF b = a THEN Absent ELSE ref[b]
  BY <1>1 DEF Remove, TypeInv, TypeOK
<1>3. \A s \in Requests : requests'[s] = IF s = r THEN Idle ELSE requests[s]
  BY RemoveBecomes DEF Becomes, TypeInv, TypeOK
<1>4. a \notin contested => \A u \in Users : <<u, a>> \notin device'
  BY <1>1, <1>2 DEF AddressInv, RemovesOnly
<1>5. HoldersAlone'
  <2>1. \A s \in Requests : Assigning(s)' => Assigning(s) /\ requests'[s] = requests[s]
    BY <1>3, IdleTyped DEF Assigning
  <2>2. \A s \in Requests : Assigning(s) => requests[s].addr \in Addresses
    BY DEF Assigning, TypeInv, RequestsTyped, Typed
  <2> QED
    BY <1>2, <2>1, <2>2 DEF AddressInv, HoldersAlone
<1>6. RemovesOnly'
  BY <1>2, <1>3, IdleTyped DEF AddressInv, RemovesOnly
<1>7. AddressLeadsToDevice'
  BY <1>2, <1>4 DEF AddressInv, AddressLeadsToDevice
<1>8. DevicesSeenTo'
  <2> SUFFICES ASSUME NEW u \in Users, NEW b \in Addresses, <<u, b>> \in device',
                      b \notin contested, <<u, b>> \notin settled'
               PROVE  \E s \in Requests : SeesTo(s, u, b)'
    BY <1>2 DEF DevicesSeenTo
  <2>1. PICK s \in Requests : SeesTo(s, u, b)
    BY <1>2 DEF AddressInv, DevicesSeenTo
  <2>2. s # r
    BY <1>1, <1>4, <2>1 DEF SeesTo
  <2> QED
    BY <1>3, <2>1, <2>2 DEF SeesTo
<1> QED
  BY <1>5, <1>6, <1>7, <1>8 DEF AddressInv

\* Holds lapse.
LEMMA LeasePool ==
  ASSUME TypeInv, AddressInv, NEW r \in Requests, LeaseLapses(r),
         settled \cap device' \subseteq settled'
  PROVE  AddressInv'
<1>1. requests[r].step \in {"search", "assign"} /\ requests[r].leased
  BY LeaseBecomes
<1>2. PICK q : /\ Becomes(r, q) /\ q.step = requests[r].step /\ q.leased = FALSE
               /\ q.addr = requests[r].addr
  BY LeaseBecomes DEF GoesOn
<1>3. \A s \in Requests : requests'[s] = IF s = r THEN q ELSE requests[s]
  BY <1>2 DEF Becomes, TypeInv, TypeOK
<1>4. /\ UNCHANGED <<device, ref, contested>>
      /\ hold' = IF requests[r].step = "search" THEN hold ELSE hold \ {requests[r].addr}
  BY DEF LeaseLapses
<1>5. HoldersAlone'
  <2>1. \A s \in Requests : Assigning(s)' => s # r /\ Assigning(s) /\ requests'[s] = requests[s]
    BY <1>2, <1>3 DEF Assigning
  <2>2. \A s \in Requests : Assigning(s)' => requests[s].addr \in hold'
    BY <1>1, <1>4, <2>1 DEF AddressInv, HoldersAlone, Assigning
  <2> QED
    BY <1>4, <2>1, <2>2 DEF AddressInv, HoldersAlone
<1>6. RemovesOnly'
  BY <1>1, <1>2, <1>3, <1>4 DEF AddressInv, RemovesOnly
<1>7. AddressLeadsToDevice'
  BY <1>4 DEF AddressInv, AddressLeadsToDevice
<1>8. DevicesSeenTo'
  <2> SUFFICES ASSUME NEW u \in Users, NEW b \in Addresses, <<u, b>> \in device,
                      b \notin contested, <<u, b>> \notin settled'
               PROVE  \E s \in Requests : SeesTo(s, u, b)'
    BY <1>4 DEF DevicesSeenTo
  <2>1. PICK s \in Requests : SeesTo(s, u, b)
    BY <1>4 DEF AddressInv, DevicesSeenTo
  <2>2. s # r
    BY <1>1, <2>1 DEF SeesTo
  <2> QED
    BY <1>3, <2>1, <2>2 DEF SeesTo
<1> QED
  BY <1>5, <1>6, <1>7, <1>8 DEF AddressInv

LEMMA RequestPool ==
  ASSUME TypeInv, AddressInv, NEW r \in Requests, RequestStep(r)
  PROVE  AddressInv'
<1> USE DEF settled, marks, Forgotten
<1>1. CASE SetUserGroupMembership(r)
  BY <1>1, MembershipBecomes, OtherPool DEF SetUserGroupMembership
<1>2. CASE GetUser(r)
  BY <1>2, GetUserBecomes, OtherPool DEF GetUser
<1>3. CASE CreateUser(r)
  BY <1>3, CreateUserBecomes, OtherPool DEF CreateUser
<1>4. CASE Reply(r)
  <2>1. CASE /\ GoesOn(r, "finalise") \/ Removes(r, requests[r].addr)
             /\ UNCHANGED left
    BY <1>4, <2>1, ReplyBecomes, HandedOn DEF Reply
  <2>2. CASE /\ Becomes(r, Idle)
             /\ left' = (left \cup {<<requests[r].user, requests[r].addr>>}) \cap device
    BY <1>4, <2>2, LeftPool DEF Reply
  <2> QED
    BY <1>4, <2>1, <2>2, ReplyBecomes
<1>5. CASE FinaliseRegistration(r)
  BY <1>5, FinalisePool
<1>6. CASE DeleteSpentToken(r)
  BY <1>6, DeleteSpentBecomes, OtherPool DEF DeleteSpentToken
<1>7. CASE PoolStep(r) /\ Forgotten /\ UNCHANGED <<admin, tokens, accounts>>
  <2>1. CASE GrantLease(r)
    BY <1>7, <2>1, GrantLeaseBecomes, OtherPool DEF GrantLease
  <2>2. CASE Search(r)
    BY <1>7, <2>2, SearchBecomes, OtherPool DEF Search
  <2>3. CASE Hold(r)
    BY <1>7, <2>3, HoldPool
  <2>4. CASE Assign(r)
    BY <1>7, <2>4, AssignPool
  <2>5. CASE FindDevice(r)
    BY <1>7, <2>5, FindPool
  <2>6. CASE Remove(r)
    BY <1>7, <2>6, RemovePool
  <2> QED
    BY <1>7, <2>1, <2>2, <2>3, <2>4, <2>5, <2>6 DEF PoolStep
<1> QED
  BY <1>1, <1>2, <1>3, <1>4, <1>5, <1>6, <1>7 DEF RequestStep

LEMMA StepAddresses == TypeInv /\ AddressInv /\ [Next]_vars => AddressInv'
<1> SUFFICES ASSUME TypeInv, AddressInv, [Next]_vars PROVE AddressInv'
  OBVIOUS
<1> USE DEF pool, settled, marks, Forgotten
<1>0. /\ UNCHANGED <<requests, ref, contested>> /\ device' \subseteq device
      /\ settled \cap device' \subseteq settled'
      /\ \A r \in Requests : Assigning(r) /\ requests[r].addr \in hold
                            => requests[r].addr \in hold'
      => AddressInv'
  BY DEF AddressInv, HoldersAlone, Assigning, RemovesOnly, AddressLeadsToDevice,
         DevicesSeenTo, SeesTo
<1>1. CASE \E r \in Requests : RequestStep(r)
  BY <1>1, RequestPool
<1>2. ASSUME NEW r \in Requests, NEW t \in Tokens, GetRegistrationToken(r, t) PROVE AddressInv'
  BY <1>2, GetTokenBecomes, OtherPool DEF GetRegistrationToken
<1>3. ASSUME NEW r \in Requests, NEW a \in Addresses, RemoveDevice(r, a) PROVE AddressInv'
  BY <1>3, RemoveDeviceBecomes, OtherPool DEF RemoveDevice
<1>4. ASSUME NEW t \in Renewed, NEW u \in Users, NEW g \in BOOLEAN, NEW n \in Uses,
             AddRegistrationToken(t, u, g, n)
      PROVE  AddressInv'
  BY <1>0, <1>4 DEF AddRegistrationToken
<1>5. ASSUME NEW t \in Renewed, DeleteRegistrationToken(t) PROVE AddressInv'
  BY <1>0, <1>5 DEF DeleteRegistrationToken
<1>6. ASSUME NEW u \in Deleted, DeleteUser(u) PROVE AddressInv'
  BY <1>0, <1>6 DEF DeleteUser
<1>7. ASSUME NEW u \in Deleted, DeleteDevices(u) PROVE AddressInv'
  BY <1>0, <1>7 DEF DeleteDevices
<1>8. CASE Lapse
  <2>1. ASSUME NEW r \in Requests, LeaseLapses(r) PROVE AddressInv'
    BY <1>8, <2>1, LeasePool DEF Lapse
  <2>2. ASSUME NEW a \in Addresses, HoldLapses(a) PROVE AddressInv'
    <3>1. \A r \in Requests : Assigning(r) => requests[r].addr # a
      BY <2>2 DEF HoldLapses, At, Assigning
    <3> QED
      BY <1>0, <1>8, <2>2, <3>1 DEF Lapse, HoldLapses
  <2> QED
    BY <1>8, <2>1, <2>2 DEF Lapse
<1>10. ASSUME NEW u \in Deleted, DeleteUserFails(u) PROVE AddressInv'
  BY <1>0, <1>10 DEF DeleteUserFails
<1>9. CASE UNCHANGED vars
  BY <1>0, <1>9 DEF vars
<1> QED
  BY <1>1, <1>2, <1>3, <1>4, <1>5, <1>6, <1>7, <1>8, <1>9, <1>10 DEF Next

LEMMA InitAddresses == Init => AddressInv
BY IdleTyped DEF Init, InitPool, AddressInv, HoldersAlone, Assigning, RemovesOnly,
   AddressLeadsToDevice, DevicesSeenTo

\* AddressLeadsToDevice: getNextIP, AddDevice and DeleteDevice look and write in
\* separate steps, and still the reference of an address leads to its only
\* device, for every subnet and any number of registrations and deletions at
\* once, unless AddDevice came after the lapse of its hold or over a DeleteDevice.
THEOREM AddressTheorem == Spec => []AddressLeadsToDevice
<1>1. AddressInv => AddressLeadsToDevice
  BY DEF AddressInv
<1> QED
  BY InitTypes, StepTypes, InitAddresses, StepAddresses, <1>1, PTL DEF Spec

\* FailedLeaveNoDevice: a registration that fails after AddDevice leaves nothing
\* behind where the deferred function of registerDevice sees the error, for it
\* finds the device by its address: every device is accepted, in the hands of a
\* request, or one of those type=mobile has left (web.go:575).
THEOREM FailedTheorem == Spec => []FailedLeaveNoDevice
<1>1. TypeInv /\ AddressInv => FailedLeaveNoDevice
  <2> SUFFICES ASSUME TypeInv, AddressInv, \A r \in Requests : requests[r].step = "idle",
                      NEW d \in device
               PROVE  d \in kept \cup left \/ d[2] \in contested
    BY DEF FailedLeaveNoDevice
  <2>1. PICK u \in Users, a \in Addresses : d = <<u, a>>
    BY DEF TypeInv, TypeOK
  <2> QED
    BY <2>1 DEF AddressInv, DevicesSeenTo, SeesTo, settled
<1> QED
  BY InitTypes, StepTypes, InitAddresses, StepAddresses, <1>1, PTL DEF Spec
=============================================================================
