---------------------------- MODULE ServicesProofs ----------------------------
(***************************************************************************)
(* For any constants: doSafeUpdate implements AtomicUpdate, the passwords  *)
(* of administrators are guessed in vain fewer times than the lockout, the *)
(* methods a node offers follow the settings, settings and migrated users  *)
(* stay whole, and an answer of a security key logs in once.               *)
(***************************************************************************)
EXTENDS SafeUpdate, AdminLogin, Methods, Bootstrap, WebAuthn, FiniteSetTheorems, TLAPS

-----------------------------------------------------------------------------
(***************************************************************************)
(* doSafeUpdate.  What makes a transaction safe is that a revision is      *)
(* never used twice: if the key still has the revision an update was       *)
(* answered, it has the value too (Current).  With that a commit is an     *)
(* abstract update of the record as it is, and an answer that calls for an *)
(* error is an abstract refusal at the moment it is given.                 *)
(***************************************************************************)

(* The key has a revision exactly when it exists.                          *)
Versioned == modified = 0 <=> stored = Missing

(* An update at work was answered a record and a revision that belong      *)
(* together, and creates only what it has found missing.                   *)
Current ==
  \A u \in Updaters : caller[u].step \in {"create", "loop"} =>
    /\ caller[u].at <= revision
    /\ caller[u].at = 0 <=> caller[u].read = Missing
    /\ caller[u].at = modified => caller[u].read = stored
    /\ caller[u].step = "create" => caller[u].read = Missing /\ u \in Creators

UpdateInv == UpdateTypeOK /\ Versioned /\ Current

(* No update has been answered anything yet.                               *)
LEMMA UpdateInit == InitUpdate => UpdateInv
BY UpdateAssumption DEF InitUpdate, UpdateInv, UpdateTypeOK, Versioned, Current, CallerRecord

(* A write keeps what other updates know to be true of their answers.      *)
LEMMA WriteStep ==
  ASSUME UpdateInv, NEW v \in Values \cup {Missing}, Write(v)
  PROVE  /\ stored' = v
         /\ revision' \in 1..MaxRevision
         /\ modified' \in 0..revision'
         /\ Versioned'
         /\ \A u \in Updaters : caller[u].step \in {"create", "loop"} =>
              /\ caller[u].at <= revision'
              /\ caller[u].at = modified' => caller[u].read = stored'
<1>1. revision \in Nat /\ revision >= 1 /\ MaxRevision \in Nat /\ revision < MaxRevision
  BY UpdateAssumption DEF UpdateInv, UpdateTypeOK, Write
<1>2. /\ stored' = v
      /\ revision' = revision + 1
      /\ modified' = IF v = Missing THEN 0 ELSE revision + 1
  BY DEF Write
<1>3. revision' \in 1..MaxRevision /\ modified' \in 0..revision' /\ Versioned'
  BY <1>1, <1>2 DEF Versioned
<1>4. ASSUME NEW u \in Updaters, caller[u].step \in {"create", "loop"}
      PROVE  /\ caller[u].at <= revision'
             /\ caller[u].at = modified' => caller[u].read = stored'
  <2>1. /\ caller[u].at \in Nat
        /\ caller[u].at <= revision
        /\ caller[u].at = 0 <=> caller[u].read = Missing
    BY <1>4 DEF UpdateInv, UpdateTypeOK, Current, CallerRecord
  <2>2. QED BY <1>1, <1>2, <2>1
<1>5. QED BY <1>2, <1>3, <1>4

(* Every step of an update and every other write keeps it.                *)
LEMMA UpdateStep == UpdateInv /\ [NextUpdate]_update => UpdateInv'
<1> SUFFICES ASSUME UpdateInv, [NextUpdate]_update PROVE UpdateInv'
  OBVIOUS
<1> USE DEF CallerRecord
<1>1. ASSUME NEW u \in Updaters, Get(u) PROVE UpdateInv'
  <2>1. UpdateTypeOK' /\ Versioned'
    <3>1. modified \in Nat
      BY DEF UpdateInv, UpdateTypeOK
    <3>2. QED BY <1>1, <3>1 DEF Get, Response, UpdateInv, UpdateTypeOK, Versioned
  <2>2. Current'
    BY <1>1 DEF Get, Response, UpdateInv, UpdateTypeOK, Versioned, Current
  <2>3. QED BY <2>1, <2>2 DEF UpdateInv
<1>2. ASSUME NEW u \in Updaters, GiveUp(u) PROVE UpdateInv'
  BY <1>2 DEF GiveUp, UpdateInv, UpdateTypeOK, Versioned, Current
<1>3. ASSUME NEW u \in Updaters, Commit(u) PROVE UpdateInv'
  <2>1. Mutate(u, caller[u].read) \in Values
    BY <1>3, UpdateAssumption DEF Commit, Refused, UpdateInv, UpdateTypeOK
  <2>2. Write(Mutate(u, caller[u].read))
    BY <1>3 DEF Commit
  <2>3. caller' = [caller EXCEPT ![u].step = "updated"]
    BY <1>3 DEF Commit
  <2>4. UpdateTypeOK' /\ Versioned'
    BY <2>1, <2>2, <2>3, WriteStep DEF UpdateInv, UpdateTypeOK
  <2>5. Current'
    BY <2>1, <2>2, <2>3, WriteStep DEF UpdateInv, UpdateTypeOK, Current
  <2>6. QED BY <2>4, <2>5 DEF UpdateInv
<1>4. ASSUME NEW u \in Updaters, Retry(u) PROVE UpdateInv'
  <2>1. UpdateTypeOK' /\ Versioned'
    <3>1. modified \in Nat
      BY DEF UpdateInv, UpdateTypeOK
    <3>2. QED BY <1>4, <3>1 DEF Retry, Response, UpdateInv, UpdateTypeOK, Versioned
  <2>2. Current'
    BY <1>4 DEF Retry, Response, UpdateInv, UpdateTypeOK, Versioned, Current
  <2>3. QED BY <2>1, <2>2 DEF UpdateInv
<1>5. CASE OtherWrite
  <2>1. PICK v \in Values \cup {Missing} : Write(v)
    BY <1>5 DEF OtherWrite
  <2>2. caller' = caller
    BY <1>5 DEF OtherWrite
  <2>3. QED BY <2>1, <2>2, WriteStep DEF UpdateInv, UpdateTypeOK, Current
<1>6. CASE UNCHANGED update
  BY <1>6 DEF update, UpdateInv, UpdateTypeOK, Versioned, Current
<1>7. QED BY <1>1, <1>2, <1>3, <1>4, <1>5, <1>6 DEF NextUpdate

(* Before anything is read every abstract update is pending.               *)
LEMMA UpdateInitRefines == InitUpdate => Atomic!Init
BY DEF InitUpdate, Atomic!Init, Outcome, Refused

(* A step of one caller changes the outcome of no other.                   *)
LEMMA OthersKeep ==
  ASSUME UpdateInv, NEW u \in Updaters, NEW c, caller' = [caller EXCEPT ![u] = c]
  PROVE  \A w \in Updaters \ {u} : Outcome(w)' = Outcome(w)
BY DEF Outcome, Refused, UpdateInv, UpdateTypeOK

(* Every step is an abstract step of its caller, or none.                  *)
LEMMA UpdateStepRefines == UpdateInv /\ [NextUpdate]_update => [Atomic!Next]_(Atomic!vars)
<1> SUFFICES ASSUME UpdateInv, [NextUpdate]_update PROVE [Atomic!Next]_(Atomic!vars)
  OBVIOUS
<1> DEFINE outcomes == [w \in Updaters |-> Outcome(w)]
<1> USE DEF CallerRecord
(* An answer: the caller is pending still, or refused for what it read.    *)
<1>1. ASSUME NEW u \in Updaters,
             Outcome(u) = "pending",
             UNCHANGED stored,
             \A w \in Updaters \ {u} : Outcome(w)' = Outcome(w),
             \/ Outcome(u)' = "pending"
             \/ /\ Outcome(u)' = "refused"
                /\ stored = Missing \/ Mutate(u, stored) = Error
      PROVE  [Atomic!Next]_(Atomic!vars)
  <2>1. CASE Outcome(u)' = "pending"
    <3>1. outcomes' = outcomes
      BY <1>1, <2>1
    <3>2. QED BY <1>1, <3>1 DEF Atomic!vars
  <2>2. CASE Outcome(u)' = "refused" /\ (stored = Missing \/ Mutate(u, stored) = Error)
    <3>1. outcomes' = [outcomes EXCEPT ![u] = "refused"]
      BY <1>1, <2>2
    <3>2. Atomic!Refuse(u)
      BY <1>1, <2>2, <3>1 DEF Atomic!Refuse
    <3>3. QED BY <3>2 DEF Atomic!Next
  <2>3. QED BY <1>1, <2>1, <2>2
<1>2. ASSUME NEW u \in Updaters, Get(u) PROVE [Atomic!Next]_(Atomic!vars)
  <2>1. /\ caller[u].step = "get"
        /\ UNCHANGED stored
        /\ caller'[u].read = stored
        /\ caller'[u].step \in {"create", "loop"}
        /\ \E c : caller' = [caller EXCEPT ![u] = c]
    BY <1>2 DEF Get, Response, UpdateInv, UpdateTypeOK
  <2>2. Outcome(u) = "pending"
    BY <2>1 DEF Outcome
  <2>3. \A w \in Updaters \ {u} : Outcome(w)' = Outcome(w)
    BY <2>1, OthersKeep
  <2>4. \/ Outcome(u)' = "pending"
        \/ Outcome(u)' = "refused" /\ (stored = Missing \/ Mutate(u, stored) = Error)
    BY <2>1 DEF Outcome, Refused
  <2>5. QED BY <1>1, <2>1, <2>2, <2>3, <2>4
<1>3. ASSUME NEW u \in Updaters, GiveUp(u) PROVE [Atomic!Next]_(Atomic!vars)
  <2>1. Outcome(u) = "refused" /\ Outcome(u)' = "refused"
    BY <1>3 DEF GiveUp, Outcome, UpdateInv, UpdateTypeOK
  <2>2. \A w \in Updaters \ {u} : Outcome(w)' = Outcome(w)
    BY <1>3 DEF GiveUp, Outcome, Refused, UpdateInv, UpdateTypeOK
  <2>3. outcomes' = outcomes
    BY <2>1, <2>2
  <2>4. stored' = stored
    BY <1>3 DEF GiveUp
  <2>5. QED BY <2>3, <2>4 DEF Atomic!vars
<1>4. ASSUME NEW u \in Updaters, Commit(u) PROVE [Atomic!Next]_(Atomic!vars)
  <2>1. /\ caller[u].step \in {"create", "loop"}
        /\ ~Refused(caller[u], u)
        /\ caller[u].at = modified
        /\ stored' = Mutate(u, caller[u].read)
        /\ caller' = [caller EXCEPT ![u].step = "updated"]
    BY <1>4 DEF Commit, Unmoved, Write
  <2>2. caller[u].read = stored
    BY <2>1 DEF UpdateInv, Current
  <2>3. Outcome(u) = "pending" /\ Outcome(u)' = "updated"
    BY <2>1 DEF Outcome, UpdateInv, UpdateTypeOK
  <2>4. \A w \in Updaters \ {u} : Outcome(w)' = Outcome(w)
    BY <2>1 DEF Outcome, Refused, UpdateInv, UpdateTypeOK
  <2>5. Mutate(u, stored) # Error /\ stored' = Mutate(u, stored)
    BY <2>1, <2>2 DEF Refused
  <2>6. stored # Missing \/ u \in Creators
    BY <2>1, <2>2 DEF Refused, UpdateInv, Current
  <2>7. outcomes' = [outcomes EXCEPT ![u] = "updated"]
    BY <2>3, <2>4
  <2>8. Atomic!Update(u)
    BY <2>3, <2>5, <2>6, <2>7 DEF Atomic!Update
  <2>9. QED BY <2>8 DEF Atomic!Next
<1>5. ASSUME NEW u \in Updaters, Retry(u) PROVE [Atomic!Next]_(Atomic!vars)
  <2>1. /\ caller[u].step \in {"create", "loop"}
        /\ ~Refused(caller[u], u)
        /\ UNCHANGED stored
        /\ caller'[u].read = stored
        /\ caller'[u].step = "loop"
        /\ \E c : caller' = [caller EXCEPT ![u] = c]
    BY <1>5 DEF Retry, Response, UpdateInv, UpdateTypeOK
  <2>2. Outcome(u) = "pending"
    BY <2>1 DEF Outcome
  <2>3. \A w \in Updaters \ {u} : Outcome(w)' = Outcome(w)
    BY <2>1, OthersKeep
  <2>4. \/ Outcome(u)' = "pending"
        \/ Outcome(u)' = "refused" /\ (stored = Missing \/ Mutate(u, stored) = Error)
    BY <2>1 DEF Outcome, Refused
  <2>5. QED BY <1>1, <2>1, <2>2, <2>3, <2>4
<1>6. CASE OtherWrite
  <2>1. stored' \in Values \cup {Missing} /\ caller' = caller
    BY <1>6 DEF OtherWrite, Write
  <2>2. outcomes' = outcomes
    BY <2>1 DEF Outcome, Refused
  <2>3. Atomic!Overwrite
    BY <2>1, <2>2 DEF Atomic!Overwrite
  <2>4. QED BY <2>3 DEF Atomic!Next
<1>7. CASE UNCHANGED update
  BY <1>7 DEF update, Atomic!vars, Outcome, Refused
<1>8. QED BY <1>2, <1>3, <1>4, <1>5, <1>6, <1>7 DEF NextUpdate

(* Every behaviour of doSafeUpdate keeps its types and the invariant.      *)
THEOREM UpdateInvariant == SpecUpdate => []UpdateInv
BY UpdateInit, UpdateStep, PTL DEF SpecUpdate

(* The types, as the run checks them.                                      *)
THEOREM UpdateTypeTheorem == SpecUpdate => []UpdateTypeOK
<1>1. UpdateInv => UpdateTypeOK
  BY DEF UpdateInv
<1>2. QED BY <1>1, UpdateInvariant, PTL

(* doSafeUpdate implements AtomicUpdate: for any number of updates, any    *)
(* mutate functions and any writes by other code, each update happens at   *)
(* one moment or is refused at one.                                        *)
THEOREM UpdateTheorem == SpecUpdate => UpdatesAtomic
<1>1. SpecUpdate => Atomic!Spec
  BY UpdateInvariant, UpdateInitRefines, UpdateStepRefines, PTL DEF SpecUpdate, Atomic!Spec
<1>2. QED BY <1>1 DEF UpdatesAtomic

-----------------------------------------------------------------------------
(***************************************************************************)
(* Administrators.                                                         *)
(***************************************************************************)

\* A browser that is doing something knows the account and what was typed.
AtWork(q) ==
  /\ q \in LoginRecord
  /\ q.step = "idle" => q = AtRest
  /\ q.step # "idle" => q.name \in AdminNames /\ q.typed \in Passwords

LoginTyped == LoginTypeOK /\ \A b \in Browsers : AtWork(login[b])

\* The attempts at an account that were counted and not yet compared.
Uncompared(n) ==
  {b \in counted : login[b].step = "compare" /\ login[b].name = n}

\* Until an account is locked its counter is ahead of the guesses made and
\* those to come; a password that is changed is not counted.
AttemptsAhead ==
  /\ \A n \in AdminNames :
       /\ guesses[n] < AdminLockout
       /\ admin[n] # NoAdmin /\ ~Locked(n) =>
            guesses[n] + Cardinality(Uncompared(n)) <= admin[n].attempts
  /\ \A b \in Browsers : login[b].step = "confirm" => b \notin counted

LoginInv == LoginTyped /\ AttemptsAhead

LEMMA RestAtWork == AtWork(AtRest) /\ AtRest.step = "idle"
BY DEF AtWork, AtRest, LoginRecord

LEMMA AccountTyped ==
  ASSUME LoginTyped, NEW n \in AdminNames
  PROVE  /\ admin[n] \in AdminRecord \cup {NoAdmin}
         /\ admin[n] # NoAdmin => admin[n].attempts \in 0..AdminLockout
BY DEF LoginTyped, LoginTypeOK, AdminRecord

LEMMA UncomparedTyped ==
  ASSUME LoginTyped
  PROVE  \A n : IsFiniteSet(Uncompared(n)) /\ Cardinality(Uncompared(n)) \in Nat
<1>1. \A n : Uncompared(n) \subseteq Browsers
  BY DEF Uncompared, LoginTyped, LoginTypeOK
<1> QED
  BY <1>1, AdminAssumption, FS_Subset, FS_CardinalityType

\* One browser goes on to something else.
LEMMA LoginNext ==
  ASSUME LoginTyped, NEW b \in Browsers, NEW q, AtWork(q), login' = [login EXCEPT ![b] = q]
  PROVE  /\ \A c \in Browsers : login'[c] = IF c = b THEN q ELSE login[c]
         /\ login' \in [Browsers -> LoginRecord] /\ \A c \in Browsers : AtWork(login'[c])
BY DEF LoginTyped, LoginTypeOK, AtWork

\* The attempts that wait become fewer, or stay, and so do the guesses.
LEMMA FewerAhead ==
  ASSUME LoginInv, LoginTyped', NEW n \in AdminNames,
         Uncompared(n)' \subseteq Uncompared(n), guesses'[n] = guesses[n],
         admin'[n] # NoAdmin =>
           \/ admin'[n].attempts >= AdminLockout
           \/ admin[n] # NoAdmin /\ admin'[n].attempts = admin[n].attempts
  PROVE  /\ guesses'[n] < AdminLockout
         /\ admin'[n] # NoAdmin /\ ~Locked(n)' =>
              guesses'[n] + Cardinality(Uncompared(n)') <= admin'[n].attempts
<1>1. /\ guesses[n] \in Nat /\ Cardinality(Uncompared(n)) \in Nat
      /\ Cardinality(Uncompared(n)') \in Nat
      /\ Cardinality(Uncompared(n)') <= Cardinality(Uncompared(n))
  <2>1. IsFiniteSet(Uncompared(n)) /\ Cardinality(Uncompared(n)) \in Nat
    BY UncomparedTyped DEF LoginInv
  <2>2. IsFiniteSet(Uncompared(n)')
    BY <2>1, FS_Subset
  <2> QED
    BY <2>1, <2>2, FS_Subset, FS_CardinalityType DEF LoginInv, LoginTyped, LoginTypeOK
<1>2. ASSUME admin'[n] # NoAdmin, ~Locked(n)'
      PROVE  guesses'[n] + Cardinality(Uncompared(n)') <= admin'[n].attempts
  <2>1. admin[n] # NoAdmin /\ admin'[n].attempts = admin[n].attempts
    BY <1>2 DEF Locked
  <2>2. ~Locked(n)
    BY <1>2, <2>1 DEF Locked
  <2>3. admin[n].attempts \in 0..AdminLockout
    BY <2>1, AccountTyped DEF LoginInv
  <2>4. guesses[n] + Cardinality(Uncompared(n)) <= admin[n].attempts
    BY <2>1, <2>2 DEF LoginInv, AttemptsAhead
  <2> QED
    BY <1>1, <2>1, <2>3, <2>4, AdminAssumption
<1> QED
  BY <1>2 DEF LoginInv, AttemptsAhead

\* The counter of an account starts again.
LEMMA ClearedAhead ==
  ASSUME LoginTyped', NEW n \in AdminNames, Uncompared(n)' = {}, guesses'[n] = 0
  PROVE  /\ guesses'[n] < AdminLockout
         /\ admin'[n] # NoAdmin /\ ~Locked(n)' =>
              guesses'[n] + Cardinality(Uncompared(n)') <= admin'[n].attempts
<1>1. admin'[n] # NoAdmin => admin'[n].attempts \in Nat
  BY DEF LoginTyped, LoginTypeOK, AdminRecord
<1>2. Cardinality(Uncompared(n)') = 0
  BY FS_EmptySet
<1> QED
  BY <1>1, <1>2, AdminAssumption

\* What an account gets: the same, another counter, another password.
LEMMA AccountNext ==
  ASSUME LoginTyped, NEW n \in AdminNames, NEW a \in {NoAdmin} \cup AdminRecord,
         admin' = [admin EXCEPT ![n] = a]
  PROVE  /\ admin' \in [AdminNames -> {NoAdmin} \cup AdminRecord]
         /\ \A m \in AdminNames : admin'[m] = IF m = n THEN a ELSE admin[m]
BY DEF LoginTyped, LoginTypeOK

LEMMA AttemptsSet ==
  ASSUME NEW a \in AdminRecord, NEW k \in 0..AdminLockout
  PROVE  /\ [a EXCEPT !.attempts = k] \in AdminRecord
         /\ [a EXCEPT !.attempts = k].attempts = k
BY DEF AdminRecord

LEMMA PasswordSet ==
  ASSUME NEW a \in AdminRecord, NEW p \in Passwords
  PROVE  WithPassword(a, p) \in AdminRecord /\ WithPassword(a, p).attempts = a.attempts
BY DEF AdminRecord, WithPassword

LEMMA NotAnAccount == NoAdmin \notin AdminRecord
<1>1. AdminRecord \subseteq [attempts: Nat, password: Passwords, salt: Nat]
  BY AdminAssumption DEF AdminRecord
<1> QED
  BY <1>1, AdminAssumption

LEMMA LoginInit == InitLogin => LoginInv
<1> SUFFICES ASSUME InitLogin PROVE LoginInv
  OBVIOUS
<1>1. admin \in [AdminNames -> {NoAdmin} \cup AdminRecord]
  <2>1. [attempts: {0}, password: Passwords, salt: {16}] \subseteq AdminRecord
    BY AdminAssumption DEF AdminRecord
  <2> QED
    BY <2>1 DEF InitLogin
<1>2. \A b \in Browsers : login[b] = AtRest
  BY DEF InitLogin
<1>3. LoginTyped
  BY <1>1, <1>2, RestAtWork DEF InitLogin, LoginTyped, LoginTypeOK, AtWork
<1>4. ASSUME NEW n \in AdminNames
      PROVE  /\ guesses[n] < AdminLockout
             /\ admin[n] # NoAdmin /\ ~Locked(n) =>
                  guesses[n] + Cardinality(Uncompared(n)) <= admin[n].attempts
  <2>1. Cardinality(Uncompared(n)) = 0
    <3>1. Uncompared(n) = {}
      BY DEF InitLogin, Uncompared
    <3> QED
      BY <3>1, FS_EmptySet
  <2>2. guesses[n] = 0
    BY DEF InitLogin
  <2>3. admin[n] # NoAdmin => admin[n].attempts \in 0..AdminLockout
    BY <1>3, AccountTyped
  <2> QED
    BY <2>1, <2>2, <2>3, AdminAssumption
<1>5. \A b \in Browsers : login[b].step # "confirm"
  BY <1>2, RestAtWork
<1> QED
  BY <1>3, <1>4, <1>5 DEF LoginInv, AttemptsAhead

LEMMA IncrementStep ==
  ASSUME LoginInv, NEW b \in Browsers, NEW n \in AdminNames, NEW p \in Passwords,
         IncrementAdminAuthenticationAttempt(b, n, p)
  PROVE  LoginInv'
<1> DEFINE q == [step |-> "compare", name |-> n, typed |-> p]
           a == [admin[n] EXCEPT !.attempts = Counted(@)]
<1>1. LoginTyped /\ login[b] = AtRest /\ admin[n] \in AdminRecord
  BY AccountTyped DEF LoginInv, IncrementAdminAuthenticationAttempt
<1>2. admin[n].attempts \in 0..AdminLockout
  BY <1>1 DEF AdminRecord
<1>3. Counted(admin[n].attempts) \in 0..AdminLockout
  BY <1>2, AdminAssumption DEF Counted
<1>4. a \in AdminRecord /\ a.attempts = Counted(admin[n].attempts)
  BY <1>1, <1>3, AttemptsSet
<1>5. AtWork(q)
  BY DEF AtWork, LoginRecord
<1>6. admin' = [admin EXCEPT ![n] = a] /\ login' = [login EXCEPT ![b] = q]
  BY DEF IncrementAdminAuthenticationAttempt
<1>7. q.step = "compare" /\ q.name = n
  OBVIOUS
<1> HIDE DEF q, a
<1>8. /\ admin' \in [AdminNames -> {NoAdmin} \cup AdminRecord]
      /\ \A m \in AdminNames : admin'[m] = IF m = n THEN a ELSE admin[m]
  BY <1>1, <1>4, <1>6, AccountNext
<1>9. /\ \A c \in Browsers : login'[c] = IF c = b THEN q ELSE login[c]
      /\ login' \in [Browsers -> LoginRecord] /\ \A c \in Browsers : AtWork(login'[c])
  BY <1>1, <1>5, <1>6, LoginNext
<1>10. counted' = counted \cup {b} /\ session' = session /\ guesses' = guesses
  BY DEF IncrementAdminAuthenticationAttempt
<1>11. counted \subseteq Browsers
  BY <1>1 DEF LoginTyped, LoginTypeOK
<1>12. LoginTyped'
  BY <1>1, <1>8, <1>9, <1>10 DEF LoginTyped, LoginTypeOK
<1>13. ASSUME NEW m \in AdminNames, m # n
       PROVE  /\ guesses'[m] < AdminLockout
              /\ admin'[m] # NoAdmin /\ ~Locked(m)' =>
                   guesses'[m] + Cardinality(Uncompared(m)') <= admin'[m].attempts
  <2>1. Uncompared(m)' \subseteq Uncompared(m)
    BY <1>7, <1>9, <1>10, <1>11, <1>13 DEF Uncompared
  <2> QED
    BY <1>8, <1>10, <1>12, <1>13, <2>1, FewerAhead
<1>14. ASSUME admin'[n] # NoAdmin, ~Locked(n)'
       PROVE  guesses'[n] + Cardinality(Uncompared(n)') <= admin'[n].attempts
  <2>1. admin'[n].attempts = Counted(admin[n].attempts)
    BY <1>4, <1>8
  <2>2. Counted(admin[n].attempts) = admin[n].attempts + 1 /\ ~Locked(n)
    BY <1>2, <1>14, <2>1, AdminAssumption DEF Locked, Counted
  <2>3. guesses[n] + Cardinality(Uncompared(n)) <= admin[n].attempts
    BY <1>1, <2>2, NotAnAccount DEF LoginInv, AttemptsAhead
  <2>4. IsFiniteSet(Uncompared(n)) /\ Cardinality(Uncompared(n)) \in Nat
    BY <1>1, UncomparedTyped
  <2>5. b \notin Uncompared(n)
    BY <1>1, RestAtWork DEF Uncompared
  <2>6. Uncompared(n)' = Uncompared(n) \cup {b}
    BY <1>7, <1>9, <1>10, <1>11 DEF Uncompared
  <2>7. Cardinality(Uncompared(n)') = Cardinality(Uncompared(n)) + 1
    BY <2>4, <2>5, <2>6, FS_AddElement
  <2>8. guesses[n] \in Nat
    BY <1>1 DEF LoginTyped, LoginTypeOK
  <2> QED
    BY <1>2, <1>10, <2>1, <2>2, <2>3, <2>4, <2>7, <2>8
<1>15. \A c \in Browsers : login'[c].step = "confirm" => c \notin counted'
  BY <1>7, <1>9, <1>10 DEF LoginInv, AttemptsAhead
<1>16. guesses'[n] < AdminLockout
  BY <1>10 DEF LoginInv, AttemptsAhead
<1> QED
  BY <1>12, <1>13, <1>14, <1>15, <1>16 DEF LoginInv, AttemptsAhead

\* A step that counts nothing and compares nothing counted.
LEMMA QuietStep ==
  ASSUME LoginInv, NEW b \in Browsers, NEW q, AtWork(q),
         login' = [login EXCEPT ![b] = q], admin' = admin, guesses' = guesses,
         q.step # "compare", counted' \subseteq counted,
         q.step = "confirm" => b \notin counted',
         session' \in [Browsers -> AdminNames \cup {NoAdmin}]
  PROVE  LoginInv'
<1>1. LoginTyped
  BY DEF LoginInv
<1>2. /\ \A c \in Browsers : login'[c] = IF c = b THEN q ELSE login[c]
      /\ login' \in [Browsers -> LoginRecord] /\ \A c \in Browsers : AtWork(login'[c])
  BY <1>1, LoginNext
<1>3. LoginTyped'
  BY <1>1, <1>2 DEF LoginTyped, LoginTypeOK
<1>4. ASSUME NEW m \in AdminNames
      PROVE  /\ guesses'[m] < AdminLockout
             /\ admin'[m] # NoAdmin /\ ~Locked(m)' =>
                  guesses'[m] + Cardinality(Uncompared(m)') <= admin'[m].attempts
  <2>1. Uncompared(m)' \subseteq Uncompared(m)
    <3>1. counted \subseteq Browsers
      BY <1>1 DEF LoginTyped, LoginTypeOK
    <3> QED
      BY <1>2, <3>1 DEF Uncompared
  <2> QED
    BY <1>3, <2>1, FewerAhead
<1>5. \A c \in Browsers : login'[c].step = "confirm" => c \notin counted'
  BY <1>2 DEF LoginInv, AttemptsAhead
<1> QED
  BY <1>3, <1>4, <1>5 DEF LoginInv, AttemptsAhead

\* A step that changes accounts and leaves the browsers alone.
LEMMA AccountStep ==
  ASSUME LoginInv, UNCHANGED <<login, session, counted, guesses>>,
         admin' \in [AdminNames -> {NoAdmin} \cup AdminRecord],
         \A m \in AdminNames : admin'[m] # NoAdmin =>
           \/ admin'[m].attempts >= AdminLockout
           \/ admin[m] # NoAdmin /\ admin'[m].attempts = admin[m].attempts
  PROVE  LoginInv'
<1>1. LoginTyped'
  BY DEF LoginInv, LoginTyped, LoginTypeOK
<1>2. ASSUME NEW m \in AdminNames
      PROVE  /\ guesses'[m] < AdminLockout
             /\ admin'[m] # NoAdmin /\ ~Locked(m)' =>
                  guesses'[m] + Cardinality(Uncompared(m)') <= admin'[m].attempts
  <2>1. Uncompared(m)' \subseteq Uncompared(m) /\ guesses'[m] = guesses[m]
    BY DEF Uncompared
  <2> QED
    BY <1>1, <2>1, FewerAhead
<1>3. \A b \in Browsers : login'[b].step = "confirm" => b \notin counted'
  BY DEF LoginInv, AttemptsAhead
<1> QED
  BY <1>1, <1>2, <1>3 DEF LoginInv, AttemptsAhead

\* The counter of an account is cleared, by a browser or the control socket.
LEMMA ClearStep ==
  ASSUME LoginInv, NEW n \in AdminNames, NEW a \in AdminRecord,
         admin' = [admin EXCEPT ![n] = a], Clear(n), session' = session,
         login' \in [Browsers -> LoginRecord],
         \A c \in Browsers : AtWork(login'[c]) /\ login'[c].name = login[c].name,
         \A c \in Browsers : login'[c].step \in {"compare", "confirm"} =>
                               login'[c].step = login[c].step
  PROVE  LoginInv'
<1>1. LoginTyped
  BY DEF LoginInv
<1>2. /\ admin' \in [AdminNames -> {NoAdmin} \cup AdminRecord]
      /\ \A m \in AdminNames : admin'[m] = IF m = n THEN a ELSE admin[m]
  BY <1>1, AccountNext
<1>3. /\ counted' \subseteq counted /\ counted \subseteq Browsers
      /\ \A c \in counted' : login[c].name # n
  BY <1>1 DEF Clear, LoginTyped, LoginTypeOK
<1>4. \A m \in AdminNames : guesses'[m] = IF m = n THEN 0 ELSE guesses[m]
  BY <1>1 DEF Clear, LoginTyped, LoginTypeOK
<1>5. LoginTyped'
  <2>1. guesses' \in [AdminNames -> Nat]
    BY <1>1 DEF Clear, LoginTyped, LoginTypeOK
  <2> QED
    BY <1>1, <1>2, <1>3, <2>1 DEF LoginTyped, LoginTypeOK
<1>6. ASSUME NEW m \in AdminNames, m # n
      PROVE  /\ guesses'[m] < AdminLockout
             /\ admin'[m] # NoAdmin /\ ~Locked(m)' =>
                  guesses'[m] + Cardinality(Uncompared(m)') <= admin'[m].attempts
  <2>1. Uncompared(m)' \subseteq Uncompared(m)
    BY <1>3 DEF Uncompared
  <2> QED
    BY <1>2, <1>4, <1>5, <1>6, <2>1, FewerAhead
<1>7. /\ guesses'[n] < AdminLockout
      /\ admin'[n] # NoAdmin /\ ~Locked(n)' =>
           guesses'[n] + Cardinality(Uncompared(n)') <= admin'[n].attempts
  <2>1. Uncompared(n)' = {}
    BY <1>3 DEF Uncompared
  <2> QED
    BY <1>4, <1>5, <2>1, ClearedAhead
<1>8. \A c \in Browsers : login'[c].step = "confirm" => c \notin counted'
  BY <1>3 DEF LoginInv, AttemptsAhead
<1> QED
  BY <1>5, <1>6, <1>7, <1>8 DEF LoginInv, AttemptsAhead

LEMMA CompareStep ==
  ASSUME LoginInv, NEW b \in Browsers, CompareAdminKeys(b)
  PROVE  LoginInv'
<1>1. LoginTyped /\ AtWork(login[b]) /\ login[b].step \in {"compare", "confirm"}
  BY DEF LoginInv, LoginTyped, CompareAdminKeys
<1>2. session' = session
  BY DEF CompareAdminKeys
<1> PICK n \in AdminNames : n = login[b].name
  BY <1>1 DEF AtWork
<1>3. session' \in [Browsers -> AdminNames \cup {NoAdmin}]
  BY <1>1, <1>2 DEF LoginTyped, LoginTypeOK
<1>4. CASE End(b) /\ UNCHANGED <<admin, counted, guesses>>
  BY <1>3, <1>4, QuietStep, RestAtWork DEF End
<1>5. CASE /\ admin[n] # NoAdmin /\ ~Locked(n)
           /\ guesses' = IF b \in counted THEN [guesses EXCEPT ![n] = @ + 1] ELSE guesses
           /\ End(b)
           /\ UNCHANGED <<admin, counted>>
  <2>1. CASE b \notin counted
    BY <1>3, <1>5, <2>1, QuietStep, RestAtWork DEF End
  <2>2. CASE b \in counted
    <3>1. b \in Uncompared(n)
      BY <1>1, <2>2 DEF LoginInv, AttemptsAhead, Uncompared
    <3>2. IsFiniteSet(Uncompared(n)) /\ Cardinality(Uncompared(n)) \in Nat
      BY <1>1, UncomparedTyped
    <3>3. login' = [login EXCEPT ![b] = AtRest]
      BY <1>5 DEF End
    <3>4. /\ \A c \in Browsers : login'[c] = IF c = b THEN AtRest ELSE login[c]
          /\ login' \in [Browsers -> LoginRecord] /\ \A c \in Browsers : AtWork(login'[c])
      BY <1>1, <3>3, RestAtWork, LoginNext
    <3>5. counted \subseteq Browsers /\ guesses \in [AdminNames -> Nat]
      BY <1>1 DEF LoginTyped, LoginTypeOK
    <3>6. guesses' = [guesses EXCEPT ![n] = @ + 1]
      BY <1>5, <2>2
    <3>7. \A m \in AdminNames : guesses'[m] = IF m = n THEN guesses[n] + 1 ELSE guesses[m]
      BY <1>2, <3>5, <3>6
    <3>8. guesses' \in [AdminNames -> Nat]
      BY <1>2, <3>5, <3>6
    <3>9. LoginTyped'
      BY <1>1, <1>3, <1>5, <3>4, <3>8 DEF LoginTyped, LoginTypeOK
    <3>10. Uncompared(n)' = Uncompared(n) \ {b}
      <4>1. counted' = counted
        BY <1>5
      <4>2. \A c : c \in Uncompared(n)' <=> c \in Uncompared(n) /\ c # b
        BY <3>4, <3>5, <4>1, RestAtWork DEF Uncompared
      <4> QED
        BY <4>2
    <3>11. Cardinality(Uncompared(n)') = Cardinality(Uncompared(n)) - 1
      BY <3>1, <3>2, <3>10, FS_RemoveElement
    <3>12. guesses[n] + Cardinality(Uncompared(n)) <= admin[n].attempts
      BY <1>2, <1>5 DEF LoginInv, AttemptsAhead
    <3>13. admin[n].attempts \in 0..AdminLockout /\ admin[n].attempts < AdminLockout
      BY <1>1, <1>2, <1>5, AccountTyped, AdminAssumption DEF Locked
    <3>14. Cardinality(Uncompared(n)) >= 1
      BY <3>2, <3>10, <3>11, FS_CardinalityType, FS_RemoveElement, FS_Subset
    <3>15. /\ guesses'[n] < AdminLockout
           /\ guesses'[n] + Cardinality(Uncompared(n)') <= admin'[n].attempts
      BY <1>2, <1>5, <3>2, <3>5, <3>7, <3>11, <3>12, <3>13, <3>14, AdminAssumption
    <3>16. ASSUME NEW m \in AdminNames, m # n
           PROVE  /\ guesses'[m] < AdminLockout
                  /\ admin'[m] # NoAdmin /\ ~Locked(m)' =>
                       guesses'[m] + Cardinality(Uncompared(m)') <= admin'[m].attempts
      <4>1. Uncompared(m)' \subseteq Uncompared(m)
        BY <1>5, <3>4, <3>5, RestAtWork DEF Uncompared
      <4> QED
        BY <1>5, <3>7, <3>9, <3>16, <4>1, FewerAhead
    <3>17. \A c \in Browsers : login'[c].step = "confirm" => c \notin counted'
      BY <1>5, <3>4, RestAtWork DEF LoginInv, AttemptsAhead
    <3>18. \A m \in AdminNames :
             /\ guesses'[m] < AdminLockout
             /\ admin'[m] # NoAdmin /\ ~Locked(m)' =>
                  guesses'[m] + Cardinality(Uncompared(m)') <= admin'[m].attempts
      BY <3>15, <3>16
    <3> QED
      BY <3>9, <3>17, <3>18 DEF LoginInv, AttemptsAhead
  <2> QED
    BY <2>1, <2>2
<1>6. CASE /\ admin[n] # NoAdmin
           /\ admin' = [admin EXCEPT ![n].attempts = 0]
           /\ Clear(n)
           /\ login' = [login EXCEPT ![b].step = IF @ = "compare" THEN "record" ELSE "set"]
  <2> DEFINE q == [login[b] EXCEPT !.step = IF @ = "compare" THEN "record" ELSE "set"]
             a == [admin[n] EXCEPT !.attempts = 0]
  <2>1. admin[n] \in AdminRecord /\ 0 \in 0..AdminLockout
    BY <1>1, <1>2, <1>6, AccountTyped, AdminAssumption
  <2>2. a \in AdminRecord /\ admin' = [admin EXCEPT ![n] = a]
    BY <1>6, <2>1, AttemptsSet
  <2>3. AtWork(q) /\ q.name = login[b].name /\ q.step \in {"record", "set"}
    BY <1>1 DEF AtWork, LoginRecord, AtRest
  <2>4. login' = [login EXCEPT ![b] = q]
    BY <1>6
  <2> HIDE DEF q, a
  <2>5. /\ \A c \in Browsers : login'[c] = IF c = b THEN q ELSE login[c]
        /\ login' \in [Browsers -> LoginRecord] /\ \A c \in Browsers : AtWork(login'[c])
    BY <1>1, <2>3, <2>4, LoginNext
  <2>6. \A c \in Browsers : AtWork(login'[c]) /\ login'[c].name = login[c].name
    BY <2>3, <2>5
  <2>7. \A c \in Browsers : login'[c].step \in {"compare", "confirm"} =>
                             login'[c].step = login[c].step
    BY <2>3, <2>5
  <2> QED
    BY <1>2, <1>6, <2>2, <2>5, <2>6, <2>7, ClearStep
<1> QED
  BY <1>4, <1>5, <1>6 DEF CompareAdminKeys

\* What a browser does apart from the two that count.
LEMMA BrowserStep ==
  ASSUME LoginInv, NEW b \in Browsers,
         \/ \E p \in Passwords : ChangePassword(b, p) \/ SetNewPassword(b, p)
         \/ SetLastLoginInformation(b) \/ StartSession(b) \/ AuthorisationChecks(b)
  PROVE  LoginInv'
<1>1. LoginTyped /\ AtWork(login[b])
  BY DEF LoginInv, LoginTyped
<1>2. session \in [Browsers -> AdminNames \cup {NoAdmin}]
  BY <1>1 DEF LoginTyped, LoginTypeOK
<1>3. ASSUME NEW p \in Passwords, ChangePassword(b, p)
      PROVE  LoginInv'
  <2> DEFINE q == [step |-> "confirm", name |-> session[b], typed |-> p]
  <2>1. session[b] \in AdminNames
    BY <1>2, <1>3 DEF ChangePassword
  <2>2. AtWork(q) /\ q.step = "confirm"
    BY <2>1 DEF AtWork, LoginRecord
  <2>3. login' = [login EXCEPT ![b] = q]
    BY <1>3 DEF ChangePassword
  <2> HIDE DEF q
  <2> QED
    BY <1>2, <1>3, <2>2, <2>3, QuietStep DEF ChangePassword
<1>4. CASE SetLastLoginInformation(b)
  <2> DEFINE q == [login[b] EXCEPT !.step = "enter"]
  <2>1. AtWork(q) /\ q.step = "enter"
    BY <1>1, <1>4 DEF AtWork, LoginRecord, AtRest, SetLastLoginInformation
  <2>2. login' = [login EXCEPT ![b] = q] \/ login' = [login EXCEPT ![b] = AtRest]
    BY <1>4 DEF SetLastLoginInformation, End
  <2> HIDE DEF q
  <2> QED
    BY <1>2, <1>4, <2>1, <2>2, RestAtWork, QuietStep DEF SetLastLoginInformation
<1>5. CASE StartSession(b)
  <2>1. login[b].name \in AdminNames
    BY <1>1, <1>5 DEF AtWork, StartSession
  <2>2. session' \in [Browsers -> AdminNames \cup {NoAdmin}]
    BY <1>2, <1>5, <2>1 DEF StartSession
  <2> QED
    BY <1>5, <2>2, RestAtWork, QuietStep DEF StartSession, End
<1>6. CASE AuthorisationChecks(b)
  <2>1. session' \in [Browsers -> AdminNames \cup {NoAdmin}]
    BY <1>2, <1>6 DEF AuthorisationChecks
  <2>2. login' = [login EXCEPT ![b] = AtRest]
    BY <1>1, <1>6 DEF AuthorisationChecks, LoginTyped, LoginTypeOK
  <2> QED
    BY <1>6, <2>1, <2>2, RestAtWork, QuietStep DEF AuthorisationChecks
<1>7. ASSUME NEW p \in Passwords, SetNewPassword(b, p)
      PROVE  LoginInv'
  <2>1. PICK n \in AdminNames : n = login[b].name
    BY <1>1, <1>7 DEF AtWork, SetNewPassword
  <2> DEFINE a == WithPassword(admin[n], p)
  <2>2. admin \in [AdminNames -> {NoAdmin} \cup AdminRecord]
    BY <1>1 DEF LoginTyped, LoginTypeOK
  <2>3. CASE admin' = admin
    BY <1>2, <1>7, <2>3, RestAtWork, QuietStep DEF SetNewPassword, End
  <2>4. CASE admin[n] # NoAdmin /\ admin' = [admin EXCEPT ![n] = a]
    <3>1. admin[n] \in AdminRecord
      BY <1>1, <2>1, <2>4, AccountTyped
    <3>2. a \in AdminRecord /\ a.attempts = admin[n].attempts
      BY <3>1, PasswordSet
    <3> HIDE DEF a
    <3>3. /\ admin' \in [AdminNames -> {NoAdmin} \cup AdminRecord]
          /\ \A m \in AdminNames : admin'[m] = IF m = n THEN a ELSE admin[m]
      BY <1>1, <2>1, <2>4, <3>2, AccountNext
    <3>4. login' = [login EXCEPT ![b] = AtRest] /\ UNCHANGED <<session, counted, guesses>>
      BY <1>7 DEF SetNewPassword, End
    <3>5. /\ \A c \in Browsers : login'[c] = IF c = b THEN AtRest ELSE login[c]
          /\ login' \in [Browsers -> LoginRecord] /\ \A c \in Browsers : AtWork(login'[c])
      BY <1>1, <3>4, RestAtWork, LoginNext
    <3>6. LoginTyped'
      BY <1>1, <3>3, <3>4, <3>5 DEF LoginTyped, LoginTypeOK
    <3>7. ASSUME NEW m \in AdminNames
          PROVE  /\ guesses'[m] < AdminLockout
                 /\ admin'[m] # NoAdmin /\ ~Locked(m)' =>
                      guesses'[m] + Cardinality(Uncompared(m)') <= admin'[m].attempts
      <4>1. Uncompared(m)' \subseteq Uncompared(m)
        <5>1. counted \subseteq Browsers
          BY <1>1 DEF LoginTyped, LoginTypeOK
        <5> QED
          BY <3>4, <3>5, <5>1, RestAtWork DEF Uncompared
      <4> QED
        BY <2>4, <3>2, <3>3, <3>4, <3>6, <4>1, FewerAhead
    <3>8. \A c \in Browsers : login'[c].step = "confirm" => c \notin counted'
      BY <3>4, <3>5, RestAtWork DEF LoginInv, AttemptsAhead
    <3> QED
      BY <3>6, <3>7, <3>8 DEF LoginInv, AttemptsAhead
  <2> QED
    BY <1>7, <2>1, <2>3, <2>4 DEF SetNewPassword
<1> QED
  BY <1>3, <1>4, <1>5, <1>6, <1>7

\* The control socket.
LEMMA SocketStep ==
  ASSUME LoginInv, NEW n \in AdminNames,
         \/ \E p \in Passwords : CreateAdminUser(n, p) \/ SetAdminPassword(n, p)
         \/ DeleteAdminUser(n) \/ SetAdminUserLock(n) \/ SetAdminUserUnlock(n)
  PROVE  LoginInv'
<1>1. LoginTyped
  BY DEF LoginInv
<1>2. /\ login \in [Browsers -> LoginRecord] /\ \A c \in Browsers : AtWork(login[c])
      /\ admin \in [AdminNames -> {NoAdmin} \cup AdminRecord]
  BY <1>1 DEF LoginTyped, LoginTypeOK
<1>3. admin[n] # NoAdmin => admin[n] \in AdminRecord
  BY <1>2
<1>4. 0 \in 0..AdminLockout /\ AdminLockout \in 0..AdminLockout
  BY AdminAssumption
<1>5. ASSUME NEW p \in Passwords, CreateAdminUser(n, p)
      PROVE  LoginInv'
  <2> DEFINE a == [attempts |-> 0, password |-> p, salt |-> 16]
  <2>1. a \in AdminRecord /\ admin' = [admin EXCEPT ![n] = a]
    BY <1>4, <1>5 DEF AdminRecord, CreateAdminUser
  <2> HIDE DEF a
  <2> QED
    BY <1>2, <1>5, <2>1, ClearStep DEF CreateAdminUser
<1>6. CASE SetAdminUserUnlock(n)
  <2> DEFINE a == [admin[n] EXCEPT !.attempts = 0]
  <2>1. a \in AdminRecord /\ admin' = [admin EXCEPT ![n] = a]
    BY <1>3, <1>4, <1>6, AttemptsSet DEF SetAdminUserUnlock
  <2> HIDE DEF a
  <2> QED
    BY <1>2, <1>6, <2>1, ClearStep DEF SetAdminUserUnlock
<1>7. ASSUME NEW p \in Passwords, SetAdminPassword(n, p)
      PROVE  LoginInv'
  <2> DEFINE a == WithPassword(admin[n], p)
  <2>1. /\ a \in AdminRecord /\ a.attempts = admin[n].attempts
        /\ admin[n] # NoAdmin /\ admin' = [admin EXCEPT ![n] = a]
    BY <1>3, <1>7, PasswordSet DEF SetAdminPassword
  <2> HIDE DEF a
  <2>2. /\ admin' \in [AdminNames -> {NoAdmin} \cup AdminRecord]
        /\ \A m \in AdminNames : admin'[m] = IF m = n THEN a ELSE admin[m]
    BY <1>1, <2>1, AccountNext
  <2> QED
    BY <1>7, <2>1, <2>2, AccountStep DEF SetAdminPassword
<1>8. CASE SetAdminUserLock(n)
  <2> DEFINE a == [admin[n] EXCEPT !.attempts = AdminLockout]
  <2>1. /\ a \in AdminRecord /\ a.attempts = AdminLockout
        /\ admin' = [admin EXCEPT ![n] = a]
    BY <1>3, <1>4, <1>8, AttemptsSet DEF SetAdminUserLock
  <2> HIDE DEF a
  <2>2. /\ admin' \in [AdminNames -> {NoAdmin} \cup AdminRecord]
        /\ \A m \in AdminNames : admin'[m] = IF m = n THEN a ELSE admin[m]
    BY <1>1, <2>1, AccountNext
  <2>3. \A m \in AdminNames : admin'[m] # NoAdmin =>
          \/ admin'[m].attempts >= AdminLockout
          \/ admin[m] # NoAdmin /\ admin'[m].attempts = admin[m].attempts
    BY <2>1, <2>2, AdminAssumption
  <2> QED
    BY <1>8, <2>2, <2>3, AccountStep DEF SetAdminUserLock
<1>9. CASE DeleteAdminUser(n)
  <2>1. \A m \in AdminNames : admin'[m] = NoAdmin \/ admin'[m] = admin[m]
    BY <1>9 DEF DeleteAdminUser
  <2>2. admin' \in [AdminNames -> {NoAdmin} \cup AdminRecord]
    BY <1>2, <1>9 DEF DeleteAdminUser
  <2> QED
    BY <1>9, <2>1, <2>2, AccountStep DEF DeleteAdminUser
<1> QED
  BY <1>5, <1>6, <1>7, <1>8, <1>9

LEMMA LoginStep == LoginInv /\ [NextLogin]_logins => LoginInv'
<1> SUFFICES ASSUME LoginInv, [NextLogin]_logins PROVE LoginInv'
  OBVIOUS
<1>1. CASE UNCHANGED logins
  <2>1. LoginTyped'
    BY <1>1 DEF LoginInv, LoginTyped, LoginTypeOK, logins
  <2>2. \A n : Uncompared(n)' = Uncompared(n) /\ (Locked(n)' <=> Locked(n))
    BY <1>1 DEF Uncompared, Locked, logins
  <2>3. AttemptsAhead'
    BY <1>1, <2>2 DEF LoginInv, AttemptsAhead, logins
  <2> QED
    BY <2>1, <2>3 DEF LoginInv
<1>2. ASSUME NEW b \in Browsers, NEW p \in Passwords, NEW n \in AdminNames,
             IncrementAdminAuthenticationAttempt(b, n, p)
      PROVE  LoginInv'
  BY <1>2, IncrementStep
<1>3. ASSUME NEW b \in Browsers, NEW p \in Passwords,
             ChangePassword(b, p) \/ SetNewPassword(b, p)
      PROVE  LoginInv'
  BY <1>3, BrowserStep
<1>4. ASSUME NEW b \in Browsers, CompareAdminKeys(b)
      PROVE  LoginInv'
  BY <1>4, CompareStep
<1>5. ASSUME NEW b \in Browsers,
             SetLastLoginInformation(b) \/ StartSession(b) \/ AuthorisationChecks(b)
      PROVE  LoginInv'
  BY <1>5, BrowserStep
<1>6. ASSUME NEW n \in AdminNames, NEW p \in Passwords,
             CreateAdminUser(n, p) \/ SetAdminPassword(n, p)
      PROVE  LoginInv'
  BY <1>6, SocketStep
<1>7. ASSUME NEW n \in AdminNames,
             DeleteAdminUser(n) \/ SetAdminUserLock(n) \/ SetAdminUserUnlock(n)
      PROVE  LoginInv'
  BY <1>7, SocketStep
<1> QED
  BY <1>1, <1>2, <1>3, <1>4, <1>5, <1>6, <1>7 DEF NextLogin

(* Accounts, logins, sessions and counters stay in their types, whatever   *)
(* the browsers and the control socket do (internal/data/ui.go).           *)
THEOREM LoginTypeTheorem == SpecLogin => []LoginTypeOK
<1>1. LoginInv => LoginTypeOK
  BY DEF LoginInv, LoginTyped
<1> QED
  BY <1>1, LoginInit, LoginStep, PTL DEF SpecLogin

(* However many browsers there are and whatever the limit is, fewer        *)
(* passwords than the limit are compared in vain before the counter of the *)
(* account is cleared (CompareAdminKeys, internal/data/ui.go).             *)
THEOREM GuessesTheorem == SpecLogin => []AdminGuessesBounded
<1>1. LoginInv => AdminGuessesBounded
  BY DEF LoginInv, AttemptsAhead, AdminGuessesBounded
<1> QED
  BY <1>1, LoginInit, LoginStep, PTL DEF SpecLogin

-----------------------------------------------------------------------------
(***************************************************************************)
(* Settings and old users.                                                 *)
(***************************************************************************)

\* A node that puts the settings has put those before the next one.
Ready(q) ==
  /\ q.step = "settings" =>
       \A i \in 1..Len(Order) : i < q.next => values[Order[i]] # Nothing
  /\ q.step = "up" => \A k \in SettingKeys : values[k] # Nothing
  /\ q.step \notin {"settings", "up"} => q.next = 1

SectionsKept ==
  \A s \in DOMAIN Section :
    saved[s] # Nothing => \A k \in Section[s] : values[k] = saved[s]

BootInv ==
  /\ BootstrapTypeOK
  /\ \A n \in Nodes : Ready(boot[n])
  /\ SectionsKept
  /\ MigratedUsersWhole

LEMMA OrderTyped ==
  /\ Len(Order) \in Nat \ {0}
  /\ \A i \in 1..Len(Order) : Order[i] \in SettingKeys
  /\ \A k \in SettingKeys : \E i \in 1..Len(Order) : k = Order[i]
<1>1. Order \in Seq(SettingKeys) /\ Order # <<>>
  BY BootstrapAssumption DEF SettingKeys
<1>2. Len(Order) \in Nat \ {0} /\ DOMAIN Order = 1..Len(Order)
  BY <1>1
<1> QED
  BY <1>2 DEF SettingKeys

\* One node goes on, and what was put stays.
LEMMA BootNext ==
  ASSUME BootInv, NEW n \in Nodes, NEW q \in BootRecord, boot' = [boot EXCEPT ![n] = q],
         \A k \in SettingKeys : values[k] # Nothing => values'[k] # Nothing,
         Ready(q)'
  PROVE  boot' \in [Nodes -> BootRecord] /\ (\A m \in Nodes : Ready(boot[m]))'
<1>1. boot \in [Nodes -> BootRecord]
  BY DEF BootInv, BootstrapTypeOK
<1>2. \A m \in Nodes : Ready(boot[m]) /\ boot'[m] = IF m = n THEN q ELSE boot[m]
  BY <1>1 DEF BootInv
<1>3. ASSUME NEW m \in Nodes, m # n
      PROVE  Ready(boot[m])'
  <2>1. PICK r : r = boot[m] /\ r = boot'[m]
    BY <1>2, <1>3
  <2>2. Ready(r)
    BY <1>2, <2>1
  <2>3. Ready(r)'
    BY <2>2, OrderTyped DEF Ready
  <2> QED
    BY <2>1, <2>3 DEF Ready
<1> QED
  BY <1>1, <1>2, <1>3

LEMMA BootInit == InitBootstrap => BootInv
<1> SUFFICES ASSUME InitBootstrap PROVE BootInv
  OBVIOUS
<1>1. Down \in BootRecord /\ Down.step = "down" /\ Down.next = 1
  BY OrderTyped DEF Down, BootRecord, Collections
<1>2. BootstrapTypeOK
  <2>1. values \in [SettingKeys -> {Nothing} \cup Nodes \cup 1..SettingSaves]
    BY DEF InitBootstrap
  <2>2. policies \in [Collections -> [JsonNames -> {"absent", "json", "admin"}]]
    BY DEF InitBootstrap
  <2>3. oldUser \in [OldUsers -> 0..Whole]
    BY DEF InitBootstrap, Whole
  <2>4. boot \in [Nodes -> BootRecord]
    BY <1>1 DEF InitBootstrap
  <2> QED
    BY <2>1, <2>2, <2>3, <2>4 DEF InitBootstrap, BootstrapTypeOK
<1>3. \A n \in Nodes : Ready(boot[n])
  BY <1>1 DEF InitBootstrap, Ready
<1> QED
  BY <1>2, <1>3 DEF InitBootstrap, BootInv, SectionsKept, MigratedUsersWhole

\* A node that reads, or writes no setting.
LEMMA BootGoesOn ==
  ASSUME BootInv, NEW n \in Nodes, NEW q \in BootRecord, boot' = [boot EXCEPT ![n] = q],
         UNCHANGED <<values, saved>>, Ready(q),
         policies' \in [Collections -> [JsonNames -> {"absent", "json", "admin"}]],
         oldUser' \in [OldUsers -> 0..Whole], migrated' \in BOOLEAN, MigratedUsersWhole'
  PROVE  BootInv'
<1>1. Ready(q)'
  BY OrderTyped DEF Ready
<1>2. boot' \in [Nodes -> BootRecord] /\ (\A m \in Nodes : Ready(boot[m]))'
  BY <1>1, BootNext
<1>3. BootstrapTypeOK'
  BY <1>2 DEF BootInv, BootstrapTypeOK
<1>4. SectionsKept'
  BY DEF BootInv, SectionsKept
<1> QED
  BY <1>2, <1>3, <1>4 DEF BootInv

LEMMA NodeBootStep ==
  ASSUME BootInv, NEW n \in Nodes,
         Load(n) \/ Crash(n) \/ MigrateFromSql(n) \/ Migrated(n) \/ Look(n) \/ Imported(n)
  PROVE  BootInv'
<1>1. /\ BootstrapTypeOK /\ boot \in [Nodes -> BootRecord] /\ boot[n] \in BootRecord
      /\ Ready(boot[n]) /\ MigratedUsersWhole
  BY DEF BootInv, BootstrapTypeOK
<1>2. Down \in BootRecord /\ Ready(Down)
  BY OrderTyped DEF Down, BootRecord, Collections, Ready
<1>3. /\ policies \in [Collections -> [JsonNames -> {"absent", "json", "admin"}]]
      /\ oldUser \in [OldUsers -> 0..Whole] /\ migrated \in BOOLEAN
  BY <1>1 DEF BootstrapTypeOK
<1>4. CASE Load(n)
  <2>1. CASE boot' = [boot EXCEPT ![n].step = IF n \in Migrating THEN "migrate" ELSE "look"]
    <3> DEFINE q == [boot[n] EXCEPT !.step = IF n \in Migrating THEN "migrate" ELSE "look"]
    <3>1. q \in BootRecord /\ Ready(q) /\ boot' = [boot EXCEPT ![n] = q]
      BY <1>1, <1>4, <2>1 DEF BootRecord, Ready, Load
    <3> HIDE DEF q
    <3> QED
      BY <1>1, <1>3, <1>4, <3>1, BootGoesOn DEF Load, MigratedUsersWhole
  <2>2. CASE SomeUp /\ boot' = [boot EXCEPT ![n].step = "up"]
    <3> DEFINE q == [boot[n] EXCEPT !.step = "up"]
    <3>1. \A k \in SettingKeys : values[k] # Nothing
      BY <2>2 DEF SomeUp, BootInv, Ready
    <3>2. q \in BootRecord /\ Ready(q) /\ boot' = [boot EXCEPT ![n] = q]
      BY <1>1, <1>4, <2>2, <3>1 DEF BootRecord, Ready, Load
    <3> HIDE DEF q
    <3> QED
      BY <1>1, <1>3, <1>4, <3>2, BootGoesOn DEF Load, MigratedUsersWhole
  <2> QED
    BY <1>4, <2>1, <2>2 DEF Load
<1>5. CASE Crash(n)
  BY <1>1, <1>2, <1>3, <1>5, BootGoesOn DEF Crash, MigratedUsersWhole
<1>6. CASE MigrateFromSql(n)
  <2> DEFINE q == IF migrated THEN [boot[n] EXCEPT !.step = "look"]
                  ELSE [boot[n] EXCEPT !.step = "users", !.left = OldUsers]
  <2>1. q \in BootRecord /\ Ready(q)
    BY <1>1, <1>6 DEF BootRecord, Ready, MigrateFromSql
  <2>2. boot' = [boot EXCEPT ![n] = q]
    BY <1>6 DEF MigrateFromSql
  <2> HIDE DEF q
  <2> QED
    BY <1>1, <1>3, <1>6, <2>1, <2>2, BootGoesOn DEF MigrateFromSql, MigratedUsersWhole
<1>7. CASE Migrated(n)
  <2> DEFINE q == [boot[n] EXCEPT !.step = "look"]
  <2>1. q \in BootRecord /\ Ready(q) /\ boot' = [boot EXCEPT ![n] = q]
    BY <1>1, <1>7 DEF BootRecord, Ready, Migrated
  <2>2. MigratedUsersWhole'
    BY <1>7 DEF Migrated, MigratedUsersWhole
  <2>3. UNCHANGED <<values, policies, oldUser, saved>> /\ migrated' = TRUE
    BY <1>7 DEF Migrated
  <2> HIDE DEF q
  <2> QED
    BY <1>3, <2>1, <2>2, <2>3, BootGoesOn
<1>8. CASE Look(n)
  <2> DEFINE left == IF \A m \in JsonNames : policies[boot[n].collection][m] = "absent"
                       THEN JsonNames ELSE {}
             q == [boot[n] EXCEPT !.step = "import", !.left = left]
  <2>1. left \subseteq JsonNames
    OBVIOUS
  <2>2. boot' = [boot EXCEPT ![n] = q]
    BY <1>8 DEF Look
  <2> HIDE DEF left
  <2>3. q \in BootRecord /\ Ready(q)
    BY <1>1, <1>8, <2>1 DEF BootRecord, Ready, Look
  <2> HIDE DEF q
  <2> QED
    BY <1>1, <1>3, <1>8, <2>2, <2>3, BootGoesOn DEF Look, MigratedUsersWhole
<1>9. CASE Imported(n)
  <2> DEFINE q == IF boot[n].collection = "acls"
                    THEN [boot[n] EXCEPT !.step = "look", !.collection = "groups"]
                    ELSE [boot[n] EXCEPT !.step = "settings"]
  <2>1. boot[n].next = 1
    BY <1>1, <1>9 DEF Ready, Imported
  <2>2. q \in BootRecord /\ Ready(q)
    <3>1. CASE boot[n].collection = "acls"
      BY <1>1, <2>1, <3>1 DEF BootRecord, Ready, Collections
    <3>2. CASE boot[n].collection # "acls"
      <4>1. q \in BootRecord /\ q.step = "settings" /\ q.next = 1
        BY <1>1, <2>1, <3>2 DEF BootRecord
      <4> QED
        BY <4>1 DEF Ready
    <3> QED
      BY <3>1, <3>2
  <2>3. boot' = [boot EXCEPT ![n] = q]
    BY <1>9 DEF Imported
  <2> HIDE DEF q
  <2> QED
    BY <1>1, <1>3, <1>9, <2>2, <2>3, BootGoesOn DEF Imported, MigratedUsersWhole
<1> QED
  BY <1>4, <1>5, <1>6, <1>7, <1>8, <1>9

LEMMA OldUserStep ==
  ASSUME BootInv, NEW n \in Nodes, NEW u \in OldUsers,
         CreateOldUser(n, u) \/ UpdateOldUser(n, u)
  PROVE  BootInv'
<1>1. /\ BootstrapTypeOK /\ boot \in [Nodes -> BootRecord] /\ boot[n] \in BootRecord
      /\ Ready(boot[n]) /\ MigratedUsersWhole
  BY DEF BootInv, BootstrapTypeOK
<1>2. Down \in BootRecord /\ Ready(Down)
  BY OrderTyped DEF Down, BootRecord, Collections, Ready
<1>3. /\ policies \in [Collections -> [JsonNames -> {"absent", "json", "admin"}]]
      /\ oldUser \in [OldUsers -> 0..Whole] /\ migrated \in BOOLEAN
  BY <1>1 DEF BootstrapTypeOK
<1>4. UNCHANGED <<values, policies, migrated, saved>>
  BY DEF CreateOldUser, UpdateOldUser
<1>5. ASSUME oldUser' # oldUser PROVE ~migrated
  BY <1>1, <1>5 DEF CreateOldUser, UpdateOldUser, Creatable, MigratedUsersWhole, Whole
<1>6. oldUser' \in [OldUsers -> 0..Whole]
  BY <1>3 DEF CreateOldUser, UpdateOldUser, Whole
<1>7. MigratedUsersWhole'
  BY <1>1, <1>4, <1>5 DEF MigratedUsersWhole
<1>8. CASE boot' = [boot EXCEPT ![n] = Down]
  BY <1>2, <1>3, <1>4, <1>6, <1>7, <1>8, BootGoesOn
<1>9. CASE boot' = [boot EXCEPT ![n].left = @ \ {u}]
  <2> DEFINE q == [boot[n] EXCEPT !.left = @ \ {u}]
  <2>1. q \in BootRecord /\ Ready(q) /\ boot' = [boot EXCEPT ![n] = q]
    BY <1>1, <1>9 DEF BootRecord, Ready
  <2> HIDE DEF q
  <2> QED
    BY <1>3, <1>4, <1>6, <1>7, <2>1, BootGoesOn
<1>10. CASE boot' = boot
  <2>1. boot' = [boot EXCEPT ![n] = boot[n]]
    BY <1>1, <1>10
  <2> QED
    BY <1>1, <1>3, <1>4, <1>6, <1>7, <2>1, BootGoesOn
<1> QED
  BY <1>8, <1>9, <1>10 DEF CreateOldUser, UpdateOldUser

LEMMA ImportStep ==
  ASSUME BootInv, NEW n \in Nodes, NEW name \in JsonNames, Import(n, name)
  PROVE  BootInv'
<1>1. /\ BootstrapTypeOK /\ boot \in [Nodes -> BootRecord] /\ boot[n] \in BootRecord
      /\ Ready(boot[n]) /\ MigratedUsersWhole
  BY DEF BootInv, BootstrapTypeOK
<1> DEFINE q == [boot[n] EXCEPT !.left = @ \ {name}]
<1>2. q \in BootRecord /\ Ready(q) /\ boot' = [boot EXCEPT ![n] = q]
  BY <1>1 DEF BootRecord, Ready, Import
<1>3. boot[n].collection \in Collections
  BY <1>1 DEF BootRecord
<1>4. policies' \in [Collections -> [JsonNames -> {"absent", "json", "admin"}]]
  BY <1>1, <1>3 DEF BootstrapTypeOK, Import
<1> HIDE DEF q
<1> QED
  BY <1>1, <1>2, <1>4, BootGoesOn DEF Import, MigratedUsersWhole, BootstrapTypeOK

LEMMA LoadSettingStep ==
  ASSUME BootInv, NEW n \in Nodes, LoadSetting(n)
  PROVE  BootInv'
<1>1. /\ BootstrapTypeOK /\ boot \in [Nodes -> BootRecord] /\ boot[n] \in BootRecord
      /\ Ready(boot[n]) /\ MigratedUsersWhole /\ boot[n].step = "settings"
  BY DEF BootInv, BootstrapTypeOK, LoadSetting
<1> PICK i : i = boot[n].next
  OBVIOUS
<1> PICK q : q = IF i = Len(Order) THEN [boot[n] EXCEPT !.step = "up"]
                 ELSE [boot[n] EXCEPT !.next = @ + 1]
  OBVIOUS
<1>2. i \in 1..Len(Order) /\ Order[i] \in SettingKeys
  BY <1>1, OrderTyped DEF BootRecord
<1>3. /\ values' = PutIfNotFound(n, Order[i]) /\ boot' = [boot EXCEPT ![n] = q]
      /\ UNCHANGED <<policies, oldUser, migrated, saved>>
  BY <1>1 DEF LoadSetting
<1>4. n # Nothing
  BY BootstrapAssumption
<1>5. \A k \in SettingKeys :
        values'[k] = IF k = Order[i] /\ values[k] = Nothing THEN n ELSE values[k]
  BY <1>1, <1>2, <1>3 DEF PutIfNotFound, BootstrapTypeOK
<1>6. q \in BootRecord
  BY <1>1, <1>2, OrderTyped DEF BootRecord
<1>7. Ready(q)'
  <2>1. ASSUME NEW j \in 1..Len(Order), j <= i
        PROVE  values'[Order[j]] # Nothing
    <3>1. Order[j] \in SettingKeys
      BY OrderTyped
    <3>2. CASE j = i
      BY <1>2, <1>4, <1>5, <3>2
    <3>3. CASE j < i
      <4>1. values[Order[j]] # Nothing
        BY <1>1, <3>3 DEF Ready
      <4> QED
        BY <1>4, <1>5, <3>1, <4>1
    <3> QED
      BY <1>2, <2>1, <3>2, <3>3
  <2>2. CASE i = Len(Order)
    <3>1. q.step = "up"
      BY <1>1, <2>2 DEF BootRecord
    <3>2. \A k \in SettingKeys : values'[k] # Nothing
      BY <2>1, <2>2, OrderTyped
    <3> QED
      BY <3>1, <3>2 DEF Ready
  <2>3. CASE i # Len(Order)
    <3>1. q.step = "settings" /\ q.next = i + 1
      BY <1>1, <2>3 DEF BootRecord
    <3>2. \A j \in 1..Len(Order) : j < q.next => values'[Order[j]] # Nothing
      BY <1>2, <2>1, <3>1
    <3> QED
      BY <3>1, <3>2 DEF Ready
  <2> QED
    BY <2>2, <2>3
<1>8. boot' \in [Nodes -> BootRecord] /\ (\A m \in Nodes : Ready(boot[m]))'
  BY <1>3, <1>4, <1>5, <1>6, <1>7, BootNext
<1>9. values' \in [SettingKeys -> {Nothing} \cup Nodes \cup 1..SettingSaves]
  BY <1>1, <1>2, <1>3 DEF PutIfNotFound, BootstrapTypeOK
<1>10. SectionsKept'
  <2>1. \A s \in DOMAIN Section : \A k \in Section[s] : k \in SettingKeys
    BY BootstrapAssumption DEF SettingKeys
  <2> QED
    BY <1>3, <1>5, <2>1 DEF BootInv, SectionsKept
<1>11. BootstrapTypeOK'
  BY <1>1, <1>3, <1>8, <1>9 DEF BootstrapTypeOK
<1> QED
  BY <1>1, <1>3, <1>8, <1>10, <1>11 DEF BootInv, MigratedUsersWhole

LEMMA AdministratorStep ==
  ASSUME BootInv,
         \/ \E s \in DOMAIN Section : SaveSettings(s)
         \/ \E c \in Collections, name \in JsonNames : SetPolicy(c, name) \/ RemovePolicy(c, name)
  PROVE  BootInv'
<1>1. BootstrapTypeOK /\ MigratedUsersWhole /\ SectionsKept
  BY DEF BootInv
<1>2. ASSUME NEW s \in DOMAIN Section, SaveSettings(s)
      PROVE  BootInv'
  <2>1. PICK save \in 1..SettingSaves :
          /\ values' = [k \in SettingKeys |-> IF k \in Section[s] THEN save ELSE values[k]]
          /\ saved' = [saved EXCEPT ![s] = save]
    BY <1>2 DEF SaveSettings
  <2>2. UNCHANGED <<policies, oldUser, migrated, boot>>
    BY <1>2 DEF SaveSettings
  <2>3. save # Nothing
    BY BootstrapAssumption
  <2>4. BootstrapTypeOK'
    BY <1>1, <2>1, <2>2 DEF BootstrapTypeOK
  <2>5. \A k \in SettingKeys : values[k] # Nothing => values'[k] # Nothing
    BY <2>1, <2>3
  <2>6. (\A m \in Nodes : Ready(boot[m]))'
    <3> SUFFICES ASSUME NEW m \in Nodes PROVE Ready(boot[m])'
      BY <2>2
    <3>1. Ready(boot[m])
      BY DEF BootInv
    <3> QED
      BY <2>2, <2>5, <3>1, OrderTyped DEF Ready
  <2>7. SectionsKept'
    <3> SUFFICES ASSUME NEW t \in DOMAIN Section, saved'[t] # Nothing,
                        NEW k \in Section[t]
                 PROVE  values'[k] = saved'[t]
      BY DEF SectionsKept
    <3>1. k \in SettingKeys
      BY BootstrapAssumption DEF SettingKeys
    <3>2. CASE t = s
      BY <1>1, <2>1, <3>1, <3>2 DEF BootstrapTypeOK
    <3>3. CASE t # s
      <4>1. k \notin Section[s]
        BY <3>3, BootstrapAssumption
      <4>2. saved'[t] = saved[t]
        BY <1>1, <2>1, <3>3 DEF BootstrapTypeOK
      <4> QED
        BY <1>1, <2>1, <3>1, <4>1, <4>2 DEF SectionsKept
    <3> QED
      BY <3>2, <3>3
  <2> QED
    BY <1>1, <2>2, <2>4, <2>6, <2>7 DEF BootInv, MigratedUsersWhole
<1>3. ASSUME NEW c \in Collections, NEW name \in JsonNames,
             SetPolicy(c, name) \/ RemovePolicy(c, name)
      PROVE  BootInv'
  <2>1. UNCHANGED <<values, oldUser, migrated, boot, saved>>
    BY <1>3 DEF SetPolicy, RemovePolicy
  <2>2. policies' \in [Collections -> [JsonNames -> {"absent", "json", "admin"}]]
    BY <1>1, <1>3 DEF SetPolicy, RemovePolicy, BootstrapTypeOK
  <2>3. BootstrapTypeOK'
    BY <1>1, <2>1, <2>2 DEF BootstrapTypeOK
  <2> QED
    BY <2>1, <2>3 DEF BootInv, Ready, SectionsKept, MigratedUsersWhole
<1> QED
  BY <1>2, <1>3

LEMMA BootStep == BootInv /\ [NextBootstrap]_bootstrap => BootInv'
<1> SUFFICES ASSUME BootInv, [NextBootstrap]_bootstrap PROVE BootInv'
  OBVIOUS
<1>1. CASE UNCHANGED bootstrap
  BY <1>1 DEF bootstrap, BootInv, BootstrapTypeOK, Ready, SectionsKept, MigratedUsersWhole
<1>2. CASE \E n \in Nodes : Load(n) \/ Crash(n) \/ MigrateFromSql(n) \/ Migrated(n)
                             \/ Look(n) \/ Imported(n)
  BY <1>2, NodeBootStep
<1>3. CASE \E n \in Nodes, u \in OldUsers : CreateOldUser(n, u) \/ UpdateOldUser(n, u)
  BY <1>3, OldUserStep
<1>4. CASE \E n \in Nodes : LoadSetting(n)
  BY <1>4, LoadSettingStep
<1>5. CASE \E n \in Nodes, name \in JsonNames : Import(n, name)
  BY <1>5, ImportStep
<1>6. CASE \/ \E s \in DOMAIN Section : SaveSettings(s)
           \/ \E c \in Collections, name \in JsonNames : SetPolicy(c, name) \/ RemovePolicy(c, name)
  BY <1>6, AdministratorStep
<1> QED
  BY <1>1, <1>2, <1>3, <1>4, <1>5, <1>6 DEF NextBootstrap

(* What nodes put in etcd as they start stays in its types, and so does    *)
(* where each of them is (Load, internal/data/init.go).                    *)
THEOREM BootstrapTypeTheorem == SpecBootstrap => []BootstrapTypeOK
<1>1. BootInv => BootstrapTypeOK
  BY DEF BootInv
<1> QED
  BY <1>1, BootInit, BootStep, PTL DEF SpecBootstrap

(* For any nodes, settings and sections: a node that is up finds every     *)
(* setting, and what an administrator saved together no json file replaces *)
(* (loadInitialSettings and putIfNotFound, internal/data/init.go).         *)
THEOREM SettingsTheorem == SpecBootstrap => []SettingsKept
<1>1. BootInv => SettingsKept
  BY DEF BootInv, Ready, SomeUp, SectionsKept, SettingsKept
<1> QED
  BY <1>1, BootInit, BootStep, PTL DEF SpecBootstrap

(* For any old users and nodes that migrate them, stop and start again: a  *)
(* migration marked as done left no user half written (migrateFromSql,     *)
(* internal/data/init.go).                                                 *)
THEOREM MigrationTheorem == SpecBootstrap => []MigratedUsersWhole
<1>1. BootInv => MigratedUsersWhole
  BY DEF BootInv
<1> QED
  BY <1>1, BootInit, BootStep, PTL DEF SpecBootstrap

-----------------------------------------------------------------------------
(***************************************************************************)
(* Methods of a node.                                                      *)
(***************************************************************************)

\* The methods ms are those of the settings, but for failures, and as saved.
Follows(ms) ==
  /\ ms \subseteq setting.enabled
  /\ setting.enabled \subseteq ms \cup failed
  /\ \A m \in ms : built[m] = setting.save \/ m \in failed

\* Where the handler of enabledMethodsChanged is.  It switches off what was
\* on before because that is all that was on.
HalfWay(e) ==
  /\ e.step = 1 => e.current = setting.enabled /\ enabled \subseteq e.previous
  /\ e.step = 2 => e.current = setting.enabled /\ enabled = {}
  /\ e.step = 3 => enabled = {} /\ Follows(e.current)

\* What holds while no save has overlapped a start or another save.
Undisturbed ==
  /\ events # {} => listening = Topics
  /\ \A e, f \in events : e.topic = "methods" /\ f.topic = "methods" => e = f
  /\ \A e \in events : e.topic = "methods" => HalfWay(e)
  /\ started /\ (\A e \in events : e.topic # "methods") => Follows(enabled)

MethodsShape ==
  /\ MethodsTypeOK
  /\ listening # {} => started
  /\ events # {} => listening # {}
  /\ ~started => enabled = {}

MethodsInv == MethodsShape /\ (~overlapped => Undisturbed)

LEMMA MethodsInit == InitMethods => MethodsInv
<1> SUFFICES ASSUME InitMethods PROVE MethodsInv
  OBVIOUS
<1>1. MethodsTypeOK
  <2>1. setting \in [enabled: SUBSET Mfa \ {{}}, save: 0..MaxSaves]
    BY MethodsAssumption DEF InitMethods
  <2>2. built \in [Mfa -> 0..MaxSaves \cup {Broken}]
    BY MethodsAssumption DEF InitMethods
  <2> QED
    BY <2>1, <2>2 DEF InitMethods, MethodsTypeOK
<1> QED
  BY <1>1 DEF InitMethods, MethodsInv, MethodsShape, Undisturbed

LEMMA SaveStep == ASSUME MethodsInv, SetLoginSettings PROVE MethodsInv'
<1>1. PICK ms \in SUBSET Mfa \ {{}} :
        /\ setting' = [enabled |-> ms, save |-> setting.save + 1]
        /\ events' = events \cup {Event(t, ms) : t \in listening}
  BY DEF SetLoginSettings
<1>2. /\ UNCHANGED <<enabled, built, started, listening>> /\ failed' = {}
      /\ setting.save < MaxSaves /\ overlapped' = (overlapped \/ Overlapping)
  BY DEF SetLoginSettings
<1>3. MethodsTypeOK /\ setting.enabled \subseteq Mfa /\ setting.save \in 0..MaxSaves
  BY DEF MethodsInv, MethodsShape, MethodsTypeOK
<1>4. setting.save + 1 \in 1..MaxSaves
  BY <1>2, <1>3, MethodsAssumption
<1>5. \A e \in events' : e \in events \/
        \E t \in listening : e = Event(t, ms)
  BY <1>1
<1>6. MethodsTypeOK'
  <2>1. events' \subseteq EventRecord
    <3> SUFFICES ASSUME NEW e \in events' PROVE e \in EventRecord
      OBVIOUS
    <3>1. CASE e \in events
      BY <1>3, <3>1 DEF MethodsTypeOK
    <3>2. CASE \E t \in listening : e = Event(t, ms)
      BY <1>1, <1>3, <1>4, <3>2 DEF Event, EventRecord, MethodsTypeOK
    <3> QED
      BY <1>5, <3>1, <3>2
  <2>2. setting' \in [enabled: SUBSET Mfa \ {{}}, save: 0..MaxSaves]
    BY <1>1, <1>4
  <2>3. overlapped' \in BOOLEAN
    BY <1>2, <1>3 DEF Overlapping, MethodsTypeOK
  <2> QED
    BY <1>2, <1>3, <2>1, <2>2, <2>3 DEF MethodsTypeOK
<1>7. MethodsShape'
  <2>1. events' # {} => listening' # {}
    BY <1>2, <1>5 DEF MethodsInv, MethodsShape
  <2> QED
    BY <1>2, <1>6, <2>1 DEF MethodsInv, MethodsShape
<1>8. ASSUME ~overlapped' PROVE Undisturbed'
  <2>1. /\ Undisturbed
        /\ started => listening = Topics
        /\ \A e \in events : e.topic # "methods"
    <3>1. ~overlapped /\ ~Overlapping
      BY <1>2, <1>8
    <3> QED
      BY <3>1 DEF MethodsInv, Overlapping
  <2>2. CASE ~started
    <3>1. events' = {} /\ ~started'
      BY <1>2, <1>5, <2>2 DEF MethodsInv, MethodsShape
    <3> QED
      BY <3>1 DEF Undisturbed
  <2>3. CASE started
    <3>1. enabled \subseteq setting.enabled /\ listening = Topics
      BY <2>1, <2>3 DEF Undisturbed, Follows
    <3>2. PICK new : new = Event("methods", ms)
      OBVIOUS
    <3>3. new \in events' /\ new.topic = "methods"
      BY <1>1, <3>1, <3>2 DEF Event, Topics
    <3>4. \A e \in events' : e.topic = "methods" => e = new
      BY <1>5, <2>1, <3>2 DEF Event
    <3>5. HalfWay(new)'
      BY <1>1, <1>2, <3>1, <3>2 DEF Event, HalfWay
    <3> QED
      BY <1>2, <3>1, <3>3, <3>4, <3>5 DEF Undisturbed
  <2> QED
    BY <1>3, <2>2, <2>3 DEF MethodsTypeOK
<1> QED
  BY <1>7, <1>8 DEF MethodsInv

\* A method is initialised with the settings as they are, or has failed.
LEMMA ReinitialisedFollows ==
  ASSUME MethodsTypeOK, NEW ms \in SUBSET Mfa, NEW fails \in Failures(ms),
         Reinitialised(ms, fails), UNCHANGED setting
  PROVE  /\ built' \in [Mfa -> 0..MaxSaves \cup {Broken}] /\ failed' \subseteq Mfa
         /\ fails \subseteq ms /\ fails \subseteq failed' /\ failed \subseteq failed'
         /\ \A m \in ms \ fails : built'[m] = setting.save
         /\ \A m \in Mfa \ fails : built'[m] = setting.save \/ built'[m] = built[m]
         /\ \A on \in SUBSET Mfa : Follows(on) => Follows(on)'
<1>1. setting.save \in 0..MaxSaves /\ fails \subseteq ms /\ fails \subseteq Mfa
  BY DEF MethodsTypeOK, Failures
<1>2. PICK halfway \in SUBSET fails :
        built' = [m \in Mfa |-> IF m \in halfway THEN Broken
                                ELSE IF m \in ms \ fails THEN setting.save ELSE built[m]]
  BY DEF Reinitialised
<1>3. /\ built' \in [Mfa -> 0..MaxSaves \cup {Broken}] /\ failed' \subseteq Mfa
      /\ fails \subseteq failed' /\ failed \subseteq failed'
      /\ \A m \in ms \ fails : built'[m] = setting.save
      /\ \A m \in Mfa \ fails : built'[m] = setting.save \/ built'[m] = built[m]
  BY <1>1, <1>2 DEF Reinitialised, MethodsTypeOK
<1>4. ASSUME NEW on \in SUBSET Mfa, Follows(on)
      PROVE  Follows(on)'
  <2>1. on \subseteq setting'.enabled /\ setting'.enabled \subseteq on \cup failed'
    BY <1>3, <1>4 DEF Follows
  <2>2. \A m \in on : built'[m] = setting'.save \/ m \in failed'
    BY <1>3, <1>4 DEF Follows
  <2> QED
    BY <2>1, <2>2 DEF Follows
<1> QED
  BY <1>1, <1>3, <1>4

LEMMA StartMethodsStep ==
  ASSUME MethodsInv, AddMFARoutes \/ RegisterListeners
  PROVE  MethodsInv'
<1>1. MethodsTypeOK /\ setting.enabled \in SUBSET Mfa
  BY DEF MethodsInv, MethodsShape, MethodsTypeOK
<1>2. CASE AddMFARoutes
  <2>1. PICK fails \in Failures(setting.enabled) :
          Reinitialised(setting.enabled, fails) /\ enabled' = setting.enabled \ fails
    BY <1>2 DEF AddMFARoutes
  <2>2. started' /\ UNCHANGED <<setting, listening, events, overlapped>> /\ events = {}
    BY <1>2 DEF AddMFARoutes, MethodsInv, MethodsShape
  <2>3. PICK on \in SUBSET Mfa : on = setting.enabled
    BY <1>1
  <2>4. /\ built' \in [Mfa -> 0..MaxSaves \cup {Broken}] /\ failed' \subseteq Mfa
        /\ fails \subseteq failed'
        /\ \A m \in on \ fails : built'[m] = setting.save
    BY <1>1, <2>1, <2>2, <2>3, ReinitialisedFollows
  <2>5. Follows(enabled)'
    BY <2>1, <2>2, <2>3, <2>4 DEF Follows
  <2>6. started' \in BOOLEAN
    BY <1>2 DEF AddMFARoutes
  <2>7. MethodsTypeOK'
    BY <1>1, <2>1, <2>2, <2>4, <2>6 DEF MethodsTypeOK
  <2> QED
    BY <2>2, <2>5, <2>7 DEF MethodsInv, MethodsShape, Undisturbed
<1>3. CASE RegisterListeners
  <2>1. /\ started /\ UNCHANGED <<setting, enabled, built, started, events, failed, overlapped>>
        /\ listening' \subseteq Topics /\ listening \subseteq listening'
    BY <1>1, <1>3 DEF RegisterListeners, MethodsTypeOK
  <2>2. MethodsShape'
    BY <2>1 DEF MethodsInv, MethodsShape, MethodsTypeOK
  <2>3. Undisturbed => Undisturbed'
    BY <2>1 DEF Undisturbed, HalfWay, Follows
  <2> QED
    BY <2>1, <2>2, <2>3 DEF MethodsInv
<1> QED
  BY <1>2, <1>3

\* The other handlers, which may initialise methods on their way.
LEMMA OtherHandlerStep ==
  ASSUME MethodsInv, NEW e \in events, OidcChanges(e) \/ IssuerKeyChanged(e)
  PROVE  MethodsInv'
<1>1. /\ MethodsTypeOK /\ e \in EventRecord /\ e.topic # "methods"
      /\ UNCHANGED <<setting, enabled, started, listening, overlapped>>
  BY DEF MethodsInv, MethodsShape, MethodsTypeOK, OidcChanges, IssuerKeyChanged
<1>2. /\ events' \subseteq EventRecord
      /\ \A f : f \in events /\ f.topic = "methods" <=> f \in events' /\ f.topic = "methods"
  <2>1. CASE events' = events \ {e}
    BY <1>1, <2>1 DEF MethodsTypeOK
  <2>2. CASE e.step = 1 /\ Continue(e)
    <3>1. PICK f : f = Advanced(e)
      OBVIOUS
    <3>2. f \in EventRecord /\ f.topic # "methods"
      BY <1>1, <2>2, <3>1 DEF EventRecord, Advanced
    <3> QED
      BY <1>1, <2>2, <3>1, <3>2 DEF MethodsTypeOK, Continue
  <2> QED
    BY <2>1, <2>2 DEF OidcChanges, IssuerKeyChanged, Done
<1>3. /\ built' \in [Mfa -> 0..MaxSaves \cup {Broken}] /\ failed' \subseteq Mfa
      /\ \A on \in SUBSET Mfa : Follows(on) => Follows(on)'
  <2>1. CASE UNCHANGED <<built, failed>>
    BY <1>1, <2>1 DEF MethodsTypeOK, Follows
  <2>2. CASE \E fails \in Failures({Oidc}) : Reinitialised({Oidc}, fails)
    <3>1. PICK ms \in SUBSET Mfa : ms = {Oidc}
      BY MethodsAssumption
    <3>2. PICK fails \in Failures(ms) : Reinitialised(ms, fails)
      BY <2>2, <3>1
    <3> QED
      BY <1>1, <3>2, ReinitialisedFollows
  <2>3. CASE \E fails \in Failures(ByIssuer) : Reinitialised(ByIssuer, fails)
    <3>1. PICK fails \in Failures(ByIssuer) : Reinitialised(ByIssuer, fails)
      BY <2>3
    <3> QED
      BY <1>1, <3>1, MethodsAssumption, ReinitialisedFollows
  <2> QED
    BY <2>1, <2>2, <2>3 DEF OidcChanges, IssuerKeyChanged
<1>4. MethodsTypeOK'
  BY <1>1, <1>2, <1>3 DEF MethodsTypeOK
<1>5. MethodsShape'
  BY <1>1, <1>4 DEF MethodsInv, MethodsShape
<1>6. ASSUME Undisturbed PROVE Undisturbed'
  <2>1. ASSUME NEW f \in events', f.topic = "methods"
        PROVE  HalfWay(f)'
    <3>1. f \in events /\ HalfWay(f) /\ f.current \in SUBSET Mfa
      BY <1>2, <1>6, <2>1 DEF Undisturbed, EventRecord
    <3>2. PICK on \in SUBSET Mfa : on = f.current
      BY <3>1
    <3>3. Follows(on) => Follows(on)'
      BY <1>3
    <3> QED
      BY <1>1, <3>1, <3>2, <3>3 DEF HalfWay
  <2>2. ASSUME started', \A f \in events' : f.topic # "methods"
        PROVE  Follows(enabled)'
    <3>1. Follows(enabled)
      BY <1>1, <1>2, <1>6, <2>2 DEF Undisturbed
    <3>2. PICK on \in SUBSET Mfa : on = enabled
      BY <1>1 DEF MethodsTypeOK
    <3>3. Follows(on)'
      BY <1>3, <3>1, <3>2
    <3> QED
      BY <1>1, <3>2, <3>3 DEF Follows
  <2> QED
    BY <1>1, <1>2, <1>6, <2>1, <2>2 DEF Undisturbed
<1> QED
  BY <1>1, <1>5, <1>6 DEF MethodsInv

\* A step of enabledMethodsChanged, whatever the other handlers have done.
LEMMA EnabledMethodsShape ==
  ASSUME MethodsInv, NEW e \in events, EnabledMethodsChanged(e)
  PROVE  MethodsShape'
<1>1. /\ MethodsTypeOK /\ e \in EventRecord
      /\ UNCHANGED <<setting, started, listening, overlapped>> /\ started
  BY DEF MethodsInv, MethodsShape, MethodsTypeOK, EnabledMethodsChanged
<1>2. ASSUME events' \subseteq EventRecord, enabled' \subseteq Mfa,
             built' \in [Mfa -> 0..MaxSaves \cup {Broken}], failed' \subseteq Mfa
      PROVE  MethodsShape'
  BY <1>1, <1>2 DEF MethodsInv, MethodsShape, MethodsTypeOK
<1>3. CASE e.step = 1
  <2>1. PICK f : f = Advanced(e)
    OBVIOUS
  <2>2. f \in EventRecord
    BY <1>1, <1>3, <2>1 DEF EventRecord, Advanced
  <2>3. /\ events' = (events \ {e}) \cup {f} /\ enabled' = enabled \ e.previous
        /\ UNCHANGED <<built, failed>>
    BY <1>3, <2>1 DEF EnabledMethodsChanged, Continue, Disabled
  <2> QED
    BY <1>1, <1>2, <2>2, <2>3 DEF MethodsTypeOK
<1>4. CASE e.step = 2
  <2>1. PICK ms \in SUBSET Mfa : ms = e.current
    BY <1>1 DEF EventRecord
  <2>2. PICK fails \in Failures(ms) :
          /\ Reinitialised(ms, fails)
          /\ \E out \in Initialised(ms, fails) :
               events' = (events \ {e}) \cup {[Advanced(e) EXCEPT !.current = out]}
    BY <1>4, <2>1 DEF EnabledMethodsChanged
  <2>3. PICK out \in Initialised(ms, fails) :
          events' = (events \ {e}) \cup {[Advanced(e) EXCEPT !.current = out]}
    BY <2>2
  <2>4. built' \in [Mfa -> 0..MaxSaves \cup {Broken}] /\ failed' \subseteq Mfa
    BY <1>1, <2>2, ReinitialisedFollows
  <2>5. out \subseteq Mfa
    BY <2>1, <2>3 DEF Initialised
  <2>6. PICK f : f = [Advanced(e) EXCEPT !.current = out]
    OBVIOUS
  <2>7. f \in EventRecord
    <3>1. Advanced(e) \in EventRecord
      BY <1>1, <1>4 DEF EventRecord, Advanced
    <3> QED
      BY <2>5, <2>6, <3>1 DEF EventRecord
  <2>8. enabled' = enabled
    BY <1>4 DEF EnabledMethodsChanged
  <2> QED
    BY <1>1, <1>2, <2>3, <2>4, <2>6, <2>7, <2>8 DEF MethodsTypeOK
<1>5. CASE e.step = 3
  <2>1. /\ enabled' = enabled \cup e.current /\ events' = events \ {e}
        /\ UNCHANGED <<built, failed>> /\ e.current \subseteq Mfa
    BY <1>1, <1>5 DEF EnabledMethodsChanged, Done, EventRecord
  <2> QED
    BY <1>1, <1>2, <2>1 DEF MethodsTypeOK
<1> QED
  BY <1>1, <1>3, <1>4, <1>5 DEF EventRecord

LEMMA EnabledMethodsStep ==
  ASSUME MethodsInv, NEW e \in events, EnabledMethodsChanged(e)
  PROVE  MethodsInv'
<1> SUFFICES ASSUME ~overlapped PROVE Undisturbed'
  BY EnabledMethodsShape DEF MethodsInv, EnabledMethodsChanged
<1>1. /\ MethodsTypeOK /\ e \in EventRecord /\ e.topic = "methods" /\ HalfWay(e)
      /\ started /\ listening = Topics /\ UNCHANGED <<setting, started, listening>>
      /\ \A f \in events \ {e} : f.topic # "methods"
  BY DEF MethodsInv, MethodsShape, MethodsTypeOK, Undisturbed, EnabledMethodsChanged
<1>2. ASSUME NEW f, f.topic = "methods", HalfWay(f)', events' = (events \ {e}) \cup {f}
      PROVE  Undisturbed'
  <2>1. f \in events' /\ \A g \in events' : g.topic = "methods" => g = f
    BY <1>1, <1>2
  <2> QED
    BY <1>1, <1>2, <2>1 DEF Undisturbed
<1>3. CASE e.step = 1
  <2>1. PICK f : f = Advanced(e)
    OBVIOUS
  <2>2. f.topic = "methods" /\ f.step = 2 /\ f.current = e.current
    BY <1>1, <1>3, <2>1 DEF EventRecord, Advanced
  <2>3. events' = (events \ {e}) \cup {f} /\ enabled' = enabled \ e.previous
    BY <1>3, <2>1 DEF EnabledMethodsChanged, Continue, Disabled
  <2>4. enabled' = {} /\ f.current = setting'.enabled
    BY <1>1, <1>3, <2>2, <2>3 DEF HalfWay
  <2> QED
    BY <1>2, <2>2, <2>3, <2>4 DEF HalfWay
<1>4. CASE e.step = 2
  <2>1. PICK ms \in SUBSET Mfa : ms = e.current /\ ms = setting.enabled
    BY <1>1, <1>4 DEF EventRecord, HalfWay
  <2>2. PICK fails \in Failures(ms) :
          /\ Reinitialised(ms, fails)
          /\ \E out \in Initialised(ms, fails) :
               events' = (events \ {e}) \cup {[Advanced(e) EXCEPT !.current = out]}
    BY <1>4, <2>1 DEF EnabledMethodsChanged
  <2>3. PICK out \in Initialised(ms, fails) :
          events' = (events \ {e}) \cup {[Advanced(e) EXCEPT !.current = out]}
    BY <2>2
  <2>4. /\ fails \subseteq ms /\ fails \subseteq failed'
        /\ \A m \in ms \ fails : built'[m] = setting.save
    BY <1>1, <2>2, ReinitialisedFollows
  <2>5. out \subseteq ms /\ ms \subseteq out \cup fails
    BY <2>3 DEF Initialised
  <2>6. PICK f : f = [Advanced(e) EXCEPT !.current = out]
    OBVIOUS
  <2>7. f.topic = "methods" /\ f.step = 3 /\ f.current = out
    <3>1. Advanced(e) \in EventRecord /\ Advanced(e).topic = "methods" /\ Advanced(e).step = 3
      BY <1>1, <1>4 DEF EventRecord, Advanced
    <3> QED
      BY <2>6, <3>1 DEF EventRecord
  <2>8. enabled' = {}
    BY <1>1, <1>4 DEF EnabledMethodsChanged, HalfWay
  <2>9. Follows(out)'
    BY <1>1, <2>1, <2>4, <2>5 DEF Follows
  <2>10. HalfWay(f)'
    BY <2>7, <2>8, <2>9 DEF HalfWay
  <2> QED
    BY <1>2, <2>3, <2>6, <2>7, <2>10
<1>5. CASE e.step = 3
  <2>1. /\ enabled' = enabled \cup e.current /\ events' = events \ {e}
        /\ UNCHANGED <<built, failed>>
    BY <1>5 DEF EnabledMethodsChanged, Done
  <2>2. enabled' = e.current /\ Follows(e.current)
    BY <1>1, <1>5, <2>1 DEF HalfWay
  <2>3. Follows(enabled)'
    BY <1>1, <2>1, <2>2 DEF Follows
  <2> QED
    BY <1>1, <2>1, <2>3 DEF Undisturbed
<1> QED
  BY <1>1, <1>3, <1>4, <1>5 DEF EventRecord

LEMMA MethodsStep == MethodsInv /\ [NextMethods]_methods => MethodsInv'
<1> SUFFICES ASSUME MethodsInv, [NextMethods]_methods PROVE MethodsInv'
  OBVIOUS
<1>1. CASE UNCHANGED methods
  BY <1>1 DEF methods, MethodsInv, MethodsShape, MethodsTypeOK, Undisturbed, HalfWay, Follows
<1>2. CASE SetLoginSettings
  BY <1>2, SaveStep
<1>3. CASE AddMFARoutes \/ RegisterListeners
  BY <1>3, StartMethodsStep
<1>4. CASE \E e \in events : OidcChanges(e) \/ IssuerKeyChanged(e)
  BY <1>4, OtherHandlerStep
<1>5. CASE \E e \in events : EnabledMethodsChanged(e)
  BY <1>5, EnabledMethodsStep
<1> QED
  BY <1>1, <1>2, <1>3, <1>4, <1>5 DEF NextMethods, Handle

(* The methods of a node and the handlers at work on them stay in their    *)
(* types (internal/webserver/authenticators/authenticators.go).            *)
THEOREM MethodsTypeTheorem == SpecMethods => []MethodsTypeOK
<1>1. MethodsInv => MethodsTypeOK
  BY DEF MethodsInv, MethodsShape
<1> QED
  BY <1>1, MethodsInit, MethodsStep, PTL DEF SpecMethods

(* For any methods, failures and number of saves: when the handlers of the *)
(* saves are done, whatever the order of their steps, a node offers what   *)
(* the settings name, as saved last (internal/webserver/statemachine.go),  *)
(* but for a method whose Init has failed since, unless a save overlapped  *)
(* the node's start or the enabledMethodsChanged of another: then the code *)
(* may leave the node with older methods, and nothing is claimed.          *)
THEOREM MethodsTheorem == SpecMethods => []MethodsFollowSettings
<1>1. MethodsInv => MethodsFollowSettings
  <2> SUFFICES ASSUME MethodsInv, Settled, ~overlapped PROVE InStep
    BY DEF MethodsFollowSettings
  <2>1. started /\ \A e \in events : e.topic # "methods"
    BY DEF Settled, MethodsInv, MethodsShape, Topics
  <2> QED
    BY <2>1 DEF MethodsInv, Undisturbed, Follows, InStep
<1> QED
  BY <1>1, MethodsInit, MethodsStep, PTL DEF SpecMethods

-----------------------------------------------------------------------------
(***************************************************************************)
(* Security keys.                                                          *)
(***************************************************************************)

\* What a browser waits for: an answer that exists, and once it is verified,
\* for the ceremony the browser is in and the user as it was read.
Waiting(a) ==
  LET p == posting[a]
      answer == p.answer
  IN /\ p.step \in {"posted", "verified", "stored"} => answer \in answers
     /\ p.step = "offer" =>
          p.write \in Users /\ p.write.id <= ids /\ DOMAIN p.write.keys = {}
     /\ p.step = "verified" =>
          /\ p.read \in Users
          /\ ceremony[a].challenge = answer.challenge /\ ceremony[a].id = p.read.id
          /\ p.write = AddCredential(p.read, answer)
          /\ answer.kind = "get" =>
               /\ answer.key \in DOMAIN p.read.keys
               /\ answer.count >= p.read.keys[answer.key]
               /\ \/ answer.count > p.read.keys[answer.key]
                  \/ answer.key \in Counterless

\* Challenges and ids are new when they are made.
MadeBefore ==
  /\ mfa.id <= ids
  /\ \A a \in Agents :
       /\ ceremony[a].challenge <= challenges /\ ceremony[a].id <= ids
       /\ ceremony[a] # NoCeremony =>
            ceremony[a].kind # "none" /\ ceremony[a].challenge # 0 /\ ceremony[a].id # 0
  /\ \A answer \in answers :
       answer.challenge <= challenges /\ (answer.count = 0 => answer.key \in Counterless)

\* A challenge is that of one browser, and its answers are of its kind.
ChallengesApart ==
  /\ \A a, b \in Agents :
       ceremony[a].challenge = ceremony[b].challenge /\ ceremony[a].challenge # 0 => a = b
  /\ \A answer \in answers, a \in Agents :
       answer.challenge = ceremony[a].challenge => answer.kind = ceremony[a].kind
  /\ \A answer \in accepted : answer.kind = "get"

\* A user is registered in one ceremony, and no browser logs in to one that
\* is not stored yet.
UsersApart ==
  /\ \A a, b \in Agents :
       ceremony[a].kind = "create" /\ ceremony[b].kind = "create"
         /\ ceremony[a].id = ceremony[b].id => a = b
  /\ \A a, b \in Agents :
       posting[a].step = "offer" /\ posting[b].step = "offer"
         /\ posting[a].write.id = posting[b].write.id => a = b
  /\ \A a, b \in Agents :
       posting[a].step = "offer" /\ ceremony[b].kind = "get" =>
         ceremony[b].id # posting[a].write.id

\* Unless a value was overtaken, the user of the ceremonies under way counts
\* the answers accepted.
AnswersCounted ==
  /\ \A a \in Agents :
       /\ posting[a].step = "offer" => posting[a].write.id # mfa.id
       /\ ceremony[a].kind = "create" /\ ceremony[a].id = mfa.id => DOMAIN mfa.keys = {}
  /\ \A answer \in accepted, a \in Agents :
       ceremony[a].challenge = answer.challenge /\ ceremony[a].id = mfa.id =>
         answer.key \in DOMAIN mfa.keys /\ mfa.keys[answer.key] >= answer.count
  /\ \A answer \in again : answer.key \in Counterless

WebAuthnInv ==
  /\ WebAuthnTypeOK
  /\ \A a \in Agents : Waiting(a)
  /\ MadeBefore
  /\ ChallengesApart
  /\ ~overtaken => UsersApart /\ AnswersCounted

Postings == [step: {"idle", "offer", "posted", "verified", "stored"},
             read: Users \cup {Unset}, write: Users \cup {Unset},
             answer: Answer \cup {NoAnswer}]

LEMMA NoKeys == <<>> \in KeySets /\ DOMAIN <<>> = {}
<1>1. DOMAIN <<>> = {}
  OBVIOUS
<1>2. <<>> \in [{} -> 0..MaxPresses]
  OBVIOUS
<1> QED
  BY <1>1, <1>2 DEF KeySets

LEMMA KeySetTyped ==
  ASSUME NEW keys \in KeySets
  PROVE  /\ DOMAIN keys \subseteq SecurityKeys
         /\ \A k \in DOMAIN keys : keys[k] \in 0..MaxPresses
BY DEF KeySets

LEMMA Added ==
  ASSUME NEW user \in Users, NEW answer \in Answer
  PROVE  /\ AddCredential(user, answer) \in Users
         /\ AddCredential(user, answer).id = user.id
         /\ DOMAIN AddCredential(user, answer).keys = DOMAIN user.keys \cup {answer.key}
         /\ \A k \in DOMAIN user.keys \cup {answer.key} :
              AddCredential(user, answer).keys[k] =
                IF k = answer.key THEN answer.count ELSE user.keys[k]
<1> DEFINE keys == [k \in DOMAIN user.keys \cup {answer.key} |->
                      IF k = answer.key THEN answer.count ELSE user.keys[k]]
<1>1. user.keys \in KeySets /\ user.id \in 1..MaxIds
  BY DEF Users
<1>2. answer.key \in SecurityKeys /\ answer.count \in 0..MaxPresses
  BY WebAuthnAssumption DEF Answer
<1>3. DOMAIN user.keys \cup {answer.key} \in SUBSET SecurityKeys
  BY <1>1, <1>2, KeySetTyped
<1>4. keys \in [DOMAIN user.keys \cup {answer.key} -> 0..MaxPresses]
  BY <1>1, <1>2, KeySetTyped
<1>5. keys \in KeySets
  BY <1>3, <1>4 DEF KeySets
<1>6. AddCredential(user, answer) = [user EXCEPT !.keys = keys]
  BY DEF AddCredential
<1>7. /\ DOMAIN keys = DOMAIN user.keys \cup {answer.key}
      /\ \A k \in DOMAIN user.keys \cup {answer.key} :
           keys[k] = IF k = answer.key THEN answer.count ELSE user.keys[k]
  OBVIOUS
<1> HIDE DEF keys
<1>8. AddCredential(user, answer) \in Users /\ AddCredential(user, answer).id = user.id
      /\ AddCredential(user, answer).keys = keys
  BY <1>5, <1>6 DEF Users
<1> QED
  BY <1>7, <1>8

LEMMA FreeTyped == Free \in Postings /\ Free.step = "idle"
BY DEF Free, Postings

LEMMA PostingNext ==
  ASSUME WebAuthnTypeOK, NEW a \in Agents, NEW q \in Postings,
         posting' = [posting EXCEPT ![a] = q]
  PROVE  /\ posting' \in [Agents -> Postings]
         /\ \A b \in Agents : posting'[b] = IF b = a THEN q ELSE posting[b]
BY DEF WebAuthnTypeOK, Postings

LEMMA CeremonyNext ==
  ASSUME WebAuthnTypeOK, NEW a \in Agents, NEW c \in Ceremonies,
         ceremony' = [ceremony EXCEPT ![a] = c]
  PROVE  /\ ceremony' \in [Agents -> Ceremonies]
         /\ \A b \in Agents : ceremony'[b] = IF b = a THEN c ELSE ceremony[b]
BY DEF WebAuthnTypeOK

\* A request waits on while others go on.
LEMMA WaitsOn ==
  ASSUME WebAuthnTypeOK, NEW b \in Agents, Waiting(b), posting'[b] = posting[b],
         ids' \in Nat, ids <= ids', answers \subseteq answers',
         posting[b].step = "verified" => ceremony'[b] = ceremony[b]
  PROVE  Waiting(b)'
<1>1. ids \in Nat /\ \A user \in Users : user.id \in Nat
  BY DEF WebAuthnTypeOK, Users
<1>2. PICK p : p = posting[b] /\ p = posting'[b]
  OBVIOUS
<1>3. PICK c : c = ceremony[b]
  OBVIOUS
<1> QED
  BY <1>1, <1>2, <1>3 DEF Waiting

LEMMA WebAuthnInit == InitWebAuthn => WebAuthnInv
<1> SUFFICES ASSUME InitWebAuthn PROVE WebAuthnInv
  OBVIOUS
<1>1. NoCeremony \in Ceremonies /\ NoCeremony.kind = "none" /\ NoCeremony.challenge = 0
      /\ NoCeremony.id = 0
  BY WebAuthnAssumption DEF NoCeremony, Ceremonies
<1>2. mfa = Unset /\ mfa.id = 0
  BY DEF InitWebAuthn, Unset
<1>3. WebAuthnTypeOK
  <2>1. posting \in [Agents -> Postings]
    BY FreeTyped DEF InitWebAuthn
  <2>2. ceremony \in [Agents -> Ceremonies]
    BY <1>1 DEF InitWebAuthn
  <2>3. presses \in [SecurityKeys -> 0..MaxPresses]
    BY WebAuthnAssumption DEF InitWebAuthn
  <2>4. ids \in 0..MaxIds /\ challenges \in 0..MaxChallenges
    BY WebAuthnAssumption DEF InitWebAuthn
  <2> QED
    BY <1>2, <2>1, <2>2, <2>3, <2>4 DEF InitWebAuthn, WebAuthnTypeOK, Postings
<1>4. \A a \in Agents : Waiting(a)
  BY FreeTyped DEF InitWebAuthn, Waiting
<1>5. MadeBefore /\ ChallengesApart
  BY <1>1, <1>2 DEF InitWebAuthn, MadeBefore, ChallengesApart
<1>6. UsersApart /\ AnswersCounted
  BY <1>1, FreeTyped DEF InitWebAuthn, UsersApart, AnswersCounted
<1> QED
  BY <1>3, <1>4, <1>5, <1>6 DEF WebAuthnInv

\* A request goes on, and nothing else changes.
LEMMA RequestGoesOn ==
  ASSUME WebAuthnInv, NEW a \in Agents, NEW q \in Postings,
         posting' = [posting EXCEPT ![a] = q], q.step # "offer", Waiting(a)',
         enforcing' \in BOOLEAN,
         UNCHANGED <<mfa, ids, challenges, ceremony, presses, answers, resetting,
                     overtaken, accepted, again>>
  PROVE  WebAuthnInv'
<1>1. WebAuthnTypeOK
  BY DEF WebAuthnInv
<1>2. /\ posting' \in [Agents -> Postings]
      /\ \A b \in Agents : posting'[b] = IF b = a THEN q ELSE posting[b]
  BY <1>1, PostingNext
<1>3. WebAuthnTypeOK'
  BY <1>1, <1>2 DEF WebAuthnTypeOK, Postings
<1>4. ASSUME NEW b \in Agents PROVE Waiting(b)'
  <2>1. CASE b = a
    BY <2>1
  <2>2. CASE b # a
    <3>1. posting'[b] = posting[b] /\ ids' \in Nat /\ ids <= ids' /\ Waiting(b)
      BY <1>1, <1>2, <2>2 DEF WebAuthnInv, WebAuthnTypeOK
    <3> QED
      BY <1>1, <3>1, WaitsOn
  <2> QED
    BY <2>1, <2>2
<1>5. MadeBefore' /\ ChallengesApart'
  BY DEF WebAuthnInv, MadeBefore, ChallengesApart
<1>6. ~overtaken' => UsersApart'
  BY <1>2 DEF WebAuthnInv, UsersApart
<1>7. ~overtaken' => AnswersCounted'
  BY <1>2 DEF WebAuthnInv, AnswersCounted
<1> QED
  BY <1>3, <1>4, <1>5, <1>6, <1>7 DEF WebAuthnInv

LEMMA RequestStep ==
  ASSUME WebAuthnInv, NEW a \in Agents,
         \/ Refuse(a) \/ EnforceMFA(a) \/ FinishRegistration(a) \/ FinishLogin(a)
         \/ \E answer \in answers : Post(a, answer)
  PROVE  WebAuthnInv'
<1>1. WebAuthnTypeOK /\ Waiting(a) /\ posting[a] \in Postings /\ posting \in [Agents -> Postings]
  BY DEF WebAuthnInv, WebAuthnTypeOK, Postings
<1>2. enforcing \in BOOLEAN /\ mfa \in Users \cup {Unset} /\ answers \subseteq Answer
  BY <1>1 DEF WebAuthnTypeOK
<1>3. CASE Refuse(a) \/ EnforceMFA(a)
  <2>1. posting' = [posting EXCEPT ![a] = Free] /\ enforcing' \in BOOLEAN
        /\ UNCHANGED <<mfa, ids, challenges, ceremony, presses, answers, resetting,
                       overtaken, accepted, again>>
    BY <1>2, <1>3 DEF Refuse, EnforceMFA
  <2>2. posting'[a] = Free
    BY <1>1, <2>1
  <2>3. Waiting(a)'
    BY <2>2, FreeTyped DEF Waiting
  <2> QED
    BY <2>1, <2>3, FreeTyped, RequestGoesOn
<1>4. ASSUME NEW answer \in answers, Post(a, answer)
      PROVE  WebAuthnInv'
  <2>1. PICK q : q = [Free EXCEPT !.step = "posted", !.answer = answer]
    OBVIOUS
  <2>2. q \in Postings /\ q.step = "posted" /\ q.answer = answer
    BY <1>2, <2>1 DEF Free, Postings
  <2>3. /\ posting' = [posting EXCEPT ![a] = q]
        /\ UNCHANGED <<mfa, enforcing, ids, challenges, ceremony, presses, answers, resetting,
                       overtaken, accepted, again>>
    BY <1>4, <2>1 DEF Post
  <2>4. posting'[a] = q
    BY <1>1, <2>3
  <2>5. Waiting(a)'
    BY <2>2, <2>3, <2>4 DEF Waiting
  <2> QED
    BY <1>2, <2>2, <2>3, <2>5, RequestGoesOn
<1>5. CASE FinishRegistration(a) \/ FinishLogin(a)
  <2>1. PICK answer \in answers : answer = posting[a].answer
    BY <1>1, <1>5 DEF FinishRegistration, FinishLogin, Waiting
  <2>2. /\ mfa.id # 0 /\ ceremony[a].id = mfa.id /\ ceremony[a].challenge = answer.challenge
        /\ answer.kind = "get" =>
             /\ answer.key \in DOMAIN mfa.keys
             /\ \/ ~(answer.count <= mfa.keys[answer.key])
                \/ answer.count = 0 /\ mfa.keys[answer.key] = 0
    BY <1>5, <2>1 DEF FinishRegistration, FinishLogin, Belongs, CloneWarning
  <2>3. mfa \in Users /\ answer \in Answer
    BY <1>2, <2>2 DEF Unset
  <2>4. PICK user \in Users : user = AddCredential(mfa, answer)
    BY <2>3, Added
  <2>5. PICK q : q = [step |-> "verified", read |-> mfa, write |-> user, answer |-> answer]
    OBVIOUS
  <2>6. q \in Postings
    BY <2>3, <2>5 DEF Postings
  <2>7. /\ posting' = [posting EXCEPT ![a] = q]
        /\ UNCHANGED <<mfa, enforcing, ids, challenges, ceremony, presses, answers, resetting,
                       overtaken, accepted, again>>
    BY <1>5, <2>1, <2>4, <2>5 DEF FinishRegistration, FinishLogin, Verified
  <2>8. posting'[a] = q
    BY <1>1, <2>7
  <2>9. answer.kind = "get" =>
          /\ answer.count >= mfa.keys[answer.key]
          /\ answer.count > mfa.keys[answer.key] \/ answer.key \in Counterless
    <3>1. mfa.keys \in KeySets /\ answer.count \in Nat
      BY <2>3 DEF Users, Answer
    <3>2. answer.count = 0 => answer.key \in Counterless
      BY <2>1 DEF WebAuthnInv, MadeBefore
    <3> QED
      BY <2>2, <3>1, <3>2, KeySetTyped
  <2>10. Waiting(a)'
    BY <2>1, <2>2, <2>3, <2>4, <2>5, <2>7, <2>8, <2>9 DEF Waiting
  <2> QED
    BY <1>2, <2>5, <2>6, <2>7, <2>10, RequestGoesOn
<1> QED
  BY <1>3, <1>4, <1>5

\* A browser is sent a new challenge.
LEMMA CeremonyBegins ==
  ASSUME WebAuthnInv, NEW a \in Agents, NEW kind \in {"create", "get"}, NEW id,
         id \in 1..MaxIds, id <= ids', ids' \in {ids, ids + 1}, ids' \in 0..MaxIds,
         StartCeremony(a, kind, id),
         UNCHANGED <<mfa, answers, accepted>>
  PROVE  /\ \A b \in Agents : b # a => ceremony'[b] = ceremony[b]
         /\ ceremony'[a].kind = kind /\ ceremony'[a].id = id
         /\ ceremony'[a].challenge = challenges + 1
         /\ ceremony' \in [Agents -> Ceremonies] /\ challenges' \in 0..MaxChallenges
         /\ MadeBefore' /\ ChallengesApart'
<1>1. WebAuthnTypeOK /\ MadeBefore /\ ChallengesApart
  BY DEF WebAuthnInv
<1>2. challenges \in 0..MaxChallenges /\ challenges + 1 \in 1..MaxChallenges /\ ids \in 0..MaxIds
      /\ answers \subseteq Answer /\ accepted \subseteq answers
      /\ mfa.id \in Nat /\ \A b \in Agents : ceremony[b] \in Ceremonies
  BY <1>1, WebAuthnAssumption DEF StartCeremony, WebAuthnTypeOK, Users, Unset
<1>3. PICK c : c = [kind |-> kind, id |-> id, challenge |-> challenges + 1]
  OBVIOUS
<1>4. c \in Ceremonies
  BY <1>2, <1>3 DEF Ceremonies
<1>5. ceremony' = [ceremony EXCEPT ![a] = c] /\ challenges' = challenges + 1
  BY <1>3 DEF StartCeremony
<1>6. /\ ceremony' \in [Agents -> Ceremonies]
      /\ \A b \in Agents : ceremony'[b] = IF b = a THEN c ELSE ceremony[b]
  BY <1>1, <1>4, <1>5, CeremonyNext
<1>7. /\ \A b \in Agents : ceremony[b].challenge \in Nat /\ ceremony[b].id \in Nat
      /\ \A answer \in answers : answer.challenge \in 1..MaxChallenges
  BY <1>2 DEF Ceremonies, Answer
<1>8. MadeBefore'
  <2>1. /\ mfa'.id <= ids'
        /\ \A answer \in answers' :
             answer.challenge <= challenges' /\ (answer.count = 0 => answer.key \in Counterless)
    BY <1>1, <1>2, <1>5, <1>7 DEF MadeBefore
  <2>2. ASSUME NEW b \in Agents
        PROVE  /\ ceremony'[b].challenge <= challenges' /\ ceremony'[b].id <= ids'
               /\ ceremony'[b] # NoCeremony =>
                    /\ ceremony'[b].kind # "none" /\ ceremony'[b].challenge # 0
                    /\ ceremony'[b].id # 0
    <3>1. CASE b = a
      BY <1>2, <1>3, <1>5, <1>6, <3>1
    <3>2. CASE b # a
      BY <1>1, <1>2, <1>5, <1>6, <1>7, <3>2 DEF MadeBefore
    <3> QED
      BY <3>1, <3>2
  <2> QED
    BY <2>1, <2>2 DEF MadeBefore
<1>9. ChallengesApart'
  <2>1. \A b \in Agents : ceremony[b].challenge # c.challenge
    BY <1>1, <1>2, <1>3, <1>7 DEF MadeBefore
  <2>2. \A answer \in answers : answer.challenge # c.challenge
    BY <1>1, <1>2, <1>3, <1>7 DEF MadeBefore
  <2> QED
    BY <1>1, <1>6, <2>1, <2>2 DEF ChallengesApart
<1> QED
  BY <1>2, <1>3, <1>5, <1>6, <1>8, <1>9

LEMMA NewUserStep ==
  ASSUME WebAuthnInv, NEW a \in Agents, NewUser(a)
  PROVE  WebAuthnInv'
<1>1. /\ WebAuthnTypeOK /\ MadeBefore /\ ids \in 0..MaxIds /\ ids + 1 \in 1..MaxIds
      /\ StartCeremony(a, "create", ids + 1) /\ ids' = ids + 1 /\ posting[a].step = "idle"
      /\ UNCHANGED <<mfa, enforcing, presses, answers, resetting, overtaken, accepted, again>>
  BY WebAuthnAssumption DEF WebAuthnInv, WebAuthnTypeOK, NewUser, Asking
<1>2. PICK user : user = [id |-> ids + 1, keys |-> <<>>]
  OBVIOUS
<1>3. user \in Users /\ user.id = ids + 1 /\ DOMAIN user.keys = {}
  BY <1>1, <1>2, NoKeys DEF Users
<1>4. PICK q : q = [Free EXCEPT !.step = "offer", !.write = user]
  OBVIOUS
<1>5. q \in Postings /\ q.step = "offer" /\ q.write = user
  BY <1>3, <1>4 DEF Free, Postings
<1>6. posting' = [posting EXCEPT ![a] = q]
  BY <1>2, <1>4 DEF NewUser
<1>7. /\ posting' \in [Agents -> Postings]
      /\ \A b \in Agents : posting'[b] = IF b = a THEN q ELSE posting[b]
  BY <1>1, <1>5, <1>6, PostingNext
<1>8. PICK id : id = ids + 1
  OBVIOUS
<1>9. /\ id \in 1..MaxIds /\ id <= ids' /\ ids' \in {ids, ids + 1} /\ ids' \in 0..MaxIds
      /\ StartCeremony(a, "create", id)
  BY <1>1, <1>8
<1>10. /\ \A b \in Agents : b # a => ceremony'[b] = ceremony[b]
       /\ ceremony'[a].kind = "create" /\ ceremony'[a].id = id
       /\ ceremony'[a].challenge = challenges + 1
       /\ ceremony' \in [Agents -> Ceremonies] /\ challenges' \in 0..MaxChallenges
       /\ MadeBefore' /\ ChallengesApart'
  BY <1>1, <1>9, CeremonyBegins
<1>11. WebAuthnTypeOK'
  BY <1>1, <1>7, <1>9, <1>10 DEF WebAuthnTypeOK, Postings
<1>12. ASSUME NEW b \in Agents PROVE Waiting(b)'
  <2>1. CASE b = a
    <3>1. posting'[b] = q
      BY <1>7, <2>1
    <3> QED
      BY <1>1, <1>3, <1>5, <3>1 DEF Waiting
  <2>2. CASE b # a
    <3>1. posting'[b] = posting[b] /\ ids' \in Nat /\ ids <= ids' /\ Waiting(b)
      BY <1>1, <1>7, <2>2 DEF WebAuthnInv
    <3> QED
      BY <1>1, <1>10, <2>2, <3>1, WaitsOn
  <2> QED
    BY <2>1, <2>2
<1>13. /\ mfa.id # id /\ \A b \in Agents : ceremony[b].id # id
       /\ \A b \in Agents : posting[b].step = "offer" => posting[b].write.id # id
  <2>1. /\ mfa.id \in Nat /\ mfa.id <= ids
        /\ \A b \in Agents : ceremony[b].id \in Nat /\ ceremony[b].id <= ids
    BY <1>1 DEF MadeBefore, WebAuthnTypeOK, Users, Unset, Ceremonies
  <2>2. \A b \in Agents : posting[b].step = "offer" =>
          posting[b].write.id \in Nat /\ posting[b].write.id <= ids
    BY DEF WebAuthnInv, Waiting, Users
  <2> QED
    BY <1>1, <1>8, <2>1, <2>2
<1>14. ~overtaken' => UsersApart'
  BY <1>1, <1>3, <1>5, <1>7, <1>8, <1>10, <1>13 DEF WebAuthnInv, UsersApart
<1>15. ASSUME ~overtaken' PROVE AnswersCounted'
  <2>1. AnswersCounted
    BY <1>1, <1>15 DEF WebAuthnInv
  <2>2. \A b \in Agents :
          /\ posting'[b].step = "offer" => posting'[b].write.id # mfa'.id
          /\ ceremony'[b].kind = "create" /\ ceremony'[b].id = mfa'.id => DOMAIN mfa'.keys = {}
    BY <1>1, <1>3, <1>5, <1>7, <1>8, <1>10, <1>13, <2>1 DEF AnswersCounted
  <2>3. ASSUME NEW answer \in accepted', NEW b \in Agents,
               ceremony'[b].challenge = answer.challenge, ceremony'[b].id = mfa'.id
        PROVE  answer.key \in DOMAIN mfa'.keys /\ mfa'.keys[answer.key] >= answer.count
    <3>1. b # a
      BY <1>1, <1>10, <1>13, <2>3
    <3> QED
      BY <1>1, <1>10, <2>1, <2>3, <3>1 DEF AnswersCounted
  <2> QED
    BY <1>1, <2>1, <2>2, <2>3 DEF AnswersCounted
<1> QED
  BY <1>10, <1>11, <1>12, <1>14, <1>15 DEF WebAuthnInv

LEMMA BeginLoginStep ==
  ASSUME WebAuthnInv, NEW a \in Agents, BeginLogin(a)
  PROVE  WebAuthnInv'
<1>1. /\ WebAuthnTypeOK /\ MadeBefore /\ ids \in 0..MaxIds /\ mfa.id <= ids
      /\ StartCeremony(a, "get", mfa.id) /\ ids' = ids /\ posting[a].step = "idle"
      /\ DOMAIN mfa.keys # {}
      /\ UNCHANGED <<mfa, enforcing, posting, presses, answers, resetting, overtaken,
                     accepted, again>>
  BY DEF WebAuthnInv, WebAuthnTypeOK, MadeBefore, BeginLogin, Asking
<1>2. mfa \in Users /\ mfa.id \in 1..MaxIds
  BY <1>1, NoKeys DEF WebAuthnTypeOK, Users, Unset
<1>3. PICK id : id = mfa.id
  OBVIOUS
<1>4. /\ \A b \in Agents : b # a => ceremony'[b] = ceremony[b]
      /\ ceremony'[a].kind = "get" /\ ceremony'[a].id = id
      /\ ceremony'[a].challenge = challenges + 1
      /\ ceremony' \in [Agents -> Ceremonies] /\ challenges' \in 0..MaxChallenges
      /\ MadeBefore' /\ ChallengesApart'
  <2>1. /\ id \in 1..MaxIds /\ id <= ids' /\ ids' \in {ids, ids + 1} /\ ids' \in 0..MaxIds
        /\ StartCeremony(a, "get", id)
    BY <1>1, <1>2, <1>3
  <2> QED
    BY <1>1, <2>1, CeremonyBegins
<1>5. WebAuthnTypeOK'
  BY <1>1, <1>4 DEF WebAuthnTypeOK
<1>6. ASSUME NEW b \in Agents PROVE Waiting(b)'
  <2>1. /\ posting'[b] = posting[b] /\ ids' \in Nat /\ ids <= ids' /\ Waiting(b)
        /\ answers' = answers
    BY <1>1 DEF WebAuthnInv
  <2>2. posting[b].step = "verified" => ceremony'[b] = ceremony[b]
    BY <1>1, <1>4
  <2> QED
    BY <1>1, <2>1, <2>2, WaitsOn
<1>7. ASSUME ~overtaken' PROVE UsersApart' /\ AnswersCounted'
  <2>1. UsersApart /\ AnswersCounted
    BY <1>1, <1>7 DEF WebAuthnInv
  <2>2. UsersApart'
    BY <1>1, <1>3, <1>4, <2>1 DEF UsersApart, AnswersCounted
  <2>3. \A b \in Agents :
          /\ posting'[b].step = "offer" => posting'[b].write.id # mfa'.id
          /\ ceremony'[b].kind = "create" /\ ceremony'[b].id = mfa'.id => DOMAIN mfa'.keys = {}
    BY <1>1, <1>4, <2>1 DEF AnswersCounted
  <2>4. ASSUME NEW answer \in accepted', NEW b \in Agents,
               ceremony'[b].challenge = answer.challenge, ceremony'[b].id = mfa'.id
        PROVE  answer.key \in DOMAIN mfa'.keys /\ mfa'.keys[answer.key] >= answer.count
    <3>1. answer.challenge <= challenges /\ answer.challenge \in Nat /\ challenges \in Nat
      BY <1>1, <2>4 DEF MadeBefore, WebAuthnTypeOK, Answer
    <3>2. b # a
      BY <1>4, <2>4, <3>1
    <3> QED
      BY <1>1, <1>4, <2>1, <2>4, <3>2 DEF AnswersCounted
  <2> QED
    BY <1>1, <2>1, <2>2, <2>3, <2>4 DEF AnswersCounted
<1> QED
  BY <1>4, <1>5, <1>6, <1>7 DEF WebAuthnInv

LEMMA OfferStep ==
  ASSUME WebAuthnInv, NEW a \in Agents, OfferRegistration(a)
  PROVE  WebAuthnInv'
<1>1. /\ WebAuthnTypeOK /\ MadeBefore /\ ChallengesApart /\ Waiting(a)
      /\ posting[a].step = "offer" /\ posting' = [posting EXCEPT ![a] = Free]
      /\ UNCHANGED <<enforcing, ids, challenges, ceremony, presses, answers, resetting,
                     overtaken, accepted, again>>
  BY DEF WebAuthnInv, OfferRegistration
<1>2. PICK user \in Users :
        user = posting[a].write /\ user.id <= ids /\ DOMAIN user.keys = {} /\ mfa' = user
  BY <1>1 DEF Waiting, OfferRegistration
<1>3. /\ posting' \in [Agents -> Postings]
      /\ \A b \in Agents : posting'[b] = IF b = a THEN Free ELSE posting[b]
  BY <1>1, FreeTyped, PostingNext
<1>4. WebAuthnTypeOK'
  BY <1>1, <1>2, <1>3 DEF WebAuthnTypeOK, Postings
<1>5. ASSUME NEW b \in Agents PROVE Waiting(b)'
  <2>1. CASE b = a
    <3>1. posting'[b] = Free
      BY <1>3, <2>1
    <3> QED
      BY <3>1, FreeTyped DEF Waiting
  <2>2. CASE b # a
    <3>1. posting'[b] = posting[b] /\ ids' \in Nat /\ ids <= ids' /\ Waiting(b)
      BY <1>1, <1>3, <2>2 DEF WebAuthnInv, WebAuthnTypeOK
    <3> QED
      BY <1>1, <3>1, WaitsOn
  <2> QED
    BY <2>1, <2>2
<1>6. MadeBefore' /\ ChallengesApart'
  BY <1>1, <1>2 DEF MadeBefore, ChallengesApart
<1>7. ASSUME ~overtaken' PROVE UsersApart' /\ AnswersCounted'
  <2>1. UsersApart /\ AnswersCounted
    BY <1>1, <1>7 DEF WebAuthnInv
  <2>2. UsersApart'
    BY <1>1, <1>3, <2>1, FreeTyped DEF UsersApart
  <2>3. \A b \in Agents :
          /\ posting'[b].step = "offer" => posting'[b].write.id # mfa'.id
          /\ ceremony'[b].kind = "create" /\ ceremony'[b].id = mfa'.id => DOMAIN mfa'.keys = {}
    BY <1>1, <1>2, <1>3, <2>1, FreeTyped DEF UsersApart
  <2>4. ASSUME NEW answer \in accepted', NEW b \in Agents,
               ceremony'[b].challenge = answer.challenge
        PROVE  ceremony'[b].id # mfa'.id
    <3>1. answer \in answers /\ answer.kind = "get"
      BY <1>1, <2>4 DEF WebAuthnTypeOK, ChallengesApart
    <3>2. ceremony[b].kind = "get"
      BY <1>1, <2>4, <3>1 DEF ChallengesApart
    <3> QED
      BY <1>1, <1>2, <2>1, <3>2 DEF UsersApart
  <2> QED
    BY <1>1, <2>1, <2>2, <2>3, <2>4 DEF AnswersCounted
<1> QED
  BY <1>4, <1>5, <1>6, <1>7 DEF WebAuthnInv

LEMMA PressStep ==
  ASSUME WebAuthnInv, NEW a \in Agents, NEW k \in SecurityKeys, Press(a, k)
  PROVE  WebAuthnInv'
<1>1. /\ WebAuthnTypeOK /\ MadeBefore /\ ChallengesApart
      /\ UNCHANGED <<mfa, enforcing, ids, challenges, ceremony, posting, resetting,
                     overtaken, accepted, again>>
  BY DEF WebAuthnInv, Press
<1>0. PICK count : count = IF k \in Counterless THEN 0 ELSE presses[k] + 1
  OBVIOUS
<1>2. PICK new : new = [kind |-> ceremony[a].kind, key |-> k, count |-> count,
                        challenge |-> ceremony[a].challenge]
  OBVIOUS
<1>3. answers' = answers \cup {new} /\ presses' = [presses EXCEPT ![k] = count]
  BY <1>0, <1>2 DEF Press
<1>4. /\ count \in 0..MaxPresses /\ (count = 0 => k \in Counterless)
      /\ ceremony[a] \in Ceremonies
      /\ ceremony[a].kind # "none" /\ ceremony[a].challenge # 0
      /\ ceremony[a].challenge <= challenges
  BY <1>1, <1>0, WebAuthnAssumption DEF Press, WebAuthnTypeOK, MadeBefore
<1>5. new \in Answer
  BY <1>2, <1>4, WebAuthnAssumption DEF Ceremonies, Answer
<1>6. WebAuthnTypeOK'
  <2>1. presses' \in [SecurityKeys -> 0..MaxPresses]
    BY <1>1, <1>3, <1>4 DEF WebAuthnTypeOK
  <2> QED
    BY <1>1, <1>3, <1>5, <2>1 DEF WebAuthnTypeOK
<1>7. ASSUME NEW b \in Agents PROVE Waiting(b)'
  <2>1. /\ posting'[b] = posting[b] /\ ids' \in Nat /\ ids <= ids' /\ Waiting(b)
        /\ answers \subseteq answers' /\ ceremony'[b] = ceremony[b]
    BY <1>1, <1>3 DEF WebAuthnInv, WebAuthnTypeOK
  <2> QED
    BY <1>1, <2>1, WaitsOn
<1>8. MadeBefore'
  BY <1>1, <1>2, <1>3, <1>4 DEF MadeBefore
<1>9. ChallengesApart'
  <2>1. \A b \in Agents : new.challenge = ceremony[b].challenge => new.kind = ceremony[b].kind
    BY <1>1, <1>2, <1>4 DEF ChallengesApart
  <2> QED
    BY <1>1, <1>3, <2>1 DEF ChallengesApart
<1>10. ~overtaken' => UsersApart' /\ AnswersCounted'
  BY <1>1 DEF WebAuthnInv, UsersApart, AnswersCounted
<1> QED
  BY <1>6, <1>7, <1>8, <1>9, <1>10 DEF WebAuthnInv

LEMMA ResetStep == ASSUME WebAuthnInv, ResetMfa PROVE WebAuthnInv'
<1>1. /\ WebAuthnTypeOK /\ MadeBefore /\ ChallengesApart
      /\ UNCHANGED <<ids, challenges, ceremony, posting, presses, answers,
                     overtaken, accepted, again>>
      /\ mfa' \in {mfa, Unset} /\ enforcing' \in BOOLEAN /\ resetting' \in BOOLEAN
  BY DEF WebAuthnInv, WebAuthnTypeOK, ResetMfa
<1>2. Unset.id = 0 /\ DOMAIN Unset.keys = {} /\ ids \in Nat
  BY <1>1, NoKeys DEF Unset, WebAuthnTypeOK
<1>3. WebAuthnTypeOK'
  BY <1>1 DEF WebAuthnTypeOK
<1>4. ASSUME NEW b \in Agents PROVE Waiting(b)'
  <2>1. /\ posting'[b] = posting[b] /\ ids' \in Nat /\ ids <= ids' /\ Waiting(b)
        /\ answers \subseteq answers' /\ ceremony'[b] = ceremony[b]
    BY <1>1, <1>2 DEF WebAuthnInv
  <2> QED
    BY <1>1, <2>1, WaitsOn
<1>5. MadeBefore'
  BY <1>1, <1>2 DEF MadeBefore
<1>6. ChallengesApart'
  BY <1>1 DEF ChallengesApart
<1>7. ASSUME ~overtaken' PROVE UsersApart' /\ AnswersCounted'
  <2>1. UsersApart /\ AnswersCounted
    BY <1>1, <1>7 DEF WebAuthnInv
  <2>2. UsersApart'
    BY <1>1, <2>1 DEF UsersApart
  <2> DEFINE Counts(user) ==
        /\ \A b \in Agents :
             /\ posting[b].step = "offer" => posting[b].write.id # user.id
             /\ ceremony[b].kind = "create" /\ ceremony[b].id = user.id =>
                  DOMAIN user.keys = {}
        /\ \A answer \in accepted, b \in Agents :
             ceremony[b].challenge = answer.challenge /\ ceremony[b].id = user.id =>
               answer.key \in DOMAIN user.keys /\ user.keys[answer.key] >= answer.count
  <2>3. Counts(mfa)
    BY <2>1 DEF AnswersCounted
  <2>4. Counts(Unset)
    <3>1. \A b \in Agents : posting[b].step = "offer" => posting[b].write.id # 0
      BY WebAuthnAssumption DEF WebAuthnInv, Waiting, Users
    <3>2. \A b \in Agents, answer \in accepted :
            ceremony[b].challenge = answer.challenge => ceremony[b].id # 0
      <4>1. \A answer \in accepted : answer.challenge # 0
        BY <1>1 DEF WebAuthnTypeOK, Answer
      <4>2. \A b \in Agents : ceremony[b].challenge # 0 => ceremony[b] # NoCeremony
        BY DEF NoCeremony
      <4> QED
        BY <1>1, <4>1, <4>2 DEF MadeBefore
    <3> QED
      BY <1>2, <3>1, <3>2
  <2>5. PICK user : user = mfa' /\ Counts(user)
    BY <1>1, <2>3, <2>4
  <2>6. AnswersCounted'
    BY <1>1, <2>1, <2>5 DEF AnswersCounted
  <2> QED
    BY <2>2, <2>6
<1> QED
  BY <1>3, <1>4, <1>5, <1>6, <1>7 DEF WebAuthnInv

LEMMA StoreStep ==
  ASSUME WebAuthnInv, NEW a \in Agents, StoreUser(a)
  PROVE  WebAuthnInv'
<1>1. /\ WebAuthnTypeOK /\ MadeBefore /\ ChallengesApart /\ Waiting(a)
      /\ posting[a].step = "verified" /\ posting[a] \in Postings
      /\ UNCHANGED <<enforcing, ids, challenges, presses, answers, resetting>>
  BY DEF WebAuthnInv, WebAuthnTypeOK, Postings, StoreUser
<1>2. PICK answer \in answers, read \in Users, user \in Users :
        /\ answer = posting[a].answer /\ read = posting[a].read
        /\ user = posting[a].write /\ user = AddCredential(read, answer)
  <2>1. posting[a].answer \in answers /\ posting[a].read \in Users
        /\ posting[a].write = AddCredential(posting[a].read, posting[a].answer)
    BY <1>1 DEF Waiting
  <2>2. posting[a].answer \in Answer
    BY <1>1, <2>1 DEF WebAuthnTypeOK
  <2>3. posting[a].write \in Users
    BY <2>1, <2>2, Added
  <2> QED
    BY <2>1, <2>3
<1>3. /\ answer \in Answer /\ user.id = read.id
      /\ DOMAIN user.keys = DOMAIN read.keys \cup {answer.key}
      /\ \A k \in DOMAIN read.keys \cup {answer.key} :
           user.keys[k] = IF k = answer.key THEN answer.count ELSE read.keys[k]
  <2>1. answer \in Answer
    BY <1>1 DEF WebAuthnTypeOK
  <2> QED
    BY <1>2, <2>1, Added
<1>4. /\ ceremony[a].challenge = answer.challenge /\ ceremony[a].id = read.id
      /\ ceremony[a].kind = answer.kind
      /\ answer.kind = "get" =>
           /\ answer.key \in DOMAIN read.keys
           /\ answer.count >= read.keys[answer.key]
           /\ answer.count > read.keys[answer.key] \/ answer.key \in Counterless
  BY <1>1, <1>2 DEF Waiting, ChallengesApart
<1>5. mfa' = user /\ overtaken' = (overtaken \/ mfa # read)
      /\ posting' = [posting EXCEPT ![a].step = "stored"]
  BY <1>2 DEF StoreUser
<1>6. PICK q : q = [posting[a] EXCEPT !.step = "stored"]
  OBVIOUS
<1>7. q \in Postings /\ q.step = "stored" /\ q.answer = answer
  BY <1>1, <1>2, <1>6 DEF Postings
<1>8. /\ posting' \in [Agents -> Postings]
      /\ \A b \in Agents : posting'[b] = IF b = a THEN q ELSE posting[b]
  <2>1. posting' = [posting EXCEPT ![a] = q]
    BY <1>5, <1>6
  <2> QED
    BY <1>1, <1>7, <2>1, PostingNext
<1>9. PICK c : c = IF answer.kind = "create" THEN NoCeremony ELSE ceremony[a]
  OBVIOUS
<1>10. /\ c \in Ceremonies
       /\ answer.kind = "create" => c = NoCeremony /\ c.kind = "none" /\ c.id = 0 /\ c.challenge = 0
       /\ answer.kind = "get" => c = ceremony[a]
  BY <1>1, <1>9, WebAuthnAssumption DEF WebAuthnTypeOK, NoCeremony, Ceremonies
<1>11. ceremony' = [ceremony EXCEPT ![a] = c]
  BY <1>1, <1>2, <1>9 DEF StoreUser, WebAuthnTypeOK
<1>12. /\ ceremony' \in [Agents -> Ceremonies]
       /\ \A b \in Agents : ceremony'[b] = IF b = a THEN c ELSE ceremony[b]
  BY <1>1, <1>10, <1>11, CeremonyNext
<1>13. /\ answer.kind \in {"create", "get"}
       /\ answer.kind = "create" => accepted' = accepted /\ again' = again
       /\ answer.kind = "get" => /\ accepted' = accepted \cup {answer}
                                 /\ again' = again \cup ({answer} \cap accepted)
  BY <1>2, <1>3 DEF StoreUser, Answer
<1>14. WebAuthnTypeOK'
  <2>1. accepted' \subseteq answers' /\ again' \subseteq accepted'
    BY <1>1, <1>13 DEF WebAuthnTypeOK
  <2>2. overtaken' \in BOOLEAN
    BY <1>5
  <2> QED
    BY <1>1, <1>5, <1>8, <1>12, <2>1, <2>2 DEF WebAuthnTypeOK, Postings
<1>15. ASSUME NEW b \in Agents PROVE Waiting(b)'
  <2>1. CASE b = a
    <3>1. posting'[b] = q
      BY <1>8, <2>1
    <3> QED
      BY <1>1, <1>7, <3>1 DEF Waiting
  <2>2. CASE b # a
    <3>1. /\ posting'[b] = posting[b] /\ ids' \in Nat /\ ids <= ids' /\ Waiting(b)
          /\ answers \subseteq answers' /\ ceremony'[b] = ceremony[b]
      BY <1>1, <1>8, <1>12, <2>2 DEF WebAuthnInv, WebAuthnTypeOK
    <3> QED
      BY <1>1, <3>1, WaitsOn
  <2> QED
    BY <2>1, <2>2
<1>16. MadeBefore'
  <2>1. ids \in Nat /\ challenges \in Nat
    BY <1>1 DEF WebAuthnTypeOK
  <2>2. mfa'.id <= ids
    BY <1>1, <1>3, <1>4, <1>5 DEF MadeBefore
  <2>3. ASSUME NEW b \in Agents
        PROVE  /\ ceremony'[b].challenge <= challenges /\ ceremony'[b].id <= ids
               /\ ceremony'[b] # NoCeremony =>
                    /\ ceremony'[b].kind # "none" /\ ceremony'[b].challenge # 0
                    /\ ceremony'[b].id # 0
    BY <1>1, <1>10, <1>12, <1>13, <2>1 DEF MadeBefore
  <2> QED
    BY <1>1, <2>2, <2>3 DEF MadeBefore
<1>17. ChallengesApart'
  <2>1. \A other \in answers : other.challenge # 0
    BY <1>1 DEF WebAuthnTypeOK, Answer
  <2>2. \A b \in Agents : ceremony'[b] = ceremony[b] \/ ceremony'[b].challenge = 0
    BY <1>10, <1>12, <1>13
  <2>3. \A other \in accepted' : other.kind = "get"
    BY <1>1, <1>13 DEF ChallengesApart
  <2>4. \A b, d \in Agents :
          ceremony'[b].challenge = ceremony'[d].challenge /\ ceremony'[b].challenge # 0 => b = d
    BY <1>1, <2>2 DEF ChallengesApart
  <2>5. \A other \in answers, b \in Agents :
          other.challenge = ceremony'[b].challenge => other.kind = ceremony'[b].kind
    BY <1>1, <2>1, <2>2 DEF ChallengesApart
  <2> QED
    BY <1>1, <2>3, <2>4, <2>5 DEF ChallengesApart
<1>18. ASSUME ~overtaken' PROVE UsersApart' /\ AnswersCounted'
  <2>1. UsersApart /\ AnswersCounted /\ mfa = read
    BY <1>5, <1>18 DEF WebAuthnInv
  <2>2. UsersApart'
    BY <1>7, <1>8, <1>10, <1>12, <1>13, <2>1 DEF UsersApart
  <2>3. ASSUME NEW b \in Agents
        PROVE  /\ posting'[b].step = "offer" => posting'[b].write.id # mfa'.id
               /\ ~(ceremony'[b].kind = "create" /\ ceremony'[b].id = mfa'.id)
    <3>1. posting'[b].step = "offer" => posting'[b].write.id # mfa'.id
      BY <1>3, <1>5, <1>7, <1>8, <2>1 DEF AnswersCounted
    <3>2. CASE answer.kind = "get"
      BY <1>3, <1>4, <1>5, <1>10, <1>12, <2>1, <3>1, <3>2 DEF AnswersCounted
    <3>3. CASE answer.kind = "create"
      <4>1. \A d \in Agents \ {a} : ~(ceremony[d].kind = "create" /\ ceremony[d].id = read.id)
        BY <1>4, <2>1, <3>3 DEF UsersApart
      <4> QED
        BY <1>3, <1>5, <1>10, <1>12, <3>1, <3>3, <4>1
    <3> QED
      BY <1>13, <3>1, <3>2, <3>3
  <2>4. ASSUME NEW other \in accepted', NEW b \in Agents,
               ceremony'[b].challenge = other.challenge, ceremony'[b].id = mfa'.id
        PROVE  other.key \in DOMAIN mfa'.keys /\ mfa'.keys[other.key] >= other.count
    <3>1. other \in answers /\ other \in Answer
      BY <1>1, <1>14, <2>4 DEF WebAuthnTypeOK
    <3>2. other.challenge # 0 /\ other.count \in Nat /\ answer.count \in Nat
      BY <1>3, <3>1 DEF Answer
    <3>3. ceremony'[b] = ceremony[b]
      BY <1>10, <1>12, <1>13, <2>4, <3>2
    <3>4. CASE other = answer /\ answer.kind = "get"
      BY <1>3, <1>5, <3>2, <3>4
    <3>5. CASE other \in accepted
      <4>1. other.key \in DOMAIN mfa.keys /\ mfa.keys[other.key] >= other.count
        BY <1>3, <1>5, <2>1, <2>4, <3>3, <3>5 DEF AnswersCounted
      <4>2. answer.kind = "get"
        BY <1>4, <1>13, <2>1, <4>1 DEF AnswersCounted
      <4>3. mfa.keys[other.key] \in Nat /\ read.keys[answer.key] \in Nat
        <5>1. read.keys \in KeySets
          BY DEF Users
        <5>2. answer.key \in DOMAIN read.keys
          BY <1>4, <4>2
        <5> QED
          BY <2>1, <4>1, <5>1, <5>2, KeySetTyped
      <4> QED
        BY <1>3, <1>4, <1>5, <2>1, <3>2, <4>1, <4>2, <4>3
    <3> QED
      BY <1>13, <2>4, <3>4, <3>5
  <2>5. \A other \in again' : other.key \in Counterless
    <3>1. CASE answer.kind = "create"
      BY <1>13, <2>1, <3>1 DEF AnswersCounted
    <3>2. CASE answer.kind = "get"
      <4>1. answer \notin accepted \/ answer.key \in Counterless
        <5> SUFFICES ASSUME answer \in accepted, answer.key \notin Counterless PROVE FALSE
          OBVIOUS
        <5>1. mfa.keys[answer.key] >= answer.count
          BY <1>4, <2>1 DEF AnswersCounted
        <5>2. mfa.keys[answer.key] \in Nat /\ answer.count \in Nat
          <6>1. read.keys \in KeySets /\ answer.key \in DOMAIN read.keys
            BY <1>4, <3>2 DEF Users
          <6> QED
            BY <1>3, <2>1, <6>1, KeySetTyped DEF Answer
        <5> QED
          BY <1>4, <2>1, <3>2, <5>1, <5>2
      <4> QED
        BY <1>13, <2>1, <3>2, <4>1 DEF AnswersCounted
    <3> QED
      BY <1>13, <3>1, <3>2
  <2> QED
    BY <2>2, <2>3, <2>4, <2>5 DEF AnswersCounted
<1> QED
  BY <1>14, <1>15, <1>16, <1>17, <1>18 DEF WebAuthnInv

LEMMA WebAuthnStep == WebAuthnInv /\ [NextWebAuthn]_ceremonies => WebAuthnInv'
<1> SUFFICES ASSUME WebAuthnInv, [NextWebAuthn]_ceremonies PROVE WebAuthnInv'
  OBVIOUS
<1>1. CASE UNCHANGED ceremonies
  <2>1. \A a \in Agents : Waiting(a)'
    BY <1>1 DEF WebAuthnInv, Waiting, ceremonies
  <2>2. WebAuthnTypeOK' /\ MadeBefore' /\ ChallengesApart'
    BY <1>1 DEF WebAuthnInv, WebAuthnTypeOK, MadeBefore, ChallengesApart, ceremonies
  <2>3. ~overtaken' => UsersApart' /\ AnswersCounted'
    BY <1>1 DEF WebAuthnInv, UsersApart, AnswersCounted, ceremonies
  <2> QED
    BY <2>1, <2>2, <2>3 DEF WebAuthnInv
<1>2. CASE \E a \in Agents : NewUser(a)
  BY <1>2, NewUserStep
<1>3. CASE \E a \in Agents : OfferRegistration(a)
  BY <1>3, OfferStep
<1>4. CASE \E a \in Agents : BeginLogin(a)
  BY <1>4, BeginLoginStep
<1>5. CASE \E a \in Agents : StoreUser(a)
  BY <1>5, StoreStep
<1>6. CASE \E a \in Agents, k \in SecurityKeys : Press(a, k)
  BY <1>6, PressStep
<1>7. CASE \E a \in Agents :
             \/ Refuse(a) \/ EnforceMFA(a) \/ FinishRegistration(a) \/ FinishLogin(a)
             \/ \E answer \in answers : Post(a, answer)
  BY <1>7, RequestStep
<1>8. CASE ResetMfa
  BY <1>8, ResetStep
<1> QED
  BY <1>1, <1>2, <1>3, <1>4, <1>5, <1>6, <1>7, <1>8 DEF NextWebAuthn

(* The ceremonies, the requests and the user's keys stay in their types,   *)
(* so that every value a request stores is one the library made            *)
(* (internal/webserver/authenticators/webauthn.go).                        *)
THEOREM WebAuthnTypeTheorem == SpecWebAuthn => []WebAuthnTypeOK
<1>1. WebAuthnInv => WebAuthnTypeOK
  BY DEF WebAuthnInv
<1> QED
  BY <1>1, WebAuthnInit, WebAuthnStep, PTL DEF SpecWebAuthn

(* For any browsers, keys and number of ceremonies: as long as no value is *)
(* stored over one it was not read from, an answer of a key that counts    *)
(* does not log in again when it is sent again, for the counter in the     *)
(* user's record has reached its count (AuthorisationAPI, webauthn.go).    *)
THEOREM AnswersTheorem == SpecWebAuthn => []AnswersAcceptedOnce
<1>1. WebAuthnInv => AnswersAcceptedOnce
  BY DEF WebAuthnInv, AnswersCounted, AnswersAcceptedOnce
<1> QED
  BY <1>1, WebAuthnInit, WebAuthnStep, PTL DEF SpecWebAuthn
=============================================================================
