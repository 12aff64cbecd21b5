------------------------ MODULE AuthenticationProofs ------------------------
(***************************************************************************)
(* For every number of requests at once, every lockout and any sets of     *)
(* users, devices and secrets: fewer answers than the lockout are          *)
(* evaluated for a device between two clearings of its counter, and no     *)
(* login writes a deleted device back.                                     *)
(***************************************************************************)
EXTENDS Authentication, FiniteSetTheorems, TLAPS

\* The requests that have counted themselves at address a and may still
\* evaluate an answer on the strength of that.
Counted(a) ==
  {s \in Sessions :
     sessions[s].step = "details" /\ sessions[s].addr = a /\ ~sessions[s].carried}

\* Every answer evaluated, or still to be, is in the counter.
AttemptsCover ==
  \A a \in Addresses :
    device[a] # Absent /\ device[a].attempts <= Lockout
      => guesses[a] + Cardinality(Counted(a)) <= device[a].attempts

\* The swap of a session about to commit has not been refused yet: the record
\* it read is the one that is there.
CommitsRead ==
  \A s \in Sessions :
    sessions[s].step = "commit"
      => sessions[s].read = device[sessions[s].addr] /\ sessions[s].read # Absent

IInv == TypeOK /\ GuessesBounded /\ AttemptsCover /\ CommitsRead

-----------------------------------------------------------------------------
(***************************************************************************)
(* The records and the requests.                                           *)
(***************************************************************************)

\* Every mutation of a user yields a user.
LEMMA UserTypes ==
  /\ NewUser \in UserRecord
  /\ \A u \in UserRecord :
       /\ \A l \in BOOLEAN : WithLock(u, l) \in UserRecord /\ WithEnforcing(u, l) \in UserRecord
       /\ \A m \in Mfas \cup {Unset} : WithMfa(u, m) \in UserRecord
BY DEF UserRecord, NewUser, WithLock, WithEnforcing, WithMfa

\* Every mutation of a device yields a device; the counter stops one above the
\* lockout, and the others change nothing of it or clear it.
LEMMA DeviceTypes ==
  /\ \A u \in Users, k \in Keys : NewDevice(u, k) \in DeviceRecord /\ NewDevice(u, k).attempts = 0
  /\ \A d \in DeviceRecord :
       /\ WithAttempt(d) \in DeviceRecord
       /\ WithAttempt(d).attempts = IF d.attempts <= Lockout THEN d.attempts + 1 ELSE d.attempts
       /\ \A n \in 0..(Lockout + 1) :
            WithAttempts(d, n) \in DeviceRecord /\ WithAttempts(d, n).attempts = n
       /\ \A n \in Nodes :
            WithAuthorisation(d, n) \in DeviceRecord /\ WithAuthorisation(d, n).attempts = 0
       /\ WithoutAuthorisation(d) \in DeviceRecord
       /\ WithoutAuthorisation(d).attempts = d.attempts
<1> USE LockoutAssumption DEF DeviceRecord
<1>1. \A u \in Users, k \in Keys : NewDevice(u, k) \in DeviceRecord /\ NewDevice(u, k).attempts = 0
  BY DEF NewDevice
<1> SUFFICES ASSUME NEW d \in DeviceRecord
             PROVE  /\ WithAttempt(d) \in DeviceRecord
                    /\ WithAttempt(d).attempts =
                         IF d.attempts <= Lockout THEN d.attempts + 1 ELSE d.attempts
                    /\ \A n \in 0..(Lockout + 1) :
                         WithAttempts(d, n) \in DeviceRecord /\ WithAttempts(d, n).attempts = n
                    /\ \A n \in Nodes :
                         /\ WithAuthorisation(d, n) \in DeviceRecord
                         /\ WithAuthorisation(d, n).attempts = 0
                    /\ WithoutAuthorisation(d) \in DeviceRecord
                    /\ WithoutAuthorisation(d).attempts = d.attempts
  BY <1>1
<1>2. \A n \in 0..(Lockout + 1) :
        WithAttempts(d, n) \in DeviceRecord /\ WithAttempts(d, n).attempts = n
  BY DEF WithAttempts
<1>3. \A n \in Nodes :
        WithAuthorisation(d, n) \in DeviceRecord /\ WithAuthorisation(d, n).attempts = 0
  <2> SUFFICES ASSUME NEW n \in Nodes
               PROVE  /\ WithAuthorisation(d, n) \in DeviceRecord
                      /\ WithAuthorisation(d, n).attempts = 0
    OBVIOUS
  <2> DEFINE d1 == [d EXCEPT !.authorised = TRUE]
             d2 == [d1 EXCEPT !.attempts = 0]
  <2>1. 0 \in 0..(Lockout + 1)
    OBVIOUS
  <2>2. d1 \in DeviceRecord
    OBVIOUS
  <2>3. d2 \in DeviceRecord /\ d2.attempts = 0
    BY <2>1, <2>2
  <2>4. WithAuthorisation(d, n) = [d2 EXCEPT !.node = n]
    BY DEF WithAuthorisation
  <2> HIDE DEF d1, d2
  <2> QED
    BY <2>3, <2>4
<1>4. WithoutAuthorisation(d) \in DeviceRecord /\ WithoutAuthorisation(d).attempts = d.attempts
  BY DEF WithoutAuthorisation
<1>5. d.attempts \in 0..(Lockout + 1) /\ (d.attempts <= Lockout => d.attempts + 1 \in 0..(Lockout + 1))
  OBVIOUS
<1>6. WithAttempt(d) = IF d.attempts <= Lockout THEN WithAttempts(d, d.attempts + 1) ELSE d
  BY DEF WithAttempt, WithAttempts
<1> QED
  BY <1>2, <1>3, <1>4, <1>5, <1>6

\* A request that has ended is a request.
LEMMA IdleType ==
  ASSUME NEW a \in Addresses, NEW u \in Users
  PROVE  Idle(a, u) \in SessionRecord /\ Idle(a, u).step = "idle"
BY DEF Idle, SessionRecord, Steps, Kinds

\* A refused swap sends a request back from "commit" to "authorise" and changes
\* nothing else; afterwards none that read the record is about to commit.
LEMMA DisturbedLemma ==
  ASSUME NEW ss \in [Sessions -> SessionRecord], NEW a \in Addresses
  PROVE  /\ Disturbed(ss, a) \in [Sessions -> SessionRecord]
         /\ \A r \in Sessions :
              /\ Disturbed(ss, a)[r].step = "details" =>
                   ss[r].step = "details" /\ Disturbed(ss, a)[r] = ss[r]
              /\ Disturbed(ss, a)[r].step = "commit" =>
                   ss[r].step = "commit" /\ Disturbed(ss, a)[r] = ss[r] /\ ss[r].addr # a
<1>1. ASSUME NEW r \in Sessions
      PROVE  [ss[r] EXCEPT !.step = "authorise", !.read = Absent] \in SessionRecord
             /\ [ss[r] EXCEPT !.step = "authorise", !.read = Absent].step = "authorise"
  BY DEF SessionRecord, Steps
<1> QED
  BY <1>1 DEF Disturbed

\* Clearing a counter marks the requests counted before and moves none.
LEMMA CarriedLemma ==
  ASSUME NEW ss \in [Sessions -> SessionRecord], NEW a \in Addresses
  PROVE  /\ Carried(ss, a) \in [Sessions -> SessionRecord]
         /\ \A r \in Sessions :
              /\ Carried(ss, a)[r].step = "details" =>
                   \/ Carried(ss, a)[r].carried
                   \/ Carried(ss, a)[r] = ss[r] /\ ss[r].addr # a
              /\ Carried(ss, a)[r].step = "details" =>
                   /\ ss[r].step = "details"
                   /\ Carried(ss, a)[r].addr = ss[r].addr
              /\ Carried(ss, a)[r].step = "commit" => Carried(ss, a)[r] = ss[r]
<1>1. ASSUME NEW r \in Sessions
      PROVE  /\ [ss[r] EXCEPT !.carried = TRUE] \in SessionRecord
             /\ [ss[r] EXCEPT !.carried = TRUE].carried
             /\ [ss[r] EXCEPT !.carried = TRUE].step = ss[r].step
             /\ [ss[r] EXCEPT !.carried = TRUE].addr = ss[r].addr
  BY DEF SessionRecord, Steps
<1> QED
  BY <1>1 DEF Carried

\* One request moves on, to a step other than the two the invariants name.
LEMMA OneMoves ==
  ASSUME TypeOK, NEW s \in Sessions, NEW new \in SessionRecord,
         new.step \notin {"details", "commit"},
         sessions' = [sessions EXCEPT ![s] = new]
  PROVE  /\ sessions' \in [Sessions -> SessionRecord]
         /\ \A r \in Sessions :
              /\ sessions'[r].step = "details" => sessions'[r] = sessions[r]
              /\ sessions'[r].step = "commit" => sessions'[r] = sessions[r]
BY DEF TypeOK

\* A request that ends leaves the steps the invariant speaks of.
LEMMA FinishedMoves ==
  ASSUME TypeOK, NEW s \in Sessions, sessions' = Finished(s)
  PROVE  /\ sessions' \in [Sessions -> SessionRecord]
         /\ \A r \in Sessions :
              /\ sessions'[r].step = "details" => sessions'[r] = sessions[r]
              /\ sessions'[r].step = "commit" => sessions'[r] = sessions[r]
<1> DEFINE new == Idle(sessions[s].addr, sessions[s].user)
<1>1. sessions[s].addr \in Addresses /\ sessions[s].user \in Users
  BY DEF TypeOK, SessionRecord
<1>2. new \in SessionRecord /\ new.step = "idle"
  BY <1>1, IdleType
<1>3. sessions' = [sessions EXCEPT ![s] = new]
  BY DEF Finished
<1> QED
  BY <1>2, <1>3, OneMoves

\* So does one that goes on to a step between "details" and "commit".
LEMMA MovedToMoves ==
  ASSUME TypeOK, NEW s \in Sessions, NEW step \in Steps \ {"details", "commit"},
         sessions' = MovedTo(s, step)
  PROVE  /\ sessions' \in [Sessions -> SessionRecord]
         /\ \A r \in Sessions :
              /\ sessions'[r].step = "details" => sessions'[r] = sessions[r]
              /\ sessions'[r].step = "commit" => sessions'[r] = sessions[r]
<1> DEFINE new == [sessions[s] EXCEPT !.step = step]
<1>1. new \in SessionRecord /\ new.step = step
  BY DEF TypeOK, SessionRecord
<1>2. sessions' = [sessions EXCEPT ![s] = new]
  BY DEF MovedTo
<1> QED
  BY <1>1, <1>2, OneMoves

-----------------------------------------------------------------------------
(***************************************************************************)
(* Counting.                                                               *)
(***************************************************************************)

\* There are finitely many requests, so Counted can be counted.
LEMMA CountedFinite ==
  ASSUME NEW a
  PROVE  IsFiniteSet(Counted(a)) /\ Cardinality(Counted(a)) \in Nat
<1>1. IsFiniteSet(Counted(a))
  BY SessionsAssumption, FS_Subset DEF Counted
<1> QED
  BY <1>1, FS_CardinalityType

\* The same after a step.
LEMMA CountedFinitePrime ==
  ASSUME NEW a
  PROVE  IsFiniteSet(Counted(a)') /\ Cardinality(Counted(a)') \in Nat
<1>1. Counted(a)' \subseteq Sessions
  BY DEF Counted
<1>2. IsFiniteSet(Counted(a)')
  BY <1>1, SessionsAssumption, FS_Subset
<1> QED
  BY <1>2, FS_CardinalityType

\* A step that evaluates no answer, clears no counter and counts no request.
LEMMA CoverKept ==
  ASSUME IInv, TypeOK', guesses' = guesses,
         \A a \in Addresses :
           device'[a] # Absent /\ device'[a].attempts <= Lockout
             => device[a] # Absent /\ device[a].attempts = device'[a].attempts,
         \A r \in Sessions :
           sessions'[r].step = "details" => sessions'[r] = sessions[r]
  PROVE  AttemptsCover' /\ GuessesBounded'
<1>1. \A a \in Addresses : Counted(a)' \subseteq Counted(a)
  BY DEF Counted
<1>2. \A a \in Addresses : Cardinality(Counted(a)') <= Cardinality(Counted(a))
  BY <1>1, CountedFinite, FS_Subset
<1>3. AttemptsCover'
  <2> SUFFICES ASSUME NEW a \in Addresses, device'[a] # Absent, device'[a].attempts <= Lockout
               PROVE  guesses'[a] + Cardinality(Counted(a)') <= device'[a].attempts
    BY DEF AttemptsCover
  <2>1. guesses[a] + Cardinality(Counted(a)) <= device[a].attempts
    BY DEF IInv, AttemptsCover
  <2>2. guesses[a] \in Nat /\ device[a].attempts \in Nat
    BY LockoutAssumption DEF IInv, TypeOK, DeviceRecord
  <2> QED
    BY <1>2, <2>1, <2>2, CountedFinite, CountedFinitePrime
<1>4. GuessesBounded'
  BY DEF IInv, GuessesBounded
<1> QED
  BY <1>3, <1>4

\* A step that clears the counter of the device at address a.
LEMMA CoverCleared ==
  ASSUME IInv, TypeOK', NEW a \in Addresses, guesses' = [guesses EXCEPT ![a] = 0],
         device'[a].attempts = 0,
         \A b \in Addresses \ {a} : device'[b] = device[b],
         Counted(a)' = {},
         \A b \in Addresses \ {a} : Counted(b)' \subseteq Counted(b)
  PROVE  AttemptsCover' /\ GuessesBounded'
<1>1. guesses'[a] = 0 /\ \A b \in Addresses \ {a} : guesses'[b] = guesses[b]
  BY DEF IInv, TypeOK
<1>2. Cardinality(Counted(a)') = 0
  BY FS_EmptySet
<1>3. \A b \in Addresses \ {a} : Cardinality(Counted(b)') <= Cardinality(Counted(b))
  BY CountedFinite, FS_Subset
<1>4. AttemptsCover'
  <2> SUFFICES ASSUME NEW b \in Addresses, device'[b] # Absent, device'[b].attempts <= Lockout
               PROVE  guesses'[b] + Cardinality(Counted(b)') <= device'[b].attempts
    BY DEF AttemptsCover
  <2>1. CASE b = a
    BY <1>1, <1>2, <2>1
  <2>2. CASE b # a
    <3>1. guesses[b] + Cardinality(Counted(b)) <= device[b].attempts
      BY <2>2 DEF IInv, AttemptsCover
    <3>2. guesses[b] \in Nat /\ device[b].attempts \in Nat
      BY <2>2, LockoutAssumption DEF IInv, TypeOK, DeviceRecord
    <3> QED
      BY <1>1, <1>3, <2>2, <3>1, <3>2, CountedFinite, CountedFinitePrime
  <2> QED
    BY <2>1, <2>2
<1>5. GuessesBounded'
  BY <1>1, LockoutAssumption DEF IInv, GuessesBounded
<1> QED
  BY <1>4, <1>5

\* A step that writes no device and moves no request into, or within, the two
\* steps the invariants name.
LEMMA QuietStep ==
  ASSUME IInv, TypeOK', UNCHANGED <<device, guesses>>,
         \A r \in Sessions :
           /\ sessions'[r].step = "details" => sessions'[r] = sessions[r]
           /\ sessions'[r].step = "commit" => sessions'[r] = sessions[r]
  PROVE  IInv'
<1>1. AttemptsCover' /\ GuessesBounded'
  BY CoverKept
<1>2. CommitsRead'
  BY DEF IInv, CommitsRead
<1> QED
  BY <1>1, <1>2 DEF IInv

\* A write of the records in S sends the requests that have read one back.
LEMMA CommitsKept ==
  ASSUME IInv, NEW S \in SUBSET Addresses,
         \A b \in Addresses \ S : device'[b] = device[b],
         \A r \in Sessions :
           sessions'[r].step = "commit" =>
             sessions'[r] = sessions[r] /\ sessions[r].addr \notin S
  PROVE  CommitsRead'
<1>1. \A r \in Sessions : sessions[r].addr \in Addresses
  BY DEF IInv, TypeOK, SessionRecord
<1> QED
  BY <1>1 DEF IInv, CommitsRead

\* Nobody has counted, answered or read anything yet.
LEMMA InitIInv == Init => IInv
<1> SUFFICES ASSUME NEW a \in Addresses, NEW u \in Users, NEW k \in Keys,
                    user = [x \in Users |-> IF x = u THEN NewUser ELSE Absent],
                    device = [x \in Addresses |-> IF x = a THEN NewDevice(u, k) ELSE Absent],
                    sessions = [s \in Sessions |-> Idle(a, u)],
                    resetting = {}, deleting = {},
                    guesses = [x \in Addresses |-> 0],
                    verified = [x \in Users |-> {}],
                    contested = [x \in Users |-> FALSE]
             PROVE  IInv
  BY DEF Init
<1>1. TypeOK
  BY IdleType, UserTypes, DeviceTypes DEF TypeOK
<1>2. \A b \in Addresses : Counted(b) = {}
  BY IdleType DEF Counted
<1>3. \A b \in Addresses : Cardinality(Counted(b)) = 0
  BY <1>2, FS_EmptySet
<1>4. \A b \in Addresses : device[b] # Absent => device[b].attempts = 0
  BY DeviceTypes
<1>5. AttemptsCover
  BY <1>3, <1>4 DEF AttemptsCover
<1>6. GuessesBounded /\ CommitsRead
  BY IdleType, LockoutAssumption DEF GuessesBounded, CommitsRead
<1> QED
  BY <1>1, <1>5, <1>6 DEF IInv

-----------------------------------------------------------------------------
(***************************************************************************)
(* A request.                                                              *)
(***************************************************************************)

\* A request starts: it has not counted itself yet.
LEMMA BeginInv ==
  ASSUME IInv, NEW s \in Sessions, NEW a \in Addresses, NEW kind \in Kinds, Begin(s, a, kind)
  PROVE  IInv'
<1> DEFINE new == [Idle(a, device[a].owner) EXCEPT
                     !.step = IF kind = "enrol" THEN "setMfa" ELSE "increment",
                     !.kind = kind]
<1>1. device[a].owner \in Users
  BY DEF Begin, IInv, TypeOK, DeviceRecord
<1>2. new \in SessionRecord /\ new.step \in {"setMfa", "increment"}
  <2> DEFINE blank == Idle(a, device[a].owner)
             step == IF kind = "enrol" THEN "setMfa" ELSE "increment"
             moved == [blank EXCEPT !.step = step]
  <2>1. blank \in SessionRecord
    BY <1>1, IdleType
  <2>2. step \in {"setMfa", "increment"} /\ step \in Steps
    BY DEF Steps
  <2> HIDE DEF blank, step
  <2>3. moved \in SessionRecord /\ moved.step = step
    BY <2>1, <2>2 DEF SessionRecord
  <2>4. new = [moved EXCEPT !.kind = kind]
    BY DEF blank, step
  <2> HIDE DEF moved, new
  <2> QED
    BY <2>2, <2>3, <2>4 DEF SessionRecord
<1>3. sessions' = [sessions EXCEPT ![s] = new]
      /\ UNCHANGED <<user, device, resetting, deleting, guesses, verified, contested>>
  BY DEF Begin, records, admin, history
<1> HIDE DEF new
<1>4. TypeOK'
  BY <1>2, <1>3, OneMoves DEF IInv, TypeOK
<1> QED
  BY <1>2, <1>3, <1>4, OneMoves, QuietStep DEF IInv

\* RegistrationAPI stores a secret: devices and counters are left alone.
LEMMA SetUserMfaInv ==
  ASSUME IInv, NEW s \in Sessions, NEW m \in Mfas, SetUserMfa(s, m)
  PROVE  IInv'
<1> DEFINE u == sessions[s].user
<1>1. u \in Users
  BY DEF IInv, TypeOK, SessionRecord
<1>2. sessions' = Finished(s) /\ UNCHANGED <<device, resetting, deleting, guesses, verified>>
  BY DEF SetUserMfa, admin
<1>3. user' \in [Users -> UserRecord \cup {Absent}] /\ contested' \in [Users -> BOOLEAN]
  <2>1. CASE user[u] = Absent
    BY <2>1 DEF SetUserMfa, IInv, TypeOK
  <2>2. CASE user[u] # Absent
    <3>1. user' = [user EXCEPT ![u] = WithMfa(user[u], m)] /\ Contest(u, {s})
      BY <2>2 DEF SetUserMfa
    <3>2. contested' \in [Users -> BOOLEAN]
      <4>1. user[u].enforcing \in BOOLEAN
        BY <1>1, <2>2 DEF IInv, TypeOK, UserRecord
      <4> QED
        BY <3>1, <4>1 DEF Contest, IInv, TypeOK
    <3>3. user[u] \in UserRecord
      BY <1>1, <2>2 DEF IInv, TypeOK
    <3> QED
      BY <1>1, <3>1, <3>2, <3>3, UserTypes DEF IInv, TypeOK
  <2> QED
    BY <2>1, <2>2
<1>4. TypeOK'
  BY <1>2, <1>3, FinishedMoves DEF IInv, TypeOK
<1> QED
  BY <1>2, <1>4, FinishedMoves, QuietStep DEF IInv

\* A request counts itself: counter and Counted both grow by one, and below the
\* lockout nothing stops the counter.
LEMMA IncrementInv ==
  ASSUME IInv, NEW s \in Sessions, IncrementAuthenticationAttempt(s)
  PROVE  IInv'
<1> PICK a \in Addresses : a = sessions[s].addr
  BY DEF IInv, TypeOK, SessionRecord
<1>1. sessions[s] \in SessionRecord
  BY DEF IInv, TypeOK
<1>2. UNCHANGED <<user, resetting, deleting, guesses, verified, contested>>
  BY DEF IncrementAuthenticationAttempt, admin, history
<1>3. CASE Present(s)
  <2> DEFINE new == [sessions[s] EXCEPT !.step = "details", !.carried = FALSE]
             moved == [sessions EXCEPT ![s] = new]
  <2>1. device' = [device EXCEPT ![a] = WithAttempt(device[a])] /\ sessions' = Disturbed(moved, a)
    BY <1>3 DEF IncrementAuthenticationAttempt
  <2>2. new \in SessionRecord /\ new.step = "details" /\ new.addr = a
    BY <1>1 DEF SessionRecord, Steps
  <2> HIDE DEF new
  <2>3. moved \in [Sessions -> SessionRecord] /\ moved[s] = new
        /\ \A r \in Sessions \ {s} : moved[r] = sessions[r]
    BY <2>2 DEF IInv, TypeOK
  <2> HIDE DEF moved
  <2>4. device[a] \in DeviceRecord
    BY <1>1, <1>3 DEF Present, IInv, TypeOK
  <2>5. TypeOK'
    BY <1>1, <1>2, <2>1, <2>3, <2>4, DisturbedLemma, DeviceTypes DEF IInv, TypeOK
  <2>6. CommitsRead'
    <3>1. \A r \in Sessions :
            sessions'[r].step = "commit" => sessions'[r] = sessions[r] /\ sessions[r].addr \notin {a}
      BY <1>1, <2>1, <2>2, <2>3, DisturbedLemma
    <3>2. \A b \in Addresses \ {a} : device'[b] = device[b]
      BY <2>1 DEF IInv, TypeOK
    <3> QED
      BY <1>1, <3>1, <3>2, CommitsKept
  <2>7. Counted(a)' \subseteq Counted(a) \cup {s}
        /\ \A b \in Addresses \ {a} : Counted(b)' \subseteq Counted(b)
    BY <1>1, <2>1, <2>2, <2>3, DisturbedLemma DEF Counted
  <2>8. Cardinality(Counted(a)') <= Cardinality(Counted(a)) + 1
    <3>1. IsFiniteSet(Counted(a) \cup {s})
          /\ Cardinality(Counted(a) \cup {s}) <= Cardinality(Counted(a)) + 1
      <4>1. IsFiniteSet(Counted(a)) /\ Cardinality(Counted(a)) \in Nat
        BY CountedFinite
      <4> DEFINE C == Counted(a)
      <4> HIDE DEF C
      <4>2. IsFiniteSet(C) => IsFiniteSet(C \cup {s})
              /\ Cardinality(C \cup {s}) = IF s \in C THEN Cardinality(C) ELSE Cardinality(C) + 1
        BY FS_AddElement
      <4> QED
        BY <4>1, <4>2 DEF C
    <3>2. Cardinality(Counted(a)') <= Cardinality(Counted(a) \cup {s})
      BY <2>7, <3>1, FS_Subset
    <3> QED
      BY <3>1, <3>2, CountedFinite, CountedFinitePrime, FS_CardinalityType
  <2>9. \A b \in Addresses \ {a} : Cardinality(Counted(b)') <= Cardinality(Counted(b))
    BY <2>7, CountedFinite, FS_Subset
  <2>10. AttemptsCover'
    <3> SUFFICES ASSUME NEW b \in Addresses, device'[b] # Absent, device'[b].attempts <= Lockout
                 PROVE  guesses[b] + Cardinality(Counted(b)') <= device'[b].attempts
      BY <1>2 DEF AttemptsCover
    <3>1. CASE b = a
      <4>1. device'[a] = WithAttempt(device[a]) /\ device[a].attempts \in Nat
        BY <1>1, <2>1, <2>4, LockoutAssumption DEF IInv, TypeOK, DeviceRecord
      <4>2. device[a].attempts <= Lockout /\ device'[a].attempts = device[a].attempts + 1
        BY <2>4, <3>1, <4>1, DeviceTypes, LockoutAssumption
      <4>3. guesses[a] + Cardinality(Counted(a)) <= device[a].attempts
        BY <1>1, <1>3, <4>2 DEF IInv, AttemptsCover, Present
      <4>4. guesses[a] \in Nat
        BY <1>1 DEF IInv, TypeOK
      <4> QED
        BY <2>8, <3>1, <4>1, <4>2, <4>3, <4>4, CountedFinite, CountedFinitePrime
    <3>2. CASE b # a
      <4>1. device'[b] = device[b]
        BY <2>1, <3>2 DEF IInv, TypeOK
      <4>2. guesses[b] + Cardinality(Counted(b)) <= device[b].attempts
        BY <4>1 DEF IInv, AttemptsCover
      <4>3. guesses[b] \in Nat /\ device[b].attempts \in Nat
        BY <4>1, LockoutAssumption DEF IInv, TypeOK, DeviceRecord
      <4> QED
        BY <2>9, <3>2, <4>1, <4>2, <4>3, CountedFinite, CountedFinitePrime
    <3> QED
      BY <3>1, <3>2
  <2>11. GuessesBounded'
    BY <1>2 DEF IInv, GuessesBounded
  <2> QED
    BY <2>5, <2>6, <2>10, <2>11 DEF IInv
<1>4. CASE ~Present(s)
  <2>1. sessions' = Finished(s) /\ UNCHANGED device
    BY <1>4 DEF IncrementAuthenticationAttempt
  <2>2. TypeOK'
    BY <1>2, <2>1, FinishedMoves DEF IInv, TypeOK
  <2> QED
    BY <1>2, <2>1, <2>2, FinishedMoves, QuietStep DEF IInv
<1> QED
  BY <1>3, <1>4

\* A request reads the counter: it leaves Counted, and adds a guess only if the
\* counter, which covers both, is below the lockout.
LEMMA DetailsInv ==
  ASSUME IInv, NEW s \in Sessions, GetAuthenticationDetails(s)
  PROVE  IInv'
<1> PICK a \in Addresses : a = sessions[s].addr
  BY DEF IInv, TypeOK, SessionRecord
<1> DEFINE u == sessions[s].user
           new == [sessions[s] EXCEPT !.step = "verify", !.mfa = user[u].mfa, !.carried = FALSE]
<1>1. u \in Users /\ sessions[s] \in SessionRecord
  BY DEF IInv, TypeOK, SessionRecord
<1>2. UNCHANGED <<user, device, resetting, deleting, verified, contested>>
  BY DEF GetAuthenticationDetails, records, admin
<1>3. CASE sessions' = Finished(s) /\ UNCHANGED guesses
  <2>1. TypeOK'
    BY <1>2, <1>3, FinishedMoves DEF IInv, TypeOK
  <2> QED
    BY <1>2, <1>3, <2>1, FinishedMoves, QuietStep DEF IInv
<1>4. CASE /\ MayAnswer(s)
           /\ sessions' = [sessions EXCEPT ![s] = new]
           /\ guesses' = [guesses EXCEPT ![a] = IF sessions[s].carried THEN guesses[a]
                                                ELSE guesses[a] + 1]
  <2>1. user[u].mfa \in Mfas \cup {Unset}
    BY <1>1, <1>4 DEF MayAnswer, IInv, TypeOK, UserRecord
  <2>2. new \in SessionRecord /\ new.step = "verify"
    BY <1>1, <2>1 DEF SessionRecord, Steps
  <2> HIDE DEF new
  <2>3. guesses' \in [Addresses -> Nat]
    BY <1>1, <1>4 DEF IInv, TypeOK
  <2>4. TypeOK'
    BY <1>2, <1>4, <2>2, <2>3, OneMoves DEF IInv, TypeOK
  <2>5. CommitsRead'
    BY <1>2, <1>4, <2>2, OneMoves DEF IInv, CommitsRead
  <2>6. CASE sessions[s].carried
    <3>1. guesses' = guesses
      BY <1>1, <1>4, <2>6 DEF IInv, TypeOK
    <3> QED
      BY <1>2, <1>4, <2>2, <2>4, <2>5, <3>1, OneMoves, CoverKept DEF IInv
  <2>7. CASE ~sessions[s].carried
    <3>1. s \in Counted(a) /\ sessions'[s].step # "details"
      BY <1>4, <2>2, <2>7 DEF Counted, GetAuthenticationDetails, IInv, TypeOK
    <3>2. Counted(a)' \subseteq Counted(a) \ {s}
          /\ \A b \in Addresses \ {a} : Counted(b)' \subseteq Counted(b)
      BY <1>4, <2>2, <3>1, OneMoves DEF Counted, IInv
    <3>3. Cardinality(Counted(a)') <= Cardinality(Counted(a)) - 1
      <4>1. IsFiniteSet(Counted(a) \ {s})
            /\ Cardinality(Counted(a) \ {s}) = Cardinality(Counted(a)) - 1
        BY <3>1, CountedFinite, FS_RemoveElement
      <4> QED
        BY <3>2, <4>1, FS_Subset
    <3>4. \A b \in Addresses \ {a} : Cardinality(Counted(b)') <= Cardinality(Counted(b))
      BY <3>2, CountedFinite, FS_Subset
    <3>5. guesses[a] + Cardinality(Counted(a)) <= device[a].attempts /\ device[a].attempts < Lockout
      <4>1. device[a] # Absent /\ device[a].attempts < Lockout /\ device[a].attempts \in Nat
        BY <1>1, <1>4, LockoutAssumption DEF MayAnswer, Present, IInv, TypeOK, DeviceRecord
      <4> QED
        BY <1>1, <4>1, LockoutAssumption DEF IInv, AttemptsCover
    <3>6. guesses'[a] = guesses[a] + 1 /\ \A b \in Addresses \ {a} : guesses'[b] = guesses[b]
      BY <1>1, <1>4, <2>7 DEF IInv, TypeOK
    <3>7. \A b \in Addresses : guesses[b] \in Nat
      BY DEF IInv, TypeOK
    <3>8. device[a].attempts \in Nat
      BY <1>1, <1>4, LockoutAssumption DEF MayAnswer, Present, IInv, TypeOK, DeviceRecord
    <3>9. guesses'[a] + Cardinality(Counted(a)') <= device[a].attempts
      BY <1>1, <3>3, <3>5, <3>6, <3>7, <3>8, CountedFinite, CountedFinitePrime
    <3>10. AttemptsCover'
      <4> SUFFICES ASSUME NEW b \in Addresses, device[b] # Absent, device[b].attempts <= Lockout
                   PROVE  guesses'[b] + Cardinality(Counted(b)') <= device[b].attempts
        BY <1>2 DEF AttemptsCover
      <4>1. CASE b = a
        BY <3>9, <4>1
      <4>2. CASE b # a
        <5>1. guesses[b] + Cardinality(Counted(b)) <= device[b].attempts /\ device[b].attempts \in Nat
          BY LockoutAssumption DEF IInv, AttemptsCover, TypeOK, DeviceRecord
        <5> QED
          BY <3>4, <3>6, <3>7, <4>2, <5>1, CountedFinite, CountedFinitePrime
      <4> QED
        BY <4>1, <4>2
    <3>11. GuessesBounded'
      <4>1. guesses'[a] < Lockout
        BY <1>1, <3>5, <3>6, <3>7, <3>8, <3>9, CountedFinitePrime, LockoutAssumption
      <4> QED
        BY <3>6, <4>1 DEF IInv, GuessesBounded
    <3> QED
      BY <2>4, <2>5, <3>10, <3>11 DEF IInv
  <2> QED
    BY <2>6, <2>7
<1> QED
  BY <1>3, <1>4 DEF GetAuthenticationDetails

\* The authenticator answers: only history and the step change.
LEMMA VerifyInv ==
  ASSUME IInv, NEW s \in Sessions, Verify(s)
  PROVE  IInv'
<1>1. UNCHANGED <<user, device, resetting, deleting, guesses, contested>>
  BY DEF Verify, records, admin
<1>2. verified' \in [Users -> SUBSET (Mfas \cup {Unset})]
  <2>1. sessions[s].user \in Users /\ sessions[s].mfa \in Mfas \cup {Unset}
    BY DEF IInv, TypeOK, SessionRecord
  <2> QED
    BY <2>1 DEF Verify, IInv, TypeOK
<1>3. sessions' = MovedTo(s, "enforce") \/ sessions' = Finished(s)
  BY DEF Verify
<1>4. "enforce" \in Steps \ {"details", "commit"}
  BY DEF Steps
<1>5. TypeOK'
  BY <1>1, <1>2, <1>3, <1>4, MovedToMoves, FinishedMoves DEF IInv, TypeOK
<1> QED
  BY <1>1, <1>3, <1>4, <1>5, MovedToMoves, FinishedMoves, QuietStep DEF IInv

\* The look at Enforcing changes only the step.
LEMMA IsEnforcingInv ==
  ASSUME IInv, NEW s \in Sessions, IsEnforcingMFA(s)
  PROVE  IInv'
<1>1. UNCHANGED <<user, device, resetting, deleting, guesses, verified, contested>>
  BY DEF IsEnforcingMFA, records, admin, history
<1>2. PICK step \in Steps \ {"details", "commit"} : sessions' = MovedTo(s, step)
  BY DEF IsEnforcingMFA, Steps
<1>3. TypeOK'
  BY <1>1, <1>2, MovedToMoves DEF IInv, TypeOK
<1> QED
  BY <1>1, <1>2, <1>3, MovedToMoves, QuietStep DEF IInv

\* EnforceMFA writes the user, not the device.
LEMMA EnforceInv ==
  ASSUME IInv, NEW s \in Sessions, EnforceMFA(s)
  PROVE  IInv'
<1>1. UNCHANGED <<device, resetting, deleting, guesses, verified, contested>>
  BY DEF EnforceMFA, admin, history
<1>2. sessions' = Finished(s) \/ sessions' = MovedTo(s, "authorise")
  BY DEF EnforceMFA
<1>3. "authorise" \in Steps \ {"details", "commit"}
  BY DEF Steps
<1>4. user' \in [Users -> UserRecord \cup {Absent}]
  <2>1. sessions[s].user \in Users
    BY DEF IInv, TypeOK, SessionRecord
  <2>2. CASE UNCHANGED user
    BY <2>2 DEF IInv, TypeOK
  <2>3. CASE /\ user[sessions[s].user] # Absent
             /\ user' = [user EXCEPT ![sessions[s].user] = WithEnforcing(@, TRUE)]
    BY <2>1, <2>3, UserTypes DEF IInv, TypeOK
  <2> QED
    BY <2>2, <2>3 DEF EnforceMFA
<1>5. TypeOK'
  BY <1>1, <1>2, <1>3, <1>4, MovedToMoves, FinishedMoves DEF IInv, TypeOK
<1> QED
  BY <1>1, <1>2, <1>3, <1>5, MovedToMoves, FinishedMoves, QuietStep DEF IInv

\* AuthoriseDevice reads the record its swap will compare.
LEMMA CheckInv ==
  ASSUME IInv, NEW s \in Sessions, CheckAccountLock(s)
  PROVE  IInv'
<1>1. UNCHANGED <<user, device, resetting, deleting, guesses, verified, contested>>
  BY DEF CheckAccountLock, records, admin, history
<1>2. CASE sessions' = Finished(s)
  <2>1. TypeOK'
    BY <1>1, <1>2, FinishedMoves DEF IInv, TypeOK
  <2> QED
    BY <1>1, <1>2, <2>1, FinishedMoves, QuietStep DEF IInv
<1>3. CASE Present(s) /\ sessions' = [sessions EXCEPT ![s].step = "commit",
                                                    ![s].read = device[sessions[s].addr]]
  <2> DEFINE d == device[sessions[s].addr]
             new == [sessions[s] EXCEPT !.step = "commit", !.read = d]
  <2>1. d \in DeviceRecord /\ d # Absent
    BY <1>3 DEF Present, IInv, TypeOK, SessionRecord
  <2>2. /\ new \in SessionRecord /\ new.step = "commit" /\ new.read = d
        /\ new.addr = sessions[s].addr
    BY <2>1 DEF IInv, TypeOK, SessionRecord, Steps
  <2>3. sessions' = [sessions EXCEPT ![s] = new]
    BY <1>3
  <2> HIDE DEF new
  <2>4. TypeOK'
    BY <1>1, <2>2, <2>3 DEF IInv, TypeOK
  <2>5. CommitsRead'
    BY <1>1, <2>1, <2>2, <2>3 DEF IInv, CommitsRead, TypeOK
  <2>6. \A r \in Sessions : sessions'[r].step = "details" => sessions'[r] = sessions[r]
    BY <2>2, <2>3 DEF IInv, TypeOK
  <2> QED
    BY <1>1, <2>4, <2>5, <2>6, CoverKept DEF IInv
<1> QED
  BY <1>2, <1>3 DEF CheckAccountLock

\* Clearing the counter at address a carries the requests counted there.
LEMMA CountedCleared ==
  ASSUME NEW ss \in [Sessions -> SessionRecord], NEW a \in Addresses,
         sessions' = Carried(ss, a),
         \A r \in Sessions : ss[r].step = "details" => ss[r] = sessions[r]
  PROVE  Counted(a)' = {} /\ \A b \in Addresses \ {a} : Counted(b)' \subseteq Counted(b)
<1>1. ASSUME NEW r \in Sessions, sessions'[r].step = "details", ~sessions'[r].carried
      PROVE  sessions'[r] = sessions[r] /\ sessions'[r].addr # a
  BY <1>1, CarriedLemma
<1> QED
  BY <1>1 DEF Counted

\* The swap succeeds: counter and guesses are cleared together, and who has
\* counted before is carried.
LEMMA AuthoriseInv ==
  ASSUME IInv, NEW s \in Sessions, AuthoriseDevice(s)
  PROVE  IInv' /\ \A b \in Addresses : device'[b] # Absent => device[b] # Absent
<1> PICK a \in Addresses : a = sessions[s].addr
  BY DEF IInv, TypeOK, SessionRecord
<1> DEFINE new == WithAuthorisation(sessions[s].read, Self)
           registered == [sessions EXCEPT ![s].step = "enforceAgain", ![s].read = Absent]
           next == IF sessions[s].kind = "register" THEN registered ELSE Finished(s)
           ss == Disturbed(next, a)
<1>1. /\ sessions[s].step = "commit"
      /\ device' = [device EXCEPT ![a] = new]
      /\ sessions' = Carried(ss, a)
      /\ guesses' = [guesses EXCEPT ![a] = 0]
      /\ UNCHANGED <<user, resetting, deleting, verified, contested>>
  BY DEF AuthoriseDevice, admin
<1>2. sessions[s].read = device[a] /\ device[a] # Absent /\ device[a] \in DeviceRecord
  BY <1>1 DEF IInv, CommitsRead, TypeOK
<1>3. new \in DeviceRecord /\ new.attempts = 0
  BY <1>2, DeviceTypes, SelfAssumption
<1>4. /\ next \in [Sessions -> SessionRecord]
      /\ \A r \in Sessions :
           /\ next[r].step = "details" => next[r] = sessions[r]
           /\ next[r].step = "commit" => next[r] = sessions[r]
  <2>1. CASE sessions[s].kind = "register"
    <3> DEFINE moved == [sessions[s] EXCEPT !.step = "enforceAgain", !.read = Absent]
    <3>1. moved \in SessionRecord /\ moved.step = "enforceAgain"
      BY DEF IInv, TypeOK, SessionRecord, Steps
    <3>2. next = [sessions EXCEPT ![s] = moved]
      BY <2>1
    <3> HIDE DEF moved, next
    <3> QED
      BY <3>1, <3>2 DEF IInv, TypeOK
  <2>2. CASE sessions[s].kind # "register"
    <3> DEFINE blank == Idle(sessions[s].addr, sessions[s].user)
    <3>1. blank \in SessionRecord /\ blank.step = "idle"
      BY IdleType DEF IInv, TypeOK, SessionRecord
    <3>2. next = [sessions EXCEPT ![s] = blank]
      BY <2>2 DEF Finished
    <3> HIDE DEF blank, next
    <3> QED
      BY <3>1, <3>2 DEF IInv, TypeOK
  <2> QED
    BY <2>1, <2>2
<1> HIDE DEF new, next
<1>5. /\ ss \in [Sessions -> SessionRecord]
      /\ \A r \in Sessions :
           /\ ss[r].step = "details" => ss[r] = sessions[r]
           /\ ss[r].step = "commit" => ss[r] = sessions[r] /\ sessions[r].addr # a
  BY <1>4, DisturbedLemma
<1> HIDE DEF ss
<1>6. sessions' \in [Sessions -> SessionRecord]
  BY <1>1, <1>5, CarriedLemma
<1>7. TypeOK'
  BY <1>1, <1>3, <1>6 DEF IInv, TypeOK
<1>8. \A b \in Addresses \ {a} : device'[b] = device[b]
  BY <1>1 DEF IInv, TypeOK
<1>9. CommitsRead'
  <2>1. \A r \in Sessions :
          sessions'[r].step = "commit" => sessions'[r] = sessions[r] /\ sessions[r].addr \notin {a}
    BY <1>1, <1>5, CarriedLemma
  <2> QED
    BY <1>8, <2>1, CommitsKept
<1>10. AttemptsCover' /\ GuessesBounded'
  <2>1. device'[a].attempts = 0
    BY <1>1, <1>3 DEF IInv, TypeOK
  <2>2. Counted(a)' = {} /\ \A b \in Addresses \ {a} : Counted(b)' \subseteq Counted(b)
    BY <1>1, <1>5, CountedCleared
  <2> QED
    BY <1>1, <1>7, <1>8, <2>1, <2>2, CoverCleared
<1> QED
  BY <1>2, <1>7, <1>8, <1>9, <1>10 DEF IInv

\* A step of a request.
LEMMA SessionStepInv ==
  ASSUME IInv, NEW s \in Sessions, SessionStep(s)
  PROVE  IInv'
BY SetUserMfaInv, IncrementInv, DetailsInv, VerifyInv, IsEnforcingInv, EnforceInv, CheckInv,
   AuthoriseInv DEF SessionStep

-----------------------------------------------------------------------------
(***************************************************************************)
(* Logging out and the administrator.                                      *)
(***************************************************************************)

\* A write of user records only.
LEMMA UserWrite ==
  ASSUME IInv, UNCHANGED <<device, sessions, guesses>>,
         user' \in [Users -> UserRecord \cup {Absent}],
         resetting' \in SUBSET Users, deleting' \in SUBSET Users,
         verified' \in [Users -> SUBSET (Mfas \cup {Unset})],
         contested' \in [Users -> BOOLEAN]
  PROVE  IInv'
<1>1. TypeOK'
  BY DEF IInv, TypeOK
<1> QED
  BY <1>1, QuietStep

\* The administrator writes a user.
LEMMA UserStepInv ==
  ASSUME IInv, NEW u \in Users,
         \/ \E l \in BOOLEAN : SetUserLock(u, l)
         \/ ResetMfaClear(u) \/ ResetMfaUnenforce(u) \/ DeleteUser(u) \/ CreateUser(u)
  PROVE  IInv' /\ UNCHANGED device
<1> USE DEF records, admin, history
<1>1. ASSUME NEW l \in BOOLEAN, SetUserLock(u, l) PROVE IInv' /\ UNCHANGED device
  <2>1. user' \in [Users -> UserRecord \cup {Absent}]
    BY <1>1, UserTypes DEF SetUserLock, IInv, TypeOK
  <2> QED
    BY <1>1, <2>1, UserWrite DEF SetUserLock, IInv, TypeOK
<1>2. CASE ResetMfaClear(u)
  <2>1. user' \in [Users -> UserRecord \cup {Absent}]
    BY <1>2, UserTypes DEF ResetMfaClear, IInv, TypeOK
  <2>2. contested' \in [Users -> BOOLEAN]
    BY <1>2 DEF ResetMfaClear, IInv, TypeOK
  <2>3. resetting' \in SUBSET Users
    BY <1>2 DEF ResetMfaClear, IInv, TypeOK
  <2> QED
    BY <1>2, <2>1, <2>2, <2>3, UserWrite DEF ResetMfaClear, IInv, TypeOK
<1>3. CASE ResetMfaUnenforce(u)
  <2>1. user' \in [Users -> UserRecord \cup {Absent}]
    <3>1. CASE user[u] = Absent
      BY <1>3, <3>1 DEF ResetMfaUnenforce, IInv, TypeOK
    <3>2. CASE user[u] # Absent
      BY <1>3, <3>2, UserTypes DEF ResetMfaUnenforce, IInv, TypeOK
    <3> QED
      BY <3>1, <3>2
  <2>2. resetting' \in SUBSET Users
    BY <1>3 DEF ResetMfaUnenforce, IInv, TypeOK
  <2> QED
    BY <1>3, <2>1, <2>2, UserWrite DEF ResetMfaUnenforce, IInv, TypeOK
<1>4. CASE DeleteUser(u)
  <2>1. user' \in [Users -> UserRecord \cup {Absent}] /\ deleting' \in SUBSET Users
    BY <1>4 DEF DeleteUser, IInv, TypeOK
  <2> QED
    BY <1>4, <2>1, UserWrite DEF DeleteUser, IInv, TypeOK
<1>5. CASE CreateUser(u)
  <2>1. user' \in [Users -> UserRecord \cup {Absent}]
    BY <1>5, UserTypes DEF CreateUser, IInv, TypeOK
  <2>2. contested' \in [Users -> BOOLEAN]
    BY <1>5 DEF CreateUser, IInv, TypeOK
  <2>3. verified' \in [Users -> SUBSET (Mfas \cup {Unset})]
    BY <1>5 DEF CreateUser, IInv, TypeOK
  <2> QED
    BY <1>5, <2>1, <2>2, <2>3, UserWrite DEF CreateUser, IInv, TypeOK
<1> QED
  BY <1>1, <1>2, <1>3, <1>4, <1>5

\* A write of the device at address a that does not clear its counter: the
\* counter stays, is put beyond the lockout, or the device goes.
LEMMA DeviceWrite ==
  ASSUME IInv, NEW a \in Addresses, NEW new \in DeviceRecord \cup {Absent},
         device' = [device EXCEPT ![a] = new],
         new # Absent /\ new.attempts <= Lockout
           => device[a] # Absent /\ device[a].attempts = new.attempts,
         sessions' = Disturbed(sessions, a),
         UNCHANGED <<user, resetting, deleting, guesses, verified, contested>>
  PROVE  IInv'
<1>1. sessions \in [Sessions -> SessionRecord]
  BY DEF IInv, TypeOK
<1>2. TypeOK'
  BY <1>1, DisturbedLemma DEF IInv, TypeOK
<1>3. device'[a] = new /\ \A b \in Addresses \ {a} : device'[b] = device[b]
  BY DEF IInv, TypeOK
<1>4. CommitsRead'
  <2>1. \A r \in Sessions :
          sessions'[r].step = "commit" => sessions'[r] = sessions[r] /\ sessions[r].addr \notin {a}
    BY <1>1, DisturbedLemma
  <2> QED
    BY <1>3, <2>1, CommitsKept
<1>5. \A r \in Sessions : sessions'[r].step = "details" => sessions'[r] = sessions[r]
  BY <1>1, DisturbedLemma
<1>6. AttemptsCover' /\ GuessesBounded'
  BY <1>2, <1>3, <1>5, CoverKept
<1> QED
  BY <1>2, <1>4, <1>6 DEF IInv

\* A device is deauthenticated, locked or deleted: its counter is not lowered.
LEMMA DeviceStepInv ==
  ASSUME IInv, NEW a \in Addresses, DeauthenticateDevice(a) \/ LockDevice(a) \/ DeleteDevice(a)
  PROVE  IInv' /\ \A b \in Addresses : device'[b] # Absent => device[b] # Absent
<1> USE DEF records, admin, history
<1>1. device[a] # Absent /\ device[a] \in DeviceRecord
  BY DEF DeauthenticateDevice, LockDevice, DeleteDevice, IInv, TypeOK
<1>2. \A b \in Addresses : device'[b] # Absent => device[b] # Absent
  BY <1>1 DEF DeauthenticateDevice, LockDevice, DeleteDevice, IInv, TypeOK
<1>3. CASE DeauthenticateDevice(a)
  <2> DEFINE new == WithoutAuthorisation(device[a])
  <2>1. new \in DeviceRecord /\ new.attempts = device[a].attempts
    BY <1>1, DeviceTypes
  <2>2. device' = [device EXCEPT ![a] = new]
    BY <1>3 DEF DeauthenticateDevice
  <2> HIDE DEF new
  <2> QED
    BY <1>1, <1>2, <1>3, <2>1, <2>2, DeviceWrite DEF DeauthenticateDevice
<1>4. CASE LockDevice(a)
  <2> DEFINE new == WithAttempts(device[a], Lockout + 1)
  <2>1. Lockout + 1 \in 0..(Lockout + 1) /\ ~(Lockout + 1 <= Lockout)
    BY LockoutAssumption
  <2>2. new \in DeviceRecord /\ new.attempts = Lockout + 1
    BY <1>1, <2>1, DeviceTypes
  <2>3. device' = [device EXCEPT ![a] = new]
    BY <1>4 DEF LockDevice
  <2> HIDE DEF new
  <2> QED
    BY <1>1, <1>2, <1>4, <2>1, <2>2, <2>3, DeviceWrite DEF LockDevice
<1>5. CASE DeleteDevice(a)
  BY <1>2, <1>5, DeviceWrite DEF DeleteDevice
<1> QED
  BY <1>3, <1>4, <1>5

\* The devices of a user are deleted.
LEMMA DeleteDevicesInv ==
  ASSUME IInv, NEW u \in Users, DeleteDevices(u)
  PROVE  IInv' /\ \A b \in Addresses : device'[b] # Absent => device[b] # Absent
<1> DEFINE owned == {a \in Addresses : device[a] # Absent /\ device[a].owner = u}
<1>1. /\ device' = [a \in Addresses |-> IF a \in owned THEN Absent ELSE device[a]]
      /\ sessions' = [s \in Sessions |->
                        IF sessions[s].addr \in owned
                        THEN Disturbed(sessions, sessions[s].addr)[s] ELSE sessions[s]]
      /\ deleting' = deleting \ {u}
      /\ UNCHANGED <<user, resetting, guesses, verified, contested>>
  BY DEF DeleteDevices, history
<1>2. owned \in SUBSET Addresses
  OBVIOUS
<1> HIDE DEF owned
<1>3. ASSUME NEW r \in Sessions
      PROVE  /\ sessions'[r] \in SessionRecord
             /\ sessions'[r].step = "details" => sessions'[r] = sessions[r]
             /\ sessions'[r].step = "commit" =>
                  sessions'[r] = sessions[r] /\ sessions[r].addr \notin owned
  <2>1. sessions \in [Sessions -> SessionRecord] /\ sessions[r].addr \in Addresses
    BY DEF IInv, TypeOK, SessionRecord
  <2>2. CASE sessions[r].addr \in owned
    BY <1>1, <2>1, <2>2, DisturbedLemma
  <2>3. CASE sessions[r].addr \notin owned
    BY <1>1, <2>1, <2>3
  <2> QED
    BY <2>2, <2>3
<1>4. TypeOK'
  <2>1. sessions' \in [Sessions -> SessionRecord]
    BY <1>1, <1>3
  <2> QED
    BY <1>1, <2>1 DEF IInv, TypeOK
<1>5. \A b \in Addresses :
        /\ b \notin owned => device'[b] = device[b]
        /\ device'[b] # Absent => device'[b] = device[b]
  BY <1>1
<1>6. CommitsRead'
  BY <1>2, <1>3, <1>5, CommitsKept
<1>7. AttemptsCover' /\ GuessesBounded'
  BY <1>1, <1>3, <1>4, <1>5, CoverKept
<1> QED
  BY <1>4, <1>5, <1>6, <1>7 DEF IInv

\* The administrator clears a counter, as AuthoriseDevice does.
LEMMA UnlockDeviceInv ==
  ASSUME IInv, NEW a \in Addresses, UnlockDevice(a)
  PROVE  IInv' /\ \A b \in Addresses : device'[b] # Absent => device[b] # Absent
<1> DEFINE new == WithAttempts(device[a], 0)
           ss == Disturbed(sessions, a)
<1>1. /\ device[a] # Absent
      /\ device' = [device EXCEPT ![a] = new]
      /\ sessions' = Carried(ss, a)
      /\ guesses' = [guesses EXCEPT ![a] = 0]
      /\ UNCHANGED <<user, resetting, deleting, verified, contested>>
  BY DEF UnlockDevice, admin
<1>2. new \in DeviceRecord /\ new.attempts = 0
  <2>1. device[a] \in DeviceRecord /\ 0 \in 0..(Lockout + 1)
    BY <1>1, LockoutAssumption DEF IInv, TypeOK
  <2> QED
    BY <2>1, DeviceTypes
<1>3. /\ ss \in [Sessions -> SessionRecord]
      /\ \A r \in Sessions :
           /\ ss[r].step = "details" => ss[r] = sessions[r]
           /\ ss[r].step = "commit" => ss[r] = sessions[r] /\ sessions[r].addr # a
  BY DisturbedLemma DEF IInv, TypeOK
<1> HIDE DEF new, ss
<1>4. sessions' \in [Sessions -> SessionRecord]
  BY <1>1, <1>3, CarriedLemma
<1>5. TypeOK'
  BY <1>1, <1>2, <1>4 DEF IInv, TypeOK
<1>6. device'[a] = new /\ \A b \in Addresses \ {a} : device'[b] = device[b]
  BY <1>1 DEF IInv, TypeOK
<1>7. CommitsRead'
  <2>1. \A r \in Sessions :
          sessions'[r].step = "commit" => sessions'[r] = sessions[r] /\ sessions[r].addr \notin {a}
    BY <1>1, <1>3, CarriedLemma
  <2> QED
    BY <1>6, <2>1, CommitsKept
<1>8. AttemptsCover' /\ GuessesBounded'
  <2>1. Counted(a)' = {} /\ \A b \in Addresses \ {a} : Counted(b)' \subseteq Counted(b)
    BY <1>1, <1>3, CountedCleared
  <2> QED
    BY <1>1, <1>2, <1>5, <1>6, <2>1, CoverCleared
<1> QED
  BY <1>1, <1>5, <1>6, <1>7, <1>8 DEF IInv

\* A device is added with a counter of zero.
LEMMA AddDeviceInv ==
  ASSUME IInv, NEW u \in Users, NEW a \in Addresses, NEW k \in Keys, AddDevice(u, a, k)
  PROVE  /\ IInv'
         /\ \A b \in Addresses : device'[b] # Absent =>
              \/ device[b] # Absent
              \/ device'[b].attempts = 0 /\ ~device'[b].authorised
<1> DEFINE new == NewDevice(u, k)
<1>1. /\ device[a] = Absent
      /\ device' = [device EXCEPT ![a] = new]
      /\ sessions' = Carried(sessions, a)
      /\ guesses' = [guesses EXCEPT ![a] = 0]
      /\ UNCHANGED <<user, resetting, deleting, verified, contested>>
  BY DEF AddDevice, admin
<1>2. new \in DeviceRecord /\ new.attempts = 0 /\ ~new.authorised
  BY DeviceTypes DEF NewDevice
<1>3. sessions \in [Sessions -> SessionRecord]
  BY DEF IInv, TypeOK
<1> HIDE DEF new
<1>4. TypeOK'
  BY <1>1, <1>2, <1>3, CarriedLemma DEF IInv, TypeOK
<1>5. device'[a] = new /\ \A b \in Addresses \ {a} : device'[b] = device[b]
  BY <1>1 DEF IInv, TypeOK
<1>6. CommitsRead'
  <2>1. \A r \in Sessions :
          sessions'[r].step = "commit" => sessions'[r] = sessions[r] /\ sessions[r].addr \notin {a}
    BY <1>1, <1>3, CarriedLemma DEF IInv, CommitsRead
  <2> QED
    BY <1>5, <2>1, CommitsKept
<1>7. AttemptsCover' /\ GuessesBounded'
  <2>1. Counted(a)' = {} /\ \A b \in Addresses \ {a} : Counted(b)' \subseteq Counted(b)
    BY <1>1, <1>3, CountedCleared
  <2> QED
    BY <1>1, <1>2, <1>4, <1>5, <2>1, CoverCleared
<1> QED
  BY <1>2, <1>4, <1>5, <1>6, <1>7 DEF IInv

-----------------------------------------------------------------------------
(***************************************************************************)
(* The theorems.                                                           *)
(***************************************************************************)

\* Every step keeps the invariant.
LEMMA NextIInv == IInv /\ [Next]_vars => IInv'
<1> SUFFICES ASSUME IInv, [Next]_vars PROVE IInv'
  OBVIOUS
<1>1. CASE UNCHANGED vars
  BY <1>1, QuietStep DEF vars, IInv, TypeOK
<1>2. ASSUME AdminStep PROVE IInv'
  BY <1>2, UserStepInv, DeviceStepInv, UnlockDeviceInv, DeleteDevicesInv, AddDeviceInv
     DEF AdminStep
<1> QED
  BY <1>1, <1>2, BeginInv, SessionStepInv DEF Next

\* Whatever Authenticate, ResetMfa and the administrator's handlers do to the
\* records and in whatever order, each record keeps its type; the counter of
\* attempts in particular never passes Lockout + 1.
THEOREM TypeTheorem == Spec => []TypeOK
<1>1. IInv => TypeOK
  BY DEF IInv
<1> QED
  BY InitIInv, NextIInv, <1>1, PTL DEF Spec

\* Authenticate counts the attempt before it reads the counter, so any number
\* of concurrent requests has fewer than Lockout answers evaluated.
THEOREM GuessesTheorem == Spec => []GuessesBounded
<1>1. IInv => GuessesBounded
  BY DEF IInv
<1> QED
  BY InitIInv, NextIInv, <1>1, PTL DEF Spec

\* The only step that makes a record where there was none is AddDevice: the swap
\* of a login needs the record it read.
LEMMA ReappearsNew ==
  ASSUME IInv, [Next]_vars, NEW a \in Addresses, device[a] = Absent, device'[a] # Absent
  PROVE  device'[a].attempts = 0 /\ ~device'[a].authorised
<1>1. UNCHANGED device => FALSE
  OBVIOUS
<1>2. ASSUME NEW s \in Sessions, NEW b \in Addresses, NEW kind \in Kinds, Begin(s, b, kind)
      PROVE  FALSE
  BY <1>1, <1>2 DEF Begin, records
<1>3. ASSUME NEW s \in Sessions, SessionStep(s) PROVE FALSE
  <2>1. ASSUME IncrementAuthenticationAttempt(s) PROVE FALSE
    BY <1>1, <2>1 DEF IncrementAuthenticationAttempt, Present, IInv, TypeOK
  <2>2. ASSUME AuthoriseDevice(s) PROVE FALSE
    BY <2>2, AuthoriseInv
  <2> QED
    BY <1>1, <1>3, <2>1, <2>2 DEF SessionStep, SetUserMfa, GetAuthenticationDetails, Verify,
       IsEnforcingMFA, EnforceMFA, CheckAccountLock, records
<1>4. CASE AdminStep
  BY <1>1, <1>4, UserStepInv, DeviceStepInv, UnlockDeviceInv, DeleteDevicesInv, AddDeviceInv
     DEF AdminStep
<1> QED
  BY <1>1, <1>2, <1>3, <1>4 DEF Next, vars

\* No AuthoriseDevice, IncrementAuthenticationAttempt or other write that had
\* read a device before DeleteDevice puts the old record back.
THEOREM ResurrectionTheorem == Spec => NoResurrection
<1> DEFINE New == \A a \in Addresses :
       device[a] = Absent /\ device'[a] # Absent
          => device'[a].attempts = 0 /\ ~device'[a].authorised
<1>1. IInv /\ [Next]_vars => [New]_device
  BY ReappearsNew
<1> QED
  BY InitIInv, NextIInv, <1>1, PTL DEF Spec, NoResurrection

-----------------------------------------------------------------------------
(***************************************************************************)
(* Secrets.                                                                *)
(***************************************************************************)

\* What a request has read of an uncontested user still stands, and past the
\* authenticator it has been proven.
SecretHeld(s) ==
  LET u == sessions[s].user IN
  sessions[s].step \in Answering /\ user[u] # Absent /\ ~contested[u]
    => /\ sessions[s].mfa = user[u].mfa
       /\ sessions[s].step # "verify" => sessions[s].mfa \in verified[u]

SecretsHeld == \A s \in Sessions : SecretHeld(s)

\* A request answers now only if it did, with the same secret of the same user.
SameAnswer(new, old) ==
  new.step \in Answering =>
    /\ old.step \in Answering
    /\ new.user = old.user /\ new.mfa = old.mfa
    /\ new.step # "verify" => old.step # "verify"

\* Ending a request, sending it back from its commit and marking it as carried
\* all leave its secret alone.
LEMMA SameAnswers ==
  ASSUME NEW ss \in [Sessions -> SessionRecord], NEW a \in Addresses, NEW r \in Sessions
  PROVE  SameAnswer(Disturbed(ss, a)[r], ss[r]) /\ SameAnswer(Carried(ss, a)[r], ss[r])
<1>1. PICK x : x = ss[r]
  OBVIOUS
<1>2. x \in SessionRecord
  BY <1>1
<1>3. x.step = "commit" =>
        /\ [x EXCEPT !.step = "authorise", !.read = Absent].user = x.user
        /\ [x EXCEPT !.step = "authorise", !.read = Absent].mfa = x.mfa
        /\ [x EXCEPT !.step = "authorise", !.read = Absent].step = "authorise"
  BY <1>2 DEF SessionRecord
<1>4. /\ [x EXCEPT !.carried = TRUE].user = x.user
      /\ [x EXCEPT !.carried = TRUE].mfa = x.mfa
      /\ [x EXCEPT !.carried = TRUE].step = x.step
  BY <1>2 DEF SessionRecord
<1>5. SameAnswer(Disturbed(ss, a)[r], ss[r])
  BY <1>1, <1>3 DEF Disturbed, SameAnswer, Answering
<1>6. SameAnswer(Carried(ss, a)[r], ss[r])
  BY <1>1, <1>4 DEF Carried, SameAnswer
<1> QED
  BY <1>5, <1>6

LEMMA FinishedAnswers ==
  ASSUME TypeOK, NEW s \in Sessions, NEW r \in Sessions
  PROVE  SameAnswer(Finished(s)[r], sessions[r])
<1>1. sessions[s].addr \in Addresses /\ sessions[s].user \in Users
  BY DEF TypeOK, SessionRecord
<1>2. PICK blank : blank = Idle(sessions[s].addr, sessions[s].user)
  OBVIOUS
<1>3. blank.step = "idle"
  BY <1>1, <1>2, IdleType
<1>4. Finished(s) = [sessions EXCEPT ![s] = blank]
  BY <1>2 DEF Finished
<1> QED
  BY <1>3, <1>4 DEF TypeOK, SameAnswer, Answering

\* A request that goes on from one step that answers to another.
LEMMA MovedAnswers ==
  ASSUME TypeOK, NEW s \in Sessions, NEW step \in Steps, NEW r \in Sessions,
         sessions[s].step \in Answering \ {"verify"}
  PROVE  SameAnswer(MovedTo(s, step)[r], sessions[r])
<1>1. PICK moved : moved = [sessions[s] EXCEPT !.step = step]
  OBVIOUS
<1>2. moved.user = sessions[s].user /\ moved.mfa = sessions[s].mfa
  BY <1>1 DEF TypeOK, SessionRecord
<1>3. MovedTo(s, step) = [sessions EXCEPT ![s] = moved]
  BY <1>1 DEF MovedTo
<1> QED
  BY <1>2, <1>3 DEF TypeOK, SameAnswer

\* What requests hold stays good if users keep their methods, or lose them
\* where nobody is answering.
LEMMA HeldKept ==
  ASSUME TypeOK, TypeOK', SecretsHeld,
         \A r \in Sessions : SameAnswer(sessions'[r], sessions[r]),
         \A u \in Users :
           user'[u] # Absent /\ ~contested'[u] =>
             \/ /\ user[u] # Absent /\ ~contested[u]
                /\ user'[u].mfa = user[u].mfa
                /\ verified[u] \subseteq verified'[u]
             \/ AnsweringFor(u) = {}
  PROVE  SecretsHeld'
<1> SUFFICES ASSUME NEW r \in Sessions PROVE SecretHeld(r)'
  BY DEF SecretsHeld
<1> SUFFICES ASSUME sessions'[r].step \in Answering,
                    user'[sessions'[r].user] # Absent, ~contested'[sessions'[r].user]
             PROVE  /\ sessions'[r].mfa = user'[sessions'[r].user].mfa
                    /\ sessions'[r].step # "verify"
                         => sessions'[r].mfa \in verified'[sessions'[r].user]
  BY DEF SecretHeld
<1>1. /\ sessions[r].step \in Answering
      /\ sessions'[r].user = sessions[r].user /\ sessions'[r].mfa = sessions[r].mfa
      /\ sessions'[r].step # "verify" => sessions[r].step # "verify"
  BY DEF SameAnswer
<1>2. PICK u \in Users : u = sessions[r].user
  BY DEF TypeOK, SessionRecord
<1>3. r \in AnsweringFor(u)
  BY <1>1, <1>2 DEF AnsweringFor
<1>4. /\ user[u] # Absent /\ ~contested[u] /\ user'[u].mfa = user[u].mfa
      /\ verified[u] \subseteq verified'[u]
  BY <1>1, <1>2, <1>3
<1>5. SecretHeld(r)
  BY DEF SecretsHeld
<1> QED
  BY <1>1, <1>2, <1>4, <1>5 DEF SecretHeld

\* MFA that was enforced with a proven secret, and is enforced with it still.
LEMMA EnforcedKept ==
  ASSUME EnforcedSecretVerified,
         \A u \in Users :
           user'[u] # Absent /\ user'[u].enforcing /\ ~contested'[u] /\ u \notin resetting' =>
             /\ user[u] # Absent /\ user[u].enforcing /\ ~contested[u] /\ u \notin resetting
             /\ user'[u].mfa = user[u].mfa
             /\ verified[u] \subseteq verified'[u]
  PROVE  EnforcedSecretVerified'
BY DEF EnforcedSecretVerified

SecretInv == EnforcedSecretVerified /\ SecretsHeld

\* Steps that write neither users nor what is remembered of them.
LEMMA SecretsQuiet ==
  ASSUME TypeOK, TypeOK', SecretInv, UNCHANGED <<user, resetting, verified, contested>>,
         \A r \in Sessions : SameAnswer(sessions'[r], sessions[r])
  PROVE  SecretInv'
BY HeldKept, EnforcedKept DEF SecretInv

\* Before the first request nothing is enforced and nobody answers.
LEMMA InitSecrets == Init => SecretInv
<1> SUFFICES ASSUME NEW a \in Addresses, NEW u \in Users,
                    user = [x \in Users |-> IF x = u THEN NewUser ELSE Absent],
                    sessions = [s \in Sessions |-> Idle(a, u)]
             PROVE  SecretInv
  BY DEF Init
<1>1. \A x \in Users : user[x] # Absent => ~user[x].enforcing
  BY DEF NewUser
<1>2. \A s \in Sessions : sessions[s].step = "idle"
  BY IdleType
<1> QED
  BY <1>1, <1>2 DEF SecretInv, EnforcedSecretVerified, SecretsHeld, SecretHeld, Answering

\* A request starts, ends early, is counted or has its device authorised.
LEMMA RequestSecrets ==
  ASSUME TypeOK, TypeOK', SecretInv, NEW s \in Sessions,
         \/ \E a \in Addresses, kind \in Kinds : Begin(s, a, kind)
         \/ IncrementAuthenticationAttempt(s)
         \/ IsEnforcingMFA(s)
         \/ CheckAccountLock(s)
         \/ AuthoriseDevice(s)
  PROVE  SecretInv'
<1> USE DEF records, admin, history
<1> PICK a \in Addresses : a = sessions[s].addr
  BY DEF TypeOK, SessionRecord
<1>1. ASSUME NEW b \in Addresses, NEW kind \in Kinds, Begin(s, b, kind) PROVE SecretInv'
  <2>1. PICK step : step = IF kind = "enrol" THEN "setMfa" ELSE "increment"
    OBVIOUS
  <2>2. PICK blank \in SessionRecord : blank = Idle(b, device[b].owner)
    BY <1>1, IdleType DEF Begin, TypeOK, DeviceRecord
  <2>3. PICK new : new = [blank EXCEPT !.step = step, !.kind = kind]
    OBVIOUS
  <2>4. new.step = step
    BY <2>2, <2>3 DEF SessionRecord
  <2>5. sessions' = [sessions EXCEPT ![s] = new]
    BY <1>1, <2>1, <2>2, <2>3 DEF Begin
  <2>6. \A r \in Sessions : SameAnswer(sessions'[r], sessions[r])
    BY <2>1, <2>4, <2>5 DEF TypeOK, SameAnswer, Answering
  <2> QED
    BY <1>1, <2>6, SecretsQuiet DEF Begin
<1>2. CASE IncrementAuthenticationAttempt(s)
  <2>1. CASE Present(s)
    <3>1. PICK new : new = [sessions[s] EXCEPT !.step = "details", !.carried = FALSE]
      OBVIOUS
    <3>2. new \in SessionRecord /\ new.step = "details"
      <4>1. \A x \in SessionRecord :
              [x EXCEPT !.step = "details", !.carried = FALSE] \in SessionRecord
        BY DEF SessionRecord, Steps
      <4>2. [sessions[s] EXCEPT !.step = "details", !.carried = FALSE].step = "details"
        BY DEF TypeOK, SessionRecord
      <4> QED
        BY <3>1, <4>1, <4>2 DEF TypeOK
    <3>3. PICK ss : ss = [sessions EXCEPT ![s] = new]
      OBVIOUS
    <3>4. ss \in [Sessions -> SessionRecord]
      BY <3>2, <3>3 DEF TypeOK
    <3>5. \A r \in Sessions : SameAnswer(ss[r], sessions[r])
      BY <3>2, <3>3 DEF TypeOK, SameAnswer, Answering
    <3>6. sessions' = Disturbed(ss, a)
      BY <1>2, <2>1, <3>1, <3>3 DEF IncrementAuthenticationAttempt
    <3>7. \A r \in Sessions : SameAnswer(sessions'[r], sessions[r])
      BY <3>4, <3>5, <3>6, SameAnswers DEF SameAnswer
    <3> QED
      BY <1>2, <3>7, SecretsQuiet DEF IncrementAuthenticationAttempt
  <2>2. CASE ~Present(s)
    BY <1>2, <2>2, FinishedAnswers, SecretsQuiet DEF IncrementAuthenticationAttempt
  <2> QED
    BY <2>1, <2>2
<1>3. CASE IsEnforcingMFA(s)
  <2>1. PICK step \in Steps : sessions' = MovedTo(s, step)
    BY <1>3 DEF IsEnforcingMFA, Steps
  <2>2. sessions[s].step \in Answering \ {"verify"}
    BY <1>3 DEF IsEnforcingMFA, Answering
  <2>3. \A r \in Sessions : SameAnswer(sessions'[r], sessions[r])
    BY <2>1, <2>2, MovedAnswers
  <2> QED
    BY <1>3, <2>3, SecretsQuiet DEF IsEnforcingMFA
<1>4. CASE CheckAccountLock(s)
  <2>1. CASE sessions' = Finished(s)
    BY <1>4, <2>1, FinishedAnswers, SecretsQuiet DEF CheckAccountLock
  <2>2. CASE sessions' # Finished(s)
    <3>1. PICK new : new = [sessions[s] EXCEPT !.step = "commit", !.read = device[sessions[s].addr]]
      OBVIOUS
    <3>2. new.user = sessions[s].user /\ new.mfa = sessions[s].mfa
      BY <3>1 DEF TypeOK, SessionRecord
    <3>3. sessions' = [sessions EXCEPT ![s] = new] /\ sessions[s].step = "authorise"
      BY <1>4, <2>2, <3>1 DEF CheckAccountLock
    <3>4. \A r \in Sessions : SameAnswer(sessions'[r], sessions[r])
      BY <3>2, <3>3 DEF TypeOK, SameAnswer, Answering
    <3> QED
      BY <1>4, <3>4, SecretsQuiet DEF CheckAccountLock
  <2> QED
    BY <2>1, <2>2
<1>5. CASE AuthoriseDevice(s)
  <2>1. PICK moved : moved = [sessions[s] EXCEPT !.step = "enforceAgain", !.read = Absent]
    OBVIOUS
  <2>2. moved \in SessionRecord /\ moved.user = sessions[s].user /\ moved.mfa = sessions[s].mfa
    <3>1. \A x \in SessionRecord :
            [x EXCEPT !.step = "enforceAgain", !.read = Absent] \in SessionRecord
      BY DEF SessionRecord, Steps
    <3>2. /\ [sessions[s] EXCEPT !.step = "enforceAgain", !.read = Absent].user = sessions[s].user
          /\ [sessions[s] EXCEPT !.step = "enforceAgain", !.read = Absent].mfa = sessions[s].mfa
      BY DEF TypeOK, SessionRecord
    <3> QED
      BY <2>1, <3>1, <3>2 DEF TypeOK
  <2>3. PICK next : next = IF sessions[s].kind = "register"
                           THEN [sessions EXCEPT ![s] = moved] ELSE Finished(s)
    OBVIOUS
  <2>4. next \in [Sessions -> SessionRecord]
    <3>1. Finished(s) \in [Sessions -> SessionRecord]
      BY IdleType DEF Finished, TypeOK, SessionRecord
    <3> QED
      BY <2>2, <2>3, <3>1 DEF TypeOK
  <2>5. sessions[s].step = "commit"
    BY <1>5 DEF AuthoriseDevice
  <2>6. \A r \in Sessions : SameAnswer(next[r], sessions[r])
    <3>1. CASE sessions[s].kind = "register"
      BY <2>2, <2>3, <2>5, <3>1 DEF TypeOK, SameAnswer, Answering
    <3>2. CASE sessions[s].kind # "register"
      BY <2>3, <3>2, FinishedAnswers
    <3> QED
      BY <3>1, <3>2
  <2>7. PICK ss : ss = Disturbed(next, a)
    OBVIOUS
  <2>8. ss \in [Sessions -> SessionRecord]
    BY <2>4, <2>7, DisturbedLemma
  <2>9. sessions' = Carried(ss, a)
    BY <1>5, <2>1, <2>3, <2>7 DEF AuthoriseDevice
  <2>10. \A r \in Sessions : SameAnswer(sessions'[r], sessions[r])
    BY <2>4, <2>6, <2>7, <2>8, <2>9, SameAnswers DEF SameAnswer
  <2> QED
    BY <1>5, <2>10, SecretsQuiet DEF AuthoriseDevice
<1> QED
  BY <1>1, <1>2, <1>3, <1>4, <1>5

\* A new secret is stored: who holds the old one is contested, and so is a user
\* whose MFA is enforced already.
LEMMA SetUserMfaSecrets ==
  ASSUME TypeOK, TypeOK', SecretInv, NEW s \in Sessions, NEW m \in Mfas, SetUserMfa(s, m)
  PROVE  SecretInv'
<1> USE DEF admin
<1> PICK u \in Users : u = sessions[s].user
  BY DEF TypeOK, SessionRecord
<1>1. \A r \in Sessions : SameAnswer(sessions'[r], sessions[r])
  BY FinishedAnswers DEF SetUserMfa
<1>2. CASE user[u] = Absent
  BY <1>1, <1>2, SecretsQuiet DEF SetUserMfa
<1>3. CASE user[u] # Absent
  <2>1. /\ user' = [user EXCEPT ![u] = WithMfa(user[u], m)] /\ Contest(u, {s})
        /\ UNCHANGED <<resetting, verified>>
    BY <1>3 DEF SetUserMfa
  <2>2. user[u] \in UserRecord
    BY <1>3 DEF TypeOK
  <2>3. WithMfa(user[u], m).enforcing = user[u].enforcing
    BY <2>2 DEF UserRecord, WithMfa
  <2>4. /\ \A x \in Users \ {u} : user'[x] = user[x] /\ contested'[x] = contested[x]
        /\ user'[u].enforcing = user[u].enforcing
        /\ contested'[u] = (contested[u] \/ user[u].enforcing \/ AnsweringFor(u) \ {s} # {})
    BY <2>1, <2>3 DEF Contest, TypeOK
  <2>5. s \notin AnsweringFor(u)
    BY DEF SetUserMfa, AnsweringFor, Answering
  <2>6. ~contested'[u] => AnsweringFor(u) = {} /\ ~user'[u].enforcing
    BY <2>4, <2>5
  <2>7. SecretsHeld'
    BY <1>1, <2>1, <2>4, <2>6, HeldKept DEF SecretInv
  <2>8. EnforcedSecretVerified'
    BY <2>1, <2>4, <2>6, EnforcedKept DEF SecretInv
  <2> QED
    BY <2>7, <2>8 DEF SecretInv
<1> QED
  BY <1>2, <1>3

\* A request reads the secret it will ask for.
LEMMA DetailsSecrets ==
  ASSUME TypeOK, TypeOK', SecretInv, NEW s \in Sessions, GetAuthenticationDetails(s)
  PROVE  SecretInv'
<1> USE DEF records, admin
<1>1. CASE sessions' = Finished(s)
  BY <1>1, FinishedAnswers, SecretsQuiet DEF GetAuthenticationDetails
<1>2. CASE sessions' # Finished(s)
  <2>1. UNCHANGED <<user, resetting, verified, contested>>
    BY DEF GetAuthenticationDetails
  <2>2. PICK new : new = [sessions[s] EXCEPT !.step = "verify",
                            !.mfa = user[sessions[s].user].mfa, !.carried = FALSE]
    OBVIOUS
  <2>3. /\ new.step = "verify" /\ new.mfa = user[sessions[s].user].mfa
        /\ new.user = sessions[s].user
    BY <2>2 DEF TypeOK, SessionRecord
  <2>4. sessions' = [sessions EXCEPT ![s] = new]
    BY <1>2, <2>2 DEF GetAuthenticationDetails
  <2>5. SecretsHeld'
    BY <2>1, <2>3, <2>4 DEF SecretInv, SecretsHeld, SecretHeld, TypeOK
  <2>6. EnforcedSecretVerified'
    BY <2>1, EnforcedKept DEF SecretInv
  <2> QED
    BY <2>5, <2>6 DEF SecretInv
<1> QED
  BY <1>1, <1>2

\* The authenticator accepts the answer for the secret that was read.
LEMMA VerifySecrets ==
  ASSUME TypeOK, TypeOK', SecretInv, NEW s \in Sessions, Verify(s)
  PROVE  SecretInv'
<1> USE DEF records, admin
<1>1. CASE sessions' = Finished(s) /\ UNCHANGED verified
  BY <1>1, FinishedAnswers, SecretsQuiet DEF Verify
<1>2. CASE ~(sessions' = Finished(s) /\ UNCHANGED verified)
  <2> PICK u \in Users : u = sessions[s].user
    BY DEF TypeOK, SessionRecord
  <2>1. /\ UNCHANGED <<user, resetting, contested>> /\ sessions[s].step = "verify"
        /\ verified' = [verified EXCEPT ![u] = verified[u] \cup {sessions[s].mfa}]
    BY <1>2 DEF Verify
  <2>2. PICK new : new = [sessions[s] EXCEPT !.step = "enforce"]
    OBVIOUS
  <2>3. new.step = "enforce" /\ new.mfa = sessions[s].mfa /\ new.user = sessions[s].user
    BY <2>2 DEF TypeOK, SessionRecord
  <2>4. sessions' = [sessions EXCEPT ![s] = new]
    BY <1>2, <2>2 DEF Verify, MovedTo
  <2>5. \A x \in Users : verified[x] \subseteq verified'[x]
    BY <2>1 DEF TypeOK
  <2>6. sessions[s].mfa \in verified'[u]
    BY <2>1 DEF TypeOK
  <2>7. SecretsHeld'
    <3> SUFFICES ASSUME NEW r \in Sessions PROVE SecretHeld(r)'
      BY DEF SecretsHeld
    <3>1. SecretHeld(r) /\ SecretHeld(s) /\ sessions[r].user \in Users
      BY DEF SecretInv, SecretsHeld, TypeOK, SessionRecord
    <3>2. CASE r = s
      <4>1. sessions'[r] = new
        BY <2>4, <3>2 DEF TypeOK
      <4> QED
        BY <2>1, <2>3, <2>6, <3>1, <4>1 DEF SecretHeld, Answering
    <3>3. CASE r # s
      <4>1. sessions'[r] = sessions[r]
        BY <2>4, <3>3 DEF TypeOK
      <4> QED
        BY <2>1, <2>5, <3>1, <4>1 DEF SecretHeld
    <3> QED
      BY <3>2, <3>3
  <2>8. EnforcedSecretVerified'
    BY <2>1, <2>5, EnforcedKept DEF SecretInv
  <2> QED
    BY <2>7, <2>8 DEF SecretInv
<1> QED
  BY <1>1, <1>2

\* EnforceMFA acts on the proof of the secret the user has.
LEMMA EnforceSecrets ==
  ASSUME TypeOK, TypeOK', SecretInv, NEW s \in Sessions, EnforceMFA(s)
  PROVE  SecretInv'
<1> USE DEF admin, history
<1> PICK u \in Users : u = sessions[s].user
  BY DEF TypeOK, SessionRecord
<1>1. /\ sessions[s].step \in Answering \ {"verify"}
      /\ sessions' = Finished(s) \/ sessions' = MovedTo(s, "authorise")
      /\ UNCHANGED <<resetting, verified, contested>>
  BY DEF EnforceMFA, Answering
<1>2. \A r \in Sessions : SameAnswer(sessions'[r], sessions[r])
  BY <1>1, FinishedAnswers, MovedAnswers DEF Steps
<1>3. CASE user[u] = Absent
  BY <1>1, <1>2, <1>3, SecretsQuiet DEF EnforceMFA
<1>4. CASE user[u] # Absent
  <2>1. user' = [user EXCEPT ![u] = WithEnforcing(user[u], TRUE)] /\ user[u] \in UserRecord
    BY <1>4 DEF EnforceMFA, TypeOK
  <2>2. WithEnforcing(user[u], TRUE).mfa = user[u].mfa
    BY <2>1 DEF UserRecord, WithEnforcing
  <2>3. user'[u].mfa = user[u].mfa /\ \A x \in Users \ {u} : user'[x] = user[x]
    BY <2>1, <2>2 DEF TypeOK
  <2>4. SecretsHeld'
    BY <1>1, <1>2, <1>4, <2>3, HeldKept DEF SecretInv
  <2>5. ~contested[u] => user[u].mfa \in verified[u]
    BY <1>1, <1>4 DEF SecretInv, SecretsHeld, SecretHeld
  <2>6. EnforcedSecretVerified'
    BY <1>1, <2>3, <2>5 DEF SecretInv, EnforcedSecretVerified
  <2> QED
    BY <2>4, <2>6 DEF SecretInv
<1> QED
  BY <1>3, <1>4

\* The administrator writes a user.
LEMMA UserSecrets ==
  ASSUME TypeOK, TypeOK', SecretInv, NEW u \in Users,
         \/ \E l \in BOOLEAN : SetUserLock(u, l)
         \/ ResetMfaClear(u) \/ ResetMfaUnenforce(u) \/ DeleteUser(u) \/ CreateUser(u)
  PROVE  SecretInv'
<1> USE DEF records, admin, history
<1>1. \A r \in Sessions : SameAnswer(sessions'[r], sessions[r])
  BY DEF SetUserLock, ResetMfaClear, ResetMfaUnenforce, DeleteUser, CreateUser, SameAnswer
<1>2. user[u] # Absent => user[u] \in UserRecord
  BY DEF TypeOK
<1>3. ASSUME NEW l \in BOOLEAN, SetUserLock(u, l) PROVE SecretInv'
  <2>1. WithLock(user[u], l).mfa = user[u].mfa /\ WithLock(user[u], l).enforcing = user[u].enforcing
    BY <1>2, <1>3 DEF SetUserLock, UserRecord, WithLock
  <2>2. \A x \in Users :
          user'[x] # Absent => /\ user[x] # Absent /\ user'[x].mfa = user[x].mfa
                               /\ user'[x].enforcing = user[x].enforcing
    BY <1>3, <2>1 DEF SetUserLock, TypeOK
  <2>3. UNCHANGED <<resetting, verified, contested>>
    BY <1>3 DEF SetUserLock
  <2> QED
    BY <1>1, <2>2, <2>3, HeldKept, EnforcedKept DEF SecretInv
<1>4. CASE ResetMfaClear(u)
  <2>1. /\ \A x \in Users \ {u} : user'[x] = user[x] /\ contested'[x] = contested[x]
        /\ contested'[u] = (contested[u] \/ AnsweringFor(u) # {})
        /\ resetting' = resetting \cup {u} /\ UNCHANGED verified
    BY <1>4 DEF ResetMfaClear, TypeOK
  <2>2. SecretsHeld'
    BY <1>1, <2>1, HeldKept DEF SecretInv
  <2>3. EnforcedSecretVerified'
    BY <2>1, EnforcedKept DEF SecretInv
  <2> QED
    BY <2>2, <2>3 DEF SecretInv
<1>5. CASE ResetMfaUnenforce(u)
  <2>1. CASE user[u] = Absent
    <3>1. UNCHANGED <<user, verified, contested>> /\ resetting' = resetting \ {u}
      BY <1>5, <2>1 DEF ResetMfaUnenforce
    <3>2. SecretsHeld'
      BY <1>1, <3>1, HeldKept DEF SecretInv
    <3>3. EnforcedSecretVerified'
      BY <2>1, <3>1, EnforcedKept DEF SecretInv
    <3> QED
      BY <3>2, <3>3 DEF SecretInv
  <2>2. CASE user[u] # Absent
    <3>1. /\ WithEnforcing(user[u], FALSE).mfa = user[u].mfa
          /\ ~WithEnforcing(user[u], FALSE).enforcing
      BY <1>2, <2>2 DEF UserRecord, WithEnforcing
    <3>2. /\ \A x \in Users \ {u} : user'[x] = user[x]
          /\ user'[u].mfa = user[u].mfa /\ ~user'[u].enforcing
          /\ UNCHANGED <<verified, contested>> /\ resetting' = resetting \ {u}
      BY <1>5, <2>2, <3>1 DEF ResetMfaUnenforce, TypeOK
    <3>3. SecretsHeld'
      BY <1>1, <2>2, <3>2, HeldKept DEF SecretInv
    <3>4. EnforcedSecretVerified'
      BY <3>2, EnforcedKept DEF SecretInv
    <3> QED
      BY <3>3, <3>4 DEF SecretInv
  <2> QED
    BY <2>1, <2>2
<1>6. CASE DeleteUser(u)
  <2>1. /\ \A x \in Users \ {u} : user'[x] = user[x]
        /\ user'[u] = Absent /\ UNCHANGED <<resetting, verified, contested>>
    BY <1>6 DEF DeleteUser, TypeOK
  <2> QED
    BY <1>1, <2>1, HeldKept, EnforcedKept DEF SecretInv
<1>7. CASE CreateUser(u)
  <2>1. /\ \A x \in Users \ {u} : /\ user'[x] = user[x] /\ verified'[x] = verified[x]
                                  /\ contested'[x] = contested[x]
        /\ user'[u] = NewUser /\ UNCHANGED resetting
        /\ contested'[u] = (AnsweringFor(u) # {} \/ u \in resetting)
    BY <1>7 DEF CreateUser, TypeOK
  <2>2. SecretsHeld'
    BY <1>1, <2>1, HeldKept DEF SecretInv
  <2>3. EnforcedSecretVerified'
    BY <2>1, EnforcedKept DEF SecretInv, NewUser
  <2> QED
    BY <2>2, <2>3 DEF SecretInv
<1> QED
  BY <1>3, <1>4, <1>5, <1>6, <1>7

\* Logging out, and the administrator's writes of devices.
LEMMA DeviceSecrets ==
  ASSUME TypeOK, TypeOK', SecretInv,
         \/ \E a \in Addresses :
              DeauthenticateDevice(a) \/ LockDevice(a) \/ UnlockDevice(a) \/ DeleteDevice(a)
         \/ \E u \in Users : DeleteDevices(u)
         \/ \E u \in Users, a \in Addresses, k \in Keys : AddDevice(u, a, k)
  PROVE  SecretInv'
<1> USE DEF records, admin, history
<1>1. sessions \in [Sessions -> SessionRecord]
  BY DEF TypeOK
<1>2. \A r \in Sessions : sessions[r].addr \in Addresses /\ SameAnswer(sessions[r], sessions[r])
  BY <1>1 DEF SessionRecord, SameAnswer
<1>3. ASSUME NEW a \in Addresses,
             DeauthenticateDevice(a) \/ LockDevice(a) \/ UnlockDevice(a) \/ DeleteDevice(a)
      PROVE  SecretInv'
  <2>1. Disturbed(sessions, a) \in [Sessions -> SessionRecord]
    BY <1>1, DisturbedLemma
  <2>2. sessions' = Disturbed(sessions, a) \/ sessions' = Carried(Disturbed(sessions, a), a)
    BY <1>3 DEF DeauthenticateDevice, LockDevice, UnlockDevice, DeleteDevice
  <2>3. \A r \in Sessions : SameAnswer(sessions'[r], sessions[r])
    BY <1>1, <2>1, <2>2, SameAnswers DEF SameAnswer
  <2>4. UNCHANGED <<user, resetting, verified, contested>>
    BY <1>3 DEF DeauthenticateDevice, LockDevice, UnlockDevice, DeleteDevice
  <2> QED
    BY <2>3, <2>4, SecretsQuiet
<1>4. ASSUME NEW u \in Users, DeleteDevices(u) PROVE SecretInv'
  <2>1. \A r \in Sessions :
          sessions'[r] = sessions[r] \/ sessions'[r] = Disturbed(sessions, sessions[r].addr)[r]
    BY <1>4 DEF DeleteDevices
  <2>2. \A r \in Sessions : SameAnswer(sessions'[r], sessions[r])
    BY <1>1, <1>2, <2>1, SameAnswers
  <2> QED
    BY <1>4, <2>2, SecretsQuiet DEF DeleteDevices
<1>5. ASSUME NEW u \in Users, NEW a \in Addresses, NEW k \in Keys, AddDevice(u, a, k)
      PROVE  SecretInv'
  <2>1. \A r \in Sessions : SameAnswer(sessions'[r], sessions[r])
    BY <1>1, <1>5, SameAnswers DEF AddDevice
  <2> QED
    BY <1>5, <2>1, SecretsQuiet DEF AddDevice
<1> QED
  BY <1>3, <1>4, <1>5

\* Every step keeps the secrets, in states where IInv gives the types.
LEMMA NextSecrets ==
  ASSUME IInv, SecretInv, [Next]_vars
  PROVE  SecretInv'
<1>1. TypeOK /\ TypeOK'
  BY NextIInv DEF IInv
<1>2. CASE UNCHANGED vars
  BY <1>1, <1>2, SecretsQuiet DEF vars, SameAnswer
<1>3. ASSUME NEW s \in Sessions, SessionStep(s) PROVE SecretInv'
  BY <1>1, <1>3, RequestSecrets, SetUserMfaSecrets, DetailsSecrets, VerifySecrets,
     EnforceSecrets DEF SessionStep
<1>4. CASE AdminStep
  BY <1>1, <1>4, UserSecrets, DeviceSecrets DEF AdminStep
<1> QED
  BY <1>1, <1>2, <1>3, <1>4, RequestSecrets DEF Next

\* RegistrationAPI, Authenticate, EnforceMFA and ResetMfa write the method, the
\* flag and the answers in transactions of their own; yet MFA is enforced only
\* with a secret proven to be held, unless the method was written under a login.
THEOREM SecretTheorem == Spec => []EnforcedSecretVerified
<1>1. IInv /\ SecretInv /\ [Next]_vars => IInv' /\ SecretInv'
  BY NextIInv, NextSecrets
<1>2. SecretInv => EnforcedSecretVerified
  BY DEF SecretInv
<1> QED
  BY InitIInv, InitSecrets, <1>1, <1>2, PTL DEF Spec
=============================================================================
