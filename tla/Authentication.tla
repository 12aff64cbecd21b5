--------------------------- MODULE Authentication ---------------------------
(***************************************************************************)
(* Logging in over HTTP (internal/users Authenticate, driven by the        *)
(* RegistrationAPI and AuthorisationAPI of the authenticators) while other *)
(* requests and administrators write the same etcd records.                *)
(*                                                                         *)
(* A session is one HTTP request being served.  Authenticate makes six     *)
(* separate trips to etcd, and everything else may happen between two of   *)
(* them, so each trip is an action.  A doSafeUpdate is one atomic step:    *)
(* its compare-and-swap on the record's revision makes it so.  The one     *)
(* place where the mutation also reads another key, the account lock in    *)
(* AuthoriseDevice, is split into the read and the commit, and Disturbed   *)
(* sends back the readers whose commit the swap would refuse.              *)
(*                                                                         *)
(* Overapproximated: whether the firewall already holds a session for the  *)
(* caller (IsAuthed, which ends a handler early), whether the handler's    *)
(* method is the user's method, and whether the authenticator accepts.     *)
(***************************************************************************)
EXTENDS Records, FiniteSets

CONSTANTS
  Sessions,    \* requests served at once
  Self         \* the member of the cluster that serves them

ASSUME SelfAssumption == Self \in Nodes
ASSUME SessionsAssumption == IsFiniteSet(Sessions)

VARIABLES
  user,        \* users-<name>- in etcd
  device,      \* devices-<name>-<address> in etcd, by address
  sessions,    \* the requests being served
  resetting,   \* users whose ResetMfa is between its two writes
  deleting,    \* users whose DeleteUser is between its two deletes
  \* history
  guesses,     \* answers evaluated per device since its counter was cleared
  verified,    \* secrets an authenticator accepted, per user
  contested    \* users whose method was written under a login in progress

vars == <<user, device, sessions, resetting, deleting,
          guesses, verified, contested>>

records == <<user, device>>
admin == <<resetting, deleting>>
history == <<guesses, verified, contested>>

\* "enrol" is RegistrationAPI GET, "register" its POST, "login" the
\* AuthorisationAPI of a local method and "sso" that of OpenID Connect.
Kinds == {"enrol", "register", "login", "sso"}

Steps == {"idle", "setMfa", "increment", "details", "verify", "enforce",
          "setEnforcing", "authorise", "commit", "enforceAgain"}

\* The steps at which a session acts on a secret it has read.
Answering == {"verify", "enforce", "setEnforcing", "authorise", "commit",
              "enforceAgain"}

\* mfa and read are what the request read earlier; carried marks a request
\* counted before the counter was last cleared and still to read it.
Idle(a, u) == [step |-> "idle", kind |-> "enrol", addr |-> a, user |-> u,
               mfa |-> Unset, read |-> Absent, carried |-> FALSE]

SessionRecord ==
  [step: Steps, kind: Kinds, addr: Addresses, user: Users,
   mfa: Mfas \cup {Unset}, read: DeviceRecord \cup {Absent},
   carried: BOOLEAN]

\* The session's device key names both the user and the address.
Present(s) ==
  /\ device[sessions[s].addr] # Absent
  /\ device[sessions[s].addr].owner = sessions[s].user

Finished(s) == [sessions EXCEPT ![s] = Idle(@.addr, @.user)]

MovedTo(s, step) == [sessions EXCEPT ![s].step = step]

\* Mistake: the record is written without comparing its revision.
DisturbedNever(ss, a) == ss

\* Any write of the record at address a makes the swap of a session that has
\* read it fail; the session reads record and account lock again.
Disturbed(ss, a) ==
  [s \in Sessions |->
     IF ss[s].step = "commit" /\ ss[s].addr = a
     THEN [ss[s] EXCEPT !.step = "authorise", !.read = Absent] ELSE ss[s]]

\* The counter of the device at address a was cleared.
Carried(ss, a) ==
  [s \in Sessions |->
     IF ss[s].step = "details" /\ ss[s].addr = a
     THEN [ss[s] EXCEPT !.carried = TRUE] ELSE ss[s]]

\* Sessions of user u that hold a secret read earlier.
AnsweringFor(u) == {s \in Sessions : sessions[s].user = u /\ sessions[s].step \in Answering}

Contest(u, by) ==
  contested' = [contested EXCEPT
                  ![u] = @ \/ user[u].enforcing \/ AnsweringFor(u) \ by # {}]

Init ==
  \E a \in Addresses, u \in Users, k \in Keys :
    /\ user = [x \in Users |-> IF x = u THEN NewUser ELSE Absent]
    /\ device = [x \in Addresses |-> IF x = a THEN NewDevice(u, k) ELSE Absent]
    /\ sessions = [s \in Sessions |-> Idle(a, u)]
    /\ resetting = {}
    /\ deleting = {}
    /\ guesses = [x \in Addresses |-> 0]
    /\ verified = [x \in Users |-> {}]
    /\ contested = [x \in Users |-> FALSE]

-----------------------------------------------------------------------------
(***************************************************************************)
(* A request.                                                              *)
(***************************************************************************)

\* The handler finds the user behind the tunnel address and looks whether
\* MFA is enforced; only single sign-on does not mind.
Begin(s, a, kind) ==
  /\ sessions[s].step = "idle"
  /\ device[a] # Absent
  /\ user[device[a].owner] # Absent
  /\ CASE kind \in {"enrol", "register"} -> ~user[device[a].owner].enforcing
       [] kind = "login" -> user[device[a].owner].enforcing
       [] kind = "sso" -> TRUE
  /\ sessions' = [sessions EXCEPT ![s] =
                    [Idle(a, device[a].owner) EXCEPT
                       !.step = IF kind = "enrol" THEN "setMfa" ELSE "increment",
                       !.kind = kind]]
  /\ UNCHANGED <<records, admin, history>>

\* RegistrationAPI GET: a fresh secret is stored on the strength of the
\* earlier look at Enforcing.
SetUserMfa(s, m) ==
  LET u == sessions[s].user IN
  /\ sessions[s].step = "setMfa"
  /\ IF user[u] = Absent
     THEN UNCHANGED <<user, contested>>
     ELSE /\ user' = [user EXCEPT ![u] = WithMfa(@, m)]
          /\ Contest(u, {s})
  /\ sessions' = Finished(s)
  /\ UNCHANGED <<device, admin, guesses, verified>>

IncrementAuthenticationAttempt(s) ==
  LET a == sessions[s].addr IN
  /\ sessions[s].step = "increment"
  /\ IF Present(s)
     THEN /\ device' = [device EXCEPT ![a] = WithAttempt(@)]
          /\ sessions' = Disturbed([sessions EXCEPT ![s].step = "details",
                                                    ![s].carried = FALSE], a)
     ELSE /\ sessions' = Finished(s)
          /\ UNCHANGED device
  /\ UNCHANGED <<user, admin, history>>

\* Mistake: the limit is inclusive.
MayAnswerAtLockout(s) ==
  /\ Present(s)
  /\ user[sessions[s].user] # Absent
  /\ device[sessions[s].addr].attempts <= Lockout
  /\ ~user[sessions[s].user].locked

\* What the checks between GetAuthenticationDetails and the authenticator let
\* through, apart from the comparison of the method.
MayAnswer(s) ==
  /\ Present(s)
  /\ user[sessions[s].user] # Absent
  /\ device[sessions[s].addr].attempts < Lockout
  /\ ~user[sessions[s].user].locked

\* One transaction reads both records; the checks that follow are local.
GetAuthenticationDetails(s) ==
  LET a == sessions[s].addr
      u == sessions[s].user IN
  /\ sessions[s].step = "details"
  /\ \/ /\ MayAnswer(s)
        /\ user[u].mfa # Unset
        /\ sessions' = [sessions EXCEPT ![s].step = "verify",
                                        ![s].mfa = user[u].mfa,
                                        ![s].carried = FALSE]
        /\ guesses' = [guesses EXCEPT
                         ![a] = IF sessions[s].carried THEN @ ELSE @ + 1]
     \/ \* locked out, account locked, or another method than the user's
        /\ sessions' = Finished(s)
        /\ UNCHANGED guesses
  /\ UNCHANGED <<records, admin, verified, contested>>

\* Mistake: the request goes on after a wrong answer.
VerifyIgnoringResult(s) ==
  LET u == sessions[s].user IN
  /\ sessions[s].step = "verify"
  /\ sessions' = MovedTo(s, "enforce")
  /\ \/ verified' = [verified EXCEPT ![u] = @ \cup {sessions[s].mfa}]
     \/ UNCHANGED verified
  /\ UNCHANGED <<records, admin, guesses, contested>>

\* The authenticator compares the answer with the secret read before.
Verify(s) ==
  LET u == sessions[s].user IN
  /\ sessions[s].step = "verify"
  /\ \/ /\ sessions' = MovedTo(s, "enforce")
        /\ verified' = [verified EXCEPT ![u] = @ \cup {sessions[s].mfa}]
     \/ /\ sessions' = Finished(s)
        /\ UNCHANGED verified
  /\ UNCHANGED <<records, admin, guesses, contested>>

\* IsEnforcingMFA answers yes when it cannot read the user.
IsEnforcingMFA(s) ==
  LET u == sessions[s].user IN
  /\ sessions[s].step = "enforce"
  /\ sessions' = MovedTo(s, IF user[u] = Absent THEN "authorise"
                            ELSE IF user[u].enforcing THEN "authorise"
                            ELSE "setEnforcing")
  /\ UNCHANGED <<records, admin, history>>

EnforceMFA(s) ==
  LET u == sessions[s].user IN
  /\ sessions[s].step \in {"setEnforcing", "enforceAgain"}
  /\ IF user[u] = Absent
     THEN /\ UNCHANGED user
          /\ sessions' = Finished(s)
     ELSE /\ user' = [user EXCEPT ![u] = WithEnforcing(@, TRUE)]
          /\ sessions' = IF sessions[s].step = "setEnforcing"
                         THEN MovedTo(s, "authorise") ELSE Finished(s)
  /\ UNCHANGED <<device, admin, history>>

\* AuthoriseDevice reads the device and, inside the mutation, the user.
CheckAccountLock(s) ==
  LET u == sessions[s].user IN
  /\ sessions[s].step = "authorise"
  /\ \/ /\ Present(s)
        /\ user[u] # Absent
        /\ ~user[u].locked
        /\ sessions' = [sessions EXCEPT ![s].step = "commit",
                                        ![s].read = device[sessions[s].addr]]
     \/ /\ \/ ~Present(s)
           \/ user[u] = Absent
           \/ user[u] # Absent /\ user[u].locked
        /\ sessions' = Finished(s)
  /\ UNCHANGED <<records, admin, history>>

\* The swap succeeds: nobody wrote the device since.  What is written is the
\* record that was read, changed.
AuthoriseDevice(s) ==
  LET a == sessions[s].addr
      next == IF sessions[s].kind = "register"
              THEN [sessions EXCEPT ![s].step = "enforceAgain", ![s].read = Absent]
              ELSE Finished(s) IN
  /\ sessions[s].step = "commit"
  /\ device' = [device EXCEPT ![a] = WithAuthorisation(sessions[s].read, Self)]
  /\ sessions' = Carried(Disturbed(next, a), a)
  /\ guesses' = [guesses EXCEPT ![a] = 0]
  /\ UNCHANGED <<user, admin, verified, contested>>

SessionStep(s) ==
  \/ \E m \in Mfas : SetUserMfa(s, m)
  \/ IncrementAuthenticationAttempt(s)
  \/ GetAuthenticationDetails(s)
  \/ Verify(s)
  \/ IsEnforcingMFA(s)
  \/ EnforceMFA(s)
  \/ CheckAccountLock(s)
  \/ AuthoriseDevice(s)

-----------------------------------------------------------------------------
(***************************************************************************)
(* Logging out and the administrator's requests.                           *)
(***************************************************************************)

SetUserLock(u, l) ==
  /\ user[u] # Absent
  /\ user' = [user EXCEPT ![u] = WithLock(@, l)]
  /\ UNCHANGED <<device, sessions, admin, history>>

\* Logout, and the end of a session anywhere else.
DeauthenticateDevice(a) ==
  /\ device[a] # Absent
  /\ device' = [device EXCEPT ![a] = WithoutAuthorisation(@)]
  /\ sessions' = Disturbed(sessions, a)
  /\ UNCHANGED <<user, admin, history>>

LockDevice(a) ==
  /\ device[a] # Absent
  /\ device' = [device EXCEPT ![a] = WithAttempts(@, Lockout + 1)]
  /\ sessions' = Disturbed(sessions, a)
  /\ UNCHANGED <<user, admin, history>>

UnlockDevice(a) ==
  /\ device[a] # Absent
  /\ device' = [device EXCEPT ![a] = WithAttempts(@, 0)]
  /\ sessions' = Carried(Disturbed(sessions, a), a)
  /\ guesses' = [guesses EXCEPT ![a] = 0]
  /\ UNCHANGED <<user, admin, verified, contested>>

\* ResetMfa clears the method first and stops enforcing it afterwards.
ResetMfaClear(u) ==
  /\ user[u] # Absent
  /\ u \notin resetting
  /\ user' = [user EXCEPT ![u] = WithMfa(@, Unset)]
  /\ resetting' = resetting \cup {u}
  /\ contested' = [contested EXCEPT ![u] = @ \/ AnsweringFor(u) # {}]
  /\ UNCHANGED <<device, sessions, deleting, guesses, verified>>

ResetMfaUnenforce(u) ==
  /\ u \in resetting
  /\ user' = IF user[u] = Absent THEN user
             ELSE [user EXCEPT ![u] = WithEnforcing(@, FALSE)]
  /\ resetting' = resetting \ {u}
  /\ UNCHANGED <<device, sessions, deleting, history>>

DeleteDevice(a) ==
  /\ device[a] # Absent
  /\ device' = [device EXCEPT ![a] = Absent]
  /\ sessions' = Disturbed(sessions, a)
  /\ UNCHANGED <<user, admin, history>>

\* The user's key goes first and the devices in a second call.
DeleteUser(u) ==
  /\ user[u] # Absent
  /\ user' = [user EXCEPT ![u] = Absent]
  /\ deleting' = deleting \cup {u}
  /\ UNCHANGED <<device, sessions, resetting, history>>

DeleteDevices(u) ==
  LET owned == {a \in Addresses : device[a] # Absent /\ device[a].owner = u} IN
  /\ u \in deleting
  /\ device' = [a \in Addresses |-> IF a \in owned THEN Absent ELSE device[a]]
  /\ sessions' = [s \in Sessions |->
                    IF sessions[s].addr \in owned
                    THEN Disturbed(sessions, sessions[s].addr)[s] ELSE sessions[s]]
  /\ deleting' = deleting \ {u}
  /\ UNCHANGED <<user, resetting, history>>

CreateUser(u) ==
  /\ user[u] = Absent
  /\ user' = [user EXCEPT ![u] = NewUser]
  /\ verified' = [verified EXCEPT ![u] = {}]
  /\ contested' = [contested EXCEPT ![u] = AnsweringFor(u) # {} \/ u \in resetting]
  /\ UNCHANGED <<device, sessions, admin, guesses>>

\* getNextIP hands out an address without a record.
AddDevice(u, a, k) ==
  /\ user[u] # Absent
  /\ device[a] = Absent
  /\ device' = [device EXCEPT ![a] = NewDevice(u, k)]
  /\ sessions' = Carried(sessions, a)
  /\ guesses' = [guesses EXCEPT ![a] = 0]
  /\ UNCHANGED <<user, admin, verified, contested>>

AdminStep ==
  \/ \E u \in Users, l \in BOOLEAN : SetUserLock(u, l)
  \/ \E a \in Addresses :
       DeauthenticateDevice(a) \/ LockDevice(a) \/ UnlockDevice(a) \/ DeleteDevice(a)
  \/ \E u \in Users :
       \/ ResetMfaClear(u) \/ ResetMfaUnenforce(u)
       \/ DeleteUser(u) \/ DeleteDevices(u) \/ CreateUser(u)
  \/ \E u \in Users, a \in Addresses, k \in Keys : AddDevice(u, a, k)

Next ==
  \/ \E s \in Sessions :
       \/ \E a \in Addresses, kind \in Kinds : Begin(s, a, kind)
       \/ SessionStep(s)
  \/ AdminStep

Spec == Init /\ [][Next]_vars

-----------------------------------------------------------------------------
(***************************************************************************)
(* Properties.                                                             *)
(***************************************************************************)

\* Every record, request and history variable has its type.
TypeOK ==
  /\ user \in [Users -> UserRecord \cup {Absent}]
  /\ device \in [Addresses -> DeviceRecord \cup {Absent}]
  /\ sessions \in [Sessions -> SessionRecord]
  /\ resetting \in SUBSET Users
  /\ deleting \in SUBSET Users
  /\ guesses \in [Addresses -> Nat]
  /\ verified \in [Users -> SUBSET (Mfas \cup {Unset})]
  /\ contested \in [Users -> BOOLEAN]

\* The reason Authenticate counts an attempt before it looks at the counter:
\* however many requests run at once, fewer than Lockout answers are
\* evaluated for a device between two clearings of its counter.  Requests
\* counted before the clearing are not included (carried).
GuessesBounded ==
  \A a \in Addresses : guesses[a] < Lockout

\* MFA is enforced only with a secret somebody has proven to hold.  It takes
\* a write of the method under a login that has already read it, or after
\* MFA became enforced, to break this: those users are contested.
EnforcedSecretVerified ==
  \A u \in Users :
    (user[u] # Absent /\ user[u].enforcing /\ ~contested[u] /\ u \notin resetting)
       => user[u].mfa \in verified[u]

\* A deleted device comes back only as a new, unauthorised one: no login that
\* was under way when it was deleted can write the old record back.
NoResurrection ==
  [][\A a \in Addresses :
       device[a] = Absent /\ device'[a] # Absent
          => device'[a].attempts = 0 /\ ~device'[a].authorised]_device

\* "Lock device access to mfa routes": a device the administrator locked
\* leaves that state by being unlocked or deleted, not by a login that had
\* passed the check before.
LockedDeviceStaysLocked ==
  [][\A a \in Addresses :
       device[a] # Absent /\ device'[a] # Absent
         /\ device[a].attempts > Lockout /\ device'[a].attempts <= Lockout
           => UnlockDevice(a)]_vars
=============================================================================
