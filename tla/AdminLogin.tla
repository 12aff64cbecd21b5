------------------------------ MODULE AdminLogin ------------------------------
(***************************************************************************)
(* Administrators of the web interface (internal/data/ui.go, doLogin and   *)
(* changePassword of ui/ui_webserver.go), and what the control socket does *)
(* to their accounts meanwhile.                                            *)
(*                                                                         *)
(* A login counts the attempt, compares the password, which clears the     *)
(* counter, records the login and reads the account: four trips to etcd.   *)
(* Each doSafeUpdate is one step (see SafeUpdate); GetLockout, which the   *)
(* first two call inside it, is a constant.  Times and addresses are left  *)
(* out.                                                                    *)
(***************************************************************************)
EXTENDS Integers, FiniteSets

CONSTANTS
  AdminNames,    \* usernames of administrators
  Begins(_, _),  \* the first name is a prefix of the second, or the second
  Passwords,     \* long enough ones
  Browsers,      \* clients of the web interface
  NoAdmin,       \* no such account, no session
  AdminLockout   \* the setting Lockout

ASSUME AdminAssumption ==
  /\ NoAdmin \notin AdminNames /\ NoAdmin \notin [attempts: Nat, password: Passwords, salt: Nat]
  /\ IsFiniteSet(Browsers)
  /\ AdminLockout \in Nat \ {0}

VARIABLES
  admin,         \* admin-users-<username>
  login,         \* what each browser is doing
  session,       \* whose session it has, in the memory of the node
  \* history: since the counter was last cleared
  counted,       \* browsers whose attempt was counted
  guesses        \* passwords compared in such attempts that did not match

logins == <<admin, login, session, counted, guesses>>

(* CreateAdminUser appends 16 characters of salt to the hash and           *)
(* SetAdminPassword 64; CompareAdminKeys always takes the last 16.         *)
SaltTaken == 16

AdminRecord == [attempts: 0..AdminLockout, password: Passwords, salt: {16, 64}]

LoginRecord == [step: {"idle", "compare", "record", "enter", "confirm", "set"},
                name: AdminNames \cup {NoAdmin}, typed: Passwords \cup {NoAdmin}]

AtRest == [step |-> "idle", name |-> NoAdmin, typed |-> NoAdmin]

InitLogin ==
  /\ admin \in [AdminNames -> {NoAdmin} \cup
                  [attempts: {0}, password: Passwords, salt: {16}]]
  /\ login = [b \in Browsers |-> AtRest]
  /\ session = [b \in Browsers |-> NoAdmin]
  /\ counted = {}
  /\ guesses = [n \in AdminNames |-> 0]

Matches(a, password) == a.salt = SaltTaken /\ a.password = password

\* Mistake: the limit is inclusive.
LockedBeyond(n) == admin[n].attempts > AdminLockout

Locked(n) == admin[n].attempts >= AdminLockout

(* The counter of an account starts again.                                 *)
Clear(n) ==
  /\ counted' = {b \in counted : login[b].name # n}
  /\ guesses' = [guesses EXCEPT ![n] = 0]

End(b) == login' = [login EXCEPT ![b] = AtRest]

\* Mistake: the counter goes on past the limit.
CountedOn(attempts) == attempts + 1

(* The counter stays at the limit once it is there.                        *)
Counted(attempts) == IF attempts < AdminLockout THEN attempts + 1 ELSE attempts

(* doLogin: IncrementAdminAuthenticationAttempt, which an unknown user     *)
(* does not pass.                                                          *)
IncrementAdminAuthenticationAttempt(b, n, password) ==
  /\ login[b] = AtRest
  /\ admin[n] # NoAdmin
  /\ admin' = [admin EXCEPT ![n].attempts = Counted(@)]
  /\ login' = [login EXCEPT ![b] =
                 [step |-> "compare", name |-> n, typed |-> password]]
  /\ counted' = counted \cup {b}
  /\ UNCHANGED <<session, guesses>>

(* changePassword: a browser with a session types the current password.    *)
ChangePassword(b, password) ==
  /\ login[b] = AtRest
  /\ session[b] # NoAdmin
  /\ admin[session[b]] # NoAdmin
  /\ login' = [login EXCEPT ![b] =
                 [step |-> "confirm", name |-> session[b], typed |-> password]]
  /\ counted' = counted \ {b}
  /\ UNCHANGED <<admin, session, guesses>>

(* CompareAdminKeys refuses a locked account before it looks at the        *)
(* password, leaves the account alone if the password is wrong and clears  *)
(* the counter if it is right.                                             *)
CompareAdminKeys(b) ==
  LET n == login[b].name
  IN /\ login[b].step \in {"compare", "confirm"}
     /\ \/ /\ admin[n] # NoAdmin => Locked(n)
           /\ End(b)
           /\ UNCHANGED <<admin, counted, guesses>>
        \/ /\ admin[n] # NoAdmin /\ ~Locked(n)
           /\ ~Matches(admin[n], login[b].typed)
           /\ guesses' = IF b \in counted THEN [guesses EXCEPT ![n] = @ + 1] ELSE guesses
           /\ End(b)
           /\ UNCHANGED <<admin, counted>>
        \/ /\ admin[n] # NoAdmin /\ ~Locked(n)
           /\ Matches(admin[n], login[b].typed)
           /\ admin' = [admin EXCEPT ![n].attempts = 0]
           /\ Clear(n)
           /\ login' = [login EXCEPT ![b].step =
                          IF @ = "compare" THEN "record" ELSE "set"]
     /\ UNCHANGED session

(* SetLastLoginInformation, which fails without an account.                *)
SetLastLoginInformation(b) ==
  /\ login[b].step = "record"
  /\ IF admin[login[b].name] = NoAdmin
       THEN End(b)
       ELSE login' = [login EXCEPT ![b].step = "enter"]
  /\ UNCHANGED <<admin, session, counted, guesses>>

(* GetAdminUser and StartSession.                                          *)
StartSession(b) ==
  /\ login[b].step = "enter"
  /\ session' = [session EXCEPT ![b] =
                   IF admin[login[b].name] = NoAdmin THEN @ ELSE login[b].name]
  /\ End(b)
  /\ UNCHANGED <<admin, counted, guesses>>

WithPassword(a, password) == [a EXCEPT !.password = password, !.salt = 64]

(* The end of changePassword: the new passwords differ, the account is     *)
(* gone, or SetAdminPassword.                                              *)
SetNewPassword(b, password) ==
  LET n == login[b].name
  IN /\ login[b].step = "set"
     /\ \/ UNCHANGED admin
        \/ /\ admin[n] # NoAdmin
           /\ admin' = [admin EXCEPT ![n] = WithPassword(@, password)]
     /\ End(b)
     /\ UNCHANGED <<session, counted, guesses>>

(* Every protected page reads the account first: without one the session   *)
(* ends.  A locked account keeps its sessions.                             *)
AuthorisationChecks(b) ==
  /\ login[b] = AtRest
  /\ session[b] # NoAdmin
  /\ admin[session[b]] = NoAdmin
  /\ session' = [session EXCEPT ![b] = NoAdmin]
  /\ UNCHANGED <<admin, login, counted, guesses>>

-----------------------------------------------------------------------------
(* The control socket.  CreateAdminUser writes the account, whether there  *)
(* was one or not.                                                         *)
CreateAdminUser(n, password) ==
  /\ admin' = [admin EXCEPT ![n] =
                 [attempts |-> 0, password |-> password, salt |-> 16]]
  /\ Clear(n)
  /\ UNCHANGED <<login, session>>

(* DeleteAdminUser deletes every account whose name begins with the name.  *)
DeleteAdminUser(n) ==
  /\ admin' = [m \in AdminNames |-> IF Begins(n, m) THEN NoAdmin ELSE admin[m]]
  /\ admin' # admin
  /\ UNCHANGED <<login, session, counted, guesses>>

SetAdminUserLock(n) ==
  /\ admin[n] # NoAdmin
  /\ admin' = [admin EXCEPT ![n].attempts = AdminLockout]
  /\ UNCHANGED <<login, session, counted, guesses>>

SetAdminUserUnlock(n) ==
  /\ admin[n] # NoAdmin
  /\ admin' = [admin EXCEPT ![n].attempts = 0]
  /\ Clear(n)
  /\ UNCHANGED <<login, session>>

SetAdminPassword(n, password) ==
  /\ admin[n] # NoAdmin
  /\ admin' = [admin EXCEPT ![n] = WithPassword(@, password)]
  /\ UNCHANGED <<login, session, counted, guesses>>

NextLogin ==
  \/ \E b \in Browsers, p \in Passwords :
       \/ \E n \in AdminNames : IncrementAdminAuthenticationAttempt(b, n, p)
       \/ ChangePassword(b, p)
       \/ SetNewPassword(b, p)
  \/ \E b \in Browsers :
       \/ CompareAdminKeys(b)
       \/ SetLastLoginInformation(b)
       \/ StartSession(b)
       \/ AuthorisationChecks(b)
  \/ \E n \in AdminNames :
       \/ \E p \in Passwords : CreateAdminUser(n, p) \/ SetAdminPassword(n, p)
       \/ DeleteAdminUser(n)
       \/ SetAdminUserLock(n)
       \/ SetAdminUserUnlock(n)

SpecLogin == InitLogin /\ [][NextLogin]_logins

-----------------------------------------------------------------------------
LoginTypeOK ==
  /\ admin \in [AdminNames -> {NoAdmin} \cup AdminRecord]
  /\ login \in [Browsers -> LoginRecord]
  /\ session \in [Browsers -> AdminNames \cup {NoAdmin}]
  /\ counted \subseteq Browsers
  /\ guesses \in [AdminNames -> Nat]

(* However many browsers try at once, fewer than Lockout passwords are     *)
(* compared in vain through the login page before the account's counter    *)
(* is cleared: every comparison was counted before it was made, and a full *)
(* counter stops it.                                                       *)
AdminGuessesBounded == \A n \in AdminNames : guesses[n] < AdminLockout
=============================================================================
