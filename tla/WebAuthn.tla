------------------------------ MODULE WebAuthn ------------------------------
(***************************************************************************)
(* The ceremonies by which one user registers a security key and logs in   *)
(* with it (internal/webserver/authenticators/webauthn.go).                *)
(*                                                                         *)
(* What the node knows of the user's keys is one value in the user's       *)
(* record, read at one moment and written back whole at another, by the    *)
(* devices of the user and by an administrator who resets it.  The         *)
(* attempts and locks Authenticate counts are those of Authentication: a   *)
(* request may here be refused at any time.                                *)
(*                                                                         *)
(* Bounds: a browser has one request at a time; the number of values,      *)
(* of challenges and of a key's answers.                                   *)
(***************************************************************************)
EXTENDS Naturals

CONSTANTS
  Agents,         \* browsers on devices of the user
  SecurityKeys,
  Counterless,    \* those of them without a counter
  MaxIds,         \* bound: registrations begun
  MaxChallenges,  \* bound: challenges sent
  MaxPresses      \* bound: answers of one key

ASSUME WebAuthnAssumption ==
  /\ Counterless \subseteq SecurityKeys
  /\ MaxIds \in Nat /\ MaxChallenges \in Nat /\ MaxPresses \in Nat

VARIABLES
  mfa,          \* of the user's record: a WebauthnUser, or nothing of that kind
  enforcing,
  ids,          \* those NewUser made, randomUint64
  challenges,
  ceremony,     \* the session of each browser
  posting,      \* the request each browser waits for
  presses,      \* each key's own counter
  answers,      \* what the keys signed
  resetting,    \* an administrator's ResetMfa is half done
  \* history
  overtaken,    \* a value was stored over one it was not read from
  accepted,     \* answers that logged someone in
  again         \* those that did so twice

ceremonies ==
  <<mfa, enforcing, ids, challenges, ceremony, posting, presses, answers, resetting,
    overtaken, accepted, again>>

(* WebauthnUser: its random id, and the counter of each credential.        *)
KeySets == UNION {[ks -> 0..MaxPresses] : ks \in SUBSET SecurityKeys}
Users == [id: 1..MaxIds, keys: KeySets]
Unset == [id |-> 0, keys |-> <<>>]

Ceremonies == [kind: {"create", "get", "none"}, id: 0..MaxIds, challenge: 0..MaxChallenges]
NoCeremony == [kind |-> "none", id |-> 0, challenge |-> 0]

Answer == [kind: {"create", "get"}, key: SecurityKeys, count: 0..MaxPresses,
           challenge: 1..MaxChallenges]
NoAnswer == [kind |-> "none"]

Free == [step |-> "idle", read |-> Unset, write |-> Unset, answer |-> NoAnswer]

InitWebAuthn ==
  /\ mfa = Unset
  /\ enforcing = FALSE
  /\ ids = 0 /\ challenges = 0
  /\ ceremony = [a \in Agents |-> NoCeremony]
  /\ posting = [a \in Agents |-> Free]
  /\ presses = [k \in SecurityKeys |-> 0]
  /\ answers = {}
  /\ resetting = FALSE
  /\ overtaken = FALSE
  /\ accepted = {} /\ again = {}

Asking(a) == posting[a].step = "idle"

StartCeremony(a, kind, id) ==
  /\ challenges < MaxChallenges
  /\ challenges' = challenges + 1
  /\ ceremony' = [ceremony EXCEPT ![a] =
       [kind |-> kind, id |-> id, challenge |-> challenges + 1]]

-----------------------------------------------------------------------------
(* RegistrationAPI, GET: a new WebauthnUser, whatever the old one held.    *)
NewUser(a) ==
  /\ Asking(a)
  /\ ~enforcing
  /\ ids < MaxIds
  /\ ids' = ids + 1
  /\ StartCeremony(a, "create", ids + 1)
  /\ posting' = [posting EXCEPT ![a] =
       [Free EXCEPT !.step = "offer", !.write = [id |-> ids + 1, keys |-> <<>>]]]
  /\ UNCHANGED <<mfa, enforcing, presses, answers, resetting, overtaken, accepted, again>>

OfferRegistration(a) ==
  /\ posting[a].step = "offer"
  /\ mfa' = posting[a].write
  /\ posting' = [posting EXCEPT ![a] = Free]
  /\ UNCHANGED <<enforcing, ids, challenges, ceremony, presses, answers, resetting,
                 overtaken, accepted, again>>

(* AuthorisationAPI, GET: what a reset leaves does not unmarshal, and a    *)
(* user without a credential cannot begin.                                 *)
BeginLogin(a) ==
  /\ Asking(a)
  /\ enforcing
  /\ DOMAIN mfa.keys # {}
  /\ StartCeremony(a, "get", mfa.id)
  /\ UNCHANGED <<mfa, enforcing, ids, posting, presses, answers, resetting,
                 overtaken, accepted, again>>

(* A key signs the challenge the browser was sent, and counts: from 1, or  *)
(* not at all, and then it always sends 0.                                 *)
Press(a, k) ==
  LET count == IF k \in Counterless THEN 0 ELSE presses[k] + 1
  IN /\ ceremony[a] # NoCeremony /\ posting[a].step # "offer"
     /\ presses[k] < MaxPresses
     /\ presses' = [presses EXCEPT ![k] = count]
     /\ answers' = answers \cup
          {[kind |-> ceremony[a].kind, key |-> k, count |-> count,
            challenge |-> ceremony[a].challenge]}
  /\ UNCHANGED <<mfa, enforcing, ids, challenges, ceremony, posting, resetting,
                 overtaken, accepted, again>>

(* Either POST, up to the call of Authenticate.                            *)
Post(a, answer) ==
  /\ Asking(a)
  /\ enforcing = (answer.kind = "get")
  /\ posting' = [posting EXCEPT ![a] = [Free EXCEPT !.step = "posted", !.answer = answer]]
  /\ UNCHANGED <<mfa, enforcing, ids, challenges, ceremony, presses, answers, resetting,
                 overtaken, accepted, again>>

(* What FinishRegistration and FinishLogin of the library compare.         *)
Belongs(a) ==
  /\ mfa.id # 0
  /\ ceremony[a].id = mfa.id
  /\ ceremony[a].challenge = posting[a].answer.challenge

\* Mistake: the same count is no warning.
CloneWarningBelow(stored, answer) == answer.count < stored

(* UpdateCounter of the library.                                           *)
CloneWarning(stored, answer) ==
  answer.count <= stored /\ (answer.count # 0 \/ stored # 0)

AddCredential(user, answer) ==
  [user EXCEPT !.keys = [k \in DOMAIN user.keys \cup {answer.key} |->
     IF k = answer.key THEN answer.count ELSE user.keys[k]]]

Verified(a, user) ==
  posting' = [posting EXCEPT ![a] =
    [step |-> "verified", read |-> mfa, write |-> user, answer |-> @.answer]]

(* The authenticator of the registration, on the value it was given.       *)
FinishRegistration(a) ==
  /\ posting[a].step = "posted"
  /\ posting[a].answer.kind = "create"
  /\ Belongs(a)
  /\ Verified(a, AddCredential(mfa, posting[a].answer))
  /\ UNCHANGED <<mfa, enforcing, ids, challenges, ceremony, presses, answers, resetting,
                 overtaken, accepted, again>>

(* The authenticator of the login.                                         *)
FinishLogin(a) ==
  LET answer == posting[a].answer
  IN /\ posting[a].step = "posted"
     /\ answer.kind = "get"
     /\ Belongs(a)
     /\ answer.key \in DOMAIN mfa.keys
     /\ ~CloneWarning(mfa.keys[answer.key], answer)
     /\ Verified(a, AddCredential(mfa, answer))
  /\ UNCHANGED <<mfa, enforcing, ids, challenges, ceremony, presses, answers, resetting,
                 overtaken, accepted, again>>

(* SetUserMfa at the end of both; the registration's session is deleted,   *)
(* the login's is not.                                                     *)
StoreUser(a) ==
  LET answer == posting[a].answer
  IN /\ posting[a].step = "verified"
     /\ mfa' = posting[a].write
     /\ overtaken' = (overtaken \/ mfa # posting[a].read)
     /\ IF answer.kind = "create"
          THEN /\ ceremony' = [ceremony EXCEPT ![a] = NoCeremony]
               /\ UNCHANGED <<accepted, again>>
          ELSE /\ accepted' = accepted \cup {answer}
               /\ again' = again \cup ({answer} \cap accepted)
               /\ UNCHANGED ceremony
     /\ posting' = [posting EXCEPT ![a].step = "stored"]
  /\ UNCHANGED <<enforcing, ids, challenges, presses, answers, resetting>>

(* The rest of Authenticate.                                               *)
EnforceMFA(a) ==
  /\ posting[a].step = "stored"
  /\ enforcing' = TRUE
  /\ posting' = [posting EXCEPT ![a] = Free]
  /\ UNCHANGED <<mfa, ids, challenges, ceremony, presses, answers, resetting,
                 overtaken, accepted, again>>

(* The request fails, for one of the reasons above or another.             *)
Refuse(a) ==
  /\ ~Asking(a)
  /\ posting' = [posting EXCEPT ![a] = Free]
  /\ UNCHANGED <<mfa, enforcing, ids, challenges, ceremony, presses, answers, resetting,
                 overtaken, accepted, again>>

(* ResetMfa of internal/users/user.go: SetUserMfa, then UnenforceMFA.      *)
ResetMfa ==
  /\ \/ ~resetting /\ enforcing /\ mfa' = Unset /\ UNCHANGED enforcing
     \/ resetting /\ enforcing' = FALSE /\ UNCHANGED mfa
  /\ resetting' = ~resetting
  /\ UNCHANGED <<ids, challenges, ceremony, posting, presses, answers,
                 overtaken, accepted, again>>

NextWebAuthn ==
  \/ \E a \in Agents :
       \/ NewUser(a) \/ OfferRegistration(a) \/ BeginLogin(a)
       \/ FinishRegistration(a) \/ FinishLogin(a) \/ StoreUser(a) \/ EnforceMFA(a) \/ Refuse(a)
       \/ \E k \in SecurityKeys : Press(a, k)
       \/ \E answer \in answers : Post(a, answer)
  \/ ResetMfa

SpecWebAuthn == InitWebAuthn /\ [][NextWebAuthn]_ceremonies

-----------------------------------------------------------------------------
WebAuthnTypeOK ==
  /\ mfa \in Users \cup {Unset}
  /\ enforcing \in BOOLEAN /\ resetting \in BOOLEAN /\ overtaken \in BOOLEAN
  /\ ids \in 0..MaxIds /\ challenges \in 0..MaxChallenges
  /\ ceremony \in [Agents -> Ceremonies]
  /\ posting \in [Agents -> [step: {"idle", "offer", "posted", "verified", "stored"},
                             read: Users \cup {Unset}, write: Users \cup {Unset},
                             answer: Answer \cup {NoAnswer}]]
  /\ presses \in [SecurityKeys -> 0..MaxPresses]
  /\ answers \subseteq Answer
  /\ accepted \subseteq answers /\ again \subseteq accepted

(* A login's session stays, so its answer can be sent again, after a       *)
(* logout, after a reset, after another key was registered: the counter    *)
(* in the user's record alone makes it good for one login.  It does, of a  *)
(* key that counts, as long as no request stores a value over one it did   *)
(* not read: two logins at once may both be let in, or leave the lower     *)
(* counter, and a login may bring back what an administrator has just      *)
(* reset.  A key without a counter has nothing that makes its answer good  *)
(* for one login.                                                          *)
AnswersAcceptedOnce == overtaken \/ \A answer \in again : answer.key \in Counterless
=============================================================================
