----------------------------- MODULE Registration -----------------------------
(***************************************************************************)
(* Registering a device over HTTP with a token (registerDevice in          *)
(* internal/webserver/web.go, internal/data/registration.go), while        *)
(* administrators change tokens, users and devices.                        *)
(*                                                                         *)
(* registerDevice looks at the token first and takes a use off it last,    *)
(* when the configuration has been sent; in between it makes the user, an  *)
(* address and the device.  An error after AddDevice removes the device    *)
(* again, if the deferred function sees it (Reply).  A doSafeUpdate is one *)
(* step (see SafeUpdate); everything else takes a step for each trip to    *)
(* etcd.  The deferred DeleteDevice itself is taken to reach etcd.         *)
(*                                                                         *)
(* Of a membership only the existence of its key is kept, and of a token's *)
(* groups whether there are any.  Tokens that overwrite a device do not    *)
(* occur: AddRegistrationToken looks for their device under a key nobody   *)
(* writes (device-ref-) and fails.                                         *)
(***************************************************************************)
EXTENDS AddressPool

CONSTANTS
  Uses,        \* bound: the uses a token is made with
  FirstTokens, \* bound: the tokens there may be at first
  Renewed,     \* bound: tokens that are made anew
  Deleted,     \* bound: users that are deleted
  Workloads    \* bound: what else happens in one behaviour

VARIABLES
  workload,    \* what else happens in this behaviour
  token,       \* tokens-<token> in etcd
  user,        \* usernames with a record
  membership,  \* usernames with a membership key
  deleting,    \* users whose DeleteUser is between its two deletes
  \* history
  accepted,    \* registrations accepted per token since it was made
  granted,     \* uses the token was made with
  kept,        \* devices whose registration was accepted
  left,        \* devices whose registration failed out of sight of the defer
  outlived,    \* users deleted under a request that had seen them, as long as
               \* it may leave or has left a device
  halfway      \* users whose DeleteUser failed between its two deletes, as
               \* long as their devices are there

vars == <<pool, requests, workload, token, user, membership, deleting,
          accepted, granted, kept, left, outlived, halfway>>

admin == <<workload, deleting, outlived, halfway>>
marks == <<kept, left>>
tokens == <<token, accepted, granted>>
accounts == <<user, membership>>

TokenRecord == [user: Users, groups: BOOLEAN, uses: Nat]

ASSUME RegistrationAssumption ==
  /\ IsFiniteSet(Requests)
  /\ Uses \subseteq Nat
  /\ FirstTokens \subseteq [Tokens -> TokenRecord]
  /\ Renewed \subseteq Tokens /\ Deleted \subseteq Users

\* FinaliseRegistration treats a token of no uses as one of a single use.
Granted(uses) == IF uses = 0 THEN 1 ELSE uses

Init ==
  /\ InitPool
  /\ workload \in Workloads
  /\ requests = [r \in Requests |-> Idle]
  /\ token \in FirstTokens
  /\ user = {}
  /\ membership = {}
  /\ deleting = {}
  /\ accepted = [t \in Tokens |-> 0]
  /\ granted = [t \in Tokens |-> Granted(token[t].uses)]
  /\ kept = {}
  /\ left = {}
  /\ outlived = {}
  /\ halfway = {}

\* Bound: once an address is contested, what is under way comes to its end
\* and nothing new begins.
Going == contested = {}

\* The marks of a device go with it.
Forgotten == kept' = kept \cap device' /\ left' = left \cap device'

-----------------------------------------------------------------------------
(***************************************************************************)
(* registerDevice.                                                         *)
(***************************************************************************)

GetRegistrationToken(r, t) ==
  /\ Going
  /\ requests[r].step = "idle"
  /\ token[t] # Absent
  /\ requests' = [requests EXCEPT
       ![r] = [Idle EXCEPT !.step = IF token[t].groups THEN "membership" ELSE "findUser",
                           !.token = t, !.user = token[t].user]]
  /\ UNCHANGED <<pool, admin, tokens, accounts, marks>>

\* The mutation wants a membership to replace, so the request of a user who
\* never had an account ends here.
SetUserGroupMembership(r) ==
  /\ requests[r].step = "membership"
  /\ IF requests[r].user \in membership THEN MovedTo(r, "findUser") ELSE Ended(r)
  /\ UNCHANGED <<pool, admin, tokens, accounts, marks>>

\* Mistake: the user of a token is taken to exist.
GetUserAssumed(r) ==
  /\ requests[r].step = "findUser"
  /\ MovedTo(r, "lease")
  /\ UNCHANGED <<pool, admin, tokens, accounts, marks>>

GetUser(r) ==
  /\ requests[r].step = "findUser"
  /\ MovedTo(r, IF requests[r].user \in user THEN "lease" ELSE "createUser")
  /\ UNCHANGED <<pool, admin, tokens, accounts, marks>>

CreateUser(r) ==
  LET u == requests[r].user IN
  /\ requests[r].step = "createUser"
  /\ IF u \in user
     THEN Ended(r) /\ UNCHANGED accounts
     ELSE /\ user' = user \cup {u}
          /\ membership' = membership \cup {u}
          /\ MovedTo(r, "lease")
  /\ UNCHANGED <<pool, admin, tokens, marks>>

\* GetDevicePresharedKey asks for the device by its address.  Anything else
\* in making the configuration may fail too.  The deferred function looks at
\* err, which type=mobile declares anew for the QR code: an error from there
\* on ends the request with the device in place.
Reply(r) ==
  LET a == requests[r].addr
      found == ref[a] # Absent /\ <<ref[a], a>> \in device IN
  /\ requests[r].step = "reply"
  /\ \/ found /\ MovedTo(r, "finalise") /\ UNCHANGED left
     \/ (~found \/ "fail" \in workload) /\ Removing(r, a) /\ UNCHANGED left
     \/ /\ found /\ "mobile" \in workload
        /\ Ended(r)
        /\ left' = (left \cup {<<requests[r].user, a>>}) \cap device
  /\ UNCHANGED <<pool, admin, tokens, accounts, kept>>

Spending(r, t) ==
  requests' = [requests EXCEPT ![r] = [Idle EXCEPT !.step = "deleteToken", !.token = t]]

\* Mistake: a token is spent only below zero.
FinaliseRegistrationLate(r) ==
  LET t == requests[r].token IN
  /\ requests[r].step = "finalise"
  /\ IF token[t] = Absent
     THEN Removing(r, requests[r].addr) /\ UNCHANGED <<tokens, kept>>
     ELSE /\ accepted' = [accepted EXCEPT ![t] = @ + 1]
          /\ kept' = (kept \cup {<<requests[r].user, requests[r].addr>>}) \cap device
          /\ IF token[t].uses > 0
             THEN Ended(r) /\ token' = [token EXCEPT ![t].uses = @ - 1]
             ELSE Spending(r, t) /\ UNCHANGED token
          /\ UNCHANGED granted
  /\ UNCHANGED <<pool, admin, accounts, left>>

\* Mistake: a token that has gone does not matter any more.
FinaliseRegistrationAnyway(r) ==
  LET t == requests[r].token IN
  /\ requests[r].step = "finalise"
  /\ IF token[t] = Absent
     THEN Ended(r) /\ UNCHANGED <<tokens, kept>>
     ELSE /\ accepted' = [accepted EXCEPT ![t] = @ + 1]
          /\ kept' = (kept \cup {<<requests[r].user, requests[r].addr>>}) \cap device
          /\ IF token[t].uses > 1
             THEN Ended(r) /\ token' = [token EXCEPT ![t].uses = @ - 1]
             ELSE Spending(r, t) /\ UNCHANGED token
          /\ UNCHANGED granted
  /\ UNCHANGED <<pool, admin, accounts, left>>

\* FinaliseRegistration: the last use is an error of the mutation, so nothing
\* is written before the delete that follows.
FinaliseRegistration(r) ==
  LET t == requests[r].token IN
  /\ requests[r].step = "finalise"
  /\ IF token[t] = Absent
     THEN Removing(r, requests[r].addr) /\ UNCHANGED <<tokens, kept>>
     ELSE /\ accepted' = [accepted EXCEPT ![t] = @ + 1]
          /\ kept' = (kept \cup {<<requests[r].user, requests[r].addr>>}) \cap device
          /\ IF token[t].uses > 1
             THEN Ended(r) /\ token' = [token EXCEPT ![t].uses = @ - 1]
             ELSE Spending(r, t) /\ UNCHANGED token
          /\ UNCHANGED granted
  /\ UNCHANGED <<pool, admin, accounts, left>>

DeleteSpentToken(r) ==
  /\ requests[r].step = "deleteToken"
  /\ token' = [token EXCEPT ![requests[r].token] = Absent]
  /\ Ended(r)
  /\ UNCHANGED <<pool, admin, accounts, accepted, granted, marks>>

RequestStep(r) ==
  \/ SetUserGroupMembership(r) \/ GetUser(r) \/ CreateUser(r)
  \/ Reply(r) \/ FinaliseRegistration(r) \/ DeleteSpentToken(r)
  \/ /\ PoolStep(r)
     /\ Forgotten
     /\ UNCHANGED <<admin, tokens, accounts>>

-----------------------------------------------------------------------------
(***************************************************************************)
(* Administrators, and time.                                               *)
(***************************************************************************)

AddRegistrationToken(t, u, groups, n) ==
  /\ "token" \in workload
  /\ token' = [token EXCEPT ![t] = [user |-> u, groups |-> groups, uses |-> n]]
  /\ accepted' = [accepted EXCEPT ![t] = 0]
  /\ granted' = [granted EXCEPT ![t] = Granted(n)]
  /\ UNCHANGED <<pool, requests, admin, accounts, marks>>

DeleteRegistrationToken(t) ==
  /\ "token" \in workload
  /\ token' = [token EXCEPT ![t] = Absent]
  /\ UNCHANGED <<pool, requests, admin, accounts, accepted, granted, marks>>

\* DeleteDevice from the console, by address.
RemoveDevice(r, a) ==
  /\ Going /\ "remove" \in workload
  /\ requests[r].step = "idle"
  /\ Removing(r, a)
  /\ UNCHANGED <<pool, admin, tokens, accounts, marks>>

\* Requests that have seen their user and may yet make a device.
Knowing(u) ==
  {r \in Requests : requests[r].user = u /\ requests[r].step \in {"lease", "search", "assign"}}

\* Only a user who is there is deleted (deleteUser of the control socket).  The
\* membership stays.  Bound: a user is deleted by one administrator at a time.
DeleteUser(u) ==
  /\ "delete" \in workload
  /\ u \in user /\ u \notin deleting
  /\ user' = user \ {u}
  /\ deleting' = deleting \cup {u}
  /\ outlived' = IF Knowing(u) = {} THEN outlived ELSE outlived \cup {u}
  /\ UNCHANGED <<pool, requests, workload, tokens, membership, marks, halfway>>

\* Mistake: the devices are those of the first address.
DeleteDevicesFirst(u) ==
  /\ u \in deleting
  /\ device' = device \ {<<u, 1>>}
  /\ deleting' = deleting \ {u}
  /\ outlived' = IF Knowing(u) = {} THEN outlived \ {u} ELSE outlived
  /\ halfway' = halfway \ {u}
  /\ Forgotten
  /\ UNCHANGED <<ref, hold, contested, requests, workload, tokens, accounts>>

\* The delete does not ask for the previous values, so the references of the
\* devices stay.
DeleteDevices(u) ==
  /\ u \in deleting
  /\ device' = {d \in device : d[1] # u}
  /\ deleting' = deleting \ {u}
  /\ outlived' = IF Knowing(u) = {} THEN outlived \ {u} ELSE outlived
  /\ halfway' = halfway \ {u}
  /\ Forgotten
  /\ UNCHANGED <<ref, hold, contested, requests, workload, tokens, accounts>>

\* DeleteUser fails, or the server stops, between the two deletes.
DeleteUserFails(u) ==
  /\ "halfway" \in workload
  /\ u \in deleting
  /\ deleting' = deleting \ {u}
  /\ halfway' = halfway \cup {u}
  /\ UNCHANGED <<pool, requests, workload, tokens, accounts, marks, outlived>>

Lapse ==
  /\ Going
  /\ \/ "late" \in workload /\ \E r \in Requests : LeaseLapses(r)
     \/ "lapse" \in workload /\ \E a \in Addresses : HoldLapses(a)
  /\ UNCHANGED <<admin, tokens, accounts, marks>>

Next ==
  \/ \E r \in Requests : RequestStep(r)
  \/ \E r \in Requests, t \in Tokens : GetRegistrationToken(r, t)
  \/ \E r \in Requests, a \in Addresses : RemoveDevice(r, a)
  \/ \E t \in Renewed, u \in Users, g \in BOOLEAN, n \in Uses :
       AddRegistrationToken(t, u, g, n)
  \/ \E t \in Renewed : DeleteRegistrationToken(t)
  \/ \E u \in Deleted : DeleteUser(u) \/ DeleteDevices(u) \/ DeleteUserFails(u)
  \/ Lapse

\* A request the server has accepted goes on; etcd answers.
Fairness == \A r \in Requests : WF_vars(RequestStep(r))

Spec == Init /\ [][Next]_vars /\ Fairness

-----------------------------------------------------------------------------
(***************************************************************************)
(* Properties.                                                             *)
(***************************************************************************)

\* The variables keep their types, and the server's own address is nobody's
\* (getNextIP steps over it).
TypeOK ==
  /\ device \subseteq Users \X (Addresses \ {Server})
  /\ ref \in [Addresses -> Users \cup {Absent}]
  /\ hold \subseteq Addresses \ {Server}
  /\ contested \subseteq Addresses
  /\ requests \in [Requests -> RequestRecord]
  /\ workload \in Workloads
  /\ token \in [Tokens -> TokenRecord \cup {Absent}]
  /\ user \subseteq Users /\ membership \subseteq Users
  /\ deleting \subseteq Users /\ outlived \subseteq Users /\ halfway \subseteq Users
  /\ accepted \in [Tokens -> Nat] /\ granted \in [Tokens -> Nat]
  /\ kept \subseteq Users \X Addresses /\ left \subseteq Users \X Addresses

\* The reference of an address leads to the only device that has it, though
\* getNextIP, AddDevice and DeleteDevice look and write in separate steps.
\* The exception is an address assigned after its hold had lapsed, or while a
\* request still meant the previous device by it.
AddressLeadsToDevice ==
  \A u \in Users, a \in Addresses :
    <<u, a>> \in device /\ a \notin contested => ref[a] = u

\* The use of a token is taken after the device was made, by a read and a
\* separate delete (FinaliseRegistration).  So a token may be used more often
\* than it allows, but no more than once for every other request under way.
TokenUsesBounded ==
  \A t \in Tokens : accepted[t] <= granted[t] + Cardinality(Requests) - 1

\* When no request is under way every device is one whose own registration was
\* accepted: the deferred DeleteDevice of registerDevice removes the others.
\* The exceptions are the devices of failures that type=mobile keeps from it,
\* which the comment over AddDevice warns of and the code does leave, and
\* addresses that are contested.
FailedLeaveNoDevice ==
  (\A r \in Requests : requests[r].step = "idle") =>
    \A d \in device : d \in kept \cup left \/ d[2] \in contested

\* No device of an unknown user, which setupXDP would stumble over.  The
\* exceptions: DeleteUser has yet to come to the devices, it failed before
\* it did, or it ran while a request that had seen the user went on.
DevicesHaveUsers ==
  \A d \in device : d[1] \in user \cup deleting \cup halfway \cup outlived

\* If an address stays free every request comes to an end: the search of
\* getNextIP finds it wherever it starts, and the rest of registerDevice
\* waits for nobody.  With no address free the search may go on for ever.
RegistrationEnds ==
  \A r \in Requests, a \in Addresses \ {Server} :
    []<>(~Free(a) \/ requests[r].step = "idle")
=============================================================================
