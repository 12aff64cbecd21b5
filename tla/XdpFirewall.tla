---------------------------- MODULE XdpFirewall ----------------------------
(***************************************************************************)
(* The decision of the XDP program (internal/router/xdp.c conntrack) on    *)
(* one packet: the lookups, and the loop over the policies of the route.   *)
(*                                                                         *)
(* The program runs beside the router.  It holds pointers into the maps,   *)
(* so what it reads of the device and the account in one turn of the loop  *)
(* may differ from what it read in the turn before; whether the session    *)
(* has been idle for too long is computed once.  Each turn is a step, and  *)
(* RouterWrites may come between any two.                                  *)
(*                                                                         *)
(* Data abstraction: the bits of policy_type are a set of flags, the array *)
(* a route has is a function on 1..MaxPolicies, and the route the longest  *)
(* prefix of the address selects is given, since every policy in the array *)
(* belongs to that one route.                                              *)
(***************************************************************************)
EXTENDS Integers

CONSTANTS
  MaxPolicies, \* MAX_POLICIES, the size of a route's array
  Protocols,   \* IP protocols, numbered
  Ports        \* TCP and UDP ports, and 0 for other protocols

ASSUME XdpAssumption ==
  /\ MaxPolicies \in Nat \ {0}
  /\ Protocols \subseteq Nat
  /\ Ports \subseteq Nat

ANY == 0

Flags == {"public", "range", "single", "deny"}

\* The types parseRule gives a policy: how it matches and what it restricts.
RuleTypes ==
  {{how} \cup what : how \in {"single", "range"}, what \in {{}, {"public"}, {"deny"}}}

STOP == {}

Policy ==
  [type: SUBSET Flags, proto: Protocols \cup {ANY}, lower: Ports \cup {ANY},
   upper: Ports \cup {ANY}]

StopPolicy == [type |-> STOP, proto |-> ANY, lower |-> ANY, upper |-> ANY]

Packet == [proto: Protocols, port: Ports]

\* What the program sees of the device and its account.
Session ==
  [here: BOOLEAN,      \* associated with this node
   locked: BOOLEAN,    \* account
   current: BOOLEAN]   \* sessionExpiry is neither zero nor past

VARIABLES
  policies,    \* the array of the route, stop policies after the rules
  packet,
  known,       \* the maps have the device, its account and the route
  session,     \* now
  idle,        \* isTimedOut
  i,           \* the policy looked at next, 0 during the lookups
  decision,
  verdict,     \* "looking", "pass" or "drop"
  \* history
  seen         \* whether the session was good, at any time since the packet came

vars == <<policies, packet, known, session, idle, i, decision, verdict, seen>>
given == <<policies, packet, known, idle>>

\* The test of an MFA policy.
SessionGood(s) ==
  s.here /\ ~s.locked /\ ~idle /\ s.current

Matches(p) ==
  /\ p.proto \in {ANY, packet.proto}
  /\ \/ "single" \in p.type /\ p.lower \in {ANY, packet.port}
     \/ "range" \in p.type /\ p.lower <= packet.port /\ packet.port <= p.upper

\* ParseRules fills the array from the front.
Routes(Rules) ==
  {a \in [1..MaxPolicies -> Rules \cup {StopPolicy}] :
     \A m, n \in 1..MaxPolicies : m < n /\ a[m] = StopPolicy => a[n] = StopPolicy}

InitWith(Rules) ==
  /\ policies \in Routes(Rules)
  /\ packet \in Packet
  /\ known \in BOOLEAN
  /\ session \in Session
  /\ idle \in BOOLEAN
  /\ i = 0
  /\ decision = FALSE
  /\ verdict = "looking"
  /\ seen = {SessionGood(session)}

AllRules ==
  {p \in Policy : p.type \in RuleTypes /\ ("range" \in p.type => p.lower <= p.upper)}

Init == InitWith(AllRules)

-----------------------------------------------------------------------------

Looking == verdict = "looking" /\ i \in 1..MaxPolicies

Decide(v) ==
  /\ verdict' = v
  /\ UNCHANGED <<given, session, i, decision, seen>>

\* The device is the source of the packet or else its destination.
Lookup ==
  /\ verdict = "looking"
  /\ i = 0
  /\ IF known THEN i' = 1 /\ UNCHANGED verdict
     ELSE verdict' = "drop" /\ UNCHANGED i
  /\ UNCHANGED <<given, session, decision, seen>>

Verdict(pass) == IF pass THEN "pass" ELSE "drop"

\* Mistake: the stop policy drops the packet.
StopDropping ==
  /\ Looking
  /\ policies[i].type = STOP
  /\ Decide("drop")

\* The end of the rules.
Stop ==
  /\ Looking
  /\ policies[i].type = STOP
  /\ Decide(Verdict(decision))

\* The end of the array, whatever was decided so far.
EndOfArray ==
  /\ verdict = "looking"
  /\ i = MaxPolicies + 1
  /\ Decide("drop")

\* Mistake: the index is advanced twice.
SkipTwo ==
  /\ Looking
  /\ policies[i].type # STOP
  /\ ~Matches(policies[i])
  /\ i' = i + 2
  /\ UNCHANGED <<given, session, decision, verdict, seen>>

\* Mistake: the index is not advanced.
SkipNone ==
  /\ Looking
  /\ policies[i].type # STOP
  /\ ~Matches(policies[i])
  /\ UNCHANGED vars

Skip ==
  /\ Looking
  /\ policies[i].type # STOP
  /\ ~Matches(policies[i])
  /\ i' = i + 1
  /\ UNCHANGED <<given, session, decision, verdict, seen>>

Hit == Looking /\ policies[i].type # STOP /\ Matches(policies[i])

MatchDeny ==
  /\ Hit
  /\ "deny" \in policies[i].type
  /\ Decide("drop")

\* Mistake: the first public policy lets the packet pass.
MatchPublicAtOnce ==
  /\ Hit
  /\ "deny" \notin policies[i].type
  /\ "public" \in policies[i].type
  /\ Decide("pass")

MatchPublic ==
  /\ Hit
  /\ "deny" \notin policies[i].type
  /\ "public" \in policies[i].type
  /\ decision' = TRUE
  /\ i' = i + 1
  /\ UNCHANGED <<given, session, verdict, seen>>

MatchMfa ==
  /\ Hit
  /\ policies[i].type \cap {"deny", "public"} = {}
  /\ decision' = SessionGood(session)
  /\ IF SessionGood(session)
     THEN i' = i + 1 /\ UNCHANGED verdict
     ELSE verdict' = "drop" /\ UNCHANGED i
  /\ UNCHANGED <<given, session, seen>>

\* SetAuthorized, Deauthenticate, SetLockAccount or UpdateNodeAssociation, or
\* the session's lifetime ends.
RouterWrites ==
  /\ verdict = "looking"
  /\ session' \in Session
  /\ seen' = seen \cup {SessionGood(session')}
  /\ UNCHANGED <<given, i, decision, verdict>>

Turn == Lookup \/ Stop \/ EndOfArray \/ Skip \/ MatchDeny \/ MatchPublic \/ MatchMfa

Next == Turn \/ RouterWrites

Spec == Init /\ [][Next]_vars

FairSpec == Spec /\ WF_vars(Turn)

-----------------------------------------------------------------------------
(***************************************************************************)
(* Properties.                                                             *)
(***************************************************************************)

TypeOK ==
  /\ policies \in [1..MaxPolicies -> Policy]
  /\ packet \in Packet
  /\ known \in BOOLEAN
  /\ session \in Session
  /\ idle \in BOOLEAN
  /\ i \in 0..(MaxPolicies + 1)
  /\ decision \in BOOLEAN
  /\ verdict \in {"looking", "pass", "drop"}
  /\ seen \in SUBSET BOOLEAN

Hits == {n \in 1..MaxPolicies : policies[n].type # STOP /\ Matches(policies[n])}
Denying == {n \in Hits : "deny" \in policies[n].type}
Public == {n \in Hits : policies[n].type \cap {"deny", "public"} = {"public"}}
Restricted == Hits \ (Denying \cup Public)

\* What the rules of a route mean together, whatever their order, by the comments
\* of conntrack (xdp.c:579-590): "Deny rules take precedence over everything",
\* "MFA restrictions take precedence over public rules", and without a matching
\* rule nothing passes.  good says of a session whether it counts as authorised,
\* which takes that the device is associated with this node; a public rule asks
\* for neither.  The diagram at the head of xdp.c (lines 91 to 112) has it
\* otherwise, and drops all packets of a device of another node first.
Permitted(good) ==
  /\ known
  /\ Hits # {}
  /\ Denying = {}
  /\ Restricted # {} => good

\* The loop stops at the first rule that settles the matter, and the router
\* writes between its turns.  What passes is what the rules together permit,
\* for a session that was good at some time while it was looked at.
PassJustified == verdict = "pass" => Permitted(TRUE \in seen)

\* The last policy of the array says stop.
Terminated == policies[MaxPolicies].type = STOP

\* What is dropped is what the rules together do not permit, for a session
\* that was not good at some time.  With PassJustified: a packet whose device
\* the router leaves alone passes exactly when the rules permit it.
DropJustified == verdict = "drop" /\ Terminated => ~Permitted(FALSE \notin seen)

\* The same of every route: ParseRules accepts one with MaxPolicies rules, and
\* no stop policy.
DropJustifiedWhenFull == verdict = "drop" => ~Permitted(FALSE \notin seen)

\* The program never keeps a packet: the array bounds the loop.
PacketDecided == <>(verdict # "looking")
=============================================================================
