------------------------------ MODULE NodeProofs ------------------------------
(***************************************************************************)
(* What runs on a node beside the handlers: its services, which follow the *)
(* health of the cluster, and the program the kernel runs on each packet.  *)
(*                                                                         *)
(* For any number of websockets, reports and endpoint watchers: whenever   *)
(* no report is being handled and no error is on its way, what a node      *)
(* serves is what clusterState remembers of it.                            *)
(*                                                                         *)
(* For every size of the array, every route and every write of the router  *)
(* in between, the loop of the XDP program decides what the rules of the   *)
(* route mean together, for the session as it was meanwhile.               *)
(***************************************************************************)
EXTENDS NodeState, XdpFirewall, TLAPS

(* How far a call of clusterState has come says what is served meanwhile.  *)
(* It matters only until an error is sent, for that ends in Run.           *)
Progress ==
  ~stopped /\ ~failing =>
    /\ handler # "failed"
    /\ handler \in {"cancel", "remove"} => ~wasDead /\ ~witness /\ Loud \subseteq up
    /\ handler = "close" => ~wasDead /\ ~witness
    /\ handler = "setup" => wasDead /\ ~witness /\ up = {}
    /\ handler = "control" => wasDead /\ ~witness /\ "device" \in up /\ watchers > 0
    /\ handler = "web" => wasDead /\ ~witness /\ "device" \in up /\ watchers > 0
    /\ handler = "ui" =>
         wasDead /\ ~witness /\ {"device", "public"} \subseteq up /\ watchers > 0
    /\ handler = "announce" =>
         wasDead /\ (IF witness THEN up = {} ELSE Loud \subseteq up /\ watchers > 0)

IInv == NodeTypeOK /\ NodeAsRemembered /\ Progress

-----------------------------------------------------------------------------
(***************************************************************************)
(* The websockets.                                                         *)
(***************************************************************************)

\* The steps of a handler, as one set.
SocketType == [step: {"idle", "open", "challenge", "wait", "leave"}, closed: BOOLEAN]

\* Closing connections leaves handlers what they are.
LEMMA CloseType ==
  ASSUME ChallengerTypeOK, NEW hs
  PROVE  Close(hs) \in [Handlers -> SocketType]
BY DEF ChallengerTypeOK, Close, SocketType

\* Moving one handler on leaves handlers what they are.
LEMMA StepType ==
  ASSUME NEW sockets \in [Handlers -> SocketType], NEW h \in Handlers,
         NEW step \in {"idle", "open", "challenge", "wait", "leave"}
  PROVE  [sockets EXCEPT ![h].step = step] \in [Handlers -> SocketType]
BY DEF SocketType

\* The end of a challenge.
LEMMA ConcludedType ==
  ASSUME ChallengerTypeOK, NEW c \in Challengers,
         NEW sockets \in [Handlers -> SocketType],
         NEW step \in {"wait", "leave"}, Concluded(c, sockets, step)
  PROVE  ChallengerTypeOK'
<1>1. socket' \in [Handlers -> SocketType]
  BY StepType DEF Concluded
<1> QED
  BY <1>1 DEF Concluded, ChallengerTypeOK, SocketType

\* Every step of the challenger keeps its types.
LEMMA ChallengerType ==
  ASSUME ChallengerTypeOK, NextChallenger
  PROVE  ChallengerTypeOK'
<1>1. socket \in [Handlers -> SocketType]
  BY DEF ChallengerTypeOK, SocketType
<1>2. ASSUME NEW h \in Handlers, SocketStep(h)
      PROVE  ChallengerTypeOK'
  <2>1. CASE Upgrade(h)
    <3>1. socket' \in [Handlers -> SocketType]
      BY <1>1, <2>1, StepType DEF Upgrade
    <3> QED
      BY <2>1, <3>1 DEF Upgrade, ChallengerTypeOK, SocketType
  <2>2. CASE Connect(h)
    <3>1. socket' \in [Handlers -> SocketType]
      BY <2>2, CloseType, StepType DEF Connect
    <3> QED
      BY <2>2, <3>1 DEF Connect, ChallengerTypeOK, SocketType
  <2>3. CASE Unconnected(h) \/ Await(h)
    <3>1. socket' = [socket EXCEPT ![h].step = "leave"]
      BY <2>3 DEF Unconnected, Await
    <3>2. socket' \in [Handlers -> SocketType]
      BY <1>1, <3>1, StepType
    <3> QED
      BY <2>3, <3>2 DEF Unconnected, Await, ChallengerTypeOK, SocketType
  <2>4. CASE Leave(h)
    <3>1. socket' \in [Handlers -> SocketType]
      BY <1>1, <2>4 DEF Leave, NoHandler, SocketType
    <3> QED
      BY <2>4, <3>1 DEF Leave, ChallengerTypeOK, SocketType
  <2> QED
    BY <1>2, <2>1, <2>2, <2>3, <2>4 DEF SocketStep
<1>3. ASSUME NEW c \in Challengers, Challenge(c)
      PROVE  ChallengerTypeOK'
  BY <1>3 DEF Challenge, ChallengerTypeOK
<1>4. ASSUME NEW c \in Challengers, Answer(c)
      PROVE  ChallengerTypeOK'
  <2>1. PICK step \in {"wait", "leave"} : Concluded(c, socket, step)
    BY <1>4 DEF Answer
  <2> QED
    BY <1>1, <2>1, ConcludedType
<1>5. ASSUME NEW c \in Challengers, NoAnswer(c)
      PROVE  ChallengerTypeOK'
  BY <1>5, CloseType, ConcludedType DEF NoAnswer
<1> QED
  BY <1>2, <1>3, <1>4, <1>5 DEF NextChallenger

-----------------------------------------------------------------------------
(***************************************************************************)
(* The node.                                                               *)
(***************************************************************************)

\* A node begins with nothing served and nothing reported.
LEMMA InitInv == InitNode => IInv
<1> SUFFICES ASSUME InitNode
             PROVE  IInv
  OBVIOUS
<1>1. ChallengerTypeOK
  BY DEF InitNode, InitChallenger, NoHandler, ChallengerTypeOK
<1>2. reports \in [Kinds -> 0..MaxReports] /\ watchers \in 0..MaxWatchers
  BY NodeAssumption DEF InitNode
<1> QED
  BY <1>1, <1>2
  DEF InitNode, IInv, NodeTypeOK, NodeAsRemembered, Progress, Services, Loud, Quiet

\* The cluster, its monitors and a signal change nothing the node serves.
LEMMA OutsideInv ==
  ASSUME IInv, ClusterChanges \/ LeaderMonitor \/ ClusterMonitor \/ Signal
  PROVE  IInv'
<1> USE DEF IInv, NodeTypeOK, NodeAsRemembered, Progress
<1>1. CASE ClusterChanges
  BY ZenonT(60), <1>1 DEF ClusterChanges, challenger, ChallengerTypeOK
<1>2. ASSUME NEW kind \in Kinds, Report(kind)
      PROVE  IInv'
  <2>1. reports' \in [Kinds -> 0..MaxReports]
    BY <1>2, NodeAssumption DEF Report
  <2> QED
    BY <1>2, <2>1 DEF Report, challenger, ChallengerTypeOK
<1>3. CASE LeaderMonitor
  BY <1>2, <1>3 DEF LeaderMonitor, Kinds
<1>4. CASE ClusterMonitor
  BY <1>2, <1>4 DEF ClusterMonitor, Kinds
<1>5. CASE Signal
  BY <1>5 DEF Signal, challenger, ChallengerTypeOK
<1> QED
  BY <1>1, <1>3, <1>4, <1>5

\* A report is taken only when none is being handled: what the node serves is
\* then what wasDead says.
LEMMA TakeReportInv ==
  ASSUME IInv, NEW kind \in Kinds, TakeReport(kind)
  PROVE  IInv'
<1>1. reports' \in [Kinds -> 0..MaxReports]
  BY NodeAssumption DEF TakeReport, IInv, NodeTypeOK
<1>2. NodeTypeOK'
  BY <1>1 DEF TakeReport, IInv, NodeTypeOK, challenger, ChallengerTypeOK
<1>3. NodeAsRemembered' /\ Progress'
  BY DEF TakeReport, IInv, NodeTypeOK, NodeAsRemembered, Progress
<1> QED
  BY <1>2, <1>3 DEF IInv

\* The calls of clusterState, one after the other.
LEMMA HandlerInv ==
  ASSUME IInv, HandlerStep
  PROVE  IInv'
<1> USE DEF IInv, NodeTypeOK, NodeAsRemembered, Progress
<1>1. CASE Cancel
  <2>1. ChallengerTypeOK' /\ watchers' \in 0..MaxWatchers
    <3>1. CASE WatcherReceives /\ watchers' = watchers - 1 /\ UNCHANGED challenger
      BY <3>1, NodeAssumption DEF WatcherReceives, challenger, ChallengerTypeOK
    <3>2. ASSUME NEW h \in Handlers,
                 socket' = [socket EXCEPT ![h].step = "leave"],
                 UNCHANGED <<connection, asking, watchers>>
          PROVE  ChallengerTypeOK' /\ watchers' \in 0..MaxWatchers
      <4>1. socket' \in [Handlers -> SocketType]
        BY <3>2, StepType DEF ChallengerTypeOK, SocketType
      <4> QED
        BY <3>2, <4>1 DEF ChallengerTypeOK, SocketType
    <3> QED
      BY <1>1, <3>1, <3>2 DEF Cancel
  <2> QED
    BY <1>1, <2>1 DEF Cancel
<1>2. CASE RemoveDevice
  BY <1>2 DEF RemoveDevice, challenger, ChallengerTypeOK, Services
<1>3. CASE CloseServers
  BY <1>3 DEF CloseServers, challenger, ChallengerTypeOK, Services
<1>4. CASE SetupRouter
  <2>1. watchers' \in 0..MaxWatchers /\ watchers' > 0
    BY <1>4, NodeAssumption DEF SetupRouter
  <2> QED
    BY <1>4, <2>1 DEF SetupRouter, challenger, ChallengerTypeOK, Services, Following
<1>5. CASE StartServer
  <2>1. /\ DOMAIN Following = {"control", "web", "ui"}
        /\ Following["control"] = "web" /\ Opened["control"] = {"control"}
        /\ Following["web"] = "ui" /\ Opened["web"] = {"public", "tunnel"}
        /\ Following["ui"] = "announce" /\ Opened["ui"] = {"ui"}
    BY DEF Following, Opened
  <2>2. UNCHANGED <<cluster, witness, reports, wasDead, watchers, failing, stopped>>
        /\ ChallengerTypeOK'
    BY <1>5 DEF StartServer, challenger, ChallengerTypeOK
  <2>3. /\ handler' = Following[handler] /\ up' = up \cup Opened[handler]
        /\ handler \in {"control", "web", "ui"} /\ ~stopped
    BY <1>5, <2>1 DEF StartServer
  <2>4. up' \subseteq Services /\ handler' \in {"web", "ui", "announce"}
    BY <2>1, <2>3 DEF Services
  <2>5. NodeTypeOK'
    BY <2>1, <2>2, <2>4
  <2>6. Loud = {"device", "public", "ui"}
    BY DEF Loud, Quiet, Services
  <2>7. NodeAsRemembered'
    BY <2>4
  <2>8. Progress'
    <3>1. ASSUME ~failing'
          PROVE  /\ wasDead /\ ~witness /\ watchers > 0 /\ "device" \in up
                 /\ handler = "ui" => {"device", "public"} \subseteq up
      BY <2>2, <2>3, <3>1
    <3>2. CASE handler = "control"
      BY <2>1, <2>2, <2>3, <3>1, <3>2
    <3>3. CASE handler = "web"
      BY <2>1, <2>2, <2>3, <3>1, <3>3
    <3>4. CASE handler = "ui"
      BY <2>1, <2>2, <2>3, <2>6, <3>1, <3>4
    <3> QED
      BY <2>3, <3>2, <3>3, <3>4
  <2> QED
    BY <2>5, <2>7, <2>8
<1>6. CASE Announce
  BY <1>6 DEF Announce, challenger, ChallengerTypeOK
<1>7. CASE FailToStart
  BY <1>7 DEF FailToStart, challenger, ChallengerTypeOK
<1> QED
  BY <1>1, <1>2, <1>3, <1>4, <1>5, <1>6, <1>7 DEF HandlerStep

\* An error that is sent leaves nothing to show until Run has returned.
LEMMA ErrorInv ==
  ASSUME IInv, WatcherFails \/ Run
  PROVE  IInv'
<1> USE DEF IInv, NodeTypeOK, NodeAsRemembered, Progress
<1>1. CASE WatcherFails
  <2>1. watchers' \in 0..MaxWatchers
    BY <1>1, NodeAssumption DEF WatcherFails
  <2> QED
    BY <1>1, <2>1 DEF WatcherFails, challenger, ChallengerTypeOK
<1>2. CASE Run
  <2>1. reports' \in [Kinds -> 0..MaxReports] /\ watchers' \in 0..MaxWatchers
    BY <1>2, NodeAssumption DEF Run
  <2>2. ChallengerTypeOK'
    BY <1>2 DEF Run, ChallengerTypeOK, NoHandler
  <2> QED
    BY <1>2, <2>1, <2>2 DEF Run, Services
<1> QED
  BY <1>1, <1>2

\* A listener that ends is one nobody is told of, or an error is sent.
LEMMA ListenerInv ==
  ASSUME IInv, NEW s \in Services \ {"device"}, ListenerFails(s)
  PROVE  IInv'
<1>1. NodeTypeOK'
  BY DEF ListenerFails, IInv, NodeTypeOK, challenger, ChallengerTypeOK
<1>2. ASSUME ~stopped', ~failing' PROVE s \notin Loud /\ s \notin {"device", "public"}
  BY <1>2 DEF ListenerFails, Loud, Quiet, Services
<1>3. NodeAsRemembered'
  BY <1>2 DEF ListenerFails, IInv, NodeAsRemembered
<1>4. Progress'
  BY <1>2 DEF ListenerFails, IInv, Progress
<1> QED
  BY <1>1, <1>3, <1>4 DEF IInv

\* The websockets change nothing of the node.
LEMMA SocketsInv ==
  ASSUME IInv, Sockets
  PROVE  IInv'
<1>1. ChallengerTypeOK'
  BY ChallengerType DEF Sockets, IInv, NodeTypeOK
<1> QED
  BY <1>1 DEF Sockets, node, IInv, NodeTypeOK, NodeAsRemembered, Progress

\* IInv is inductive.
LEMMA StepInv ==
  ASSUME IInv, [NextNode]_<<node, challenger>>
  PROVE  IInv'
<1>1. CASE UNCHANGED <<node, challenger>>
  BY <1>1 DEF node, challenger, IInv, NodeTypeOK, ChallengerTypeOK, NodeAsRemembered, Progress
<1> QED
  BY <1>1, OutsideInv, TakeReportInv, HandlerInv, ErrorInv, ListenerInv, SocketsInv
  DEF NextNode

-----------------------------------------------------------------------------
\* Whatever is reported, fails and reconnects, in any order, the variables of
\* clusterState, of the router's Setup and of the challenger keep their types.
THEOREM NodeTypeTheorem == SpecNode => []NodeTypeOK
<1>1. IInv => NodeTypeOK
  BY DEF IInv
<1> QED
  BY <1>1, InitInv, StepInv, PTL DEF SpecNode

\* What clusterState remembers in wasDead is so between two reports, unless an
\* error is on its way to Run: a node that is not torn down serves all whose end
\* is reported, and has a watcher for the next teardown to stop; a witness, or a
\* node torn down, serves nothing.
THEOREM NodeTheorem == SpecNode => []NodeAsRemembered
<1>1. IInv => NodeAsRemembered
  BY DEF IInv
<1> QED
  BY <1>1, InitInv, StepInv, PTL DEF SpecNode

-----------------------------------------------------------------------------
(***************************************************************************)
(* The XDP program.  Neither property of it is inductive: the verdict is   *)
(* reached at the end, from what the loop has seen on the way.  LoopInv    *)
(* says what that is, Filled that nothing matches behind the first stop    *)
(* policy.                                                                 *)
(***************************************************************************)

\* Behind a stop policy there are only stop policies.
Filled ==
  \A m, n \in 1..MaxPolicies :
    m < n /\ policies[m].type = STOP => policies[n].type = STOP

WasGood == TRUE \in seen
WasBad == FALSE \in seen

\* What the loop has established when it looks at policy i.
LoopInv ==
  /\ SessionGood(session) => WasGood
  /\ ~SessionGood(session) => WasBad
  /\ verdict = "looking" =>
       /\ i >= 1 => known
       /\ \A n \in 1..(i - 1) :
            /\ policies[n].type # STOP
            /\ n \notin Denying
            /\ n \in Restricted => WasGood
       /\ decision <=> \E n \in 1..(i - 1) : n \in Hits

LoopIInv == TypeOK /\ Filled /\ LoopInv /\ PassJustified /\ DropJustified

\* A route as ParseRules fills it, and a packet that has just come.
LEMMA LoopInit == Init => LoopIInv
<1> SUFFICES ASSUME Init PROVE LoopIInv
  OBVIOUS
<1> USE XdpAssumption
<1>1. AllRules \cup {StopPolicy} \subseteq Policy
  BY DEF AllRules, StopPolicy, Policy, STOP, ANY
<1>2. TypeOK
  <2>1. policies \in [1..MaxPolicies -> Policy]
    BY <1>1 DEF Init, InitWith, Routes
  <2>2. seen \in SUBSET BOOLEAN
    BY DEF Init, InitWith, SessionGood
  <2>3. i \in 0..(MaxPolicies + 1)
    BY DEF Init, InitWith
  <2>4. verdict = "looking" /\ decision \in BOOLEAN /\ packet \in Packet
        /\ known \in BOOLEAN /\ session \in Session /\ idle \in BOOLEAN
    BY DEF Init, InitWith
  <2> QED
    BY <2>1, <2>2, <2>3, <2>4 DEF TypeOK
<1>3. \A p \in AllRules : p.type # STOP
  BY DEF AllRules, RuleTypes, STOP
<1>4. Filled
  BY <1>3 DEF Filled, Init, InitWith, Routes, StopPolicy
<1>5. LoopInv /\ PassJustified /\ DropJustified
  <2>1. SessionGood(session) => WasGood
    BY DEF Init, InitWith, WasGood, SessionGood
  <2>2. ~SessionGood(session) => WasBad
    BY DEF Init, InitWith, WasBad, SessionGood
  <2> QED
    BY <2>1, <2>2 DEF LoopInv, PassJustified, DropJustified, Init, InitWith
<1> QED
  BY <1>2, <1>4, <1>5 DEF LoopIInv

\* No step of the loop or of the router changes the route.
LEMMA FilledStep == Filled /\ [Next]_vars => Filled'
<1> SUFFICES ASSUME Filled, [Next]_vars PROVE Filled'
  OBVIOUS
<1>1. policies' = policies
  BY DEF vars, given, Next, Turn, RouterWrites, Lookup, Stop, EndOfArray, Skip, MatchDeny,
         MatchPublic, MatchMfa, Decide
<1> QED
  BY <1>1 DEF Filled

\* Every step keeps the types; the index ends at MaxPolicies + 1.
LEMMA XdpTypeStep == TypeOK /\ [Next]_vars => TypeOK'
<1> SUFFICES ASSUME TypeOK, [Next]_vars PROVE TypeOK'
  OBVIOUS
<1> USE XdpAssumption
<1>1. CASE [Turn]_vars
  <2>1. UNCHANGED <<given, session, seen>>
    BY <1>1 DEF vars, given, Turn, Lookup, Stop, EndOfArray, Skip, MatchDeny, MatchPublic,
           MatchMfa, Decide
  <2>2. i' \in 0..(MaxPolicies + 1)
    BY <1>1 DEF TypeOK, vars, Turn, Looking, Hit, Lookup, Stop, EndOfArray, Skip,
           MatchDeny, MatchPublic, MatchMfa, Decide
  <2>3. decision' \in BOOLEAN
    <3>1. SessionGood(session) \in BOOLEAN
      BY DEF SessionGood
    <3> QED
      BY <1>1, <3>1 DEF TypeOK, vars, Turn, Lookup, Stop, EndOfArray, Skip, MatchDeny,
             MatchPublic, MatchMfa, Decide
  <2>4. verdict' \in {"looking", "pass", "drop"}
    BY <1>1 DEF TypeOK, vars, Turn, Lookup, Stop, EndOfArray, Skip, MatchDeny,
           MatchPublic, MatchMfa, Decide, Verdict
  <2> QED
    BY <2>1, <2>2, <2>3, <2>4 DEF TypeOK, given
<1>2. CASE RouterWrites
  <2>1. seen' \in SUBSET BOOLEAN
    BY <1>2 DEF RouterWrites, SessionGood, TypeOK
  <2> QED
    BY <1>2, <2>1 DEF RouterWrites, TypeOK, given
<1> QED
  BY <1>1, <1>2 DEF Next

\* Every turn of the loop, and every write of the router, keeps the invariant.
LEMMA LoopStep == LoopIInv /\ [Next]_vars => LoopIInv'
<1> SUFFICES ASSUME LoopIInv, [Next]_vars PROVE LoopIInv'
  OBVIOUS
<1> USE XdpAssumption DEF LoopIInv
<1>1. Filled' /\ TypeOK'
  BY FilledStep, XdpTypeStep
<1>2. CASE UNCHANGED vars
  BY ZenonT(60), <1>1, <1>2 DEF vars, LoopInv, PassJustified, DropJustified, Terminated, Permitted, Hits,
     Denying, Public, Restricted, Matches, SessionGood, WasGood, WasBad
<1>3. /\ Hits' = Hits /\ Denying' = Denying /\ Restricted' = Restricted
      /\ Terminated' = Terminated /\ policies' = policies /\ known' = known
  BY DEF vars, given, Next, Turn, RouterWrites, Lookup, Stop, EndOfArray, Skip, MatchDeny,
     MatchPublic, MatchMfa, Decide, Hits, Denying, Public, Restricted, Matches, Terminated
<1>4. CASE RouterWrites
  <2>1. /\ SessionGood(session)' => WasGood'
        /\ ~SessionGood(session)' => WasBad'
        /\ WasGood => WasGood'
    BY <1>4 DEF RouterWrites, SessionGood, given, WasGood, WasBad
  <2>2. UNCHANGED <<i, decision, verdict>> /\ verdict = "looking"
    BY <1>4 DEF RouterWrites
  <2> QED
    BY <1>1, <1>3, <2>1, <2>2 DEF LoopInv, PassJustified, DropJustified
<1> DEFINE Same ==
      /\ SessionGood(session)' <=> SessionGood(session)
      /\ WasGood' <=> WasGood
      /\ WasBad' <=> WasBad
<1>5. ASSUME Turn PROVE Same
  <2>1. UNCHANGED <<session, idle, seen>>
    BY <1>5 DEF given, Turn, Lookup, Stop, EndOfArray, Skip, MatchDeny, MatchPublic, MatchMfa,
       Decide
  <2> QED
    BY <2>1 DEF SessionGood, WasGood, WasBad
<1>7. CASE Lookup
  <2>1. Same
    BY <1>5, <1>7 DEF Turn
  <2>2. CASE known
    <3>1. i = 0 /\ i' = 1 /\ verdict' = "looking" /\ verdict = "looking" /\ decision' = decision
      BY <1>7, <2>2 DEF Lookup
    <3>2. ~decision
      BY <3>1 DEF LoopInv
    <3> QED
      BY <1>1, <1>3, <2>1, <2>2, <3>1, <3>2 DEF LoopInv, PassJustified, DropJustified, TypeOK
  <2>3. CASE ~known
    <3>1. verdict' = "drop" /\ ~known'
      BY <1>7, <2>3 DEF Lookup, given
    <3> QED
      BY <1>1, <2>1, <3>1 DEF LoopInv, PassJustified, DropJustified, Permitted
  <2> QED
    BY <2>2, <2>3
<1>8. CASE Stop
  <2>1. Same
    BY <1>5, <1>8 DEF Turn
  <2>2. \A n \in i..MaxPolicies : n \notin Hits
    BY <1>8 DEF Stop, Looking, Filled, Hits
  <2>3. known /\ Denying = {} /\ (Restricted # {} => WasGood) /\ (decision <=> Hits # {})
    BY <1>8, <2>2 DEF Stop, Looking, LoopInv, Hits, Denying, Public, Restricted
  <2>4. verdict' = IF decision THEN "pass" ELSE "drop"
    BY <1>8 DEF Stop, Decide, Verdict
  <2>5. PassJustified'
    BY <1>3, <2>1, <2>3, <2>4 DEF PassJustified, Permitted, WasGood
  <2>6. DropJustified'
    BY <1>3, <2>3, <2>4 DEF DropJustified, Permitted
  <2> QED
    BY <1>1, <2>1, <2>4, <2>5, <2>6 DEF LoopInv
<1>9. CASE EndOfArray
  <2>1. Same /\ verdict' = "drop"
    BY <1>5, <1>9 DEF Turn, EndOfArray, Decide
  <2>2. ~Terminated
    BY <1>9 DEF EndOfArray, LoopInv, Terminated
  <2> QED
    BY <1>1, <1>3, <2>1, <2>2 DEF LoopInv, PassJustified, DropJustified
<1>10. CASE Skip
  <2>1. Same
    BY <1>5, <1>10 DEF Turn
  <2>2. /\ i \in 1..MaxPolicies /\ policies[i].type # STOP /\ i' = i + 1
        /\ verdict' = "looking" /\ verdict = "looking" /\ decision' = decision
    BY <1>10 DEF Skip, Looking
  <2>3. i \notin Hits /\ i \notin Denying /\ i \notin Restricted
    BY <1>10 DEF Skip, Hits, Denying, Restricted
  <2>4. LoopInv'
    BY <1>3, <2>1, <2>2, <2>3 DEF LoopInv
  <2> QED
    BY <1>1, <2>2, <2>4 DEF PassJustified, DropJustified
<1>11. CASE MatchDeny
  <2>1. Same /\ verdict' = "drop"
    BY <1>5, <1>11 DEF Turn, MatchDeny, Decide
  <2>2. Denying # {}
    BY <1>11 DEF MatchDeny, Hit, Looking, Denying, Hits
  <2> QED
    BY <1>1, <1>3, <2>1, <2>2 DEF LoopInv, PassJustified, DropJustified, Permitted
<1>12. CASE MatchPublic
  <2>1. Same
    BY <1>5, <1>12 DEF Turn
  <2>2. /\ i \in Hits /\ i \in 1..MaxPolicies /\ policies[i].type # STOP /\ i' = i + 1
        /\ verdict' = "looking" /\ verdict = "looking" /\ decision'
    BY <1>12 DEF MatchPublic, Hit, Looking, Hits
  <2>3. i \notin Denying /\ i \notin Restricted
    BY <1>12, <2>2 DEF MatchPublic, Denying, Restricted, Public
  <2>4. LoopInv'
    BY <1>3, <2>1, <2>2, <2>3 DEF LoopInv
  <2> QED
    BY <1>1, <2>2, <2>4 DEF PassJustified, DropJustified
<1>13. CASE MatchMfa
  <2>1. Same
    BY <1>5, <1>13 DEF Turn
  <2>2. /\ i \in Hits /\ i \in 1..MaxPolicies /\ policies[i].type # STOP
        /\ i \notin Denying /\ i \in Restricted /\ verdict = "looking"
    BY <1>13 DEF MatchMfa, Hit, Looking, Hits, Denying, Restricted, Public
  <2>3. CASE SessionGood(session)
    <3>1. i' = i + 1 /\ verdict' = "looking" /\ decision'
      BY <1>13, <2>2, <2>3 DEF MatchMfa
    <3>2. WasGood
      BY <2>3 DEF LoopInv
    <3>3. LoopInv'
      BY <1>3, <2>1, <2>2, <3>1, <3>2 DEF LoopInv
    <3> QED
      BY <1>1, <3>1, <3>3 DEF PassJustified, DropJustified
  <2>4. CASE ~SessionGood(session)
    <3>1. verdict' = "drop"
      BY <1>13, <2>4 DEF MatchMfa
    <3>2. WasBad'
      BY <2>1, <2>4 DEF LoopInv
    <3>3. Restricted' # {}
      BY <1>3, <2>2
    <3> QED
      BY <1>1, <2>1, <3>1, <3>2, <3>3 DEF LoopInv, PassJustified, DropJustified, Permitted,
           WasBad
  <2> QED
    BY <2>3, <2>4
<1> QED
  BY <1>2, <1>4, <1>7, <1>8, <1>9, <1>10, <1>11, <1>12, <1>13 DEF Next, Turn

\* Whatever the router writes between two turns of the loop of conntrack, the
\* rules, the packet and the history keep their types, and the loop is never
\* more than one rule past the end of the array.
THEOREM XdpTypeTheorem == Spec => []TypeOK
<1>1. LoopIInv => TypeOK
  BY DEF LoopIInv
<1> QED
  BY LoopInit, LoopStep, <1>1, PTL DEF Spec

\* Whatever the router writes while the loop of conntrack runs, a packet passes
\* only if the rules of the route together permit it, for a session that was
\* good at some time while the program looked at the packet.
THEOREM PassTheorem == Spec => []PassJustified
<1>1. LoopIInv => PassJustified
  BY DEF LoopIInv
<1> QED
  BY LoopInit, LoopStep, <1>1, PTL DEF Spec

\* The loop drops nothing the rules together permit, if the route ends in a
\* stop policy and the session was good all the time.
THEOREM DropTheorem == Spec => []DropJustified
<1>1. LoopIInv => DropJustified
  BY DEF LoopIInv
<1> QED
  BY LoopInit, LoopStep, <1>1, PTL DEF Spec
=============================================================================
