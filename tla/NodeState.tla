------------------------------ MODULE NodeState ------------------------------
(***************************************************************************)
(* What one node serves, and how it follows the health of the cluster:     *)
(* Run, clusterState and teardown of commands/start.go, checkClusterHealth *)
(* of internal/data/events.go, Setup and TearDown of internal/router, the  *)
(* Start and Teardown of the web servers, and the websockets that wait on  *)
(* the same channel as the router (Challenger).                            *)
(*                                                                         *)
(* Health is reported in a goroutine per report, and clusterState takes    *)
(* the reports one at a time, in any order.  Errors go to Run through an   *)
(* unbuffered channel: the first one ends the process, whoever sends       *)
(* another waits.                                                          *)
(***************************************************************************)
EXTENDS Integers, Challenger

CONSTANTS
  MaxReports,   \* bound: reports of one kind under way
  MaxWatchers   \* bound: endpoint watchers at work

ASSUME NodeAssumption == MaxReports \in Nat /\ MaxWatchers \in Nat

VARIABLES
  cluster,    \* alive: it has a leader and takes writes;
              \* learner: this node is one
  witness,    \* config.Values.Clustering.Witness
  reports,    \* reports not yet taken, of each kind
  handler,    \* where the call that holds clusterState's lock is
  wasDead,
  up,         \* what the node serves
  watchers,   \* endpoint watchers of Setup at work
  failing,    \* somebody sends to errorChan
  stopped     \* Run has returned

node == <<cluster, witness, reports, handler, wasDead, up, watchers, failing,
          stopped>>

Kinds == {"healthy", "dead"}

Services == {"device", "control", "public", "tunnel", "ui"}

\* Those whose end nobody is told of, and the others.
Quiet == {"control", "tunnel"}
Loud == Services \ Quiet

InitNode ==
  /\ InitChallenger
  /\ cluster \in [alive: {TRUE}, learner: BOOLEAN]
  /\ witness \in BOOLEAN
  /\ reports = [k \in Kinds |-> 0]
  /\ handler = "none"
  /\ wasDead = TRUE
  /\ up = {}
  /\ watchers = 0
  /\ failing = FALSE
  /\ stopped = FALSE

-----------------------------------------------------------------------------
(* The cluster, which is external, and the monitors of checkClusterHealth. *)
ClusterChanges ==
  /\ ~stopped
  /\ \/ cluster' = [cluster EXCEPT !.alive = ~@]
     \/ cluster' = [cluster EXCEPT !.learner = FALSE]
  /\ UNCHANGED <<witness, reports, handler, wasDead, up, watchers, failing,
                 stopped, challenger>>

Report(kind) ==
  /\ ~stopped
  /\ reports[kind] < MaxReports
  /\ reports' = [reports EXCEPT ![kind] = @ + 1]
  /\ UNCHANGED <<cluster, witness, handler, wasDead, up, watchers, failing,
                 stopped, challenger>>

(* No leader, twice in a row.                                              *)
LeaderMonitor == ~cluster.alive /\ Report("dead")

(* Every five seconds a node that is no learner writes its ping.           *)
ClusterMonitor ==
  /\ ~cluster.learner
  /\ Report(IF cluster.alive THEN "healthy" ELSE "dead")

-----------------------------------------------------------------------------
(* clusterState takes a report and the lock.  A witness has nothing to set *)
(* up or tear down.                                                        *)
TakeReport(kind) ==
  /\ ~stopped
  /\ handler = "none"
  /\ reports[kind] > 0
  /\ reports' = [reports EXCEPT ![kind] = @ - 1]
  /\ \/ /\ kind = "dead" /\ ~wasDead
        /\ handler' = IF witness THEN "none" ELSE "cancel"
        /\ wasDead' = witness
     \/ /\ kind = "healthy" /\ wasDead
        /\ handler' = IF witness THEN "announce" ELSE "setup"
        /\ UNCHANGED wasDead
     \/ /\ wasDead = (kind = "dead")
        /\ UNCHANGED <<handler, wasDead>>
  /\ UNCHANGED <<cluster, witness, up, watchers, failing, stopped, challenger>>

\* Mistake: the send does not wait for a receiver.
WatcherReceivesLater == TRUE

(* A send on an unbuffered channel waits for somebody to receive.          *)
WatcherReceives == watchers > 0

(* router.TearDown(false): somebody who waits on the channel cancel must   *)
(* receive.  That is an endpoint watcher, or a websocket.                  *)
Cancel ==
  /\ ~stopped
  /\ handler = "cancel"
  /\ \/ /\ WatcherReceives
        /\ watchers' = watchers - 1
        /\ UNCHANGED challenger
     \/ \E h \in Handlers :
          /\ socket[h].step = "wait"
          /\ socket' = [socket EXCEPT ![h].step = "leave"]
          /\ UNCHANGED <<connection, asking, watchers>>
  /\ handler' = "remove"
  /\ UNCHANGED <<cluster, witness, reports, wasDead, up, failing, stopped>>

RemoveDevice ==
  /\ ~stopped
  /\ handler = "remove"
  /\ up' = up \ {"device"}
  /\ handler' = "close"
  /\ UNCHANGED <<cluster, witness, reports, wasDead, watchers, failing,
                 stopped, challenger>>

(* The control socket and the web servers are closed.  The goroutine of    *)
(* the tunnel's server, if it still listens, takes that for a failure and  *)
(* sends an error.                                                         *)
CloseServers ==
  /\ ~stopped
  /\ handler = "close"
  /\ up' = {}
  /\ failing' = (failing \/ "tunnel" \in up)
  /\ wasDead' = TRUE
  /\ handler' = "none"
  /\ UNCHANGED <<cluster, witness, reports, watchers, stopped, challenger>>

-----------------------------------------------------------------------------
(* router.Setup starts the watcher last.                                   *)
SetupRouter ==
  /\ ~stopped
  /\ handler = "setup"
  /\ watchers < MaxWatchers
  /\ up' = up \cup {"device"}
  /\ watchers' = watchers + 1
  /\ handler' = "control"
  /\ UNCHANGED <<cluster, witness, reports, wasDead, failing, stopped, challenger>>

(* server.StartControlSocket, webserver.Start, ui.StartWebServer, and what *)
(* each of them starts goroutines to listen for.                           *)
Following == [control |-> "web", web |-> "ui", ui |-> "announce"]

Opened == [control |-> {"control"}, web |-> {"public", "tunnel"}, ui |-> {"ui"}]

StartServer ==
  /\ ~stopped
  /\ handler \in DOMAIN Following
  /\ up' = up \cup Opened[handler]
  /\ handler' = Following[handler]
  /\ UNCHANGED <<cluster, witness, reports, wasDead, watchers, failing,
                 stopped, challenger>>

(* A goroutine cannot listen, when the server is started or later.  Those  *)
(* of the public and the management server send the error; that of the     *)
(* control socket prints it, and that of the tunnel, which sends an error  *)
(* only if it is ErrServerClosed, says nothing.                            *)
ListenerFails(s) ==
  /\ ~stopped
  /\ s \in up
  /\ up' = up \ {s}
  /\ failing' = (failing \/ s \in Loud)
  /\ UNCHANGED <<cluster, witness, reports, handler, wasDead, watchers, stopped,
                 challenger>>

(* SetWitness and SetVersion, unless the node is a learner.                *)
Announce ==
  /\ ~stopped
  /\ handler = "announce"
  /\ cluster.learner \/ cluster.alive
  /\ handler' = "none"
  /\ wasDead' = FALSE
  /\ UNCHANGED <<cluster, witness, reports, up, watchers, failing, stopped,
                 challenger>>

\* Mistake: a start that failed is not reported.
FailToStartQuietly ==
  /\ ~stopped
  /\ handler \in {"setup", "announce"} \cup DOMAIN Following
  /\ handler' = "none"
  /\ UNCHANGED <<cluster, witness, reports, wasDead, up, watchers, failing, stopped,
                 challenger>>

(* Any of these fails, as they all do sooner or later without the cluster: *)
(* the error is sent with the lock held.                                   *)
FailToStart ==
  /\ ~stopped
  /\ handler \in {"setup", "announce"} \cup DOMAIN Following
  /\ handler' = "failed"
  /\ failing' = TRUE
  /\ UNCHANGED <<cluster, witness, reports, wasDead, up, watchers, stopped,
                 challenger>>

\* Mistake: an error ends the watcher without a report.
WatcherReturns ==
  /\ ~stopped
  /\ watchers > 0
  /\ "device" \notin up \/ ~cluster.alive
  /\ watchers' = watchers - 1
  /\ UNCHANGED <<cluster, witness, reports, handler, wasDead, up, failing,
                 stopped, challenger>>

(* A watcher finds the device or the cluster gone.                         *)
WatcherFails ==
  /\ ~stopped
  /\ watchers > 0
  /\ "device" \notin up \/ ~cluster.alive
  /\ watchers' = watchers - 1
  /\ failing' = TRUE
  /\ UNCHANGED <<cluster, witness, reports, handler, wasDead, up, stopped,
                 challenger>>

Signal ==
  /\ ~stopped
  /\ failing' = TRUE
  /\ UNCHANGED <<cluster, witness, reports, handler, wasDead, up, watchers, stopped,
                 challenger>>

(* Run receives an error, tears down what there is and returns.            *)
Run ==
  /\ ~stopped
  /\ failing
  /\ failing' = FALSE
  /\ stopped' = TRUE
  /\ up' = {}
  /\ watchers' = 0
  /\ handler' = "none"
  /\ reports' = [k \in Kinds |-> 0]
  /\ connection' = NoSocket
  /\ socket' = [h \in Handlers |-> NoHandler]
  /\ asking' = [c \in Challengers |-> NoSocket]
  /\ UNCHANGED <<cluster, witness, wasDead>>

-----------------------------------------------------------------------------
(* The websockets, which are opened through the tunnel's web server and    *)
(* outlive it.                                                             *)
Sockets ==
  /\ ~stopped
  /\ NextChallenger
  /\ \A h \in Handlers : socket[h].step = "idle" /\ socket'[h].step # "idle" =>
       "tunnel" \in up
  /\ UNCHANGED node

HandlerStep == \/ Cancel \/ RemoveDevice \/ CloseServers \/ SetupRouter
               \/ StartServer \/ Announce \/ FailToStart

NextNode ==
  \/ ClusterChanges \/ LeaderMonitor \/ ClusterMonitor
  \/ \E kind \in Kinds : TakeReport(kind)
  \/ HandlerStep
  \/ \E s \in Services \ {"device"} : ListenerFails(s)
  \/ WatcherFails \/ Signal \/ Run
  \/ Sockets

(* The monitors tick, goroutines run, and a mutex goes to whoever has      *)
(* waited longest.                                                         *)
NodeFairness ==
  /\ WF_<<node, challenger>>(LeaderMonitor)
  /\ WF_<<node, challenger>>(ClusterMonitor)
  /\ \A kind \in Kinds : SF_<<node, challenger>>(TakeReport(kind))
  /\ WF_<<node, challenger>>(HandlerStep)
  /\ WF_<<node, challenger>>(Run)

SpecNode ==
  /\ InitNode
  /\ [][NextNode]_<<node, challenger>>
  /\ NodeFairness
  /\ ChallengerFairness

-----------------------------------------------------------------------------
NodeTypeOK ==
  /\ ChallengerTypeOK
  /\ cluster \in [alive: BOOLEAN, learner: BOOLEAN]
  /\ witness \in BOOLEAN
  /\ reports \in [Kinds -> 0..MaxReports]
  /\ handler \in {"none", "cancel", "remove", "close", "setup", "announce", "failed"}
       \cup DOMAIN Following
  /\ wasDead \in BOOLEAN
  /\ up \subseteq Services
  /\ watchers \in 0..MaxWatchers
  /\ failing \in BOOLEAN
  /\ stopped \in BOOLEAN

(* What clusterState remembers of the node is so: unless an error is on    *)
(* its way to Run, a node that is not torn down has its device, serves the *)
(* public and the management interface, and has an endpoint watcher for    *)
(* the next teardown to stop; and a witness, or a node that is torn down,  *)
(* serves nothing.  The tunnel's web server and the control socket may     *)
(* have ended unnoticed.                                                   *)
NodeAsRemembered ==
  ~stopped /\ ~failing /\ handler = "none" =>
    IF wasDead \/ witness THEN up = {} ELSE Loud \subseteq up /\ watchers > 0

(* Whatever stale reports are still delivered, and in whatever order: when *)
(* the cluster stays healthy, a member of it that is no witness comes to   *)
(* serve for good, except for what may end unnoticed, and when the cluster *)
(* stays dead, no node goes on serving; or the process ends.  No teardown  *)
(* waits for ever for somebody to receive, and no report for the lock.     *)
ServiceFollowsHealth ==
  /\ <>[](cluster.alive /\ ~cluster.learner /\ ~witness)
       => <>[](stopped \/ Loud \subseteq up)
  /\ <>[](~cluster.alive) => <>[](up = {})
=============================================================================
