-------------------------------- MODULE MCNode --------------------------------
(***************************************************************************)
(* A node with the websockets Serving, and all the websockets by           *)
(* themselves, since those of one address disturb each other and not the   *)
(* rest of the node.                                                       *)
(***************************************************************************)
EXTENDS NodeState

CONSTANT Serving    \* bound: requests of WS in a whole node

VARIABLE part

\* The websockets by themselves are those of a node that serves.
MCInit ==
  \/ part = "node" /\ InitNode
  \/ /\ part = "websockets"
     /\ InitChallenger
     /\ cluster = [alive |-> TRUE, learner |-> FALSE] /\ witness = FALSE
     /\ up = Services /\ watchers = 1 /\ wasDead = FALSE
     /\ reports = [k \in Kinds |-> 0] /\ handler = "none"
     /\ failing = FALSE /\ stopped = FALSE

MCNext ==
  /\ UNCHANGED part
  /\ \/ /\ part = "node"
        /\ NextNode
        /\ \A h \in Handlers \ Serving : UNCHANGED socket[h]
     \/ /\ part = "websockets"
        /\ NextChallenger
        /\ UNCHANGED node

MCSpec ==
  /\ MCInit
  /\ [][MCNext]_<<part, node, challenger>>
  /\ part = "node" => NodeFairness
  /\ ChallengerFairness
=============================================================================
