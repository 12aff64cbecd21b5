----------------------------- MODULE AtomicUpdate -----------------------------
(***************************************************************************)
(* What doSafeUpdate (internal/data/init.go) promises its callers: an      *)
(* update takes place at one moment between its call and its return.  At   *)
(* that moment it either replaces the record by what the mutate function   *)
(* makes of it, or is refused.                                             *)
(***************************************************************************)
CONSTANTS
  Updaters,       \* calls of doSafeUpdate
  Creators,       \* those with create set
  Values,         \* contents of a record
  Missing,        \* no record
  Error,          \* what the mutate function returns with an error
  Mutate(_, _)    \* the mutate function of an updater, of a record

VARIABLES
  record,         \* what etcd holds under the key
  outcome         \* how each update ended

vars == <<record, outcome>>

Init ==
  /\ record \in Values \cup {Missing}
  /\ outcome = [u \in Updaters |-> "pending"]

(* The mutate function is applied to a record that is missing only by an   *)
(* update that may create it.                                              *)
Update(u) ==
  /\ outcome[u] = "pending"
  /\ record # Missing \/ u \in Creators
  /\ Mutate(u, record) # Error
  /\ record' = Mutate(u, record)
  /\ outcome' = [outcome EXCEPT ![u] = "updated"]

(* A creator is refused for want of a record too, when the record it       *)
(* lost the race to create has been deleted since.                         *)
Refuse(u) ==
  /\ outcome[u] = "pending"
  /\ record = Missing \/ Mutate(u, record) = Error
  /\ outcome' = [outcome EXCEPT ![u] = "refused"]
  /\ UNCHANGED record

(* Other code writes and deletes the key without looking.                  *)
Overwrite ==
  /\ record' \in Values \cup {Missing}
  /\ UNCHANGED outcome

Next ==
  \/ Overwrite
  \/ \E u \in Updaters : Update(u) \/ Refuse(u)

Spec == Init /\ [][Next]_vars
=============================================================================
