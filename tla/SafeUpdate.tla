------------------------------ MODULE SafeUpdate ------------------------------
(***************************************************************************)
(* doSafeUpdate of internal/data/init.go, step by step: the Get, the       *)
(* mutate function, and the transaction that puts the new value if the     *)
(* revision of the key is still the one read.  A transaction that fails    *)
(* returns the record as it is, and the loop begins again with that.       *)
(*                                                                         *)
(* The other modules take an update as one step; that they may is what     *)
(* UpdatesAtomic says, in the terms of AtomicUpdate.                       *)
(***************************************************************************)
EXTENDS Integers

CONSTANTS
  Updaters, Creators, Values, Missing, Error,   \* as in AtomicUpdate
  Mutate(_, _),
  MaxRevision     \* bound: etcd's revision

ASSUME UpdateAssumption ==
  /\ Missing \notin Values /\ Error \notin Values /\ Error # Missing
  /\ Creators \subseteq Updaters
  /\ MaxRevision \in Nat
  /\ \A u \in Updaters : \A v \in Values \cup {Missing} :
       Mutate(u, v) \in Values \cup {Error}

VARIABLES
  stored,         \* the value under the key
  revision,       \* etcd's revision: writes of the key so far
  modified,       \* ModRevision of the key, 0 when there is none
  caller          \* per updater: its step, origState and the revision in that

update == <<stored, revision, modified, caller>>

CallerRecord == [step: {"get", "create", "loop", "updated", "refused"},
                 read: Values \cup {Missing}, at: Nat]

InitUpdate ==
  /\ stored \in Values \cup {Missing}
  /\ revision = 1
  /\ modified = IF stored = Missing THEN 0 ELSE 1
  /\ caller = [u \in Updaters |-> [step |-> "get", read |-> Missing, at |-> 0]]

(* etcd: every write has a revision of its own.                            *)
Write(v) ==
  /\ revision < MaxRevision
  /\ stored' = v
  /\ revision' = revision + 1
  /\ modified' = IF v = Missing THEN 0 ELSE revision + 1

(* The answer to a Get, be it the first or that of a failed transaction.   *)
Response(step) == [step |-> step, read |-> stored, at |-> modified]

\* Mistake: only the presence of the record is compared.
UnmovedPresence(u) == (modified = 0) = (caller[u].at = 0)

(* Both transactions compare the ModRevision, of which a missing key has   *)
(* none, and not only whether there is a record.                           *)
Unmoved(u) == modified = caller[u].at

(* "no record found", or the mutate function's error.                      *)
Refused(c, u) ==
  \/ c.step = "loop" /\ c.read = Missing
  \/ Mutate(u, c.read) = Error

Get(u) ==
  /\ caller[u].step = "get"
  /\ caller' = [caller EXCEPT ![u] =
       Response(IF stored = Missing /\ u \in Creators THEN "create" ELSE "loop")]
  /\ UNCHANGED <<stored, revision, modified>>

GiveUp(u) ==
  /\ caller[u].step \in {"create", "loop"}
  /\ Refused(caller[u], u)
  /\ caller' = [caller EXCEPT ![u].step = "refused"]
  /\ UNCHANGED <<stored, revision, modified>>

Commit(u) ==
  /\ caller[u].step \in {"create", "loop"}
  /\ ~Refused(caller[u], u)
  /\ Unmoved(u)
  /\ Write(Mutate(u, caller[u].read))
  /\ caller' = [caller EXCEPT ![u].step = "updated"]

Retry(u) ==
  /\ caller[u].step \in {"create", "loop"}
  /\ ~Refused(caller[u], u)
  /\ ~Unmoved(u)
  /\ caller' = [caller EXCEPT ![u] = Response("loop")]
  /\ UNCHANGED <<stored, revision, modified>>

(* A Put or a Delete of the key by other code.                             *)
OtherWrite ==
  /\ \E v \in Values \cup {Missing} : Write(v)
  /\ UNCHANGED caller

NextUpdate ==
  \/ \E u \in Updaters : Get(u) \/ GiveUp(u) \/ Commit(u) \/ Retry(u)
  \/ OtherWrite

SpecUpdate == InitUpdate /\ [][NextUpdate]_update

-----------------------------------------------------------------------------
UpdateTypeOK ==
  /\ stored \in Values \cup {Missing}
  /\ revision \in 1..MaxRevision \cup {1}
  /\ modified \in 0..revision
  /\ caller \in [Updaters -> CallerRecord]

(* An update that is refused has been so since it was answered the record  *)
(* it is refused for; one that is not has happened when the transaction    *)
(* commits.                                                                *)
Outcome(u) ==
  CASE caller[u].step \in {"updated", "refused"} -> caller[u].step
    [] caller[u].step \in {"create", "loop"} /\ Refused(caller[u], u) -> "refused"
    [] OTHER -> "pending"

Atomic == INSTANCE AtomicUpdate WITH
  record <- stored, outcome <- [u \in Updaters |-> Outcome(u)]

(* Whatever else is written meanwhile, a doSafeUpdate that reports success *)
(* replaced the record it mutated, and one that reports an error wrote     *)
(* nothing and was answered a record that called for the error: no update  *)
(* is lost, made of two records or applied twice.                          *)
UpdatesAtomic == Atomic!Spec
=============================================================================
