-------------------------------- MODULE Groups --------------------------------
(***************************************************************************)
(* Groups of users in etcd (internal/data/groups.go).                      *)
(*                                                                         *)
(* Who belongs to a group is kept twice: the group lists its members, and  *)
(* a membership key of each user lists the groups.  SetGroup and           *)
(* RemoveGroup write the group and then, one compare-and-swap at a time,   *)
(* the memberships of those who came or went.  Two administrators, a login *)
(* by single sign-on, a registration and a crash may fall in between.      *)
(*                                                                         *)
(* The group "*", which GetUserGroupMembership adds to the answer, is in   *)
(* no membership and is left out; so is the order of members and groups.   *)
(***************************************************************************)
EXTENDS Integers, FiniteSets

CONSTANTS
  Users,       \* usernames
  GroupNames,  \* names of groups
  Admins,      \* editors of groups at work at once
  Absent,      \* no such key
  MaxWrites    \* bound: edits of anything in one behaviour

ASSUME GroupsAssumption ==
  /\ Absent \notin Users
  /\ \A s \in (SUBSET Users) \cup (SUBSET GroupNames) : s # Absent
  /\ MaxWrites \in Nat

VARIABLES
  group,       \* wag-groups-<group>
  membership,  \* wag-membership-<user>
  account,     \* users with a record
  edit,        \* what each editor is doing
  writes,      \* edits so far
  crossed      \* history: <<group, user>> written by two at once, by an
               \* edit that was cut short, or past the group

groups == <<group, membership, account, edit, writes, crossed>>

Idle == [step |-> "idle", group |-> Absent, members |-> {}, overwrite |-> FALSE,
         add |-> {}, drop |-> {}]

EditRecord ==
  [step: {"idle", "put", "members"}, group: GroupNames \cup {Absent},
   members: SUBSET Users, overwrite: BOOLEAN,
   add: SUBSET Users, drop: SUBSET Users]

MembersOf(g) == IF group[g] = Absent THEN {} ELSE group[g]

GroupsOf(u) == IF membership[u] = Absent THEN {} ELSE membership[u]

InitGroups ==
  /\ account \in SUBSET Users
  /\ group \in [GroupNames -> {Absent, account}]
  /\ membership = [u \in Users |->
       IF u \in account THEN {g \in GroupNames : u \in MembersOf(g)} ELSE Absent]
  /\ edit = [e \in Admins |-> Idle]
  /\ writes = 0
  /\ crossed = {}

Wrote ==
  /\ writes < MaxWrites
  /\ writes' = writes + 1

\* Editors still changing memberships of group g.
Changing(g) == {e \in Admins : edit[e].step = "members" /\ edit[e].group = g}

\* Mistake: the loop over the members does not end.
ContinuingOn(e, g, add, drop) ==
  edit' = [edit EXCEPT
    ![e] = [Idle EXCEPT !.step = "members", !.group = g, !.add = add, !.drop = drop]]

\* The editor goes on to the memberships, if any are to be changed.
Continuing(e, g, add, drop) ==
  edit' = [edit EXCEPT
    ![e] = IF add \cup drop = {} THEN Idle
           ELSE [Idle EXCEPT !.step = "members", !.group = g,
                             !.add = add, !.drop = drop]]

Crossing(g) ==
  crossed' = IF Changing(g) = {} THEN crossed ELSE crossed \cup ({g} \X Users)

-----------------------------------------------------------------------------
\* SetGroup looks first whether the group is there.
SetGroup(e, g, members, overwrite) ==
  /\ edit[e].step = "idle"
  /\ Wrote
  /\ edit' = [edit EXCEPT
       ![e] = IF group[g] # Absent /\ ~overwrite THEN Idle
              ELSE [Idle EXCEPT !.step = "put", !.group = g, !.members = members,
                                !.overwrite = overwrite]]
  /\ UNCHANGED <<group, membership, account, crossed>>

\* Mistake: who left the group is not looked at.
PutGroupAdding(e) ==
  LET g == edit[e].group
      new == edit[e].members IN
  /\ edit[e].step = "put"
  /\ group' = [group EXCEPT ![g] = new]
  /\ Continuing(e, g, new \ MembersOf(g), {})
  /\ Crossing(g)
  /\ UNCHANGED <<membership, account, writes>>

\* The put replaces whatever is there by now, and returns it.
PutGroup(e) ==
  LET g == edit[e].group
      new == edit[e].members IN
  /\ edit[e].step = "put"
  /\ group' = [group EXCEPT ![g] = new]
  /\ Continuing(e, g, new \ MembersOf(g), MembersOf(g) \ new)
  /\ Crossing(g)
  /\ UNCHANGED <<membership, account, writes>>

RemoveGroup(e, g) ==
  /\ edit[e].step = "idle"
  /\ Wrote
  /\ group' = [group EXCEPT ![g] = Absent]
  /\ Continuing(e, g, {}, MembersOf(g))
  /\ Crossing(g)
  /\ UNCHANGED <<membership, account>>

\* A user without a membership gets one.
AddMember(e, u) ==
  /\ u \in edit[e].add
  /\ membership' = [membership EXCEPT ![u] = GroupsOf(u) \cup {edit[e].group}]
  /\ Continuing(e, edit[e].group, edit[e].add \ {u}, edit[e].drop)
  /\ UNCHANGED <<group, account, writes, crossed>>

\* Those who came are seen to first.  A user without a membership is an
\* error, which is remembered and changes nothing.
DropMember(e, u) ==
  /\ edit[e].add = {}
  /\ u \in edit[e].drop
  /\ membership' = IF membership[u] = Absent THEN membership
                   ELSE [membership EXCEPT ![u] = @ \ {edit[e].group}]
  /\ Continuing(e, edit[e].group, {}, edit[e].drop \ {u})
  /\ UNCHANGED <<group, account, writes, crossed>>

\* The node of the editor stops.
Interrupt(e) ==
  /\ edit[e].step # "idle"
  /\ Wrote
  /\ edit' = [edit EXCEPT ![e] = Idle]
  /\ crossed' = crossed \cup ({edit[e].group} \X (edit[e].add \cup edit[e].drop))
  /\ UNCHANGED <<group, membership, account>>

\* A login by single sign-on, or a registration token, replaces the groups of
\* a user and tells no group.
SetUserGroupMembership(u, gs) ==
  /\ membership[u] # Absent
  /\ Wrote
  /\ membership' = [membership EXCEPT ![u] = gs]
  /\ crossed' = crossed \cup (GroupNames \X {u})
  /\ UNCHANGED <<group, account, edit>>

\* CreateUserDataAccount empties the membership an earlier account or a
\* SetGroup has left.
CreateUser(u) ==
  /\ u \notin account
  /\ Wrote
  /\ account' = account \cup {u}
  /\ membership' = [membership EXCEPT ![u] = {}]
  /\ crossed' = IF membership[u] = Absent /\ \A e \in Admins : edit[e].step # "members"
                THEN crossed ELSE crossed \cup (GroupNames \X {u})
  /\ UNCHANGED <<group, edit>>

EditStep(e) == PutGroup(e) \/ \E u \in Users : AddMember(e, u) \/ DropMember(e, u)
=============================================================================
