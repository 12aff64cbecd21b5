------------------------------- MODULE Policies -------------------------------
(***************************************************************************)
(* From groups and access lists in etcd to the access list a node has      *)
(* installed for each user (internal/data/acls.go and the handlers of      *)
(* internal/router/statemachine.go that refresh).                          *)
(*                                                                         *)
(* GetEffectiveAcl reads twice: a transaction for the membership, the      *)
(* default list, the user's own and the DNS servers, and another for the   *)
(* lists of the groups found.  When either fails it returns a list without *)
(* the rules, not an error, and that is what gets installed.  The refreshes *)
(* read under the router's lock, so one is being read at a time; the       *)
(* handler of a new user reads before it takes the lock.  Handlers run in  *)
(* any order.  As a refresh reads what is there when it runs, two that     *)
(* wait for one user are kept as one.                                      *)
(*                                                                         *)
(* An access list is a member of Acls; the rules in it are the business    *)
(* of Routes.  The server's own address, which every list but that of a    *)
(* failed second transaction allows, is left out.                          *)
(***************************************************************************)
EXTENDS Groups

CONSTANTS
  Acls,        \* contents of an access list, and lists of DNS servers
  Workloads    \* bound: the kinds of write one behaviour may combine

ASSUME AclsAssumption == Absent \notin Acls /\ Acls # {}

Default == "*"

\* wag-acls-<effects>: the default, a group or a user.
Effects == {Default} \cup GroupNames \cup Users

\* A policy as it takes effect: where it comes from and what it says.
Sources == Effects \cup {"dns"}

VARIABLES
  workload,    \* the kinds of write in this behaviour
  acl,         \* wag-acls-<effects>
  dns,         \* the setting for DNS servers
  pending,     \* users whose refresh waits for the lock
  refreshAll,  \* RefreshConfiguration waits for the lock
  todo,        \* users RefreshConfiguration has still to refresh
  adding,      \* handlers of new users: how far they are and what they read
  reading,     \* the user a refresh under the lock is reading for, and what
               \* its first transaction gave
  known,       \* users in the node's account_locked map
  installed,   \* what the node's maps hold for each user
  stale        \* history: users whose installed list may be old or empty and
               \* whom no refresh follows: the DNS servers changed, their first
               \* list is older than a refresh or was refused, or reading failed

vars == <<groups, workload, acl, dns, pending, refreshAll, todo, adding,
          reading, known, installed, stale>>

etcd == <<groups, workload, acl, dns>>
node == <<pending, refreshAll, todo, adding, reading, known, installed, stale>>

NotReading == [user |-> Absent, groups |-> {}, lists |-> {}]

NotAdding == [step |-> "none", groups |-> {}, lists |-> {}]

\* What a set of keys contributes.
Lists(keys) == {<<k, acl[k]>> : k \in {x \in keys : acl[x] # Absent}}

\* First transaction of GetEffectiveAcl.
OwnLists(u) ==
  Lists({Default, u}) \cup (IF dns = Absent THEN {} ELSE {<<"dns", dns>>})

\* What GetEffectiveAcl returns if nobody writes meanwhile.
EffectiveAcl(u) == OwnLists(u) \cup Lists(GroupsOf(u))

Init ==
  /\ InitGroups
  /\ workload \in Workloads
  /\ acl = [e \in Effects |-> IF e \in GroupNames THEN CHOOSE a \in Acls : TRUE ELSE Absent]
  /\ dns = Absent
  /\ pending = {} /\ refreshAll = FALSE /\ todo = {}
  /\ adding = [u \in Users |-> NotAdding]
  /\ reading = NotReading /\ known = account
  /\ installed = [u \in Users |-> IF u \in account THEN EffectiveAcl(u) ELSE {}]
  /\ stale = {}

-----------------------------------------------------------------------------
(***************************************************************************)
(* Writes, and the handlers their events start.                            *)
(***************************************************************************)

\* The users whose membership or group a step has changed.
Touched ==
  {u \in Users : membership'[u] # membership[u]} \cup
  UNION {MembersOf(g)' : g \in {x \in GroupNames : group'[x] # group[x]}}

\* Mistake: a change of a membership reaches only the users a group lists.
NotifyMembers ==
  /\ pending' = pending \cup
       UNION {MembersOf(g)' : g \in {x \in GroupNames : group'[x] # group[x]}}
  /\ UNCHANGED <<workload, acl, dns, refreshAll, todo, reading, known, installed, stale>>

\* membershipChanges and groupChanges.  A deleted group comes with its last
\* members.
Notify ==
  /\ pending' = pending \cup Touched \cup
       UNION {MembersOf(g) : g \in {x \in GroupNames : group'[x] = Absent /\ group[x] # Absent}}
  /\ UNCHANGED <<workload, acl, dns, refreshAll, todo, reading, known, installed, stale>>

EditGroups(e) ==
  /\ EditStep(e)
  /\ Notify
  /\ UNCHANGED adding

ChangeGroups ==
  /\ \/ /\ "group" \in workload
        /\ \E e \in Admins, g \in GroupNames :
             \/ RemoveGroup(e, g)
             \/ \E m \in SUBSET Users, o \in BOOLEAN : SetGroup(e, g, m, o)
     \/ "crash" \in workload /\ \E e \in Admins : Interrupt(e)
     \/ /\ "login" \in workload
        /\ \E u \in Users, gs \in SUBSET GroupNames : SetUserGroupMembership(u, gs)
  /\ Notify
  /\ UNCHANGED adding

NewUser(u) ==
  /\ "user" \in workload
  /\ CreateUser(u)
  /\ Notify
  /\ adding' = [adding EXCEPT ![u] = [NotAdding EXCEPT !.step = "event"]]

\* Without overwrite a list that is there stays.
SetAcl(e, a, overwrite) ==
  /\ "acl" \in workload
  /\ Wrote
  /\ IF acl[e] # Absent /\ ~overwrite
     THEN UNCHANGED <<acl, refreshAll>>
     ELSE acl' = [acl EXCEPT ![e] = a] /\ refreshAll' = TRUE
  /\ UNCHANGED <<group, membership, account, edit, crossed, workload, dns,
                 pending, todo, adding, reading, known, installed, stale>>

RemoveAcl(e) ==
  /\ "acl" \in workload
  /\ Wrote
  /\ acl' = [acl EXCEPT ![e] = Absent]
  /\ refreshAll' = (refreshAll \/ acl[e] # Absent)
  /\ UNCHANGED <<group, membership, account, edit, crossed, workload, dns,
                 pending, todo, adding, reading, known, installed, stale>>

\* The router does not listen for the DNS servers.
SetDNS(a) ==
  /\ "dns" \in workload
  /\ Wrote
  /\ dns' = a
  /\ stale' = Users
  /\ UNCHANGED <<group, membership, account, edit, crossed, workload, acl,
                 pending, refreshAll, todo, adding, reading, known, installed>>

-----------------------------------------------------------------------------
(***************************************************************************)
(* The node.                                                               *)
(***************************************************************************)

\* First transaction of GetEffectiveAcl, for user u.
Reading(u) ==
  /\ reading' = [user |-> u, groups |-> GroupsOf(u), lists |-> OwnLists(u)]
  /\ stale' = stale \ {u}
  /\ UNCHANGED installed

\* A transaction of GetEffectiveAcl fails: it returns a list without rules,
\* which is installed, and nothing refreshes it.
ReadFailed(u) ==
  /\ "fail" \in workload
  /\ installed' = [installed EXCEPT ![u] = {}]
  /\ stale' = stale \cup {u}
  /\ reading' = NotReading

\* What was unheard of before this is read now.
RefreshUser(u) ==
  /\ reading = NotReading /\ todo = {}
  /\ u \in pending
  /\ pending' = pending \ {u}
  /\ Reading(u) \/ ReadFailed(u)
  /\ UNCHANGED <<etcd, refreshAll, todo, adding, known>>

\* Mistake: RefreshConfiguration takes the users the router knows.
RefreshConfigurationKnown ==
  /\ reading = NotReading /\ todo = {}
  /\ refreshAll
  /\ refreshAll' = FALSE
  /\ todo' = {u \in account : installed[u] # {}}
  /\ UNCHANGED <<etcd, pending, adding, reading, known, installed, stale>>

\* RefreshConfiguration keeps the lock for all the users there are.  If they,
\* or the inactivity timeout, cannot be read it refreshes nobody.
RefreshConfiguration ==
  /\ reading = NotReading /\ todo = {}
  /\ refreshAll
  /\ refreshAll' = FALSE
  /\ \/ todo' = account /\ UNCHANGED stale
     \/ "fail" \in workload /\ stale' = Users /\ UNCHANGED todo
  /\ UNCHANGED <<etcd, pending, adding, reading, known, installed>>

\* The list of a user whose map is there is read twice, into that map and into
\* the one that takes its place: the second counts.  A user who was not known
\* to the node is now.
RefreshNext(u) ==
  /\ reading = NotReading
  /\ u \in todo
  /\ todo' = todo \ {u}
  /\ known' = known \cup {u}
  /\ Reading(u) \/ ReadFailed(u)
  /\ UNCHANGED <<etcd, pending, refreshAll, adding>>

\* Second transaction of GetEffectiveAcl, and the filling of the map.
Install ==
  /\ reading # NotReading
  /\ \/ /\ installed' = [installed EXCEPT
            ![reading.user] = reading.lists \cup Lists(reading.groups)]
        /\ reading' = NotReading
        /\ UNCHANGED stale
     \/ ReadFailed(reading.user)
  /\ UNCHANGED <<etcd, pending, refreshAll, todo, adding, known>>

\* userChanges reads the list of a new user before AddUser takes the lock.
ReadForNewUser(u) ==
  /\ \/ /\ adding[u].step = "event"
        /\ adding' = [adding EXCEPT ![u] =
             [step |-> "groups", groups |-> GroupsOf(u), lists |-> OwnLists(u)]]
     \/ /\ adding[u].step = "groups"
        /\ adding' = [adding EXCEPT ![u] = [NotAdding EXCEPT !.step = "add",
             !.lists = adding[u].lists \cup Lists(adding[u].groups)]]
     \/ /\ "fail" \in workload /\ adding[u].step \in {"event", "groups"}
        /\ adding' = [adding EXCEPT ![u] = [NotAdding EXCEPT !.step = "add"]]
  /\ UNCHANGED <<etcd, pending, refreshAll, todo, reading, known, installed, stale>>

\* SetLockAccount, for an account locked before its AddUser: the user is known.
LockAccount(u) ==
  /\ "user" \in workload
  /\ Wrote
  /\ reading = NotReading /\ todo = {}
  /\ u \in account \ known
  /\ known' = known \cup {u}
  /\ stale' = stale \cup {u}
  /\ UNCHANGED <<group, membership, account, edit, crossed, workload, acl, dns,
                 pending, refreshAll, todo, adding, reading, installed>>

\* AddUser refuses a user whom RefreshConfiguration or a lock has made known.
AddUser(u) ==
  /\ reading = NotReading /\ todo = {}
  /\ adding[u].step = "add"
  /\ adding' = [adding EXCEPT ![u] = NotAdding]
  /\ known' = known \cup {u}
  /\ IF u \in known
     THEN UNCHANGED <<installed, stale>>
     ELSE /\ installed' = [installed EXCEPT ![u] = adding[u].lists]
          /\ stale' = IF adding[u].lists = EffectiveAcl(u) \/ refreshAll \/ u \in pending
                      THEN stale ELSE stale \cup {u}
  /\ UNCHANGED <<etcd, pending, refreshAll, todo, reading>>

Handle ==
  \/ \E u \in Users : RefreshUser(u) \/ RefreshNext(u) \/ ReadForNewUser(u) \/ AddUser(u)
  \/ RefreshConfiguration \/ Install

Next ==
  \/ ChangeGroups
  \/ \E e \in Admins : EditGroups(e)
  \/ \E u \in Users : NewUser(u) \/ LockAccount(u)
  \/ \E e \in Effects, a \in Acls, o \in BOOLEAN : SetAcl(e, a, o)
  \/ \E e \in Effects : RemoveAcl(e)
  \/ \E a \in Acls : SetDNS(a)
  \/ Handle

\* A goroutine that was started runs, and an editor goes on with its loop.
Fairness == WF_vars(Handle) /\ \A e \in Admins : WF_vars(EditGroups(e))

Spec == Init /\ [][Next]_vars /\ Fairness

-----------------------------------------------------------------------------
(***************************************************************************)
(* Properties.                                                             *)
(***************************************************************************)

\* The variables keep their types; an editor at the memberships has some left
\* to change, none of them both ways.
TypeOK ==
  /\ group \in [GroupNames -> {Absent} \cup SUBSET Users]
  /\ membership \in [Users -> {Absent} \cup SUBSET GroupNames]
  /\ account \subseteq Users
  /\ edit \in [Admins -> EditRecord]
  /\ \A e \in Admins : edit[e].step = "members" =>
       edit[e].add \cup edit[e].drop # {} /\ edit[e].add \cap edit[e].drop = {}
  /\ crossed \subseteq GroupNames \X Users
  /\ pending \subseteq Users /\ todo \subseteq account /\ stale \subseteq Users
  /\ known \subseteq account
  /\ refreshAll \in BOOLEAN
  /\ \A u \in Users : installed[u] \subseteq Sources \X Acls

\* Group and membership say the same of a user, once nobody is changing the
\* group: SetGroup and RemoveGroup bring every membership along, however the
\* edits of other groups and the refreshes fall in between.  Left out are
\* pairs that two edits of one group crossed in, an edit cut short left
\* behind, or a login or a new account wrote over.
MembershipsAgree ==
  \A g \in GroupNames, u \in Users :
    Changing(g) = {} /\ <<g, u>> \notin crossed =>
      (u \in MembersOf(g) <=> g \in GroupsOf(u))

Waiting(u) ==
  \/ u \in pending \/ u \in todo \/ reading.user = u
  \/ refreshAll \/ adding[u] # NotAdding

\* What a node has installed for a user is what etcd says now, or a refresh
\* of that user is still to come: a write between the two transactions of
\* GetEffectiveAcl, or under a RefreshConfiguration that has passed the user,
\* brings a handler of its own.  stale holds the three exceptions, which the
\* code does nothing about: a change of the DNS servers, a new user's list
\* that is older than a refresh or that an early lock has AddUser refuse, and
\* a list that could not be read.
InstalledIsCurrent ==
  \A u \in account : Waiting(u) \/ u \in stale \/ installed[u] = EffectiveAcl(u)

\* Once nothing is written any more every user but those three exceptions
\* ends up with what etcd says: the last of the handlers that were started,
\* in whatever order, reads after the last write.  One whose list could not be
\* read is an exception only until the next refresh reads it.
InstalledCatchesUp ==
  \A u \in Users :
    <>[](u \in account /\ u \notin stale => installed[u] = EffectiveAcl(u))
=============================================================================
