---------------------------- MODULE PoliciesProofs ----------------------------
(***************************************************************************)
(* For any users, groups, editors and access lists: group and membership   *)
(* say the same once nobody changes the group, and what a node has         *)
(* installed for a user is current or about to be refreshed.               *)
(***************************************************************************)
EXTENDS Policies, TLAPS

\* What an editor is, according to its step.
EditTyped(d) ==
  /\ d \in EditRecord
  /\ d.step \in {"put", "members"} => d.group \in GroupNames
  /\ d.step = "members" => d.add \cup d.drop # {} /\ d.add \cap d.drop = {}
  /\ d.step # "members" => d.add = {} /\ d.drop = {}

GroupsTyped ==
  /\ group \in [GroupNames -> {Absent} \cup SUBSET Users]
  /\ membership \in [Users -> {Absent} \cup SUBSET GroupNames]
  /\ account \subseteq Users
  /\ edit \in [Admins -> EditRecord] /\ \A e \in Admins : EditTyped(edit[e])
  /\ crossed \subseteq GroupNames \X Users

Installable == SUBSET (Sources \X Acls)

AddingRecord ==
  [step: {"none", "event", "groups", "add"}, groups: SUBSET GroupNames, lists: Installable]

NodeTyped ==
  /\ acl \in [Effects -> Acls \cup {Absent}] /\ dns \in Acls \cup {Absent}
  /\ pending \subseteq Users /\ todo \subseteq account /\ stale \subseteq Users
  /\ known \subseteq account
  /\ refreshAll \in BOOLEAN
  /\ reading \in [user: Users \cup {Absent}, groups: SUBSET GroupNames, lists: Installable]
  /\ reading # NotReading => reading.user \in Users
  /\ adding \in [Users -> AddingRecord]
  /\ \A u \in Users : adding[u] # NotAdding => u \in account
  /\ installed \in [Users -> Installable]

TypeInv == GroupsTyped /\ NodeTyped

-----------------------------------------------------------------------------
\* Group g and the membership of u say the same of u.
Agree(g, u) == u \in MembersOf(g) <=> g \in GroupsOf(u)

\* What an editor still has to change of u's membership is what differs.
Differs(e, g, u) ==
  /\ u \in edit[e].add => u \in MembersOf(g) /\ g \notin GroupsOf(u)
  /\ u \in edit[e].drop => u \notin MembersOf(g) /\ g \in GroupsOf(u)
  /\ u \notin edit[e].add \cup edit[e].drop => Agree(g, u)

\* Of a pair that was not crossed at most one editor is at the group, and it
\* knows what of it is still to do.
EditsKnow ==
  \A g \in GroupNames, u \in Users : <<g, u>> \notin crossed =>
    /\ Changing(g) = {} => Agree(g, u)
    /\ \A e \in Changing(g) : Differs(e, g, u) /\ \A f \in Changing(g) : f = e

-----------------------------------------------------------------------------
\* What is being read is current, or another refresh of the user follows.
ReadingCurrent ==
  reading # NotReading =>
    \/ reading.user \in pending \cup stale \/ refreshAll
    \/ reading.groups = GroupsOf(reading.user) /\ reading.lists = OwnLists(reading.user)

\* A list to come: the first list of a user who is known to the node is not.
ToCome(u) ==
  \/ u \in pending \/ u \in todo \/ reading.user = u \/ refreshAll
  \/ adding[u] # NotAdding /\ u \notin known

InstalledOrToCome ==
  \A u \in account : ToCome(u) \/ u \in stale \/ installed[u] = EffectiveAcl(u)

CurrentInv == ReadingCurrent /\ InstalledOrToCome

-----------------------------------------------------------------------------
(***************************************************************************)
(* Types.                                                                  *)
(***************************************************************************)

\* Lists(keys), GroupsOf and MembersOf give lists, groups and members.
LEMMA ListsTyped ==
  ASSUME NodeTyped, NEW K, K \subseteq Effects
  PROVE  Lists(K) \in Installable
BY DEF Lists, NodeTyped, Installable, Sources

LEMMA OfTyped ==
  ASSUME GroupsTyped
  PROVE  /\ \A g \in GroupNames : MembersOf(g) \subseteq Users
         /\ \A u \in Users : GroupsOf(u) \subseteq GroupNames
BY DEF GroupsTyped, MembersOf, GroupsOf

LEMMA OwnTyped ==
  ASSUME NodeTyped, NEW u \in Users
  PROVE  OwnLists(u) \in Installable
<1>1. Lists({Default, u}) \in Installable
  BY ListsTyped DEF Effects
<1>2. dns # Absent => {<<"dns", dns>>} \in Installable
  BY DEF NodeTyped, Installable, Sources
<1> QED
  BY <1>1, <1>2 DEF OwnLists, Installable

LEMMA EffectiveTyped ==
  ASSUME TypeInv, NEW u \in Users
  PROVE  EffectiveAcl(u) \in Installable
<1>1. Lists(GroupsOf(u)) \in Installable
  BY ListsTyped, OfTyped DEF TypeInv, Effects
<1> QED
  BY <1>1, OwnTyped DEF TypeInv, EffectiveAcl, Installable

\* An editor that is idle, one that puts, and one at the memberships.
LEMMA IdleTyped == EditTyped(Idle) /\ Idle.step = "idle"
BY DEF EditTyped, EditRecord, Idle

LEMMA PuttingTyped ==
  ASSUME NEW g \in GroupNames, NEW m \in SUBSET Users, NEW o \in BOOLEAN
  PROVE  LET d == [Idle EXCEPT !.step = "put", !.group = g, !.members = m, !.overwrite = o] IN
         EditTyped(d) /\ d.step = "put"
BY DEF EditTyped, EditRecord, Idle

LEMMA AtMembersTyped ==
  ASSUME NEW g \in GroupNames, NEW add \in SUBSET Users, NEW drop \in SUBSET Users,
         add \cup drop # {}, add \cap drop = {}
  PROVE  LET d == [Idle EXCEPT !.step = "members", !.group = g, !.add = add, !.drop = drop] IN
         EditTyped(d) /\ d.step = "members" /\ d.group = g /\ d.add = add /\ d.drop = drop
BY DEF EditTyped, EditRecord, Idle

\* What an action does to the editors: one of them becomes another.
Becomes(e, d) == edit' = [edit EXCEPT ![e] = d] /\ EditTyped(d)

LEMMA ContinuingBecomes ==
  ASSUME NEW e \in Admins, NEW g \in GroupNames, NEW add \in SUBSET Users,
         NEW drop \in SUBSET Users, add \cap drop = {}, Continuing(e, g, add, drop)
  PROVE  \/ add \cup drop = {} /\ Becomes(e, Idle)
         \/ \E d : /\ Becomes(e, d) /\ d.step = "members" /\ d.group = g
                   /\ d.add = add /\ d.drop = drop
<1>1. CASE add \cup drop = {}
  BY <1>1, IdleTyped DEF Continuing, Becomes
<1>2. CASE add \cup drop # {}
  <2> DEFINE d == [Idle EXCEPT !.step = "members", !.group = g, !.add = add, !.drop = drop]
  <2>1. edit' = [edit EXCEPT ![e] = d]
    BY <1>2 DEF Continuing
  <2>2. EditTyped(d) /\ d.step = "members" /\ d.group = g /\ d.add = add /\ d.drop = drop
    BY <1>2, AtMembersTyped DEF Idle
  <2> QED
    BY <2>1, <2>2 DEF Becomes
<1> QED
  BY <1>1, <1>2

LEMMA BecomesTyped ==
  ASSUME GroupsTyped, NEW e \in Admins, NEW d, Becomes(e, d)
  PROVE  /\ \A f \in Admins : edit'[f] = IF f = e THEN d ELSE edit[f]
         /\ edit' \in [Admins -> EditRecord] /\ \A f \in Admins : EditTyped(edit'[f])
BY DEF GroupsTyped, Becomes, EditTyped

-----------------------------------------------------------------------------
(***************************************************************************)
(* Groups and memberships.                                                 *)
(***************************************************************************)
GroupsInv == GroupsTyped /\ EditsKnow

\* Who is at the memberships of a group, after one editor has become another.
LEMMA ChangingNext ==
  ASSUME GroupsTyped, NEW e \in Admins, NEW d, Becomes(e, d)
  PROVE  \A h : Changing(h)' =
           (Changing(h) \ {e}) \cup (IF d.step = "members" /\ d.group = h THEN {e} ELSE {})
BY BecomesTyped DEF Changing

\* What says nothing of the groups and does nothing to the editors' loops.
LEMMA AgreementKept ==
  ASSUME GroupsInv, NEW e \in Admins, NEW d, Becomes(e, d), UNCHANGED <<group, membership>>,
         crossed \subseteq crossed', d.step # "members",
         \A g \in GroupNames, u \in Users :
           e \in Changing(g) /\ u \in edit[e].add \cup edit[e].drop => <<g, u>> \in crossed'
  PROVE  EditsKnow'
<1> SUFFICES ASSUME NEW g \in GroupNames, NEW u \in Users, <<g, u>> \notin crossed'
             PROVE  /\ Changing(g)' = {} => Agree(g, u)'
                    /\ \A f \in Changing(g)' : Differs(f, g, u)' /\ \A x \in Changing(g)' : x = f
  BY DEF EditsKnow
<1>1. Changing(g)' = Changing(g) \ {e}
  BY ChangingNext DEF GroupsInv
<1>2. \A f \in Changing(g)' : edit'[f] = edit[f]
  BY <1>1, BecomesTyped DEF GroupsInv, Changing
<1>3. /\ Changing(g) = {} => Agree(g, u)
      /\ \A f \in Changing(g) : Differs(f, g, u) /\ \A x \in Changing(g) : x = f
  BY DEF GroupsInv, EditsKnow
<1>4. Agree(g, u)' <=> Agree(g, u)
  BY DEF Agree, MembersOf, GroupsOf
<1>5. \A f \in Changing(g)' : Differs(f, g, u)'
  BY <1>1, <1>2, <1>3 DEF Differs, Agree, MembersOf, GroupsOf
<1>6. Changing(g)' = {} => Agree(g, u)
  <2>1. CASE e \in Changing(g)
    BY <1>3, <2>1 DEF Differs
  <2>2. CASE e \notin Changing(g)
    BY <1>1, <1>3, <2>2
  <2> QED
    BY <2>1, <2>2
<1> QED
  BY <1>1, <1>3, <1>4, <1>5, <1>6

\* SetGroup's put and RemoveGroup's delete: a group is replaced, and the editor
\* goes on to those who came or went.
LEMMA ReplacedAgreement ==
  ASSUME GroupsInv, NEW e \in Admins, NEW g \in GroupNames,
         NEW new \in {Absent} \cup SUBSET Users,
         NEW m \in SUBSET Users, m = IF new = Absent THEN {} ELSE new,
         edit[e].step # "members", group' = [group EXCEPT ![g] = new],
         Continuing(e, g, m \ MembersOf(g), MembersOf(g) \ m), Crossing(g),
         UNCHANGED <<membership, account>>
  PROVE  GroupsInv'
<1> DEFINE add == m \ MembersOf(g)
           drop == MembersOf(g) \ m
<1>1. add \in SUBSET Users /\ drop \in SUBSET Users /\ add \cap drop = {}
  BY OfTyped DEF GroupsInv
<1>2. PICK d : /\ Becomes(e, d)
               /\ \/ add \cup drop = {} /\ d.step # "members"
                  \/ d.step = "members" /\ d.group = g /\ d.add = add /\ d.drop = drop
  <2>1. Continuing(e, g, add, drop)
    OBVIOUS
  <2> HIDE DEF add, drop
  <2>2. \/ add \cup drop = {} /\ Becomes(e, Idle)
        \/ \E d : /\ Becomes(e, d) /\ d.step = "members" /\ d.group = g
                 /\ d.add = add /\ d.drop = drop
    BY <1>1, <2>1, ContinuingBecomes
  <2> QED
    BY <2>2, IdleTyped
<1>3. /\ \A f \in Admins : edit'[f] = IF f = e THEN d ELSE edit[f]
      /\ edit' \in [Admins -> EditRecord] /\ \A f \in Admins : EditTyped(edit'[f])
  BY <1>2, BecomesTyped DEF GroupsInv
<1>4. crossed \subseteq crossed' /\ crossed' \subseteq GroupNames \X Users
      /\ \A u \in Users : <<g, u>> \notin crossed' => Changing(g) = {}
  BY DEF Crossing, GroupsInv, GroupsTyped
<1>5. group' \in [GroupNames -> {Absent} \cup SUBSET Users]
  BY DEF GroupsInv, GroupsTyped
<1>6. MembersOf(g)' = m /\ \A h \in GroupNames \ {g} : MembersOf(h)' = MembersOf(h)
  BY DEF MembersOf, GroupsInv, GroupsTyped
<1>7. \A u : GroupsOf(u)' = GroupsOf(u)
  BY DEF GroupsOf
<1>8. EditsKnow'
  <2> SUFFICES ASSUME NEW h \in GroupNames, NEW u \in Users, <<h, u>> \notin crossed'
               PROVE  /\ Changing(h)' = {} => Agree(h, u)'
                      /\ \A f \in Changing(h)' : Differs(f, h, u)' /\ \A x \in Changing(h)' : x = f
    BY DEF EditsKnow
  <2>1. e \notin Changing(h)
    BY DEF Changing
  <2>2. Changing(h)' = Changing(h) \cup (IF d.step = "members" /\ d.group = h THEN {e} ELSE {})
    BY <1>2, <2>1, ChangingNext DEF GroupsInv
  <2>3. /\ Changing(h) = {} => Agree(h, u)
        /\ \A f \in Changing(h) : Differs(f, h, u) /\ \A x \in Changing(h) : x = f
    BY <1>4 DEF GroupsInv, EditsKnow
  <2>4. CASE h = g
    <3>1. Changing(g) = {} /\ Agree(g, u)
      BY <1>4, <2>3, <2>4
    <3>2. CASE add \cup drop = {} /\ d.step # "members"
      <4>1. Changing(g)' = {} /\ m = MembersOf(g)
        BY <2>2, <2>4, <3>1, <3>2
      <4> QED
        BY <1>6, <1>7, <2>4, <3>1, <4>1 DEF Agree
    <3>3. CASE d.step = "members" /\ d.group = g /\ d.add = add /\ d.drop = drop
      <4>1. Changing(g)' = {e} /\ edit'[e].add = add /\ edit'[e].drop = drop
        BY <1>3, <2>2, <2>4, <3>1, <3>3
      <4>2. Differs(e, g, u)'
        BY <1>6, <1>7, <3>1, <4>1 DEF Differs, Agree
      <4> QED
        BY <2>4, <4>1, <4>2
    <3> QED
      BY <1>2, <3>2, <3>3
  <2>5. CASE h # g
    <3>1. Changing(h)' = Changing(h)
      BY <1>2, <2>2, <2>5
    <3>2. \A f \in Changing(h) : edit'[f] = edit[f]
      BY <1>3, <2>1 DEF Changing
    <3> QED
      BY <1>6, <1>7, <2>3, <2>5, <3>1, <3>2 DEF Differs, Agree
  <2> QED
    BY <2>4, <2>5
<1> QED
  BY <1>3, <1>4, <1>5, <1>8 DEF GroupsInv, GroupsTyped

\* One membership is brought along.
LEMMA WorkedAgreement ==
  ASSUME GroupsInv, NEW e \in Admins, NEW g \in GroupNames, e \in Changing(g),
         NEW u \in Users, u \in edit[e].add \cup edit[e].drop,
         Continuing(e, g, edit[e].add \ {u}, edit[e].drop \ {u}),
         UNCHANGED <<group, account, crossed>>,
         membership' \in [Users -> {Absent} \cup SUBSET GroupNames],
         \A v \in Users \ {u} : GroupsOf(v)' = GroupsOf(v),
         \A h \in GroupNames \ {g} : h \in GroupsOf(u)' <=> h \in GroupsOf(u),
         <<g, u>> \notin crossed => Agree(g, u)'
  PROVE  GroupsInv'
<1> DEFINE add == edit[e].add \ {u}
           drop == edit[e].drop \ {u}
<1>0. edit[e].step = "members" /\ edit[e].group = g /\ EditTyped(edit[e])
  BY DEF Changing, GroupsInv, GroupsTyped
<1>1. add \in SUBSET Users /\ drop \in SUBSET Users /\ add \cap drop = {}
  BY <1>0 DEF EditTyped, EditRecord
<1>2. PICK d : /\ Becomes(e, d)
               /\ \/ add \cup drop = {} /\ d.step # "members"
                  \/ d.step = "members" /\ d.group = g /\ d.add = add /\ d.drop = drop
  <2>1. Continuing(e, g, add, drop)
    OBVIOUS
  <2> HIDE DEF add, drop
  <2>2. \/ add \cup drop = {} /\ Becomes(e, Idle)
        \/ \E d : /\ Becomes(e, d) /\ d.step = "members" /\ d.group = g
                 /\ d.add = add /\ d.drop = drop
    BY <1>1, <2>1, ContinuingBecomes
  <2> QED
    BY <2>2, IdleTyped
<1>3. /\ \A f \in Admins : edit'[f] = IF f = e THEN d ELSE edit[f]
      /\ edit' \in [Admins -> EditRecord] /\ \A f \in Admins : EditTyped(edit'[f])
  BY <1>2, BecomesTyped DEF GroupsInv
<1>4. \A h : MembersOf(h)' = MembersOf(h)
  BY DEF MembersOf
<1>5. EditsKnow'
  <2> SUFFICES ASSUME NEW h \in GroupNames, NEW v \in Users, <<h, v>> \notin crossed
               PROVE  /\ Changing(h)' = {} => Agree(h, v)'
                      /\ \A f \in Changing(h)' : Differs(f, h, v)' /\ \A x \in Changing(h)' : x = f
    BY DEF EditsKnow
  <2>1. Changing(h)' = (Changing(h) \ {e}) \cup (IF d.step = "members" /\ d.group = h THEN {e} ELSE {})
    BY <1>2, ChangingNext DEF GroupsInv
  <2>2. /\ Changing(h) = {} => Agree(h, v)
        /\ \A f \in Changing(h) : Differs(f, h, v) /\ \A x \in Changing(h) : x = f
    BY DEF GroupsInv, EditsKnow
  <2>3. CASE h = g
    <3>1. Changing(g) = {e} /\ Differs(e, g, v)
      BY <2>2, <2>3
    <3>2. v \notin add \cup drop => Agree(g, v)'
      <4>1. CASE v = u
        BY <2>3, <4>1
      <4>2. CASE v # u
        BY <1>4, <3>1, <4>2 DEF Differs, Agree
      <4> QED
        BY <4>1, <4>2
    <3>3. CASE add \cup drop = {} /\ d.step # "members"
      BY <2>1, <2>3, <3>1, <3>2, <3>3
    <3>4. CASE d.step = "members" /\ d.group = g /\ d.add = add /\ d.drop = drop
      <4>1. Changing(g)' = {e} /\ edit'[e].add = add /\ edit'[e].drop = drop
        BY <1>3, <2>1, <2>3, <3>1, <3>4
      <4>2. Differs(e, g, v)'
        BY <1>4, <3>1, <3>2, <4>1 DEF Differs, Agree
      <4> QED
        BY <2>3, <4>1, <4>2
    <3> QED
      BY <1>2, <3>3, <3>4
  <2>4. CASE h # g
    <3>1. e \notin Changing(h) /\ Changing(h)' = Changing(h)
      BY <1>0, <1>2, <2>1, <2>4 DEF Changing
    <3>2. \A f \in Changing(h) : edit'[f] = edit[f]
      BY <1>3, <3>1 DEF Changing
    <3>3. h \in GroupsOf(v)' <=> h \in GroupsOf(v)
      BY <2>4
    <3> QED
      BY <1>4, <2>2, <3>1, <3>2, <3>3 DEF Differs, Agree
  <2> QED
    BY <2>3, <2>4
<1> QED
  BY <1>3, <1>5 DEF GroupsInv, GroupsTyped

-----------------------------------------------------------------------------
\* The actions of Groups.
LEMMA PutAgreement ==
  ASSUME GroupsInv, NEW e \in Admins, PutGroup(e)
  PROVE  GroupsInv'
<1>1. PICK g \in GroupNames, new \in SUBSET Users : g = edit[e].group /\ new = edit[e].members
  BY DEF PutGroup, GroupsInv, GroupsTyped, EditTyped, EditRecord
<1>2. new # Absent
  BY GroupsAssumption
<1>3. /\ edit[e].step # "members" /\ group' = [group EXCEPT ![g] = new]
      /\ Continuing(e, g, new \ MembersOf(g), MembersOf(g) \ new) /\ Crossing(g)
      /\ UNCHANGED <<membership, account>>
  BY <1>1 DEF PutGroup
<1> QED
  BY <1>2, <1>3, ReplacedAgreement

LEMMA RemoveAgreement ==
  ASSUME GroupsInv, NEW e \in Admins, NEW g \in GroupNames, RemoveGroup(e, g)
  PROVE  GroupsInv'
<1>1. PICK m \in SUBSET Users : m = {}
  OBVIOUS
<1>2. m \ MembersOf(g) = {} /\ MembersOf(g) \ m = MembersOf(g)
  BY <1>1
<1>3. /\ edit[e].step # "members" /\ group' = [group EXCEPT ![g] = Absent]
      /\ Continuing(e, g, m \ MembersOf(g), MembersOf(g) \ m) /\ Crossing(g)
      /\ UNCHANGED <<membership, account>>
  BY <1>2 DEF RemoveGroup
<1> QED
  BY <1>1, <1>3, ReplacedAgreement

LEMMA AddAgreement ==
  ASSUME GroupsInv, NEW e \in Admins, NEW u \in Users, AddMember(e, u)
  PROVE  GroupsInv'
<1>0. u \in edit[e].add /\ EditTyped(edit[e])
  BY DEF AddMember, GroupsInv, GroupsTyped
<1>1. PICK g \in GroupNames : g = edit[e].group
  BY <1>0 DEF EditTyped
<1>2. edit[e].step = "members" /\ u \notin edit[e].drop
  BY <1>0 DEF EditTyped
<1>3. e \in Changing(g)
  BY <1>1, <1>2 DEF Changing
<1>4. Continuing(e, g, edit[e].add \ {u}, edit[e].drop \ {u})
  <2>1. edit[e].drop \ {u} = edit[e].drop
    BY <1>2
  <2> QED
    BY <1>1, <2>1 DEF AddMember
<1>5. membership' = [membership EXCEPT ![u] = GroupsOf(u) \cup {g}]
      /\ UNCHANGED <<group, account, crossed>>
  BY <1>1 DEF AddMember
<1>6. GroupsOf(u) \in SUBSET GroupNames /\ GroupsOf(u) \cup {g} \in SUBSET GroupNames
  BY OfTyped DEF GroupsInv
<1>7. membership' \in [Users -> {Absent} \cup SUBSET GroupNames]
  BY <1>5, <1>6 DEF GroupsInv, GroupsTyped
<1>8. GroupsOf(u)' = GroupsOf(u) \cup {g} /\ \A v \in Users \ {u} : GroupsOf(v)' = GroupsOf(v)
  BY <1>5, <1>6, GroupsAssumption DEF GroupsOf, GroupsInv, GroupsTyped
<1>9. <<g, u>> \notin crossed => Agree(g, u)'
  <2>1. <<g, u>> \notin crossed => u \in MembersOf(g)
    BY <1>0, <1>3 DEF GroupsInv, EditsKnow, Differs
  <2>2. MembersOf(g)' = MembersOf(g)
    BY <1>5 DEF MembersOf
  <2> QED
    BY <1>8, <2>1, <2>2 DEF Agree
<1> QED
  BY <1>0, <1>3, <1>4, <1>5, <1>7, <1>8, <1>9, WorkedAgreement

LEMMA DropAgreement ==
  ASSUME GroupsInv, NEW e \in Admins, NEW u \in Users, DropMember(e, u)
  PROVE  GroupsInv'
<1>0. u \in edit[e].drop /\ edit[e].add = {} /\ EditTyped(edit[e])
  BY DEF DropMember, GroupsInv, GroupsTyped
<1>1. PICK g \in GroupNames : g = edit[e].group
  BY <1>0 DEF EditTyped
<1>2. edit[e].step = "members"
  BY <1>0 DEF EditTyped
<1>3. e \in Changing(g)
  BY <1>1, <1>2 DEF Changing
<1>4. Continuing(e, g, edit[e].add \ {u}, edit[e].drop \ {u})
  <2>1. edit[e].add \ {u} = {}
    BY <1>0
  <2> QED
    BY <1>1, <2>1 DEF DropMember
<1>5. UNCHANGED <<group, account, crossed>>
  BY DEF DropMember
<1>6. /\ membership' \in [Users -> {Absent} \cup SUBSET GroupNames]
      /\ GroupsOf(u)' = GroupsOf(u) \ {g}
      /\ \A v \in Users \ {u} : GroupsOf(v)' = GroupsOf(v)
  <2>1. CASE membership[u] = Absent
    BY <1>1, <2>1 DEF DropMember, GroupsOf, GroupsInv, GroupsTyped
  <2>2. CASE membership[u] # Absent
    <3>1. membership' = [membership EXCEPT ![u] = membership[u] \ {g}]
      BY <1>1, <2>2 DEF DropMember, GroupsInv, GroupsTyped
    <3>2. membership[u] \in SUBSET GroupNames /\ membership[u] \ {g} \in SUBSET GroupNames
      BY <2>2 DEF GroupsInv, GroupsTyped
    <3> QED
      BY <2>2, <3>1, <3>2, GroupsAssumption DEF GroupsOf, GroupsInv, GroupsTyped
  <2> QED
    BY <2>1, <2>2
<1>7. <<g, u>> \notin crossed => Agree(g, u)'
  <2>1. <<g, u>> \notin crossed => u \notin MembersOf(g)
    BY <1>0, <1>3 DEF GroupsInv, EditsKnow, Differs
  <2>2. MembersOf(g)' = MembersOf(g)
    BY <1>5 DEF MembersOf
  <2> QED
    BY <1>6, <2>1, <2>2 DEF Agree
<1> QED
  BY <1>0, <1>3, <1>4, <1>5, <1>6, <1>7, WorkedAgreement

LEMMA SetGroupAgreement ==
  ASSUME GroupsInv, NEW e \in Admins, NEW g \in GroupNames, NEW m \in SUBSET Users,
         NEW o \in BOOLEAN, SetGroup(e, g, m, o)
  PROVE  GroupsInv'
<1>1. \E d : Becomes(e, d) /\ d.step # "members"
  <2>1. CASE group[g] # Absent /\ ~o
    BY <2>1, IdleTyped DEF SetGroup, Becomes
  <2>2. CASE ~(group[g] # Absent /\ ~o)
    <3> DEFINE d == [Idle EXCEPT !.step = "put", !.group = g, !.members = m, !.overwrite = o]
    <3>1. edit' = [edit EXCEPT ![e] = d]
      BY <2>2 DEF SetGroup
    <3>2. EditTyped(d) /\ d.step = "put"
      BY PuttingTyped DEF Idle
    <3> QED
      BY <3>1, <3>2 DEF Becomes
  <2> QED
    BY <2>1, <2>2
<1>2. PICK d : Becomes(e, d) /\ d.step # "members"
  BY <1>1
<1>3. \A h : e \notin Changing(h)
  BY DEF SetGroup, Changing
<1>4. UNCHANGED <<group, membership, account, crossed>>
  BY DEF SetGroup
<1>5. EditsKnow'
  BY <1>2, <1>3, <1>4, AgreementKept
<1> QED
  BY <1>2, <1>4, <1>5, BecomesTyped DEF GroupsInv, GroupsTyped

LEMMA InterruptAgreement ==
  ASSUME GroupsInv, NEW e \in Admins, Interrupt(e)
  PROVE  GroupsInv'
<1>1. Becomes(e, Idle) /\ Idle.step # "members"
  BY IdleTyped DEF Interrupt, Becomes
<1>2. UNCHANGED <<group, membership, account>>
      /\ crossed' = crossed \cup ({edit[e].group} \X (edit[e].add \cup edit[e].drop))
  BY DEF Interrupt
<1>3. EditTyped(edit[e]) /\ edit[e].step \in {"put", "members"}
  BY DEF Interrupt, GroupsInv, GroupsTyped, EditTyped, EditRecord
<1>4. crossed' \subseteq GroupNames \X Users
  BY <1>2, <1>3 DEF EditTyped, EditRecord, GroupsInv, GroupsTyped
<1>5. \A g \in GroupNames, u \in Users :
        e \in Changing(g) /\ u \in edit[e].add \cup edit[e].drop => <<g, u>> \in crossed'
  BY <1>2 DEF Changing
<1>6. EditsKnow'
  BY <1>1, <1>2, <1>5, AgreementKept
<1> QED
  BY <1>1, <1>2, <1>4, <1>6, BecomesTyped DEF GroupsInv, GroupsTyped

\* A membership is written past the group, and the user is crossed in all of
\* them.
LEMMA OverwrittenAgreement ==
  ASSUME GroupsInv, NEW u \in Users, UNCHANGED <<group, edit>>,
         membership' \in [Users -> {Absent} \cup SUBSET GroupNames],
         \A v \in Users \ {u} : membership'[v] = membership[v],
         crossed \subseteq crossed',
         \A g \in GroupNames : <<g, u>> \in crossed' \/ (GroupsOf(u)' = GroupsOf(u))
  PROVE  EditsKnow'
<1>1. \A g : Changing(g)' = Changing(g) /\ MembersOf(g)' = MembersOf(g)
  BY DEF Changing, MembersOf
<1>2. \A g \in GroupNames, v \in Users : <<g, v>> \notin crossed' => GroupsOf(v)' = GroupsOf(v)
  BY DEF GroupsOf
<1> QED
  BY <1>1, <1>2 DEF GroupsInv, EditsKnow, Differs, Agree

LEMMA LoginAgreement ==
  ASSUME GroupsInv, NEW u \in Users, NEW gs \in SUBSET GroupNames, SetUserGroupMembership(u, gs)
  PROVE  GroupsInv'
<1>1. /\ UNCHANGED <<group, account, edit>>
      /\ membership' = [membership EXCEPT ![u] = gs]
      /\ crossed' = crossed \cup (GroupNames \X {u})
  BY DEF SetUserGroupMembership
<1>2. /\ membership' \in [Users -> {Absent} \cup SUBSET GroupNames]
      /\ \A v \in Users \ {u} : membership'[v] = membership[v]
  BY <1>1 DEF GroupsInv, GroupsTyped
<1>3. EditsKnow'
  BY <1>1, <1>2, OverwrittenAgreement
<1> QED
  BY <1>1, <1>2, <1>3 DEF GroupsInv, GroupsTyped

LEMMA CreateAgreement ==
  ASSUME GroupsInv, NEW u \in Users, CreateUser(u)
  PROVE  GroupsInv'
<1>1. /\ UNCHANGED <<group, edit>> /\ account' = account \cup {u}
      /\ membership' = [membership EXCEPT ![u] = {}]
      /\ crossed' = IF membership[u] = Absent /\ \A e \in Admins : edit[e].step # "members"
                    THEN crossed ELSE crossed \cup (GroupNames \X {u})
  BY DEF CreateUser
<1>2. /\ membership' \in [Users -> {Absent} \cup SUBSET GroupNames]
      /\ \A v \in Users \ {u} : membership'[v] = membership[v] /\ membership'[u] = {}
  BY <1>1 DEF GroupsInv, GroupsTyped
<1>3. membership'[u] = {}
  BY <1>1 DEF GroupsInv, GroupsTyped
<1>4. GroupsOf(u)' = {}
  BY <1>3 DEF GroupsOf
<1>5. \A g \in GroupNames : <<g, u>> \in crossed' \/ (GroupsOf(u)' = GroupsOf(u))
  <2>1. CASE membership[u] = Absent
    BY <1>4, <2>1 DEF GroupsOf
  <2>2. CASE membership[u] # Absent
    BY <1>1, <2>2
  <2> QED
    BY <2>1, <2>2
<1>6. EditsKnow'
  BY <1>1, <1>2, <1>5, OverwrittenAgreement
<1> QED
  BY <1>1, <1>2, <1>6 DEF GroupsInv, GroupsTyped

LEMMA GroupsUnchanged ==
  ASSUME GroupsInv, UNCHANGED <<group, membership, account, edit, crossed>>
  PROVE  GroupsInv'
BY DEF GroupsInv, GroupsTyped, EditsKnow, Changing, Agree, Differs, MembersOf, GroupsOf

LEMMA StepGroups == GroupsInv /\ [Next]_vars => GroupsInv'
<1> SUFFICES ASSUME GroupsInv, [Next]_vars PROVE GroupsInv'
  OBVIOUS
<1> USE DEF groups, etcd
<1>1. CASE ChangeGroups
  BY <1>1, RemoveAgreement, SetGroupAgreement, InterruptAgreement, LoginAgreement DEF ChangeGroups
<1>2. ASSUME NEW e \in Admins, EditGroups(e) PROVE GroupsInv'
  BY <1>2, PutAgreement, AddAgreement, DropAgreement DEF EditGroups, EditStep
<1>3. ASSUME NEW u \in Users, NewUser(u) PROVE GroupsInv'
  BY <1>3, CreateAgreement DEF NewUser
<1>4. ASSUME NEW e \in Effects, NEW a \in Acls, NEW o \in BOOLEAN, SetAcl(e, a, o) PROVE GroupsInv'
  BY <1>4, GroupsUnchanged DEF SetAcl
<1>5. ASSUME NEW e \in Effects, RemoveAcl(e) PROVE GroupsInv'
  BY <1>5, GroupsUnchanged DEF RemoveAcl
<1>6. ASSUME NEW a \in Acls, SetDNS(a) PROVE GroupsInv'
  BY <1>6, GroupsUnchanged DEF SetDNS
<1>7. CASE Handle
  BY <1>7, GroupsUnchanged DEF Handle, RefreshUser, RefreshNext, ReadForNewUser, AddUser,
     RefreshConfiguration, Install
<1>8. CASE UNCHANGED vars
  BY <1>8, GroupsUnchanged DEF vars
<1>9. ASSUME NEW u \in Users, LockAccount(u) PROVE GroupsInv'
  BY <1>9, GroupsUnchanged DEF LockAccount
<1> QED
  BY <1>1, <1>2, <1>3, <1>4, <1>5, <1>6, <1>7, <1>8, <1>9 DEF Next

LEMMA InitGroupsInv == Init => GroupsInv
<1> SUFFICES ASSUME Init PROVE GroupsInv
  OBVIOUS
<1>1. account \subseteq Users /\ group \in [GroupNames -> {Absent, account}] /\ crossed = {}
  BY DEF Init, InitGroups
<1>2. group \in [GroupNames -> {Absent} \cup SUBSET Users]
  BY <1>1
<1>3. membership = [u \in Users |->
        IF u \in account THEN {g \in GroupNames : u \in MembersOf(g)} ELSE Absent]
  BY DEF Init, InitGroups
<1>4. membership \in [Users -> {Absent} \cup SUBSET GroupNames]
  BY <1>3
<1>5. \A e \in Admins : edit[e] = Idle /\ EditTyped(edit[e])
  BY IdleTyped DEF Init, InitGroups
<1>6. edit \in [Admins -> EditRecord]
  BY IdleTyped DEF EditTyped, Init, InitGroups
<1>7. \A g \in GroupNames, u \in Users : Agree(g, u)
  <2> SUFFICES ASSUME NEW g \in GroupNames, NEW u \in Users PROVE Agree(g, u)
    OBVIOUS
  <2>1. u \in MembersOf(g) => u \in account
    BY <1>1 DEF MembersOf
  <2>2. CASE u \in account
    <3>1. membership[u] = {h \in GroupNames : u \in MembersOf(h)}
      BY <1>3, <2>2
    <3>2. membership[u] # Absent
      BY <3>1, GroupsAssumption
    <3> QED
      BY <3>1, <3>2 DEF Agree, GroupsOf
  <2>3. CASE u \notin account
    BY <1>3, <2>1, <2>3 DEF Agree, GroupsOf
  <2> QED
    BY <2>2, <2>3
<1>8. EditsKnow
  BY <1>5, <1>7, IdleTyped DEF EditsKnow, Changing
<1> QED
  BY <1>1, <1>2, <1>4, <1>5, <1>6, <1>8 DEF GroupsInv, GroupsTyped

\* MembershipsAgree: SetGroup and RemoveGroup write the group and then one
\* membership after another, while others edit, and still group and membership
\* say the same once nobody is changing the group, for any number of editors;
\* but for pairs two edits crossed in, or a login wrote over.
THEOREM MembershipTheorem == Spec => []MembershipsAgree
<1>1. GroupsInv => MembershipsAgree
  BY DEF GroupsInv, EditsKnow, Agree, MembershipsAgree
<1> QED
  BY InitGroupsInv, StepGroups, <1>1, PTL DEF Spec

-----------------------------------------------------------------------------
(***************************************************************************)
(* TypeOK.                                                                 *)
(***************************************************************************)

\* The users whose refresh an edit of groups brings are users.
LEMMA NotifyTyped ==
  ASSUME TypeInv, GroupsTyped', account \subseteq account', Notify
  PROVE  /\ acl' = acl /\ dns' = dns /\ todo' \subseteq account' /\ stale' = stale
         /\ refreshAll' = refreshAll /\ reading' = reading /\ known' \subseteq account'
         /\ installed' = installed /\ pending \subseteq pending' /\ pending' \subseteq Users
<1>1. Touched \subseteq Users
  <2>1. \A g \in GroupNames : MembersOf(g)' \subseteq Users
    BY DEF GroupsTyped, MembersOf
  <2> QED
    BY <2>1 DEF Touched
<1>2. \A g \in GroupNames : MembersOf(g) \subseteq Users
  BY OfTyped DEF TypeInv
<1> QED
  BY <1>1, <1>2 DEF Notify, TypeInv, NodeTyped

LEMMA InitTypes == Init => TypeInv
<1> SUFFICES ASSUME Init PROVE TypeInv
  OBVIOUS
<1>1. GroupsTyped
  BY InitGroupsInv DEF GroupsInv
<1>2. acl \in [Effects -> Acls \cup {Absent}] /\ dns \in Acls \cup {Absent}
  BY AclsAssumption DEF Init
<1>3. /\ pending \subseteq Users /\ todo \subseteq account /\ stale \subseteq Users
      /\ known \subseteq account
      /\ refreshAll \in BOOLEAN
      /\ reading \in [user: Users \cup {Absent}, groups: SUBSET GroupNames, lists: Installable]
      /\ reading = NotReading
      /\ adding \in [Users -> AddingRecord] /\ \A u \in Users : adding[u] = NotAdding
  BY DEF Init, NotReading, NotAdding, Installable, AddingRecord
<1>4. ASSUME NEW u \in Users PROVE EffectiveAcl(u) \in Installable
  <2>1. \A K \in SUBSET Effects : Lists(K) \in Installable
    BY <1>2 DEF Lists, Installable, Sources
  <2>2. GroupsOf(u) \in SUBSET Effects /\ {Default, u} \in SUBSET Effects
    BY <1>1, OfTyped DEF Effects
  <2>3. dns = Absent
    BY DEF Init
  <2>4. EffectiveAcl(u) = Lists({Default, u}) \cup Lists(GroupsOf(u))
    BY <2>3 DEF EffectiveAcl, OwnLists
  <2> QED
    BY <2>1, <2>2, <2>4 DEF Installable
<1>5. installed \in [Users -> Installable]
  BY <1>4 DEF Init, Installable
<1> QED
  BY <1>1, <1>2, <1>3, <1>5 DEF TypeInv, NodeTyped

\* What a failed reading leaves.
LEMMA FailedTyped ==
  ASSUME NodeTyped, NEW u \in Users, ReadFailed(u)
  PROVE  /\ reading' = NotReading /\ installed' \in [Users -> Installable]
         /\ stale' \subseteq Users
         /\ NotReading \in [user: Users \cup {Absent}, groups: SUBSET GroupNames, lists: Installable]
<1>1. {} \in Installable
  BY DEF Installable
<1> QED
  BY <1>1 DEF ReadFailed, NodeTyped, NotReading

\* The steps of the node.
LEMMA HandleTypes ==
  ASSUME TypeInv, Handle
  PROVE  NodeTyped'
<1> USE DEF groups, etcd
<1>1. ASSUME NEW u \in Users, RefreshUser(u) \/ RefreshNext(u) PROVE NodeTyped'
  <2>1. CASE Reading(u)
    <3>1. GroupsOf(u) \in SUBSET GroupNames /\ OwnLists(u) \in Installable
      BY OfTyped, OwnTyped DEF TypeInv
    <3>2. /\ reading' \in [user: Users \cup {Absent}, groups: SUBSET GroupNames, lists: Installable]
          /\ reading'.user \in Users
      BY <2>1, <3>1 DEF Reading
    <3> QED
      BY <1>1, <2>1, <3>2 DEF RefreshUser, RefreshNext, Reading, TypeInv, NodeTyped
  <2>2. CASE ReadFailed(u)
    BY <1>1, <2>2, FailedTyped DEF RefreshUser, RefreshNext, TypeInv, NodeTyped
  <2> QED
    BY <1>1, <2>1, <2>2 DEF RefreshUser, RefreshNext
<1>2. ASSUME NEW u \in Users, ReadForNewUser(u) PROVE NodeTyped'
  <2>1. GroupsOf(u) \in SUBSET GroupNames /\ OwnLists(u) \in Installable
    BY OfTyped, OwnTyped DEF TypeInv
  <2>2. adding[u] \in AddingRecord
    BY DEF TypeInv, NodeTyped
  <2>3. adding[u].lists \cup Lists(adding[u].groups) \in Installable
    BY <2>2, ListsTyped DEF TypeInv, Effects, AddingRecord, Installable
  <2>4. [step |-> "groups", groups |-> GroupsOf(u), lists |-> OwnLists(u)] \in AddingRecord
    BY <2>1 DEF AddingRecord
  <2>5. /\ [NotAdding EXCEPT !.step = "add"] \in AddingRecord
        /\ [NotAdding EXCEPT !.step = "add",
              !.lists = adding[u].lists \cup Lists(adding[u].groups)] \in AddingRecord
    BY <2>3 DEF AddingRecord, NotAdding, Installable
  <2>6. adding' \in [Users -> AddingRecord]
    BY <1>2, <2>4, <2>5 DEF ReadForNewUser, TypeInv, NodeTyped
  <2>7. u \in account /\ \A v \in Users \ {u} : adding'[v] = adding[v]
    BY <1>2 DEF ReadForNewUser, TypeInv, NodeTyped, NotAdding
  <2> QED
    BY <1>2, <2>6, <2>7 DEF ReadForNewUser, TypeInv, NodeTyped
<1>3. ASSUME NEW u \in Users, AddUser(u) PROVE NodeTyped'
  <2>1. NotAdding \in AddingRecord /\ adding[u].lists \in Installable
    BY DEF AddingRecord, NotAdding, Installable, TypeInv, NodeTyped
  <2>2. adding' \in [Users -> AddingRecord]
    BY <1>3, <2>1 DEF AddUser, TypeInv, NodeTyped
  <2>3. installed' \in [Users -> Installable]
    BY <1>3, <2>1 DEF AddUser, TypeInv, NodeTyped
  <2>4. u \in account /\ adding'[u] = NotAdding /\ \A v \in Users \ {u} : adding'[v] = adding[v]
    BY <1>3 DEF AddUser, TypeInv, NodeTyped, NotAdding
  <2> QED
    BY <1>3, <2>2, <2>3, <2>4 DEF AddUser, TypeInv, NodeTyped
<1>4. CASE RefreshConfiguration
  BY <1>4 DEF RefreshConfiguration, TypeInv, NodeTyped
<1>5. CASE Install
  <2>1. reading.user \in Users /\ reading.lists \in Installable /\ reading.groups \in SUBSET GroupNames
    BY <1>5 DEF Install, TypeInv, NodeTyped
  <2>2. CASE ReadFailed(reading.user)
    BY <1>5, <2>1, <2>2, FailedTyped DEF Install, TypeInv, NodeTyped
  <2>3. CASE ~ReadFailed(reading.user)
    <3>1. Lists(reading.groups) \in Installable
      BY <2>1, ListsTyped DEF TypeInv, Effects
    <3>2. reading.lists \cup Lists(reading.groups) \in Installable
      BY <2>1, <3>1 DEF Installable
    <3>3. installed' \in [Users -> Installable]
      BY <1>5, <2>3, <3>2 DEF Install, TypeInv, NodeTyped
    <3>4. NotReading \in [user: Users \cup {Absent}, groups: SUBSET GroupNames, lists: Installable]
      BY DEF NotReading, Installable
    <3> QED
      BY <1>5, <2>3, <3>3, <3>4 DEF Install, TypeInv, NodeTyped
  <2> QED
    BY <2>2, <2>3
<1> QED
  BY <1>1, <1>2, <1>3, <1>4, <1>5 DEF Handle

LEMMA AccountGrows == [Next]_vars => account \subseteq account'
BY DEF Next, ChangeGroups, RemoveGroup, SetGroup, Interrupt, SetUserGroupMembership, EditGroups,
   EditStep, PutGroup, AddMember, DropMember, NewUser, CreateUser, SetAcl, RemoveAcl, SetDNS,
   LockAccount, Handle, RefreshUser, RefreshNext, ReadForNewUser, AddUser, RefreshConfiguration, Install,
   vars, etcd, groups

LEMMA StepTypes == TypeInv /\ EditsKnow /\ [Next]_vars => TypeInv'
<1> SUFFICES ASSUME TypeInv, EditsKnow, [Next]_vars PROVE NodeTyped'
  BY StepGroups DEF TypeInv, GroupsInv
<1> USE DEF groups, etcd
<1>0. GroupsTyped' /\ account \subseteq account'
  BY StepGroups, AccountGrows DEF TypeInv, GroupsInv
<1>1. CASE ChangeGroups
  BY <1>0, <1>1, NotifyTyped DEF ChangeGroups, TypeInv, NodeTyped
<1>2. ASSUME NEW e \in Admins, EditGroups(e) PROVE NodeTyped'
  BY <1>0, <1>2, NotifyTyped DEF EditGroups, TypeInv, NodeTyped
<1>3. ASSUME NEW u \in Users, NewUser(u) PROVE NodeTyped'
  <2>1. [NotAdding EXCEPT !.step = "event"] \in AddingRecord
    BY DEF AddingRecord, NotAdding, Installable
  <2>2. adding' \in [Users -> AddingRecord]
    BY <1>3, <2>1 DEF NewUser, TypeInv, NodeTyped
  <2>3. u \in account' /\ \A v \in Users \ {u} : adding'[v] = adding[v]
    BY <1>3 DEF NewUser, CreateUser, TypeInv, NodeTyped
  <2> QED
    BY <1>0, <1>3, <2>2, <2>3, NotifyTyped DEF NewUser, TypeInv, NodeTyped
<1>4. ASSUME NEW e \in Effects, NEW a \in Acls, NEW o \in BOOLEAN, SetAcl(e, a, o) PROVE NodeTyped'
  BY <1>4 DEF SetAcl, TypeInv, NodeTyped
<1>5. ASSUME NEW e \in Effects, RemoveAcl(e) PROVE NodeTyped'
  <2>1. acl' \in [Effects -> Acls \cup {Absent}] /\ refreshAll' \in BOOLEAN
    BY <1>5 DEF RemoveAcl, TypeInv, NodeTyped
  <2> QED
    BY <1>5, <2>1 DEF RemoveAcl, TypeInv, NodeTyped
<1>6. ASSUME NEW a \in Acls, SetDNS(a) PROVE NodeTyped'
  BY <1>6 DEF SetDNS, TypeInv, NodeTyped
<1>7. CASE Handle
  BY <1>7, HandleTypes
<1>8. CASE UNCHANGED vars
  BY <1>8 DEF vars, TypeInv, NodeTyped
<1>9. ASSUME NEW u \in Users, LockAccount(u) PROVE NodeTyped'
  BY <1>9 DEF LockAccount, TypeInv, NodeTyped
<1> QED
  BY <1>1, <1>2, <1>3, <1>4, <1>5, <1>6, <1>7, <1>8, <1>9 DEF Next

\* TypeOK: an editor at the memberships has some left to change and none both
\* ways, RefreshConfiguration refreshes users there are, and only access lists
\* of known effects are ever installed, whatever the order of the handlers.
THEOREM PoliciesTypeTheorem == Spec => []TypeOK
<1>1. Init => TypeInv /\ EditsKnow
  BY InitTypes, InitGroupsInv DEF GroupsInv
<1>2. TypeInv /\ EditsKnow /\ [Next]_vars => TypeInv' /\ EditsKnow'
  BY StepTypes, StepGroups DEF TypeInv, GroupsInv
<1>3. TypeInv => TypeOK
  BY DEF TypeInv, GroupsTyped, NodeTyped, EditTyped, Installable, TypeOK
<1> QED
  BY <1>1, <1>2, <1>3, PTL DEF Spec

-----------------------------------------------------------------------------
(***************************************************************************)
(* InstalledIsCurrent.                                                     *)
(***************************************************************************)

\* Whose groups and lists a write leaves alone, or brings a refresh to.
LEMMA WriteCurrent ==
  ASSUME TypeInv, CurrentInv, TypeInv',
         UNCHANGED <<reading, todo, known, installed>>,
         pending \subseteq pending', stale \subseteq stale', refreshAll => refreshAll',
         \A u \in Users : adding'[u] # adding[u] => adding'[u] # NotAdding,
         \A u \in account' \ account : adding'[u] # NotAdding,
         \A u \in Users : \/ u \in pending' \cup stale' \/ refreshAll'
                          \/ /\ GroupsOf(u)' = GroupsOf(u) /\ OwnLists(u)' = OwnLists(u)
                             /\ EffectiveAcl(u)' = EffectiveAcl(u)
  PROVE  CurrentInv'
<1>1. ReadingCurrent'
  <2> SUFFICES ASSUME reading # NotReading, reading.user \notin pending' \cup stale', ~refreshAll'
               PROVE  /\ reading.groups = GroupsOf(reading.user)'
                      /\ reading.lists = OwnLists(reading.user)'
    BY DEF ReadingCurrent
  <2>1. PICK u \in Users : u = reading.user
    BY DEF TypeInv, NodeTyped
  <2>2. GroupsOf(u)' = GroupsOf(u) /\ OwnLists(u)' = OwnLists(u)
    BY <2>1
  <2>3. reading.groups = GroupsOf(u) /\ reading.lists = OwnLists(u)
    BY <2>1 DEF CurrentInv, ReadingCurrent
  <2>4. reading'.user = u
    BY <2>1
  <2>5. GroupsOf(reading.user)' = GroupsOf(u)' /\ OwnLists(reading.user)' = OwnLists(u)'
    BY <2>4 DEF GroupsOf, OwnLists
  <2> QED
    BY <2>2, <2>3, <2>5
<1>2. InstalledOrToCome'
  <2> SUFFICES ASSUME NEW u \in account', ~ToCome(u)', u \notin stale'
               PROVE  installed[u] = EffectiveAcl(u)'
    BY DEF InstalledOrToCome
  <2>1. u \in Users
    BY DEF TypeInv, GroupsTyped
  <2>2. /\ u \notin pending' /\ u \notin todo /\ reading.user # u /\ ~refreshAll'
        /\ adding'[u] = NotAdding \/ u \in known
    BY DEF ToCome
  <2>3. u \in account /\ u \notin stale /\ ~ToCome(u)
    BY <2>1, <2>2 DEF ToCome, TypeInv, NodeTyped
  <2>4. installed[u] = EffectiveAcl(u)
    BY <2>3 DEF CurrentInv, InstalledOrToCome
  <2> QED
    BY <2>1, <2>2, <2>4
<1> QED
  BY <1>1, <1>2 DEF CurrentInv

\* A change of groups brings a refresh to everyone whose membership changes.
LEMMA NotifyCurrent ==
  ASSUME TypeInv, CurrentInv, TypeInv', account \subseteq account', Notify,
         \A u \in Users : adding'[u] # adding[u] => adding'[u] # NotAdding,
         \A u \in account' \ account : adding'[u] # NotAdding
  PROVE  CurrentInv'
<1>1. /\ acl' = acl /\ dns' = dns /\ todo' = todo /\ stale' = stale
      /\ refreshAll' = refreshAll /\ reading' = reading /\ known' = known /\ installed' = installed
      /\ pending \subseteq pending'
  BY DEF Notify
<1>2. ASSUME NEW u \in Users, u \notin pending'
      PROVE  /\ GroupsOf(u)' = GroupsOf(u) /\ OwnLists(u)' = OwnLists(u)
             /\ EffectiveAcl(u)' = EffectiveAcl(u)
  <2>1. membership'[u] = membership[u]
    BY <1>2 DEF Notify, Touched
  <2>2. GroupsOf(u)' = GroupsOf(u)
    BY <2>1 DEF GroupsOf
  <2>3. OwnLists(u)' = OwnLists(u) /\ Lists(GroupsOf(u))' = Lists(GroupsOf(u))
    BY <1>1, <2>2 DEF OwnLists, Lists
  <2> QED
    BY <2>2, <2>3 DEF EffectiveAcl
<1> QED
  BY <1>1, <1>2, WriteCurrent

\* A change of the access lists or of the DNS servers reaches everyone, or
\* nothing has changed.
LEMMA ListsCurrent ==
  ASSUME TypeInv, CurrentInv, TypeInv', UNCHANGED <<group, membership, account, adding>>,
         UNCHANGED <<reading, todo, known, installed, pending>>,
         stale \subseteq stale', refreshAll => refreshAll',
         \/ refreshAll'
         \/ Users \subseteq stale'
         \/ acl' = acl /\ dns' = dns
  PROVE  CurrentInv'
<1>1. ASSUME NEW u \in Users, u \notin stale', ~refreshAll'
      PROVE  /\ GroupsOf(u)' = GroupsOf(u) /\ OwnLists(u)' = OwnLists(u)
             /\ EffectiveAcl(u)' = EffectiveAcl(u)
  <2>1. acl' = acl /\ dns' = dns
    BY <1>1
  <2>2. GroupsOf(u)' = GroupsOf(u)
    BY DEF GroupsOf
  <2>3. OwnLists(u)' = OwnLists(u) /\ Lists(GroupsOf(u))' = Lists(GroupsOf(u))
    BY <2>1, <2>2 DEF OwnLists, Lists
  <2> QED
    BY <2>2, <2>3 DEF EffectiveAcl
<1> QED
  BY <1>1, WriteCurrent

\* Nothing in etcd changes.
LEMMA SameLists ==
  UNCHANGED etcd =>
    \A u : /\ GroupsOf(u)' = GroupsOf(u) /\ OwnLists(u)' = OwnLists(u)
          /\ EffectiveAcl(u)' = EffectiveAcl(u)
BY DEF etcd, groups, GroupsOf, OwnLists, EffectiveAcl, Lists

\* A refresh reads what is there now.
LEMMA ReadingNext ==
  ASSUME TypeInv, CurrentInv, NEW u \in Users, reading = NotReading, Reading(u),
         UNCHANGED etcd, UNCHANGED <<refreshAll, adding>>,
         known \subseteq known', known' \subseteq known \cup {u},
         pending \subseteq pending' \cup {u}, todo \subseteq todo' \cup {u}
  PROVE  CurrentInv'
<1>1. /\ reading'.user = u /\ reading'.groups = GroupsOf(u) /\ reading'.lists = OwnLists(u)
      /\ stale' = stale \ {u} /\ installed' = installed
  BY DEF Reading
<1>2. ReadingCurrent'
  <2>1. GroupsOf(reading.user)' = GroupsOf(u) /\ OwnLists(reading.user)' = OwnLists(u)
    BY <1>1, SameLists DEF GroupsOf, OwnLists, etcd, groups, Lists
  <2> QED
    BY <1>1, <2>1 DEF ReadingCurrent
<1>3. InstalledOrToCome'
  <2> SUFFICES ASSUME NEW v \in account, ~ToCome(v)', v \notin stale'
               PROVE  installed[v] = EffectiveAcl(v)
    BY <1>1, SameLists DEF InstalledOrToCome, etcd, groups
  <2>1. v # u /\ v \in Users
    BY <1>1 DEF ToCome, TypeInv, GroupsTyped
  <2>2. ~ToCome(v) /\ v \notin stale
    BY <1>1, <2>1, GroupsAssumption DEF ToCome, NotReading
  <2> QED
    BY <2>2 DEF CurrentInv, InstalledOrToCome
<1> QED
  BY <1>2, <1>3 DEF CurrentInv

\* A reading that fails leaves a list that is old, and says so.
LEMMA FailedCurrent ==
  ASSUME TypeInv, CurrentInv, NEW u \in Users, ReadFailed(u),
         reading = NotReading \/ reading.user = u,
         UNCHANGED etcd, UNCHANGED <<refreshAll, adding>>,
         known \subseteq known', known' \subseteq known \cup {u},
         pending \subseteq pending' \cup {u}, todo \subseteq todo' \cup {u}
  PROVE  CurrentInv'
<1>1. /\ reading' = NotReading /\ stale' = stale \cup {u}
      /\ \A v \in Users \ {u} : installed'[v] = installed[v]
  BY DEF ReadFailed, TypeInv, NodeTyped
<1>2. InstalledOrToCome'
  <2> SUFFICES ASSUME NEW v \in account, ~ToCome(v)', v \notin stale'
               PROVE  installed'[v] = EffectiveAcl(v)
    BY SameLists DEF InstalledOrToCome, etcd, groups
  <2>1. v # u /\ v \in Users
    BY <1>1 DEF TypeInv, GroupsTyped
  <2>2. ~ToCome(v) /\ v \notin stale
    BY <1>1, <2>1, GroupsAssumption DEF ToCome, NotReading
  <2> QED
    BY <1>1, <2>1, <2>2 DEF CurrentInv, InstalledOrToCome
<1> QED
  BY <1>1, <1>2 DEF CurrentInv, ReadingCurrent

LEMMA HandleCurrent ==
  ASSUME TypeInv, CurrentInv, Handle
  PROVE  CurrentInv'
<1>1. ASSUME NEW u \in Users, RefreshUser(u) PROVE CurrentInv'
  BY <1>1, ReadingNext, FailedCurrent DEF RefreshUser
<1>2. ASSUME NEW u \in Users, RefreshNext(u) PROVE CurrentInv'
  BY <1>2, ReadingNext, FailedCurrent DEF RefreshNext
<1>3. ASSUME NEW u \in Users, ReadForNewUser(u) PROVE CurrentInv'
  <2>1. UNCHANGED etcd /\ UNCHANGED <<pending, refreshAll, todo, reading, known, installed, stale>>
    BY <1>3 DEF ReadForNewUser
  <2>2. \A v \in Users : adding'[v] = NotAdding => adding[v] = NotAdding
    <3>1. adding'[u].step \in {"groups", "add"}
      <4> DEFINE found == adding[u].lists \cup Lists(adding[u].groups)
                 own == OwnLists(u)
                 of == GroupsOf(u)
      <4>1. \/ adding' = [adding EXCEPT ![u] = [step |-> "groups", groups |-> of, lists |-> own]]
            \/ adding' = [adding EXCEPT ![u] = [NotAdding EXCEPT !.step = "add", !.lists = found]]
            \/ adding' = [adding EXCEPT ![u] = [NotAdding EXCEPT !.step = "add"]]
        BY <1>3 DEF ReadForNewUser
      <4> HIDE DEF found, own, of
      <4>2. \A d : [adding EXCEPT ![u] = d][u] = d
        BY DEF TypeInv, NodeTyped
      <4>3. /\ [step |-> "groups", groups |-> of, lists |-> own].step = "groups"
            /\ [NotAdding EXCEPT !.step = "add", !.lists = found].step = "add"
            /\ [NotAdding EXCEPT !.step = "add"].step = "add"
        BY DEF NotAdding
      <4> QED
        BY <4>1, <4>2, <4>3
    <3>2. \A v \in Users \ {u} : adding'[v] = adding[v]
      BY <1>3 DEF ReadForNewUser, TypeInv, NodeTyped
    <3>3. NotAdding.step = "none"
      BY DEF NotAdding
    <3> QED
      BY <3>1, <3>2, <3>3
  <2>3. ReadingCurrent'
    BY <2>1, SameLists DEF CurrentInv, ReadingCurrent, etcd, groups, GroupsOf, OwnLists, Lists
  <2>4. InstalledOrToCome'
    <3> SUFFICES ASSUME NEW v \in account, ~ToCome(v)', v \notin stale
                 PROVE  installed[v] = EffectiveAcl(v)
      BY <2>1, SameLists DEF InstalledOrToCome, etcd, groups
    <3>1. v \in Users
      BY DEF TypeInv, GroupsTyped
    <3> QED
      BY <2>1, <2>2, <3>1 DEF ToCome, CurrentInv, InstalledOrToCome
  <2> QED
    BY <2>3, <2>4 DEF CurrentInv
<1>4. ASSUME NEW u \in Users, AddUser(u) PROVE CurrentInv'
  <2>1. UNCHANGED etcd /\ UNCHANGED <<pending, refreshAll, todo, reading>> /\ reading = NotReading
    BY <1>4 DEF AddUser
  <2>2. /\ known' = known \cup {u} /\ stale \subseteq stale'
        /\ \A v \in Users \ {u} : installed'[v] = installed[v] /\ adding'[v] = adding[v]
    BY <1>4 DEF AddUser, TypeInv, NodeTyped
  <2>3. \/ u \in known /\ installed'[u] = installed[u]
        \/ installed'[u] = EffectiveAcl(u) \/ refreshAll \/ u \in pending \/ u \in stale'
    BY <1>4 DEF AddUser, TypeInv, NodeTyped
  <2>4. ReadingCurrent'
    BY <2>1 DEF ReadingCurrent
  <2>5. InstalledOrToCome'
    <3> SUFFICES ASSUME NEW v \in account, ~ToCome(v)', v \notin stale'
                 PROVE  installed'[v] = EffectiveAcl(v)
      BY <2>1, SameLists DEF InstalledOrToCome, etcd, groups
    <3>1. v \in Users
      BY DEF TypeInv, GroupsTyped
    <3>2. CASE v = u
      BY <2>1, <2>2, <2>3, <3>2 DEF ToCome, CurrentInv, InstalledOrToCome
    <3>3. CASE v # u
      BY <2>1, <2>2, <2>3, <3>1, <3>3 DEF ToCome, CurrentInv, InstalledOrToCome
    <3> QED
      BY <3>2, <3>3
  <2> QED
    BY <2>4, <2>5 DEF CurrentInv
<1>5. CASE RefreshConfiguration
  <2>1. /\ UNCHANGED etcd /\ UNCHANGED <<pending, adding, reading, known, installed>>
        /\ reading = NotReading
        /\ todo' = account \/ stale' = Users
    BY <1>5 DEF RefreshConfiguration
  <2>2. InstalledOrToCome'
    BY <2>1 DEF InstalledOrToCome, ToCome, etcd, groups, TypeInv, GroupsTyped
  <2> QED
    BY <2>1, <2>2 DEF CurrentInv, ReadingCurrent
<1>6. CASE Install
  <2>1. PICK u \in Users : u = reading.user
    BY <1>6 DEF Install, TypeInv, NodeTyped
  <2>2. /\ UNCHANGED etcd /\ UNCHANGED <<pending, refreshAll, todo, adding, known>>
        /\ reading # NotReading
    BY <1>6 DEF Install
  <2>3. CASE ReadFailed(u)
    BY <2>1, <2>2, <2>3, FailedCurrent
  <2>4. CASE ~ReadFailed(u)
    <3>1. /\ reading' = NotReading /\ stale' = stale
          /\ installed'[u] = reading.lists \cup Lists(reading.groups)
          /\ \A v \in Users \ {u} : installed'[v] = installed[v]
      BY <1>6, <2>1, <2>4 DEF Install, TypeInv, NodeTyped
    <3>2. u \in pending \cup stale \/ refreshAll \/ installed'[u] = EffectiveAcl(u)
      BY <2>1, <2>2, <3>1 DEF CurrentInv, ReadingCurrent, EffectiveAcl
    <3>3. InstalledOrToCome'
      <4> SUFFICES ASSUME NEW v \in account, ~ToCome(v)', v \notin stale'
                   PROVE  installed'[v] = EffectiveAcl(v)
        BY <2>2, SameLists DEF InstalledOrToCome, etcd, groups
      <4>1. v \in Users
        BY DEF TypeInv, GroupsTyped
      <4>2. CASE v = u
        BY <2>2, <3>1, <3>2, <4>2 DEF ToCome
      <4>3. CASE v # u
        BY <2>1, <2>2, <3>1, <4>1, <4>3 DEF ToCome, CurrentInv, InstalledOrToCome
      <4> QED
        BY <4>2, <4>3
    <3> QED
      BY <3>1, <3>3 DEF CurrentInv, ReadingCurrent
  <2> QED
    BY <2>3, <2>4
<1> QED
  BY <1>1, <1>2, <1>3, <1>4, <1>5, <1>6 DEF Handle

LEMMA StepCurrent == TypeInv /\ CurrentInv /\ TypeInv' /\ [Next]_vars => CurrentInv'
<1> SUFFICES ASSUME TypeInv, CurrentInv, TypeInv', [Next]_vars PROVE CurrentInv'
  OBVIOUS
<1>0. account \subseteq account'
  BY AccountGrows
<1>1. CASE ChangeGroups
  <2>1. account' = account /\ adding' = adding /\ Notify
    BY <1>1 DEF ChangeGroups, RemoveGroup, SetGroup, Interrupt, SetUserGroupMembership
  <2> QED
    BY <2>1, NotifyCurrent
<1>2. ASSUME NEW e \in Admins, EditGroups(e) PROVE CurrentInv'
  <2>1. account' = account /\ adding' = adding /\ Notify
    BY <1>2 DEF EditGroups, EditStep, PutGroup, AddMember, DropMember
  <2> QED
    BY <2>1, NotifyCurrent
<1>3. ASSUME NEW u \in Users, NewUser(u) PROVE CurrentInv'
  <2>1. /\ account' = account \cup {u} /\ Notify
        /\ adding' = [adding EXCEPT ![u] = [NotAdding EXCEPT !.step = "event"]]
    BY <1>3 DEF NewUser, CreateUser
  <2>2. [NotAdding EXCEPT !.step = "event"] # NotAdding
    BY DEF NotAdding
  <2>3. /\ adding'[u] # NotAdding
        /\ \A v \in Users : adding'[v] # adding[v] => adding'[v] # NotAdding
    BY <2>1, <2>2 DEF TypeInv, NodeTyped
  <2> QED
    BY <1>0, <2>1, <2>3, NotifyCurrent
<1>4. ASSUME NEW e \in Effects, NEW a \in Acls, NEW o \in BOOLEAN, SetAcl(e, a, o) PROVE CurrentInv'
  BY <1>4, ListsCurrent DEF SetAcl
<1>5. ASSUME NEW e \in Effects, RemoveAcl(e) PROVE CurrentInv'
  <2>1. acl[e] = Absent => acl' = acl
    BY <1>5 DEF RemoveAcl, TypeInv, NodeTyped
  <2> QED
    BY <1>5, <2>1, ListsCurrent DEF RemoveAcl
<1>6. ASSUME NEW a \in Acls, SetDNS(a) PROVE CurrentInv'
  <2>1. stale \subseteq stale' /\ Users \subseteq stale'
    BY <1>6 DEF SetDNS, TypeInv, NodeTyped
  <2> QED
    BY <1>6, <2>1, ListsCurrent DEF SetDNS
<1>7. CASE Handle
  BY <1>7, HandleCurrent
<1>8. CASE UNCHANGED vars
  BY <1>8, ListsCurrent DEF vars, groups
<1>9. ASSUME NEW u \in Users, LockAccount(u) PROVE CurrentInv'
  <2>1. /\ UNCHANGED <<group, membership, account, acl, dns, adding, reading, todo, installed,
                       pending, refreshAll>>
        /\ known' = known \cup {u} /\ stale' = stale \cup {u} /\ reading = NotReading
    BY <1>9 DEF LockAccount
  <2>2. InstalledOrToCome'
    BY <2>1 DEF CurrentInv, InstalledOrToCome, ToCome, EffectiveAcl, OwnLists, GroupsOf, Lists
  <2> QED
    BY <2>1, <2>2 DEF CurrentInv, ReadingCurrent
<1> QED
  BY <1>1, <1>2, <1>3, <1>4, <1>5, <1>6, <1>7, <1>8, <1>9 DEF Next

\* InstalledIsCurrent: GetEffectiveAcl reads in two transactions, and the
\* handlers that call it run in any order; still what a node has installed for
\* a user is what etcd says or a refresh of that user is to come, for any users,
\* groups, access lists and writes, but for the three exceptions in stale: the
\* DNS servers changed, the list of a new user is older than a refresh or was
\* refused, or a list could not be read and was installed without its rules.
THEOREM InstalledTheorem == Spec => []InstalledIsCurrent
<1>1. Init => CurrentInv
  <2> SUFFICES ASSUME Init PROVE CurrentInv
    OBVIOUS
  <2>1. \A u \in account : u \in Users /\ installed[u] = EffectiveAcl(u)
    BY InitTypes DEF Init, TypeInv, GroupsTyped
  <2> QED
    BY <2>1 DEF Init, CurrentInv, ReadingCurrent, InstalledOrToCome
<1>2. Init => TypeInv /\ EditsKnow
  BY InitTypes, InitGroupsInv DEF GroupsInv
<1>3. TypeInv /\ EditsKnow /\ [Next]_vars => TypeInv' /\ EditsKnow'
  BY StepTypes, StepGroups DEF TypeInv, GroupsInv
<1>4. CurrentInv => InstalledIsCurrent
  BY DEF CurrentInv, InstalledOrToCome, ToCome, InstalledIsCurrent, Waiting
<1> QED
  BY <1>1, <1>2, <1>3, <1>4, StepCurrent, PTL DEF Spec
=============================================================================
