------------------------------ MODULE Bootstrap ------------------------------
(***************************************************************************)
(* What a node puts in etcd as it starts, and what administrators change   *)
(* through the nodes that are up (Load, loadInitialSettings and            *)
(* migrateFromSql of internal/data/init.go, config.go).                    *)
(*                                                                         *)
(* A node that is no learner migrates its old database, imports the access *)
(* lists and groups of its json file if there are none, and puts every     *)
(* setting that is missing.  It may stop between any two writes, and       *)
(* several nodes may start at once, each with a json file of its own.      *)
(***************************************************************************)
EXTENDS Naturals, Sequences

CONSTANTS
  Nodes,
  Migrating,    \* those with an sqlite file
  OldUsers,     \* the users in it
  JsonNames,    \* names in the json file, of access lists and of groups
  Section,      \* sets of settings saved together: the login settings, the rest
  Order,        \* the settings, as loadInitialSettings puts them
  Nothing,      \* no such key
  SettingSaves  \* bound: saves by administrators

ASSUME BootstrapAssumption ==
  /\ Migrating \subseteq Nodes
  /\ Order \in Seq({Order[i] : i \in DOMAIN Order}) /\ Order # <<>>
  /\ \A s \in DOMAIN Section : Section[s] \subseteq {Order[i] : i \in DOMAIN Order}
  /\ \A s, t \in DOMAIN Section : s # t => Section[s] \cap Section[t] = {}
  /\ SettingSaves \in Nat
  /\ Nothing \notin Nodes \cup 1..SettingSaves

VARIABLES
  values,       \* whose value each setting has: a node's json or a save's
  policies,     \* access lists and groups: absent, of a json file, of an administrator
  oldUser,      \* how much of each old user has been written
  migrated,     \* wag-migrated-sql
  boot,         \* where each node is
  \* history
  saved         \* the last save of each section

bootstrap == <<values, policies, oldUser, migrated, boot, saved>>

SettingKeys == {Order[i] : i \in DOMAIN Order}

Collections == {"acls", "groups"}

(* CreateUserDataAccount, SetUserLock, SetUserMfa, SetEnforceMFAOn/Off     *)
Whole == 4

BootRecord ==
  [step: {"down", "migrate", "users", "look", "import", "settings", "up"},
   left: SUBSET (OldUsers \cup JsonNames), collection: Collections,
   next: 1..Len(Order)]

Down == [step |-> "down", left |-> {}, collection |-> "acls", next |-> 1]

InitBootstrap ==
  /\ values = [k \in SettingKeys |-> Nothing]
  /\ policies = [c \in Collections |-> [n \in JsonNames |-> "absent"]]
  /\ oldUser = [u \in OldUsers |-> 0]
  /\ migrated = FALSE
  /\ boot = [n \in Nodes |-> Down]
  /\ saved = [s \in DOMAIN Section |-> Nothing]

SomeUp == \E n \in Nodes : boot[n].step = "up"

-----------------------------------------------------------------------------
(* Load: a node that joins a running cluster is a learner, and reads.      *)
Load(n) ==
  /\ boot[n].step = "down"
  /\ \/ boot' = [boot EXCEPT ![n].step = IF n \in Migrating THEN "migrate" ELSE "look"]
     \/ SomeUp /\ boot' = [boot EXCEPT ![n].step = "up"]
  /\ UNCHANGED <<values, policies, oldUser, migrated, saved>>

(* The process ends, an error returned by Load or not.                     *)
Crash(n) ==
  /\ boot[n].step # "down"
  /\ boot' = [boot EXCEPT ![n] = Down]
  /\ UNCHANGED <<values, policies, oldUser, migrated, saved>>

MigrateFromSql(n) ==
  /\ boot[n].step = "migrate"
  /\ boot' = [boot EXCEPT ![n] = IF migrated THEN [@ EXCEPT !.step = "look"]
                                 ELSE [@ EXCEPT !.step = "users", !.left = OldUsers]]
  /\ UNCHANGED <<values, policies, oldUser, migrated, saved>>

\* Mistake: a user who is there is created again.
CreatableAgain(u) == oldUser[u] \in {0, Whole}

Creatable(u) == oldUser[u] = 0

(* The user is created, which fails for one that exists, and updated three *)
(* times.                                                                  *)
CreateOldUser(n, u) ==
  /\ boot[n].step = "users"
  /\ u \in boot[n].left
  /\ \A v \in OldUsers \ boot[n].left : oldUser[v] = Whole
  /\ IF Creatable(u)
       THEN /\ oldUser' = [oldUser EXCEPT ![u] = 1]
            /\ boot' = [boot EXCEPT ![n].left = @ \ {u}]
       ELSE /\ boot' = [boot EXCEPT ![n] = Down]
            /\ UNCHANGED oldUser
  /\ UNCHANGED <<values, policies, migrated, saved>>

UpdateOldUser(n, u) ==
  /\ boot[n].step = "users"
  /\ u \in OldUsers \ boot[n].left
  /\ oldUser[u] \in 1 .. Whole - 1
  /\ oldUser' = [oldUser EXCEPT ![u] = @ + 1]
  /\ UNCHANGED <<values, policies, migrated, boot, saved>>

Migrated(n) ==
  /\ boot[n].step = "users"
  /\ boot[n].left = {}
  /\ \A u \in OldUsers : oldUser[u] = Whole
  /\ migrated' = TRUE
  /\ boot' = [boot EXCEPT ![n].step = "look"]
  /\ UNCHANGED <<values, policies, oldUser, saved>>

-----------------------------------------------------------------------------
(* loadInitialSettings: the access lists, if there are none, are put one   *)
(* by one, and so are the groups.                                          *)
Look(n) ==
  /\ boot[n].step = "look"
  /\ boot' = [boot EXCEPT ![n].step = "import", ![n].left =
       IF \A m \in JsonNames : policies[boot[n].collection][m] = "absent"
         THEN JsonNames ELSE {}]
  /\ UNCHANGED <<values, policies, oldUser, migrated, saved>>

Import(n, name) ==
  /\ boot[n].step = "import"
  /\ name \in boot[n].left
  /\ policies' = [policies EXCEPT ![boot[n].collection][name] = "json"]
  /\ boot' = [boot EXCEPT ![n].left = @ \ {name}]
  /\ UNCHANGED <<values, oldUser, migrated, saved>>

Imported(n) ==
  /\ boot[n].step = "import"
  /\ boot[n].left = {}
  /\ boot' = [boot EXCEPT ![n] =
       IF @.collection = "acls" THEN [@ EXCEPT !.step = "look", !.collection = "groups"]
       ELSE [@ EXCEPT !.step = "settings"]]
  /\ UNCHANGED <<values, policies, oldUser, migrated, saved>>

\* Mistake: a setting is put though it is there.
PutAlways(n, key) == [values EXCEPT ![key] = n]

(* One transaction.                                                        *)
PutIfNotFound(n, key) ==
  IF values[key] = Nothing THEN [values EXCEPT ![key] = n] ELSE values

LoadSetting(n) ==
  /\ boot[n].step = "settings"
  /\ values' = PutIfNotFound(n, Order[boot[n].next])
  /\ boot' = IF boot[n].next = Len(Order) THEN [boot EXCEPT ![n].step = "up"]
             ELSE [boot EXCEPT ![n].next = @ + 1]
  /\ UNCHANGED <<policies, oldUser, migrated, saved>>

-----------------------------------------------------------------------------
(* Administrators, on a node that is up: SetLoginSettings and              *)
(* SetGeneralSettings put their settings in one transaction.               *)
SaveSettings(s) ==
  /\ SomeUp
  /\ \E save \in 1..SettingSaves :
       /\ \A t \in DOMAIN Section : saved[t] # Nothing => saved[t] < save
       /\ values' = [k \in SettingKeys |-> IF k \in Section[s] THEN save ELSE values[k]]
       /\ saved' = [saved EXCEPT ![s] = save]
  /\ UNCHANGED <<policies, oldUser, migrated, boot>>

SetPolicy(c, name) ==
  /\ SomeUp
  /\ policies' = [policies EXCEPT ![c][name] = "admin"]
  /\ UNCHANGED <<values, oldUser, migrated, boot, saved>>

RemovePolicy(c, name) ==
  /\ SomeUp
  /\ policies[c][name] # "absent"
  /\ policies' = [policies EXCEPT ![c][name] = "absent"]
  /\ UNCHANGED <<values, oldUser, migrated, boot, saved>>

NextBootstrap ==
  \/ \E n \in Nodes :
       \/ Load(n) \/ Crash(n) \/ MigrateFromSql(n) \/ Migrated(n)
       \/ \E u \in OldUsers : CreateOldUser(n, u) \/ UpdateOldUser(n, u)
       \/ Look(n) \/ Imported(n) \/ LoadSetting(n)
       \/ \E name \in JsonNames : Import(n, name)
  \/ \E s \in DOMAIN Section : SaveSettings(s)
  \/ \E c \in Collections, name \in JsonNames : SetPolicy(c, name) \/ RemovePolicy(c, name)

SpecBootstrap == InitBootstrap /\ [][NextBootstrap]_bootstrap

-----------------------------------------------------------------------------
BootstrapTypeOK ==
  /\ values \in [SettingKeys -> {Nothing} \cup Nodes \cup 1..SettingSaves]
  /\ policies \in [Collections -> [JsonNames -> {"absent", "json", "admin"}]]
  /\ oldUser \in [OldUsers -> 0..Whole]
  /\ migrated \in BOOLEAN
  /\ boot \in [Nodes -> BootRecord]
  /\ saved \in [DOMAIN Section -> {Nothing} \cup 1..SettingSaves]

(* Whichever nodes start, stop and start again, and in whatever order      *)
(* their writes come: on a node that is up every setting is there, and     *)
(* the settings an administrator saved together stay together, however     *)
(* many json files are loaded after that.                                  *)
SettingsKept ==
  /\ SomeUp => \A k \in SettingKeys : values[k] # Nothing
  /\ \A s \in DOMAIN Section :
       saved[s] # Nothing => \A k \in Section[s] : values[k] = saved[s]

(* A migration that is marked as done is done: no old user is left without *)
(* its lock, its secret or its enforcement, by a node that stopped in the  *)
(* middle or by two that migrate at once.                                  *)
MigratedUsersWhole == migrated => \A u \in OldUsers : oldUser[u] = Whole
=============================================================================
