------------------------------- MODULE Routes -------------------------------
(***************************************************************************)
(* The routes of one user on one node: what the rules of an access list    *)
(* are parsed to (ParseRules of internal/routetypes/parser.go) and how     *)
(* they replace the ones in the user's LPM map (setSingleUserMap,          *)
(* clearPolicyMap and xdpAddRoute of internal/router/bpf.go).              *)
(*                                                                         *)
(* The router's lock is held from the first deletion to the last put.      *)
(* The packet path takes no lock: it sees the map between any two.         *)
(*                                                                         *)
(* Bounds: the addresses of a name do not change, though a lookup may      *)
(* fail; a rule has at most two services (with three, Go's append leaves   *)
(* room in an array that the entries of one name share).                   *)
(***************************************************************************)
EXTENDS Naturals, FiniteSets, SequencesExt

CONSTANTS
  RouteKeys,     \* addresses and networks
  Above,         \* the keys whose network contains this one, itself included
  Targets,       \* what a rule names: an address, a network or a host name
  HostNames,     \* those that must be looked up
  Resolve,       \* the keys a target stands for
  Lists,         \* sequences of rules: mfa, public, deny
  MaxPolicies,   \* MAX_POLICIES
  MaxRoutes      \* MaxEntries of routesMapSpec

ASSUME RoutesAssumption ==
  /\ HostNames \subseteq Targets
  /\ Resolve \in [Targets -> Seq(RouteKeys)]
  /\ Above \in [RouteKeys -> SUBSET RouteKeys]
  /\ \A l \in Lists : \A n \in DOMAIN l : l[n].target \in Targets
  /\ MaxPolicies \in Nat /\ MaxRoutes \in Nat

VARIABLES
  routes,     \* the user's map, from some of the keys to sequences of policies
  phase,      \* of setSingleUserMap
  wanted,     \* the list it was last called with
  pending,    \* the puts xdpAddRoute has left, each a key and its policies
  memo,       \* globalCache: the lists parsed without an error
  \* history
  written     \* the rules that were parsed for what is in the map

tables == <<routes, phase, wanted, pending, memo, written>>

InitRoutes ==
  /\ routes = <<>>
  /\ phase = "idle"
  /\ wanted = <<>>
  /\ pending = <<>>
  /\ memo = {}
  /\ written = <<>>

-----------------------------------------------------------------------------
(* parseRule.                                                              *)
PoliciesOf(rule) ==
  [n \in DOMAIN rule.services |-> [kind |-> rule.kind, service |-> rule.services[n]]]

\* Mistake: no continue after the merge.
EnteredAnew(result, rule, key) ==
  Append(result, [cached |-> key, keys |-> Resolve[rule.target], values |-> PoliciesOf(rule)])

(* One key of a rule.  An entry is cached for one key, and has every key   *)
(* of the rule it comes from.                                              *)
Entered(result, rule, key) ==
  IF \E n \in DOMAIN result : result[n].cached = key
    THEN [n \in DOMAIN result |->
           IF result[n].cached = key THEN [result[n] EXCEPT !.values = @ \o PoliciesOf(rule)]
           ELSE result[n]]
    ELSE Append(result, [cached |-> key, keys |-> Resolve[rule.target],
                         values |-> PoliciesOf(rule)])

Parsed(rules) ==
  FoldLeft(LAMBDA result, rule :
             FoldLeft(LAMBDA r, key : Entered(r, rule, key), result, Resolve[rule.target]),
           <<>>, rules)

(* One entry with too many policies, and no rule is returned.              *)
TooLong(rules) == \E n \in DOMAIN Parsed(rules) : Len(Parsed(rules)[n].values) > MaxPolicies

(* xdpAddRoute: every key of every entry is put.                           *)
Puts(rules) ==
  IF TooLong(rules) THEN <<>>
  ELSE LET Of(entry) == [n \in DOMAIN entry.keys |-> <<entry.keys[n], entry.values>>]
       IN FoldLeft(LAMBDA puts, entry : puts \o Of(entry), <<>>, Parsed(rules))

Without(rules, lost) ==
  LET numbered == [n \in DOMAIN rules |-> <<n, rules[n]>>]
      kept == SelectSeq(numbered, LAMBDA r : r[1] \notin lost)
  IN [n \in DOMAIN kept |-> kept[n][2]]

-----------------------------------------------------------------------------
SetSingleUserMap(list) ==
  /\ phase \in {"idle", "failed"}
  /\ phase' = "clearing"
  /\ wanted' = list
  /\ UNCHANGED <<routes, pending, memo, written>>

(* NextKeyBytes and Delete: the kernel walks the trie from its leaves.     *)
ClearPolicyMap(key) ==
  /\ phase = "clearing"
  /\ key \in DOMAIN routes
  /\ \A other \in DOMAIN routes : other # key => key \notin Above[other]
  /\ routes' = [k \in DOMAIN routes \ {key} |-> routes[k]]
  /\ UNCHANGED <<phase, wanted, pending, memo, written>>

(* A rule whose name cannot be looked up is skipped, and the error logged. *)
ParseRules ==
  /\ phase = "clearing"
  /\ DOMAIN routes = {}
  /\ \E lost \in SUBSET {n \in DOMAIN wanted : wanted[n].target \in HostNames} :
       LET rules == Without(wanted, lost)
       IN /\ wanted \in memo => lost = {}
          /\ written' = rules
          /\ pending' = Puts(rules)
          /\ memo' = IF lost = {} /\ ~TooLong(rules) THEN memo \cup {wanted} ELSE memo
  /\ phase' = "adding"
  /\ UNCHANGED <<routes, wanted>>

(* Put, which fails when the map is full.                                  *)
XdpAddRoute ==
  /\ phase = "adding"
  /\ pending # <<>>
  /\ LET key == Head(pending)[1]
     IN IF key \in DOMAIN routes \/ Cardinality(DOMAIN routes) < MaxRoutes
          THEN /\ routes' = [k \in DOMAIN routes \cup {key} |->
                               IF k = key THEN Head(pending)[2] ELSE routes[k]]
               /\ pending' = Tail(pending)
               /\ UNCHANGED phase
          ELSE /\ phase' = "failed"
               /\ pending' = <<>>
               /\ UNCHANGED routes
  /\ UNCHANGED <<wanted, memo, written>>

RoutesAdded ==
  /\ phase = "adding"
  /\ pending = <<>>
  /\ phase' = "idle"
  /\ UNCHANGED <<routes, wanted, pending, memo, written>>

NextRoutes ==
  \/ \E list \in Lists : SetSingleUserMap(list)
  \/ \E key \in RouteKeys : ClearPolicyMap(key)
  \/ ParseRules
  \/ XdpAddRoute
  \/ RoutesAdded

SpecRoutes == InitRoutes /\ [][NextRoutes]_tables

-----------------------------------------------------------------------------
RuleServices == UNION {UNION {ToSet(l[n].services) : n \in DOMAIN l} : l \in Lists}

PolicyRecord == [kind: {"mfa", "public", "deny"}, service: RuleServices]

RoutesTypeOK ==
  /\ DOMAIN routes \subseteq RouteKeys
  /\ \A k \in DOMAIN routes : routes[k] \in Seq(PolicyRecord)
  /\ phase \in {"idle", "failed", "clearing", "adding"}
  /\ wanted \in Lists \cup {<<>>}
  /\ \A n \in DOMAIN pending : pending[n][1] \in RouteKeys
  /\ memo \subseteq Lists

(* What the rules of a list say of a key, one after the other.             *)
Says(rules, key) ==
  FoldLeft(LAMBDA said, rule :
             IF key \in ToSet(Resolve[rule.target]) THEN said \o PoliciesOf(rule) ELSE said,
           <<>>, rules)

(* The rules that have this key share a key with no rule for another set.  *)
Plain(rules, key) ==
  LET Keys(n) == ToSet(Resolve[rules[n].target])
  IN \A m, n \in DOMAIN rules :
       key \in Keys(m) /\ Keys(m) \cap Keys(n) # {} => Keys(m) = Keys(n)

(* The routes a user has, with one list replaced by another key by key,    *)
(* names that are looked up or not, results that are remembered, entries   *)
(* merged and put more than once: a route is never a part of what the      *)
(* rules say of it, never a mixture of two lists, and none is missing or   *)
(* left over once the router is done.                                      *)
RoutesAsWritten ==
  \A key \in RouteKeys : Plain(written, key) =>
    /\ key \in DOMAIN routes => routes[key] = Says(written, key)
    /\ phase = "idle" /\ Says(written, key) # <<>> /\ ~TooLong(written) => key \in DOMAIN routes

(* The decision for an address: the route of the longest prefix, in which  *)
(* a deny takes precedence.                                                *)
Longest(keys, address) ==
  CHOOSE k \in keys \cap Above[address] : keys \cap Above[address] \subseteq Above[k]

Speaks(kinds, row, service) ==
  \E n \in DOMAIN row : row[n].kind \in kinds /\ row[n].service = service

Denied(rules, address, service) ==
  LET keys == {k \in RouteKeys : Says(rules, k) # <<>>}
  IN /\ keys \cap Above[address] # {}
     /\ Speaks({"deny"}, Says(rules, Longest(keys, address)), service)

LetThrough(address, service) ==
  /\ DOMAIN routes \cap Above[address] # {}
  /\ LET row == routes[Longest(DOMAIN routes, address)]
     IN Speaks({"mfa", "public"}, row, service) /\ ~Speaks({"deny"}, row, service)

(* "you can now define deny rules which will block access to a route"      *)
(* (README.md:445): what the list in the map denies, and the list that     *)
(* replaces it denies too, is not let through while the router takes the   *)
(* old routes away.                                                        *)
DeniedStaysDenied ==
  phase = "clearing" =>
    \A address \in RouteKeys, service \in RuleServices :
      Denied(written, address, service) /\ Denied(wanted, address, service)
        => ~LetThrough(address, service)
=============================================================================
