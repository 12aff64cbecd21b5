------------------------------ MODULE Records ------------------------------
(***************************************************************************)
(* The two records wag keeps in etcd for a person and for a WireGuard      *)
(* device, and the mutations internal/data applies to them.  Each operator *)
(* is the function a caller hands to doSafeUpdate: record in, record out.  *)
(*                                                                         *)
(* Data abstraction: a username, an address, a public key, an endpoint and *)
(* an MFA secret are members of small sets.  Device.Authorised is kept as  *)
(* "is it the zero time"; Device.Challenge, PresharedKey, Version and      *)
(* Active are written together with other fields and left out.             *)
(***************************************************************************)
EXTENDS Integers

CONSTANTS
  Users,       \* usernames
  Addresses,   \* tunnel addresses
  Keys,        \* WireGuard public keys
  Endpoints,   \* UDP endpoints a peer can be seen at
  Mfas,        \* registered MFA methods with their secret
  Unset,       \* types.Unset, the method of a user that never registered
  Nodes,       \* etcd member ids
  NoNode,      \* the zero types.ID of a device that never connected
  NoEndpoint,  \* the nil endpoint of a device that never connected
  Absent,      \* no record under the key
  Lockout      \* wag-config-authentication-lockout

ASSUME LockoutAssumption == Lockout \in Nat \ {0}

ASSUME SentinelAssumption ==
  /\ Unset \notin Mfas
  /\ NoNode \notin Nodes
  /\ NoEndpoint \notin Endpoints

UserRecord ==
  [locked: BOOLEAN, mfa: Mfas \cup {Unset}, enforcing: BOOLEAN]

DeviceRecord ==
  [owner: Users,
   key: Keys,
   endpoint: Endpoints \cup {NoEndpoint},
   attempts: 0..(Lockout + 1),
   authorised: BOOLEAN,
   node: Nodes \cup {NoNode}]

ASSUME AbsentAssumption == Absent \notin UserRecord /\ Absent \notin DeviceRecord

-----------------------------------------------------------------------------
\* Users

NewUser == [locked |-> FALSE, mfa |-> Unset, enforcing |-> FALSE]

WithLock(u, l) == [u EXCEPT !.locked = l]

WithMfa(u, m) == [u EXCEPT !.mfa = m]

WithEnforcing(u, e) == [u EXCEPT !.enforcing = e]

-----------------------------------------------------------------------------
\* Devices

NewDevice(u, k) ==
  [owner |-> u, key |-> k, endpoint |-> NoEndpoint, attempts |-> 0,
   authorised |-> FALSE, node |-> NoNode]

\* Mistake: the counter never stops.
WithAttemptUncapped(d) == [d EXCEPT !.attempts = @ + 1]

\* The counter stops one above the lockout.
WithAttempt(d) ==
  IF d.attempts <= Lockout THEN [d EXCEPT !.attempts = @ + 1] ELSE d

WithAttempts(d, n) == [d EXCEPT !.attempts = n]

\* AuthoriseDevice clears the counter and moves the session to node n, the
\* node that served the login.
WithAuthorisation(d, n) ==
  [d EXCEPT !.authorised = TRUE, !.attempts = 0, !.node = n]

WithoutAuthorisation(d) == [d EXCEPT !.authorised = FALSE]

WithConnection(d, e, n) == [d EXCEPT !.endpoint = e, !.node = n]

WithKey(d, k) == [d EXCEPT !.key = k]
=============================================================================
