----------------------------- MODULE AddressPool -----------------------------
(***************************************************************************)
(* Tunnel addresses: how getNextIP (internal/data/dhcp.go) finds a free    *)
(* one, AddDevice makes it a device's and DeleteDevice gives it back.      *)
(*                                                                         *)
(* The pool is the set of references in etcd: an address is free when it   *)
(* has neither a reference nor a hold.  A hold hangs on a lease of three   *)
(* seconds granted before the search, so it may lapse at any moment after. *)
(* Between two trips to etcd anything else may happen: each is an action.  *)
(*                                                                         *)
(* An address is its host part: 1 is the first one of the subnet, Last the *)
(* largest.  A device is its key in etcd, devices-<user>-<address>; public *)
(* keys and the references made for them are left out.                     *)
(***************************************************************************)
EXTENDS Integers, FiniteSets

CONSTANTS
  Users,       \* usernames
  Last,        \* host part of the subnet's largest address
  Server,      \* host part of the server's own address
  Requests,    \* requests served at once
  Tokens,      \* registration tokens
  Absent       \* no such key

ASSUME SubnetAssumption ==
  /\ Last \in Nat /\ Server \in Nat
  /\ 1 <= Server /\ Server < Last

ASSUME UserAssumption == Absent \notin Users

Addresses == 1..Last

VARIABLES
  device,      \* keys devices-<user>-<address> in etcd
  ref,         \* deviceref-<address> in etcd: the user it leads to
  hold,        \* addresses under an ip-hold- key
  requests,    \* the requests being served
  contested    \* history: addresses assigned while another request was at
               \* them, or after the hold had lapsed

pool == <<device, ref, hold, contested>>

Steps == {"idle", "membership", "findUser", "createUser", "lease", "search",
          "assign", "reply", "finalise", "deleteToken",
          "find", "remove"}

RequestRecord ==
  [step: Steps, token: Tokens \cup {Absent}, user: Users \cup {Absent},
   addr: 0..Last, start: 0..Last, leased: BOOLEAN]

Idle == [step |-> "idle", token |-> Absent, user |-> Absent, addr |-> 0, start |-> 0, leased |-> FALSE]

Ended(r) == requests' = [requests EXCEPT ![r] = Idle]

MovedTo(r, step) == requests' = [requests EXCEPT ![r].step = step]

\* Requests that hold address a or work on a device at it.
At(a) ==
  {r \in Requests : requests[r].addr = a /\ requests[r].step \notin {"idle", "search"}}

\* Those that mean a device by it.
Meaning(a) == {r \in At(a) : requests[r].step # "assign"}

InitPool ==
  /\ device = {}
  /\ ref = [a \in Addresses |-> Absent]
  /\ hold = {}
  /\ contested = {}

-----------------------------------------------------------------------------
\* Mistake: an address that another request holds is taken for free.
FreeUnheld(a) == ref[a] = Absent

Free(a) == ref[a] = Absent /\ a \notin hold

\* The search starts anywhere but at the server's address.
GrantLease(r) ==
  /\ requests[r].step = "lease"
  /\ \E i \in 1..(Last - 1) :
       LET first == IF i = Server THEN i + 1 ELSE i IN
       requests' = [requests EXCEPT
         ![r] = [@ EXCEPT !.step = "search", !.addr = first, !.start = first,
                          !.leased = TRUE]]
  /\ UNCHANGED pool

\* Mistake: after the end of the subnet the search begins at its start again.
SearchRestarting(r) ==
  LET q == requests[r]
      a == IF q.addr = Server THEN q.addr + 1 ELSE q.addr IN
  /\ q.step = "search"
  /\ ~Free(a)
  /\ requests' = [requests EXCEPT ![r].addr = IF a < Last THEN a + 1 ELSE q.start]
  /\ UNCHANGED pool

\* The address is taken: the next one, from the first again at the end.  The
\* search gives up only on coming back to a start at the first address.
Search(r) ==
  LET q == requests[r]
      a == IF q.addr = Server THEN q.addr + 1 ELSE q.addr IN
  /\ q.step = "search"
  /\ ~Free(a)
  /\ IF a < Last THEN requests' = [requests EXCEPT ![r].addr = a + 1]
     ELSE IF q.start = 1 THEN Ended(r)
     ELSE requests' = [requests EXCEPT ![r].addr = 1]
  /\ UNCHANGED pool

\* Mistake: coming round to the first address, the search forgets the server.
HoldAnyAddress(r) ==
  LET q == requests[r] IN
  /\ q.step = "search"
  /\ Free(q.addr)
  /\ IF q.leased
     THEN /\ hold' = hold \cup {q.addr}
          /\ MovedTo(r, "assign")
     ELSE /\ Ended(r)
          /\ UNCHANGED hold
  /\ UNCHANGED <<device, ref, contested>>

\* A free address is held, if the lease to hold it by is still there.
Hold(r) ==
  LET q == requests[r]
      a == IF q.addr = Server THEN q.addr + 1 ELSE q.addr IN
  /\ q.step = "search"
  /\ Free(a)
  /\ IF q.leased
     THEN /\ hold' = hold \cup {a}
          /\ requests' = [requests EXCEPT ![r].step = "assign", ![r].addr = a]
     ELSE /\ Ended(r)
          /\ UNCHANGED hold
  /\ UNCHANGED <<device, ref, contested>>

\* AddDevice writes device and reference without looking at either.  The hold
\* is left to lapse.
Assign(r) ==
  LET a == requests[r].addr IN
  /\ requests[r].step = "assign"
  /\ device' = device \cup {<<requests[r].user, a>>}
  /\ ref' = [ref EXCEPT ![a] = requests[r].user]
  /\ contested' = IF ~requests[r].leased \/ Meaning(a) # {}
                  THEN contested \cup {a} ELSE contested
  /\ requests' = [requests EXCEPT ![r].step = "reply", ![r].leased = FALSE]
  /\ UNCHANGED hold

LeaseLapses(r) ==
  /\ requests[r].leased
  /\ requests' = [requests EXCEPT ![r].leased = FALSE]
  /\ hold' = IF requests[r].step = "search" THEN hold ELSE hold \ {requests[r].addr}
  /\ UNCHANGED <<device, ref, contested>>

\* The lease of a request that needs it no longer.
HoldLapses(a) ==
  /\ a \in hold
  /\ \A r \in At(a) : ~requests[r].leased
  /\ hold' = hold \ {a}
  /\ UNCHANGED <<device, ref, contested, requests>>

-----------------------------------------------------------------------------
(***************************************************************************)
(* DeleteDevice.                                                           *)
(***************************************************************************)

\* Start of DeleteDevice for address a, in the hands of request r.
Removing(r, a) ==
  requests' = [requests EXCEPT ![r] = [Idle EXCEPT !.step = "find", !.addr = a]]

\* The reference, and the record it leads to.  A missing record is indexed
\* all the same: the request ends in a panic, which the HTTP server catches.
\* Two reads that come to nothing but an end, if the second differs, are one.
FindDevice(r) ==
  LET a == requests[r].addr
      u == ref[a] IN
  /\ requests[r].step = "find"
  /\ IF u # Absent /\ <<u, a>> \in device
     THEN requests' = [requests EXCEPT ![r].step = "remove", ![r].user = u]
     ELSE Ended(r)
  /\ UNCHANGED pool

Remove(r) ==
  /\ requests[r].step = "remove"
  /\ device' = device \ {<<requests[r].user, requests[r].addr>>}
  /\ ref' = [ref EXCEPT ![requests[r].addr] = Absent]
  /\ Ended(r)
  /\ UNCHANGED <<hold, contested>>

PoolStep(r) ==
  \/ GrantLease(r) \/ Search(r) \/ Hold(r) \/ Assign(r)
  \/ FindDevice(r) \/ Remove(r)
=============================================================================
