# A verification of wag

wag is a WireGuard gateway that lets a device reach some routes only after its
user has answered a second factor. Users, devices, groups, policies, settings
and administrators are kept in etcd, shared by the nodes of a cluster. Each
node follows etcd, configures its WireGuard peers, and fills the maps of an XDP
program that decides about every packet. These modules describe that program:
the records in etcd and the loop that updates them, the requests that write
them, the router that follows them, the decision in the kernel, and the node
around all of it.

Paths below are relative to `src/`.

## 1. The system

### Components

| Component | Code | State | Operations |
|---|---|---|---|
| Records in etcd | `internal/data` (`user.go`, `devices.go`, `init.go`) | `users-<name>-`, `devices-<name>-<address>`, each with a revision | `doSafeUpdate` with a mutation: read, change, compare-and-swap on the revision, again if refused; deletes and puts |
| Authentication | `internal/users`, `internal/webserver/authenticators` | nothing of its own between requests | RegistrationAPI and AuthorisationAPI of TOTP, PAM, OIDC and WebAuthn, all through `users.Authenticate` |
| WebAuthn ceremonies | `webserver/authenticators/webauthn.go` | the user's keys and their counters; a session per browser | begin and finish of registration and login |
| Administration | `pkg/control/server` | none | lock and unlock of devices and accounts, reset of MFA, deletion |
| Registration | `internal/data/registration.go`, `webserver/web.go` | tokens with a number of uses | registerDevice, FinaliseRegistration |
| Address allocation | `internal/data/dhcp.go`, `devices.go` | `deviceref-`, holds with a lease | getNextIP, AddDevice, DeleteDevice |
| Groups and access lists | `internal/data/groups.go`, `acls.go` | groups, memberships, access lists | SetGroup, RemoveGroup, SetUserGroupMembership, GetEffectiveAcl |
| Router | `internal/router/bpf.go`, `wireguard.go` | XDP maps (devices, account_locked, policies), WireGuard peers, `usersToAddresses`, `addressesToUsers` | AddPeer, RemovePeer, ReplacePeer, AddUser, RemoveUser, SetAuthorized, Deauthenticate, SetLockAccount, refreshes; each under one lock |
| Route parser | `internal/routetypes` | the memory of lists parsed | ParseRules: strings to the policy array of each route |
| Event handlers | `internal/router/statemachine.go`, `init.go`, `internal/data/events.go` | the watches, one goroutine per event | deviceChanges, userChanges, membershipChanges, groupChanges, aclsChanges, dnsChanges, inactivityTimeoutChanges, Setup |
| XDP program | `internal/router/xdp.c` | reads the maps, writes lastPacketTime | conntrack |
| Node and health | `commands/start.go`, `internal/data/events.go` | what the node serves, `wasDead` | reports of health, setup and teardown, the error channel |
| Challenger | `internal/router/session_manager.go` | a websocket per address | WS, Challenge |
| Authenticator registry | `webserver/authenticators/authenticators.go`, `webserver/statemachine.go` | enabled methods and what they were initialised with | AddMFARoutes, handlers of four settings |
| Settings | `internal/data/init.go`, `config.go` | settings in etcd, json file, sqlite file | loadInitialSettings, migrateFromSql, SetLoginSettings, SetGeneralSettings |
| Administrators | `internal/data/ui.go`, `ui` | admin accounts, sessions in memory | login, change of password, lock, reset |
| Cluster membership | `internal/data/events.go`, `ui` | etcd's members | add, promote, remove |
| Admin interface, command line, control socket | `ui`, `commands`, `pkg/control` | none | requests forwarded to the above |
| Configuration file | `internal/config` | read once | Load |
| iptables and netlink | `internal/router/iptables.go` | the kernel's | set up and removed once |

### How they interact

A login ends in `AuthoriseDevice`, which only writes the device's record. Every
node sees the event on its watch. A goroutine started for that event compares
the old and new record and calls the router. The router takes its lock, writes
Go and kernel maps, and releases it. The XDP program never waits for any lock: it
looks the device, account and policies up and reads them while the router may be
writing. Locking an account, resetting MFA, deleting things, and changing groups,
access lists and settings travel the same way. Requests share nothing but etcd.

Each node writes to etcd every few seconds to see whether the cluster lives, and
reports the outcome to `clusterState`, which sets the router and the servers up or
tears them down. Teardown stops the router's endpoint watcher over a channel, on
which the handlers of websockets wait too.

### What is hard here

* A login makes six trips to etcd; each acts on what an earlier one read, and
  requests of one device may run at once. The attempt counter is incremented
  *before* it is read, so that a burst of requests cannot guess more than the
  lockout allows. The login of administrators does the same with its own counter.
* `doSafeUpdate` protects one record. `AuthoriseDevice` also depends on the
  account's lock, another record, and on a check of the counter made earlier.
* etcd delivers events in order; the goroutines that handle them have none.
  Users, devices, groups and lists come over different watches.
* The router starts from a snapshot and registers its watches later.
* The router keeps what belongs to a user in three maps. An address is used
  again after its device is deleted, a name after its user is.
* The loop of the XDP program may stop at the first policy that settles the
  matter, and the session it judges may change between two turns of the loop.
  The routes it looks up are deleted and put again one by one.
* An address is searched, held, assigned, referred to and given back in separate
  writes, and its hold hangs on a lease of three seconds. A token is looked at
  first and spent last.
* Membership is kept twice, and brought along one user at a time.
* Reports of health overtake each other, and an error sent with a lock held waits
  for whoever reads the channel.
* A security key's counter is one field of a value written back whole.
* The methods of a node follow each save by handlers that disable, initialise and enable
  in steps, while the next save is made.
* Errors go missing: shadowed (`web.go:575`), tested the wrong way round (`web.go:198`,
  `233`), or turned into a list without rules (`acls.go:101`, `154`).

`PROJECT.json` lists each of these, and the others, as a hazard at its line with
the properties that watch it.

### What makes each component correct

* **Records**: an update happens at one moment, on the record as it is then, or is
  refused: none is lost, applied twice or made of two records.
* **Authentication**: fewer answers evaluated than the lockout allows; MFA enforced
  only with a secret somebody has proven to hold; no deleted device written back; a
  lock undone only by an unlock.
* **WebAuthn**: an answer of a key that counts is good for one login.
* **Registration, addresses**: an address leads to one device; a token is used no
  more often than it allows, but for those already at it; a failed registration
  whose failure the deferred function sees leaves no device; every request ends.
* **Groups, access lists**: group and membership agree; what a node has installed
  for a user catches up with etcd, unless it could not be read.
* **Router**: no entry in the XDP map that the router has lost sight of; no
  session that outlives its account, or a lock of it; a user's routes are what the
  rules say, never a part of it nor a mixture of two lists.
* **Event handlers**: what a node that has caught up does is what etcd says; a
  login that nothing has ended can be used; nothing passes from the previous
  owner of an address to the next.
* **XDP program**: the verdict is what the rules of a route mean together,
  however the router writes meanwhile.
* **Node**: device, public interface and management interface are up when the cluster
  lives, nothing is when it is dead, for good, or the process ends (the web server of the
  tunnel and the control socket may end without anybody being told); closed connections
  are forgotten.
* **Methods, settings, administrators**: methods offered are those of the settings, if
  saves leave the node the time to follow; what an administrator saved together stays
  together; a migration marked as done is done; fewer passwords compared in vain than the
  lockout.

## 2. The modules

```
Records ---- Authentication ---- AuthenticationProofs, MCAuthentication
       \---- Firewall ---------- MCFirewall
                     \---------- FirewallSync ---- FirewallProofs ---- SessionsProofs ---- MirrorProofs
                                             \---- MCFirewallSync
             XdpFirewall ------- NodeProofs, MCXdpFirewall
             AddressPool ------- Registration ---- RegistrationProofs, MCRegistration
             Groups ------------ Policies -------- PoliciesProofs, MCPolicies
             Challenger -------- NodeState ------- NodeProofs, MCNode
             AtomicUpdate <===== SafeUpdate,
             AdminLogin, Methods,
             Bootstrap, WebAuthn ----------------- ServicesProofs
             those, Routes ----------------------- MCServices
```

A line is EXTENDS; `<=====` is a refinement (`INSTANCE AtomicUpdate WITH`).

**Records** has the user and device records and one operator per mutation that
`internal/data` hands to `doSafeUpdate`. `Authorised` is kept as "not the zero
time". The challenge, preshared key, version and last-seen time change nothing
the properties speak of and are left out.

**Authentication** is every request being served, at once, over the two records.
`Begin` is the handler up to the check of Enforcing; `IncrementAuthenticationAttempt`,
`GetAuthenticationDetails`, `Verify`, `IsEnforcingMFA`, `EnforceMFA`,
`CheckAccountLock` and `AuthoriseDevice` are the trips of `users.Authenticate`
(`internal/users/user.go:104-152`) in its order, each with its error returns.
A `doSafeUpdate` is one step, since a refused swap starts over. Only the
mutation that reads another key, the account's lock, is split in two; `Disturbed`
sends a request back from `commit` to `authorise` whenever its record is written
in between, as the refused swap does. `ResetMfa` and `DeleteUser` make two writes
and are two actions. `guesses`, `verified`, `contested` and `carried` are history:
no action depends on them. Whether the router already has a session, whether the
method matches and whether the answer is right are free choices.

**Firewall** is the router alone: one action for each exported operation that
changes state, atomic because all of them hold the package's lock. Expiry and
lastPacketTime of an entry are one of three states: `none` (zero or past), `idle`
(current, but beyond the inactivity timeout) and `live`. A policy map is the
access list it was filled from. `FirewallSpec` calls the operations in any order
with any arguments, but for two things asked of the callers, which FirewallSync
is checked against.

**FirewallSync** composes the router with etcd. A write changes the record and
puts a handler into `pool`: the calls the event handler will make, chosen from
the old and the new record when the event is delivered (`DeviceCalls`,
`UserCalls`, after `statemachine.go:88-169` and `207-232`). Any handler of the
pool may make its next call at any time; a call that fails ends its handler where
the code returns. What a handler reads of the router or of etcd is read when it
makes the call. `phase`, `snapshot` and `listening` follow `Setup` and
`handleEvents`; `Restart` and a panic lose everything but etcd. `order` and
`missed` remember whether a handler overtook another and whether a change fell
between the snapshot and the watch, so that a property can say for which runs of
the node it is promised. `granted` marks the devices whose last login nothing has
ended. `workload` is fixed in a behaviour and only bounds it: the kinds of write
that are combined.

**XdpFirewall** is `conntrack` for one packet: `Lookup`, then one action for each way a
turn of the loop ends (`Stop`, `Skip`, `MatchDeny`, `MatchPublic`, `MatchMfa`,
`EndOfArray`). `RouterWrites` changes device and account between any two turns, because
the program holds pointers into the maps; the idle test is made once, before the loop, as
in the code. `seen` is history: whether the session was good, at each time since the
packet came. What a packet's verdict should be (`Permitted`) is taken from the comments of
`conntrack` (`xdp.c:579-590`), by which the association counts as part of being
authorised; the diagram at the head of the file says otherwise (section 5).

**SafeUpdate** is `doSafeUpdate` (`internal/data/init.go:455-525`) as it is: `Get`,
the mutation, a transaction that compares the revision, `Retry` with the value the
failed transaction returned. **AtomicUpdate** is what every other module assumes of
it, one step. `UpdatesAtomic` is the refinement: the record is `stored`, an update has
happened when its transaction commits, and has been refused (`Outcome`) from the moment
it was answered the record it is refused for.

**AddressPool** is `getNextIP`, `AddDevice` and `DeleteDevice`, one action for each
trip to etcd: grant of the lease, each address looked at, hold, assignment. The hold
lapses at any moment after the lease was granted. `contested` is history: addresses
assigned after the lease had lapsed, or while another request still meant the previous
device by them. **Registration** adds `registerDevice` and `FinaliseRegistration` in
the code's order with an error at each trip, the deferred removal of the device, and
administrators who change tokens, devices and users meanwhile. The deferred removal comes
only if the deferred function finds the error: `Reply` has the branch of `type=mobile`, where
it does not, and `left` remembers the devices of those failures. `DeleteUserFails` is a
`DeleteUser` that ends between its two deletes. The exceptions of DevicesHaveUsers are
`deleting` and `halfway`, users whose devices DeleteUser has yet to come to or never came
to, and `outlived`, users deleted while a request that had seen them could still make a
device; all three end when the devices are deleted.

**Groups** is `SetGroup`, `RemoveGroup`, `SetUserGroupMembership` and `CreateUser` over
the two records of who belongs where; `edit` is where each editor is, and a crash may
cut it short. `crossed` is history: pairs two edits of one group wrote at once. **Policies**
adds the access lists, the two transactions of `GetEffectiveAcl`, the handlers that
refresh (`statemachine.go:171-264`) and the map each user has installed. Either transaction
may fail (`ReadFailed`): the list without rules that comes of it is installed, and `stale`
marks the user until the next refresh that reads. `RefreshConfiguration` may fail to read the
users. `known` are the users in the node's account map, among them those a handler of a lock
has put there (`LockAccount`), whom `AddUser` then refuses.

**NodeState** is `clusterState`, `Setup`, `TearDown` and `Run`: reports of health in any
order, one handler under the lock (`handler` is its position), the endpoint watchers, and
errors over an unbuffered channel. `up` is what is served: webserver.Start opens the
public interface and the tunnel's web server at once, in goroutines, and `ListenerFails`
ends any of them, then or later. `Loud` are those whose end sends an error, or that do not
end by themselves; the others, control socket and tunnel, are `Quiet`. **Challenger** is
one address of the websocket manager. They are composed because the handlers of websockets
and the endpoint watcher receive from the same channel, so that a teardown may be answered
by either (`Cancel`).

**AdminLogin** is the login page and the password page of the web interface, in several
browsers, against the control socket. **Methods** is the set of MFA methods a node offers, the
handlers of the four topics of a save, each with its own steps, the next save at any moment,
and the start of the server, which reads the settings before it listens to one topic after
another. An Init that fails leaves its method off, as it was or `Broken` (`oidc.go:52`, `82`).
`overlapped` is history: whether a save came between the reading and the listening, or before
enabledMethodsChanged was done with the one before.
**Bootstrap** is what nodes write while they start (migration, json file, missing
settings), stopping anywhere, and the saves of administrators. **Routes** is a user's
LPM map while one list replaces another: `ParseRules` with its merging, its memory and
names that fail to be looked up, then one deletion or put at a time. **WebAuthn** is
registration and login with security keys, whose state is one value in the user's record.
A key counts from 1, or is one of `Counterless` and always sends 0. `CloneWarning` is the
library's comparison, which warns of a count that is not above the stored one unless both are 0.
MCServices puts SafeUpdate and these five side by side: they share no variable, so a
behaviour is one of a component (`part`) while the others stay as they began.

Operators whose comment begins with "Mistake:" are not part of any specification.
Each is a definition as a plausible slip would have it. `PROJECT.json` lists
which property fails if the slip replaces the definition: the runs can tell.

## 3. The runs

| Run | Properties | States | Shows |
|---|---|---|---|
| Authentication | TypeOK, GuessesBounded, EnforcedSecretVerified, NoResurrection | 1.2 M | two requests of one user against everything an administrator can do |
| Firewall | FirewallTypeOK, EntriesTracked, EntriesOwned, UnlockEndsSessions | 0.15 M | the operations of the router in any order |
| Sync | SyncTypeOK, SessionsBacked, MirrorsEtcd, ReplaceFindsMap, LoginsTakeEffect, CallsAllowed | 1.5 M | handlers running concurrently, restarts at any moment |
| Xdp | TypeOK, PassJustified, DropJustified, PacketDecided | 1.2 M | every route of three policies over twelve rules, every packet, session and write |
| Provisioning | TypeOK, AddressLeadsToDevice, TokenUsesBounded, FailedLeaveNoDevice, DevicesHaveUsers, RegistrationEnds | 0.6 M | two registrations over two free addresses, failing anywhere, seen by the deferred function or not, leases lapsing, administrators meanwhile, a user deleted by half |
| Policies | TypeOK, MembershipsAgree, InstalledIsCurrent, InstalledCatchesUp | 1.4 M | two editors of groups, interrupted edits, logins, new users, early locks, changes of lists, lists that cannot be read, handlers in any order |
| Services | ServicesTypeOK, UpdatesAtomic, AdminGuessesBounded, MethodsFollowSettings, SettingsKept, MigratedUsersWhole, RoutesAsWritten, AnswersAcceptedOnce | 0.8 M | six components that share no state, one in each behaviour |
| Node | NodeTypeOK, NodeAsRemembered, ServiceFollowsHealth, ClosedConnectionsEnd | 0.13 M | reports of health in any order, failing starts, listeners that end, two websockets on the router's channel |
| DeviceLock | LockedDeviceStaysLocked | violated | section 5 |
| LockReorder | AccountLockHolds | violated | section 5 |
| XdpFullRoute | DropJustifiedWhenFull | violated | section 5 |
| RouteRefresh | DeniedStaysDenied | violated | section 5 |

### Bounds

* *Authentication*: one user, one address, two requests, two secrets, a lockout
  of 2. Records of different users do not meet in this code, so one is enough. A
  race has two requests, one of which may be replaced by the next as often as one
  likes. With a lockout of 2 one answer is allowed, so the limit is reached, passed
  and cleared; the proofs cover every number of requests and lockout. Two secrets
  tell the old from the new. Requests and secrets are symmetric: nothing names one.
* *Firewall*: two users, addresses and keys are what it takes for an address or a
  key to change hands, and for a user to have more than one address.
* *Sync*: one address, for all state is per address or per user; two users, keys,
  access lists and nodes where the workload changes them; two handlers delivered and
  unfinished, of which one may overtake the other or be held back while any number
  come and go. The lockout is 1, so one attempt locks. `Workloads` keeps a behaviour
  to the kinds of write named together. In one of them attempts and changes of the
  timeout meet, where SessionsBacked says nothing of the counter of attempts (`Apart`).
* *Xdp*: three policies, that is every pair of rules before a stop policy, and every
  three without one. Whether two rules are composed rightly takes two; the proof
  covers every number. The twelve rules are the six types, each with "any protocol,
  up to port 1" and "one protocol, ports 1 to 2"; the four packets match neither,
  either or both.
* *Provisioning*: a subnet of three addresses of which the server has the one in the
  middle, so that the search steps over it, comes to the end and begins again, and two
  requests can use the subnet up. A token for each of two users, with no uses and with
  one, which both mean one; the first may be made anew with two (`Renewed`, `Uses`), and
  the first user deleted (`Deleted`), so that a deletion has a user who is and one who is
  not in its way. A lease granted to a request that goes on lapses in the workload with
  `"late"`, failures the deferred function does not see occur in the one with `"mobile"`,
  a `DeleteUser` that stops half way in the one with `"halfway"`. `Going`: once an address
  is contested nothing new begins; what is under way ends.
* *Policies*: one group suffices since edits of different groups write different keys
  and the same membership only by compare-and-swap; two users, two editors, three
  edits, so that one may be cut short, repeated and crossed. Reads fail in two of the
  workloads, with memberships and with lists and new users; with both together nothing is
  added, since a failed read concerns one user and one refresh.
* *Services*: two concurrent updates, one that may create, and three further writes; two
  administrators of whom one's name begins with the other's, two browsers, a lockout of 2;
  two methods, of which OIDC may fail to start and the other depends on the issuer, and
  two saves, so that the handlers of both meet, before, during and after the start
  (MCServices ends a behaviour with a save that overlaps, of whose consequences the
  property says nothing); two nodes that migrate two users and share one name in their
  json files, four settings in two sections, two saves; two hosts of a network and a name
  for both, seven lists, two policies per route and two routes per map, so that both
  limits are met (a name's addresses do not change, and a rule has at most two services);
  two browsers with one request each, two keys of which one does not count, two
  registrations, three challenges, which is a registration and two logins, and two answers
  of a key that counts, of which one may be sent again.
* *Node*: two reports of each kind waiting, so that a stale one can follow a newer; two
  endpoint watchers, since one may outlive a teardown that a websocket answered. One
  request of a websocket in a whole node, which is what takes the signal of a teardown;
  two by themselves, of which one replaces the other (MCNode).

`CHECK_DEADLOCK FALSE` is said where the system may really stop: a decided packet, a
process that has ended (Node), and behaviours in which every bounded write has been made
and nothing is left to do (Provisioning, Policies, Services, RouteRefresh). In
the other runs there is always a next step and deadlock is checked.

### Fairness

* *Xdp*: `WF_vars(Turn)`: a program the kernel has started runs to its end, which the
  verifier guarantees that admits it. The router's writes are under no fairness, so no
  amount of writing keeps a packet undecided.
* *Provisioning*: a request the server has accepted goes on. Nobody has to register and
  no administrator has to act, and time need not pass.
* *Policies*: the goroutines of the handlers run, and an editor who has begun goes on
  unless interrupted. No write is fair.
* *Node*: the monitors tick, handlers run, Run reads the channel, all weakly. Locks are
  strongly fair (`TakeReport`, `Locking`): Go's mutex is given to the one who has waited
  longest. Challenges have deadlines. The cluster owes nothing.
* Elsewhere none. The properties of FirewallSync say what holds once the pool of handlers
  is empty (`Settled`).

### What the properties are conditional on

wag orders nothing among its handlers, so hardly anything holds unconditionally of
FirewallSync. `SessionsBacked` holds while no handler overtakes another *of the same
record* (`InOrder`): the order between different records does not matter for it. That the
device of a session is not locked out is asked only where attempts meet neither changes of
the timeout nor refreshes of all users (`Apart`): TLC finds either to bring back the
idle session of a locked device (section 5).
`LoginsTakeEffect`, `MirrorsEtcd` and `ReplaceFindsMap` need handlers one after the other
(`Serial`). Two exceptions are written into them: the devices of a user deleted, created
again and not yet deleted (`deleting`), and changes `missed` while starting.
`LoginsTakeEffect` expects nothing of a login served by another node than the device was
at, since the code does not authorise it at the first event: the second login has to do.

Elsewhere the exceptions are history variables that name the race: `contested`
(AddressLeadsToDevice, FailedLeaveNoDevice), `left` (FailedLeaveNoDevice), `outlived` and
`halfway` (DevicesHaveUsers), `crossed` (MembershipsAgree), `stale` (InstalledIsCurrent
and InstalledCatchesUp: nothing refreshes a node when the DNS servers change or a list
could not be read, and a new user's list may be older than a refresh or refused), `failed`
and `overlapped` (MethodsFollowSettings), `overtaken` (AnswersAcceptedOnce, which also
asks nothing of keys without a counter). What an exception leaves out is not caught by the
property; the hazards in `PROJECT.json` say so where they name it. RoutesAsWritten speaks
of routes whose rules share a key with no rule for another set of keys (`Plain`).

## 4. What is proved

The theorems are for any sets of users, addresses, keys, nodes, access lists,
secrets, requests and updates, any mutation, any lockout and any size of the policy
array, from the assumptions in the modules alone. Most say that a sentinel (`Absent`,
`Unset`, `NoNode`, `Nothing`, ...) is none of the values it stands beside. The others:
the lockouts and the array are not zero; the server's address is one of the subnet and
not the last (`SubnetAssumption`); there is an access list (`AclsAssumption`); a setting
belongs to one section of the json file, and the file has a section
(`BootstrapAssumption`); a mutation returns a value or an error; bounds are numbers.
Where an argument counts requests, finitely many are served at once
(`SessionsAssumption`, `RegistrationAssumption`, `AdminAssumption`).

In each module the invariant was first checked by TLC on the bounds of the run, then
proved with one step per action.

**FirewallProofs**, the router. `EntriesTheorem` and `OwnedTheorem`: `FirewallSpec =>
[]EntriesTracked` and `[]EntriesOwned`. EntriesTracked is not inductive alone: `AddUser`
starts a user with an empty map and would lose the addresses it had, but for
EntriesOwned, by which a user not yet known has no entries. `UnlockTheorem`
(`UnlockEndsSessions`) follows: only `SetLockAccount` unlocks, it ends every session
among the addresses it knows of, and by EntriesTracked these are all.

**FirewallProofs**, the event handlers. FirewallSpec asks two things of its callers, and
`CallsTheorem` (`CallsAllowed`) says that the handlers keep to them: while none overtakes
another of its record, every step of FirewallSync is a step of FirewallSpec, or a
refresh, which may unlock an account ahead of the handler of the unlock. It speaks of two
states and of everything in between them and etcd, so it needs to know how far the router
is behind. The invariant is `Chain`. The handlers of an address form a line: the first
agrees with the entry of the map on the owner (`Entered`), each with the next (`Linked`),
the last with the record in etcd (`Ending`), and an entry that no handler is about has
the owner of its record (`Standing`); one that has begun is the first of its line
(`InTurn`). Before Setup has read, the snapshot is etcd's (`Current`) and there are no
entries (`Bare`). `EntriesInOrderTheorem` draws the conclusion: in the handlers, too, every
entry is tracked in both Go maps and its user is known. `SyncTypeTheorem` has the types,
among them which calls a handler of each topic can have left (`HandlerOK`).

**SessionsProofs**, the event handlers again. `SessionsTheorem`: `Spec => []SessionsBacked`. Of
the record in etcd an entry of the XDP map follows three aspects, the node, whether there is
a login, and whether the device is locked out. A handler *renews* an aspect if it still has
to make the call that puts it right whatever it was before (`Renews`), and *says* it if its
own record, perhaps an old one, decides what it writes (`Says`). The invariant has for each
aspect `Told` (a handler that says it, with none behind it that renews it, agrees with what
etcd has now) and `Done` (an entry for which no handler is left that renews is right
already, `Holds`). A write keeps them because what it changes for the worse
is renewed by its own handler (`Reported`); a call of a handler, because `Chain` and
`InTurn` put every later handler of the address behind it. The owner is `Chain`'s. For the
lockout `Mild` is needed: without attempts no record is past it. `Locks` is the like of
Done for `accountLocked`, where every handler of a user decides for itself; without handlers
it is `LocksTheorem`: the locks of the router are those of etcd. The invariant is preserved
by every step whose state is `InOrder`, and holds of a router set up from a snapshot.

**MirrorProofs**, the event handlers one after the other (`Serial`). `MirrorTheorem`: `Spec =>
[]MirrorsEtcd`. `ReplaceTheorem`: `Spec => []ReplaceFindsMap`. `LoginsTheorem`: `Spec =>
[]LoginsTakeEffect`. Here the order between different records matters, for a key may go
from one device to another, an address from one user to another, and a user may be
deleted and created again before the handlers of its devices have run. So the invariant
takes the pool for the part of etcd's history the router has yet to see. A `View` is what
etcd had at one time: its users, the owner and the key of each device, and which devices
belong to a user who has not been deleted since. `Story` says there is a view before each
handler and one after the last, that the write of each handler `Fits` the view before it
and makes the next one of it (`After`), that in each no two devices share a key and the
owners of the devices kept are there (`Sound`), and that the last is what etcd has now
(`Matches`). `Reflects` says that the router has what the *first* view says, in all six of
its maps at once. A handler that ends takes its view off the front, which needs that
AddPeer, RemovePeer, ReplacePeer, AddUser and RemoveUser bring a router that reflects a
view to one that reflects the next; a write appends views at the end; Setup and a crash
begin a story of one view. In the proof the views are existentially quantified; when TLC
checked the invariant, before the proof, an extra variable carried them. Beside the
story there are `GoneFollow` (of a user who is gone the last handler is
the one that removes it), `AclsFollow` (where no refresh is to come, the access list is
etcd's, as is the one the handler of a new user has read), `LoginsFollow` (a login that nothing
has ended has its session, or the handler that gives it is to come, and nothing behind
takes it back) and `OneByOne` (only the first handler has made a call), and of etcd alone
`KeysDiffer` and `Granted`. With an empty pool the only view is what etcd has, and the
router reflects it. The devices of a user deleted and created again, which the property
leaves out, are those of `deleting` that no view keeps. The proof takes from SessionsProofs
the locks and the lines of the handlers, and from the model that an entry of the XDP map
is never the mark for a missing one (`EntryAssumption`).

**AuthenticationProofs**: `TypeTheorem`, `GuessesTheorem`, `SecretTheorem` and
`ResurrectionTheorem`. GuessesBounded is about the past; the invariant that carries it is
`AttemptsCover`: as long as the counter has not passed the lockout, it is at least the
answers already evaluated plus the requests that have counted themselves and not yet read
it. So whoever reads a counter below the lockout leaves the sum below it. Requests counted
before a counter was cleared are `carried` and belong to no sum: that is the exact
guarantee, since clearing the counter under a login does let those through. `CommitsRead`
(who is about to commit has read the record that is there) gives NoResurrection.
EnforcedSecretVerified needs `SecretsHeld`: what a request has read of its user's method
still stands, and past `Verify` it has been proven, unless a reset or a registration wrote
another under it, which makes the user one of `contested`.

**RegistrationProofs**: `AddressTheorem`, `FailedTheorem`, `TokenTheorem`,
`DeviceUserTheorem`. An address leads to one device because at most one request is about
to assign it under a lease that has not lapsed (`HoldersAlone`) and a deletion that is
halfway removes the only device there is (`RemovesOnly`). FailedLeaveNoDevice follows from
`DevicesSeenTo`: a device at an address that is not contested was accepted, or left by a
failure out of sight of the deferred function, or a request is there that will accept or
remove it. `UsesCounted` says that the uses accepted and
those left are no more than those granted and the requests about to delete the token,
which are what exceeds it. `UsersKnown`, for DevicesHaveUsers: a request that has seen its
user has one, or one of `outlived`.

**PoliciesProofs**: `MembershipTheorem` and `InstalledTheorem`. `EditsKnow`: of a pair of a
group and a user that was not crossed, at most one editor is at the group, and what of it
still differs is what that editor has left to change. `ReadingCurrent`: what a handler
between the two transactions of `GetEffectiveAcl` has read is still so, or another refresh
of the user is to come. `InstalledOrToCome`: what a user has installed is current, or a list
is to come, or the user is one of `stale`; the list of an `AddUser` counts as one to come
only for a user not yet `known`, and a reading that failed makes the user stale.

**ServicesProofs**, the update of a record. `UpdateTheorem`, `SpecUpdate =>
UpdatesAtomic`: every behaviour of the loop, with any number of calls and any other
writes, is one of AtomicUpdate. The invariant is that a key without a record has revision
0 and no other (`Versioned`), and that no caller has a revision ahead of etcd's and a
caller whose revision is still the key's has read what is there (`Current`). It is
preserved because a revision is never used twice: the comparison of the transaction then
means that the record has not changed since it was read, even if it was deleted and made
again in between. Every step of SafeUpdate is mapped to an update, a refusal or a stutter.
This is what entitles the other modules to make a `doSafeUpdate` one step.
`UpdateTypeTheorem` states the types.

**ServicesProofs**, the other services: `AdminGuessesBounded` by the argument of
`AttemptsCover` (`AttemptsAhead`, `Uncompared`); `SettingsKept` and `MigratedUsersWhole`
by what a node that has come to a given step has found or put (`Ready`, `SectionsKept`);
`MethodsFollowSettings` by what each of the four handlers has left to do from where it is
(`HalfWay`), and what the methods are once those are through (`Follows`), as long as no
save has overlapped the start or another save (`Undisturbed`); `AnswersAcceptedOnce` by
`AnswersCounted`: the counter stored has reached that of every answer accepted, as long as
no value was stored over one it was not read from. A key is let through at a counter it
does not exceed only if both are 0, which takes a key without a counter. It rests on
challenges being given out once (`MadeBefore`, `ChallengesApart`, `UsersApart`) and on
what a browser waits for (`Waiting`).

**NodeProofs**, the services: `NodeTheorem`. `Progress` says for each position of the one
handler that holds the lock what is up by then, of the services whose end is not silent.

**NodeProofs**, the XDP program: `PassTheorem` and `DropTheorem`. The loop invariant says of
the policies before `i` that none was a stop or deny policy, that `decision` is set
if and only if one of them matched, and that the session was good at some time if
one asked for MFA. `Filled`, which is what ParseRules leaves behind, says that
nothing matches after the first stop policy. Together they say: a packet whose
device the router leaves alone passes if and only if the rules permit it.

**Only model-checked.** `RoutesAsWritten`:
merging and inserting rules are folds over sequences, and what they compute for every
list takes induction over data. `ServicesTypeOK`, since the types of Routes rest on the same
folds; those of the other services it puts together are theorems of ServicesProofs.
`PacketDecided`, `RegistrationEnds`, `InstalledCatchesUp`,
`ServiceFollowsHealth` and `ClosedConnectionsEnd` are liveness under fairness, which the
provers do not reach.

## 5. Where code and documentation differ

* **DeviceLock.** `README.md:134-135` says that `-lock` locks a device's access to
  MFA routes. `AuthoriseDevice` (`devices.go:117`) checks the account only and clears
  the counter. A login past the check of the counter when the administrator locks
  the device unlocks it again.
* **LockReorder.** `README.md:153-154` says that `-lockaccount` ends a user's
  sessions and disables authentication. Two changes of one account are handled by
  two goroutines (`events.go:131`); if the handler of an unlock is late, it undoes a
  later lock in this node's firewall.
* **XdpFullRoute.** The loop has to look at all policies (`xdp.c:584`). If none of
  the `MAX_POLICIES` is a stop policy it falls out of the loop and returns 0
  (`xdp.c:604`), whatever it had decided. ParseRules refuses only *more* than
  `MAX_POLICIES` (`parser.go:133`), so a full route drops everything.
* **RouteRefresh.** `README.md:445` says that deny rules block access to a route. A
  refresh of a user that has a map repopulates it in place (`bpf.go:452`), and
  `clearPolicyMap` (`bpf.go:406`) deletes the longest prefixes first. For a moment the
  deny of a host is gone and the allow of its network is not, though old list and new
  one both deny.

Four more, which the models have and a property exempts, by name:

* *A failed registration may keep its device.* `web.go:483` asks over `AddDevice` not to
  "shadow the global err here as we're using a defer to monitor failures to delete the
  device". The branch of `type=mobile` declares `err` anew (`web.go:575`), so after a failure
  at 576, 583, 591 or 603 the device of the failed registration stays: `left`, which
  FailedLeaveNoDevice exempts.
* *Packets of a device of another node.* The diagram at `xdp.c:91-112` drops the packets of
  a device "not associated with current node" before any policy is checked. `conntrack`
  compares the two only as part of the test of an MFA policy (`xdp.c:593`), so such a device
  gets through where only public rules match. The comments at `xdp.c:579-590` describe what is
  done, and `README.md:261` calls public routes those "that do not require authorisation".
  PassJustified and DropJustified follow these, and so do not decide which of the two is meant.
* *A tunnel that is not served.* `web.go:234` (and `198-199` with TLS) reports "webserver
  tunnel listener failed" if `errors.Is(err, http.ErrServerClosed)`; the public listener has
  `!errors.Is` (`web.go:144`). A tunnel that cannot listen is not reported, and the node takes
  itself to be up (`ListenerFails`). NodeAsRemembered and ServiceFollowsHealth leave tunnel and
  control socket out (`Loud`).
* *Overlapping saves.* `web.go:170` says of the listeners "For any change to the
  authentication config re-up". Two saves in a row have their handlers in goroutines of their
  own (`events.go:131`); the older one may switch its methods on after the newer one has
  switched off what was on, and a method the settings no longer name stays on: `overlapped`,
  which MethodsFollowSettings exempts.

Other behaviour the models have, or that was met while writing them, for which no run
is kept:

*Authentication and sessions.* A lockout of N evaluates N-1 answers, for the counter
includes the request that reads it (`user.go:122`). A login that commits after `ResetMfa`
leaves a session for a user without MFA. A change between the snapshot of `Setup` and the
registration of a watch is lost until the next change of that record. The handler of a
device that is locked out ends its session only if it can be used at that moment
(`statemachine.go:129`); an idle session stays in the map, authorised, and a longer
inactivity timeout, or a refresh of all users that applies it first, gives the locked
device its access back, with every handler run in order: the exception `Apart` of
SessionsBacked. The event of a new device handled before that of its new user is lost
(`bpf.go:288`), and a change of its key after that writes to a nil map. `AddUser` may
install an access list older than the one a refresh has just installed
(`statemachine.go:195`).

*WebAuthn.* Two overlapping logins of a user may both be accepted or leave the lower
counter. A login under an administrator's `ResetMfa` stores the key again. Beginning a
registration on a second device replaces one that has just finished, until a reset. The
session of a login is not deleted (`webauthn.go:247-273`), so only the counter makes an answer
good for one login, and the answer of an authenticator without a counter, which always sends
0, is accepted as often as it is posted. No document of the repository speaks of that, so
there is no run for it; AnswersAcceptedOnce is about the keys that count.

*Registration and addresses.* Tokens that overwrite a device cannot be made: their
device is looked up under `device-ref-`, which nobody writes. A token with groups for a
user without an account fails every time. Two registrations may share a token's last
use. A search of a full subnet ends only if it began at the first address; the broadcast
address may be handed out. `DeleteDevices` leaves the references of the devices behind.
The removal of a failed registration goes by address, whoever's device is there by then.
`DeleteUser` removes the user first: if it fails then, or a registration that had seen the
user goes on, devices without a user are left, which `setupXDP` stumbles over.

*Groups and access lists.* An edit cut short leaves group and membership in disagreement.
Logins by single sign-on and new accounts overwrite a membership and leave the groups as
they are. A change of DNS servers refreshes no node. When a transaction of
`GetEffectiveAcl` fails, a list with the server's address only (`acls.go:101-106`) or an
empty one (`154-157`) is installed, no error is returned, and nothing refreshes the user
until the next change that concerns the user. A lock handled before the `AddUser` of its
user makes `AddUser` refuse, and the user has no rules until then. Removing a member
refreshes the remaining members by the group's event; the removed one by that of the
membership.

*Routes.* Where rules share some of their keys (a name with several addresses, and a rule
for one of them) the later put replaces the merged policies, so a deny may be lost or
reach the other addresses of the name. A rule whose name cannot be looked up is skipped,
also when it denies. A list whose one route has too many policies leaves the user with no
routes. What a name was resolved to is remembered for the life of the process. When all
users are refreshed a map that has just been filled in place is made once more, for want
of a `continue` (`bpf.go:452-464`).

*Node.* The goroutine of the tunnel's web server takes a closed server for a failure, so a
node torn down ends its process. That of the control socket prints its error and ends. The
channel by which `TearDown` stops the endpoint watcher is also read by the handlers of
websockets (`session_manager.go:191`). A second `Setup` registers every listener again.
A handler of a websocket that ends takes a newer connection out with it.

*Administrators and settings.* `SetAdminPassword` uses 64 characters of salt and
`CompareAdminKeys` takes the last 16, so after a change of password the account cannot
log in. `DeleteAdminUser` deletes every account whose name begins with the name.
`changePassword` compares without counting. A change between `AddMFARoutes` and the listeners
is missed. An `Init` that fails has already replaced the details of OIDC, or drops its provider
(`oidc.go:52`, `82`), and the method stays enabled, broken, until the next one that succeeds.
A change of domain does not reach WebAuthn. The json file is imported again after an
administrator has deleted all access lists or groups (`init.go:207-229`), an import cut
short is not resumed, and two nodes that start together may overwrite what an
administrator has put. A migration cut short fails at the first user it finds.

## 6. What is not modelled

* Parsing and building of packets, iptables, netlink, the HTTP pages, the command
  line and the control socket: input and output around the operations modelled.
* The configuration file: its values are constants.
* Adding, promoting and removing members of etcd's cluster. NodeState has what comes of
  it, a leader or none, a learner or a member.
* System calls of the router are taken to succeed, but for a route map that is full.
  Endpoint, keepalive and preshared key of a peer are left out, and so is
  `setPeerEndpoint`.
* The deferred `DeleteDevice` of a failed registration is taken to reach etcd; its error is
  only logged.
* In Methods an `Init` reads the settings in one step, the first of its reads, so that what it
  read of a save in between counts as old.
* Clocks: a session lapses or falls idle, a lease lapses and a deadline passes at any
  time. The arithmetic on nanoseconds is not modelled.
* In FirewallSync and Policies a user's policy map is one value; its routes, one by one,
  are those of Routes.
* The second `Setup` of a process in FirewallSync, with the listeners it registers again;
  references of public keys; the order of members and groups; the spelling of rules,
  names and addresses.

## 7. Plan

1. Abstract specifications: a login as one atomic step that Authentication implements; a
   router that goes from one view of etcd to the next, which FirewallSync implements under
   `Serial`, with the views of MirrorProofs as its refinement mapping.
2. Which part of MirrorsEtcd needs no more than `InOrder`, as the locks and the sessions do.
3. Members of the cluster as a module of its own, composed with NodeState.
