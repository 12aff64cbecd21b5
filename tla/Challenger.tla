------------------------------ MODULE Challenger ------------------------------
(***************************************************************************)
(* The websockets a device keeps open while it is authorised, and the      *)
(* challenges over them (internal/router/session_manager.go).              *)
(*                                                                         *)
(* A handler puts its connection under the address of the device, closing  *)
(* the one that was there, and takes out whatever is under the address     *)
(* when it ends.  A challenge holds the lock for reading until the answer  *)
(* comes or its deadlines pass.  Addresses do not touch one another: there *)
(* is one.  The device record and the session's age, which Challenge       *)
(* reads, decide only the verdict, which is left open.                     *)
(***************************************************************************)
CONSTANTS
  Handlers,    \* requests of Challenger.WS
  Router,      \* deviceChanges, which challenges a device that moved
  NoSocket     \* no connection

ASSUME ChallengerAssumption == Router \notin Handlers /\ NoSocket \notin Handlers

VARIABLES
  connection,  \* whose connection is in c.connections
  socket,      \* per handler: where it is, and whether its connection is closed
  asking       \* per challenge under way: whose connection it is over

challenger == <<connection, socket, asking>>

Challengers == Handlers \cup {Router}

NoHandler == [step |-> "idle", closed |-> FALSE]

InitChallenger ==
  /\ connection = NoSocket
  /\ socket = [h \in Handlers |-> NoHandler]
  /\ asking = [c \in Challengers |-> NoSocket]

(* c.Lock() waits for the readers.                                         *)
Unread == \A c \in Challengers : asking[c] = NoSocket

(* The connections of the handlers hs are closed; Close closes once.       *)
Close(hs) == [h \in Handlers |->
  IF h \in hs THEN [socket[h] EXCEPT !.closed = TRUE] ELSE socket[h]]

Upgrade(h) ==
  /\ socket[h] = NoHandler
  /\ socket' = [socket EXCEPT ![h].step = "open"]
  /\ UNCHANGED <<connection, asking>>

Connect(h) ==
  /\ socket[h].step = "open"
  /\ Unread
  /\ socket' = [Close({connection}) EXCEPT ![h].step = "challenge"]
  /\ connection' = h
  /\ UNCHANGED asking

(* Challenge looks up the connection under the address, which need not be  *)
(* that of the handler that asks.                                          *)
Challenge(c) ==
  /\ c \in Handlers => socket[c].step = "challenge"
  /\ asking[c] = NoSocket
  /\ connection # NoSocket
  /\ asking' = [asking EXCEPT ![c] = connection]
  /\ UNCHANGED <<connection, socket>>

Unconnected(h) ==
  /\ socket[h].step = "challenge"
  /\ asking[h] = NoSocket
  /\ connection = NoSocket
  /\ socket' = [socket EXCEPT ![h].step = "leave"]
  /\ UNCHANGED <<connection, asking>>

(* The handler that asked goes on to wait, or returns.                     *)
Concluded(c, sockets, step) ==
  /\ socket' = IF c \in Handlers THEN [sockets EXCEPT ![c].step = step] ELSE sockets
  /\ asking' = [asking EXCEPT ![c] = NoSocket]
  /\ UNCHANGED connection

Answer(c) ==
  /\ asking[c] # NoSocket
  /\ ~socket[asking[c]].closed
  /\ \E step \in {"wait", "leave"} : Concluded(c, socket, step)

(* No answer in time, or the connection was closed: it is closed.          *)
NoAnswer(c) ==
  /\ asking[c] # NoSocket
  /\ Concluded(c, Close({asking[c]}), "leave")

(* The wait ends with the connection.                                      *)
Await(h) ==
  /\ socket[h].step = "wait"
  /\ socket[h].closed
  /\ socket' = [socket EXCEPT ![h].step = "leave"]
  /\ UNCHANGED <<connection, asking>>

\* Mistake: only a connection that is still open is taken out.
LeaveEarly(h) ==
  /\ socket[h].step = "leave"
  /\ Unread
  /\ socket' = [socket EXCEPT ![h] = NoHandler]
  /\ connection' = IF connection = h /\ ~socket[h].closed THEN NoSocket ELSE connection
  /\ UNCHANGED asking

(* The deferred end of WS takes out whatever connection is there.          *)
Leave(h) ==
  /\ socket[h].step = "leave"
  /\ Unread
  /\ socket' = [socket EXCEPT ![h] = NoHandler]
  /\ connection' = NoSocket
  /\ UNCHANGED asking

SocketStep(h) == Upgrade(h) \/ Connect(h) \/ Unconnected(h) \/ Await(h) \/ Leave(h)

NextChallenger ==
  \/ \E h \in Handlers : SocketStep(h)
  \/ \E c \in Challengers : Challenge(c) \/ Answer(c) \/ NoAnswer(c)

(* The locks of Go are fair to those who wait for them, and a challenge    *)
(* has deadlines.                                                          *)
Locking(h) == Connect(h) \/ Leave(h)

Challenging(c) == Answer(c) \/ NoAnswer(c)

Going(h) == Unconnected(h) \/ Await(h) \/ Challenge(h) \/ Challenging(h)

ChallengerFairness ==
  /\ \A h \in Handlers : SF_challenger(Locking(h)) /\ WF_challenger(Going(h))
  /\ WF_challenger(Challenging(Router))

SpecChallenger == InitChallenger /\ [][NextChallenger]_challenger /\ ChallengerFairness

-----------------------------------------------------------------------------
ChallengerTypeOK ==
  /\ connection \in Handlers \cup {NoSocket}
  /\ socket \in [Handlers -> [step: {"idle", "open", "challenge", "wait", "leave"},
                              closed: BOOLEAN]]
  /\ asking \in [Challengers -> Handlers \cup {NoSocket}]

(* A connection that was closed, by a missed challenge or a newer one,     *)
(* does not stay under the address: sooner or later a challenge finds a    *)
(* live one or none, and the handler of every closed one returns.          *)
ClosedConnectionsEnd ==
  \A h \in Handlers : socket[h].closed ~> socket[h].step = "idle" /\ connection # h
=============================================================================
