----------------------------- MODULE Admission ------------------------------
(***************************************************************************)
(* ConfiguredSocketIoAdapter, the handshake middleware of                  *)
(* CollaborationGateway and CollaborationRateLimiterService: how a         *)
(* connection is let in, and what each of the many ways it can end gives   *)
(* back.                                                                   *)
(*                                                                         *)
(* A request is an HTTP request for a transport, then that transport, then *)
(* the sockets that CONNECT on it, one at a time.  Between the start and   *)
(* the end of a verification anything may happen.  Engine.IO closes a      *)
(* transport that is discarded at once.  The two maps of the rate limiter  *)
(* are alike: one stands for both.                                         *)
(***************************************************************************)
EXTENDS Integers, FiniteSets, FiniteSetsExt, Functions

CONSTANTS Request, Client, Session,
          ClientOf,        \* clientAddress of a request
          SessionOf,       \* the session of its token
          HandshakeLimit,  \* handshakeLimit, of a client in a window
          GlobalLimit,     \* handshakeGlobalLimit
          MaxPending,      \* maxPendingHandshakes
          MaxSockets,      \* maxConnectedSockets
          MaxPerSession,   \* maxSocketsPerSession
          EventLimit       \* commandLimit, controlEventLimit

ASSUME ClientAssumption == ClientOf \in [Request -> Client]
ASSUME SessionAssumption == SessionOf \in [Request -> Session]
ASSUME LimitsAssumption ==
  /\ {HandshakeLimit, GlobalLimit, MaxPending} \subseteq Nat
  /\ EventLimit \in Nat \ {0}

VARIABLES
  phase,      \* the request or transport
  verifier,   \* its latest socket: the middleware and what follows it
  slot,       \* requests with a reservation
  timer,      \* reservations whose timer is set
  attempts,   \* handshakeAttemptsByClient
  total,      \* handshakeAttempts
  windowOver, \* the window is older than handshakeWindowMs
  pending,    \* pendingHandshakes
  connected,  \* connectedSocketIds
  bySession,  \* socketIdsBySession
  events,     \* the windows of the rate limiter: their counts
  repeated    \* history: transports with a second CONNECT

slots == <<slot, timer, pending>>
window == <<attempts, total, windowOver>>
sockets == <<connected, bySession, events>>
vars == <<phase, verifier, slots, window, sockets, repeated>>

Init ==
  /\ phase = [r \in Request |-> "unsent"]
  /\ verifier = [r \in Request |-> "none"]
  /\ slot = {}
  /\ timer = {}
  /\ attempts = [c \in Client |-> 0]
  /\ total = 0
  /\ windowOver = TRUE
  /\ pending = 0
  /\ connected = {}
  /\ bySession = <<>>
  /\ events = <<>>
  /\ repeated = {}

\* verificationStarted, for as long as there is a reservation to hold it.
Started(r) == verifier[r] # "none"

-----------------------------------------------------------------------------
(* Reservations.                                                           *)

\* reserveHandshake: a window that is over is renewed first, also by a request
\* that is refused.
ReserveHandshake(r) ==
  LET c == ClientOf[r]
      ofClient == IF windowOver THEN [d \in Client |-> 0] ELSE attempts
      ofAll == IF windowOver THEN 0 ELSE total
      allowed == ofAll < GlobalLimit /\ ofClient[c] < HandshakeLimit /\ pending < MaxPending
      one == IF allowed THEN 1 ELSE 0 IN
  /\ phase[r] = "unsent"
  /\ windowOver' = FALSE
  /\ attempts' = [ofClient EXCEPT ![c] = @ + one]
  /\ total' = ofAll + one
  /\ pending' = pending + one
  /\ slot' = slot \cup {q \in {r} : allowed}
  /\ timer' = timer \cup {q \in {r} : allowed}
  /\ phase' = [phase EXCEPT ![r] = IF allowed THEN "requested" ELSE "closed"]
  /\ UNCHANGED <<verifier, sockets, repeated>>

WindowElapses ==
  /\ ~windowOver
  /\ windowOver' = TRUE
  /\ UNCHANGED <<phase, verifier, slots, attempts, total, sockets, repeated>>

\* Mutant: a release does not look whether the reservation is still there.
ReleaseAgain(r) ==
  /\ slot' = slot \ {r}
  /\ timer' = timer \ {r}
  /\ pending' = pending - 1
\* release: the first call gives the slot back.
Release(r) ==
  /\ slot' = slot \ {r}
  /\ timer' = timer \ {r}
  /\ pending' = IF r \in slot THEN pending - 1 ELSE pending

\* Mutant: a transport that closes gives its slot back during the verification.
ReleaseAlways(r, left) == Release(r)
\* The timer and the close of a transport leave the slot to a verification that
\* has started; "left" are the timers that are set then.
ReleaseUnlessStarted(r, left) ==
  IF Started(r) THEN timer' = left /\ UNCHANGED <<slot, pending>> ELSE Release(r)

\* The engine announces the connection of a request.
EngineConnects(r) ==
  /\ phase[r] = "requested"
  /\ phase' = [phase EXCEPT ![r] = "open"]
  /\ UNCHANGED <<verifier, slots, window, sockets, repeated>>

\* releaseAbortedRequest.
RequestAborted(r) ==
  /\ phase[r] = "requested"
  /\ phase' = [phase EXCEPT ![r] = "closed"]
  /\ Release(r)
  /\ UNCHANGED <<verifier, window, sockets, repeated>>

-----------------------------------------------------------------------------
(* Sockets.                                                                *)

\* reserveSocket
RoomFor(r) ==
  /\ Cardinality(connected) < MaxSockets
  /\ SessionOf[r] \in DOMAIN bySession => Cardinality(bySession[SessionOf[r]]) < MaxPerSession

ReserveSocket(r) ==
  LET x == SessionOf[r]
      others == IF x \in DOMAIN bySession THEN bySession[x] ELSE {} IN
  /\ connected' = connected \cup {r}
  /\ bySession' = [y \in DOMAIN bySession \cup {x} |->
                     IF y = x THEN others \cup {r} ELSE bySession[y]]

\* releaseSocketReservation: a session goes with its last socket.
ReleaseSocket(r) ==
  LET left == [y \in DOMAIN bySession |-> bySession[y] \ {r}] IN
  /\ connected' = connected \ {r}
  /\ bySession' = Restrict(left, {y \in DOMAIN left : left[y] # {}})

\* Mutant: only sockets that were connected are released.
CleanUpConnected(r) ==
  IF verifier[r] = "connected"
  THEN ReleaseSocket(r) /\ events' = Restrict(events, DOMAIN events \ {r})
  ELSE UNCHANGED sockets
\* What the close of a transport releases: the reservation, by the listener of
\* the middleware, and the windows, by handleDisconnect.
CleanUp(r) ==
  IF verifier[r] \in {"admitted", "connected"}
  THEN ReleaseSocket(r) /\ events' = Restrict(events, DOMAIN events \ {r})
  ELSE UNCHANGED sockets

\* A verification in course goes on after the close of its transport.
Closed(r) ==
  /\ phase' = [phase EXCEPT ![r] = "closed"]
  /\ verifier' = [verifier EXCEPT ![r] = IF @ \in {"none", "running"} THEN @ ELSE "over"]
  /\ CleanUp(r)
  /\ UNCHANGED <<window, repeated>>

TransportCloses(r) ==
  /\ phase[r] = "open"
  /\ Closed(r)
  /\ ReleaseUnlessStarted(r, timer)

\* The timer of a reservation: it closes the transport or destroys the request.
Deadline(r) ==
  /\ r \in timer
  /\ Closed(r)
  /\ ReleaseUnlessStarted(r, timer \ {r})

\* The first CONNECT of a transport, or one after an earlier socket was refused or
\* has left: without a token it is refused.
Connect(r) ==
  /\ phase[r] = "open"
  /\ verifier[r] \in {"none", "over"}
  /\ repeated' = repeated \cup {q \in {r} : verifier[r] = "over"}
  /\ \/ verifier' = [verifier EXCEPT ![r] = "running"] /\ UNCHANGED slots
     \/ verifier' = [verifier EXCEPT ![r] = "over"] /\ Release(r)
  /\ UNCHANGED <<phase, window, sockets>>

\* Mutant: nobody looks whether the transport has closed.
StaysReserved(r) == RoomFor(r)
\* The session is active: is there still a transport, and room?
MayReserve(r) == phase[r] = "open" /\ RoomFor(r)

\* The verification answers with a principal.
VerificationSucceeds(r) ==
  /\ verifier[r] = "running"
  /\ IF MayReserve(r)
     THEN /\ ReserveSocket(r)
          /\ verifier' = [verifier EXCEPT ![r] = "admitted"]
     ELSE /\ UNCHANGED <<connected, bySession>>
          /\ verifier' = [verifier EXCEPT ![r] = "over"]
  /\ Release(r)
  /\ UNCHANGED <<phase, window, events, repeated>>

\* Mutant: a refused verification does not come to the release.
VerificationFailsQuietly(r) ==
  /\ verifier[r] = "running"
  /\ verifier' = [verifier EXCEPT ![r] = "over"]
  /\ UNCHANGED <<phase, slots, window, sockets, repeated>>
\* It fails, or its time is over.
VerificationFails(r) ==
  /\ verifier[r] = "running"
  /\ verifier' = [verifier EXCEPT ![r] = "over"]
  /\ Release(r)
  /\ UNCHANGED <<phase, window, sockets, repeated>>

\* The tick after next(): the socket is connected.
Register(r) ==
  /\ verifier[r] = "admitted"
  /\ verifier' = [verifier EXCEPT ![r] = "connected"]
  /\ UNCHANGED <<phase, slots, window, sockets, repeated>>

\* The client leaves the namespace and keeps its transport: handleDisconnect.
Disconnects(r) ==
  /\ verifier[r] = "connected"
  /\ verifier' = [verifier EXCEPT ![r] = "over"]
  /\ CleanUp(r)
  /\ UNCHANGED <<phase, slots, window, repeated>>

\* allow: the first event of a window, or one more within the limit.
Event(r) ==
  /\ verifier[r] = "connected"
  /\ \/ events' = [q \in DOMAIN events \cup {r} |-> IF q = r THEN 1 ELSE events[q]]
     \/ /\ r \in DOMAIN events
        /\ events[r] < EventLimit
        /\ events' = [events EXCEPT ![r] = @ + 1]
  /\ UNCHANGED <<phase, verifier, slots, window, connected, bySession, repeated>>

-----------------------------------------------------------------------------
Next ==
  \/ WindowElapses
  \/ \E r \in Request :
       \/ ReserveHandshake(r) \/ EngineConnects(r) \/ RequestAborted(r)
       \/ TransportCloses(r) \/ Deadline(r)
       \/ Connect(r) \/ VerificationSucceeds(r) \/ VerificationFails(r)
       \/ Register(r) \/ Disconnects(r) \/ Event(r)

Spec == Init /\ [][Next]_vars

\* Timers fire; a verification ends, by its own time limit at the latest.
Fairness ==
  \A r \in Request :
    /\ WF_vars(Deadline(r))
    /\ WF_vars(VerificationSucceeds(r) \/ VerificationFails(r))

FairSpec == Spec /\ Fairness

-----------------------------------------------------------------------------
(* Properties.                                                             *)

\* The types of the state; a reservation belongs to a handshake in course.
TypeOK ==
  /\ phase \in [Request -> {"unsent", "requested", "open", "closed"}]
  /\ verifier \in [Request -> {"none", "running", "admitted", "connected", "over"}]
  /\ timer \subseteq slot
  /\ slot \subseteq {r \in Request : verifier[r] \in {"none", "running"}}
  /\ attempts \in [Client -> 0 .. HandshakeLimit]
  /\ total \in 0 .. GlobalLimit
  /\ windowOver \in BOOLEAN
  /\ DOMAIN events \subseteq Request
  /\ \A r \in DOMAIN events : events[r] \in 1 .. EventLimit
  /\ repeated \subseteq Request

\* All is well typed, and the counter of pending handshakes counts the
\* reservations, whatever ends each of them, and a verification keeps its slot
\* to its end although its transport or its time is over; a second CONNECT of a
\* transport has none.
VerifiersHoldSlots ==
  /\ TypeOK
  /\ pending = Cardinality(slot)
  /\ pending <= MaxPending
  /\ \A r \in Request : verifier[r] = "running" => r \in slot \/ r \in repeated

\* What a socket reserves it holds while it is admitted or connected on an open
\* transport, in both maps alike; windows of the rate limiter and sessions
\* without sockets do not stay behind.
NothingLeftBehind ==
  /\ connected = {r \in Request : phase[r] = "open" /\ verifier[r] \in {"admitted", "connected"}}
  /\ connected = UNION {bySession[x] : x \in DOMAIN bySession}
  /\ \A x \in DOMAIN bySession :
       bySession[x] # {} /\ \A r \in bySession[x] : SessionOf[r] = x
  /\ DOMAIN events \subseteq connected

\* Every slot is given back, also that of a client which never sends CONNECT.
SlotsReturned == \A r \in Request : r \in slot ~> r \notin slot
=============================================================================
