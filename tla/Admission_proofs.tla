-------------------------- MODULE Admission_proofs --------------------------
(***************************************************************************)
(* Proofs about Admission, for any number of requests, clients and         *)
(* sessions and any limits.                                                *)
(***************************************************************************)
EXTENDS Admission, FiniteSetTheorems, TLAPS

(***************************************************************************)
(* The inductive invariant                                                 *)
(***************************************************************************)

\* The sockets that hold a reservation.
Seated == {"admitted", "connected"}
Active == {r \in Request : phase[r] = "open" /\ verifier[r] \in Seated}

Counted == IsFiniteSet(slot) /\ pending = Cardinality(slot) /\ pending <= MaxPending

\* A request holds its slot from the beginning to the end of its first
\* verification, or to the end of its transport if that comes earlier.
Course(r) ==
  /\ phase[r] \in {"unsent", "requested"} => verifier[r] = "none"
  /\ phase[r] = "unsent" => r \notin slot
  /\ phase[r] \in {"requested", "open"} /\ verifier[r] = "none" => r \in slot
  /\ verifier[r] \in Seated => phase[r] = "open"
  /\ verifier[r] = "running" => r \in slot \/ r \in repeated

Courses == \A r \in Request : Course(r)

SlotInv == TypeOK /\ Counted /\ Courses

(***************************************************************************)
(* Slots                                                                   *)
(***************************************************************************)

\* A release takes one reservation away, or none that is there.
LEMMA ReleaseCounts ==
  ASSUME SlotInv, NEW r \in Request, Release(r)
  PROVE  Counted' /\ slot' = slot \ {r} /\ timer' = timer \ {r}
<1>1. slot' = slot \ {r} /\ timer' = timer \ {r}
  BY DEF Release
<1>2. IsFiniteSet(slot) /\ Cardinality(slot) \in Nat /\ MaxPending \in Nat
  BY FS_CardinalityType, LimitsAssumption DEF SlotInv, Counted
<1>3. CASE r \in slot
  <2>1. Cardinality(slot \ {r}) = Cardinality(slot) - 1 /\ IsFiniteSet(slot \ {r})
    BY <1>2, <1>3, FS_RemoveElement
  <2>. QED BY <1>1, <1>2, <1>3, <2>1 DEF Release, SlotInv, Counted
<1>4. CASE r \notin slot
  <2>1. slot \ {r} = slot
    BY <1>4
  <2>. QED BY <1>1, <1>4, <2>1 DEF Release, SlotInv, Counted
<1>. QED BY <1>3, <1>4

\* The end of a transport spares the slot of a verification.
LEMMA SparedOrReleased ==
  ASSUME SlotInv, NEW r \in Request, NEW left \in SUBSET timer, ReleaseUnlessStarted(r, left)
  PROVE  /\ Counted'
         /\ slot' = IF Started(r) THEN slot ELSE slot \ {r}
         /\ timer' \subseteq slot' /\ timer' \subseteq timer
<1>1. CASE Started(r)
  BY <1>1 DEF ReleaseUnlessStarted, SlotInv, Counted, TypeOK
<1>2. CASE ~Started(r)
  <2>1. Release(r)
    BY <1>2 DEF ReleaseUnlessStarted
  <2>. QED BY <1>2, <2>1, ReleaseCounts DEF SlotInv, TypeOK
<1>. QED BY <1>1, <1>2

\* Closing changes the phase of a request and ends what its socket did.
LEMMA ClosedKeeps ==
  ASSUME SlotInv, NEW r \in Request, Closed(r),
         Counted', timer' \subseteq slot',
         slot' = IF Started(r) THEN slot ELSE slot \ {r}
  PROVE  SlotInv'
<1>. USE DEF SlotInv
<1>1. /\ phase' = [phase EXCEPT ![r] = "closed"]
      /\ verifier' = [verifier EXCEPT ![r] = IF @ \in {"none", "running"} THEN @ ELSE "over"]
      /\ UNCHANGED <<attempts, total, windowOver, repeated>>
  BY DEF Closed, window
<1>2. DOMAIN events' \subseteq DOMAIN events /\ \A q \in DOMAIN events' : events'[q] = events[q]
  BY DEF Closed, CleanUp, sockets, Restrict
<1>3. \A q \in Request \ {r} : /\ phase'[q] = phase[q] /\ verifier'[q] = verifier[q]
                               /\ q \in slot' <=> q \in slot
  BY <1>1 DEF TypeOK
<1>4. /\ phase'[r] = "closed"
      /\ verifier'[r] = IF verifier[r] \in {"none", "running"} THEN verifier[r] ELSE "over"
  BY <1>1 DEF TypeOK
<1>5. phase' \in [Request -> {"unsent", "requested", "open", "closed"}]
      /\ verifier' \in [Request -> {"none", "running", "admitted", "connected", "over"}]
  BY <1>1 DEF TypeOK
<1>6. slot' \subseteq {q \in Request : verifier'[q] \in {"none", "running"}}
  BY <1>3, <1>4 DEF TypeOK
<1>7. TypeOK'
  BY <1>1, <1>2, <1>5, <1>6 DEF TypeOK
<1>8. Courses'
  <2>1. Course(r)'
    BY <1>1, <1>4 DEF Courses, Course, Started, Seated
  <2>2. ASSUME NEW q \in Request \ {r}
        PROVE  Course(q)'
    BY <1>1, <1>3 DEF Courses, Course
  <2>. QED BY <2>1, <2>2 DEF Courses
<1>. QED BY <1>7, <1>8

\* A step of the middleware that ends with a release.
LEMMA ReleasedKeeps ==
  ASSUME SlotInv, NEW r \in Request, Release(r), NEW v \in {"admitted", "over"},
         verifier' = [verifier EXCEPT ![r] = v], phase[r] = "open" \/ v = "over",
         phase[r] \notin {"unsent", "requested"},
         UNCHANGED <<phase, attempts, total, windowOver, events>>,
         repeated \subseteq repeated', repeated' \subseteq Request
  PROVE  SlotInv'
<1>. USE DEF SlotInv
<1>1. Counted' /\ slot' = slot \ {r} /\ timer' = timer \ {r}
  BY ReleaseCounts
<1>2. TypeOK'
  BY <1>1 DEF TypeOK
<1>3. Courses'
  <2>1. Course(r)'
    BY <1>1 DEF Courses, Course, Seated, TypeOK
  <2>2. ASSUME NEW q \in Request \ {r}
        PROVE  Course(q)'
    BY <1>1 DEF Courses, Course, TypeOK
  <2>. QED BY <2>1, <2>2 DEF Courses
<1>. QED BY <1>1, <1>2, <1>3

\* A step of a socket that concerns no slot.
LEMMA SocketKeeps ==
  ASSUME SlotInv, NEW r \in Request, NEW v \in {"connected", "over"},
         verifier[r] \in Seated, verifier' = [verifier EXCEPT ![r] = v],
         UNCHANGED <<phase, slot, timer, pending, attempts, total, windowOver, repeated>>,
         DOMAIN events' \subseteq DOMAIN events, \A q \in DOMAIN events' : events'[q] = events[q]
  PROVE  SlotInv'
<1>. USE DEF SlotInv
<1>1. TypeOK'
  BY DEF TypeOK, Seated
<1>2. Courses'
  BY DEF Courses, Course, TypeOK, Seated
<1>3. Counted'
  BY DEF Counted
<1>. QED BY <1>1, <1>2, <1>3

\* A reservation is one more, within the limits.
LEMMA ReservedKeeps ==
  ASSUME SlotInv, NEW r \in Request, ReserveHandshake(r)
  PROVE  SlotInv'
<1>. USE DEF SlotInv
<1>. DEFINE ofClient == IF windowOver THEN [d \in Client |-> 0] ELSE attempts
            ofAll == IF windowOver THEN 0 ELSE total
            allowed == ofAll < GlobalLimit /\ ofClient[ClientOf[r]] < HandshakeLimit
                       /\ pending < MaxPending
            one == IF allowed THEN 1 ELSE 0
<1>1. /\ HandshakeLimit \in Nat /\ GlobalLimit \in Nat /\ MaxPending \in Nat
      /\ ClientOf[r] \in Client
  BY LimitsAssumption, ClientAssumption
<1>2. ofClient \in [Client -> 0 .. HandshakeLimit] /\ ofAll \in 0 .. GlobalLimit
  BY <1>1 DEF TypeOK
<1>3. /\ phase[r] = "unsent" /\ windowOver' = FALSE
      /\ attempts' = [ofClient EXCEPT ![ClientOf[r]] = @ + one]
      /\ total' = ofAll + one /\ pending' = pending + one
      /\ slot' = slot \cup {q \in {r} : allowed}
      /\ timer' = timer \cup {q \in {r} : allowed}
      /\ phase' = [phase EXCEPT ![r] = IF allowed THEN "requested" ELSE "closed"]
      /\ UNCHANGED <<verifier, connected, bySession, events, repeated>>
  BY DEF ReserveHandshake, sockets
<1>4. attempts' \in [Client -> 0 .. HandshakeLimit] /\ total' \in 0 .. GlobalLimit
  <2>1. CASE allowed
    BY <1>1, <1>2, <1>3, <2>1
  <2>2. CASE ~allowed
    <3>1. attempts' = [ofClient EXCEPT ![ClientOf[r]] = @ + 0] /\ total' = ofAll + 0
      BY <1>3, <2>2
    <3>2. HandshakeLimit \in Nat /\ GlobalLimit \in Nat /\ ClientOf[r] \in Client
      BY <1>1
    <3>3. ofClient[ClientOf[r]] + 0 \in 0 .. HandshakeLimit /\ ofAll + 0 \in 0 .. GlobalLimit
      BY <1>2, <3>2
    <3>. HIDE DEF ofClient, ofAll
    <3>. QED BY <1>2, <3>1, <3>3
  <2>. QED BY <2>1, <2>2
<1>5. r \notin slot /\ verifier[r] = "none"
  BY <1>3 DEF Courses, Course
<1>6. CASE allowed
  <2>1. /\ pending' = pending + 1 /\ pending < MaxPending
        /\ slot' = slot \cup {r} /\ timer' = timer \cup {r}
        /\ phase' = [phase EXCEPT ![r] = "requested"]
    BY <1>3, <1>6
  <2>. HIDE DEF allowed, one, ofAll, ofClient
  <2>2. Cardinality(slot \cup {r}) = Cardinality(slot) + 1 /\ IsFiniteSet(slot \cup {r})
    BY <1>5, FS_AddElement DEF Counted
  <2>3. Counted'
    <3>1. Cardinality(slot) \in Nat
      BY FS_CardinalityType DEF Counted
    <3>. QED BY <1>1, <2>1, <2>2, <3>1 DEF Counted
  <2>4. TypeOK'
    BY <1>3, <1>4, <1>5, <2>1 DEF TypeOK
  <2>5. Courses'
    BY <1>3, <1>5, <2>1 DEF Courses, Course, Seated, TypeOK
  <2>. QED BY <2>3, <2>4, <2>5
<1>7. CASE ~allowed
  <2>1. /\ pending' = pending + 0 /\ slot' = slot /\ timer' = timer
        /\ phase' = [phase EXCEPT ![r] = "closed"]
    BY <1>3, <1>7
  <2>. HIDE DEF allowed, one, ofAll, ofClient
  <2>2. Counted'
    <3>1. Cardinality(slot) \in Nat
      BY FS_CardinalityType DEF Counted
    <3>. QED BY <2>1, <3>1 DEF Counted
  <2>3. TypeOK'
    BY <1>3, <1>4, <2>1 DEF TypeOK
  <2>4. Courses'
    BY <1>3, <1>5, <2>1 DEF Courses, Course, Seated, TypeOK
  <2>. QED BY <2>2, <2>3, <2>4
<1>. QED BY <1>6, <1>7

\* Every step keeps the slots counted and each request on its course.
LEMMA SlotStep ==
  ASSUME SlotInv, [Next]_vars
  PROVE  SlotInv'
<1>. USE DEF SlotInv
<1>1. CASE WindowElapses
  BY <1>1 DEF WindowElapses, slots, sockets, TypeOK, Counted, Courses, Course
<1>2. ASSUME NEW r \in Request, ReserveHandshake(r)
      PROVE  SlotInv'
  BY <1>2, ReservedKeeps
<1>3. ASSUME NEW r \in Request, EngineConnects(r)
      PROVE  SlotInv'
  BY <1>3 DEF EngineConnects, slots, window, sockets, TypeOK, Counted, Courses, Course, Seated
<1>4. ASSUME NEW r \in Request, RequestAborted(r)
      PROVE  SlotInv'
  <2>1. Counted' /\ slot' = slot \ {r} /\ timer' = timer \ {r}
    BY <1>4, ReleaseCounts DEF RequestAborted
  <2>2. TypeOK'
    BY <1>4, <2>1 DEF RequestAborted, TypeOK, window, sockets
  <2>3. Courses'
    BY <1>4, <2>1 DEF RequestAborted, Courses, Course, Seated, TypeOK
  <2>. QED BY <2>1, <2>2, <2>3
<1>5. ASSUME NEW r \in Request, TransportCloses(r) \/ Deadline(r)
      PROVE  SlotInv'
  <2>1. PICK left \in SUBSET timer : ReleaseUnlessStarted(r, left)
    BY <1>5 DEF TransportCloses, Deadline
  <2>2. Closed(r)
    BY <1>5 DEF TransportCloses, Deadline
  <2>. QED BY <2>1, <2>2, SparedOrReleased, ClosedKeeps
<1>6. ASSUME NEW r \in Request, Connect(r)
      PROVE  SlotInv'
  <2>1. /\ phase[r] = "open" /\ verifier[r] \in {"none", "over"}
        /\ repeated' = repeated \cup {q \in {r} : verifier[r] = "over"}
        /\ UNCHANGED <<phase, attempts, total, windowOver, connected, bySession, events>>
    BY <1>6 DEF Connect, window, sockets
  <2>2. CASE verifier' = [verifier EXCEPT ![r] = "running"] /\ UNCHANGED slots
    <3>1. TypeOK'
      BY <2>1, <2>2 DEF TypeOK, slots
    <3>2. Courses'
      BY <2>1, <2>2 DEF Courses, Course, Seated, TypeOK, slots
    <3>3. Counted'
      BY <2>2 DEF Counted, slots
    <3>. QED BY <3>1, <3>2, <3>3
  <2>3. CASE verifier' = [verifier EXCEPT ![r] = "over"] /\ Release(r)
    <3>1. repeated' \subseteq Request
      BY <2>1 DEF TypeOK
    <3>. QED BY <2>1, <2>3, <3>1, ReleasedKeeps
  <2>. QED BY <1>6, <2>2, <2>3 DEF Connect
<1>7. ASSUME NEW r \in Request, VerificationSucceeds(r) \/ VerificationFails(r)
      PROVE  SlotInv'
  <2>1. /\ Release(r) /\ verifier[r] = "running"
        /\ UNCHANGED <<phase, attempts, total, windowOver, events, repeated>>
    BY <1>7 DEF VerificationSucceeds, VerificationFails, window, sockets
  <2>2. phase[r] \notin {"unsent", "requested"} /\ repeated \subseteq Request
    BY <2>1 DEF Courses, Course, TypeOK
  <2>3. \E v \in {"admitted", "over"} :
          verifier' = [verifier EXCEPT ![r] = v] /\ (phase[r] = "open" \/ v = "over")
    BY <1>7 DEF VerificationSucceeds, VerificationFails, MayReserve
  <2>. QED BY <2>1, <2>2, <2>3, ReleasedKeeps
<1>8. ASSUME NEW r \in Request, Register(r)
      PROVE  SlotInv'
  BY <1>8, SocketKeeps DEF Register, slots, window, sockets, Seated
<1>9. ASSUME NEW r \in Request, Disconnects(r)
      PROVE  SlotInv'
  <2>1. DOMAIN events' \subseteq DOMAIN events /\ \A q \in DOMAIN events' : events'[q] = events[q]
    BY <1>9 DEF Disconnects, CleanUp, sockets, Restrict
  <2>. QED BY <1>9, <2>1, SocketKeeps DEF Disconnects, slots, window, Seated
<1>10. ASSUME NEW r \in Request, Event(r)
       PROVE  SlotInv'
  <2>1. /\ DOMAIN events' = DOMAIN events \cup {r}
        /\ \A q \in DOMAIN events' : events'[q] \in 1 .. EventLimit
    <3>1. CASE events' = [q \in DOMAIN events \cup {r} |-> IF q = r THEN 1 ELSE events[q]]
      BY <3>1, LimitsAssumption DEF TypeOK
    <3>2. CASE /\ r \in DOMAIN events /\ events[r] < EventLimit
               /\ events' = [events EXCEPT ![r] = @ + 1]
      <4>1. events[r] + 1 \in 1 .. EventLimit
        BY <3>2, LimitsAssumption DEF TypeOK
      <4>2. DOMAIN events' = DOMAIN events
        BY <3>2
      <4>3. \A q \in DOMAIN events : events'[q] = IF q = r THEN events[r] + 1 ELSE events[q]
        BY <3>2
      <4>. QED BY <3>2, <4>1, <4>2, <4>3 DEF TypeOK
    <3>. QED BY <1>10, <3>1, <3>2 DEF Event
  <2>. QED BY <1>10, <2>1 DEF Event, slots, window, TypeOK, Counted, Courses, Course
<1>11. CASE UNCHANGED vars
  BY <1>11 DEF vars, slots, window, sockets, TypeOK, Counted, Courses, Course
<1>. QED BY <1>1, <1>2, <1>3, <1>4, <1>5, <1>6, <1>7, <1>8, <1>9, <1>10, <1>11 DEF Next

\* At the start nobody holds a slot.
LEMMA SlotInit ==
  ASSUME Init
  PROVE  SlotInv
<1>1. IsFiniteSet({}) /\ Cardinality({}) = 0
  BY FS_EmptySet
<1>2. Counted
  BY <1>1, LimitsAssumption DEF Init, Counted
<1>3. TypeOK
  BY LimitsAssumption DEF Init, TypeOK
<1>4. Courses
  BY DEF Init, Courses, Course, Seated
<1>. QED BY <1>2, <1>3, <1>4 DEF SlotInv

\* The counter of pending handshakes counts the reservations and stays within
\* its limit, and a first verification holds its slot to its end, however
\* requests, transports and verifications end.
THEOREM SlotsCounted == Spec => []VerifiersHoldSlots
<1>1. SlotInv => VerifiersHoldSlots
  BY DEF SlotInv, Counted, Courses, Course, VerifiersHoldSlots
<1>. QED BY <1>1, SlotInit, SlotStep, PTL DEF Spec

(***************************************************************************)
(* What sockets reserve                                                    *)
(***************************************************************************)

\* Nothing changes for the sockets that are seated.
LEMMA SeatsKept ==
  ASSUME NothingLeftBehind, UNCHANGED sockets, Active' = Active
  PROVE  NothingLeftBehind'
BY DEF NothingLeftBehind, Active, Seated, sockets

\* A socket that leaves takes what it had reserved along.
LEMMA SeatGivenBack ==
  ASSUME NothingLeftBehind, NEW r \in Request, CleanUp(r), verifier[r] \in Seated,
         Active' = Active \ {r}
  PROVE  NothingLeftBehind'
<1>. DEFINE left == [y \in DOMAIN bySession |-> bySession[y] \ {r}]
<1>1. /\ connected' = connected \ {r}
      /\ bySession' = Restrict(left, {y \in DOMAIN left : left[y] # {}})
      /\ events' = Restrict(events, DOMAIN events \ {r})
  BY DEF CleanUp, ReleaseSocket, Seated
<1>2. /\ DOMAIN bySession' = {y \in DOMAIN bySession : bySession[y] \ {r} # {}}
      /\ \A y \in DOMAIN bySession' : bySession'[y] = bySession[y] \ {r}
  BY <1>1 DEF Restrict
<1>3. DOMAIN events' = DOMAIN events \ {r}
  BY <1>1 DEF Restrict
<1>4. connected = Active /\ connected' = Active'
  BY <1>1 DEF NothingLeftBehind, Active, Seated
<1>5. connected' = UNION {bySession'[x] : x \in DOMAIN bySession'}
  <2>1. \A q : q \in UNION {bySession'[x] : x \in DOMAIN bySession'}
                 <=> \E x \in DOMAIN bySession : q \in bySession[x] /\ q # r
    <3>. HIDE DEF left
    <3>. QED BY <1>2
  <2>2. \A q : q \in connected <=> \E x \in DOMAIN bySession : q \in bySession[x]
    BY DEF NothingLeftBehind
  <2>3. \A q : q \in connected' <=> q \in connected /\ q # r
    BY <1>1
  <2>. QED BY <2>1, <2>2, <2>3
<1>6. \A x \in DOMAIN bySession' :
        bySession'[x] # {} /\ \A q \in bySession'[x] : SessionOf[q] = x
  BY <1>2 DEF NothingLeftBehind
<1>7. DOMAIN events' \subseteq connected'
  BY <1>1, <1>3 DEF NothingLeftBehind
<1>. QED BY <1>4, <1>5, <1>6, <1>7 DEF NothingLeftBehind, Active, Seated

\* What closes, seated or not, keeps no seat.
LEMMA CleanedUp ==
  ASSUME SlotInv, NothingLeftBehind, NEW r \in Request, CleanUp(r), Active' = Active \ {r}
  PROVE  NothingLeftBehind'
<1>1. CASE verifier[r] \in Seated
  BY <1>1, SeatGivenBack
<1>2. CASE verifier[r] \notin Seated
  <2>1. UNCHANGED sockets
    BY <1>2 DEF CleanUp, Seated
  <2>2. Active' = Active
    BY <1>2 DEF Active
  <2>. QED BY <2>1, <2>2, SeatsKept
<1>. QED BY <1>1, <1>2

\* A verification that ends well seats its socket in both maps.
LEMMA SeatTaken ==
  ASSUME NothingLeftBehind, NEW r \in Request, ReserveSocket(r), UNCHANGED events,
         Active' = Active \cup {r}
  PROVE  NothingLeftBehind'
<1>. DEFINE x == SessionOf[r]
            others == IF x \in DOMAIN bySession THEN bySession[x] ELSE {}
<1>1. /\ connected' = connected \cup {r}
      /\ bySession' = [y \in DOMAIN bySession \cup {x} |->
                         IF y = x THEN others \cup {r} ELSE bySession[y]]
  BY DEF ReserveSocket
<1>2. /\ DOMAIN bySession' = DOMAIN bySession \cup {x}
      /\ bySession'[x] = others \cup {r}
      /\ \A y \in DOMAIN bySession \ {x} : bySession'[y] = bySession[y]
  BY <1>1
<1>3. connected' = Active'
  BY <1>1 DEF NothingLeftBehind, Active, Seated
<1>4. connected' = UNION {bySession'[y] : y \in DOMAIN bySession'}
  <2>1. \A q : q \in UNION {bySession'[y] : y \in DOMAIN bySession'}
                 <=> q \in UNION {bySession[y] : y \in DOMAIN bySession} \/ q = r
    BY <1>2
  <2>. QED BY <1>1, <2>1 DEF NothingLeftBehind
<1>5. \A y \in DOMAIN bySession' :
        bySession'[y] # {} /\ \A q \in bySession'[y] : SessionOf[q] = y
  BY <1>2 DEF NothingLeftBehind
<1>. QED BY <1>1, <1>3, <1>4, <1>5 DEF NothingLeftBehind, Active, Seated

\* Every step keeps the seats.
LEMMA SeatStep ==
  ASSUME SlotInv, NothingLeftBehind, [Next]_vars
  PROVE  NothingLeftBehind'
<1>. USE DEF SlotInv
<1>1. ASSUME UNCHANGED <<phase, verifier, sockets>>
      PROVE  NothingLeftBehind'
  BY <1>1, SeatsKept DEF Active
<1>2. ASSUME NEW r \in Request, ReserveHandshake(r) \/ EngineConnects(r) \/ RequestAborted(r)
      PROVE  NothingLeftBehind'
  <2>1. verifier[r] = "none" /\ verifier' = verifier /\ UNCHANGED sockets
    BY <1>2 DEF ReserveHandshake, EngineConnects, RequestAborted, Courses, Course
  <2>2. \A q \in Request \ {r} : phase'[q] = phase[q]
    BY <1>2 DEF ReserveHandshake, EngineConnects, RequestAborted, TypeOK
  <2>3. Active' = Active
    BY <2>1, <2>2 DEF Active, Seated
  <2>. QED BY <2>1, <2>3, SeatsKept
<1>3. ASSUME NEW r \in Request, TransportCloses(r) \/ Deadline(r)
      PROVE  NothingLeftBehind'
  <2>1. /\ CleanUp(r) /\ phase' = [phase EXCEPT ![r] = "closed"]
        /\ verifier' = [verifier EXCEPT ![r] = IF @ \in {"none", "running"} THEN @ ELSE "over"]
    BY <1>3 DEF TransportCloses, Deadline, Closed
  <2>2. Active' = Active \ {r}
    BY <2>1 DEF Active, TypeOK
  <2>. QED BY <2>1, <2>2, CleanedUp
<1>4. ASSUME NEW r \in Request, Connect(r) \/ VerificationFails(r)
      PROVE  NothingLeftBehind'
  <2>1. /\ phase' = phase /\ UNCHANGED sockets /\ verifier[r] \notin Seated
        /\ \E v \in {"running", "over"} : verifier' = [verifier EXCEPT ![r] = v]
    BY <1>4 DEF Connect, VerificationFails, Seated
  <2>2. Active' = Active
    BY <2>1 DEF Active, Seated, TypeOK
  <2>. QED BY <2>1, <2>2, SeatsKept
<1>5. ASSUME NEW r \in Request, VerificationSucceeds(r)
      PROVE  NothingLeftBehind'
  <2>1. verifier[r] = "running" /\ UNCHANGED <<phase, events>>
    BY <1>5 DEF VerificationSucceeds
  <2>2. CASE MayReserve(r)
    <3>1. ReserveSocket(r) /\ verifier' = [verifier EXCEPT ![r] = "admitted"] /\ phase[r] = "open"
      BY <1>5, <2>2 DEF VerificationSucceeds, MayReserve
    <3>2. Active' = Active \cup {r}
      BY <2>1, <3>1 DEF Active, Seated, TypeOK
    <3>. QED BY <2>1, <3>1, <3>2, SeatTaken
  <2>3. CASE ~MayReserve(r)
    <3>1. UNCHANGED sockets /\ verifier' = [verifier EXCEPT ![r] = "over"]
      BY <1>5, <2>1, <2>3 DEF VerificationSucceeds, sockets
    <3>2. Active' = Active
      BY <2>1, <3>1 DEF Active, Seated, TypeOK
    <3>. QED BY <3>1, <3>2, SeatsKept
  <2>. QED BY <2>2, <2>3
<1>6. ASSUME NEW r \in Request, Register(r)
      PROVE  NothingLeftBehind'
  <2>1. Active' = Active /\ UNCHANGED sockets
    BY <1>6 DEF Register, Active, Seated, TypeOK
  <2>. QED BY <2>1, SeatsKept
<1>7. ASSUME NEW r \in Request, Disconnects(r)
      PROVE  NothingLeftBehind'
  <2>1. CleanUp(r) /\ Active' = Active \ {r}
    BY <1>7 DEF Disconnects, Active, Seated, TypeOK
  <2>. QED BY <2>1, CleanedUp
<1>8. ASSUME NEW r \in Request, Event(r)
      PROVE  NothingLeftBehind'
  <2>1. /\ UNCHANGED <<phase, verifier, connected, bySession>>
        /\ DOMAIN events' = DOMAIN events \cup {r} /\ verifier[r] = "connected"
    BY <1>8 DEF Event
  <2>2. r \in connected
    BY <2>1 DEF NothingLeftBehind, Courses, Course, Seated
  <2>. QED BY <2>1, <2>2 DEF NothingLeftBehind
<1>. QED BY <1>1, <1>2, <1>3, <1>4, <1>5, <1>6, <1>7, <1>8 DEF Next, WindowElapses, vars

\* What the middleware reserves is what the sockets on open transports hold,
\* in both maps alike, and neither windows nor sessions stay behind.
THEOREM SeatsAccounted == Spec => []NothingLeftBehind
<1>1. Init => NothingLeftBehind
  BY DEF Init, NothingLeftBehind
<1>2. SlotInv /\ NothingLeftBehind /\ [Next]_vars => (SlotInv /\ NothingLeftBehind)'
  BY SlotStep, SeatStep
<1>. QED BY <1>1, <1>2, SlotInit, PTL DEF Spec

=============================================================================
