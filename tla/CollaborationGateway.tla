------------------------ MODULE CollaborationGateway ------------------------
(***************************************************************************)
(* CollaborationGateway with everything it coordinates in one process: the *)
(* sockets and their joins, the rooms, presence and element locks, the     *)
(* line of work of each document, the broadcasts, the critical work that a *)
(* replacement, a deletion or a removed member causes, and the recovery of *)
(* operations that were committed but never delivered.  PostgreSQL, the    *)
(* REST services that publish on the event buses, and the clients are the  *)
(* environment.                                                            *)
(*                                                                         *)
(* The line of a document is the bounded FIFO of DocumentLine, which the   *)
(* mutation queue implements.  The head of a line is the running task;     *)
(* work[d].pc says which await it stands at.  A step is the code from one  *)
(* await to the next together with the database call it ends in, so that   *)
(* the result of the call is used later than it is read.  The awaits that  *)
(* only yield to the microtask queue (leaving a room, a settled Promise)   *)
(* are not steps, except that of client.join.                              *)
(*                                                                         *)
(* All the documents belong to one project; a socket name that connects    *)
(* again is a new socket of the same session.  What the environment may do *)
(* is bounded by `budget`, one counter for each kind of event.             *)
(***************************************************************************)
EXTENDS Integers, Sequences, FiniteSets

CONSTANTS
  Document, Element, User, Socket, Session, Op,
  Owner,            \* the user who owns the project
  UserOf,           \* UserOf[s]: the user of the session of socket s
  SessionOf,        \* SessionOf[s]: that session
  Capacity,         \* maxPendingMutationsPerDocument
  MaxDocuments,     \* maxDocumentsPerSocket
  MaxParticipants,  \* maxParticipantsPerDocument
  InitialElements,  \* the elements of each document at the start
  Budgets,          \* bound: how often each event of the environment happens;
                    \*   a behaviour has one of these budgets
  None

\* What the environment does, and a budget counts.
Events == {"join", "drop", "command", "resend", "lock", "expire", "put", "delete", "project",
           "remove", "grant", "revoke", "fail", "lost", "crash"}

ASSUME CapacityAssumption == Capacity \in Nat /\ Capacity >= 2
ASSUME LimitsAssumption == MaxDocuments \in Nat /\ MaxParticipants \in Nat
ASSUME SocketAssumption == UserOf \in [Socket -> User] /\ SessionOf \in [Socket -> Session]
ASSUME FiniteAssumption == IsFiniteSet(Socket) /\ IsFiniteSet(Document)
ASSUME OwnerAssumption == Owner \in User
ASSUME ElementsAssumption == InitialElements \subseteq Element
ASSUME BudgetAssumption == Budgets \subseteq [Events -> Nat]
ASSUME NoneAssumption == None \notin Socket /\ None \notin Document

VARIABLES
  db,       \* documents, membership and sessions in PostgreSQL
  ops,      \* DocumentOperation rows, and what the clients sent
  outbox,   \* committed changes that have not been published on the buses yet
  sock,     \* Socket.IO's and the gateway's state of the sockets
  present,  \* CollaborationPresenceStore: participants by document
  held,     \* CollaborationLockStore: holder by document and element
  line,     \* the line of each document
  work,     \* where the head of each line stands
  crit,     \* the gateway's maps of critical work
  known,    \* known[s][d]: revision the client of s has of d, -1 if not joined
  budget

vars == <<db, ops, outbox, sock, present, held, line, work, crit, known, budget>>

\* What numbers the removals of members.
Removals == UNION {1 .. b.remove : b \in Budgets}

Nobody == [s \in Socket |-> {}]

\* What the running task of a line carries over its awaits.
Idle == [pc |-> "start",
         live |-> FALSE,                 \* the session was found active
         found |-> FALSE, rev |-> -1,    \* the document that was read, or the
         elements |-> {},                \*   revision that is being announced
         op |-> None, reply |-> -1,      \* the operation and its revision
         owed |-> FALSE,                 \* it, or some operation, is undelivered
         change |-> None,                \* the resync change being announced
         except |-> None,                \* the socket the event is not sent to
         to |-> {}, dead |-> {}, allowed |-> {}]  \* recipients and their rights
NoLocks == [e \in Element |-> None]

\* The memory of a process that has just started.
InitialSockets ==
  [connected |-> Socket,  \* client.connected
   doomed |-> {},         \* about to be disconnected for a revoked session
   room |-> [d \in Document |-> {}],
   joined |-> Nobody, pending |-> Nobody,   \* joinedDocumentIds, pendingJoinDocumentIds
   joins |-> [s \in Socket |-> <<>>],       \* the chain of joinTail, oldest first
   turn |-> {}]                             \* the oldest of them is in the line
InitialCritical ==
  [fence |-> [u \in User |-> 0],            \* revokedProjectMemberKeys: the last removal
   fenceDocs |-> [n \in Removals |-> {}],  \* pendingMemberRevocationDocuments
   evictions |-> [d \in Document |-> [u \in User |-> 0]],
   deleted |-> {},                          \* deletedDocumentIds
   resync |-> [d \in Document |-> None],    \* pendingResyncChanges
   scheduled |-> {}, retry |-> {},          \* scheduledCriticalDocumentIds, criticalRetryTimers
   recovery |-> {},                         \* pendingDeliveryRecoveryDocumentIds
   scan |-> {}]                             \* the answer a recovery is waiting for
Strangers == [s \in Socket |-> [d \in Document |-> -1]]

Init ==
  /\ db = [exists |-> Document, rev |-> [d \in Document |-> 0],
           elements |-> [d \in Document |-> InitialElements],
           member |-> User, sessions |-> Session]
  /\ ops = [o \in Op |-> [doc |-> None, author |-> None, base |-> 0, do |-> "edit",
                          el |-> None, rev |-> 0, delivered |-> FALSE, untold |-> None]]
  /\ outbox = {}
  /\ sock = InitialSockets
  /\ present = [d \in Document |-> {}]
  /\ held = [d \in Document |-> NoLocks]
  /\ line = [d \in Document |-> <<>>]
  /\ work = [d \in Document |-> Idle]
  /\ crit = InitialCritical
  /\ known = Strangers
  /\ budget \in Budgets

\* An event of the environment of kind k.
Spend(k) == budget[k] > 0 /\ budget' = [budget EXCEPT ![k] = @ - 1]

-----------------------------------------------------------------------------
(* Lines of work *)

\* Mutant: no slot is kept for critical work.
WholeCapacity == Capacity
StandardCapacity == Capacity - 1
Critical == [kind |-> "critical"]
Tell == [kind |-> "tell"]  \* scheduleAuthorizedBroadcast of presence or locks

Busy(d) == line[d] # <<>>
At(d, kind, pc) == Busy(d) /\ Head(line[d]).kind = kind /\ work[d].pc = pc

\* A standard call; a full line refuses it.
HasRoom(d) == Len(line[d]) < StandardCapacity
Enqueue(d, task) == line' = [line EXCEPT ![d] = Append(@, task)]

\* n broadcasts of presence or locks; those that find the line full are lost.
Notify(l, d, n) ==
  LET free == IF Len(l[d]) < StandardCapacity THEN StandardCapacity - Len(l[d]) ELSE 0
      k == IF n < free THEN n ELSE free
  IN [l EXCEPT ![d] = @ \o [i \in 1 .. k |-> Tell]]

Goto(d, w) == work' = [work EXCEPT ![d] = w]
Done(d) == Goto(d, Idle)
Pop(l, d) == [l EXCEPT ![d] = Tail(@)]

\* scheduleCriticalDocumentWork for each document of D, unless it is already
\* scheduled or waits for its retry; an overload leaves it to the retry timer.
Unscheduled(c, D) == D \ (c.scheduled \cup c.retry)
Scheduling(c, l, D) ==
  LET now == {d \in Unscheduled(c, D) : Len(l[d]) < Capacity}
  IN [c EXCEPT !.scheduled = @ \cup now, !.retry = @ \cup (Unscheduled(c, D) \ now)]
SchedulingLine(c, l, D) ==
  [d \in Document |-> IF d \in Unscheduled(c, D) /\ Len(l[d]) < Capacity
                        THEN Append(l[d], Critical) ELSE l[d]]

\* Mutants: a resync, an eviction is not looked for again.
HasWorkButResync(c, d) ==
  d \in c.deleted \cup c.recovery \/ \E u \in User : c.evictions[d][u] # 0
HasWorkButEvictions(c, d) == d \in c.deleted \cup c.recovery \/ c.resync[d] # None
HasCriticalWork(c, d) ==
  \/ d \in c.deleted
  \/ \E u \in User : c.evictions[d][u] # 0
  \/ c.resync[d] # None
  \/ d \in c.recovery

\* The critical task at the head of d ends, with the maps c and the line l.
EndCritical(c, l, d, failed) ==
  LET c1 == [c EXCEPT !.scheduled = @ \ {d}]
      l1 == Pop(l, d)
      again == HasCriticalWork(c1, d)
  IN /\ crit' = IF ~again THEN c1
                ELSE IF failed THEN [c1 EXCEPT !.retry = @ \cup {d}]
                ELSE Scheduling(c1, l1, {d})
     /\ line' = IF again /\ ~failed THEN SchedulingLine(c1, l1, {d}) ELSE l1
     /\ Done(d)

-----------------------------------------------------------------------------
(* What the database and the fences say of a socket *)

SessionActive(s) == SessionOf[s] \in db.sessions
Authorized(s, d) == d \in db.exists /\ UserOf[s] \in db.member
UserFenced(u) == crit.fence[u] # 0
\* hasCurrentProjectAccess looks the project up among the joined documents.
Fenced(s, d) == d \in sock.joined[s] /\ UserFenced(UserOf[s])
JoinActive(s, d) == s \in sock.connected /\ d \in sock.pending[s] \cup sock.joined[s]

\* disconnectRevoked: session:revoked, and a disconnection in a microtask.
Doomed(S) == [sock EXCEPT !.doomed = @ \cup (S \cap sock.connected)]

\* Mutant: joinedDocumentIds keeps the document.
SockOutOfRoom(S, d) ==
  [sock EXCEPT !.room[d] = @ \ S,
               !.pending = [s \in Socket |-> IF s \in S THEN @[s] \ {d} ELSE @[s]]]
\* removeDocumentState of the sockets S: room, joined and pending entries,
\* presence and locks, with a broadcast for each change of a store.
SockWithout(S, d) ==
  [sock EXCEPT !.room[d] = @ \ S,
               !.joined = [s \in Socket |-> IF s \in S THEN @[s] \ {d} ELSE @[s]],
               !.pending = [s \in Socket |-> IF s \in S THEN @[s] \ {d} ELSE @[s]]]
PresentWithout(S, d) == [present EXCEPT ![d] = @ \ S]
Unlock(h, S, d) ==
  [h EXCEPT ![d] = [e \in Element |-> IF @[e] \in S THEN None ELSE @[e]]]
Notices(h, S, d) ==
  Cardinality(S \cap present[d]) + Cardinality({h[d][e] : e \in Element} \cap S)
Forget(S, d) ==
  [s \in Socket |-> IF s \in S THEN [known[s] EXCEPT ![d] = -1] ELSE known[s]]
Learn(k, S, d, r) ==
  [s \in Socket |-> IF s \in S /\ k[s][d] \in 0 .. r THEN [k[s] EXCEPT ![d] = r] ELSE k[s]]

\* Mutant: a synchronisation clears the locks of the document.
AllUnlocked(d, E) == [held EXCEPT ![d] = NoLocks]
\* reconcileDocumentElements
Reconciled(d, E) ==
  [held EXCEPT ![d] = [e \in Element |-> IF e \in E THEN @[e] ELSE None]]
ReconcileNotices(d, E) == IF Reconciled(d, E) = held THEN 0 ELSE 1

-----------------------------------------------------------------------------
(* Broadcasts: the recipients are chosen, PostgreSQL is asked about them,  *)
(* and the event is emitted to those that both then and now have access.   *)

\* The first half, with the locks h and n notices already due.  `rev` is the
\* revision the event carries, -1 for presence and locks; `except` the sender.
Broadcast(d, w, h, n) ==
  LET F == IF d \in crit.deleted THEN {} ELSE {s \in sock.room[d] : Fenced(s, d)}
      R == IF d \in crit.deleted THEN {} ELSE sock.room[d] \ F
  IN /\ sock' = SockWithout(F, d)
     /\ present' = PresentWithout(F, d)
     /\ held' = Unlock(h, F, d)
     /\ known' = Forget(F, d)
     /\ line' = Notify(line, d, n + Notices(h, F, d))
     /\ Goto(d, [w EXCEPT !.pc = "emit", !.to = R,
                          !.dead = {s \in R : ~SessionActive(s)},
                          !.allowed = {s \in R : SessionActive(s) /\ Authorized(s, d)}])

\* The second half.
Recipients(d) == (work[d].to \cap sock.room[d]) \ {work[d].except}
\* Mutant: the fences are not looked at again after the await.
NobodyFenced(d) == {}
NowFenced(d) == {s \in Recipients(d) : Fenced(s, d)}
FoundDead(d) == (Recipients(d) \cap work[d].dead) \ NowFenced(d)
Reached(d) ==
  IF d \in crit.deleted THEN {} ELSE (Recipients(d) \cap work[d].allowed) \ NowFenced(d)
Revoked(d) ==
  NowFenced(d) \cup (Recipients(d) \ (work[d].dead \cup work[d].allowed))

Emit(d) ==
  /\ sock' = [SockWithout(Revoked(d), d) EXCEPT !.doomed = @ \cup FoundDead(d)]
  /\ present' = PresentWithout(Revoked(d), d)
  /\ held' = Unlock(held, Revoked(d), d)
  /\ known' = Learn(Forget(Revoked(d), d), Reached(d), d, work[d].rev)

EmitLine(d) == Notify(line, d, Notices(held, Revoked(d), d))

TellStart(d) ==
  /\ At(d, "tell", "start")
  /\ Broadcast(d, Idle, held, 0)
  /\ UNCHANGED <<db, ops, outbox, crit, budget>>

TellEmit(d) ==
  /\ At(d, "tell", "emit")
  /\ Emit(d)
  /\ line' = Pop(EmitLine(d), d)
  /\ Done(d)
  /\ UNCHANGED <<db, ops, outbox, crit, budget>>

-----------------------------------------------------------------------------
(* Joining a document *)

Join(s) == [kind |-> "join", sock |-> s]
Caller(d) == Head(line[d]).sock

\* joinDocument up to the await of the joins this socket asked for before.  No
\* message is dispatched while a join merely yields to the microtasks, as it
\* does after client.join; a leave that has read its session may go on then.
Entering(s, d) == At(d, "join", "entered") /\ Caller(d) = s
RequestJoin(s, d) ==
  /\ s \in sock.connected /\ ~Entering(s, d)
  /\ Spend("join")
  /\ sock' = [sock EXCEPT !.pending[s] = @ \cup {d}, !.joins[s] = Append(@, d)]
  /\ UNCHANGED <<db, ops, outbox, present, held, line, work, crit, known>>

\* runSocketJoin: the oldest join of the socket enters the line; if the line
\* is full it fails.
BeginJoin(s) ==
  /\ sock.joins[s] # <<>> /\ s \notin sock.turn
  /\ LET d == Head(sock.joins[s])
     IN IF HasRoom(d)
          THEN Enqueue(d, Join(s)) /\ sock' = [sock EXCEPT !.turn = @ \cup {s}]
          ELSE /\ sock' = [sock EXCEPT !.joins[s] = Tail(@), !.pending[s] = @ \ {d}]
               /\ UNCHANGED line
  /\ UNCHANGED <<db, ops, outbox, present, held, work, crit, known, budget>>

\* Mutant: a join that fails does not let the next one of the socket go.
SettledHoldingTurn(k, s, d) == [k EXCEPT !.joins[s] = Tail(@), !.pending[s] = @ \ {d}]
\* The join of s that is the head of d settles; k is the state of the sockets.
Settled(k, s, d) ==
  [k EXCEPT !.joins[s] = Tail(@), !.turn = @ \ {s}, !.pending[s] = @ \ {d}]
JoinFails(s, d, k) ==
  /\ sock' = Settled(k, s, d)
  /\ line' = Pop(line, d)
  /\ Done(d)
  /\ UNCHANGED <<present, held, known>>

\* getAuthorizedDocumentOrThrow: PostgreSQL is asked for session and document.
JoinCheck(d) ==
  /\ At(d, "join", "start")
  /\ LET s == Caller(d)
     IN IF ~JoinActive(s, d) THEN JoinFails(s, d, sock)
        ELSE IF ~SessionActive(s) THEN JoinFails(s, d, Doomed({s}))
        ELSE IF ~Authorized(s, d) THEN JoinFails(s, d, sock)
        ELSE /\ Goto(d, [Idle EXCEPT !.pc = "authorized", !.rev = db.rev[d]])
             /\ UNCHANGED <<sock, present, held, line, known>>
  /\ UNCHANGED <<db, ops, outbox, crit, budget>>

\* Mutant: one document too many.
BeyondDocumentLimit(s, d) ==
  d \notin sock.joined[s] /\ Cardinality(sock.joined[s]) > MaxDocuments
AtDocumentLimit(s, d) ==
  d \notin sock.joined[s] /\ Cardinality(sock.joined[s]) >= MaxDocuments

JoinEnter(d) ==
  /\ At(d, "join", "authorized")
  /\ LET s == Caller(d)
     IN IF UserFenced(UserOf[s]) \/ ~JoinActive(s, d) \/ AtDocumentLimit(s, d)
          THEN JoinFails(s, d, sock)
          ELSE /\ sock' = [sock EXCEPT !.room[d] = @ \cup {s}]
               /\ Goto(d, [work[d] EXCEPT !.pc = "entered"])
               /\ UNCHANGED <<present, held, line, known>>
  /\ UNCHANGED <<db, ops, outbox, crit, budget>>

JoinRegister(d) ==
  /\ At(d, "join", "entered")
  /\ LET s == Caller(d)
         full == s \notin present[d] /\ Cardinality(present[d]) >= MaxParticipants
     IN IF ~JoinActive(s, d) \/ full
          THEN JoinFails(s, d, [sock EXCEPT !.room[d] = @ \ {s}])
          ELSE /\ present' = [present EXCEPT ![d] = @ \cup {s}]
               /\ line' = Notify(line, d, 1)
               /\ sock' = [sock EXCEPT !.joined[s] = @ \cup {d}, !.pending[s] = @ \ {d}]
               /\ Goto(d, [work[d] EXCEPT !.pc = "registered", !.live = SessionActive(s)])
               /\ UNCHANGED <<held, known>>
  /\ UNCHANGED <<db, ops, outbox, crit, budget>>

\* The catch after the registration: removeDocumentState, then the failure.
JoinUndone(s, d, k) ==
  /\ sock' = Settled([SockWithout({s}, d) EXCEPT !.doomed = k], s, d)
  /\ present' = PresentWithout({s}, d)
  /\ held' = Unlock(held, {s}, d)
  /\ line' = Pop(Notify(line, d, Notices(held, {s}, d)), d)
  /\ known' = Forget({s}, d)
  /\ Done(d)

JoinConfirm(d) ==
  /\ At(d, "join", "registered")
  /\ LET s == Caller(d)
     IN IF ~work[d].live THEN JoinUndone(s, d, Doomed({s}).doomed)
        ELSE IF ~JoinActive(s, d) \/ UserFenced(UserOf[s])
          THEN JoinUndone(s, d, sock.doomed)
        ELSE /\ sock' = [sock EXCEPT !.joins[s] = Tail(@), !.turn = @ \ {s}]
             /\ known' = [known EXCEPT ![s][d] = IF @ > work[d].rev THEN @ ELSE work[d].rev]
             /\ line' = Pop(line, d)
             /\ Done(d)
             /\ UNCHANGED <<present, held>>
  /\ UNCHANGED <<db, ops, outbox, crit, budget>>

-----------------------------------------------------------------------------
(* Leaving, losing the connection, coming back *)

\* leaveDocument is not queued.
Leave(s, d) ==
  /\ s \in sock.connected
  /\ d \in sock.joined[s] \cup sock.pending[s]
  /\ IF ~SessionActive(s)
       THEN sock' = Doomed({s}) /\ UNCHANGED <<present, held, line, known>>
     ELSE IF d \in sock.joined[s]
       THEN /\ sock' = SockWithout({s}, d)
            /\ present' = PresentWithout({s}, d)
            /\ held' = Unlock(held, {s}, d)
            /\ line' = Notify(line, d, Notices(held, {s}, d))
            /\ known' = Forget({s}, d)
     ELSE sock' = [sock EXCEPT !.pending[s] = @ \ {d}] /\ UNCHANGED <<present, held, line, known>>
  /\ UNCHANGED <<db, ops, outbox, work, crit, budget>>

Leaves(s) ==
  /\ sock' = [sock EXCEPT !.connected = @ \ {s}, !.doomed = @ \ {s},
                          !.room = [d \in Document |-> @[d] \ {s}],
                          !.joined[s] = {}, !.pending[s] = {}]
  /\ present' = [d \in Document |-> present[d] \ {s}]
  /\ held' = [d \in Document |-> Unlock(held, {s}, d)[d]]
  /\ line' = [d \in Document |-> Notify(line, d, Notices(held, {s}, d))[d]]
  /\ known' = [known EXCEPT ![s] = [d \in Document |-> -1]]
  /\ UNCHANGED <<db, ops, outbox, work, crit>>

\* handleDisconnect: the transport closed, or the server disconnects a socket
\* whose session it found revoked.
Disconnect(s) == s \in sock.connected /\ Spend("drop") /\ Leaves(s)
Expel(s) == s \in sock.doomed /\ Leaves(s) /\ UNCHANGED budget

IsTaskOf(task, s) == task.kind \in {"join", "command", "lock"} /\ task.sock = s

\* A new socket of the same session, when nothing is left of the old one.
Reconnect(s) ==
  /\ s \notin sock.connected
  /\ sock.joins[s] = <<>>
  /\ \A d \in Document : \A i \in DOMAIN line[d] : ~IsTaskOf(line[d][i], s)
  /\ SessionActive(s)
  /\ sock' = [sock EXCEPT !.connected = @ \cup {s}]
  /\ UNCHANGED <<db, ops, outbox, present, held, line, work, crit, known, budget>>

-----------------------------------------------------------------------------
(* Commands *)

Command(s, o) == [kind |-> "command", sock |-> s, op |-> o]
Pending(d) == {o \in Op : ops[o].doc = d /\ ops[o].rev > 0 /\ ~ops[o].delivered}
\* affectedElementIds: deleting an element affects all of the diagram.
Affected(do, e, E) == IF do = "remove" THEN E ELSE {e}
Locked(d, s, A) == \E e \in A : held[d][e] \notin {None, s}
\* UmlCommandExecutor, as far as the elements of the diagram go.
Applicable(do, e, E) == IF do = "add" THEN e \notin E ELSE e \in E
Applied(do, e, E) ==
  CASE do = "add" -> E \cup {e}
    [] do = "remove" -> E \ {e}
    [] OTHER -> E

\* A client that has joined d sends a new operation, on the revision it knows.
SendCommand(s, d, o) ==
  /\ s \in sock.connected /\ known[s][d] >= 0
  /\ ops[o].doc = None
  /\ HasRoom(d)
  /\ Spend("command")
  /\ \E do \in {"add", "edit", "remove"}, e \in Element :
       ops' = [ops EXCEPT ![o] = [@ EXCEPT !.doc = d, !.author = UserOf[s],
                                  !.base = known[s][d], !.do = do, !.el = e]]
  /\ Enqueue(d, Command(s, o))
  /\ UNCHANGED <<db, outbox, sock, present, held, work, crit, known>>

\* Its author sends the same operation again.
ResendCommand(s, o) ==
  LET d == ops[o].doc
  IN /\ d # None /\ UserOf[s] = ops[o].author
     /\ s \in sock.connected /\ known[s][d] >= 0
     /\ HasRoom(d)
     /\ Spend("resend")
     /\ Enqueue(d, Command(s, o))
     /\ UNCHANGED <<db, ops, outbox, sock, present, held, work, crit, known>>

\* The head of d ends and changes nothing but the sockets and what they know.
Replies(d, k, r) ==
  /\ sock' = k
  /\ known' = Learn(known, {Caller(d)}, d, r)
  /\ line' = Pop(line, d)
  /\ Done(d)

\* getAuthorizedDocumentOrThrow at the start of a task of a socket.
Authorize(d, kind) ==
  /\ At(d, kind, "start")
  /\ LET s == Caller(d)
     IN IF ~SessionActive(s) THEN Replies(d, Doomed({s}), -1)
        ELSE IF ~Authorized(s, d) THEN Replies(d, sock, -1)
        ELSE /\ Goto(d, [Idle EXCEPT !.pc = "authorized", !.elements = db.elements[d]])
             /\ UNCHANGED <<sock, line, known>>
  /\ UNCHANGED <<db, ops, outbox, present, held, crit, budget>>

\* Mutant: whether the socket has joined is not looked at after the await.
AdmittedUnjoined(s, d) == ~UserFenced(UserOf[s])
Admitted(s, d) == ~UserFenced(UserOf[s]) /\ d \in sock.joined[s]

\* processInTransaction: the row of the operation, or its commit.
Committing(d, o, rev, requires) ==
  Goto(d, [Idle EXCEPT !.pc = "committed", !.op = o, !.reply = rev, !.owed = requires])

\* Mutant: a base revision that is merely older is accepted.
FromTheFuture(base, d) == base > db.rev[d]
Outdated(base, d) == base # db.rev[d]

CommandProcess(d) ==
  /\ At(d, "command", "authorized")
  /\ LET s == Caller(d)
         o == Head(line[d]).op
         p == ops[o]
         E == db.elements[d]
     IN IF ~Admitted(s, d)
          THEN Replies(d, sock, -1) /\ UNCHANGED <<db, ops>>
        ELSE IF ~SessionActive(s)
          THEN Replies(d, Doomed({s}), -1) /\ UNCHANGED <<db, ops>>
        ELSE IF ~Authorized(s, d)
          THEN Replies(d, sock, -1) /\ UNCHANGED <<db, ops>>
        ELSE IF p.rev > 0
          THEN Committing(d, o, p.rev, ~p.delivered) /\ UNCHANGED <<db, ops, sock, line, known>>
        ELSE IF Outdated(p.base, d)
          THEN Replies(d, sock, db.rev[d]) /\ UNCHANGED <<db, ops>>
        ELSE IF Locked(d, s, Affected(p.do, p.el, E)) \/ ~Applicable(p.do, p.el, E)
          THEN Replies(d, sock, -1) /\ UNCHANGED <<db, ops>>
        ELSE /\ db' = [db EXCEPT !.rev[d] = @ + 1,
                                 !.elements[d] = Applied(p.do, p.el, E)]
             /\ ops' = [ops EXCEPT ![o].rev = p.base + 1]
             /\ Committing(d, o, p.base + 1, TRUE)
             /\ UNCHANGED <<sock, line, known>>
  /\ UNCHANGED <<outbox, present, held, crit, budget>>

\* getCurrentDocument
ReadCurrent(d, w) ==
  Goto(d, [w EXCEPT !.pc = "current", !.found = d \in db.exists, !.rev = db.rev[d],
                    !.elements = db.elements[d]])

CommandCurrent(d) ==
  /\ At(d, "command", "committed")
  /\ IF work[d].owed
       THEN ReadCurrent(d, work[d]) /\ UNCHANGED <<sock, line, known>>
       ELSE Replies(d, sock, work[d].reply)
  /\ UNCHANGED <<db, ops, outbox, present, held, crit, budget>>

\* The operation goes to the others; if the document has moved on since it
\* was committed, everybody is told the current revision instead.
CommandBroadcast(d) ==
  /\ At(d, "command", "current")
  /\ LET w == work[d]
         except == IF w.rev = w.reply THEN Caller(d) ELSE None
     IN IF w.found
          THEN Broadcast(d, [w EXCEPT !.except = except],
                         Reconciled(d, w.elements), ReconcileNotices(d, w.elements))
          ELSE Replies(d, sock, w.reply) /\ UNCHANGED <<present, held>>
  /\ UNCHANGED <<db, ops, outbox, crit, budget>>

CommandEmit(d) ==
  /\ At(d, "command", "emit")
  /\ Emit(d)
  /\ line' = EmitLine(d)
  /\ Goto(d, [work[d] EXCEPT !.pc = "marking"])
  /\ UNCHANGED <<db, ops, outbox, crit, budget>>

\* markBroadcastDelivered.  `untold` is the socket that the broadcast left out and
\* that is answered with an error although the row is marked.
Marked(o, untold) ==
  [ops EXCEPT ![o].delivered = (@ \/ ops[o].rev > 0), ![o].untold = untold]

\* The mark, and the acknowledgement to the sender.
CommandDelivered(d) ==
  /\ At(d, "command", "marking")
  /\ ops' = Marked(work[d].op, None)
  /\ Replies(d, sock, work[d].reply)
  /\ UNCHANGED <<db, outbox, present, held, crit, budget>>

-----------------------------------------------------------------------------
(* Element locks *)

LockTask(s, e, do) == [kind |-> "lock", sock |-> s, el |-> e, do |-> do]

RequestLock(s, d, e) ==
  /\ s \in sock.connected /\ known[s][d] >= 0
  /\ HasRoom(d)
  /\ Spend("lock")
  /\ \E do \in {"acquire", "renew", "release"} : Enqueue(d, LockTask(s, e, do))
  /\ UNCHANGED <<db, ops, outbox, sock, present, held, work, crit, known>>

\* acquireLock and updateLockLease after the authorization.  A lease is the
\* socket's own; every successful call broadcasts the locks.
LockServed(d) ==
  /\ At(d, "lock", "authorized")
  /\ LET s == Caller(d)
         e == Head(line[d]).el
         do == Head(line[d]).do
         granted == /\ Admitted(s, d) /\ e \in work[d].elements
                    /\ held[d][e] \in (IF do = "acquire" THEN {None, s} ELSE {s})
     IN /\ held' = IF granted
                    THEN [held EXCEPT ![d][e] = IF do = "release" THEN None ELSE s]
                    ELSE held
        /\ line' = Pop(IF granted THEN Notify(line, d, 1) ELSE line, d)
        /\ Done(d)
  /\ UNCHANGED <<db, ops, outbox, sock, present, crit, known, budget>>

\* The timer of a lease that is not renewed.
LockExpires(d, e) ==
  /\ held[d][e] # None
  /\ Spend("expire")
  /\ held' = [held EXCEPT ![d][e] = None]
  /\ line' = Notify(line, d, 1)
  /\ UNCHANGED <<db, ops, outbox, sock, present, work, crit, known>>

-----------------------------------------------------------------------------
(* Replacement and deletion of a document through REST *)

\* scheduleCriticalDocumentWork from the maps c and the line l.
Schedule(c, l, D) == crit' = Scheduling(c, l, D) /\ line' = SchedulingLine(c, l, D)

RequestReplace(s, d, E) ==
  /\ HasRoom(d) /\ Spend("put")
  /\ Enqueue(d, [kind |-> "put", sock |-> s, base |-> db.rev[d], elements |-> E])
  /\ UNCHANGED <<db, ops, outbox, sock, present, held, work, crit, known>>
RequestDelete(s, d) ==
  /\ HasRoom(d) /\ Spend("delete")
  /\ Enqueue(d, [kind |-> "delete", sock |-> s])
  /\ UNCHANGED <<db, ops, outbox, sock, present, held, work, crit, known>>

MayMutate(s, d) == SessionActive(s) /\ Authorized(s, d)
Rejected(d) == line' = Pop(line, d) /\ Done(d)

ReplaceTransact(d) ==
  /\ At(d, "put", "start")
  /\ LET t == Head(line[d])
         free == \A e \in db.elements[d] : held[d][e] = None
     IN IF MayMutate(t.sock, d) /\ t.base = db.rev[d] /\ free
          THEN /\ db' = [db EXCEPT !.rev[d] = @ + 1, !.elements[d] = t.elements]
               /\ Goto(d, [Idle EXCEPT !.pc = "committed", !.rev = t.base + 1,
                                       !.elements = t.elements])
               /\ UNCHANGED line
          ELSE Rejected(d) /\ UNCHANGED db
  /\ UNCHANGED <<ops, outbox, sock, present, held, crit, known, budget>>

\* The change reaches handleExternalDocumentChange.
ReplacePublish(d) ==
  /\ At(d, "put", "committed")
  /\ LET change == [rev |-> work[d].rev, elements |-> work[d].elements]
     IN IF d \in crit.deleted
          THEN line' = Pop(line, d) /\ UNCHANGED crit
          ELSE /\ crit' = Scheduling([crit EXCEPT !.resync[d] = change], line, {d})
               /\ line' = Pop(SchedulingLine(crit, line, {d}), d)
  /\ Done(d)
  /\ UNCHANGED <<db, ops, outbox, sock, present, held, known, budget>>

\* The rows that go with the documents D.
WithoutDocuments(D) ==
  /\ db' = [db EXCEPT !.exists = @ \ D]
  /\ ops' = [o \in Op |-> IF ops[o].doc \in D
                            THEN [ops[o] EXCEPT !.rev = 0, !.delivered = FALSE] ELSE ops[o]]

DeleteTransact(d) ==
  /\ At(d, "delete", "start")
  /\ IF MayMutate(Head(line[d]).sock, d)
       THEN WithoutDocuments({d}) /\ Goto(d, [Idle EXCEPT !.pc = "committed"]) /\ UNCHANGED line
       ELSE Rejected(d) /\ UNCHANGED <<db, ops>>
  /\ UNCHANGED <<outbox, sock, present, held, crit, known, budget>>

GoneFrom(c, D) ==
  [c EXCEPT !.deleted = @ \cup D,
            !.resync = [d \in Document |-> IF d \in D THEN None ELSE @[d]]]

DeletePublish(d) ==
  /\ At(d, "delete", "committed")
  /\ crit' = Scheduling(GoneFrom(crit, {d}), line, {d})
  /\ line' = Pop(SchedulingLine(crit, line, {d}), d)
  /\ Done(d)
  /\ UNCHANGED <<db, ops, outbox, sock, present, held, known, budget>>

-----------------------------------------------------------------------------
(* The project and the sessions: a change is committed, and published on   *)
(* the event bus once its transaction has been awaited.                    *)

Commits(change) == outbox' = outbox \cup {change}
Change(kind, u, n, D, x) == [kind |-> kind, user |-> u, n |-> n, docs |-> D, session |-> x]

RemoveMember(u) ==
  /\ u \in db.member \ {Owner}
  /\ Spend("remove")
  /\ db' = [db EXCEPT !.member = @ \ {u}]
  /\ Commits(Change("removed", u, budget.remove, db.exists, None))
  /\ UNCHANGED <<ops, sock, present, held, line, work, crit, known>>
GrantMember(u) ==
  /\ Owner \in db.member /\ u \notin db.member
  /\ Spend("grant")
  /\ db' = [db EXCEPT !.member = @ \cup {u}]
  /\ Commits(Change("granted", u, budget.grant, {}, None))
  /\ UNCHANGED <<ops, sock, present, held, line, work, crit, known>>
DeleteProject ==
  /\ Owner \in db.member
  /\ Spend("project")
  /\ db' = [db EXCEPT !.exists = {}, !.member = {}]
  /\ ops' = [o \in Op |-> [ops[o] EXCEPT !.rev = 0, !.delivered = FALSE]]
  /\ Commits(Change("deleted", None, 0, db.exists, None))
  /\ UNCHANGED <<sock, present, held, line, work, crit, known>>
RevokeSession(x) ==
  /\ x \in db.sessions
  /\ Spend("revoke")
  /\ db' = [db EXCEPT !.sessions = @ \ {x}]
  /\ Commits(Change("revoked", None, 0, {}, x))
  /\ UNCHANGED <<ops, sock, present, held, line, work, crit, known>>

\* The fence of u is taken down, or replaced by the fence n until the
\* documents D have been evacuated.
Fence(c, u, n, D) ==
  [c EXCEPT !.fence[u] = IF D = {} THEN 0 ELSE n,
            !.fenceDocs = [m \in DOMAIN @ |-> IF m = n THEN D
                                              ELSE IF m = c.fence[u] THEN {} ELSE @[m]],
            !.evictions = [d \in Document |-> IF d \in D THEN [@[d] EXCEPT ![u] = n] ELSE @[d]]]

\* handleProjectCollaborationChange, and the listener of revoked sessions.
Publish(p) ==
  /\ p \in outbox
  /\ outbox' = outbox \ {p}
  /\ CASE p.kind = "granted" -> crit' = Fence(crit, p.user, 0, {}) /\ UNCHANGED <<sock, line>>
       [] p.kind = "removed" -> /\ Schedule(Fence(crit, p.user, p.n, p.docs), line, p.docs)
                                /\ UNCHANGED sock
       [] p.kind = "deleted" -> Schedule(GoneFrom(crit, p.docs), line, p.docs) /\ UNCHANGED sock
       [] OTHER -> /\ sock' = Doomed({s \in Socket : SessionOf[s] = p.session})
                   /\ UNCHANGED <<crit, line>>
  /\ UNCHANGED <<db, ops, present, held, work, known, budget>>

-----------------------------------------------------------------------------
(* Critical work: processCriticalDocumentWork *)

NoEvictions == [u \in User |-> 0]

\* Mutant: the first document that is evacuated takes the fence down.
CompletedAtOnce(c, d) ==
  [c EXCEPT !.evictions[d] = NoEvictions,
            !.fence = [u \in User |-> IF c.evictions[d][u] # 0 /\ @[u] = c.evictions[d][u]
                                      THEN 0 ELSE @[u]]]
\* completeMemberEvictions: the evictions of d are done.
Completed(c, d) ==
  LET n(u) == c.evictions[d][u]
      left(m) == IF \E u \in User : n(u) = m THEN c.fenceDocs[m] \ {d} ELSE c.fenceDocs[m]
      over(u) == n(u) # 0 /\ c.fenceDocs[n(u)] # {} /\ left(n(u)) = {}
  IN [c EXCEPT !.evictions[d] = NoEvictions,
               !.fenceDocs = [m \in DOMAIN @ |-> left(m)],
               !.fence = [u \in User |-> IF over(u) /\ @[u] = n(u) THEN 0 ELSE @[u]]]

CriticalEvict(d) ==
  /\ At(d, "critical", "start") /\ d \notin crit.deleted
  /\ crit.evictions[d] # NoEvictions
  /\ LET F == {s \in sock.room[d] : crit.evictions[d][UserOf[s]] # 0 /\ Fenced(s, d)}
     IN /\ sock' = SockWithout(F, d)
        /\ present' = PresentWithout(F, d)
        /\ held' = Unlock(held, F, d)
        /\ line' = Notify(line, d, Notices(held, F, d))
        /\ known' = Forget(F, d)
  /\ crit' = Completed(crit, d)
  /\ Goto(d, [Idle EXCEPT !.pc = "evicted"])
  /\ UNCHANGED <<db, ops, outbox, budget>>

\* evictDeletedDocument
CriticalDeleted(d) ==
  /\ At(d, "critical", "start") \/ At(d, "critical", "evicted")
  /\ d \in crit.deleted
  /\ LET R == sock.room[d]
         rest == IF Unlock(held, R, d)[d] = NoLocks THEN 0 ELSE 1
         c == IF work[d].pc = "start" THEN Completed(crit, d) ELSE crit
     IN /\ sock' = SockWithout(R, d)
        /\ present' = PresentWithout(R, d)
        /\ held' = [held EXCEPT ![d] = NoLocks]
        /\ known' = Forget(R, d)
        /\ EndCritical([c EXCEPT !.deleted = @ \ {d}, !.recovery = @ \ {d}],
                       Notify(line, d, Notices(held, R, d) + rest), d, FALSE)
  /\ UNCHANGED <<db, ops, outbox, budget>>

ReadyForResync(d) ==
  /\ d \notin crit.deleted
  /\ \/ At(d, "critical", "start") /\ crit.evictions[d] = NoEvictions
     \/ At(d, "critical", "evicted")

\* hasPendingBroadcasts, if a recovery was asked for.
CriticalAsk(d) ==
  /\ ReadyForResync(d) /\ d \in crit.recovery
  /\ Goto(d, [Idle EXCEPT !.pc = "asked", !.owed = (Pending(d) # {})])
  /\ UNCHANGED <<db, ops, outbox, sock, present, held, line, crit, known, budget>>

\* Undelivered operations: the document is read.  Otherwise the change that
\* a replacement left, if any, is announced as it was published.
CriticalDecide(d) ==
  /\ At(d, "critical", "asked") \/ (ReadyForResync(d) /\ d \notin crit.recovery)
  /\ LET owed == work[d].owed
         change == crit.resync[d]
         c == IF owed THEN crit ELSE [crit EXCEPT !.recovery = @ \ {d}]
     IN IF owed
          THEN /\ ReadCurrent(d, [Idle EXCEPT !.owed = TRUE, !.change = change])
               /\ UNCHANGED <<sock, present, held, line, crit, known>>
        ELSE IF change = None
          THEN EndCritical(c, line, d, FALSE) /\ UNCHANGED <<sock, present, held, known>>
        ELSE /\ Broadcast(d, [Idle EXCEPT !.change = change, !.rev = change.rev],
                          Reconciled(d, change.elements), ReconcileNotices(d, change.elements))
             /\ crit' = c
  /\ UNCHANGED <<db, ops, outbox, budget>>

\* Mutant: the operations are marked as delivered without the broadcast.
CriticalCurrentUntold(d) ==
  /\ At(d, "critical", "current")
  /\ Goto(d, [work[d] EXCEPT !.pc = "marking"])
  /\ UNCHANGED <<db, ops, outbox, sock, present, held, line, crit, known, budget>>
CriticalCurrent(d) ==
  /\ At(d, "critical", "current")
  /\ LET w == work[d]
     IN IF w.found
          THEN Broadcast(d, w, Reconciled(d, w.elements), ReconcileNotices(d, w.elements))
          ELSE /\ Goto(d, [w EXCEPT !.pc = "marking"])
               /\ UNCHANGED <<sock, present, held, line, known>>
  /\ UNCHANGED <<db, ops, outbox, crit, budget>>

CriticalEmit(d) ==
  /\ At(d, "critical", "emit")
  /\ Emit(d)
  /\ LET c == IF crit.resync[d] = work[d].change THEN [crit EXCEPT !.resync[d] = None] ELSE crit
     IN IF work[d].owed
          THEN crit' = c /\ line' = EmitLine(d) /\ Goto(d, [work[d] EXCEPT !.pc = "marking"])
          ELSE EndCritical(c, EmitLine(d), d, FALSE)
  /\ UNCHANGED <<db, ops, outbox, budget>>

\* markPendingBroadcastsDelivered
AllMarked(d) ==
  [o \in Op |-> IF o \in Pending(d) THEN [ops[o] EXCEPT !.delivered = TRUE] ELSE ops[o]]
CriticalDelivered(d) ==
  /\ At(d, "critical", "marking")
  /\ ops' = AllMarked(d)
  /\ EndCritical([crit EXCEPT !.recovery = @ \ {d}], line, d, FALSE)
  /\ UNCHANGED <<db, outbox, sock, present, held, known, budget>>

-----------------------------------------------------------------------------
(* Retries, recovery, failures, crashes *)

RetryTimer(d) ==
  /\ d \in crit.retry
  /\ LET c == [crit EXCEPT !.retry = @ \ {d}]
     IN Schedule(c, line, IF HasCriticalWork(c, d) THEN {d} ELSE {})
  /\ UNCHANGED <<db, ops, outbox, sock, present, held, work, known, budget>>

\* recoverUndeliveredOperations, one at a time: the query and its answer.
Awaiting == {d \in Document : Pending(d) # {}}
ScanAsk ==
  /\ crit.scan = {} /\ Awaiting # {}
  /\ crit' = [crit EXCEPT !.scan = Awaiting]
  /\ UNCHANGED <<db, ops, outbox, sock, present, held, line, work, known, budget>>
ScanAnswer ==
  /\ crit.scan # {}
  /\ Schedule([crit EXCEPT !.recovery = @ \cup crit.scan, !.scan = {}], line, crit.scan)
  /\ UNCHANGED <<db, ops, outbox, sock, present, held, work, known, budget>>

\* The error of a mark hides that it was made, each mark being one statement with its
\* own commit.  The author of the operation, whom the broadcast left out, is answered
\* with INTERNAL_ERROR, and nothing is left to recover: he hears of his operation
\* when he sends it again, joins again, or is told of a later revision.
MarkHidden(d) ==
  \/ At(d, "command", "marking") /\ ops' = Marked(work[d].op, work[d].except)
  \/ At(d, "critical", "marking") /\ ops' = AllMarked(d)

\* The call of PostgreSQL that the head of d awaits reports an error; without
\* recipients getBroadcastAuthorization makes none.  The call did nothing, or
\* ("lost") the error hides that it did commit: the transaction at "committed",
\* the mark at "marking".
Fail(d) ==
  /\ Busy(d)
  /\ work[d].pc = "emit" => work[d].to # {}
  /\ \/ /\ work[d].pc \in {"authorized", "registered", "asked", "current", "emit", "marking"}
        /\ Spend("fail") /\ UNCHANGED ops
     \/ work[d].pc = "committed" /\ Spend("lost") /\ UNCHANGED ops
     \/ MarkHidden(d) /\ Spend("lost")
  /\ CASE Head(line[d]).kind = "join" ->
            /\ IF work[d].pc = "registered" THEN JoinUndone(Caller(d), d, sock.doomed)
                                            ELSE JoinFails(Caller(d), d, sock)
            /\ UNCHANGED crit
       [] Head(line[d]).kind = "critical" ->
            EndCritical(crit, line, d, TRUE) /\ UNCHANGED <<sock, present, held, known>>
       [] OTHER ->
            line' = Pop(line, d) /\ Done(d) /\ UNCHANGED <<sock, present, held, crit, known>>
  /\ UNCHANGED <<db, outbox>>

\* The process dies and starts again; PostgreSQL keeps what was committed.
Crash ==
  /\ Spend("crash")
  /\ outbox' = {}
  /\ sock' = [InitialSockets EXCEPT !.connected = {}]
  /\ present' = [d \in Document |-> {}]
  /\ held' = [d \in Document |-> NoLocks]
  /\ line' = [d \in Document |-> <<>>]
  /\ work' = [d \in Document |-> Idle]
  /\ crit' = InitialCritical
  /\ known' = Strangers
  /\ UNCHANGED <<db, ops>>

-----------------------------------------------------------------------------
(* The system *)

\* The running task of d goes on.
Serve(d) ==
  \/ TellStart(d) \/ TellEmit(d)
  \/ JoinCheck(d) \/ JoinEnter(d) \/ JoinRegister(d) \/ JoinConfirm(d)
  \/ Authorize(d, "command") \/ CommandProcess(d) \/ CommandCurrent(d)
  \/ CommandBroadcast(d) \/ CommandEmit(d) \/ CommandDelivered(d)
  \/ Authorize(d, "lock") \/ LockServed(d)
  \/ ReplaceTransact(d) \/ ReplacePublish(d)
  \/ DeleteTransact(d) \/ DeletePublish(d)
  \/ CriticalEvict(d) \/ CriticalDeleted(d) \/ CriticalAsk(d) \/ CriticalDecide(d)
  \/ CriticalCurrent(d) \/ CriticalEmit(d) \/ CriticalDelivered(d)

\* What the process does by itself besides the lines.
Housekeeping ==
  \/ \E s \in Socket : BeginJoin(s) \/ Expel(s)
  \/ \E p \in outbox : Publish(p)
  \/ \E d \in Document : RetryTimer(d)
  \/ ScanAsk \/ ScanAnswer

Clients ==
  \E s \in Socket :
    \/ Disconnect(s) \/ Reconnect(s)
    \/ \E d \in Document : RequestJoin(s, d) \/ Leave(s, d) \/ RequestDelete(s, d)
    \/ \E d \in Document, o \in Op : SendCommand(s, d, o)
    \/ \E o \in Op : ResendCommand(s, o)
    \/ \E d \in Document, e \in Element : RequestLock(s, d, e)
    \/ \E d \in Document, E \in SUBSET Element : RequestReplace(s, d, E)

Project ==
  \/ \E u \in User : RemoveMember(u) \/ GrantMember(u)
  \/ DeleteProject
  \/ \E x \in Session : RevokeSession(x)

Mishaps ==
  \/ \E d \in Document : Fail(d) \/ \E e \in Element : LockExpires(d, e)
  \/ Crash

Next == (\E d \in Document : Serve(d)) \/ Housekeeping \/ Clients \/ Project \/ Mishaps

Spec == Init /\ [][Next]_vars

\* PostgreSQL answers, microtasks and timers run.  Nothing is assumed of the
\* clients, of the project, or of mishaps.
FairSpec ==
  /\ Spec
  /\ \A d \in Document : WF_vars(Serve(d)) /\ WF_vars(RetryTimer(d))
  /\ \A s \in Socket : WF_vars(BeginJoin(s)) /\ WF_vars(Expel(s))
  /\ WF_vars(\E p \in outbox : Publish(p))
  /\ WF_vars(ScanAsk) /\ WF_vars(ScanAnswer)

-----------------------------------------------------------------------------
(* Properties *)

Kinds == {"tell", "critical", "join", "command", "lock", "put", "delete"}
Steps == {"start", "authorized", "entered", "registered", "committed", "current", "emit",
          "marking", "evicted", "asked"}

\* Every variable has its type.
TypeOK ==
  /\ db.exists \subseteq Document /\ db.member \subseteq User /\ db.sessions \subseteq Session
  /\ db.rev \in [Document -> Nat] /\ db.elements \in [Document -> SUBSET Element]
  /\ \A o \in Op : ops[o].doc \in Document \cup {None} /\ ops[o].rev \in Nat
  /\ sock.connected \subseteq Socket /\ sock.doomed \subseteq sock.connected
  /\ sock.room \in [Document -> SUBSET Socket]
  /\ sock.joined \in [Socket -> SUBSET Document]
  /\ sock.pending \in [Socket -> SUBSET Document]
  /\ sock.joins \in [Socket -> Seq(Document)] /\ sock.turn \subseteq Socket
  /\ present \in [Document -> SUBSET Socket]
  /\ held \in [Document -> [Element -> Socket \cup {None}]]
  /\ \A d \in Document :
       /\ Len(line[d]) <= Capacity
       /\ \A i \in DOMAIN line[d] : line[d][i].kind \in Kinds
       /\ work[d].pc \in Steps /\ (~Busy(d) => work[d] = Idle)
  /\ crit.fence \in [User -> Removals \cup {0}]
  /\ crit.deleted \cup crit.scheduled \cup crit.retry \cup crit.recovery \cup crit.scan
       \subseteq Document
  /\ known \in [Socket -> [Document -> Nat \cup {-1}]]

\* All is well typed; the room, joinedDocumentIds and the presence store are kept apart and agree:
\* a socket has joined a document exactly if it is a participant, and it is in
\* the room exactly then, but for the join that is just entering.  Nothing is
\* left of a socket that is gone.
RoomCoherence ==
  /\ TypeOK
  /\ \A d \in Document, s \in Socket :
       /\ (d \in sock.joined[s]) <=> (s \in present[d])
       /\ d \in sock.joined[s] => s \in sock.room[d]
       /\ s \in sock.room[d] =>
            /\ s \in sock.connected
            /\ d \in sock.joined[s] \/ Entering(s, d)

\* A lock is held by a participant of its document, on whichever way the
\* holder may leave while its request waits for PostgreSQL.
LocksHeldByParticipants ==
  \A d \in Document, e \in Element : held[d][e] # None => held[d][e] \in present[d]

\* A socket is in no more documents than maxDocumentsPerSocket, though its
\* joins run in the lines of different documents.
DocumentLimit == \A s \in Socket : Cardinality(sock.joined[s]) <= MaxDocuments

\* Critical work that is owed is scheduled or waits for its retry timer; it is
\* in the line once, and there is room for it whenever it has to be put there.
CriticalWorkScheduled ==
  \A d \in Document :
    LET n == Cardinality({i \in DOMAIN line[d] : line[d][i].kind = "critical"})
    IN /\ n = IF d \in crit.scheduled THEN 1 ELSE 0
       /\ d \notin crit.scheduled => Len(line[d]) < Capacity
       /\ HasCriticalWork(crit, d) => d \in crit.scheduled \cup crit.retry

\* Once a removal has been published, the removed member is fenced off as long
\* as one of his sockets is in the room of a document the project still has.
FencedUntilEvicted ==
  \A d \in Document, s \in Socket :
    /\ s \in sock.room[d] /\ d \in sock.joined[s] /\ d \in db.exists
    /\ Owner \in db.member /\ UserOf[s] \notin db.member
    /\ \A p \in outbox : p.user # UserOf[s]
    => UserFenced(UserOf[s])

\* An operation that is marked as delivered has been announced, or a later
\* revision has, to every client that is in the document and may be there; but
\* for the one client that sent it and was answered with an error because the
\* error of the mark hid that it was made (document-command.service.ts:425).
DeliveredMeansTold ==
  \A o \in Op, s \in Socket :
    LET d == ops[o].doc
    IN /\ ops[o].delivered
       /\ SessionActive(s) /\ Authorized(s, d) /\ s \notin sock.doomed
       /\ s \in present[d] /\ sock.joins[s] = <<>>
       => known[s][d] >= ops[o].rev \/ s = ops[o].untold

\* A client that was told that it has joined a document has: leaving cancels a
\* join that is on its way (test/collaboration.e2e-spec.ts:613).
AcknowledgedMeansJoined ==
  \A s \in Socket, d \in Document : known[s][d] >= 0 => d \in sock.joined[s]

\* Operations make a history: each revision comes from one operation at most,
\* and an operation that was committed follows the revision it was made for,
\* however often it is sent and whatever its author was told of it.
RevisionHistory ==
  \A o, p \in Op :
    ops[o].rev > 0 =>
      /\ ops[o].base < ops[o].rev /\ ops[o].rev <= db.rev[ops[o].doc]
      /\ ops[p].doc = ops[o].doc /\ ops[p].rev = ops[o].rev => p = o

\* No event of a document - presence, locks, an operation, a synchronisation after
\* a replacement or a recovery - reaches a member after his removal was published,
\* or the deletion of the project was, unless he has been let in again.
NoEmissionToRemoved ==
  [][\A d \in Document :
       TellEmit(d) \/ CommandEmit(d) \/ CriticalEmit(d) =>
         \A s \in Reached(d) :
           \/ UserOf[s] \in db.member
           \/ \E p \in outbox : \/ p.kind = "removed" /\ p.user = UserOf[s]
                               \/ p.kind = "deleted"]_vars

\* A lock ends with its lease, with the stay of its holder or with its element:
\* a broadcast or a synchronisation never takes away the lock of a live element.
LocksOutliveResync ==
  [][\A d \in Document, e \in Element :
       held[d][e] # None /\ held'[d][e] # held[d][e] =>
         \/ held[d][e] \notin present'[d]
         \/ e \notin db.elements[d] \/ d \notin db.exists
         \/ budget'.expire < budget.expire
         \/ At(d, "lock", "authorized") /\ Head(line[d]).do = "release"]_vars

\* Every client in a document that still exists is told its current revision
\* in the end, in spite of lost broadcasts and crashes; if no error hides a
\* commit: a replacement whose commit is hidden is announced to nobody, and an
\* operation whose mark is hidden not to the client that sent it.
RoomConverges ==
  \A s \in Socket, d \in Document :
    []<>(d \notin db.exists \/ d \notin sock.joined[s] \/ known[s][d] = db.rev[d])

\* A fence is not left standing: the member can join if he is let in again.
FencesClear == \A u \in User : []<>(crit.fence[u] = 0)

\* Every join is answered.
JoinsAnswered == \A s \in Socket : []<>(sock.joins[s] = <<>>)

=============================================================================
