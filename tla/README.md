# A verification project for the UML class designer back end

The repository is a NestJS back end with one process and one PostgreSQL database: users own
projects, projects have editors and UML documents, and editors work on a document together over
Socket.IO. What is hard in it is of two kinds. One is the real-time collaboration: one process
runs many asynchronous handlers over shared maps, every `await` lets the others in, a document
changes by three routes (commands, `PUT`, deletion), access can be withdrawn at any moment, and a
crash loses everything but the database. The other is the meaning of a diagram: sixteen commands
that must leave it valid, a relational model that must say what it says, an exchange format that
other tools write in their own way. These TLA+ modules model both, TLC checks them on small
instances, and TLAPS proves for every instance what was most important in eight components: the queue,
the locks, the gateway, the sessions, the admission of sockets, the transfers, the commands and the exchange of files.

## The system

Paths are relative to `src/src/modules/`.

| Component | State | Operations | Talks to |
| --- | --- | --- | --- |
| Mutation queue (`uml-domain/document-mutation-queue.service.ts`) | `tails`, `pendingByDocument` | `run`, `runCritical`, shutdown | awaited by the gateway and the documents service |
| Lock store (`collaboration-lock.store.ts`) | locks by document, index by socket, timers, listeners | acquire, renew, release, release by socket, reconcile, expiry | called by gateway, command and documents services; its listener is the gateway |
| Presence store (`collaboration-presence.store.ts`) | participants by document | join, update, leave | called by the gateway, its listener |
| Gateway (`collaboration.gateway.ts`) | per socket: identity, joined and pending documents, the tail of its joins; maps of fences, evictions, deletions, resyncs, recoveries, retries | nine socket events, handshake, disconnection, broadcasts, critical work, recovery | all of the others |
| Command service (`document-command.service.ts`) | `DocumentOperation`, `UmlDocument` rows | process a command in a transaction, current document, marks of delivery | called by the gateway; asks the lock store inside its transaction |
| Documents REST service (`documents.service.ts`) | `UmlDocument`, `DocumentRevision` rows | create, list, read, replace, delete | runs in the queue, publishes on the document bus |
| Projects service (`../projects/`) | projects, members | create, rename, delete, add and remove editors | publishes on the project bus |
| Event buses | handlers | publish | from the REST services to the gateway, synchronously |
| Auth sessions (`../auth/auth.service.ts`, `auth-session-maintenance.service.ts`) | `User`, `AuthSession`, `ConsumedRefreshToken` rows | register, login, refresh with rotation and replay detection, logout, the sweep of lapsed sessions | tells the verifier of revoked sessions |
| Access token verifier (`../auth/access-token-verifier.service.ts`) | revocation handlers | verify, is a session active | asked by guards and the gateway, tells it of revoked sessions |
| Handshake admission (`configured-socket-io.adapter.ts`, middleware of the gateway) | attempts in a window, reservations, connected sockets, sockets by session | reserve, release, deadline, verify, reserve a socket | Engine.IO before the gateway |
| Rate limiter (`collaboration-rate-limiter.service.ts`) | two maps of windows by socket | allow, release | called by the gateway |
| Command executor and canonical validation (`uml-command.executor.ts`, `canonical-model.validation.ts`) | none | the sixteen commands on a document; the semantic checks | called by the command and documents services |
| Relational transformer and validator (`../generation/relational-model/`) | none | a document to tables, keys, columns; the contract of the result | called by the Spring Boot export and generator |
| XMI (`xmi/`) | none | export, import, diagnostics, semantic equivalence; preview and apply in `xmi/xmi-interoperability.service.ts` | the documents service |
| Spring Boot export (`../generation/spring-boot-export/`, `spring-boot-export-quota.service.ts`) | quota: times by actor, active exports | acquire, release, derive, archive | controllers |
| Spring Boot generator, controllers, guards, configuration, health, database | none of their own | text, wiring, plain input and output | |

How they interact. A request for a socket is admitted by the adapter, which reserves a slot; the
transport opens, the socket asks to connect, and the middleware verifies its session and reserves
its place. A socket event passes its quota and its schema, asks PostgreSQL whether its
session is active, and then runs in the line of its document (`run`); there the gateway asks
PostgreSQL again, calls the command service or a store, and broadcasts. A store calls the
gateway's listener at each change, and the gateway puts a broadcast in the line of the document.
A REST change commits in the database and is published on a bus after its transaction; the
gateway's handler updates its maps synchronously and schedules one critical task per document
(`runCritical`), which evicts, announces and retries. An interval finds operations that are
committed but not marked as delivered and asks for critical work too. A session that is revoked
disconnects its sockets through the verifier's handlers. Commands go through the executor and the
validation; exports go through the transformer and its validator; an import is previewed, and
applied by replacing the document at the revision that was previewed.

What is hard in it:

* every `await` of a join, a command, a broadcast, a refresh, an export or an import, during which
  the client leaves, asks again, or loses its session or its membership, and the document moves on;
* the order between the commit of a change and its publication, between publications, and
  between work that is scheduled and work that runs;
* failures of the database between two steps, an error that hides a commit, a crash;
* the slots of the queue, the handshakes and the exports: each taken once and given back once,
  by whichever of the timer, the close, the error and the answer comes first;
* timers: leases, retries, deadlines, the recovery interval, the sweep;
* the reach of a command beyond the element it names, and diagrams whose features meet: hierarchies
  with keys of their own, association classes, collections, ends without names.

What makes each component correct, in the terms of the properties below: the queue serves a
document one call at a time in order (`MutualExclusion`, `ServedInOrder`); the lock
store's maps agree and a lease is neither lost early nor revived; the room, the joined documents,
presence and locks agree (`RoomCoherence`, `LocksHeldByParticipants`); nobody receives an event after his
removal (`NoEmissionToRemoved`, `FencedUntilEvicted`); a mark of delivery is true
(`DeliveredMeansTold`), but for an author whose answer was lost with it; an operation is applied once (`RevisionHistory`); critical work is not forgotten
(`CriticalWorkScheduled`); every client converges to the current revision (`RoomConverges`); a refresh
token is exchanged once and a replay ends its session (`ExchangedOnce`, `ReplayEndsSession`); a slot
is given back once (`VerifiersHoldSlots`, `SlotsExact`); the lock check of a command covers what it
changes (`LockCheckCoversChanges`); the relational model says what the diagram says
(`FeaturesRepresented`, `ContractMet`); a file is read as the diagram it was written from,
whether the program wrote it (`OwnFilesUnderstood`) or another tool (`ExchangeFaithful`).

## The modules

| Module | What it is |
| --- | --- |
| `MutationQueue` | the queue service: a chain of promises, one action per part of `enqueue`; its mapping to `DocumentLine` |
| `DocumentLine` | the abstract specification: a bounded FIFO per document whose head is served alone |
| `MCMutationQueue` | TLC: symmetry breaking |
| `MutationQueue_proofs` | theorems about `MutationQueue`, and that it implements `DocumentLine` |
| `LockStore`, `LockStore_proofs` | the lock store with its timers, and theorems about it |
| `CollaborationGateway` | the gateway, composed with the lines, rooms, presence, locks, database, buses, sessions and clients |
| `MCCollaborationGateway` | TLC: users, sockets and the scenarios of each configuration |
| `GatewaySteps_proofs` | what each step of the gateway does to the lines, the rooms and the maps, stated once |
| `CollaborationGateway_proofs` | theorems about the gateway, from those effects |
| `AuthSessions`, `AuthSessions_proofs` | sessions, refresh tokens, logout and the sweep, each statement a step, and theorems about them |
| `Admission`, `Admission_proofs`, `MCAdmission` | the handshake, its slots, the reservations of sockets and the rate limiter, theorems about them, and their instance |
| `Diagram` | the vocabulary of documents and the semantic validation |
| `UmlCommands` | the sixteen commands, their affected elements, the outcome the service gives them |
| `RelationalModel` | the transformer in its four passes, and the contract of its result |
| `XmiExchange`, `XmiDialects` | export, import and equivalence; the files other tools write |
| `DiagramEditing`, `MCDiagramEditing` | a document edited by commands, over all four of the above, and its instances |
| `DiagramEditing_proofs` | theorems about the commands, the validation, and the round trip through a file |
| `DocumentTransfers`, `DocumentTransfers_proofs` | exports under the quota, previews and applications of files, between edits, and theorems about them |

`CollaborationGateway` is written over the lines of `DocumentLine`, a sequence of tasks per document,
and not over promises: the run `queue` shows that the promise chain implements such lines. It is
written over holders of elements and not over leases with clocks: the run `locks` is about those. It
asks whether a session is active where `AuthSessions` says how one ends, and takes connected sockets
where `Admission` lets them in.

### MutationQueue

A task is one call of `run` or `runCritical`. `Admit` and `Refuse` are the synchronous part of
`enqueue`; `Start` is the end of `await previous`; `Finish` is the `finally` after the operation returned
or threw; `Shutdown` clears both maps under whatever is running, as `onApplicationShutdown` does.
`status`, `prev`, `tails`, `pending` are the state of the code (the promise of a call is represented by
the task itself). `ticket`, `born`, `clock` and `generation` are history variables.

The refinement maps the calls made before the first shutdown to a line, oldest first, and the
running one to the document being served; later calls count as never made. So what is shown
includes that a shutdown, which forgets the tail, does not break the chain of the calls it finds.

### LockStore

Each method runs without an `await` and is one action, with the lazy expiry it starts with. Time is
counted down in ticks; a timer has its own count, may fire late, and may fire up to `TimerEarly`
ticks before its time (`setTimeout` runs on a monotonic clock, `expiresAt` on the wall clock). `emitChange` lists
what the document has, and listing expires the other lapsed locks of it (`Swept`), at a release and at a timer as well. A
timer that finds its lock unexpired does nothing and is not set again; the model remembers
whether it fired before its due time (`TooEarly`) or at it (`Spent`). `announced` is what the listener
was told last. Users are not modelled apart from sockets: a socket belongs to one user for its life.

### CollaborationGateway

The rule for steps: a step is the code from one `await` to the next, together with the database
call it ends in. The answer of the call is stored in `work[d]` and used by the next step, so everything
else may happen between the two. `work[d].pc` names the `await` at which the head of the line of `d`
stands. Awaits that only yield to the microtask queue are not steps, except that of `client.join`,
because its continuation tests again whether the join is still wanted. With the in-memory
adapter no client message is dispatched there, which is the guard `~Entering` of `RequestJoin`; with an
adapter that joins asynchronously a client could leave and ask again in that gap and be
registered without being in the room. Two reads that follow each other in
`getAuthorizedDocumentOrThrow` are one.

| Code | Actions |
| --- | --- |
| `joinDocument`, `runSocketJoin` | `RequestJoin`, `BeginJoin`, `JoinCheck`, `JoinEnter`, `JoinRegister`, `JoinConfirm`, `Fail` |
| `leaveDocument` | `Leave` |
| `handleDisconnect`, `disconnectRevoked` | `Disconnect`, `Expel`; `Reconnect` is a new socket of the session |
| `executeCommand`, `processInTransaction` | `SendCommand`, `ResendCommand`, `Authorize`, `CommandProcess`, `CommandCurrent`, `CommandBroadcast`, `CommandEmit`, `CommandDelivered` |
| `acquireLock`, `renewLock`, `releaseLock` | `RequestLock`, `Authorize`, `LockServed`; `LockExpires` |
| `scheduleAuthorizedBroadcast`, `broadcastToAuthorizedRoom` | `TellStart`, `TellEmit`; `Broadcast` and `Emit` inside commands and critical work |
| `documents.service` `update`, `delete` | `RequestReplace`, `ReplaceTransact`, `ReplacePublish`, `RequestDelete`, `DeleteTransact`, `DeletePublish` |
| `projects.service`, `logout` | `RemoveMember`, `GrantMember`, `DeleteProject`, `RevokeSession`, then `Publish` |
| `processCriticalDocumentWork` and its scheduling | `CriticalEvict`, `CriticalDeleted`, `CriticalAsk`, `CriticalDecide`, `CriticalCurrent`, `CriticalEmit`, `CriticalDelivered`, `RetryTimer` |
| `recoverUndeliveredOperations` | `ScanAsk`, `ScanAnswer` |
| database errors, an error hiding a commit, process death | `Fail` (budgets `fail` and `lost`), `Crash` |

`Publish` takes any committed change: nothing in the code ties the order of publications to that of
the commits. `known[s][d]` is what the client of a socket was told: -1 if it has no acknowledged
join, else the revision it knows. A broadcast of presence or locks that finds the line full is lost,
as in the code; the listeners of both stores lead to the same task `tell`.

`Fail` is an error of the call that a step waits for. It did nothing (`fail`), or it hides a commit (`lost`): that of the
transaction of a command, or that of `markBroadcastDelivered`, which is one statement with its own commit
(`document-command.service.ts:425`). In the second case (`MarkHidden`) the operation is marked, the broadcast has left its author out, he is
answered with `INTERNAL_ERROR`, and the recovery finds nothing to do. `ops[o].untold` remembers his socket: he
learns that his operation was applied when he sends it again or joins again, or from the next revision.

Data is abstracted to the elements of a document. A command adds, edits or removes one element;
deleting a classifier asks for the locks of all elements, as `affectedElementIds` does. An operation
identifier is bound to one author, document and command: the answer `OPERATION_ID_REUSED` is left out.

### AuthSessions

Each statement of PostgreSQL is one step, so that between the UPDATE that rotates a token and the one
that revokes a replayed session, or between the revocation and the deletion of the token history,
anything may happen: `Rotate`, `RotateNothing`, `RotateOverflow`, `RevokeReplayed`, `RevokeOnLogout`,
`Sweep`, `SweepFails`, `Find`. A request presents any token ever stored (`Present`), because the answer
that carried the next one may have been lost. Tokens are legacy (opaque, sequence 0) or versioned, as
in the two branches of the code. `LockActiveSession` and `EndWrite` are a transaction of another
service that holds the row of its session `FOR UPDATE`; updates and deletes of the row wait for it.
`Verify` and `Admit` are the two ends of the read of a handshake. `Lapse`, `StartCleanup`,
`CleanupBatch`, `CleanupFails` are time and the sweep. `issued`, `spent` and `unswept` are history.

### Admission

A request is an HTTP request for a transport, then the transport, then its sockets, one at a time:
`phase` says how far the transport is, `verifier` how far its latest socket. `ReserveHandshake` renews
the window and takes or refuses a slot; the slot ends with `RequestAborted`, `TransportCloses`, `Deadline`
or the end of the verification, each calling the same `Release`, and a verification that has started keeps it
from the first two (`ReleaseUnlessStarted`). `MayReserve` is the test after the verification. `Event` is a
window of the rate limiter, which goes with its socket.

### Documents: Diagram, UmlCommands, RelationalModel, XmiExchange, XmiDialects

A document is a record of sets of elements, positions and relationships, with the fields of the
canonical model; the arrays of the code are sets because no check and no command depends on their
order and the transformer sorts by identifier. `Valid` of `Diagram` is the conjunction of the checks of
`canonical-model.validation.ts`; `Registered` is what `registerId` is called with, each thing with the kind and the
owner it has an identifier as, and `NamesSound` is `assertNames`, which also looks at the names inside type
references. The `...Shape` predicates say which fields a thing has and of what kind
(`collaboration.types.ts` and the JSON schema): what clients send has them (`ShapeAssumption`), and so has every document. `Executed(d, c)` of `UmlCommands` is the executor: a document, or
`Refused` where the code throws; `Affected` is `affectedElementIds`; `Outcome` is what the service
answers, with the lock check and the validation in its order.

`Transformed(d)` of `RelationalModel` runs the four passes (classes and their scalar columns; references and
collections; generalizations; the other relationships) over the sorted sequences; each step takes and
returns the state of the builder, and a failure ends the pass, as the thrown error does. `Generated`
adds the assertion of the contract. Generated names are sequences of words, so that they collide
where the code's names would, before truncation.

A file of `XmiExchange` is a set of the UML elements with the attributes the importer reads. `Exported` is the
exporter; `Importable`, `Imported` and `Diagnostics` are the importer, with the resolution of types
by identifier, by name and by primitive, and the rules for ends; `Equivalent` is
`areSemanticallyEquivalent`. How many operations of a class look alike counts there, because the code compares lists. `Literal` is
the way `multiplicity` writes two bounds, and `LiteralAssumption` says that what it writes has these bounds. `XmiDialects` rewrites a file into the forms other tools write (ends
owned by classifiers, navigability only listed, the whole of an aggregation last, packages,
realizations apart, types by name, repeated results), and into files that say more than a document holds.

`DiagramEditing` is the state machine over them: the document is edited by any of the sixteen commands
with the arguments an instance offers (`Submit`), and what every document reached so may rely on is stated
as invariants about all next commands, its relational model and its files.

### DocumentTransfers

An action is what runs between two awaits. `stamps` is `actorRequests`, where an export stands with its time
and its request, so that two of one tick are two; `StartExport` is `acquire` of the quota with its pruning;
`DeriveProject` the read of the document and everything derived of it at once; `ArchiveTimeout` and
`ArchiveSettles` the archive, whose `finally` gives the slot back; `Prune` the cleanup timer; `Shutdown` clears
the quota under the exports that run. `StartPreview`, `StartApply`, `CheckSession`, `ReadForPreview`,
`ReadForApply` and `Replace` are the XMI service, which asks for the session before and after its work and
replaces the document in a transaction that checks the revision. `Edit`, `Delete` and `EndSession` are the
others. That `finalize()` settles after `abort()` (`spring-boot-export.archive.ts:59`) is a promise of the library; nothing
checked or proved here depends on it, because a slot in use counts as in use.

## What TLC checks

| Run | Instance | What it shows |
| --- | --- | --- |
| `queue` | four calls, two documents, capacity 3, one shutdown | the chain excludes, keeps the order, respects both limits, lets critical work in, settles every call, and implements `DocumentLine` with its fairness |
| `locks` | two documents of two elements, two sockets, two leases, TTL 2, timers one tick early, a shutdown | index and locks agree, the listener knows the locks, a lapsed lock blocks nobody and never revives, a live one is ended only by its owner, its element or a shutdown, and lapsed locks leave by their timers |
| `rooms` | three sockets (two of one member's session), two documents, one document per socket, two participants, one element; budgets of joins with lost connections and revoked sessions, of removals with a grant, of a command with a recovery, of a replacement | `RoomCoherence`, `DocumentLimit`, `FencedUntilEvicted`; `NoEmissionToRemoved`, for broadcasts of presence and locks, of operations, and of recoveries and replacements |
| `work` | two sockets, two operations, one document, one element | `DeliveredMeansTold`, `RevisionHistory`, `LocksHeldByParticipants`, `CriticalWorkScheduled`, `LocksOutliveResync`; one budget hides the commits of commands and of marks |
| `settling` | two sockets, one operation, no hidden commits, with fairness | `RoomConverges`, `FencesClear`, `JoinsAnswered` |
| `leave_and_rejoin` | two joins | the counterexample of finding 1 |
| `stale_resync` | one replacement, one command, one lock request, one failure | the counterexample of finding 2 |
| `sessions` | one session, legacy or new, three requests, a socket, a transaction, batches of one, one failing statement | a token is exchanged once, a replay and a logout end the session, transactions end under a session that goes on, and a socket that outlives its session is explained |
| `admission` | three handshakes of two clients, two of them of one session, two slots, one socket per session | slots are counted and each is given back, sockets and windows leave nothing behind |
| `diagrams` | up to three classifiers and three features or relationships, all sixteen commands | the lock check covers what a command changes, deletions and renames are accepted, the relational model is complete and meets its contract (known gaps of keys and names apart, each of which it reaches), the program's own files are read as the document they were written from, those in four dialects as the same diagram, and four kinds of excess are told or refused |
| `contract` | the same without operations and renames | the counterexample of finding 3 |
| `transfers` | three requests, two exporters, one importer, two files, a window of two ticks | slots are exact, the window holds, an import replaces what was previewed |

**Bounds.** The gateway is a loop over an environment that never ends. `Budgets` bounds the
environment: a behaviour starts with one budget of its run, one counter for each kind of event
(joins, commands, locks, replacements, removals, failures, crashes and so on). Leaving, reconnecting
and everything the process does by itself is not bounded. The budgets of a run are the events its
properties are about, each often enough to meet a second event of another actor: three joins are a
join, its repetition and one of another socket; two commands on one base revision are a conflict; one failure
in each place where the database is asked, then a retry that succeeds. A capacity of 3 is the least
at which two standard tasks wait and one slot is kept, so lines overflow and broadcasts are lost. In
`queue` four calls are one more than the line holds. In `locks` a TTL of 2 separates a fresh lease, an
old one and a lapsed one, and two leases are enough for a second owner after a lapse.

In `sessions` three requests are two refreshes with one token and a logout or a third refresh with its
successor; a largest sequence of 2 lets a token be exchanged twice and the column overflow; sessions do not
interact, except in a batch. In `admission` two slots for three requests make a full house, and
one socket per session a refusal after a verification that succeeded. In `transfers` three requests
are three exports (two slots, limit two), or a preview, its application and an export or a second
preview; two ticks are the window. In `diagrams` the bound `MaxWeight` counts attributes, operations and
relationships; a rename counts two and a move three, because they only matter to the commands and not to the conversions. Three
classifiers are the least for a hierarchy of two steps, an association with a class and a reference that
crosses; three features are an association, its class's key and another feature that meets it. The names,
types, roles and multiplicities of the instance are those that meet in the code: `id` (a key of its own),
`ownerId` and `owner` (a column against the one generated for a reference), a collection, a static
attribute, ends with and without roles. The names of classes meet generated ones: `PkOwner` beside `Owner` is the name of a
primary key, a parent `OwnerId` of a class with an `owner` that of a foreign key, and `OwnerId` with a `person` beside `Owner` with
an `idPerson` that of a unique key. Without any one of the three in `KnownGap`, TLC finds `ContractMet` violated.

**Symmetry** is used where it is sound: in `rooms` and `work`, which have no liveness, for the
documents, the operations and the two sockets of one session. `queue` has liveness and breaks the symmetry by a state constraint instead
(`UsedInOrder`): calls and documents are numbers, and only behaviours that use them in order are
explored; nothing is lost because calling is not subject to fairness.

**Deadlock** is not checked (`CHECK_DEADLOCK FALSE`) where the system may stop: a server without requests
has nothing to do, and with a spent budget it stops there. That nothing waits for ever is what `EveryCallSettles`,
`JoinsAnswered`, `FencesClear`, `RoomConverges` and `SlotsReturned` say.

**Fairness.** `MutationQueue`: microtasks run (`Start`), and an operation settles (`Finish`), which for
the callers follows from PostgreSQL answering or failing. `LockStore`: time passes and timers that are due
fire. `FairSpec` of the gateway: weak fairness of the step of each line, of the next join of each
socket, of disconnections that were decided, of publications, of retry timers and of the recovery
interval; all are continuations, microtasks or timers of a running process. `Admission`: the timer
of a reservation fires, and a verification ends, by `withTimeout` of the verifier at the latest
(`access-token-verifier.service.ts:163`). Nothing is assumed of clients, REST callers, errors or
crashes. The other modules state no liveness and assume no fairness.

**What the properties would catch** is tested by mutants: each property has an operator in
its module, marked `Mutant`, that breaks one definition the way a slip in that code would (a fence
that comes down too early, a check dropped after an `await`, a slot given back only on success), and TLC finds
the property violated with it.

## What is proved

Every theorem is about every value of the constants that the named assumptions admit. Every proof has the
same form: an inductive invariant with a lemma for each step (or for each kind of step), and the
property from it.

### Queue

For every finite set of tasks, every set of documents, every capacity and number of
shutdowns (`CapacityAssumption`, `ShutdownAssumption`, `TaskAssumption`): `TypeCorrect`,
`CallsServedInOrder`, `OperationsNeverOverlap`, `CriticalWorkHasRoom`. Order and exclusion are not inductive: they
need that a waiting call awaits an unsettled call of its line that is at least as young as any older
unsettled one (`ChainInv`), that the tail in the map is the youngest outstanding call (`TailInv`), and that tickets
number the calls (`TicketsInv`). `IInv` is the conjunction; `StartOrder` is where the chain pays off:
a call whose predecessor has settled can have no older unsettled call before it. `CriticalWorkHasRoom`
rests on `SlotInv`: a line that has only standard calls is short of the limit by one.

`ChainsAreLines` is the safety half of the refinement: `Spec` implements `DocumentLine` without its fairness. The
line of a document is its outstanding calls sorted by ticket; a new call has the largest ticket and is
appended (`SortedAppends`), the one served has the smallest and is the head (`SortedTail`), and the map that counts
them agrees with their number until the shutdown (`CountInv`). One lemma per action (`AdmitRefines`, `RefuseRefines`,
`StartRefines`, `FinishRefines`) says which step of the abstract line it is.

### Locks

For all documents, elements, sockets, leases, every TTL and however early timers are
(`TTLAssumption`, `TimerAssumption`): `IndexIsExact` and `RoomKnowsTheLocks`, from `StoreInvariant`. The
two properties are inductive together with the types (`StoreInv`). The proof has a lemma for each way
the maps change (drop, expire, extend, grant, clock), and one step per operation that cites it.

`LapsedLeasesAreOver` (from `LeasesEndOnce` and `LapsedLeasesNeverBlock`) and `LiveLeasesAreProtected` are action properties. They follow from one
lemma (`Fates`) that says of each lock what a step may do with it, and from `IssuedInv`: a lease that is held was
issued, so that one that ended cannot be given out again.

### Gateway

For all finite sets of sockets and documents, all users, sessions, elements and operations, every capacity of at
least 2, every limit and every set of budgets (`CapacityAssumption`, `LimitsAssumption`, `SocketAssumption`,
`FiniteAssumption`, `OwnerAssumption`, `ElementsAssumption`, `BudgetAssumption`, `NoneAssumption`).
`GatewaySteps_proofs` has a lemma for each action with its effect: the task at the head of one line goes on, ends, or ends and leaves
critical work behind (`GoesOn`, `Ends`, `EndsCritically`), other lines grow (`Grows`), some sockets are withdrawn from some documents
(`Withdrawal`), and what becomes of the maps. The theorems are proved from these effects, in layers:

* `CoreInvariant`: types; a join in a line is the oldest of its socket (`TurnInv`); who has joined is present and in the
  room, and who is in the room has joined or is about to (`RoomInv`); locks are held by participants; a socket
  whose join has passed `client.join` is in the room unless it has left since (`EnteredInv`). That gives
  `LocksStayWithParticipants` and, with the types of the maps, `RoomsCohere`.
* `DocumentsLimited`, from `LimitInv`: a join that has entered still fits in, though a leave, a disconnection or an eviction may
  come between its check and its registration; no other join of the socket can, because of `TurnInv`.
* `CriticalWorkStaysScheduled`, from `CriticalInvariant`: a line has a critical task exactly if its document
  is in the map of scheduled ones, never two of them, and always room for one; work that is owed is scheduled or waits for its timer.
* `OperationsMakeHistory`, from `OpsInvariant`: a committed operation is younger than its base, and no revision is made by two.
* `DeliveriesAreTold`, from `DeliveryInvariant`: a mark of delivery in the database means that every participant whose session goes
  on knows the revision, but for one socket per operation: that of the author, if he was answered with an error that hid
  the commit of the mark (`DeliveryHidden`). It needs what a command, a join or critical work carry over their awaits (`CarriesOf`): the revision
  they are about to announce is the current one, because nobody else serves the document; all who are in the room are
  among the recipients, or have lost their session, or are the author, who is answered or remembered as `untold`; and a document that was not found is gone
  (`GoneInv`: nobody hears of a deletion before it is committed).
* `RemovedStayFenced` and `NothingReachesTheRemoved`, from `RemovalInvariant`, hold in every behaviour in which no grant
  is overtaken (`[]~GrantOvertaken`: at no moment is a grant unpublished whose member has been removed again *and* the gateway been
  told). Without that hypothesis they are false, as the observations describe; with it, for every budget and any number
  of removals and grants, `FenceInv` holds: a member who has been removed is, for each document there is, either outside (not in its
  room, no join of his past the database) or fenced until that document has been evacuated. It needs that a removal has a number of
  its own, larger than those to come, and names every document that is left (`NumbersInv`), that a project without
  its owner has no documents (`ProjectInv`), and that recipients who were let in have a document to hear of, or
  its deletion is known or under way (`AllowedInv`). The hypothesis is about the order of two publications only.
* `LocksOutliveReplacements`: `LocksOutliveResync` holds in every behaviour in which neither critical work nor a replacement that
  has committed fails (`[][~Interrupted]_vars`); `stale_resync` shows what one such failure does. It is proved in two halves.
  `LocksOutliveAnnouncements` assumes nothing of failures, only that no replacement is announced of a document that has moved on
  (`[]~ResyncOvertaken`): then what a synchronisation compares the locks with is the content of the document, because what is read,
  committed or left to be announced is the content of the revision it names (`ReadInv`). `ResyncInTime` shows that without such failures
  no replacement is overtaken. A replacement makes a revision that nobody knows before it is announced, and nobody ever knows one that
  is still to come (`KnownInv`); so the commands that stand before the announcement in the line were made for an older revision and are
  refused (`Refused`), later ones stand behind it, and it is cleared away before the line goes on (`SmoothInv`). A failure breaks
  exactly this: the announcement goes behind the commands that have come since.

### Sessions

For all sessions, users, requests, sockets and transactions, any batch size and any width of the
sequence column (`SequenceAssumption`, `BatchAssumption`, `FailuresAssumption`): `TokensExchangedOnce`, `ReplaysEndTheSession`,
`LogoutsEndTheSession`, `WritesEndUnderSession`. All four follow from `SessionInvariant`: of a session
that goes on, no token issued is ahead of it; an exchanged token is behind it or, if it has no
sequence, is remembered; a legacy token is the current one or remembered (`TokensInv`); the history
is deleted only of sessions that are revoked (`SweepInv`), without which a replay could pass for the first use;
and a transaction holds a session that goes on (`WritesInv`).

`SurvivorsAreExplained` adds what the sweep does: the sessions that lapsed are stored ones, each once (`LapsedInv`), and a batch is
the first of them; so a session is revoked either by a step that disconnects its sockets, or by a call that has
still to notify, or by one that failed before it could.

### Admission

For all requests, clients and sessions and any limits (`LimitsAssumption`,
`ClientAssumption`, `SessionAssumption`): `SlotsCounted` and `SeatsAccounted`. The first needs the course of a request
(`Courses`): it has a slot from its reservation to the end of its first verification or of its transport, and a
socket with a place has an open transport. The second is inductive over it.

### Transfers

For all requests, actors, files and limits (`LimitsAssumption`):
`SlotsAreExact`, where the work is that a request gives back only the slot it took;
`ImportsApplyTheirPreview`, from `ApplyingInv`: an application that is past its checks rests on a
preview of its actor, which no step forgets; and `WindowsAreRespected`, from `WindowInv`: whatever is still in the window was not
pruned, so that the table counts all that a new grant shares its window with.

### Commands on diagrams

For all names, identifiers and things clients may send (`ShapeAssumption`: it has passed the JSON schema; `BoundsAssumption`: a multiplicity
is parsed to a lower and an upper bound; `LiteralAssumption`: what is written for two bounds has these bounds;
`RefusedAssumption`: a refusal is no document). Every document reached has the right shape and is valid
(`DocumentInv`, theorem `DocumentsStayValid`), and of every such document:

* `LockCheckIsComplete`: the elements a command asks the lock store for are all it changes. `CommandCovered` says for each of the sixteen commands
  what it leaves and which classifiers it changes at most. A deletion is the long case: `removeClassifiersAndReferences` follows
  references until nothing more falls, which `DeletedLeast` shows to be the least set closed under them.
* `DeletionsAreAccepted`: what a deletion leaves is valid, because a document that keeps no more than a valid one is valid (`KeptValid`),
  except for an association that survives its class (`LoosenedIs`), and this can only be the class the command names. The proof made
  the property stronger than it was: no deletion of a relationship, of an attribute or an operation is ever refused.
* `RenamesAreFollowed`: after a rename to a free name, every reference to the classifier has its new name and is otherwise
  what it was, and the document is valid (`RenamedValid`).
* `OwnFilesAreUnderstood`: a document that can be exported comes back from its file as a valid document with the same meaning, and
  without a diagnostic. It follows from `ExportsAreRead`, which says so of any document that has the right shape and is valid,
  however it was made. The argument: the elements of the file are of eight families, one for each thing the exporter
  writes, and no two elements share an identifier, because a hash remembers the kind of a thing and `UniqueIds` tells things of one
  kind apart. So what the importer looks for (the features of a class, the ends of an association, the classifier or declaration
  a type names) is exactly what was written there, and every check of the import passes. The imported document is the old
  one with each part renamed to its hash (`Reread`), the classifiers of associations among them; a
  renaming that keeps parts distinct leaves a document valid and its projection as it was. The acyclicity of hierarchies
  carries over because a cycle of the renamed one would be a cycle of the old one.
  Two hypotheses are part of the property. `Spelled`: the multiplicities are written in the importer's way or as `*`, and no two
  relationships differ in that alone; the observations below say what happens otherwise. `Apart`: no hash is the identifier of the project or of
  the diagram, which the validation would refuse as a duplicate, nor `None`; the code leaves that to the hash too. `AbsenceAssumption` of
  `Diagram` says that an attribute that is not written is told from one that is true or false.

### Only model-checked

* Liveness: `EveryCallSettles`, `TimelyLocksExpire`, `RoomConverges`, `FencesClear`, `JoinsAnswered`, `SlotsReturned`, and the fairness
  half of the refinement of `DocumentLine`. The provers used have no rules for it.
* `LocksOutliveResync` when critical work or a replacement fails: finding 2 is its counterexample in `stale_resync`. The budgets
  of `work` combine locks with commands and replacements, and failures with replacements, but not all three.
* `FeaturesRepresented`, `ContractMet`. The transformer folds over sequences of the document's parts, and what
  a fold computes for every input needs induction over them.
* `ExchangeFaithful`, which is about the files of other tools: `XmiDialects` gives samples of the forms they write, and a theorem over
  these samples would say little that the run does not. That `Imported` reads the program's own form of any document is proved.


## Findings

1. `leave_and_rejoin`: the checks of `joinDocument` cannot tell a join from a later one of the same
   document. Leave and join again while the first join is on its way, and the first one is acknowledged
   with `ok` although the leave took the socket out of the room; if the second then fails, the client
   believes that it has joined. The e2e test only covers leaving without coming back.
2. `stale_resync`: a retried announcement of a replacement reconciles the locks with the elements
   the document had when it was replaced, and so takes away the lock of an element added since.
3. `contract`: an association of a class with itself whose ends have no roles (or the same), with an
   association class, gives the table of that class two foreign keys with one identifier. The transformer's own
   assertion refuses the model, and a valid diagram cannot be exported.

Known gaps of the transformer, which `ContractMet` and `FeaturesRepresented` leave aside by name
(`KnownGap`, `ExplicitIds`):

* an attribute that is the explicit key of its class is stored a second time, as a column with a
  hashed name (`relational-model.transformer.ts:570` and `:816`);
* references to, collections of and association classes over a class whose key a generalization changes
  later keep the type the key had before, and the contract refuses the model;
* finding 3;
* an association class with a key of its own cannot be the parent of a generalization;
* the tables of the schema share their names with the keys, and tables are made apart from tables only: a class `PkOwner` beside a class
  `Owner` gives the table `pk_owner` the name of a primary key (`relational-model.validator.ts:103`);
* the foreign key of a child to its parent is named like that of a reference (`relational-model.transformer.ts:1181` and `:1610`): a parent `OwnerId` of a class
  with an attribute or an end `owner` repeats `fk_child_owner_id`;
* the name of a table and that of a reference are run together in the name of a unique key: a class `OwnerId` with a `person` of its own and a class `Owner` with an
  `idPerson` give one name twice.

The last three are between classes. The table of a collection, of a join or of an association class has a name that is made of several, and can
meet a key in the same three ways; no names of the instance do so, and `ContractMet` says nothing of them.

Observations that are not runs:

* The timer of a lease that fires early gives up (`collaboration-lock.store.ts:217`) and no other is set: the lapsed lock
  stays in the list the room was told until somebody calls the store for that document. It
  blocks nobody; `TimelyLocksExpire` is about timers that are on time or late.
* A `PUT` whose commit is hidden by an error is never announced (`documents.service.ts:246` publishes
  after the transaction; the recovery only looks for operations): with one `put` and one `lost` in its
  budget, `RoomConverges` fails. The same holds of a mark of delivery whose commit is hidden: the author of the operation
  may stay untold for ever (`DeliveredMeansTold` excepts him), with one `command` and one `lost`.
* Grants and removals are published in no particular order: with two removals and a grant that is
  published after the later one, `NoEmissionToRemoved` fails, and only then (`NothingReachesTheRemoved`);
  whether the answers of PostgreSQL can be overtaken so far is open.
* A class cannot be deleted while the association it belongs to as an association class would then repeat another
  one (`Twin`); every other deletion is accepted (`DeletionsAreAccepted`).
  An association class may be an end of another association, and then the order of identifiers decides
  whether the transformer finds its table. A collection of an interface fails.
* Without `Spelled`, `OwnFilesUnderstood` fails. The signature of a relationship holds its multiplicities as text
  (`canonical-model.validation.ts:305`), so that two associations may differ in `*` and `0..*` alone, or in `1` and `1..1`. Their file has
  bounds, and the import has one way to write those (`xmi.adapter.ts:608`): it finds the same association twice, and the validation
  refuses a file that the program has exported. In an instance of `diagrams` whose relationships are two such associations
  `r1` and `r2` of `c1` and `c2`, TLC finds it after four commands.
* XMI: the multiplicity `1..1` comes back as `1`, which `semanticProjection` tells apart, though it takes `*` for `0..*`; `isReadOnly` of an end, and `isReadOnly`, `isStatic` and `visibility` of an attribute
  owned by an association, are accepted and dropped without a diagnostic; a repeated return parameter is
  compared with the first before its nested bounds and type are read, so that a repeated data type is
  refused and a nested difference is dropped; a relationship with an association class must have a
  name to be exported; a class with the name of an OMG primitive is taken for the primitive in the form Enterprise Architect writes.

## What is not modelled

* The gateway: expiry of access tokens, the interval of `presence:update`, quotas inside its handlers (`Admission` has the
  limiter) and the module shutdown. Errors that hide the commit of a removal, a grant, the
  deletion of a project, or a logout: the services publish after the commit, and such a change is
  never published, as with a `PUT`. Row locks inside the transactions of commands, replacements and removals: a
  transaction is one step in the gateway. Several processes: the code is documented as single-replica.
* Auth: passwords, signatures and the lifetime of access tokens; they decide whether a request comes to the actions at all.
* Documents: the JSON schema (a library), characters XML forbids, truncation and escaping of generated names, and the
  wording of diagnostics.
* XMI: XML itself, namespaces, size limits, stereotypes, default values, visibility and the
  vendor declarations of primitives.
* What the generator writes and the archive contains is text; controllers, configuration, health and the
  verification scripts are wiring.

## Plan

Done: the line, the locks, the gateway over both; sessions; admission; documents with their commands, relational
model and exchange; transfers; the proofs above. Open, in this order:

1. The transactions of commands, replacements and removals with their row locks, refining the atomic steps of the gateway,
   under the sessions of `AuthSessions`.
2. `presence:update` with its interval, and the shutdown of the gateway.
3. Larger diagrams in `DiagramEditing` for the passes of the transformer, if the gaps above are closed in the code.
