---------------------------- MODULE AuthSessions ----------------------------
(***************************************************************************)
(* AuthService, AuthSessionMaintenanceService and the session part of      *)
(* AccessTokenVerifierService: sessions in PostgreSQL, refresh tokens that *)
(* are rotated at each use, the revocation of a session whose token is     *)
(* replayed, the logout, the sweep of lapsed sessions, and what holds on   *)
(* to a session: sockets, which a revocation must close, and transactions  *)
(* that write, which a revocation must wait for or prevent.                *)
(*                                                                         *)
(* A refresh token is a function of its session and its sequence, so a     *)
(* token and its hash are one value.  A legacy token is opaque: a session  *)
(* created before the sequences has one, with sequence 0.  Each statement  *)
(* of PostgreSQL is one step; between two statements of a request anything *)
(* may happen.  A call presents any token that was ever stored: the client *)
(* may have lost the answer that carried the next one.                     *)
(***************************************************************************)
EXTENDS Integers, Sequences, FiniteSets, SequencesExt

CONSTANTS Session, User, Call, Socket, Writer,
          MaxSequence,  \* the largest "refreshSequence" its column holds
          BatchSize,    \* sessionCleanupBatchSize
          MaxFailures,  \* bound: statements that fail
          None

ASSUME SequenceAssumption == MaxSequence \in Nat
ASSUME BatchAssumption == BatchSize \in Nat \ {0}
ASSUME FailuresAssumption == MaxFailures \in Nat

VARIABLES
  accounts,  \* the table User
  rows,      \* the table AuthSession, by id
  consumed,  \* the table ConsumedRefreshToken
  lapsed,    \* stored sessions past "expiresAt", the earliest first
  call,      \* refresh and logout requests in flight
  writing,   \* transactions that hold the row lock of a session
  sock,      \* sockets, from their verification on
  cleaning,  \* the sweep: cleanupInFlight unless "idle"
  failures,  \* statements that have failed
  issued,    \* history: the tokens ever stored
  spent,     \* history: the tokens a refresh has exchanged
  unswept    \* history: sessions revoked by a call that failed before notifying

db == <<accounts, rows, consumed, lapsed, writing>>
vars == <<accounts, rows, consumed, lapsed, call, writing, sock, cleaning,
          failures, issued, spent, unswept>>

Token == [session : Session, format : {"legacy", "versioned"}, sequence : 0 .. MaxSequence]
Legacy(x) == [session |-> x, format |-> "legacy", sequence |-> 0]
Versioned(x, n) == [session |-> x, format |-> "versioned", sequence |-> n]
Row == [token : Token, sequence : 0 .. MaxSequence, revoked : BOOLEAN]
NoCall == [step |-> "idle", token |-> None]
NoSocket == [step |-> "off", session |-> None, registeredLive |-> FALSE]

Stored == DOMAIN rows
Unrevoked(x) == x \in Stored /\ ~rows[x].revoked
Lapsed(x) == Contains(lapsed, x)
\* findActiveSession, isSessionActive, lockActiveSession: their condition.
Active(x) == Unrevoked(x) /\ ~Lapsed(x)
\* Mutant: the session is read without FOR UPDATE.
NeverLocked(x) == FALSE
\* A row another transaction holds: an UPDATE or a DELETE of it waits.
Locked(x) == \E w \in Writer : writing[w] = x

\* Accounts and their sessions of a time before the sequences are there at first.
Init ==
  \E old \in SUBSET Session :
    /\ accounts \in {A \in SUBSET User : old # {} => A = User}
    /\ rows = [x \in old |-> [token |-> Legacy(x), sequence |-> 0, revoked |-> FALSE]]
    /\ consumed = {}
    /\ lapsed = <<>>
    /\ call = [c \in Call |-> NoCall]
    /\ writing = [w \in Writer |-> None]
    /\ sock = [k \in Socket |-> NoSocket]
    /\ cleaning = "idle"
    /\ failures = 0
    /\ issued = {Legacy(x) : x \in old}
    /\ spent = {}
    /\ unswept = {}

-----------------------------------------------------------------------------
(* Sessions begin.                                                         *)

\* The INSERT of a session, with an id never used before.
CreateSession(x) ==
  /\ ~\E t \in issued : t.session = x
  /\ rows' = [y \in Stored \cup {x} |->
                IF y = x THEN [token |-> Versioned(x, 0), sequence |-> 0, revoked |-> FALSE]
                         ELSE rows[y]]
  /\ issued' = issued \cup {Versioned(x, 0)}
  /\ UNCHANGED <<consumed, lapsed, call, writing, sock, cleaning, failures, spent, unswept>>

\* register: the account and its first session, or neither.
Register(u, x) ==
  /\ u \notin accounts
  /\ accounts' = accounts \cup {u}
  /\ CreateSession(x)

\* login, with the right password.
Login(u, x) ==
  /\ u \in accounts
  /\ UNCHANGED accounts
  /\ CreateSession(x)

-----------------------------------------------------------------------------
(* refresh and logout.                                                     *)

Step(c, step) == call' = [call EXCEPT ![c].step = step]
Answer(c) == call' = [call EXCEPT ![c] = NoCall]

\* A request arrives with a token whose format and signature are valid.
Present(c, t) ==
  /\ call[c] = NoCall
  /\ t \in issued
  /\ \E step \in {"rotating", "leaving"} : call' = [call EXCEPT ![c] = [step |-> step, token |-> t]]
  /\ UNCHANGED <<db, sock, cleaning, failures, issued, spent, unswept>>

NextSequence(t) == IF t.format = "versioned" THEN t.sequence + 1 ELSE 1
ExpectedSequence(t) == IF t.format = "versioned" THEN t.sequence ELSE 0

\* Mutant: the UPDATE is not guarded by the hash and the sequence.
RotatableLate(t) == Active(t.session)
\* The condition of the UPDATE of rotateRefreshToken.
Rotatable(t) ==
  LET x == t.session IN
  /\ Active(x)
  /\ rows[x].token = t
  /\ rows[x].sequence = ExpectedSequence(t)

\* rotateRefreshToken finds its row: one statement updates it and remembers a
\* legacy token.
Rotate(c) ==
  LET t == call[c].token
      x == t.session
      n == NextSequence(t) IN
  /\ call[c].step = "rotating"
  /\ Rotatable(t)
  /\ ~Locked(x)
  /\ n <= MaxSequence
  /\ rows' = [rows EXCEPT ![x].token = Versioned(x, n), ![x].sequence = n]
  /\ consumed' = consumed \cup {y \in {t} : y.format = "legacy"}
  /\ issued' = issued \cup {Versioned(x, n)}
  /\ spent' = spent \cup {t}
  /\ Step(c, "finding")
  /\ UNCHANGED <<accounts, lapsed, writing, sock, cleaning, failures, unswept>>

\* The column cannot hold the next sequence: the statement fails.
RotateOverflow(c) ==
  /\ call[c].step = "rotating"
  /\ Rotatable(call[c].token)
  /\ NextSequence(call[c].token) > MaxSequence
  /\ Answer(c)
  /\ UNCHANGED <<db, sock, cleaning, failures, issued, spent, unswept>>

\* rotateRefreshToken finds no row.
RotateNothing(c) ==
  /\ call[c].step = "rotating"
  /\ ~Rotatable(call[c].token)
  /\ Step(c, "revoking")
  /\ UNCHANGED <<db, sock, cleaning, failures, issued, spent, unswept>>

\* Mutant: legacy tokens leave no trace.
ReplayedVersioned(t) == t.format = "versioned" /\ rows[t.session].sequence > t.sequence
\* revokeReplayedSession: the token was exchanged before.
Replayed(t) ==
  \/ t.format = "versioned" /\ rows[t.session].sequence > t.sequence
  \/ t.format = "legacy" /\ t \in consumed
\* Mutant: only the current token logs out.
MayLogOutCurrent(t) == rows[t.session].token = t
\* logout: the token is the current one or was exchanged before.
MayLogOut(t) ==
  \/ t.format = "versioned" /\ rows[t.session].sequence >= t.sequence
  \/ t.format = "legacy" /\ (rows[t.session].token = t \/ t \in consumed)

\* The UPDATE that revokes a session, or finds nothing to revoke.
Revoke(c, condition) ==
  LET x == call[c].token.session IN
  /\ ~Locked(x)
  /\ IF Unrevoked(x) /\ condition
     THEN rows' = [rows EXCEPT ![x].revoked = TRUE] /\ Step(c, "sweeping")
     ELSE rows' = rows /\ Answer(c)
  /\ UNCHANGED <<accounts, consumed, lapsed, writing, sock, cleaning, failures,
                 issued, spent, unswept>>

RevokeReplayed(c) ==
  /\ call[c].step = "revoking"
  /\ Revoke(c, call[c].token.session \in Stored /\ Replayed(call[c].token))

RevokeOnLogout(c) ==
  /\ call[c].step = "leaving"
  /\ Revoke(c, call[c].token.session \in Stored /\ MayLogOut(call[c].token))

\* Mutant: the revocation is not announced.
NotifiedNobody(x) == sock
\* notifySessionRevoked: the gateway disconnects the registered sockets.
Notified(x) ==
  [k \in Socket |-> IF sock[k].step = "open" /\ sock[k].session = x THEN NoSocket ELSE sock[k]]

\* The history of the revoked session goes, and its sockets are told.
Sweep(c) ==
  LET x == call[c].token.session IN
  /\ call[c].step = "sweeping"
  /\ consumed' = {t \in consumed : t.session # x}
  /\ sock' = Notified(x)
  /\ Answer(c)
  /\ UNCHANGED <<accounts, rows, lapsed, writing, cleaning, failures, issued, spent, unswept>>

\* deleteMany fails: the request ends there.
SweepFails(c) ==
  /\ call[c].step = "sweeping"
  /\ failures < MaxFailures
  /\ failures' = failures + 1
  /\ unswept' = unswept \cup {call[c].token.session}
  /\ Answer(c)
  /\ UNCHANGED <<db, sock, cleaning, issued, spent>>

\* findUnique after the rotation: the answer carries the next token, unless the
\* session is gone.
Find(c) ==
  /\ call[c].step = "finding"
  /\ Answer(c)
  /\ UNCHANGED <<db, sock, cleaning, failures, issued, spent, unswept>>

-----------------------------------------------------------------------------
(* Sockets and transactions of a session.                                  *)

\* verify reads an active session for a handshake; the answer is on its way.
Verify(k, x) ==
  /\ sock[k] = NoSocket
  /\ Active(x)
  /\ sock' = [sock EXCEPT ![k] = [step |-> "answered", session |-> x, registeredLive |-> FALSE]]
  /\ UNCHANGED <<db, call, cleaning, failures, issued, spent, unswept>>

\* The answer arrives and the socket is registered.
Admit(k) ==
  /\ sock[k].step = "answered"
  /\ sock' = [sock EXCEPT ![k].step = "open", ![k].registeredLive = Unrevoked(sock[k].session)]
  /\ UNCHANGED <<db, call, cleaning, failures, issued, spent, unswept>>

\* A lost connection, a deadline, a lapsed access token, or a session found
\* inactive at an event or a broadcast.
Close(k) ==
  /\ sock[k] # NoSocket
  /\ sock' = [sock EXCEPT ![k] = NoSocket]
  /\ UNCHANGED <<db, call, cleaning, failures, issued, spent, unswept>>

\* lockActiveSession in the transaction of a request.
LockActiveSession(w, x) ==
  /\ writing[w] = None
  /\ Active(x)
  /\ ~Locked(x)
  /\ writing' = [writing EXCEPT ![w] = x]
  /\ UNCHANGED <<accounts, rows, consumed, lapsed, call, sock, cleaning, failures,
                 issued, spent, unswept>>

\* The transaction commits or rolls back.
EndWrite(w) ==
  /\ writing[w] # None
  /\ writing' = [writing EXCEPT ![w] = None]
  /\ UNCHANGED <<accounts, rows, consumed, lapsed, call, sock, cleaning, failures,
                 issued, spent, unswept>>

-----------------------------------------------------------------------------
(* Time, and the sweep of lapsed sessions.                                 *)

Lapse(x) ==
  /\ x \in Stored
  /\ ~Lapsed(x)
  /\ lapsed' = Append(lapsed, x)
  /\ UNCHANGED <<accounts, rows, consumed, call, writing, sock, cleaning, failures,
                 issued, spent, unswept>>

\* The timer of the maintenance, or the start of the module.
StartCleanup ==
  /\ cleaning = "idle"
  /\ cleaning' = "running"
  /\ UNCHANGED <<db, call, sock, failures, issued, spent, unswept>>

BatchLength == Min({BatchSize, Len(lapsed)})
Batch == ToSet(SubSeq(lapsed, 1, BatchLength))

\* One DELETE of a batch, the history of its sessions with it; a full batch
\* calls for another.
CleanupBatch ==
  /\ cleaning = "running"
  /\ ~\E x \in Batch : Locked(x)
  /\ rows' = [x \in Stored \ Batch |-> rows[x]]
  /\ consumed' = {t \in consumed : t.session \notin Batch}
  /\ lapsed' = SubSeq(lapsed, BatchLength + 1, Len(lapsed))
  /\ cleaning' = IF BatchLength = BatchSize THEN "running" ELSE "idle"
  /\ UNCHANGED <<accounts, call, writing, sock, failures, issued, spent, unswept>>

\* A DELETE fails; the sweep of the next tick goes on.
CleanupFails ==
  /\ cleaning = "running"
  /\ failures < MaxFailures
  /\ failures' = failures + 1
  /\ cleaning' = "idle"
  /\ UNCHANGED <<db, call, sock, issued, spent, unswept>>

-----------------------------------------------------------------------------
Request(c) ==
  \/ \E t \in issued : Present(c, t)
  \/ Rotate(c) \/ RotateOverflow(c) \/ RotateNothing(c)
  \/ RevokeReplayed(c) \/ RevokeOnLogout(c)
  \/ Sweep(c) \/ SweepFails(c) \/ Find(c)

Maintenance == StartCleanup \/ CleanupBatch \/ CleanupFails

Next ==
  \/ \E u \in User, x \in Session : Register(u, x) \/ Login(u, x)
  \/ \E c \in Call : Request(c)
  \/ \E k \in Socket : (\E x \in Session : Verify(k, x)) \/ Admit(k) \/ Close(k)
  \/ \E w \in Writer : (\E x \in Session : LockActiveSession(w, x)) \/ EndWrite(w)
  \/ \E x \in Session : Lapse(x)
  \/ Maintenance

Spec == Init /\ [][Next]_vars

-----------------------------------------------------------------------------
(* Properties.                                                             *)

\* The types of the state; an exchanged token was stored before.
TypeOK ==
  /\ accounts \subseteq User
  /\ Stored \subseteq Session
  /\ \A x \in Stored : rows[x] \in Row /\ rows[x].token.session = x
  /\ consumed \subseteq issued
  /\ issued \subseteq Token
  /\ spent \subseteq issued
  /\ ToSet(lapsed) \subseteq Stored
  /\ call \in [Call -> {NoCall} \cup
       [step : {"rotating", "revoking", "finding", "leaving", "sweeping"}, token : issued]]
  /\ writing \in [Writer -> Session \cup {None}]
  /\ sock \in [Socket -> {NoSocket} \cup
       [step : {"answered", "open"}, session : Session, registeredLive : BOOLEAN]]
  /\ cleaning \in {"idle", "running"}
  /\ failures \in 0 .. MaxFailures
  /\ unswept \subseteq Session

\* A refresh token, legacy or not, is exchanged once at most, whatever requests
\* present it at the same time.
ExchangedOnce ==
  [][\A c \in Call : call[c].step = "rotating" /\ call'[c].step = "finding" =>
       call[c].token \notin spent]_vars

\* A refresh that presents an exchanged token is not answered before its session
\* is revoked (or gone), also when the exchange came between its own statements.
ReplayEndsSession ==
  [][\A c \in Call, x \in Session :
       (call[c].step = "revoking" /\ call[c].token \in spent /\ call[c].token.session = x) =>
         call'[c] = call[c] \/ ~Unrevoked(x)']_vars

\* A logout with any token the session ever had, the current one or one that a
\* concurrent refresh has exchanged, leaves no session to go on with.
LogoutEndsSession ==
  [][\A c \in Call, x \in Session :
       (call[c].step = "leaving" /\ call[c].token.session = x) =>
         call'[c] = call[c] \/ ~Unrevoked(x)']_vars

\* A transaction that locked its session ends with the session as it was: no
\* write is committed under a session revoked or deleted meanwhile.
WritesUnderSession ==
  [][\A w \in Writer : writing[w] # None /\ writing'[w] = None => Unrevoked(writing[w])]_vars

\* All is well typed, and a socket that outlives the revocation of its session
\* was registered after it, by a verification that had read the session before;
\* or the revoking call is about to notify, or failed before it could.
SurvivorsExplained ==
  /\ TypeOK
  /\ \A k \in Socket :
       LET x == sock[k].session IN
       (sock[k].step = "open" /\ sock[k].registeredLive /\ x \in Stored /\ ~Unrevoked(x)) =>
         \/ x \in unswept
         \/ \E c \in Call : call[c].step = "sweeping" /\ call[c].token.session = x

=============================================================================
