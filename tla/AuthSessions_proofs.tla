------------------------ MODULE AuthSessions_proofs ------------------------
(***************************************************************************)
(* Proofs about AuthSessions, for any sessions, requests, sockets and      *)
(* transactions, any batch size and any width of the sequence column.      *)
(***************************************************************************)
EXTENDS AuthSessions, SequenceTheorems, TLAPS

(***************************************************************************)
(* The inductive invariant                                                 *)
(***************************************************************************)

Presenting ==
  [step : {"rotating", "revoking", "finding", "leaving", "sweeping"}, token : issued]

TypeInv ==
  /\ rows \in [Stored -> Row]
  /\ Stored \subseteq Session
  /\ issued \subseteq Token
  /\ spent \subseteq issued
  /\ call \in [Call -> {NoCall} \cup Presenting]
  /\ writing \in [Writer -> Session \cup {None}]

\* The token of a session was issued to it, and carries its sequence.
RowsInv ==
  \A x \in Stored :
    /\ rows[x].token \in issued
    /\ rows[x].token.session = x
    /\ rows[x].token.format = "versioned" => rows[x].token.sequence = rows[x].sequence

\* Of a session that goes on: its tokens are not ahead of it, and what has
\* been exchanged is behind it or, without a sequence, is remembered.
TokenInv(t) ==
  Unrevoked(t.session) =>
    LET r == rows[t.session] IN
    /\ t.sequence <= r.sequence
    /\ t.format = "legacy" => (r.token = t \/ t \in consumed)
    /\ t \in spent =>
         IF t.format = "versioned" THEN t.sequence < r.sequence
         ELSE t \in consumed /\ r.token # t

TokensInv == \A t \in issued : TokenInv(t)

\* A transaction holds a session that goes on.
WritesInv == \A w \in Writer : writing[w] # None => Unrevoked(writing[w])

\* A session whose history is about to be deleted has been revoked.
SweepInv == \A c \in Call : call[c].step = "sweeping" => ~Unrevoked(call[c].token.session)

IInv == TypeInv /\ RowsInv /\ TokensInv /\ WritesInv /\ SweepInv

(***************************************************************************)
(* Lemmas                                                                  *)
(***************************************************************************)

\* A request in flight has a token that was issued.
LEMMA InFlight ==
  ASSUME TypeInv, NEW c \in Call, call[c].step # "idle"
  PROVE  call[c] \in Presenting
BY DEF TypeInv, NoCall

\* A token in flight is of a session and has a sequence.
LEMMA TokenOf ==
  ASSUME TypeInv, NEW c \in Call, call[c].step # "idle"
  PROVE  /\ call[c].token \in issued
         /\ call[c].token \in Token
BY InFlight DEF Presenting, TypeInv

\* The fields of a token and of a row are of their types.
LEMMA Fields ==
  /\ \A t \in Token : /\ t.session \in Session /\ t.format \in {"legacy", "versioned"}
                      /\ t.sequence \in Nat
  /\ \A r \in Row : r.token \in Token /\ r.sequence \in Nat /\ r.revoked \in BOOLEAN
BY SequenceAssumption DEF Token, Row

\* A step of a request, or its answer, in terms of the record of the request.
LEMMA StepTyped ==
  ASSUME TypeInv, NEW c \in Call, call[c].step # "idle", issued \subseteq issued',
         NEW s \in {"rotating", "revoking", "finding", "leaving", "sweeping"},
         Step(c, s)
  PROVE  /\ call' \in [Call -> {NoCall} \cup Presenting']
         /\ call'[c].step = s /\ call'[c].token = call[c].token
         /\ \A d \in Call \ {c} : call'[d] = call[d]
<1>1. call[c] \in Presenting
  BY InFlight
<1>2. [call[c] EXCEPT !.step = s] = [step |-> s, token |-> call[c].token]
  BY <1>1 DEF Presenting
<1>3. call' = [call EXCEPT ![c] = [step |-> s, token |-> call[c].token]]
  BY <1>2 DEF Step, TypeInv
<1>4. [step |-> s, token |-> call[c].token] \in Presenting'
  BY <1>1 DEF Presenting
<1>5. Presenting \subseteq Presenting'
  BY DEF Presenting
<1>. QED BY <1>3, <1>4, <1>5 DEF TypeInv

\* The same of an answer.
LEMMA AnswerTyped ==
  ASSUME TypeInv, NEW c \in Call, issued \subseteq issued', Answer(c)
  PROVE  /\ call' \in [Call -> {NoCall} \cup Presenting']
         /\ call'[c].step = "idle"
         /\ \A d \in Call \ {c} : call'[d] = call[d]
<1>1. Presenting \subseteq Presenting'
  BY DEF Presenting
<1>. QED BY <1>1 DEF Answer, NoCall, TypeInv

\* Steps that leave sessions, tokens and transactions alone.
LEMMA Aside ==
  ASSUME IInv, UNCHANGED <<rows, consumed, writing, issued, spent>>,
         call' \in [Call -> {NoCall} \cup Presenting],
         \A c \in Call : call'[c].step = "sweeping" => call'[c] = call[c]
  PROVE  IInv'
<1>1. TypeInv'
  BY DEF IInv, TypeInv, Stored, Presenting
<1>2. RowsInv' /\ TokensInv' /\ WritesInv'
  BY DEF IInv, RowsInv, TokensInv, TokenInv, WritesInv, Unrevoked, Stored
<1>3. SweepInv'
  BY DEF IInv, SweepInv, Unrevoked, Stored
<1>. QED BY <1>1, <1>2, <1>3 DEF IInv

\* Such steps that also leave the requests alone.
LEMMA Elsewhere ==
  ASSUME IInv, UNCHANGED <<rows, consumed, writing, issued, spent, call>>
  PROVE  IInv'
BY Aside DEF IInv, TypeInv

\* The session of a token that was presented is not begun again.
LEMMA CreatedSound ==
  ASSUME IInv, NEW x \in Session, CreateSession(x)
  PROVE  IInv'
<1>. DEFINE new == Versioned(x, 0)
<1>. USE DEF IInv
<1>1. /\ new \in Token /\ new.session = x /\ new.format = "versioned" /\ new.sequence = 0
      /\ new \notin issued
  BY SequenceAssumption DEF Versioned, Token, CreateSession
<1>2. x \notin Stored
  BY DEF CreateSession, RowsInv
<1>3. /\ Stored' = Stored \cup {x}
      /\ \A y \in Stored : rows'[y] = rows[y]
      /\ rows'[x].token = new /\ rows'[x].sequence = 0 /\ ~rows'[x].revoked
      /\ rows' \in [Stored' -> Row]
  <2>1. [token |-> new, sequence |-> 0, revoked |-> FALSE] \in Row
    BY <1>1, SequenceAssumption DEF Row
  <2>. QED BY <1>2, <2>1 DEF CreateSession, Stored, TypeInv
<1>4. issued' = issued \cup {new} /\ UNCHANGED <<consumed, spent, call, writing>>
  BY DEF CreateSession
<1>5. \A y : y # x => Unrevoked(y)' = Unrevoked(y)
  BY <1>3 DEF Unrevoked
<1>. HIDE DEF new
<1>6. TypeInv'
  <2>1. Presenting \subseteq Presenting'
    BY <1>4 DEF Presenting
  <2>. QED BY <1>1, <1>3, <1>4, <2>1 DEF TypeInv
<1>7. RowsInv'
  BY <1>1, <1>3, <1>4 DEF RowsInv
<1>8. TokensInv'
  <2>1. ASSUME NEW t \in issued
        PROVE  TokenInv(t)'
    <3>1. t.session # x
      BY DEF CreateSession
    <3>. QED BY <1>3, <1>4, <1>5, <3>1 DEF TokensInv, TokenInv, Unrevoked
  <2>2. TokenInv(new)'
    BY <1>1, <1>3, <1>4 DEF TokenInv, TypeInv
  <2>. QED BY <1>4, <2>1, <2>2 DEF TokensInv
<1>9. WritesInv'
  BY <1>2, <1>4, <1>5 DEF WritesInv, Unrevoked
<1>10. SweepInv'
  <2>1. \A c \in Call : call[c].step = "sweeping" => call[c].token.session # x
    BY TokenOf DEF CreateSession
  <2>. QED BY <1>4, <1>5, <2>1 DEF SweepInv
<1>. QED BY <1>6, <1>7, <1>8, <1>9, <1>10

\* An exchange moves the session ahead of every token it had.
LEMMA RotatedSound ==
  ASSUME IInv, NEW c \in Call, Rotate(c),
         NEW t, t = call[c].token, NEW x, x = t.session,
         NEW n, n = NextSequence(t), NEW new, new = Versioned(x, n)
  PROVE  IInv'
<1>. USE DEF IInv
<1>1. /\ t \in issued /\ t \in Token /\ call[c].step = "rotating"
  BY TokenOf DEF Rotate
<1>2. /\ x \in Stored /\ Unrevoked(x) /\ rows[x].token = t
      /\ rows[x].sequence = ExpectedSequence(t) /\ n <= MaxSequence
  BY DEF Rotate, Rotatable, Active, Unrevoked
<1>3. /\ n \in 0 .. MaxSequence /\ n > rows[x].sequence /\ x \in Session
      /\ n = rows[x].sequence + 1
  BY <1>1, <1>2, Fields, SequenceAssumption DEF NextSequence, ExpectedSequence
<1>4. /\ new \in Token /\ new.session = x /\ new.format = "versioned" /\ new.sequence = n
  BY <1>3 DEF Versioned, Token
<1>5. new \notin issued
  <2>1. ASSUME new \in issued
        PROVE  FALSE
    BY <1>2, <1>3, <1>4, <2>1, Fields DEF TokensInv, TokenInv, TypeInv
  <2>. QED BY <2>1
<1>6. /\ Stored' = Stored
      /\ \A y \in Stored \ {x} : rows'[y] = rows[y]
      /\ rows'[x].token = new /\ rows'[x].sequence = n /\ rows'[x].revoked = rows[x].revoked
      /\ rows' \in [Stored' -> Row]
  <2>1. rows[x] \in Row
    BY <1>2 DEF TypeInv
  <2>2. rows' = [rows EXCEPT ![x].token = new, ![x].sequence = n]
    BY DEF Rotate
  <2>. DEFINE r == [rows[x] EXCEPT !.token = new, !.sequence = n]
  <2>3. r \in Row /\ r.token = new /\ r.sequence = n /\ r.revoked = rows[x].revoked
    BY <1>3, <1>4, <2>1 DEF Row
  <2>4. rows' = [rows EXCEPT ![x] = r]
    BY <1>2, <2>2 DEF TypeInv
  <2>. HIDE DEF r
  <2>. QED BY <1>2, <2>3, <2>4 DEF Stored, TypeInv
<1>7. /\ issued' = issued \cup {new} /\ spent' = spent \cup {t} /\ UNCHANGED writing
      /\ consumed' = consumed \cup {y \in {t} : y.format = "legacy"} /\ Step(c, "finding")
  BY DEF Rotate
<1>8. \A y : Unrevoked(y)' = Unrevoked(y)
  BY <1>6 DEF Unrevoked
<1>9. /\ call' \in [Call -> {NoCall} \cup Presenting'] /\ call'[c].step = "finding"
      /\ \A d \in Call \ {c} : call'[d] = call[d]
  BY <1>1, <1>7, StepTyped
<1>10. TypeInv'
  BY <1>1, <1>4, <1>6, <1>7, <1>9 DEF TypeInv
<1>11. RowsInv'
  BY <1>4, <1>6, <1>7 DEF RowsInv
<1>12. TokensInv'
  <2>1. ASSUME NEW u \in issued, u.session # x
        PROVE  TokenInv(u)'
    <3>1. u # t
      BY <2>1
    <3>. QED BY <1>6, <1>7, <1>8, <2>1, <3>1 DEF TokensInv, TokenInv, Unrevoked
  <2>2. ASSUME NEW u \in issued, u.session = x
        PROVE  TokenInv(u)'
    <3>1. u \in Token /\ rows[x].sequence \in Nat /\ n \in Nat
      BY <1>2, <1>3, Fields DEF TypeInv
    <3>2. TokenInv(u)
      BY DEF TokensInv
    <3>3. u.sequence <= rows[x].sequence /\ (u.format = "legacy" => u = t \/ u \in consumed)
      BY <1>2, <2>2, <3>2 DEF TokenInv
    <3>4. u.sequence < n /\ u # new
      BY <1>3, <1>5, <3>1, <3>3, Fields
    <3>5. u.format = "legacy" => u \in consumed'
      BY <1>7, <3>3
    <3>. QED BY <1>6, <2>2, <3>1, <3>4, <3>5, Fields DEF TokenInv
  <2>3. TokenInv(new)'
    <3>1. new \notin spent'
      BY <1>1, <1>5, <1>7 DEF TypeInv
    <3>2. n <= n
      BY <1>3
    <3>. QED BY <1>4, <1>6, <3>1, <3>2 DEF TokenInv
  <2>. QED BY <1>7, <2>1, <2>2, <2>3 DEF TokensInv
<1>13. WritesInv'
  BY <1>7, <1>8 DEF WritesInv
<1>14. SweepInv'
  BY <1>8, <1>9 DEF SweepInv
<1>. QED BY <1>10, <1>11, <1>12, <1>13, <1>14

\* A session that no transaction holds is revoked, or nothing happens to it.
LEMMA RevokedSound ==
  ASSUME IInv, NEW c \in Call, call[c].step # "idle", NEW condition \in BOOLEAN,
         Revoke(c, condition), NEW x, x = call[c].token.session
  PROVE  IInv'
<1>. USE DEF IInv
<1>1. CASE Unrevoked(x) /\ condition
  <2>1. rows' = [rows EXCEPT ![x].revoked = TRUE] /\ Step(c, "sweeping") /\ ~Locked(x)
        /\ UNCHANGED <<consumed, writing, issued, spent>>
    BY <1>1 DEF Revoke
  <2>2. x \in Stored /\ rows[x] \in Row
    BY <1>1 DEF Unrevoked, TypeInv
  <2>. DEFINE r == [rows[x] EXCEPT !.revoked = TRUE]
  <2>3. r \in Row /\ r.token = rows[x].token /\ r.sequence = rows[x].sequence /\ r.revoked
    BY <2>2 DEF Row
  <2>4. rows' = [rows EXCEPT ![x] = r]
    BY <2>1, <2>2 DEF TypeInv
  <2>. HIDE DEF r
  <2>6. /\ Stored' = Stored /\ rows' \in [Stored' -> Row]
        /\ \A y \in Stored \ {x} : rows'[y] = rows[y]
        /\ rows'[x].token = rows[x].token /\ rows'[x].sequence = rows[x].sequence
        /\ rows'[x].revoked
    BY <2>2, <2>3, <2>4 DEF Stored, TypeInv
  <2>7. ~Unrevoked(x)' /\ \A y : y # x => Unrevoked(y)' = Unrevoked(y)
    BY <2>6 DEF Unrevoked
  <2>8. /\ call' \in [Call -> {NoCall} \cup Presenting'] /\ call'[c].token = call[c].token
        /\ \A d \in Call \ {c} : call'[d] = call[d]
    BY <2>1, StepTyped
  <2>9. TypeInv'
    BY <2>1, <2>6, <2>8 DEF TypeInv
  <2>10. RowsInv'
    BY <2>1, <2>6 DEF RowsInv
  <2>11. TokensInv'
    BY <2>1, <2>6, <2>7 DEF TokensInv, TokenInv, Unrevoked
  <2>12. WritesInv'
    BY <2>1, <2>7 DEF WritesInv, Locked
  <2>13. SweepInv'
    BY <2>7, <2>8 DEF SweepInv
  <2>. QED BY <2>9, <2>10, <2>11, <2>12, <2>13
<1>2. CASE ~(Unrevoked(x) /\ condition)
  <2>1. rows' = rows /\ Answer(c) /\ UNCHANGED <<consumed, writing, issued, spent>>
    BY <1>2 DEF Revoke
  <2>2. /\ call' \in [Call -> {NoCall} \cup Presenting]
        /\ \A d \in Call : call'[d].step = "sweeping" => call'[d] = call[d]
    BY <2>1, AnswerTyped DEF Presenting
  <2>. QED BY <2>1, <2>2, Aside
<1>. QED BY <1>1, <1>2

\* The history that goes is of a session that does not go on.
LEMMA SweptSound ==
  ASSUME IInv, NEW c \in Call, Sweep(c), NEW x, x = call[c].token.session
  PROVE  IInv'
<1>. USE DEF IInv
<1>1. ~Unrevoked(x)
  BY DEF Sweep, SweepInv
<1>2. /\ consumed' = {t \in consumed : t.session # x} /\ Answer(c)
      /\ UNCHANGED <<rows, writing, issued, spent>>
  BY DEF Sweep
<1>3. /\ call' \in [Call -> {NoCall} \cup Presenting']
      /\ \A d \in Call : call'[d].step = "sweeping" => call'[d] = call[d]
  BY <1>2, AnswerTyped
<1>4. Stored' = Stored /\ \A y : Unrevoked(y)' = Unrevoked(y)
  BY <1>2 DEF Unrevoked, Stored
<1>5. TypeInv'
  BY <1>2, <1>3, <1>4 DEF TypeInv
<1>6. RowsInv' /\ WritesInv'
  BY <1>2, <1>4 DEF RowsInv, WritesInv
<1>7. TokensInv'
  BY <1>1, <1>2, <1>4 DEF TokensInv, TokenInv
<1>8. SweepInv'
  BY <1>3, <1>4 DEF SweepInv
<1>. QED BY <1>5, <1>6, <1>7, <1>8

\* A batch takes sessions and their history away together, and none that a
\* transaction holds.
LEMMA CleanedSound ==
  ASSUME IInv, CleanupBatch
  PROVE  IInv'
<1>. USE DEF IInv
<1>1. /\ Stored' = Stored \ Batch /\ \A y \in Stored' : rows'[y] = rows[y]
      /\ rows' \in [Stored' -> Row]
  BY DEF CleanupBatch, Stored, TypeInv
<1>2. /\ consumed' = {t \in consumed : t.session \notin Batch}
      /\ UNCHANGED <<writing, issued, spent, call>>
      /\ \A y \in Batch : ~Locked(y)
  BY DEF CleanupBatch
<1>3. \A y : Unrevoked(y)' <=> (Unrevoked(y) /\ y \notin Batch)
  BY <1>1 DEF Unrevoked
<1>4. TypeInv'
  BY <1>1, <1>2 DEF TypeInv, Presenting
<1>5. RowsInv'
  BY <1>1, <1>2 DEF RowsInv
<1>6. TokensInv'
  BY <1>1, <1>2, <1>3 DEF TokensInv, TokenInv, Unrevoked
<1>7. WritesInv'
  BY <1>2, <1>3 DEF WritesInv, Locked
<1>8. SweepInv'
  BY <1>2, <1>3 DEF SweepInv
<1>. QED BY <1>4, <1>5, <1>6, <1>7, <1>8

\* Transactions begin with a session that goes on, and end.
LEMMA WriterSound ==
  ASSUME IInv, NEW w \in Writer,
         (\E x \in Session : LockActiveSession(w, x)) \/ EndWrite(w)
  PROVE  IInv'
<1>. USE DEF IInv
<1>1. UNCHANGED <<rows, consumed, issued, spent, call>>
  BY DEF LockActiveSession, EndWrite
<1>2. \E x \in Session \cup {None} :
        writing' = [writing EXCEPT ![w] = x] /\ (x # None => Unrevoked(x))
  BY DEF LockActiveSession, EndWrite, Active
<1>3. \A y : Unrevoked(y)' = Unrevoked(y)
  BY <1>1 DEF Unrevoked, Stored
<1>4. TypeInv'
  BY <1>1, <1>2 DEF TypeInv, Stored, Presenting
<1>5. RowsInv' /\ TokensInv' /\ SweepInv'
  BY <1>1, <1>3 DEF RowsInv, TokensInv, TokenInv, SweepInv, Stored
<1>6. WritesInv'
  BY <1>2, <1>3 DEF WritesInv, TypeInv
<1>. QED BY <1>4, <1>5, <1>6

\* Every request keeps the invariant.
LEMMA RequestSound ==
  ASSUME IInv, NEW c \in Call, Request(c)
  PROVE  IInv'
<1>1. ASSUME NEW t \in issued, Present(c, t)
      PROVE  IInv'
  <2>1. call' \in [Call -> {NoCall} \cup Presenting]
    BY <1>1 DEF Present, IInv, TypeInv, Presenting
  <2>2. \A d \in Call : call'[d].step = "sweeping" => call'[d] = call[d]
    BY <1>1 DEF Present, IInv, TypeInv
  <2>. QED BY <1>1, <2>1, <2>2, Aside DEF Present, db
<1>2. CASE Rotate(c)
  BY <1>2, RotatedSound
<1>3. ASSUME Answer(c), UNCHANGED <<rows, consumed, writing, issued, spent>>
      PROVE  IInv'
  <2>1. /\ call' \in [Call -> {NoCall} \cup Presenting]
        /\ \A d \in Call : call'[d].step = "sweeping" => call'[d] = call[d]
    BY <1>3, AnswerTyped DEF Presenting, IInv
  <2>. QED BY <1>3, <2>1, Aside
<1>4. CASE RotateOverflow(c) \/ SweepFails(c) \/ Find(c)
  BY <1>3, <1>4 DEF RotateOverflow, SweepFails, Find, db
<1>5. CASE RotateNothing(c)
  <2>1. /\ call' \in [Call -> {NoCall} \cup Presenting]
        /\ \A d \in Call : call'[d].step = "sweeping" => call'[d] = call[d]
    BY <1>5, StepTyped DEF RotateNothing, Presenting, IInv
  <2>. QED BY <1>5, <2>1, Aside DEF RotateNothing, db
<1>6. CASE RevokeReplayed(c) \/ RevokeOnLogout(c)
  BY <1>6, RevokedSound DEF RevokeReplayed, RevokeOnLogout, Replayed, MayLogOut
<1>7. CASE Sweep(c)
  BY <1>7, SweptSound
<1>. QED BY <1>1, <1>2, <1>4, <1>5, <1>6, <1>7 DEF Request

(***************************************************************************)
(* Theorems                                                                *)
(***************************************************************************)

\* The invariant of sessions, their tokens and what holds on to them.
THEOREM SessionInvariant == Spec => []IInv
<1>1. ASSUME Init
      PROVE  IInv
  <2>1. PICK old \in SUBSET Session :
          /\ rows = [x \in old |-> [token |-> Legacy(x), sequence |-> 0, revoked |-> FALSE]]
          /\ issued = {Legacy(x) : x \in old}
          /\ spent = {} /\ consumed = {}
          /\ call = [c \in Call |-> NoCall]
          /\ writing = [w \in Writer |-> None]
    BY <1>1 DEF Init
  <2>2. \A x \in old : Legacy(x) \in Token /\ Legacy(x).session = x /\ Legacy(x).format = "legacy"
                       /\ Legacy(x).sequence = 0
    BY SequenceAssumption DEF Legacy, Token
  <2>3. Stored = old
    BY <2>1 DEF Stored
  <2>4. TypeInv
    BY <2>1, <2>2, <2>3, SequenceAssumption DEF TypeInv, Row
  <2>5. RowsInv
    BY <2>1, <2>2, <2>3 DEF RowsInv
  <2>6. TokensInv
    BY <2>1, <2>2, <2>3 DEF TokensInv, TokenInv
  <2>7. WritesInv /\ SweepInv
    BY <2>1 DEF WritesInv, SweepInv, NoCall
  <2>. QED BY <2>4, <2>5, <2>6, <2>7 DEF IInv
<1>2. ASSUME IInv, [Next]_vars
      PROVE  IInv'
  <2>1. ASSUME NEW u \in User, NEW x \in Session, Register(u, x) \/ Login(u, x)
        PROVE  IInv'
    BY <1>2, <2>1, CreatedSound DEF Register, Login
  <2>2. ASSUME NEW c \in Call, Request(c)
        PROVE  IInv'
    BY <1>2, <2>2, RequestSound
  <2>3. ASSUME NEW k \in Socket, (\E x \in Session : Verify(k, x)) \/ Admit(k) \/ Close(k)
        PROVE  IInv'
    BY <1>2, <2>3, Elsewhere DEF Verify, Admit, Close, db
  <2>4. ASSUME NEW w \in Writer, (\E x \in Session : LockActiveSession(w, x)) \/ EndWrite(w)
        PROVE  IInv'
    BY <1>2, <2>4, WriterSound
  <2>5. ASSUME NEW x \in Session, Lapse(x)
        PROVE  IInv'
    BY <1>2, <2>5, Elsewhere DEF Lapse
  <2>6. CASE Maintenance
    BY <1>2, <2>6, CleanedSound, Elsewhere DEF Maintenance, StartCleanup, CleanupFails, db
  <2>7. CASE UNCHANGED vars
    BY <1>2, <2>7, Elsewhere DEF vars
  <2>. QED BY <1>2, <2>1, <2>2, <2>3, <2>4, <2>5, <2>6, <2>7 DEF Next
<1>. QED BY <1>1, <1>2, PTL DEF Spec

\* A request changes by a step of its own.
LEMMA OwnSteps ==
  ASSUME IInv, [Next]_vars, NEW c \in Call, call'[c] # call[c]
  PROVE  Request(c)
<1>1. ASSUME NEW d \in Call, Request(d)
      PROVE  d = c
  <2>1. \E x : call' = [call EXCEPT ![d] = x]
    <3>1. ASSUME NEW s, Step(d, s)
          PROVE  \E x : call' = [call EXCEPT ![d] = x]
      <4>1. call' = [call EXCEPT ![d] = [call[d] EXCEPT !.step = s]]
        BY <3>1 DEF Step, IInv, TypeInv
      <4>. QED BY <4>1
    <3>2. CASE Rotate(d) \/ RotateNothing(d)
      BY <3>1, <3>2 DEF Rotate, RotateNothing
    <3>3. CASE RevokeReplayed(d) \/ RevokeOnLogout(d)
      BY <3>1, <3>3 DEF RevokeReplayed, RevokeOnLogout, Revoke, Answer
    <3>4. CASE RotateOverflow(d) \/ Sweep(d) \/ SweepFails(d) \/ Find(d)
      BY <3>4 DEF RotateOverflow, Sweep, SweepFails, Find, Answer
    <3>5. CASE \E t \in issued : Present(d, t)
      BY <3>5 DEF Present
    <3>. QED BY <1>1, <3>2, <3>3, <3>4, <3>5 DEF Request
  <2>. QED BY <2>1 DEF IInv, TypeInv
<1>2. call' # call
  OBVIOUS
<1>3. \E d \in Call : Request(d)
  BY <1>2 DEF Next, vars, Register, Login, CreateSession, Verify, Admit, Close, LockActiveSession,
              EndWrite, Lapse, Maintenance, StartCleanup, CleanupBatch, CleanupFails
<1>. QED BY <1>1, <1>3

\* A token is exchanged once at most: what has been exchanged is behind its
\* session and is not found by another UPDATE, whichever requests present it.
THEOREM TokensExchangedOnce == Spec => ExchangedOnce
<1>. DEFINE Kept ==
       \A c \in Call : call[c].step = "rotating" /\ call'[c].step = "finding" =>
         call[c].token \notin spent
<1>1. ASSUME IInv, [Next]_vars, NEW c \in Call,
             call[c].step = "rotating", call'[c].step = "finding"
      PROVE  call[c].token \notin spent
  <2>1. Rotate(c)
    <3>1. Request(c)
      BY <1>1, OwnSteps
    <3>2. ~RotateNothing(c)
      BY <1>1, StepTyped DEF RotateNothing, db, IInv
    <3>3. ~RotateOverflow(c)
      BY <1>1, AnswerTyped DEF RotateOverflow, db, IInv
    <3>. QED BY <1>1, <3>1, <3>2, <3>3 DEF Request, Present, RevokeReplayed, RevokeOnLogout,
                                           Sweep, SweepFails, Find, NoCall
  <2>2. call[c].token \in issued /\ call[c].token \in Token
    BY <1>1, TokenOf DEF IInv
  <2>3. /\ Unrevoked(call[c].token.session)
        /\ rows[call[c].token.session].token = call[c].token
        /\ rows[call[c].token.session].sequence = ExpectedSequence(call[c].token)
    BY <2>1 DEF Rotate, Rotatable, Active
  <2>4. TokenInv(call[c].token)
    BY <1>1, <2>2 DEF IInv, TokensInv
  <2>5. call[c].token.sequence \in Nat
    BY <2>2, Fields
  <2>. QED BY <2>3, <2>4, <2>5 DEF TokenInv, ExpectedSequence
<1>2. IInv /\ [Next]_vars => [Kept]_vars
  BY <1>1
<1>. QED BY <1>2, SessionInvariant, PTL DEF Spec, ExchangedOnce

\* What ends the wait of a request that revokes.
LEMMA RevocationsEnd ==
  ASSUME IInv, [Next]_vars, NEW c \in Call, call[c].step \in {"revoking", "leaving"},
         call'[c] # call[c]
  PROVE  RevokeReplayed(c) \/ RevokeOnLogout(c)
<1>1. Request(c)
  BY OwnSteps
<1>. QED BY <1>1 DEF Request, Present, Rotate, RotateOverflow, RotateNothing, Sweep, SweepFails,
                     Find, NoCall

\* A session whose condition holds is revoked when the statement is over.
LEMMA RevokeEnds ==
  ASSUME IInv, NEW c \in Call, NEW condition \in BOOLEAN, Revoke(c, condition),
         NEW x, x = call[c].token.session, Unrevoked(x) => condition
  PROVE  ~Unrevoked(x)'
<1>1. CASE Unrevoked(x)
  <2>1. rows' = [rows EXCEPT ![x].revoked = TRUE] /\ x \in Stored /\ rows[x] \in Row
    BY <1>1 DEF Revoke, Unrevoked, IInv, TypeInv
  <2>2. rows'[x].revoked
    BY <2>1 DEF Row, Stored
  <2>. QED BY <2>2 DEF Unrevoked
<1>2. CASE ~Unrevoked(x)
  <2>1. rows' = rows
    BY <1>2 DEF Revoke
  <2>. QED BY <1>2, <2>1 DEF Unrevoked, Stored
<1>. QED BY <1>1, <1>2

\* A refresh that presents an exchanged token is answered only when its session
\* is revoked or gone, also where another refresh exchanged the token between
\* its own two statements.
THEOREM ReplaysEndTheSession == Spec => ReplayEndsSession
<1>. DEFINE Kept ==
       \A c \in Call, x \in Session :
         (call[c].step = "revoking" /\ call[c].token \in spent /\ call[c].token.session = x) =>
           call'[c] = call[c] \/ ~Unrevoked(x)'
<1>1. ASSUME IInv, [Next]_vars, NEW c \in Call, NEW x \in Session, call[c].step = "revoking",
             call[c].token \in spent, call[c].token.session = x, call'[c] # call[c]
      PROVE  ~Unrevoked(x)'
  <2>1. RevokeReplayed(c)
    BY <1>1, RevocationsEnd DEF RevokeOnLogout
  <2>2. call[c].token \in issued /\ call[c].token \in Token
    BY <1>1, TokenOf DEF IInv
  <2>3. Unrevoked(x) => x \in Stored /\ Replayed(call[c].token)
    BY <1>1, <2>2, Fields DEF IInv, TypeInv, TokensInv, TokenInv, Unrevoked, Replayed
  <2>4. (call[c].token.session \in Stored /\ Replayed(call[c].token)) \in BOOLEAN
    BY DEF Replayed
  <2>. QED BY <1>1, <2>1, <2>3, <2>4, RevokeEnds DEF RevokeReplayed
<1>2. IInv /\ [Next]_vars => [Kept]_vars
  BY <1>1
<1>. QED BY <1>2, SessionInvariant, PTL DEF Spec, ReplayEndsSession

\* A logout with any token its session ever had leaves no session to go on
\* with, whatever refreshes run beside it.
THEOREM LogoutsEndTheSession == Spec => LogoutEndsSession
<1>. DEFINE Kept ==
       \A c \in Call, x \in Session :
         (call[c].step = "leaving" /\ call[c].token.session = x) =>
           call'[c] = call[c] \/ ~Unrevoked(x)'
<1>1. ASSUME IInv, [Next]_vars, NEW c \in Call, NEW x \in Session, call[c].step = "leaving",
             call[c].token.session = x, call'[c] # call[c]
      PROVE  ~Unrevoked(x)'
  <2>1. RevokeOnLogout(c)
    BY <1>1, RevocationsEnd DEF RevokeReplayed
  <2>2. call[c].token \in issued /\ call[c].token \in Token
    BY <1>1, TokenOf DEF IInv
  <2>3. Unrevoked(x) => x \in Stored /\ MayLogOut(call[c].token)
    BY <1>1, <2>2, Fields DEF IInv, TypeInv, TokensInv, TokenInv, Unrevoked, MayLogOut
  <2>4. (call[c].token.session \in Stored /\ MayLogOut(call[c].token)) \in BOOLEAN
    BY DEF MayLogOut
  <2>. QED BY <1>1, <2>1, <2>3, <2>4, RevokeEnds DEF RevokeOnLogout
<1>2. IInv /\ [Next]_vars => [Kept]_vars
  BY <1>1
<1>. QED BY <1>2, SessionInvariant, PTL DEF Spec, LogoutEndsSession

\* A transaction that locked its session ends under a session that goes on.
THEOREM WritesEndUnderSession == Spec => WritesUnderSession
<1>1. IInv /\ [Next]_vars =>
        [\A w \in Writer : writing[w] # None /\ writing'[w] = None => Unrevoked(writing[w])]_vars
  BY DEF IInv, WritesInv
<1>. QED BY <1>1, SessionInvariant, PTL DEF Spec, WritesUnderSession

(***************************************************************************)
(* Sockets that outlive their session                                      *)
(***************************************************************************)

\* The lapsed sessions are stored sessions, each once.
LapsedInv ==
  /\ lapsed \in Seq(Session)
  /\ ToSet(lapsed) \subseteq Stored
  /\ \A i, j \in 1 .. Len(lapsed) : lapsed[i] = lapsed[j] => i = j

\* What TypeInv leaves out of the types.
RestInv ==
  /\ accounts \subseteq User
  /\ consumed \subseteq issued
  /\ sock \in [Socket -> {NoSocket} \cup
       [step : {"answered", "open"}, session : Session, registeredLive : BOOLEAN]]
  /\ cleaning \in {"idle", "running"}
  /\ failures \in 0 .. MaxFailures
  /\ unswept \subseteq Session

\* Why a socket registered under a session that went on may outlive it.
Explained(k) ==
  LET x == sock[k].session IN
  (sock[k].step = "open" /\ sock[k].registeredLive /\ x \in Stored /\ ~Unrevoked(x)) =>
    \/ x \in unswept
    \/ \E c \in Call : call[c].step = "sweeping" /\ call[c].token.session = x

SocketInv == \A k \in Socket : Explained(k)

\* The batch is what stands first among the lapsed sessions.
LEMMA BatchIsFirst ==
  ASSUME LapsedInv
  PROVE  /\ BatchLength \in 0 .. Len(lapsed)
         /\ Batch = {lapsed[i] : i \in 1 .. BatchLength}
<1>1. BatchLength \in 0 .. Len(lapsed)
  <2>. Len(lapsed) \in Nat /\ BatchSize \in Nat
    BY BatchAssumption, LenProperties DEF LapsedInv
  <2>1. CASE BatchSize <= Len(lapsed)
    <3>1. \A x \in {BatchSize, Len(lapsed)} :
            (\A y \in {BatchSize, Len(lapsed)} : x <= y) <=> x = BatchSize
      BY <2>1
    <3>. QED BY <2>1, <3>1 DEF BatchLength, Min
  <2>2. CASE ~(BatchSize <= Len(lapsed))
    <3>1. \A x \in {BatchSize, Len(lapsed)} :
            (\A y \in {BatchSize, Len(lapsed)} : x <= y) <=> x = Len(lapsed)
      BY <2>2
    <3>. QED BY <2>2, <3>1 DEF BatchLength, Min
  <2>. QED BY <2>1, <2>2
<1>. HIDE DEF BatchLength
<1>2. /\ DOMAIN SubSeq(lapsed, 1, BatchLength) = 1 .. BatchLength
      /\ \A i \in 1 .. BatchLength : SubSeq(lapsed, 1, BatchLength)[i] = lapsed[i]
  <2>1. \A i \in 1 .. BatchLength : lapsed[i] \in Session
    BY <1>1 DEF LapsedInv
  <2>2. /\ SubSeq(lapsed, 1, BatchLength) \in Seq(Session)
        /\ Len(SubSeq(lapsed, 1, BatchLength)) =
             (IF 1 <= BatchLength THEN BatchLength - 1 + 1 ELSE 0)
        /\ \A i \in 1 .. BatchLength - 1 + 1 :
             SubSeq(lapsed, 1, BatchLength)[i] = lapsed[1 + i - 1]
    BY <1>1, <2>1, SubSeqProperties
  <2>3. DOMAIN SubSeq(lapsed, 1, BatchLength) = 1 .. Len(SubSeq(lapsed, 1, BatchLength))
    BY <2>2, LenProperties
  <2>. QED BY <1>1, <2>2, <2>3
<1>3. Batch = {lapsed[i] : i \in 1 .. BatchLength}
  BY <1>2 DEF Batch, ToSet
<1>. QED BY <1>1, <1>3

\* A batch takes the lapsed sessions it deletes from the lapsed ones.
LEMMA BatchLapsed ==
  ASSUME IInv, LapsedInv, CleanupBatch
  PROVE  LapsedInv'
<1>1. /\ BatchLength \in 0 .. Len(lapsed)
      /\ Batch = {lapsed[i] : i \in 1 .. BatchLength}
  BY BatchIsFirst
<1>2. /\ Stored' = Stored \ Batch
      /\ lapsed' = SubSeq(lapsed, BatchLength + 1, Len(lapsed))
  BY DEF CleanupBatch, Stored
<1>. DEFINE b == BatchLength
            n == Len(lapsed)
<1>3. b \in 0 .. n /\ n \in Nat
  BY <1>1, LenProperties DEF LapsedInv
<1>. HIDE DEF b
<1>4. /\ lapsed' \in Seq(Session)
      /\ Len(lapsed') = n - b
      /\ \A i \in 1 .. (n - b) : lapsed'[i] = lapsed[b + i]
  <2>1. \A i \in b + 1 .. n : lapsed[i] \in Session
    BY <1>3 DEF LapsedInv
  <2>2. /\ SubSeq(lapsed, b + 1, n) \in Seq(Session)
        /\ Len(SubSeq(lapsed, b + 1, n)) = (IF b + 1 <= n THEN n - (b + 1) + 1 ELSE 0)
        /\ \A i \in 1 .. n - (b + 1) + 1 : SubSeq(lapsed, b + 1, n)[i] = lapsed[(b + 1) + i - 1]
    BY <1>3, <2>1, SubSeqProperties
  <2>3. lapsed' = SubSeq(lapsed, b + 1, n)
    BY <1>2 DEF b
  <2>. HIDE DEF n
  <2>4. \A i \in 1 .. (n - b) : i \in 1 .. n - (b + 1) + 1 /\ (b + 1) + i - 1 = b + i
    BY <1>3
  <2>. QED BY <1>3, <2>2, <2>3, <2>4
<1>5. \A i \in 1 .. (n - b) : lapsed[b + i] \in Stored /\ lapsed[b + i] \notin Batch
  <2>. SUFFICES ASSUME NEW i \in 1 .. (n - b)
                PROVE  lapsed[b + i] \in Stored /\ lapsed[b + i] \notin Batch
    OBVIOUS
  <2>1. b + i \in 1 .. n /\ \A j \in 1 .. b : j # b + i /\ j \in 1 .. n
    BY <1>3
  <2>. QED BY <1>1, <2>1 DEF LapsedInv, ToSet, b
<1>6. ToSet(lapsed') \subseteq Stored'
  BY <1>2, <1>4, <1>5 DEF ToSet
<1>7. \A i, j \in 1 .. Len(lapsed') : lapsed'[i] = lapsed'[j] => i = j
  <2>. SUFFICES ASSUME NEW i \in 1 .. (n - b), NEW j \in 1 .. (n - b), lapsed'[i] = lapsed'[j]
                PROVE  i = j
    BY <1>4
  <2>1. lapsed[b + i] = lapsed[b + j] /\ b + i \in 1 .. n /\ b + j \in 1 .. n
    BY <1>3, <1>4
  <2>2. b + i = b + j
    BY <2>1 DEF LapsedInv
  <2>. QED BY <1>3, <2>2
<1>. QED BY <1>4, <1>6, <1>7 DEF LapsedInv

\* Every step keeps the lapsed sessions.
LEMMA LapsedSound ==
  ASSUME IInv, LapsedInv, [Next]_vars
  PROVE  LapsedInv'
<1>1. ASSUME lapsed' = lapsed, Stored \subseteq Stored'
      PROVE  LapsedInv'
  BY <1>1 DEF LapsedInv
<1>2. ASSUME NEW x \in Session, Lapse(x)
      PROVE  LapsedInv'
  <2>1. /\ lapsed' = Append(lapsed, x) /\ x \in Stored /\ Stored' = Stored
        /\ \A i \in 1 .. Len(lapsed) : lapsed[i] # x
    BY <1>2 DEF Lapse, Lapsed, Contains, Stored
  <2>2. /\ Append(lapsed, x) \in Seq(Session)
        /\ Len(Append(lapsed, x)) = Len(lapsed) + 1
        /\ \A i \in 1 .. Len(lapsed) : Append(lapsed, x)[i] = lapsed[i]
        /\ Append(lapsed, x)[Len(lapsed) + 1] = x
    BY AppendProperties DEF LapsedInv
  <2>3. Len(lapsed) \in Nat
    BY LenProperties DEF LapsedInv
  <2>. QED BY <2>1, <2>2, <2>3 DEF LapsedInv, ToSet
<1>3. ASSUME NEW u \in User, NEW x \in Session, Register(u, x) \/ Login(u, x)
      PROVE  LapsedInv'
  BY <1>1, <1>3 DEF Register, Login, CreateSession, Stored
<1>4. ASSUME NEW c \in Call, Request(c)
      PROVE  LapsedInv'
  BY <1>1, <1>4 DEF Request, Present, Rotate, RotateOverflow, RotateNothing, RevokeReplayed,
                    RevokeOnLogout, Revoke, Sweep, SweepFails, Find, db, Stored
<1>5. ASSUME NEW k \in Socket, (\E x \in Session : Verify(k, x)) \/ Admit(k) \/ Close(k)
      PROVE  LapsedInv'
  BY <1>1, <1>5 DEF Verify, Admit, Close, db, Stored
<1>6. ASSUME NEW w \in Writer, (\E x \in Session : LockActiveSession(w, x)) \/ EndWrite(w)
      PROVE  LapsedInv'
  BY <1>1, <1>6 DEF LockActiveSession, EndWrite, Stored
<1>7. CASE Maintenance
  BY <1>1, <1>7, BatchLapsed DEF Maintenance, StartCleanup, CleanupFails, db, Stored
<1>8. CASE UNCHANGED vars
  BY <1>1, <1>8 DEF vars, Stored
<1>. QED BY <1>2, <1>3, <1>4, <1>5, <1>6, <1>7, <1>8 DEF Next

\* Steps of nobody's request: sockets come and go, sessions are created,
\* renewed, locked or swept.  No stored session becomes revoked by them.
LEMMA StaysExplained ==
  ASSUME IInv, RestInv, SocketInv,
         \A x \in Stored' : ~Unrevoked(x)' => x \in Stored /\ ~Unrevoked(x),
         unswept \subseteq unswept',
         \A c \in Call : call[c].step = "sweeping" => call'[c] = call[c],
         \A k \in Socket :
           \/ sock'[k] = sock[k]
           \/ sock'[k].step # "open"
           \/ \A y : sock'[k].registeredLive /\ y = sock'[k].session => Unrevoked(y)'
  PROVE  SocketInv'
<1>. SUFFICES ASSUME NEW k \in Socket, NEW x, x = sock'[k].session,
                     sock'[k].step = "open", sock'[k].registeredLive,
                     x \in Stored', ~Unrevoked(x)'
              PROVE  \/ x \in unswept'
                     \/ \E c \in Call : call'[c].step = "sweeping" /\ call'[c].token.session = x
  BY DEF SocketInv, Explained
<1>2. sock'[k] = sock[k]
  OBVIOUS
<1>3. x \in Stored /\ ~Unrevoked(x)
  OBVIOUS
<1>4. \/ x \in unswept
      \/ \E c \in Call : call[c].step = "sweeping" /\ call[c].token.session = x
  BY <1>2, <1>3 DEF SocketInv, Explained
<1>. QED BY <1>4

\* A revocation leaves its request to tell the sockets; one that finds nothing
\* to revoke leaves them alone.
LEMMA RevokedExplained ==
  ASSUME IInv, RestInv, SocketInv, NEW c \in Call, call[c].step \in {"revoking", "leaving"},
         NEW condition \in BOOLEAN, Revoke(c, condition)
  PROVE  SocketInv'
<1>. DEFINE x == call[c].token.session
<1>1. UNCHANGED <<sock, unswept>> /\ \A d \in Call \ {c} : call'[d] = call[d]
  BY DEF Revoke, Step, Answer, IInv, TypeInv
<1>2. CASE Unrevoked(x) /\ condition
  <2>1. /\ rows' = [rows EXCEPT ![x].revoked = TRUE] /\ Step(c, "sweeping") /\ issued' = issued
    BY <1>2 DEF Revoke
  <2>2. /\ Stored' = Stored
        /\ \A y \in Stored : y # x => rows'[y] = rows[y]
    BY <2>1 DEF Stored
  <2>3. call'[c].step = "sweeping" /\ call'[c].token.session = x
    BY <2>1, StepTyped DEF IInv
  <2>4. ASSUME NEW k \in Socket
        PROVE  Explained(k)'
    <3>1. CASE sock[k].session = x
      BY <1>1, <2>3, <3>1 DEF Explained
    <3>2. CASE sock[k].session # x
      <4>1. \A y : y # x /\ y \in Stored' /\ ~Unrevoked(y)' => y \in Stored /\ ~Unrevoked(y)
        BY <2>2 DEF Unrevoked
      <4>2. \A d \in Call : call[d].step = "sweeping" => call'[d] = call[d]
        BY <1>1
      <4>. QED BY <1>1, <3>2, <4>1, <4>2 DEF SocketInv, Explained
    <3>. QED BY <3>1, <3>2
  <2>. QED BY <2>4 DEF SocketInv
<1>3. CASE ~(Unrevoked(x) /\ condition)
  <2>1. rows' = rows
    BY <1>3 DEF Revoke
  <2>2. \A y \in Stored' : ~Unrevoked(y)' => y \in Stored /\ ~Unrevoked(y)
    BY <2>1 DEF Unrevoked, Stored
  <2>3. \A d \in Call : call[d].step = "sweeping" => call'[d] = call[d]
    BY <1>1
  <2>4. unswept \subseteq unswept' /\ \A k \in Socket : sock'[k] = sock[k]
    BY <1>1
  <2>. QED BY <2>2, <2>3, <2>4, StaysExplained
<1>. QED BY <1>2, <1>3

\* The request that tells the sockets of its session closes them; one that
\* fails before is remembered.
LEMMA SweptExplained ==
  ASSUME IInv, RestInv, SocketInv, NEW c \in Call, Sweep(c) \/ SweepFails(c)
  PROVE  SocketInv'
<1>. DEFINE x == call[c].token.session
<1>1. rows' = rows /\ \A d \in Call \ {c} : call'[d] = call[d]
  BY DEF Sweep, SweepFails, Answer, IInv, TypeInv, db
<1>2. Stored' = Stored /\ \A y : Unrevoked(y)' = Unrevoked(y)
  BY <1>1 DEF Unrevoked, Stored
<1>3. CASE Sweep(c)
  <2>1. sock' = Notified(x) /\ unswept' = unswept
    BY <1>3 DEF Sweep
  <2>2. ASSUME NEW k \in Socket, sock'[k].step = "open"
        PROVE  sock'[k] = sock[k] /\ sock[k].session # x
    BY <2>1, <2>2 DEF Notified, NoSocket
  <2>. QED BY <1>1, <1>2, <2>1, <2>2 DEF SocketInv, Explained
<1>4. CASE SweepFails(c)
  <2>1. sock' = sock /\ unswept' = unswept \cup {x}
    BY <1>4 DEF SweepFails
  <2>. QED BY <1>1, <1>2, <2>1 DEF SocketInv, Explained
<1>. QED BY <1>3, <1>4

\* The socket that is opened was registered under a session that goes on, or
\* says that it was not.
LEMMA SocketsExplained ==
  ASSUME IInv, RestInv, SocketInv, NEW k \in Socket,
         (\E x \in Session : Verify(k, x)) \/ Admit(k) \/ Close(k)
  PROVE  SocketInv'
<1>1. UNCHANGED <<rows, call, unswept>>
  BY DEF Verify, Admit, Close, db
<1>2. Stored' = Stored /\ \A y : Unrevoked(y)' = Unrevoked(y)
  BY <1>1 DEF Unrevoked, Stored
<1>3. \A j \in Socket \ {k} : sock'[j] = sock[j]
  BY DEF Verify, Admit, Close, RestInv
<1>4. CASE Admit(k)
  <2>1. sock[k] # NoSocket
    BY <1>4 DEF Admit, NoSocket
  <2>2. sock'[k].session = sock[k].session /\ sock'[k].registeredLive = Unrevoked(sock[k].session)
    BY <1>4, <2>1 DEF Admit, RestInv
  <2>3. \A y : sock'[k].registeredLive /\ y = sock'[k].session => Unrevoked(y)'
    BY <1>2, <2>2
  <2>4. \A j \in Socket :
           \/ sock'[j] = sock[j]
           \/ sock'[j].step # "open"
           \/ \A y : sock'[j].registeredLive /\ y = sock'[j].session => Unrevoked(y)'
    BY <1>3, <2>3
  <2>. QED BY <1>1, <1>2, <2>4, StaysExplained
<1>5. CASE (\E x \in Session : Verify(k, x)) \/ Close(k)
  <2>1. sock'[k].step # "open"
    BY <1>5 DEF Verify, Close, NoSocket, RestInv
  <2>. QED BY <1>1, <1>2, <1>3, <2>1, StaysExplained
<1>. QED BY <1>4, <1>5

\* Every step keeps the explanations.
LEMMA SocketSound ==
  ASSUME IInv, RestInv, SocketInv, [Next]_vars
  PROVE  SocketInv'
<1>1. ASSUME NEW u \in User, NEW x \in Session, Register(u, x) \/ Login(u, x)
      PROVE  SocketInv'
  <2>1. UNCHANGED <<call, sock, unswept>>
    BY <1>1 DEF Register, Login, CreateSession
  <2>2. \A y \in Stored' : ~Unrevoked(y)' => y \in Stored /\ ~Unrevoked(y)
    BY <1>1 DEF Register, Login, CreateSession, Unrevoked, Stored
  <2>. QED BY <2>1, <2>2, StaysExplained
<1>2. ASSUME NEW c \in Call, Request(c)
      PROVE  SocketInv'
  <2>1. CASE RevokeReplayed(c) \/ RevokeOnLogout(c)
    BY <2>1, RevokedExplained DEF RevokeReplayed, RevokeOnLogout, Replayed, MayLogOut
  <2>2. CASE Sweep(c) \/ SweepFails(c)
    BY <2>2, SweptExplained
  <2>3. CASE Rotate(c)
    <3>1. /\ UNCHANGED <<sock, unswept>>
          /\ Rotatable(call[c].token)
          /\ \E t, n : rows' = [rows EXCEPT ![call[c].token.session].token = t,
                                            ![call[c].token.session].sequence = n]
      BY <2>3 DEF Rotate
    <3>2. \A y \in Stored' : ~Unrevoked(y)' => y \in Stored /\ ~Unrevoked(y)
      BY <3>1 DEF Unrevoked, Stored, IInv, TypeInv, Row
    <3>3. \A d \in Call : call[d].step = "sweeping" => call'[d] = call[d]
      BY <2>3 DEF Rotate, Step, IInv, TypeInv
    <3>. QED BY <3>1, <3>2, <3>3, StaysExplained
  <2>4. CASE (\E t \in issued : Present(c, t)) \/ RotateOverflow(c) \/ RotateNothing(c) \/ Find(c)
    <3>1. UNCHANGED <<rows, sock, unswept>>
      BY <2>4 DEF Present, RotateOverflow, RotateNothing, Find, db
    <3>2. \A y \in Stored' : ~Unrevoked(y)' => y \in Stored /\ ~Unrevoked(y)
      BY <3>1 DEF Unrevoked, Stored
    <3>3. \A d \in Call : call[d].step = "sweeping" => call'[d] = call[d]
      BY <2>4 DEF Present, RotateOverflow, RotateNothing, Find, Step, Answer, NoCall, IInv, TypeInv
    <3>. QED BY <3>1, <3>2, <3>3, StaysExplained
  <2>. QED BY <1>2, <2>1, <2>2, <2>3, <2>4 DEF Request
<1>3. ASSUME NEW k \in Socket, (\E x \in Session : Verify(k, x)) \/ Admit(k) \/ Close(k)
      PROVE  SocketInv'
  BY <1>3, SocketsExplained
<1>4. ASSUME NEW w \in Writer, (\E x \in Session : LockActiveSession(w, x)) \/ EndWrite(w)
      PROVE  SocketInv'
  <2>1. UNCHANGED <<rows, call, sock, unswept>>
    BY <1>4 DEF LockActiveSession, EndWrite
  <2>. QED BY <2>1, StaysExplained DEF Unrevoked, Stored
<1>5. ASSUME NEW x \in Session, Lapse(x)
      PROVE  SocketInv'
  <2>1. UNCHANGED <<rows, call, sock, unswept>>
    BY <1>5 DEF Lapse
  <2>. QED BY <2>1, StaysExplained DEF Unrevoked, Stored
<1>6. CASE Maintenance
  <2>1. UNCHANGED <<call, sock, unswept>>
    BY <1>6 DEF Maintenance, StartCleanup, CleanupBatch, CleanupFails, db
  <2>2. \A y \in Stored' : ~Unrevoked(y)' => y \in Stored /\ ~Unrevoked(y)
    BY <1>6 DEF Maintenance, StartCleanup, CleanupBatch, CleanupFails, db, Unrevoked, Stored
  <2>. QED BY <2>1, <2>2, StaysExplained
<1>7. CASE UNCHANGED vars
  <2>1. UNCHANGED <<rows, call, sock, unswept>>
    BY <1>7 DEF vars
  <2>. QED BY <2>1, StaysExplained DEF Unrevoked, Stored
<1>. QED BY <1>1, <1>2, <1>3, <1>4, <1>5, <1>6, <1>7 DEF Next

\* Every step keeps the rest of the types.
LEMMA RestSound ==
  ASSUME IInv, RestInv, [Next]_vars
  PROVE  RestInv'
<1>0. MaxFailures \in Nat
  BY FailuresAssumption
<1>1. ASSUME NEW u \in User, NEW x \in Session, Register(u, x) \/ Login(u, x)
      PROVE  RestInv'
  BY <1>1 DEF Register, Login, CreateSession, RestInv
<1>2. ASSUME NEW c \in Call, Request(c)
      PROVE  RestInv'
  <2>1. CASE Rotate(c)
    <3>1. call[c].token \in issued
      BY <2>1, TokenOf DEF Rotate, IInv
    <3>. QED BY <2>1, <3>1 DEF Rotate, RestInv
  <2>2. CASE RevokeReplayed(c) \/ RevokeOnLogout(c)
    BY <2>2 DEF RevokeReplayed, RevokeOnLogout, Revoke, RestInv
  <2>3. CASE Sweep(c)
    BY <2>3 DEF Sweep, Notified, RestInv
  <2>4. CASE SweepFails(c)
    <3>1. call[c].token.session \in Session
      BY <2>4, TokenOf, Fields DEF SweepFails, IInv
    <3>. QED BY <1>0, <2>4, <3>1 DEF SweepFails, db, RestInv
  <2>5. CASE (\E t \in issued : Present(c, t)) \/ RotateOverflow(c) \/ RotateNothing(c) \/ Find(c)
    BY <2>5 DEF Present, RotateOverflow, RotateNothing, Find, db, RestInv
  <2>. QED BY <1>2, <2>1, <2>2, <2>3, <2>4, <2>5 DEF Request
<1>3. ASSUME NEW k \in Socket, (\E x \in Session : Verify(k, x)) \/ Admit(k) \/ Close(k)
      PROVE  RestInv'
  <2>1. CASE Admit(k)
    <3>1. sock[k] # NoSocket
      BY <2>1 DEF Admit, NoSocket
    <3>2. [sock[k] EXCEPT !.step = "open", !.registeredLive = Unrevoked(sock[k].session)] \in
             [step : {"answered", "open"}, session : Session, registeredLive : BOOLEAN]
      BY <3>1 DEF RestInv, Unrevoked
    <3>3. sock' = [sock EXCEPT ![k] = [sock[k] EXCEPT !.step = "open",
                                           !.registeredLive = Unrevoked(sock[k].session)]]
      BY <2>1 DEF Admit, RestInv
    <3>. QED BY <2>1, <3>2, <3>3 DEF Admit, db, RestInv
  <2>2. CASE (\E x \in Session : Verify(k, x)) \/ Close(k)
    <3>1. PICK r : sock' = [sock EXCEPT ![k] = r]
                   /\ (r = NoSocket \/ \E x \in Session :
                          r = [step |-> "answered", session |-> x, registeredLive |-> FALSE])
      BY <2>2 DEF Verify, Close
    <3>2. r \in {NoSocket} \cup
                [step : {"answered", "open"}, session : Session, registeredLive : BOOLEAN]
      <4>1. CASE r = NoSocket
        BY <4>1
      <4>2. ASSUME NEW x \in Session,
                   r = [step |-> "answered", session |-> x, registeredLive |-> FALSE]
            PROVE  r \in [step : {"answered", "open"}, session : Session,
                          registeredLive : BOOLEAN]
        BY <4>2
      <4>. QED BY <3>1, <4>1, <4>2
    <3>3. UNCHANGED <<accounts, consumed, issued, cleaning, failures, unswept>>
      BY <2>2 DEF Verify, Close, db
    <3>. QED BY <3>1, <3>2, <3>3 DEF RestInv
  <2>. QED BY <1>3, <2>1, <2>2
<1>4. ASSUME NEW w \in Writer, (\E x \in Session : LockActiveSession(w, x)) \/ EndWrite(w)
      PROVE  RestInv'
  BY <1>4 DEF LockActiveSession, EndWrite, RestInv
<1>5. ASSUME NEW x \in Session, Lapse(x)
      PROVE  RestInv'
  BY <1>5 DEF Lapse, RestInv
<1>6. CASE Maintenance
  <2>1. CASE CleanupBatch
    BY <2>1 DEF CleanupBatch, RestInv
  <2>2. CASE StartCleanup \/ CleanupFails
    BY <1>0, <2>2 DEF StartCleanup, CleanupFails, db, RestInv
  <2>. QED BY <1>6, <2>1, <2>2 DEF Maintenance
<1>7. CASE UNCHANGED vars
  BY <1>7 DEF vars, RestInv
<1>. QED BY <1>1, <1>2, <1>3, <1>4, <1>5, <1>6, <1>7 DEF Next

\* All is well typed, and a socket that outlives the revocation of its session
\* is about to be told, or the call that should tell it failed: no order of
\* verification, registration, revocation and sweep leaves another.
THEOREM SurvivorsAreExplained == Spec => []SurvivorsExplained
<1>1. Init => LapsedInv /\ RestInv /\ SocketInv
  <2>. SUFFICES ASSUME Init
                PROVE  LapsedInv /\ RestInv /\ SocketInv
    OBVIOUS
  <2>1. /\ lapsed = <<>> /\ consumed = {} /\ accounts \subseteq User /\ cleaning = "idle"
        /\ sock = [k \in Socket |-> NoSocket] /\ failures = 0 /\ unswept = {}
    BY DEF Init
  <2>2. LapsedInv
    BY <2>1, EmptySeq DEF LapsedInv, ToSet
  <2>3. RestInv
    BY <2>1, FailuresAssumption DEF RestInv
  <2>4. SocketInv
    BY <2>1 DEF SocketInv, Explained, NoSocket
  <2>. QED BY <2>2, <2>3, <2>4
<1>2. IInv /\ LapsedInv /\ RestInv /\ SocketInv /\ [Next]_vars
        => LapsedInv' /\ RestInv' /\ SocketInv'
  BY LapsedSound, RestSound, SocketSound
<1>3. IInv /\ LapsedInv /\ RestInv /\ SocketInv => SurvivorsExplained
  <2>. SUFFICES ASSUME IInv, LapsedInv, RestInv, SocketInv
                PROVE  SurvivorsExplained
    OBVIOUS
  <2>1. TypeOK
    BY DEF TypeOK, IInv, TypeInv, RowsInv, LapsedInv, RestInv, Presenting
  <2>. QED BY <2>1 DEF SurvivorsExplained, SocketInv, Explained
<1>. QED BY <1>1, <1>2, <1>3, SessionInvariant, PTL DEF Spec

=============================================================================
