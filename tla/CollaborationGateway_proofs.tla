-------------------- MODULE CollaborationGateway_proofs --------------------
(***************************************************************************)
(* The invariants of CollaborationGateway, for every set of documents,     *)
(* users, sockets and operations, every capacity and limit, and every      *)
(* budget of events.  In the order of their proofs:                        *)
(*   Core         rooms, presence, joined documents and locks agree, and   *)
(*                every join in a line has the turn of its socket;         *)
(*   LimitInv     a join that has entered has its place among the          *)
(*                documents of its socket;                                 *)
(*   CriticalInv  critical work that is owed is scheduled or retried, once,*)
(*                and the line keeps a place for it;                       *)
(*   OpsInv       operations make a history of revisions;                  *)
(*   GoneInv      what the gateway takes for deleted is deleted;           *)
(*   DeliveryInv  what a task carries over its awaits is what it has to    *)
(*                announce, and everybody who remains is told of it;       *)
(*   RemovalInv   who has been removed is out, or fenced off from where he *)
(*                is, unless a grant was overtaken by a removal;           *)
(*   ReadInv      what a task or a published replacement carries of a      *)
(*                document is the content of the revision it names;        *)
(*   KnownInv     nobody knows more of a document than its revision, and   *)
(*                nobody the one that a replacement is about to publish;   *)
(*   SmoothInv    a published replacement is announced before the document *)
(*                moves on, unless critical work or a replacement fails.   *)
(* Each uses the ones before it.                                           *)
(***************************************************************************)
EXTENDS GatewaySteps_proofs

\* Which tasks of the lines are new after a step.
Shift(d, e) == IF e = d /\ ~GoesOn(d) THEN 1 ELSE 0

\* After a step of the task at the head of d, the tasks other than broadcasts and
\* critical work are the old ones, where they were or one place further on.
LEMMA OldTask ==
  ASSUME TypeInv, NEW d \in Document, Busy(d), Moves(d), NEW e \in Document,
         NEW i \in 1 .. Len(line'[e]), line'[e][i].kind \notin {"tell", "critical"}
  PROVE  LET j == i + Shift(d, e) IN
         /\ j \in 1 .. Len(line[e]) /\ line[e][j] = line'[e][i] /\ (j = 1 => Shift(d, e) = 0)
<1>1. line[e] \in Seq(Task) /\ Len(line[e]) \in Nat /\ i \in Nat /\ i >= 1
  <2>1. line'[e] \in Seq(Task)
    BY DEF Moves, Ordinary, GoesOn, Ends, EndsCritically, Elsewhere, LineType
  <2> QED
    BY <2>1 DEF TypeInv, LineType
<1>2. CASE e # d
  <2>1. line'[e] = line[e] /\ Shift(d, e) = 0
    BY <1>2 DEF Moves, Ordinary, GoesOn, Ends, EndsCritically, Elsewhere, Shift
  <2> QED
    BY <1>1, <2>1
<1>3. CASE e = d /\ GoesOn(d)
  <2>1. Grown(line[d], line'[d], {"tell"}) /\ Shift(d, e) = 0
    BY <1>3 DEF GoesOn, Shift
  <2>2. i <= Len(line[d])
    BY <1>1, <1>3, <2>1 DEF Grown
  <2> QED
    BY <1>1, <1>3, <2>1, <2>2 DEF Grown, Longer
<1>4. CASE e = d /\ ~GoesOn(d)
  <2>1. Shift(d, e) = 1
    BY <1>4 DEF Shift
  <2>2. PICK K \in {{"tell"}, {"tell", "critical"}} : Grown(Tail(line[d]), line'[d], K)
    BY <1>4 DEF Moves, Ordinary, Ends, EndsCritically
  <2>3. /\ Len(Tail(line[d])) = Len(line[d]) - 1 /\ Len(line[d]) >= 1
        /\ \A j \in 1 .. Len(Tail(line[d])) : Tail(line[d])[j] = line[d][j + 1]
    <3>1. line[d] # <<>> /\ Len(line[d]) # 0
      BY <1>1, <1>4, EmptySeq DEF Busy
    <3> QED
      BY <1>1, <1>4, <3>1, HeadTailProperties
  <2>4. i <= Len(Tail(line[d]))
    BY <1>1, <1>4, <2>2, <2>3 DEF Grown
  <2>5. line'[d][i] = line[d][i + 1]
    BY <1>1, <2>2, <2>3, <2>4 DEF Grown, Longer
  <2> QED
    BY <1>1, <1>4, <2>1, <2>3, <2>4, <2>5
<1> QED
  BY <1>2, <1>3, <1>4

\* After any other step but a crash, the tasks of other kinds are where they were.
LEMMA OldTasks ==
  ASSUME TypeInv, NEW K, Grows(K), NEW e \in Document,
         NEW i \in 1 .. Len(line'[e]), line'[e][i].kind \notin K
  PROVE  i \in 1 .. Len(line[e]) /\ line[e][i] = line'[e][i]
<1>1. line[e] \in Seq(Task) /\ Len(line[e]) \in Nat /\ line'[e] \in Seq(Task)
  BY DEF TypeInv, LineType, Grows, GrownBy
<1>2. Grown(line[e], line'[e], K)
  BY DEF Grows, GrownBy
<1>3. i <= Len(line[e])
  BY <1>1, <1>2 DEF Grown
<1> QED
  BY <1>1, <1>2, <1>3 DEF Grown, Longer

\* The task at the head of e stays there and stands where it stood.
Undisturbed(e) ==
  Busy(e) => /\ line'[e] # <<>> /\ Head(line'[e]) = Head(line[e])
             /\ work'[e] = work[e]

\* The step of a task does not disturb the tasks of other documents.
LEMMA OthersUndisturbed ==
  ASSUME TypeInv, NEW d \in Document, Moves(d), NEW e \in Document, e # d
  PROVE  Undisturbed(e)
  BY DEF Moves, Ordinary, GoesOn, Ends, EndsCritically, Elsewhere, Undisturbed, Busy

\* A step that only lengthens lines disturbs no task.
LEMMA AllUndisturbed ==
  ASSUME TypeInv, NEW K, Grows(K), NEW e \in Document
  PROVE  Undisturbed(e)
  BY HeadKept DEF TypeInv, Grows, Undisturbed, Busy

\* A task that goes on stays the head of its line.
LEMMA HeadGoesOn ==
  ASSUME TypeInv, NEW d \in Document, Busy(d), GoesOn(d)
  PROVE  line'[d] # <<>> /\ Head(line'[d]) = Head(line[d])
<1>1. line[d] \in Seq(Task) /\ line'[d] \in Seq(Task) /\ line[d] # <<>>
  BY DEF TypeInv, GoesOn, Elsewhere, LineType, Busy
<1>2. Len(line[d]) \in Nat /\ Len(line'[d]) \in Nat /\ Len(line[d]) # 0
  BY <1>1, EmptySeq
<1>3. 1 \in 1 .. Len(line[d]) /\ Len(line[d]) <= Len(line'[d]) /\ line'[d][1] = line[d][1]
  BY <1>2 DEF GoesOn, Grown, Longer
<1> QED
  BY <1>1, <1>2, <1>3

-----------------------------------------------------------------------------
(* The joins in the lines *)

\* The steps of tasks keep the turns of the joins.
LEMMA TurnMoves ==
  ASSUME TypeInv, TypeInv', TurnInv, NEW d \in Document, Busy(d), Moves(d)
  PROVE  TurnInv'
<1>1. ASSUME NEW e \in Document, NEW i \in 1 .. Len(line'[e]), line'[e][i].kind = "join"
      PROVE  LET t == line'[e][i] IN
             /\ t.sock \in sock'.turn
             /\ sock'.joins[t.sock] # <<>>
             /\ Head(sock'.joins[t.sock]) = e
  <2> DEFINE t == line'[e][i]
             j == i + Shift(d, e)
  <2>1. j \in 1 .. Len(line[e]) /\ line[e][j] = t /\ (j = 1 => Shift(d, e) = 0)
    BY <1>1, OldTask
  <2> HIDE DEF j
  <2>2. t.sock \in sock.turn /\ sock.joins[t.sock] # <<>> /\ Head(sock.joins[t.sock]) = e
    BY <1>1, <2>1 DEF TurnInv
  <2>3. t.sock \in Socket
    BY <2>2 DEF TypeInv, SockType
  <2>4. JoinsKept(t.sock)
    <3>1. CASE GoesOn(d) \/ EndsCritically(d)
      BY <2>3, <3>1 DEF GoesOn, EndsCritically
    <3>2. CASE Ends(d) /\ ~GoesOn(d) /\ Head(line[d]).kind = "join" /\ t.sock = Caller(d)
      <4>1. /\ Head(line[d]) = line[d][1] /\ 1 \in 1 .. Len(line[d])
        BY HeadTask
      <4>2. Head(sock.joins[Caller(d)]) = d
        BY <3>2, JoinCaller
      <4>3. e = d
        BY <2>2, <3>2, <4>2
      <4>4. j = 1
        BY <1>1, <2>1, <3>2, <4>1, <4>3 DEF TurnInv, Caller
      <4>5. Shift(d, e) = 1
        BY <3>2, <4>3 DEF Shift
      <4> QED
        BY <2>1, <4>4, <4>5
    <3>3. CASE Ends(d) /\ ~(Head(line[d]).kind = "join" /\ t.sock = Caller(d))
      BY <2>3, <3>3 DEF Ends
    <3> QED
      BY <3>1, <3>2, <3>3 DEF Moves, Ordinary
  <2> QED
    BY <2>2, <2>4 DEF JoinsKept
<1>2. ASSUME NEW e \in Document, NEW i \in 1 .. Len(line'[e]), NEW j \in 1 .. Len(line'[e]),
             line'[e][i].kind = "join", line'[e][j].kind = "join",
             line'[e][i].sock = line'[e][j].sock
      PROVE  i = j
  <2>1. /\ i + Shift(d, e) \in 1 .. Len(line[e]) /\ line[e][i + Shift(d, e)] = line'[e][i]
        /\ j + Shift(d, e) \in 1 .. Len(line[e]) /\ line[e][j + Shift(d, e)] = line'[e][j]
    BY <1>2, OldTask
  <2>2. i + Shift(d, e) = j + Shift(d, e)
    BY <1>2, <2>1 DEF TurnInv
  <2>3. i \in Nat /\ j \in Nat /\ Shift(d, e) \in Nat
    <3>1. Len(line'[e]) \in Nat
      BY DEF TypeInv, LineType
    <3> QED
      BY <3>1 DEF Shift
  <2> QED
    BY <2>2, <2>3
<1> QED
  BY <1>1, <1>2 DEF TurnInv

\* Tasks other than joins do not touch the turns.
LEMMA TurnGrows ==
  ASSUME TypeInv, TypeInv', TurnInv, NEW K, "join" \notin K, Grows(K)
  PROVE  TurnInv'
<1>1. ASSUME NEW e \in Document, NEW i \in 1 .. Len(line'[e]), line'[e][i].kind = "join"
      PROVE  LET t == line'[e][i] IN
             /\ t.sock \in sock'.turn
             /\ sock'.joins[t.sock] # <<>>
             /\ Head(sock'.joins[t.sock]) = e
  <2> DEFINE t == line'[e][i]
  <2>1. i \in 1 .. Len(line[e]) /\ line[e][i] = t
    BY <1>1, OldTasks
  <2>2. t.sock \in sock.turn /\ sock.joins[t.sock] # <<>> /\ Head(sock.joins[t.sock]) = e
    BY <1>1, <2>1 DEF TurnInv
  <2>3. JoinsKept(t.sock)
    BY <2>2 DEF Grows, TypeInv, SockType
  <2> QED
    BY <2>2, <2>3 DEF JoinsKept
<1>2. ASSUME NEW e \in Document, NEW i \in 1 .. Len(line'[e]), NEW j \in 1 .. Len(line'[e]),
             line'[e][i].kind = "join", line'[e][j].kind = "join",
             line'[e][i].sock = line'[e][j].sock
      PROVE  i = j
  BY <1>2, OldTasks DEF TurnInv
<1> QED
  BY <1>1, <1>2 DEF TurnInv

\* A join that enters the line takes the turn of its socket.
LEMMA TurnBegins ==
  ASSUME Base, TypeInv', NEW s \in Socket, BeginJoin(s)
  PROVE  TurnInv'
<1>1. CASE Grows({})
  BY <1>1, TurnGrows DEF Base
<1>2. CASE ~Grows({})
  <2> DEFINE d == Head(sock.joins[s])
  <2>1. /\ s \notin sock.turn
        /\ \A r \in Socket : r \in sock'.turn <=> r \in sock.turn \/ r = s
        /\ sock'.joins = sock.joins /\ sock.joins[s] # <<>>
        /\ d \in Document /\ line'[d] = Append(line[d], Join(s))
        /\ \A e \in Document \ {d} : line'[e] = line[e]
    BY <1>2, BeginJoinEffect
  <2> HIDE DEF d
  <2>2. TurnInv /\ line \in LineType /\ sock \in SockType
    BY DEF Base, TypeInv
  <2>3. line[d] \in Seq(Task) /\ Len(line[d]) \in Nat /\ Join(s) \in Task
    BY <2>1, <2>2 DEF LineType, Join, Task
  <2>4. /\ Len(line'[d]) = Len(line[d]) + 1 /\ line'[d][Len(line[d]) + 1] = Join(s)
        /\ \A i \in 1 .. Len(line[d]) : line'[d][i] = line[d][i]
    BY <2>1, <2>3, AppendProperties
  <2>5. ASSUME NEW e \in Document, NEW i \in 1 .. Len(line'[e])
        PROVE  \/ e = d /\ i = Len(line[d]) + 1 /\ line'[e][i] = Join(s)
               \/ i \in 1 .. Len(line[e]) /\ line'[e][i] = line[e][i]
    <3>1. CASE e = d
      BY <2>3, <2>4, <3>1
    <3>2. CASE e # d
      BY <2>1, <3>2
    <3> QED
      BY <3>1, <3>2
  <2>6. ASSUME NEW e \in Document, NEW i \in 1 .. Len(line[e]), line[e][i].kind = "join"
        PROVE  /\ line[e][i].sock \in sock.turn /\ line[e][i].sock # s
               /\ line[e][i].sock \in Socket
               /\ sock.joins[line[e][i].sock] # <<>>
               /\ Head(sock.joins[line[e][i].sock]) = e
    BY <2>1, <2>2, <2>6 DEF TurnInv, SockType
  <2>7. Join(s).kind = "join" /\ Join(s).sock = s
    BY DEF Join
  <2>8. ASSUME NEW e \in Document, NEW i \in 1 .. Len(line'[e]), line'[e][i].kind = "join"
        PROVE  LET t == line'[e][i] IN
               /\ t.sock \in sock'.turn
               /\ sock'.joins[t.sock] # <<>>
               /\ Head(sock'.joins[t.sock]) = e
    <3>1. CASE e = d /\ line'[e][i] = Join(s)
      BY <2>1, <2>7, <3>1 DEF d
    <3>2. CASE i \in 1 .. Len(line[e]) /\ line'[e][i] = line[e][i]
      BY <2>1, <2>6, <2>8, <3>2
    <3> QED
      BY <2>5, <3>1, <3>2
  <2>9. ASSUME NEW e \in Document, NEW i \in 1 .. Len(line'[e]), NEW j \in 1 .. Len(line'[e]),
               line'[e][i].kind = "join", line'[e][j].kind = "join",
               line'[e][i].sock = line'[e][j].sock
        PROVE  i = j
    <3>1. CASE line'[e][i].sock = s
      <4>1. ASSUME NEW k \in 1 .. Len(line'[e]), line'[e][k].kind = "join", line'[e][k].sock = s
            PROVE  k = Len(line[d]) + 1
        <5>1. CASE k \in 1 .. Len(line[e]) /\ line'[e][k] = line[e][k]
          BY <2>6, <4>1, <5>1
        <5> QED
          BY <2>5, <5>1
      <4> QED
        BY <2>9, <3>1, <4>1
    <3>2. CASE line'[e][i].sock # s
      BY <2>2, <2>5, <2>7, <2>9, <3>2 DEF TurnInv
    <3> QED
      BY <3>1, <3>2
  <2> QED
    BY <2>8, <2>9 DEF TurnInv
<1> QED
  BY <1>1, <1>2

-----------------------------------------------------------------------------
(* What a running task leaves alone *)

\* Who is in the other documents, or on his way there, is not the task's business.
SocksElsewhere(d) ==
  /\ sock'.connected = sock.connected
  /\ \A s \in Socket, e \in Document : e # d =>
       /\ s \in sock'.room[e] <=> s \in sock.room[e]
       /\ e \in sock'.joined[s] <=> e \in sock.joined[s]
       /\ e \in sock'.pending[s] <=> e \in sock.pending[s]

\* Sockets whose sets do not change are where they were.
LEMMA SameElsewhere ==
  ASSUME NEW d \in Document,
         sock'.connected = sock.connected, sock'.room = sock.room,
         sock'.joined = sock.joined, sock'.pending = sock.pending
  PROVE  SocksElsewhere(d)
  BY DEF SocksElsewhere

\* A withdrawal from d leaves the sockets in other documents.
LEMMA WithoutElsewhere ==
  ASSUME sock \in SockType, NEW d \in Document, NEW S \in SUBSET Socket,
         sock'.connected = sock.connected, sock'.room = SockWithout(S, d).room,
         sock'.joined = SockWithout(S, d).joined, sock'.pending = SockWithout(S, d).pending
  PROVE  SocksElsewhere(d)
<1> SUFFICES ASSUME NEW s \in Socket, NEW e \in Document, e # d
             PROVE  /\ s \in sock'.room[e] <=> s \in sock.room[e]
                    /\ e \in sock'.joined[s] <=> e \in sock.joined[s]
                    /\ e \in sock'.pending[s] <=> e \in sock.pending[s]
  BY DEF SocksElsewhere
<1> QED
  BY WithoutRoom

\* The first half of a broadcast in d leaves the sockets in other documents.
LEMMA BroadcastElsewhere ==
  ASSUME Base, NEW d \in Document, NEW w, NEW h, NEW n, Broadcast(d, w, h, n)
  PROVE  SocksElsewhere(d)
<1>1. sock \in SockType /\ FencedOut(d) \in SUBSET Socket
  BY RoomSockets DEF FencedOut, Base, TypeInv
<1>2. sock' = SockWithout(FencedOut(d), d)
  BY DEF Broadcast, FencedOut
<1>3. sock'.connected = sock.connected
  BY <1>1, <1>2, WithoutSock
<1> QED
  BY <1>1, <1>2, <1>3, WithoutElsewhere

\* The second half of a broadcast in d leaves the sockets in other documents.
LEMMA EmitElsewhere ==
  ASSUME Base, NEW d \in Document, Emit(d)
  PROVE  SocksElsewhere(d)
<1>1. sock \in SockType /\ Revoked(d) \in SUBSET Socket
  BY RevokedSockets DEF Base, TypeInv
<1>2. /\ sock'.connected = sock.connected
      /\ sock'.room = SockWithout(Revoked(d), d).room
      /\ sock'.joined = SockWithout(Revoked(d), d).joined
      /\ sock'.pending = SockWithout(Revoked(d), d).pending
  BY EmitStep DEF Base
<1> QED
  BY <1>1, <1>2, WithoutElsewhere

\* A join that settles leaves its socket in other documents.
LEMMA SettledElsewhere ==
  ASSUME sock \in SockType, NEW d \in Document, NEW S \in SUBSET Socket, NEW k \in SockType,
         k.connected = sock.connected,
         k.room = SockWithout(S, d).room \/ k.room = sock.room,
         k.joined = SockWithout(S, d).joined \/ k.joined = sock.joined,
         k.pending = SockWithout(S, d).pending \/ k.pending = sock.pending,
         NEW s \in Socket, k.joins[s] # <<>>, sock' = Settled(k, s, d)
  PROVE  SocksElsewhere(d)
<1>1. /\ sock'.connected = sock.connected /\ sock'.room = k.room /\ sock'.joined = k.joined
      /\ sock'.pending = [k.pending EXCEPT ![s] = @ \ {d}]
  BY DEF Settled, SockType
<1>2. SUFFICES ASSUME NEW r \in Socket, NEW e \in Document, e # d
               PROVE  /\ r \in sock'.room[e] <=> r \in sock.room[e]
                      /\ e \in sock'.joined[r] <=> e \in sock.joined[r]
                      /\ e \in sock'.pending[r] <=> e \in sock.pending[r]
  BY <1>1 DEF SocksElsewhere
<1>3. e \in sock'.pending[r] <=> e \in k.pending[r]
  BY <1>1, <1>2 DEF SockType
<1>4. /\ r \in SockWithout(S, d).room[e] <=> r \in sock.room[e]
      /\ e \in SockWithout(S, d).joined[r] <=> e \in sock.joined[r]
      /\ e \in SockWithout(S, d).pending[r] <=> e \in sock.pending[r]
  BY <1>2, WithoutRoom
<1> QED
  BY <1>1, <1>3, <1>4

\* A join that fails leaves its socket in other documents.
LEMMA FailsElsewhere ==
  ASSUME Base, NEW d \in Document, Busy(d), Head(line[d]).kind = "join",
         \/ JoinFails(Caller(d), d, sock)
         \/ JoinFails(Caller(d), d, Doomed({Caller(d)}))
         \/ \E D \in SUBSET Socket : JoinUndone(Caller(d), d, D)
  PROVE  SocksElsewhere(d)
<1> DEFINE s == Caller(d)
<1>1. sock \in SockType /\ s \in Socket /\ sock.joins[s] # <<>> /\ {s} \in SUBSET Socket
  BY JoinCaller DEF Base, TypeInv
<1>2. CASE JoinFails(s, d, sock)
  <2>1. sock' = Settled(sock, s, d)
    BY <1>2 DEF JoinFails
  <2> HIDE DEF s
  <2> QED
    BY <1>1, <2>1, SettledElsewhere
<1>3. CASE JoinFails(s, d, Doomed({s}))
  <2>1. sock' = Settled(Doomed({s}), s, d)
    BY <1>3 DEF JoinFails
  <2> HIDE DEF s
  <2>2. /\ Doomed({s}) \in SockType /\ Doomed({s}).connected = sock.connected
        /\ Doomed({s}).room = sock.room /\ Doomed({s}).joined = sock.joined
        /\ Doomed({s}).pending = sock.pending /\ Doomed({s}).joins = sock.joins
    BY <1>1, DoomedSock
  <2> QED
    BY <1>1, <2>1, <2>2, SettledElsewhere
<1>4. CASE \E D \in SUBSET Socket : JoinUndone(s, d, D)
  <2>1. PICK D \in SUBSET Socket : JoinUndone(s, d, D)
    BY <1>4
  <2> DEFINE w == SockWithout({s}, d)
             k == [w EXCEPT !.doomed = D]
  <2>2. sock' = Settled(k, s, d)
    BY <2>1 DEF JoinUndone
  <2> HIDE DEF s
  <2>3. w \in SockType /\ w.connected = sock.connected /\ w.joins = sock.joins
    BY <1>1, WithoutSock
  <2> HIDE DEF w
  <2>4. /\ k \in SockType /\ k.connected = sock.connected /\ k.joins = sock.joins
        /\ k.room = w.room /\ k.joined = w.joined /\ k.pending = w.pending
    BY <2>1, <2>3 DEF SockType
  <2> HIDE DEF k
  <2> QED
    BY <1>1, <2>2, <2>4, SettledElsewhere DEF w
<1> QED
  BY <1>2, <1>3, <1>4

\* The steps of a join leave the sockets in other documents.
LEMMA JoinElsewhere ==
  ASSUME Base, NEW d \in Document,
         JoinCheck(d) \/ JoinEnter(d) \/ JoinRegister(d) \/ JoinConfirm(d)
  PROVE  SocksElsewhere(d)
<1>1. Busy(d) /\ Head(line[d]).kind = "join"
  BY DEF JoinCheck, JoinEnter, JoinRegister, JoinConfirm, At
<1>2. /\ sock \in SockType /\ Caller(d) \in Socket /\ {Caller(d)} \in SUBSET Socket
      /\ sock.joins[Caller(d)] # <<>>
  BY <1>1, JoinCaller DEF Base, TypeInv
<1>3. CASE JoinCheck(d)
  <2>1. \/ JoinFails(Caller(d), d, sock) \/ JoinFails(Caller(d), d, Doomed({Caller(d)}))
        \/ sock' = sock
    BY <1>3 DEF JoinCheck
  <2> QED
    BY <1>1, <2>1, FailsElsewhere, SameElsewhere
<1>4. CASE JoinEnter(d)
  <2>1. \/ JoinFails(Caller(d), d, sock)
        \/ sock' = [sock EXCEPT !.room[d] = @ \cup {Caller(d)}]
    BY <1>4 DEF JoinEnter
  <2>2. CASE sock' = [sock EXCEPT !.room[d] = @ \cup {Caller(d)}]
    BY <1>2, <2>2 DEF SocksElsewhere, SockType
  <2> QED
    BY <1>1, <2>1, <2>2, FailsElsewhere
<1>5. CASE JoinRegister(d)
  <2> DEFINE k == [sock EXCEPT !.room[d] = @ \ {Caller(d)}]
  <2>1. \/ sock' = Settled(k, Caller(d), d)
        \/ sock' = [sock EXCEPT !.joined[Caller(d)] = @ \cup {d}, !.pending[Caller(d)] = @ \ {d}]
    BY <1>5 DEF JoinRegister, JoinFails
  <2>2. CASE sock' = [sock EXCEPT !.joined[Caller(d)] = @ \cup {d}, !.pending[Caller(d)] = @ \ {d}]
    BY <1>2, <2>2 DEF SocksElsewhere, SockType
  <2>3. CASE sock' = Settled(k, Caller(d), d)
    <3>1. /\ k \in SockType /\ k.connected = sock.connected /\ k.joins = sock.joins
          /\ k.joined = sock.joined /\ k.pending = sock.pending
      BY <1>2 DEF SockType
    <3>2. k.room = SockWithout({Caller(d)}, d).room
      BY <1>2 DEF SockWithout, SockType
    <3> HIDE DEF k
    <3> QED
      BY <1>2, <2>3, <3>1, <3>2, SettledElsewhere
  <2> QED
    BY <2>1, <2>2, <2>3
<1>6. CASE JoinConfirm(d)
  <2>1. \/ JoinUndone(Caller(d), d, sock.doomed)
        \/ JoinUndone(Caller(d), d, Doomed({Caller(d)}).doomed)
        \/ sock' = [sock EXCEPT !.joins[Caller(d)] = Tail(@), !.turn = @ \ {Caller(d)}]
    BY <1>6 DEF JoinConfirm
  <2>2. CASE sock' = [sock EXCEPT !.joins[Caller(d)] = Tail(@), !.turn = @ \ {Caller(d)}]
    BY <1>2, <2>2 DEF SocksElsewhere, SockType
  <2>3. sock.doomed \in SUBSET Socket /\ Doomed({Caller(d)}).doomed \in SUBSET Socket
    BY <1>2, DoomedSock DEF SockType
  <2> QED
    BY <1>1, <2>1, <2>2, <2>3, FailsElsewhere
<1> QED
  BY <1>3, <1>4, <1>5, <1>6

\* A reply leaves the sockets where they are.
LEMMA RepliesElsewhere ==
  ASSUME Base, NEW d \in Document, Busy(d), Head(line[d]).kind \notin {"critical", "tell"},
         NEW r, Replies(d, sock, r) \/ Replies(d, Doomed({Caller(d)}), r)
  PROVE  SocksElsewhere(d)
<1>1. {Caller(d)} \in SUBSET Socket /\ sock \in SockType
  BY CallerSocket DEF Base, TypeInv
<1> QED
  BY <1>1, DoomedSock, SameElsewhere DEF Replies

\* No step of the task of d moves a socket in another document.
LEMMA TaskElsewhere ==
  ASSUME Base, NEW d \in Document, Serve(d) \/ Fail(d)
  PROVE  SocksElsewhere(d)
<1>1. ASSUME sock' = sock PROVE SocksElsewhere(d)
  BY <1>1, SameElsewhere
<1>2. CASE TellStart(d) \/ TellEmit(d)
  BY <1>2, BroadcastElsewhere, EmitElsewhere DEF TellStart, TellEmit
<1>3. CASE JoinCheck(d) \/ JoinEnter(d) \/ JoinRegister(d) \/ JoinConfirm(d)
  BY <1>3, JoinElsewhere
<1>4. CASE Authorize(d, "command") \/ Authorize(d, "lock")
  BY <1>1, <1>4, RepliesElsewhere DEF Authorize, At
<1>5. CASE CommandProcess(d)
  BY <1>1, <1>5, RepliesElsewhere DEF CommandProcess, At
<1>6. CASE CommandCurrent(d) \/ CommandBroadcast(d)
  BY <1>1, <1>6, RepliesElsewhere, BroadcastElsewhere DEF CommandCurrent, CommandBroadcast, At
<1>7. CASE CommandEmit(d)
  BY <1>7, EmitElsewhere DEF CommandEmit
<1>8. CASE CommandDelivered(d)
  BY <1>8, RepliesElsewhere DEF CommandDelivered, At
<1>9. CASE LockServed(d) \/ ReplaceTransact(d) \/ ReplacePublish(d) \/ DeleteTransact(d)
             \/ DeletePublish(d) \/ CriticalAsk(d) \/ CriticalDelivered(d)
  BY <1>1, <1>9 DEF LockServed, ReplaceTransact, ReplacePublish, DeleteTransact, DeletePublish,
                    CriticalAsk, CriticalDelivered
<1>10. CASE CriticalEvict(d) \/ CriticalDeleted(d)
  <2>1. sock \in SockType /\ sock.room[d] \in SUBSET Socket
    BY RoomSockets DEF Base, TypeInv
  <2>2. \E S \in SUBSET Socket : sock' = SockWithout(S, d)
    <3> DEFINE F == {s \in sock.room[d] : crit.evictions[d][UserOf[s]] # 0 /\ Fenced(s, d)}
    <3>1. F \in SUBSET Socket
      BY <2>1
    <3>2. sock' = SockWithout(F, d) \/ sock' = SockWithout(sock.room[d], d)
      BY <1>10 DEF CriticalEvict, CriticalDeleted
    <3> QED
      BY <2>1, <3>1, <3>2
  <2> QED
    BY <2>1, <2>2, WithoutSock, WithoutElsewhere
<1>11. CASE CriticalDecide(d)
  BY <1>1, <1>11, BroadcastElsewhere DEF CriticalDecide
<1>12. CASE CriticalCurrent(d)
  BY <1>1, <1>12, BroadcastElsewhere DEF CriticalCurrent
<1>13. CASE CriticalEmit(d)
  BY <1>13, EmitElsewhere DEF CriticalEmit
<1>14. CASE Fail(d)
  <2>1. sock.doomed \in SUBSET Socket
    BY DEF Base, TypeInv, SockType
  <2> QED
    BY <1>1, <1>14, <2>1, FailsElsewhere DEF Fail
<1> QED
  BY <1>2, <1>3, <1>4, <1>5, <1>6, <1>7, <1>8, <1>9, <1>10, <1>11, <1>12, <1>13, <1>14 DEF Serve

-----------------------------------------------------------------------------
(* Any step of the running task of a line *)

\* Every step of a task moves it, in a busy line, and keeps the types.
LEMMA TaskEffect ==
  ASSUME Base, NEW d \in Document, Serve(d) \/ Fail(d)
  PROVE  TypeInv' /\ Moves(d) /\ Busy(d)
<1>1. Busy(d)
  BY DEF Serve, Fail, TellStart, TellEmit, JoinCheck, JoinEnter, JoinRegister, JoinConfirm,
         Authorize, CommandProcess, CommandCurrent, CommandBroadcast, CommandEmit,
         CommandDelivered, LockServed, ReplaceTransact, ReplacePublish, DeleteTransact,
         DeletePublish, CriticalEvict, CriticalDeleted, CriticalAsk, CriticalDecide,
         CriticalCurrent, CriticalEmit, CriticalDelivered, ReadyForResync, At
<1>2. CASE TellStart(d) \/ TellEmit(d)
  BY <1>1, <1>2, TellEffect DEF Moves
<1>3. CASE JoinCheck(d) \/ JoinEnter(d)
  BY <1>1, <1>3, JoinCheckEffect, JoinEnterEffect DEF Moves
<1>4. CASE JoinRegister(d) \/ JoinConfirm(d)
  BY <1>1, <1>4, JoinRegisterEffect, JoinConfirmEffect DEF Moves
<1>5. CASE Authorize(d, "command") \/ Authorize(d, "lock")
  BY <1>1, <1>5, AuthorizeEffect DEF Moves
<1>6. CASE CommandProcess(d) \/ CommandCurrent(d)
  BY <1>1, <1>6, CommandProcessEffect, CommandCurrentEffect DEF Moves
<1>7. CASE CommandBroadcast(d) \/ CommandEmit(d) \/ CommandDelivered(d)
  BY <1>1, <1>7, CommandBroadcastEffect, CommandEmitEffect, CommandDeliveredEffect
     DEF Moves
<1>8. CASE LockServed(d) \/ ReplaceTransact(d) \/ ReplacePublish(d)
  BY <1>1, <1>8, LockServedEffect, ReplaceTransactEffect, ReplacePublishEffect DEF Moves
<1>9. CASE DeleteTransact(d) \/ DeletePublish(d)
  BY <1>1, <1>9, DeleteTransactEffect, DeletePublishEffect DEF Moves
<1>10. CASE CriticalEvict(d) \/ CriticalDeleted(d)
  BY <1>1, <1>10, CriticalEvictEffect, CriticalDeletedEffect DEF Moves, Ordinary
<1>11. CASE CriticalAsk(d) \/ CriticalDecide(d)
  BY <1>1, <1>11, CriticalAskEffect, CriticalDecideEffect DEF Moves, Ordinary
<1>12. CASE CriticalCurrent(d) \/ CriticalEmit(d) \/ CriticalDelivered(d)
  BY <1>1, <1>12, CriticalCurrentEffect, CriticalEmitEffect, CriticalDeliveredEffect DEF Moves, Ordinary
<1>13. CASE Fail(d)
  BY <1>1, <1>13, FailEffect
<1> QED
  BY <1>2, <1>3, <1>4, <1>5, <1>6, <1>7, <1>8, <1>9, <1>10, <1>11, <1>12, <1>13 DEF Serve

\* What the clients sent stays what it was.
SameSent == \A o \in Op : ops'[o].doc = ops[o].doc /\ ops'[o].el = ops[o].el

\* No step of a task changes what was sent for an operation.
LEMMA TaskSent ==
  ASSUME Base, NEW d \in Document, Serve(d) \/ Fail(d)
  PROVE  SameSent
<1>1. ops \in [Op -> Row]
  BY DEF Base, TypeInv
<1>2. CASE ops' = ops
  BY <1>2 DEF SameSent
<1>3. CASE CommandProcess(d)
  <2>1. Head(line[d]).op \in Op
    BY <1>3, CommandProcessEffect
  <2>2. CASE ops' = [ops EXCEPT ![Head(line[d]).op].rev = ops[Head(line[d]).op].base + 1]
    BY <1>1, <2>1, <2>2 DEF SameSent, Row
  <2> QED
    BY <1>2, <1>3, <2>2, CommandProcessEffect
<1>4. ASSUME NEW u \in Socket \cup {None}, ops' = Marked(work[d].op, u)
      PROVE  SameSent
  BY <1>4, MarkedRows DEF Base, SameSent
<1>8. CASE CommandDelivered(d)
  BY <1>4, <1>8 DEF CommandDelivered
<1>9. CASE Fail(d)
  <2>1. work[d].except \in Socket \cup {None}
    BY DEF Base, TypeInv, Standing
  <2>2. CASE ops' = AllMarked(d)
    BY <1>1, <2>2, AllMarkedRows DEF Base, SameSent, Row
  <2> QED
    BY <1>2, <1>4, <1>9, <2>1, <2>2, FailEffect DEF MarkHidden
<1>5. CASE CriticalDelivered(d)
  <2>1. \A o \in Op : ops'[o] = IF o \in Pending(d) THEN [ops[o] EXCEPT !.delivered = TRUE] ELSE ops[o]
    BY <1>5, CriticalDeliveredEffect
  <2> QED
    BY <1>1, <2>1 DEF SameSent, Row
<1>6. CASE DeleteTransact(d)
  <2>1. CASE WithoutDocuments({d})
    <3>1. {d} \in SUBSET Document /\ TypeInv
      BY DEF Base
    <3>2. \A o \in Op :
            ops'[o] = IF ops[o].doc \in {d}
                        THEN [ops[o] EXCEPT !.rev = 0, !.delivered = FALSE] ELSE ops[o]
      BY <2>1, <3>1, WithoutDocumentsType
    <3> QED
      BY <1>1, <3>2 DEF SameSent, Row
  <2> QED
    BY <1>2, <1>6, <2>1, DeleteTransactEffect
<1>7. CASE /\ ~CommandProcess(d) /\ ~CommandDelivered(d) /\ ~CriticalDelivered(d)
           /\ ~DeleteTransact(d) /\ ~Fail(d)
  <2>1. ops' = ops
    BY <1>7 DEF Serve, TellStart, TellEmit, JoinCheck, JoinEnter, JoinRegister, JoinConfirm,
         Authorize, CommandCurrent, CommandBroadcast, CommandEmit,
         LockServed, ReplaceTransact, ReplacePublish,
         DeletePublish, CriticalEvict, CriticalDeleted, CriticalAsk, CriticalDecide,
         CriticalCurrent, CriticalEmit
  <2> QED
    BY <1>2, <2>1
<1> QED
  BY <1>3, <1>5, <1>6, <1>7, <1>8, <1>9

\* A command that is processed stands at its commit, or ends.
LEMMA CommandStands ==
  ASSUME Base, NEW d \in Document, CommandProcess(d)
  PROVE  work'[d] = Idle \/ work'[d].pc = "committed"
<1>1. work \in [Document -> Standing]
  BY DEF Base, TypeInv
<1>2. ASSUME NEW o, NEW r, NEW owed, Committing(d, o, r, owed)
      PROVE  work'[d].pc = "committed"
  BY <1>1, <1>2 DEF Committing, Goto, Idle
<1>3. ASSUME NEW k, NEW r, Replies(d, k, r)
      PROVE  work'[d] = Idle
  BY <1>1, <1>3 DEF Replies, Done, Goto
<1> QED
  BY <1>2, <1>3 DEF CommandProcess

\* Only a join that enters ends up between entering and registering, and only
\* one that registers was there.
LEMMA TaskStands ==
  ASSUME Base, NEW d \in Document, Serve(d) \/ Fail(d), ~JoinEnter(d), ~JoinRegister(d)
  PROVE  ~At(d, "join", "entered") /\ work'[d].pc # "entered"
<1>0. Fail(d) => ~At(d, "join", "entered")
  BY DEF Fail, MarkHidden, At
<1>1. ~At(d, "join", "entered")
  BY <1>0 DEF Serve, TellStart, TellEmit, JoinCheck, JoinEnter, JoinRegister, JoinConfirm,
         Authorize, CommandProcess, CommandCurrent, CommandBroadcast, CommandEmit,
         CommandDelivered, LockServed, ReplaceTransact, ReplacePublish, DeleteTransact,
         DeletePublish, CriticalEvict, CriticalDeleted, CriticalAsk, CriticalDecide,
         CriticalCurrent, CriticalEmit, CriticalDelivered, ReadyForResync, At
<1> SUFFICES work'[d].pc # "entered"
  BY <1>1
<1>2. work \in [Document -> Standing]
  BY DEF Base, TypeInv
<1>3. Idle.pc = "start" /\ Idle \in Standing
  BY IdleStanding
<1>4. ASSUME work'[d] = Idle PROVE work'[d].pc # "entered"
  BY <1>3, <1>4
<1>5. ASSUME NEW w \in Standing, NEW h, NEW n, Broadcast(d, w, h, n) PROVE work'[d].pc # "entered"
  <2>1. work' = [work EXCEPT ![d] = Chosen(d, w)]
    BY <1>5 DEF Broadcast, FencedOut, Chosen, Goto
  <2>2. Chosen(d, w).pc = "emit"
    BY ChosenStanding DEF Base, TypeInv
  <2> QED
    BY <1>2, <2>1, <2>2
<1>6. CASE TellStart(d)
  BY <1>3, <1>5, <1>6 DEF TellStart
<1>7. CASE TellEmit(d) \/ LockServed(d) \/ ReplacePublish(d) \/ DeletePublish(d)
  BY <1>2, <1>4, <1>7 DEF TellEmit, LockServed, ReplacePublish, DeletePublish, Done, Goto
<1>8. CASE JoinCheck(d)
  BY <1>3, <1>8, JoinCheckEffect DEF Standing
<1>9. CASE JoinConfirm(d) \/ CommandDelivered(d) \/ Fail(d)
  BY <1>4, <1>9, JoinConfirmEffect, CommandDeliveredEffect, FailEffect
<1>10. CASE Authorize(d, "command") \/ Authorize(d, "lock")
  BY <1>3, <1>10, AuthorizeEffect DEF Standing
<1>11. CASE CommandProcess(d)
  BY <1>4, <1>11, CommandStands
<1>12. CASE CommandCurrent(d)
  <2>1. Read(d, work[d]).pc = "current"
    BY <1>2, ReadStanding DEF Base
  <2> QED
    BY <1>3, <1>12, <2>1, CommandCurrentEffect
<1>13. CASE CommandBroadcast(d)
  BY <1>3, <1>13, CommandBroadcastEffect, ChosenStanding DEF Base, TypeInv
<1>14. CASE CommandEmit(d)
  <2>1. work[d] \in Standing /\ work'[d] = [work[d] EXCEPT !.pc = "marking"]
    BY <1>2, <1>14, CommandEmitEffect
  <2> QED
    BY <2>1 DEF Standing
<1>15. CASE ReplaceTransact(d) \/ DeleteTransact(d)
  <2>1. CASE ReplaceTransact(d)
    BY <1>4, <2>1, ReplaceTransactEffect
  <2>2. CASE DeleteTransact(d)
    <3>1. work'[d] = Idle \/ work'[d] = [Idle EXCEPT !.pc = "committed"]
      BY <2>2, DeleteTransactEffect
    <3>2. [Idle EXCEPT !.pc = "committed"].pc = "committed"
      BY <1>3 DEF Standing
    <3> QED
      BY <1>4, <3>1, <3>2
  <2> QED
    BY <1>15, <2>1, <2>2
<1>16. CASE CriticalEvict(d) \/ CriticalAsk(d)
  <2>1. CASE CriticalEvict(d)
    BY <2>1, CriticalEvictEffect DEF Idle
  <2>2. CASE CriticalAsk(d)
    BY <2>2, CriticalAsks
  <2> QED
    BY <1>16, <2>1, <2>2
<1>17. CASE CriticalDeleted(d) \/ CriticalDelivered(d)
  BY <1>3, <1>17, CriticalDeletedEffect, CriticalDeliveredEffect DEF EndsCritically
<1>18. CASE CriticalDecide(d)
  <2>1. CASE \E change \in Announcement \cup {None} :
               work'[d] = Read(d, [Idle EXCEPT !.owed = TRUE, !.change = change])
    BY <2>1 DEF Read, Idle
  <2> QED
    BY <1>3, <1>18, <2>1, CriticalDecideEffect, ChosenStanding DEF Base, TypeInv
<1>19. CASE CriticalCurrent(d)
  <2>1. work[d] \in Standing
    BY <1>2
  <2>2. [work[d] EXCEPT !.pc = "marking"].pc = "marking" /\ Chosen(d, work[d]).pc = "emit"
    BY <2>1, ChosenStanding DEF Standing, Base, TypeInv
  <2> QED
    BY <1>19, <2>2, CriticalCurrentEffect
<1>20. CASE CriticalEmit(d)
  <2>1. work[d] \in Standing
    BY <1>2
  <2>2. [work[d] EXCEPT !.pc = "marking"].pc = "marking"
    BY <2>1 DEF Standing
  <2> QED
    BY <1>3, <1>20, <2>2, CriticalEmitEffect
<1> QED
  BY <1>6, <1>7, <1>8, <1>9, <1>10, <1>11, <1>12, <1>13, <1>14, <1>15, <1>16, <1>17,
     <1>18, <1>19, <1>20 DEF Serve

\* The other steps take sockets out of documents at most.
LEMMA TaskWithdraws ==
  ASSUME Base, NEW d \in Document, Serve(d) \/ Fail(d), ~JoinEnter(d), ~JoinRegister(d)
  PROVE  Withdrawal
<1>0. Nothing => Withdrawal
  BY DEF Nothing, Withdrawal
<1>2. CASE TellStart(d) \/ TellEmit(d)
  BY <1>2, TellEffect
<1>3. CASE JoinCheck(d)
  BY <1>0, <1>3, JoinCheckEffect
<1>4. CASE JoinConfirm(d)
  <2>1. {d} \in SUBSET Document /\ {Caller(d)} \in SUBSET Socket
    BY <1>4, JoinConfirmEffect
  <2> QED
    BY <1>0, <1>4, <2>1, JoinConfirmEffect DEF Withdrawal
<1>5. CASE Authorize(d, "command") \/ Authorize(d, "lock")
  BY <1>0, <1>5, AuthorizeEffect
<1>6. CASE CommandProcess(d) \/ CommandCurrent(d)
  BY <1>0, <1>6, CommandProcessEffect, CommandCurrentEffect
<1>7. CASE CommandBroadcast(d) \/ CommandEmit(d) \/ CommandDelivered(d)
  BY <1>0, <1>7, CommandBroadcastEffect, CommandEmitEffect, CommandDeliveredEffect
<1>8. CASE LockServed(d) \/ ReplaceTransact(d) \/ ReplacePublish(d)
  BY <1>0, <1>8, LockServedEffect, ReplaceTransactEffect, ReplacePublishEffect
<1>9. CASE DeleteTransact(d) \/ DeletePublish(d)
  BY <1>0, <1>9, DeleteTransactEffect, DeletePublishEffect
<1>10. CASE CriticalEvict(d) \/ CriticalDeleted(d)
  BY <1>10, CriticalEvictEffect, CriticalDeletedEffect
<1>11. CASE CriticalAsk(d) \/ CriticalDecide(d)
  BY <1>0, <1>11, CriticalAskEffect, CriticalDecideEffect
<1>12. CASE CriticalCurrent(d) \/ CriticalEmit(d) \/ CriticalDelivered(d)
  BY <1>0, <1>12, CriticalCurrentEffect, CriticalEmitEffect, CriticalDeliveredEffect
<1>13. CASE Fail(d)
  BY <1>13, FailEffect
<1> QED
  BY <1>2, <1>3, <1>4, <1>5, <1>6, <1>7, <1>8, <1>9, <1>10, <1>11, <1>12, <1>13 DEF Serve

-----------------------------------------------------------------------------
(* The invariants of the rooms, step by step *)

\* The steps of tasks keep commands in the lines of their documents.
LEMMA SentMoves ==
  ASSUME Base, TypeInv', NEW d \in Document, Busy(d), Moves(d), SameSent
  PROVE  SentInv'
<1>1. \A o \in Op : ops'[o].doc # None => ops'[o].el \in Element
  BY DEF SameSent, Base, SentInv
<1>2. ASSUME NEW e \in Document, NEW i \in 1 .. Len(line'[e]), line'[e][i].kind = "command"
      PROVE  ops'[line'[e][i].op].doc = e
  <2> DEFINE j == i + Shift(d, e)
  <2>1. j \in 1 .. Len(line[e]) /\ line[e][j] = line'[e][i]
    BY <1>2, OldTask DEF Base
  <2> HIDE DEF j
  <2>2. ops[line'[e][i].op].doc = e
    BY <1>2, <2>1 DEF Base, SentInv
  <2>3. line'[e][i] \in Task
    BY <2>1 DEF Base, TypeInv, LineType
  <2> QED
    BY <1>2, <2>2, <2>3, TaskFields DEF SameSent
<1> QED
  BY <1>1, <1>2 DEF SentInv

\* Tasks other than commands may enter any line.
LEMMA SentGrows ==
  ASSUME Base, TypeInv', NEW K, "command" \notin K, Grows(K), SameSent
  PROVE  SentInv'
<1>1. \A o \in Op : ops'[o].doc # None => ops'[o].el \in Element
  BY DEF SameSent, Base, SentInv
<1>2. ASSUME NEW e \in Document, NEW i \in 1 .. Len(line'[e]), line'[e][i].kind = "command"
      PROVE  ops'[line'[e][i].op].doc = e
  <2>1. i \in 1 .. Len(line[e]) /\ line[e][i] = line'[e][i]
    BY <1>2, OldTasks DEF Base
  <2>2. ops[line'[e][i].op].doc = e
    BY <1>2, <2>1 DEF Base, SentInv
  <2>3. line'[e][i] \in Task
    BY <2>1 DEF Base, TypeInv, LineType
  <2> QED
    BY <1>2, <2>2, <2>3, TaskFields DEF SameSent
<1> QED
  BY <1>1, <1>2 DEF SentInv

\* A command for the operation o enters the line of d.
LEMMA SentSends ==
  ASSUME Base, TypeInv', NEW d \in Document, NEW s \in Socket, NEW o \in Op,
         line' = [line EXCEPT ![d] = Append(@, Command(s, o))],
         ops'[o].doc = d, ops'[o].el \in Element,
         \A p \in Op : p # o => ops'[p] = ops[p],
         ops[o].doc \in {None, d}
  PROVE  SentInv'
<1>1. /\ line \in LineType /\ \A p \in Op : ops[p].doc # None => ops[p].el \in Element
      /\ \A e \in Document : \A i \in 1 .. Len(line[e]) :
           line[e][i].kind = "command" => ops[line[e][i].op].doc = e
  BY DEF Base, TypeInv, SentInv
<1>2. \A p \in Op : ops'[p].doc # None => ops'[p].el \in Element
  BY <1>1
<1>3. line[d] \in Seq(Task) /\ Len(line[d]) \in Nat /\ Command(s, o) \in Task
  BY <1>1 DEF LineType, Command, Task
<1>4. /\ line'[d] = Append(line[d], Command(s, o))
      /\ \A e \in Document : e # d => line'[e] = line[e]
  BY <1>1 DEF LineType
<1>5. /\ Len(line'[d]) = Len(line[d]) + 1 /\ line'[d][Len(line[d]) + 1] = Command(s, o)
      /\ \A i \in 1 .. Len(line[d]) : line'[d][i] = line[d][i]
  BY <1>3, <1>4, AppendProperties
<1>6. None \notin Document
  BY NoneAssumption
<1>7. ASSUME NEW e \in Document, NEW i \in 1 .. Len(line'[e]), line'[e][i].kind = "command"
      PROVE  ops'[line'[e][i].op].doc = e
  <2>1. CASE e = d /\ i = Len(line[d]) + 1
    BY <1>5, <2>1 DEF Command
  <2>2. CASE i \in 1 .. Len(line[e])
    <3>1. line'[e][i] = line[e][i] /\ line[e][i] \in Task
      BY <1>1, <1>4, <1>5, <2>2 DEF LineType
    <3>2. ops[line[e][i].op].doc = e /\ line[e][i].op \in Op
      BY <1>1, <1>7, <2>2, <3>1, TaskFields
    <3>3. CASE line[e][i].op = o
      BY <1>6, <3>1, <3>2, <3>3
    <3>4. CASE line[e][i].op # o
      BY <3>1, <3>2, <3>4
    <3> QED
      BY <3>3, <3>4
  <2>3. (e = d /\ i = Len(line[d]) + 1) \/ i \in 1 .. Len(line[e])
    BY <1>3, <1>4, <1>5
  <2> QED
    BY <2>1, <2>2, <2>3
<1> QED
  BY <1>2, <1>7 DEF SentInv

\* The steps of tasks leave idle lines idle.
LEMMA IdleMoves ==
  ASSUME Base, NEW d \in Document, Busy(d), Moves(d)
  PROVE  IdleInv'
<1> SUFFICES ASSUME NEW e \in Document, line'[e] = <<>>
             PROVE  work'[e] = Idle
  BY DEF IdleInv, Busy
<1>1. CASE e # d
  BY <1>1 DEF Base, IdleInv, Busy, Moves, Ordinary, GoesOn, Ends, EndsCritically, Elsewhere
<1>2. CASE e = d
  BY <1>2, HeadGoesOn DEF Base, Moves, Ordinary, Ends, EndsCritically
<1> QED
  BY <1>1, <1>2

\* New tasks leave idle lines idle, for they have not begun.
LEMMA IdleGrows ==
  ASSUME Base, NEW K, Grows(K)
  PROVE  IdleInv'
  BY HeadKept DEF Base, TypeInv, IdleInv, Busy, Grows

\* A withdrawal keeps the stores in agreement.
LEMMA RoomsKept ==
  ASSUME Base, TypeInv', Withdrawal,
         \A e \in Document : Undisturbed(e) \/ ~At(e, "join", "entered")
  PROVE  RoomInv' /\ LocksHeldByParticipants'
<1>1. PICK S \in SUBSET Socket, D \in SUBSET Document : Withdrawn(S, D)
  BY DEF Withdrawal
<1>2. ASSUME NEW s \in Socket, NEW e \in Document
      PROVE  LET gone == s \in S /\ e \in D IN
             /\ s \in sock'.room[e] <=> s \in sock.room[e] /\ ~gone
             /\ e \in sock'.joined[s] <=> e \in sock.joined[s] /\ ~gone
             /\ s \in present'[e] <=> s \in present[e] /\ ~gone
  BY <1>1 DEF Withdrawn
<1>3. /\ \A s \in sock.connected : s \in sock'.connected \/ (s \in S /\ D = Document)
      /\ sock'.doomed \subseteq sock'.connected
      /\ \A e \in Document, x \in Element :
           \/ held'[e][x] \in {None} \cup present'[e]
           \/ held'[e][x] = held[e][x] /\ ~(held[e][x] \in S /\ e \in D)
  BY <1>1 DEF Withdrawn
<1>4. ASSUME NEW s \in Socket, NEW e \in Document, Entering(s, e), Undisturbed(e)
      PROVE  Entering(s, e)'
  BY <1>4 DEF Entering, Undisturbed, At, Busy, Caller
<1>5. ASSUME NEW e \in Document, NEW s \in Socket
      PROVE  /\ (e \in sock'.joined[s]) <=> (s \in present'[e])
             /\ e \in sock'.joined[s] => s \in sock'.room[e]
             /\ s \in sock'.room[e] => s \in sock'.connected
  BY <1>2, <1>3 DEF Base, RoomInv
<1>6. ASSUME NEW e \in Document, NEW s \in Socket, s \in sock'.room[e]
      PROVE  e \in sock'.joined[s] \/ Entering(s, e)'
  <2>1. s \in sock.room[e] /\ ~(s \in S /\ e \in D)
    BY <1>2, <1>6
  <2>2. e \in sock.joined[s] \/ Entering(s, e)
    BY <2>1 DEF Base, RoomInv
  <2>3. CASE e \in sock.joined[s]
    BY <1>2, <2>1, <2>3
  <2>4. CASE Entering(s, e)
    BY <1>4, <2>4 DEF Entering
  <2> QED
    BY <2>2, <2>3, <2>4
<1>7. RoomInv'
  BY <1>3, <1>5, <1>6 DEF RoomInv
<1>8. ASSUME NEW e \in Document, NEW x \in Element, held'[e][x] # None
      PROVE  held'[e][x] \in present'[e]
  <2>1. CASE held'[e][x] = held[e][x] /\ ~(held[e][x] \in S /\ e \in D)
    <3>1. held[e][x] \in present[e]
      BY <1>8, <2>1 DEF Base, LocksHeldByParticipants
    <3>2. held[e][x] \in Socket
      BY <3>1 DEF Base, TypeInv, PresentType
    <3> QED
      BY <1>2, <2>1, <3>1, <3>2
  <2> QED
    BY <1>3, <1>8, <2>1
<1> QED
  BY <1>7, <1>8 DEF LocksHeldByParticipants

\* A socket whose join has entered the room is in it, or has left the document.
EnteredInv ==
  \A d \in Document :
    At(d, "join", "entered") /\ JoinActive(Caller(d), d) => Caller(d) \in sock.room[d]

\* The join that enters is the only one in the room that has not joined.
LEMMA RoomsEntered ==
  ASSUME Base, NEW d \in Document, JoinEnter(d)
  PROVE  RoomInv' /\ LocksHeldByParticipants'
<1>1. TypeInv' /\ Moves(d) /\ Busy(d) /\ Head(line[d]).kind = "join" /\ work[d].pc = "authorized"
  BY JoinEnterEffect DEF JoinEnter, At, Moves
<1>2. ASSUME NEW e \in Document
      PROVE  Undisturbed(e) \/ ~At(e, "join", "entered")
  BY <1>1, <1>2, OthersUndisturbed DEF Base, At
<1>3. CASE Nothing
  BY <1>1, <1>2, <1>3, RoomsKept DEF Nothing, Withdrawal
<1>4. CASE /\ Caller(d) \in sock.connected
           /\ sock' = [sock EXCEPT !.room[d] = @ \cup {Caller(d)}]
           /\ UNCHANGED <<present, held, known>>
           /\ GoesOn(d) /\ work'[d] = [work[d] EXCEPT !.pc = "entered"]
  <2>1. sock \in SockType /\ work[d] \in Standing /\ RoomInv
    BY DEF Base, TypeInv
  <2>2. /\ \A s \in Socket, e \in Document :
             s \in sock'.room[e] <=> s \in sock.room[e] \/ (s = Caller(d) /\ e = d)
        /\ sock'.joined = sock.joined /\ sock'.connected = sock.connected
        /\ sock'.doomed = sock.doomed
    BY <1>4, <2>1 DEF SockType
  <2>3. ASSUME NEW s \in Socket, s = Caller(d)
        PROVE  Entering(s, d)'
    <3>1. line'[d] # <<>> /\ Head(line'[d]) = Head(line[d])
      BY <1>1, <1>4, HeadGoesOn DEF Base
    <3>2. work'[d].pc = "entered"
      BY <1>4, <2>1 DEF Standing
    <3> QED
      BY <1>1, <2>3, <3>1, <3>2 DEF Entering, At, Busy, Caller
  <2>4. ASSUME NEW s \in Socket, NEW e \in Document, Entering(s, e)
        PROVE  Entering(s, e)'
    BY <1>2, <2>4 DEF Entering, Undisturbed, At, Busy, Caller
  <2>5. ASSUME NEW e \in Document, NEW s \in Socket
        PROVE  /\ (e \in sock'.joined[s]) <=> (s \in present'[e])
               /\ e \in sock'.joined[s] => s \in sock'.room[e]
               /\ s \in sock'.room[e] => s \in sock'.connected
    BY <1>4, <2>1, <2>2 DEF RoomInv
  <2>6. ASSUME NEW e \in Document, NEW s \in Socket, s \in sock'.room[e]
        PROVE  e \in sock'.joined[s] \/ Entering(s, e)'
    BY <2>1, <2>2, <2>3, <2>4, <2>6 DEF RoomInv
  <2>7. RoomInv'
    BY <2>1, <2>2, <2>5, <2>6 DEF RoomInv
  <2>8. LocksHeldByParticipants'
    BY <1>4 DEF Base, LocksHeldByParticipants
  <2> QED
    BY <2>7, <2>8
<1> QED
  BY <1>3, <1>4, JoinEnterEffect

\* The join that is registered has joined, and is in the room.
LEMMA RoomsRegistered ==
  ASSUME Base, EnteredInv, NEW d \in Document, JoinRegister(d)
  PROVE  RoomInv' /\ LocksHeldByParticipants'
<1>1. /\ TypeInv' /\ Moves(d) /\ Busy(d) /\ Head(line[d]).kind = "join"
      /\ work[d].pc = "entered" /\ Caller(d) \in Socket
  BY JoinRegisterEffect DEF JoinRegister, At, Moves
<1>2. /\ sock \in SockType /\ present \in PresentType /\ RoomInv /\ LocksHeldByParticipants
      /\ held \in HeldType
  BY DEF Base, TypeInv
<1>3. ASSUME NEW e \in Document, e # d PROVE Undisturbed(e)
  BY <1>1, <1>3, OthersUndisturbed DEF Base
<1>4. ASSUME NEW s \in Socket, NEW e \in Document, Entering(s, e)
      PROVE  Entering(s, e)' \/ (s = Caller(d) /\ e = d)
  <2>1. CASE e # d
    BY <1>3, <1>4, <2>1 DEF Entering, Undisturbed, At, Busy, Caller
  <2>2. CASE e = d
    BY <1>4, <2>2 DEF Entering
  <2> QED
    BY <2>1, <2>2
<1>5. CASE Withdrawn({Caller(d)}, {d})
  <2>1. ASSUME NEW s \in Socket, NEW e \in Document
        PROVE  LET gone == s = Caller(d) /\ e = d IN
               /\ s \in sock'.room[e] <=> s \in sock.room[e] /\ ~gone
               /\ e \in sock'.joined[s] <=> e \in sock.joined[s] /\ ~gone
               /\ s \in present'[e] <=> s \in present[e] /\ ~gone
    BY <1>5 DEF Withdrawn
  <2>2. /\ sock'.connected = sock.connected
        /\ sock'.doomed \subseteq sock'.connected
        /\ \A e \in Document, x \in Element :
             \/ held'[e][x] \in {None} \cup present'[e]
             \/ held'[e][x] = held[e][x] /\ ~(held[e][x] = Caller(d) /\ e = d)
    <3>1. sock'.connected = sock.connected
      BY JoinElsewhere DEF SocksElsewhere
    <3> QED
      BY <1>5, <3>1 DEF Withdrawn
  <2>3. ASSUME NEW e \in Document, NEW s \in Socket
        PROVE  /\ (e \in sock'.joined[s]) <=> (s \in present'[e])
               /\ e \in sock'.joined[s] => s \in sock'.room[e]
               /\ s \in sock'.room[e] => s \in sock'.connected
    BY <1>2, <2>1, <2>2 DEF RoomInv
  <2>4. ASSUME NEW e \in Document, NEW s \in Socket, s \in sock'.room[e]
        PROVE  e \in sock'.joined[s] \/ Entering(s, e)'
    BY <1>2, <1>4, <2>1, <2>4 DEF RoomInv
  <2>5. RoomInv'
    BY <2>2, <2>3, <2>4 DEF RoomInv
  <2>6. ASSUME NEW e \in Document, NEW x \in Element, held'[e][x] # None
        PROVE  held'[e][x] \in present'[e]
    <3>1. CASE held'[e][x] = held[e][x] /\ ~(held[e][x] = Caller(d) /\ e = d)
      <4>1. held[e][x] \in present[e] /\ held[e][x] \in Socket
        BY <1>2, <2>6, <3>1 DEF LocksHeldByParticipants, PresentType
      <4> QED
        BY <2>1, <3>1, <4>1
    <3> QED
      BY <2>2, <2>6, <3>1
  <2> QED
    BY <2>5, <2>6 DEF LocksHeldByParticipants
<1>6. CASE /\ Caller(d) \in sock.connected
           /\ sock' = [sock EXCEPT !.joined[Caller(d)] = @ \cup {d},
                                   !.pending[Caller(d)] = @ \ {d}]
           /\ present' = [present EXCEPT ![d] = @ \cup {Caller(d)}]
           /\ UNCHANGED <<held, known>>
           /\ GoesOn(d) /\ work'[d].pc = "registered" /\ work'[d].rev = work[d].rev
  <2>1. /\ \A s \in Socket, e \in Document :
             e \in sock'.joined[s] <=> e \in sock.joined[s] \/ (s = Caller(d) /\ e = d)
        /\ sock'.room = sock.room /\ sock'.connected = sock.connected
        /\ sock'.doomed = sock.doomed
    BY <1>1, <1>2, <1>6 DEF SockType
  <2>2. \A s \in Socket, e \in Document :
          s \in present'[e] <=> s \in present[e] \/ (s = Caller(d) /\ e = d)
    BY <1>1, <1>2, <1>6 DEF PresentType
  <2>3. Caller(d) \in sock.room[d]
    <3>1. JoinActive(Caller(d), d)
      <4>1. CASE ~JoinActive(Caller(d), d)
        <5>1. JoinFails(Caller(d), d, [sock EXCEPT !.room[d] = @ \ {Caller(d)}])
          BY <4>1 DEF JoinRegister
        <5>2. work'[d] = Idle
          BY <1>2, <5>1 DEF JoinFails, Done, Goto, Base, TypeInv
        <5> QED
          BY <1>6, <5>2, IdleStanding
      <4> QED
        BY <4>1
    <3> QED
      BY <1>1, <3>1 DEF EnteredInv, At
  <2>4. ASSUME NEW e \in Document, NEW s \in Socket
        PROVE  /\ (e \in sock'.joined[s]) <=> (s \in present'[e])
               /\ e \in sock'.joined[s] => s \in sock'.room[e]
               /\ s \in sock'.room[e] => s \in sock'.connected
    BY <1>2, <2>1, <2>2, <2>3 DEF RoomInv
  <2>5. ASSUME NEW e \in Document, NEW s \in Socket, s \in sock'.room[e]
        PROVE  e \in sock'.joined[s] \/ Entering(s, e)'
    BY <1>2, <1>4, <2>1, <2>5 DEF RoomInv
  <2>6. RoomInv'
    BY <1>2, <2>1, <2>4, <2>5 DEF RoomInv
  <2>7. LocksHeldByParticipants'
    <3>1. ASSUME NEW e \in Document, NEW x \in Element, held'[e][x] # None
          PROVE  held'[e][x] \in present'[e]
      <4>1. held[e][x] \in present[e] /\ held[e][x] \in Socket
        BY <1>2, <1>6, <3>1 DEF LocksHeldByParticipants, PresentType
      <4> QED
        BY <1>6, <2>2, <4>1
    <3> QED
      BY <3>1 DEF LocksHeldByParticipants
  <2> QED
    BY <2>6, <2>7
<1> QED
  BY <1>5, <1>6, JoinRegisterEffect

\* The part of the inductive invariant that every other part needs.
Core == Base /\ EnteredInv

\* A join that has entered and may go on is still in the room.
LEMMA EnteredTask ==
  ASSUME Core, NEW d \in Document, Serve(d) \/ Fail(d)
  PROVE  EnteredInv'
<1>1. TypeInv' /\ Moves(d) /\ Busy(d) /\ SocksElsewhere(d) /\ Base
  BY TaskEffect, TaskElsewhere DEF Core
<1> SUFFICES ASSUME NEW e \in Document, At(e, "join", "entered")',
                    NEW s \in Socket, s = Caller(e)', JoinActive(s, e)'
             PROVE  s \in sock'.room[e]
  <2>1. ASSUME NEW e \in Document, At(e, "join", "entered")' PROVE Caller(e)' \in Socket
    <3>1. line'[e] \in Seq(Task) /\ line'[e] # <<>> /\ Head(line'[e]).kind = "join"
      BY <1>1, <2>1 DEF TypeInv, LineType, At, Busy
    <3>2. Head(line'[e]) \in Task
      BY <3>1
    <3> QED
      BY <3>1, <3>2, TaskFields DEF Caller
  <2> QED
    BY <2>1 DEF EnteredInv
<1>2. CASE e # d
  <2>1. line'[e] = line[e] /\ work'[e] = work[e]
    BY <1>1, <1>2 DEF Moves, Ordinary, GoesOn, Ends, EndsCritically, Elsewhere
  <2>2. At(e, "join", "entered") /\ s = Caller(e)
    BY <2>1 DEF At, Busy, Caller
  <2>3. JoinActive(s, e) /\ (s \in sock.room[e] <=> s \in sock'.room[e])
    BY <1>1, <1>2 DEF JoinActive, SocksElsewhere
  <2> QED
    BY <2>2, <2>3 DEF Core, EnteredInv
<1>3. CASE e = d
  <2>1. work'[d].pc = "entered"
    BY <1>3 DEF At
  <2>2. Idle.pc = "start"
    BY IdleStanding
  <2>3. CASE JoinEnter(d)
    <3>1. /\ sock' = [sock EXCEPT !.room[d] = @ \cup {Caller(d)}]
          /\ GoesOn(d)
      BY <1>1, <2>1, <2>2, <2>3, JoinEnterEffect
    <3>2. Head(line'[d]) = Head(line[d])
      BY <1>1, <3>1, HeadGoesOn DEF Base
    <3>3. s = Caller(d)
      BY <1>3, <3>2 DEF Caller
    <3> QED
      BY <1>1, <1>3, <3>1, <3>3 DEF Base, TypeInv, SockType
  <2>4. CASE JoinRegister(d)
    BY <1>1, <2>1, <2>2, <2>4, JoinRegisterEffect
  <2> QED
    BY <1>1, <2>1, <2>3, <2>4, TaskStands
<1> QED
  BY <1>2, <1>3

\* The steps of tasks keep Core.
LEMMA CoreTask ==
  ASSUME Core, NEW d \in Document, Serve(d) \/ Fail(d)
  PROVE  Core'
<1>1. /\ TypeInv' /\ Moves(d) /\ Busy(d) /\ SameSent /\ EnteredInv'
      /\ Base /\ EnteredInv
  BY TaskEffect, TaskSent, EnteredTask DEF Core
<1>2. TurnInv' /\ SentInv' /\ IdleInv'
  BY <1>1, TurnMoves, SentMoves, IdleMoves DEF Base
<1>3. RoomInv' /\ LocksHeldByParticipants'
  <2>1. CASE JoinEnter(d)
    BY <1>1, <2>1, RoomsEntered
  <2>2. CASE JoinRegister(d)
    BY <1>1, <2>2, RoomsRegistered
  <2>3. CASE ~JoinEnter(d) /\ ~JoinRegister(d)
    <3>1. Withdrawal /\ ~At(d, "join", "entered")
      BY <1>1, <2>3, TaskWithdraws, TaskStands
    <3>2. \A e \in Document : Undisturbed(e) \/ ~At(e, "join", "entered")
      BY <1>1, <3>1, OthersUndisturbed DEF Base
    <3> QED
      BY <1>1, <3>1, <3>2, RoomsKept
  <2> QED
    BY <2>1, <2>2, <2>3
<1> QED
  BY <1>1, <1>2, <1>3 DEF Core, Base

\* A socket that has entered a room and stays active is not taken out of it.
ActiveKept ==
  \A s \in Socket, e \in Document :
    Entering(s, e) /\ JoinActive(s, e)' =>
      JoinActive(s, e) /\ (s \in sock.room[e] => s \in sock'.room[e])

\* A step outside the lines keeps Core if it keeps the turns, the commands and the
\* joins.
LEMMA CoreRest ==
  ASSUME Core, TypeInv', TurnInv', SentInv', NEW K, Grows(K), Withdrawal, ActiveKept
  PROVE  Core'
<1>1. \A e \in Document : Undisturbed(e)
  BY AllUndisturbed DEF Core, Base
<1>2. IdleInv' /\ RoomInv' /\ LocksHeldByParticipants'
  BY <1>1, IdleGrows, RoomsKept DEF Core
<1>3. ASSUME NEW e \in Document, At(e, "join", "entered")', JoinActive(Caller(e), e)'
      PROVE  Caller(e)' \in sock'.room[e]
  <2>1. Busy(e)
    <3>1. CASE ~Busy(e)
      BY <1>3, <3>1, IdleStanding DEF Grows, Core, Base, IdleInv, At
    <3> QED
      BY <3>1
  <2>2. At(e, "join", "entered") /\ Caller(e)' = Caller(e)
    BY <1>1, <1>3, <2>1 DEF Undisturbed, At, Busy, Caller
  <2>3. Caller(e) \in Socket
    BY <2>1, <2>2, JoinCaller DEF Core, Base, At
  <2>4. Entering(Caller(e), e)
    BY <2>2 DEF Entering
  <2>5. PICK s \in Socket : s = Caller(e)
    BY <2>3
  <2>6. Entering(s, e) /\ JoinActive(s, e)'
    BY <1>3, <2>2, <2>4, <2>5
  <2>7. JoinActive(s, e) /\ (s \in sock.room[e] => s \in sock'.room[e])
    BY <2>6 DEF ActiveKept
  <2> QED
    BY <2>2, <2>5, <2>7 DEF Core, EnteredInv
<1>4. EnteredInv'
  BY <1>3 DEF EnteredInv
<1> QED
  BY <1>2, <1>4 DEF Core, Base

\* The same, for steps that put neither joins nor commands into a line.
LEMMA CoreGrows ==
  ASSUME Core, TypeInv', NEW K, "join" \notin K, "command" \notin K,
         Grows(K), SameSent, Withdrawal \/ Nothing, ActiveKept
  PROVE  Core'
<1>1. TurnInv' /\ SentInv'
  BY TurnGrows, SentGrows DEF Core, Base
<1>2. Withdrawal
  BY DEF Nothing, Withdrawal
<1> QED
  BY <1>1, <1>2, CoreRest

\* No join is disturbed if the sockets stay where they are.
LEMMA ActiveSame ==
  ASSUME sock'.connected = sock.connected, sock'.room = sock.room,
         sock'.joined = sock.joined, sock'.pending = sock.pending
  PROVE  ActiveKept
  BY DEF ActiveKept, JoinActive

\* A join that enters the line keeps Core.
LEMMA CoreBegin ==
  ASSUME Core, NEW s \in Socket, BeginJoin(s)
  PROVE  Core'
<1>1. Base
  BY DEF Core
<1>2. TypeInv' /\ Withdrawal /\ SameSent
  BY <1>1, BeginJoinEffect DEF Nothing, Withdrawal, BeginJoin, SameSent
<1>3. TurnInv'
  BY <1>1, <1>2, TurnBegins
<1>4. PICK K \in {{}, {"join"}} : Grows(K)
  BY <1>1, BeginJoinEffect
<1>5. SentInv'
  BY <1>1, <1>2, <1>4, SentGrows
<1>6. ActiveKept
  <2> DEFINE d == Head(sock.joins[s])
  <2>1. sock \in SockType
    BY <1>1, SockKept
  <2>2. \/ sock' = [sock EXCEPT !.turn = @ \cup {s}]
        \/ sock' = [sock EXCEPT !.joins[s] = Tail(@), !.pending[s] = @ \ {d}]
    BY DEF BeginJoin
  <2> HIDE DEF d
  <2>3. CASE sock' = [sock EXCEPT !.turn = @ \cup {s}]
    <3>1. /\ sock'.connected = sock.connected /\ sock'.room = sock.room
          /\ sock'.joined = sock.joined /\ sock'.pending = sock.pending
      BY <2>1, <2>3 DEF SockType
    <3> QED
      BY <3>1, ActiveSame
  <2>4. CASE sock' = [sock EXCEPT !.joins[s] = Tail(@), !.pending[s] = @ \ {d}]
    <3>1. /\ sock'.connected = sock.connected /\ sock'.room = sock.room
          /\ sock'.joined = sock.joined
          /\ sock'.pending = [sock.pending EXCEPT ![s] = @ \ {d}]
      BY <2>1, <2>4 DEF SockType
    <3>2. \A r \in Socket, e \in Document : e \in sock'.pending[r] => e \in sock.pending[r]
      BY <2>1, <3>1 DEF SockType
    <3> QED
      BY <3>1, <3>2 DEF ActiveKept, JoinActive
  <2> QED
    BY <2>2, <2>3, <2>4
<1> QED
  BY <1>2, <1>3, <1>4, <1>5, <1>6, CoreRest

\* The requests of the clients keep Core.
LEMMA CoreRequest ==
  ASSUME Core, NEW s \in Socket, NEW d \in Document,
         \/ RequestJoin(s, d) \/ RequestDelete(s, d)
         \/ \E E \in SUBSET Element : RequestReplace(s, d, E)
         \/ \E x \in Element : RequestLock(s, d, x)
  PROVE  Core'
<1>1. Base /\ sock \in SockType
  BY SockKept DEF Core
<1>2. SameSent
  BY DEF SameSent, RequestJoin, RequestDelete, RequestReplace, RequestLock
<1>3. \E K \in {{}, {"delete"}, {"put"}, {"lock"}} : Grows(K) /\ TypeInv' /\ Nothing
  BY <1>1, RequestEffect
<1>4. ActiveKept
  <2>1. CASE RequestJoin(s, d)
    <3>1. sock' = [sock EXCEPT !.pending[s] = @ \cup {d}, !.joins[s] = Append(@, d)]
          /\ ~Entering(s, d)
      BY <2>1 DEF RequestJoin
    <3>2. /\ sock'.connected = sock.connected /\ sock'.room = sock.room
          /\ sock'.joined = sock.joined
          /\ \A r \in Socket, e \in Document :
               e \in sock'.pending[r] => e \in sock.pending[r] \/ (r = s /\ e = d)
      BY <1>1, <3>1 DEF SockType
    <3> QED
      BY <3>1, <3>2 DEF ActiveKept, JoinActive
  <2>2. CASE sock' = sock
    BY <2>2, ActiveSame
  <2> QED
    BY <2>1, <2>2 DEF RequestDelete, RequestReplace, RequestLock
<1>5. PICK K \in {{}, {"delete"}, {"put"}, {"lock"}} : Grows(K) /\ TypeInv' /\ Nothing
  BY <1>3
<1> QED
  BY <1>2, <1>4, <1>5, CoreGrows

\* Leaving, losing the connection and coming back keep Core.
LEMMA CoreLeave ==
  ASSUME Core, NEW s \in Socket,
         \/ \E d \in Document : Leave(s, d)
         \/ Disconnect(s) \/ Expel(s) \/ Reconnect(s)
  PROVE  Core'
<1>1. Base /\ sock \in SockType
  BY SockKept DEF Core
<1>2. SameSent
  BY DEF SameSent, Leave, Disconnect, Expel, Leaves, Reconnect
<1>3. CASE \E d \in Document : Leave(s, d)
  <2>1. PICK d \in Document : Leave(s, d)
    BY <1>3
  <2>2. TypeInv' /\ Grows({"tell"}) /\ Withdrawal
    BY <1>1, <2>1, LeaveEffect
  <2>3. {s} \in SUBSET Socket
    OBVIOUS
  <2>4. CASE sock' = Doomed({s})
    BY <1>1, <1>2, <2>2, <2>3, <2>4, DoomedSock, ActiveSame, CoreGrows
  <2>5. CASE sock' = SockWithout({s}, d)
    <3>1. sock'.connected = sock.connected
      BY <1>1, <2>3, <2>5, WithoutSock
    <3>2. \A r \in Socket, e \in Document :
            LET gone == r \in {s} /\ e = d IN
            /\ r \in sock'.room[e] <=> r \in sock.room[e] /\ ~gone
            /\ e \in sock'.joined[r] <=> e \in sock.joined[r] /\ ~gone
            /\ e \in sock'.pending[r] <=> e \in sock.pending[r] /\ ~gone
      BY <1>1, <2>3, <2>5, WithoutRoom
    <3>3. ActiveKept
      BY <3>1, <3>2 DEF ActiveKept, JoinActive
    <3> QED
      BY <1>2, <2>2, <3>3, CoreGrows
  <2>6. CASE sock' = [sock EXCEPT !.pending[s] = @ \ {d}]
    <3>1. /\ sock'.connected = sock.connected /\ sock'.room = sock.room
          /\ sock'.joined = sock.joined
          /\ \A r \in Socket, e \in Document : e \in sock'.pending[r] => e \in sock.pending[r]
      BY <1>1, <2>6 DEF SockType
    <3>2. ActiveKept
      BY <3>1 DEF ActiveKept, JoinActive
    <3> QED
      BY <1>2, <2>2, <3>2, CoreGrows
  <2> QED
    BY <2>1, <2>4, <2>5, <2>6 DEF Leave
<1>4. CASE Disconnect(s) \/ Expel(s)
  <2>1. TypeInv' /\ Grows({"tell"}) /\ Withdrawal
    BY <1>1, <1>4, DisconnectEffect
  <2>2. sock' = [sock EXCEPT !.connected = @ \ {s}, !.doomed = @ \ {s},
                             !.room = [d \in Document |-> @[d] \ {s}],
                             !.joined[s] = {}, !.pending[s] = {}]
    BY <1>4 DEF Disconnect, Expel, Leaves
  <2>3. /\ sock'.connected = sock.connected \ {s}
        /\ \A r \in Socket, e \in Document :
             /\ r \in sock'.room[e] <=> r \in sock.room[e] /\ r # s
             /\ e \in sock'.joined[r] => e \in sock.joined[r]
             /\ e \in sock'.pending[r] => e \in sock.pending[r]
    BY <1>1, <2>2 DEF SockType
  <2>4. ActiveKept
    BY <2>3 DEF ActiveKept, JoinActive
  <2> QED
    BY <1>2, <2>1, <2>4, CoreGrows
<1>5. CASE Reconnect(s)
  <2>1. TypeInv' /\ Grows({}) /\ Nothing
    BY <1>1, <1>5, ReconnectEffect
  <2>2. /\ sock' = [sock EXCEPT !.connected = @ \cup {s}]
        /\ \A d \in Document : \A i \in DOMAIN line[d] : ~IsTaskOf(line[d][i], s)
    BY <1>5 DEF Reconnect
  <2>3. /\ sock'.connected = sock.connected \cup {s} /\ sock'.room = sock.room
        /\ sock'.joined = sock.joined /\ sock'.pending = sock.pending
    BY <1>1, <2>2 DEF SockType
  <2>4. ASSUME NEW e \in Document, Entering(s, e) PROVE FALSE
    <3>1. /\ Busy(e) /\ Head(line[e]).kind = "join" /\ Head(line[e]).sock = s
      BY <2>4 DEF Entering, At, Caller
    <3>2. Head(line[e]) = line[e][1] /\ 1 \in 1 .. Len(line[e])
      BY <1>1, <3>1, HeadTask DEF Base
    <3>3. 1 \in DOMAIN line[e]
      BY <1>1, <3>2 DEF Base, TypeInv, LineType
    <3> QED
      BY <2>2, <3>1, <3>2, <3>3 DEF IsTaskOf
  <2>5. ActiveKept
    BY <2>3, <2>4 DEF ActiveKept, JoinActive
  <2> QED
    BY <1>2, <2>1, <2>5, CoreGrows
<1> QED
  BY <1>3, <1>4, <1>5

\* Sending operations, once or again, keeps Core.
LEMMA CoreSend ==
  ASSUME Core, NEW s \in Socket, NEW o \in Op,
         (\E d \in Document : SendCommand(s, d, o)) \/ ResendCommand(s, o)
  PROVE  Core'
<1>1. Base
  BY DEF Core
<1>2. TypeInv' /\ Grows({"command"}) /\ Nothing /\ SentInv'
  <2>1. CASE \E d \in Document : SendCommand(s, d, o)
    <3>1. PICK d \in Document : SendCommand(s, d, o)
      BY <2>1
    <3> QED
      BY <1>1, <3>1, SendEffect, SentSends
  <2>2. CASE ResendCommand(s, o)
    <3>1. /\ TypeInv' /\ Grows({"command"}) /\ Nothing
          /\ ops[o].doc \in Document
          /\ line' = [line EXCEPT ![ops[o].doc] = Append(@, Command(s, o))]
          /\ ops' = ops
      BY <1>1, <2>2, ResendEffect
    <3>2. ops[o].el \in Element
      BY <1>1, <3>1, NoneAssumption DEF Base, SentInv
    <3> QED
      BY <1>1, <3>1, <3>2, SentSends
  <2> QED
    BY <2>1, <2>2
<1>3. TurnInv'
  BY <1>1, <1>2, TurnGrows DEF Base
<1>4. ActiveKept
  BY ActiveSame DEF SendCommand, ResendCommand
<1>5. Withdrawal
  BY <1>2 DEF Nothing, Withdrawal
<1> QED
  BY <1>2, <1>3, <1>4, <1>5, CoreRest

\* Buses, timers, leases and the project keep Core.
LEMMA CoreOthers ==
  ASSUME Core,
         \/ \E p \in outbox : Publish(p)
         \/ \E d \in Document : RetryTimer(d)
         \/ ScanAsk \/ ScanAnswer
         \/ \E d \in Document, x \in Element : LockExpires(d, x)
         \/ Project
  PROVE  Core'
<1>1. Base
  BY DEF Core
<1>2. CASE \E p \in outbox : Publish(p)
  <2>1. PICK p \in outbox : Publish(p)
    BY <1>2
  <2>2. TypeInv' /\ Grows({"critical"}) /\ Nothing
    BY <1>1, <2>1, PublishEffect
  <2>3. SameSent
    BY <2>1 DEF Publish, SameSent
  <2>4. CASE sock' = sock
    BY <2>2, <2>3, <2>4, ActiveSame, CoreGrows
  <2>5. CASE sock' = Doomed({s \in Socket : SessionOf[s] = p.session})
    <3> DEFINE S == {s \in Socket : SessionOf[s] = p.session}
    <3>1. S \in SUBSET Socket /\ sock \in SockType /\ sock' = Doomed(S)
      BY <1>1, <2>5, SockKept
    <3> HIDE DEF S
    <3> QED
      BY <2>2, <2>3, <3>1, DoomedSock, ActiveSame, CoreGrows
  <2> QED
    BY <2>1, <2>4, <2>5 DEF Publish
<1>3. CASE (\E d \in Document : RetryTimer(d)) \/ ScanAsk \/ ScanAnswer
  <2>1. TypeInv' /\ Grows({"critical"}) /\ Nothing
    BY <1>1, <1>3, RetryEffect, ScanEffect
  <2>2. SameSent /\ sock' = sock
    BY <1>3 DEF RetryTimer, ScanAsk, ScanAnswer, SameSent
  <2> QED
    BY <2>1, <2>2, ActiveSame, CoreGrows
<1>4. CASE \E d \in Document, x \in Element : LockExpires(d, x)
  <2>1. TypeInv' /\ Grows({"tell"}) /\ Nothing
    BY <1>1, <1>4, LockExpiresEffect
  <2>2. SameSent /\ sock' = sock
    BY <1>4 DEF LockExpires, SameSent
  <2> QED
    BY <2>1, <2>2, ActiveSame, CoreGrows
<1>5. CASE Project
  <2>1. /\ TypeInv' /\ Grows({}) /\ Nothing /\ sock' = sock
        /\ \A o \in Op : /\ ops'[o].doc = ops[o].doc /\ ops'[o].el = ops[o].el
    BY <1>1, <1>5, ProjectEffect DEF Project
  <2> QED
    BY <2>1, ActiveSame, CoreGrows DEF SameSent
<1> QED
  BY <1>2, <1>3, <1>4, <1>5

\* A process that has just started satisfies Core.
LEMMA CoreFresh ==
  ASSUME TypeInv, \A o \in Op : ops[o].doc # None => ops[o].el \in Element,
         sock.doomed = {},
         \A d \in Document : /\ line[d] = <<>> /\ work[d] = Idle /\ present[d] = {}
                             /\ sock.room[d] = {} /\ held[d] = NoLocks,
         \A s \in Socket : sock.joined[s] = {}
  PROVE  Core
<1>1. \A d \in Document : 1 .. Len(line[d]) = {} /\ ~Busy(d)
  BY DEF Busy
<1>2. TurnInv /\ SentInv /\ IdleInv /\ EnteredInv
  BY <1>1 DEF TurnInv, SentInv, IdleInv, EnteredInv, At
<1>3. RoomInv /\ LocksHeldByParticipants
  BY DEF RoomInv, LocksHeldByParticipants, NoLocks
<1> QED
  BY <1>2, <1>3 DEF Core, Base

\* A crash establishes Core again.
LEMMA CoreCrash ==
  ASSUME Core, Crash
  PROVE  Core'
<1>1. Base
  BY DEF Core
<1>2. /\ TypeInv' /\ ops' = ops
      /\ \A d \in Document :
           /\ line'[d] = <<>> /\ work'[d] = Idle /\ present'[d] = {}
           /\ sock'.room[d] = {} /\ held'[d] = NoLocks
      /\ \A s \in Socket : sock'.joined[s] = {}
      /\ sock'.doomed = {}
  BY <1>1, CrashEffect
<1>3. \A o \in Op : ops'[o].doc # None => ops'[o].el \in Element
  BY <1>1, <1>2 DEF Base, SentInv
<1>4. \A d \in Document : 1 .. Len(line'[d]) = {} /\ ~Busy(d)'
  BY <1>2 DEF Busy
<1>5. TurnInv' /\ SentInv' /\ IdleInv' /\ EnteredInv'
  BY <1>2, <1>3, <1>4 DEF TurnInv, SentInv, IdleInv, EnteredInv, At
<1>6. RoomInv' /\ LocksHeldByParticipants'
  BY <1>2 DEF RoomInv, LocksHeldByParticipants, NoLocks
<1> QED
  BY <1>2, <1>5, <1>6 DEF Core, Base

\* Every step keeps Core.
LEMMA CoreStep ==
  ASSUME Core, [Next]_vars
  PROVE  Core'
<1>1. CASE (\E d \in Document : Serve(d)) \/ (\E d \in Document : Fail(d))
  BY <1>1, CoreTask
<1>2. CASE \E s \in Socket : BeginJoin(s)
  BY <1>2, CoreBegin
<1>3. CASE \E s \in Socket, d \in Document :
             \/ RequestJoin(s, d) \/ RequestDelete(s, d)
             \/ \E E \in SUBSET Element : RequestReplace(s, d, E)
             \/ \E x \in Element : RequestLock(s, d, x)
  BY <1>3, CoreRequest
<1>4. CASE \E s \in Socket : \/ \E d \in Document : Leave(s, d)
                             \/ Disconnect(s) \/ Expel(s) \/ Reconnect(s)
  BY <1>4, CoreLeave
<1>5. CASE \E s \in Socket, o \in Op :
             (\E d \in Document : SendCommand(s, d, o)) \/ ResendCommand(s, o)
  BY <1>5, CoreSend
<1>6. CASE \/ \E p \in outbox : Publish(p)
           \/ \E d \in Document : RetryTimer(d)
           \/ ScanAsk \/ ScanAnswer
           \/ \E d \in Document, x \in Element : LockExpires(d, x)
           \/ Project
  BY <1>6, CoreOthers
<1>7. CASE Crash
  BY <1>7, CoreCrash
<1>8. CASE UNCHANGED vars
  BY <1>8 DEF vars, Core, Base, TypeInv, TurnInv, SentInv, RoomInv, LocksHeldByParticipants,
     IdleInv, EnteredInv, Entering, At, Busy, Caller, JoinActive
<1> QED
  BY <1>1, <1>2, <1>3, <1>4, <1>5, <1>6, <1>7, <1>8 DEF Next, Housekeeping, Clients, Mishaps

\* Core holds at the start.
LEMMA CoreInit ==
  ASSUME Init
  PROVE  Core
<1>1. TypeInv
  BY InitType
<1>2. \A o \in Op : ops[o].doc # None => ops[o].el \in Element
  BY DEF Init
<1>3. /\ sock.doomed = {}
      /\ \A d \in Document : /\ line[d] = <<>> /\ work[d] = Idle /\ present[d] = {}
                             /\ sock.room[d] = {} /\ held[d] = NoLocks
      /\ \A s \in Socket : sock.joined[s] = {}
  BY FreshMemory DEF Init
<1> QED
  BY <1>1, <1>2, <1>3, CoreFresh

\* Core is an invariant: types, turns of joins, commands, rooms, locks, idle lines.
THEOREM CoreInvariant == Spec => []Core
<1>1. Init => Core
  BY CoreInit
<1>2. Core /\ [Next]_vars => Core'
  BY CoreStep
<1> QED
  BY <1>1, <1>2, PTL DEF Spec

\* A lock is held by a participant of its document, always (removeDocumentState,
\* LockServed).
THEOREM LocksStayWithParticipants == Spec => []LocksHeldByParticipants
<1>1. Core => LocksHeldByParticipants
  BY DEF Core, Base
<1> QED
  BY <1>1, CoreInvariant, PTL

-----------------------------------------------------------------------------
(* A step is one of a running task, one of anything else, or a crash *)

\* Every step is one of a task, a crash, or withdraws sockets and lengthens lines.
LEMMA StepEffect ==
  ASSUME Core, [Next]_vars
  PROVE  \/ \E d \in Document : Serve(d) \/ Fail(d)
         \/ TypeInv' /\ Withdrawal /\ \E K \in SUBSET Kinds : Grows(K)
         \/ Crash
<1> DEFINE Rest == TypeInv' /\ Withdrawal /\ \E K \in SUBSET Kinds : Grows(K)
<1>1. Base
  BY DEF Core
<1>2. \A k \in Kinds : {k} \in SUBSET Kinds
  OBVIOUS
<1>3. /\ {} \in SUBSET Kinds /\ {"tell"} \in SUBSET Kinds /\ {"critical"} \in SUBSET Kinds
      /\ {"join"} \in SUBSET Kinds /\ {"command"} \in SUBSET Kinds /\ {"put"} \in SUBSET Kinds
      /\ {"delete"} \in SUBSET Kinds /\ {"lock"} \in SUBSET Kinds
  BY <1>2 DEF Kinds
<1>4. Nothing => Withdrawal
  BY DEF Nothing, Withdrawal
<1>5. CASE \E s \in Socket : BeginJoin(s)
  BY <1>1, <1>3, <1>4, <1>5, BeginJoinEffect
<1>6. CASE \E s \in Socket, d \in Document :
             \/ RequestJoin(s, d) \/ RequestDelete(s, d)
             \/ \E E \in SUBSET Element : RequestReplace(s, d, E)
             \/ \E x \in Element : RequestLock(s, d, x)
  BY <1>1, <1>3, <1>4, <1>6, RequestEffect
<1>7. CASE \E s \in Socket : \/ \E d \in Document : Leave(s, d)
                             \/ Disconnect(s) \/ Expel(s) \/ Reconnect(s)
  BY <1>1, <1>3, <1>4, <1>7, LeaveEffect, DisconnectEffect, ReconnectEffect
<1>8. CASE \E s \in Socket, o \in Op :
             (\E d \in Document : SendCommand(s, d, o)) \/ ResendCommand(s, o)
  BY <1>1, <1>3, <1>4, <1>8, SendEffect, ResendEffect
<1>9. CASE \E p \in outbox : Publish(p)
  BY <1>1, <1>3, <1>4, <1>9, PublishEffect
<1>10. CASE (\E d \in Document : RetryTimer(d)) \/ ScanAsk \/ ScanAnswer
  BY <1>1, <1>3, <1>4, <1>10, RetryEffect, ScanEffect
<1>11. CASE \E d \in Document, x \in Element : LockExpires(d, x)
  BY <1>1, <1>3, <1>4, <1>11, LockExpiresEffect
<1>12. CASE Project
  BY <1>1, <1>3, <1>4, <1>12, ProjectEffect DEF Project
<1>13. CASE UNCHANGED vars
  <2>1. TypeInv' /\ \A s \in Socket : JoinsKept(s)
    BY <1>1, <1>13 DEF vars, Base, TypeInv, JoinsKept
  <2>2. Grows({})
    BY <1>1, <1>13, <2>1, SameLines DEF vars, Base
  <2>3. Nothing
    <3>1. /\ sock'.room = sock.room /\ sock'.joined = sock.joined
          /\ sock'.connected = sock.connected /\ sock'.doomed \subseteq sock.connected
          /\ present' = present /\ held' = held /\ known' = known
      BY <1>1, <1>13 DEF vars, Base, RoomInv
    <3>2. \A e \in Document, x \in Element : held'[e][x] \in {None, held[e][x]}
      BY <3>1
    <3>3. \A s \in Socket, e \in Document : known'[s][e] >= known[s][e]
      <4>1. \A s \in Socket, e \in Document : known[s][e] \in Revision
        BY <1>1 DEF Base, TypeInv, KnownType
      <4> QED
        BY <3>1, <4>1, RevisionsGrow
    <3> QED
      BY <1>1, <3>1, <3>2, <3>3, StoresKept
  <2> QED
    BY <1>3, <1>4, <2>1, <2>2, <2>3
<1> QED
  BY <1>5, <1>6, <1>7, <1>8, <1>9, <1>10, <1>11, <1>12, <1>13
     DEF Next, Housekeeping, Clients, Mishaps

\* What stands between entering and registering after such a step did before.
LEMMA EnteredBefore ==
  ASSUME Core, NEW K, Grows(K), NEW e \in Document, At(e, "join", "entered")'
  PROVE  At(e, "join", "entered") /\ Caller(e)' = Caller(e)
<1>1. Busy(e)
  BY IdleStanding DEF Grows, Core, Base, IdleInv, At
<1>2. Undisturbed(e)
  BY AllUndisturbed DEF Core, Base
<1> QED
  BY <1>1, <1>2 DEF Undisturbed, At, Busy, Caller

-----------------------------------------------------------------------------
(* The limit of documents per socket *)

\* A socket is within the limit, and a join that has entered fits in.
LimitInv ==
  /\ DocumentLimit
  /\ \A d \in Document :
       At(d, "join", "entered") /\ d \notin sock.joined[Caller(d)]
         => Cardinality(sock.joined[Caller(d)]) < MaxDocuments

\* A socket has joined finitely many documents.
LEMMA JoinedFinite ==
  ASSUME TypeInv, NEW s \in Socket
  PROVE  IsFiniteSet(sock.joined[s]) /\ Cardinality(sock.joined[s]) \in Nat
<1>1. sock.joined[s] \in SUBSET Document
  BY DEF TypeInv, SockType
<1>2. IsFiniteSet(sock.joined[s])
  BY <1>1, FiniteAssumption, FS_Subset
<1> QED
  BY <1>2, FS_CardinalityType

\* The limit holds as long as nobody joins and no join enters.
LEMMA LimitKept ==
  ASSUME Core, LimitInv, TypeInv',
         \A s \in Socket : sock'.joined[s] \subseteq sock.joined[s],
         \A e \in Document : At(e, "join", "entered")' =>
           At(e, "join", "entered") /\ Caller(e)' = Caller(e)
  PROVE  LimitInv'
<1>1. ASSUME NEW s \in Socket
      PROVE  /\ Cardinality(sock.joined[s]) \in Nat /\ Cardinality(sock'.joined[s]) \in Nat
             /\ Cardinality(sock'.joined[s]) <= Cardinality(sock.joined[s])
             /\ sock'.joined[s] # sock.joined[s] =>
                  Cardinality(sock'.joined[s]) < Cardinality(sock.joined[s])
  <2>1. IsFiniteSet(sock.joined[s]) /\ Cardinality(sock.joined[s]) \in Nat
    BY JoinedFinite DEF Core, Base
  <2>2. sock'.joined[s] \subseteq sock.joined[s]
    OBVIOUS
  <2> QED
    BY <2>1, <2>2, FS_Subset, FS_CardinalityType
<1>2. DocumentLimit'
  <2>1. \A s \in Socket : Cardinality(sock.joined[s]) <= MaxDocuments
    BY DEF LimitInv, DocumentLimit
  <2>2. \A s \in Socket : Cardinality(sock'.joined[s]) <= MaxDocuments
    BY <1>1, <2>1, LimitsAssumption
  <2> QED
    BY <2>2 DEF DocumentLimit
<1>3. ASSUME NEW e \in Document, At(e, "join", "entered")', NEW s, s = Caller(e)', e \notin sock'.joined[s]
      PROVE  Cardinality(sock'.joined[s]) < MaxDocuments
  <2>1. At(e, "join", "entered") /\ s = Caller(e)
    BY <1>3
  <2>2. s \in Socket
    BY <2>1, JoinCaller DEF Core, Base, At
  <2>3. Cardinality(sock.joined[s]) <= MaxDocuments
    BY <2>2 DEF LimitInv, DocumentLimit
  <2>4. CASE e \in sock.joined[s]
    BY <1>1, <1>3, <2>2, <2>3, <2>4, LimitsAssumption
  <2>5. CASE e \notin sock.joined[s]
    <3>1. Cardinality(sock.joined[s]) < MaxDocuments
      BY <2>1, <2>5 DEF LimitInv
    <3> QED
      BY <1>1, <2>2, <3>1, LimitsAssumption
  <2> QED
    BY <2>4, <2>5
<1> QED
  BY <1>2, <1>3 DEF LimitInv

\* The steps of tasks keep the limit: a join reserves its place when it enters.
LEMMA LimitTask ==
  ASSUME Core, LimitInv, NEW d \in Document, Serve(d) \/ Fail(d)
  PROVE  LimitInv'
<1>1. TypeInv' /\ Moves(d) /\ Busy(d) /\ Base /\ TypeInv /\ TurnInv
  BY TaskEffect DEF Core, Base
<1>2. \A e \in Document : e # d => line'[e] = line[e] /\ work'[e] = work[e]
  BY <1>1 DEF Moves, Ordinary, GoesOn, Ends, EndsCritically, Elsewhere
<1>3. ASSUME NEW e \in Document, e # d, At(e, "join", "entered")'
      PROVE  At(e, "join", "entered") /\ Caller(e)' = Caller(e)
  BY <1>2, <1>3 DEF At, Busy, Caller
<1>4. Idle.pc = "start"
  BY IdleStanding
<1>5. CASE ~JoinEnter(d) /\ ~JoinRegister(d)
  <2>1. Withdrawal /\ work'[d].pc # "entered"
    BY <1>1, <1>5, TaskWithdraws, TaskStands
  <2>2. \A s \in Socket : sock'.joined[s] \subseteq sock.joined[s]
    <3>1. \A s \in Socket, e \in Document : e \in sock'.joined[s] => e \in sock.joined[s]
      BY <2>1 DEF Withdrawal, Withdrawn
    <3>2. \A s \in Socket : sock'.joined[s] \in SUBSET Document
      BY <1>1 DEF TypeInv, SockType
    <3> QED
      BY <3>1, <3>2
  <2>3. ~At(d, "join", "entered")'
    BY <2>1 DEF At
  <2> QED
    BY <1>1, <1>3, <2>2, <2>3, LimitKept
<1>6. CASE JoinEnter(d) /\ work'[d] = Idle
  <2>1. Nothing
    <3>1. work[d] \in Standing
      BY <1>1 DEF TypeInv
    <3>2. [work[d] EXCEPT !.pc = "entered"].pc = "entered"
      BY <3>1 DEF Standing
    <3> QED
      BY <1>1, <1>4, <1>6, <3>2, JoinEnterEffect
  <2>2. \A s \in Socket : sock'.joined[s] \subseteq sock.joined[s]
    <3>1. \A s \in Socket, e \in Document : e \in sock'.joined[s] => e \in sock.joined[s]
      BY <2>1 DEF Nothing, Withdrawn
    <3>2. \A s \in Socket : sock'.joined[s] \in SUBSET Document
      BY <1>1 DEF TypeInv, SockType
    <3> QED
      BY <3>1, <3>2
  <2>3. ~At(d, "join", "entered")'
    BY <1>4, <1>6 DEF At
  <2> QED
    BY <1>1, <1>3, <2>2, <2>3, LimitKept
<1>7. CASE JoinEnter(d) /\ work'[d] # Idle
  <2>1. /\ ~AtDocumentLimit(Caller(d), d)
        /\ sock' = [sock EXCEPT !.room[d] = @ \cup {Caller(d)}]
        /\ GoesOn(d)
    BY <1>1, <1>7, JoinEnterEffect
  <2>2. sock'.joined = sock.joined
    BY <1>1, <2>1 DEF TypeInv, SockType
  <2>3. Caller(d)' = Caller(d)
    BY <1>1, <2>1, HeadGoesOn DEF Caller
  <2>4. DocumentLimit'
    BY <2>2 DEF LimitInv, DocumentLimit
  <2>5. Caller(d) \in Socket
    BY <1>1, <1>7, JoinCaller DEF JoinEnter, At
  <2>6. d \notin sock.joined[Caller(d)] => Cardinality(sock.joined[Caller(d)]) < MaxDocuments
    <3>1. PICK s \in Socket : s = Caller(d)
      BY <2>5
    <3>2. Cardinality(sock.joined[s]) \in Nat /\ ~AtDocumentLimit(s, d)
      BY <1>1, <2>1, <3>1, JoinedFinite
    <3>3. d \notin sock.joined[s] => Cardinality(sock.joined[s]) < MaxDocuments
      BY <3>2, LimitsAssumption DEF AtDocumentLimit
    <3> QED
      BY <3>1, <3>3
  <2>7. ASSUME NEW e \in Document, At(e, "join", "entered")', e \notin sock'.joined[Caller(e)']
        PROVE  Cardinality(sock'.joined[Caller(e)']) < MaxDocuments
    <3>1. CASE e = d
      BY <2>2, <2>3, <2>6, <2>7, <3>1
    <3>2. CASE e # d
      BY <1>3, <2>2, <2>7, <3>2 DEF LimitInv
    <3> QED
      BY <3>1, <3>2
  <2> QED
    BY <2>4, <2>7 DEF LimitInv
<1>8. CASE JoinRegister(d) /\ Withdrawn({Caller(d)}, {d}) /\ work'[d] = Idle
  <2>2. \A s \in Socket : sock'.joined[s] \subseteq sock.joined[s]
    <3>1. \A s \in Socket, e \in Document : e \in sock'.joined[s] => e \in sock.joined[s]
      BY <1>8 DEF Withdrawn
    <3>2. \A s \in Socket : sock'.joined[s] \in SUBSET Document
      BY <1>1 DEF TypeInv, SockType
    <3> QED
      BY <3>1, <3>2
  <2>3. ~At(d, "join", "entered")'
    BY <1>4, <1>8 DEF At
  <2> QED
    BY <1>1, <1>3, <2>2, <2>3, LimitKept
<1>9. CASE JoinRegister(d) /\ ~(Withdrawn({Caller(d)}, {d}) /\ work'[d] = Idle)
  <2>1. /\ sock' = [sock EXCEPT !.joined[Caller(d)] = @ \cup {d},
                                !.pending[Caller(d)] = @ \ {d}]
        /\ work'[d].pc = "registered"
    BY <1>1, <1>9, JoinRegisterEffect
  <2>2. At(d, "join", "entered") /\ Caller(d) \in Socket /\ Head(sock.joins[Caller(d)]) = d
    BY <1>1, <1>9, JoinCaller DEF JoinRegister, At
  <2>3. PICK s \in Socket : s = Caller(d)
    BY <2>2
  <2>4. sock'.joined = [sock.joined EXCEPT ![s] = @ \cup {d}]
    BY <1>1, <2>1, <2>3 DEF TypeInv, SockType
  <2>5. \A r \in Socket : sock'.joined[r] = IF r = s THEN sock.joined[s] \cup {d} ELSE sock.joined[r]
    BY <1>1, <2>4 DEF TypeInv, SockType
  <2>6. /\ IsFiniteSet(sock.joined[s]) /\ Cardinality(sock.joined[s]) \in Nat
        /\ Cardinality(sock.joined[s]) <= MaxDocuments
        /\ d \notin sock.joined[s] => Cardinality(sock.joined[s]) < MaxDocuments
    BY <1>1, <2>2, <2>3, JoinedFinite DEF LimitInv, DocumentLimit
  <2>7. Cardinality(sock.joined[s] \cup {d}) <= MaxDocuments
    <3>1. Cardinality(sock.joined[s] \cup {d}) =
            IF d \in sock.joined[s] THEN Cardinality(sock.joined[s])
                                    ELSE Cardinality(sock.joined[s]) + 1
      BY <2>6, FS_AddElement
    <3> QED
      BY <2>6, <3>1, LimitsAssumption
  <2>8. DocumentLimit'
    BY <2>5, <2>7 DEF LimitInv, DocumentLimit
  <2>9. ASSUME NEW e \in Document, At(e, "join", "entered")', e \notin sock'.joined[Caller(e)']
        PROVE  Cardinality(sock'.joined[Caller(e)']) < MaxDocuments
    <3>1. e # d
      BY <2>1, <2>9 DEF At
    <3>2. At(e, "join", "entered") /\ Caller(e)' = Caller(e)
      BY <1>3, <2>9, <3>1
    <3>3. Caller(e) \in Socket /\ Head(sock.joins[Caller(e)]) = e
      BY <1>1, <3>2, JoinCaller DEF At
    <3>4. Caller(e) # s
      BY <2>2, <2>3, <3>1, <3>3
    <3>5. sock'.joined[Caller(e)] = sock.joined[Caller(e)]
      BY <2>5, <3>3, <3>4
    <3> QED
      BY <2>9, <3>2, <3>5 DEF LimitInv
  <2> QED
    BY <2>8, <2>9 DEF LimitInv
<1> QED
  BY <1>5, <1>6, <1>7, <1>8, <1>9

\* Every step keeps the limit.
LEMMA LimitStep ==
  ASSUME Core, LimitInv, [Next]_vars
  PROVE  LimitInv'
<1>1. CASE \E d \in Document : Serve(d) \/ Fail(d)
  BY <1>1, LimitTask
<1>2. CASE TypeInv' /\ Withdrawal /\ \E K \in SUBSET Kinds : Grows(K)
  <2>1. \A e \in Document : At(e, "join", "entered")' =>
          At(e, "join", "entered") /\ Caller(e)' = Caller(e)
    BY <1>2, EnteredBefore
  <2>2. \A s \in Socket : sock'.joined[s] \subseteq sock.joined[s]
    <3>1. \A s \in Socket, e \in Document : e \in sock'.joined[s] => e \in sock.joined[s]
      BY <1>2 DEF Withdrawal, Withdrawn
    <3>2. \A s \in Socket : sock'.joined[s] \in SUBSET Document
      BY <1>2 DEF TypeInv, SockType
    <3> QED
      BY <3>1, <3>2
  <2> QED
    BY <1>2, <2>1, <2>2, LimitKept
<1>3. CASE Crash
  <2>1. (\A d \in Document : line'[d] = <<>>) /\ \A s \in Socket : sock'.joined[s] = {}
    BY <1>3, CrashEffect DEF Core
  <2>2. Cardinality({}) = 0 /\ 0 <= MaxDocuments
    BY FS_EmptySet, LimitsAssumption
  <2>3. DocumentLimit'
    BY <2>1, <2>2 DEF DocumentLimit
  <2> QED
    BY <2>1, <2>3 DEF LimitInv, At, Busy
<1> QED
  BY <1>1, <1>2, <1>3, StepEffect

\* No socket is in more than maxDocumentsPerSocket documents (JoinEnter, JoinRegister).
THEOREM DocumentsLimited == Spec => []DocumentLimit
<1>1. Init => LimitInv
  <2> SUFFICES ASSUME Init PROVE LimitInv
    OBVIOUS
  <2>1. (\A d \in Document : line[d] = <<>>) /\ \A s \in Socket : sock.joined[s] = {}
    BY FreshMemory DEF Init
  <2>2. Cardinality({}) = 0 /\ 0 <= MaxDocuments
    BY FS_EmptySet, LimitsAssumption
  <2>3. DocumentLimit
    BY <2>1, <2>2 DEF DocumentLimit
  <2> QED
    BY <2>1, <2>3 DEF LimitInv, At, Busy
<1>2. Core /\ LimitInv /\ [Next]_vars => LimitInv'
  BY LimitStep
<1>3. LimitInv => DocumentLimit
  BY DEF LimitInv
<1> QED
  BY <1>1, <1>2, <1>3, CoreInvariant, PTL DEF Spec

-----------------------------------------------------------------------------
(* Critical work: at most one task of it in a line, with room to put it there *)

\* The line q of d has a critical task exactly if d is in S, and only one; it has
\* room for one otherwise.
Carries(q, d, S) ==
  /\ Len(q) <= Capacity
  /\ d \notin S => Len(q) < Capacity
  /\ d \in S <=> \E i \in 1 .. Len(q) : q[i].kind = "critical"
  /\ \A i, j \in 1 .. Len(q) : q[i].kind = "critical" /\ q[j].kind = "critical" => i = j

\* The lines and the maps of critical work agree.
CriticalInv ==
  \A d \in Document :
    /\ Carries(line[d], d, crit.scheduled)
    /\ HasCriticalWork(crit, d) => d \in crit.scheduled \cup crit.retry

\* Tasks of other kinds enter a line.
LEMMA CarriesGrown ==
  ASSUME NEW q \in Seq(Task), NEW r \in Seq(Task), NEW K, "critical" \notin K, Grown(q, r, K),
         Len(r) <= Len(q) \/ Len(r) <= StandardCapacity,
         NEW d, NEW S, NEW T, d \in T <=> d \in S, Carries(q, d, S)
  PROVE  Carries(r, d, T)
<1>1. Len(q) \in Nat /\ Len(r) \in Nat /\ Len(q) <= Len(r)
  BY DEF Grown, Longer
<1>2. Capacity \in Nat /\ StandardCapacity < Capacity
  BY CapacityAssumption DEF StandardCapacity
<1>3. ASSUME NEW i \in 1 .. Len(r), r[i].kind = "critical"
      PROVE  i \in 1 .. Len(q) /\ q[i] = r[i]
  <2>1. i <= Len(q)
    <3>1. CASE ~(i <= Len(q))
      <4>1. i \in Len(q) + 1 .. Len(r)
        BY <1>1, <3>1
      <4> QED
        BY <1>3, <4>1 DEF Grown
    <3> QED
      BY <3>1
  <2>2. i \in 1 .. Len(q)
    BY <1>1, <2>1
  <2> QED
    BY <2>2 DEF Grown, Longer
<1>4. \A i \in 1 .. Len(q) : i \in 1 .. Len(r) /\ r[i] = q[i]
  BY <1>1 DEF Grown, Longer
<1>5. Len(r) <= Capacity /\ (d \notin T => Len(r) < Capacity)
  <2>1. StandardCapacity \in Int /\ Len(q) <= Capacity /\ (d \notin S => Len(q) < Capacity)
    BY CapacityAssumption DEF StandardCapacity, Carries
  <2> QED
    BY <1>1, <1>2, <2>1
<1>6. d \in T <=> \E i \in 1 .. Len(r) : r[i].kind = "critical"
  BY <1>3, <1>4 DEF Carries
<1>7. \A i, j \in 1 .. Len(r) : r[i].kind = "critical" /\ r[j].kind = "critical" => i = j
  BY <1>3 DEF Carries
<1> QED
  BY <1>5, <1>6, <1>7 DEF Carries

\* The head of a line leaves it.
LEMMA CarriesTail ==
  ASSUME NEW q \in Seq(Task), q # <<>>, NEW d, NEW S, Carries(q, d, S)
  PROVE  /\ Tail(q) \in Seq(Task)
         /\ Head(q).kind # "critical" => Carries(Tail(q), d, S)
         /\ Head(q).kind = "critical" =>
              d \in S /\ \A T : d \notin T => Carries(Tail(q), d, T)
<1>1. /\ Tail(q) \in Seq(Task) /\ Len(Tail(q)) = Len(q) - 1 /\ Head(q) = q[1]
      /\ \A i \in 1 .. Len(Tail(q)) : Tail(q)[i] = q[i + 1]
  BY HeadTailProperties
<1>2. Len(q) \in Nat /\ Len(q) # 0 /\ Capacity \in Nat
  BY EmptySeq, CapacityAssumption
<1>3. 1 \in 1 .. Len(q) /\ \A i \in 1 .. Len(Tail(q)) : i + 1 \in 1 .. Len(q) /\ i + 1 # 1
  BY <1>1, <1>2
<1>4. \A i, j \in 1 .. Len(Tail(q)) :
        Tail(q)[i].kind = "critical" /\ Tail(q)[j].kind = "critical" => i = j
  <2> TAKE i, j \in 1 .. Len(Tail(q))
  <2>1. Tail(q)[i].kind = "critical" /\ Tail(q)[j].kind = "critical" => i + 1 = j + 1
    BY <1>1, <1>3 DEF Carries
  <2> QED
    BY <1>1, <1>2, <2>1
<1>5. Len(q) <= Capacity /\ Len(Tail(q)) < Len(q) /\ Len(Tail(q)) \in Nat
  BY <1>1, <1>2 DEF Carries
<1>6. Len(Tail(q)) <= Capacity /\ Len(Tail(q)) < Capacity
  BY <1>2, <1>5
<1>7. ASSUME Head(q).kind # "critical" PROVE Carries(Tail(q), d, S)
  <2>1. ASSUME NEW i \in 1 .. Len(q), q[i].kind = "critical"
        PROVE  i - 1 \in 1 .. Len(Tail(q)) /\ Tail(q)[i - 1].kind = "critical"
    <3>1. i # 1
      BY <1>1, <1>7, <2>1
    <3>2. i - 1 \in 1 .. Len(Tail(q)) /\ (i - 1) + 1 = i
      BY <1>1, <1>2, <3>1
    <3> QED
      BY <1>1, <2>1, <3>2
  <2>2. d \in S <=> \E i \in 1 .. Len(Tail(q)) : Tail(q)[i].kind = "critical"
    BY <1>1, <1>3, <2>1 DEF Carries
  <2> QED
    BY <1>4, <1>6, <2>2 DEF Carries
<1>8. ASSUME Head(q).kind = "critical" PROVE d \in S /\ \A T : d \notin T => Carries(Tail(q), d, T)
  <2>1. d \in S
    BY <1>1, <1>3, <1>8 DEF Carries
  <2>2. \A i \in 1 .. Len(Tail(q)) : Tail(q)[i].kind # "critical"
    BY <1>1, <1>3, <1>8 DEF Carries
  <2> QED
    BY <1>4, <1>6, <2>1, <2>2 DEF Carries
<1> QED
  BY <1>1, <1>7, <1>8

\* A critical task is put into a line that had none.
LEMMA CarriesAppend ==
  ASSUME NEW q \in Seq(Task), NEW d, NEW S, NEW T, Carries(q, d, S), d \notin S, d \in T
  PROVE  Carries(Append(q, Critical), d, T)
<1> DEFINE r == Append(q, Critical)
<1>1. Critical \in Task /\ Critical.kind = "critical"
  BY DEF Critical, Task
<1>2. /\ r \in Seq(Task) /\ Len(r) = Len(q) + 1
      /\ \A i \in 1 .. Len(q) : r[i] = q[i]
      /\ r[Len(q) + 1] = Critical
  BY <1>1, AppendProperties
<1> HIDE DEF r
<1>3. Len(q) \in Nat /\ Capacity \in Nat /\ Len(q) < Capacity
  BY CapacityAssumption DEF Carries
<1>4. \A i \in 1 .. Len(q) : q[i].kind # "critical"
  BY DEF Carries
<1>5. \A i \in 1 .. Len(r) : r[i].kind = "critical" => i = Len(q) + 1
  <2> SUFFICES ASSUME NEW i \in 1 .. Len(r), i # Len(q) + 1 PROVE r[i].kind # "critical"
    OBVIOUS
  <2>1. i \in 1 .. Len(q)
    BY <1>2, <1>3
  <2> QED
    BY <1>2, <1>4, <2>1
<1>6. Len(q) + 1 \in 1 .. Len(r) /\ r[Len(q) + 1].kind = "critical"
  BY <1>1, <1>2, <1>3
<1>7. Len(r) <= Capacity
  BY <1>2, <1>3
<1>8. Carries(r, d, T)
  BY <1>5, <1>6, <1>7 DEF Carries
<1> QED
  BY <1>8 DEF r

\* What counts as critical work.
LEMMA SameCriticalWork ==
  ASSUME NEW b, NEW c, NEW d,
         d \in b.deleted <=> d \in c.deleted, b.evictions[d] = c.evictions[d],
         b.resync[d] = c.resync[d], d \in b.recovery <=> d \in c.recovery
  PROVE  HasCriticalWork(b, d) <=> HasCriticalWork(c, d)
  BY DEF HasCriticalWork

\* Work is scheduled for the documents D.
LEMMA ScheduleKept ==
  ASSUME NEW c \in CritType, NEW l \in LineType, NEW D \in SUBSET Document, NEW d \in Document,
         Carries(l[d], d, c.scheduled),
         HasCriticalWork(c, d) => d \in c.scheduled \cup c.retry \cup D
  PROVE  LET b == Scheduling(c, l, D) IN
         /\ Carries(SchedulingLine(c, l, D)[d], d, b.scheduled)
         /\ HasCriticalWork(b, d) => d \in b.scheduled \cup b.retry
<1> DEFINE b == Scheduling(c, l, D)
           m == SchedulingLine(c, l, D)
<1>1. /\ b.deleted = c.deleted /\ b.evictions = c.evictions
      /\ b.resync = c.resync /\ b.recovery = c.recovery
  BY ScheduledCrit
<1>2. /\ d \in b.scheduled <=>
           d \in c.scheduled \/ (d \in Unscheduled(c, D) /\ Len(l[d]) < Capacity)
      /\ d \in b.retry <=>
           d \in c.retry \/ (d \in Unscheduled(c, D) /\ ~(Len(l[d]) < Capacity))
  BY ScheduledWhere
<1>3. IF d \in Unscheduled(c, D) /\ Len(l[d]) < Capacity
        THEN m[d] = Append(l[d], Critical) ELSE m[d] = l[d]
  BY ScheduledLine
<1>4. d \in Unscheduled(c, D) <=> d \in D /\ d \notin c.scheduled /\ d \notin c.retry
  BY DEF Unscheduled
<1>5. l[d] \in Seq(Task)
  BY DEF LineType
<1> HIDE DEF b, m
<1>6. Carries(m[d], d, b.scheduled)
  <2>1. CASE d \in Unscheduled(c, D) /\ Len(l[d]) < Capacity
    <3>1. d \notin c.scheduled /\ d \in b.scheduled /\ m[d] = Append(l[d], Critical)
      BY <1>2, <1>3, <1>4, <2>1
    <3>2. Carries(Append(l[d], Critical), d, b.scheduled)
      BY <1>5, <3>1, CarriesAppend
    <3> QED
      BY <3>1, <3>2
  <2>2. CASE ~(d \in Unscheduled(c, D) /\ Len(l[d]) < Capacity)
    BY <1>2, <1>3, <2>2 DEF Carries
  <2> QED
    BY <2>1, <2>2
<1>7. HasCriticalWork(b, d) => d \in b.scheduled \cup b.retry
  <2>1. HasCriticalWork(b, d) => HasCriticalWork(c, d)
    BY <1>1, SameCriticalWork
  <2> QED
    BY <1>2, <1>4, <2>1
<1> QED
  BY <1>6, <1>7 DEF b, m

\* An ordinary step of the running task leaves the maps of critical work alone.
LEMMA CriticalOrdinary ==
  ASSUME Base, CriticalInv, TypeInv', NEW d \in Document, Busy(d), Ordinary(d),
         GoesOn(d) \/ Head(line[d]).kind # "critical",
         crit'.scheduled = crit.scheduled, crit'.retry = crit.retry,
         \A e \in Document : HasCriticalWork(crit', e) =>
           HasCriticalWork(crit, e) \/ e \in crit.scheduled
  PROVE  CriticalInv'
<1>1. line \in LineType /\ line' \in LineType
  BY DEF Base, TypeInv
<1>2. \A e \in Document : line[e] \in Seq(Task) /\ line'[e] \in Seq(Task)
  BY <1>1 DEF LineType
<1>3. \A e \in Document : Carries(line[e], e, crit.scheduled)
  BY DEF CriticalInv
<1>4. ASSUME NEW e \in Document PROVE Carries(line'[e], e, crit'.scheduled)
  <2>1. CASE e # d
    BY <1>3, <2>1 DEF Ordinary, GoesOn, Ends, Elsewhere
  <2>2. CASE e = d /\ GoesOn(d)
    <3>1. Carries(line'[d], d, crit'.scheduled)
      BY <1>2, <1>3, <2>2, CarriesGrown DEF GoesOn
    <3> QED
      BY <2>2, <3>1
  <2>3. CASE e = d /\ ~GoesOn(d)
    <3>1. Ends(d) /\ Head(line[d]).kind # "critical" /\ line[d] # <<>>
      BY <2>3 DEF Ordinary, Busy
    <3>2. Tail(line[d]) \in Seq(Task) /\ Carries(Tail(line[d]), d, crit.scheduled)
      BY <1>2, <1>3, <3>1, CarriesTail
    <3>3. Len(line'[d]) <= Len(Tail(line[d])) \/ Len(line'[d]) <= StandardCapacity
      <4>1. Len(Tail(line[d])) = Len(line[d]) - 1 /\ Len(line[d]) \in Nat
        BY <1>2, <3>1, HeadTailProperties
      <4>2. StandardCapacity \in Int /\ Len(line'[d]) \in Nat
        BY <1>2, CapacityAssumption DEF StandardCapacity
      <4> QED
        BY <3>1, <4>1, <4>2 DEF Ends
    <3>4. Carries(line'[d], d, crit'.scheduled)
      <4>1. Grown(Tail(line[d]), line'[d], {"tell"})
        BY <3>1 DEF Ends
      <4>2. "critical" \notin {"tell"} /\ (d \in crit'.scheduled <=> d \in crit.scheduled)
        OBVIOUS
      <4> QED
        BY <1>2, <3>2, <3>3, <4>1, <4>2, CarriesGrown
    <3> QED
      BY <2>3, <3>4
  <2> QED
    BY <2>1, <2>2, <2>3
<1>5. \A e \in Document : HasCriticalWork(crit', e) => e \in crit'.scheduled \cup crit'.retry
  BY DEF CriticalInv
<1> QED
  BY <1>4, <1>5 DEF CriticalInv

\* A critical task ends.
LEMMA CriticalEnds ==
  ASSUME Base, CriticalInv, NEW d \in Document, Busy(d), Head(line[d]).kind = "critical",
         NEW c \in CritType, c.scheduled = crit.scheduled, c.retry = crit.retry,
         \A e \in Document : e # d /\ HasCriticalWork(c, e) => HasCriticalWork(crit, e),
         NEW m, GrownBy(line, m, {"tell"}), \A e \in Document \ {d} : m[e] = line[e],
         Len(m[d]) <= Len(line[d]) \/ Len(m[d]) <= StandardCapacity,
         NEW failed \in BOOLEAN, EndCritical(c, m, d, failed)
  PROVE  CriticalInv'
<1> DEFINE c1 == [c EXCEPT !.scheduled = @ \ {d}]
           l1 == Pop(m, d)
           again == HasCriticalWork(c1, d)
<1>1. /\ c1 \in CritType /\ c1.scheduled = crit.scheduled \ {d} /\ c1.retry = crit.retry
      /\ c1.deleted = c.deleted /\ c1.evictions = c.evictions
      /\ c1.resync = c.resync /\ c1.recovery = c.recovery
  BY DEF CritType
<1>2. line \in LineType /\ m \in LineType
  BY DEF Base, TypeInv, GrownBy
<1>3. m[d] # <<>> /\ Head(m[d]) = Head(line[d])
  BY <1>2, HeadKept DEF Busy
<1>4. \A e \in Document : line[e] \in Seq(Task) /\ m[e] \in Seq(Task)
  BY <1>2 DEF LineType
<1>5. \A e \in Document : Carries(line[e], e, crit.scheduled)
  BY DEF CriticalInv
<1>6. Carries(m[d], d, crit.scheduled)
  <2>1. Grown(line[d], m[d], {"tell"})
    BY DEF GrownBy
  <2> QED
    BY <1>4, <1>5, <2>1, CarriesGrown
<1>7. l1 \in LineType /\ l1[d] = Tail(m[d]) /\ \A e \in Document : e # d => l1[e] = line[e]
  BY <1>2, <1>3, PoppedLine DEF Pop, LineType
<1>8. /\ crit' = IF ~again THEN c1
                 ELSE IF failed THEN [c1 EXCEPT !.retry = @ \cup {d}]
                 ELSE Scheduling(c1, l1, {d})
      /\ line' = IF again /\ ~failed THEN SchedulingLine(c1, l1, {d}) ELSE l1
  BY DEF EndCritical
<1> HIDE DEF c1, l1
<1>9. ASSUME NEW e \in Document PROVE Carries(l1[e], e, c1.scheduled)
  <2>1. CASE e = d
    <3>1. d \notin c1.scheduled
      BY <1>1
    <3>2. Carries(Tail(m[d]), d, c1.scheduled)
      BY <1>3, <1>4, <1>6, <3>1, CarriesTail
    <3> QED
      BY <1>7, <2>1, <3>2
  <2>2. CASE e # d
    BY <1>1, <1>5, <1>7, <2>2 DEF Carries
  <2> QED
    BY <2>1, <2>2
<1>10. ASSUME NEW e \in Document, e # d, HasCriticalWork(c1, e)
       PROVE  e \in c1.scheduled \cup c1.retry
  <2>1. HasCriticalWork(c, e)
    BY <1>1, <1>10, SameCriticalWork
  <2>2. e \in crit.scheduled \cup crit.retry
    BY <1>10, <2>1 DEF CriticalInv
  <2> QED
    BY <1>1, <1>10, <2>2
<1>11. CASE ~again
  BY <1>8, <1>9, <1>10, <1>11 DEF CriticalInv
<1>12. CASE again /\ failed
  <2>1. crit' = [c1 EXCEPT !.retry = @ \cup {d}] /\ line' = l1
    BY <1>8, <1>12
  <2>2. /\ crit'.scheduled = c1.scheduled /\ crit'.retry = c1.retry \cup {d}
        /\ crit'.deleted = c1.deleted /\ crit'.evictions = c1.evictions
        /\ crit'.resync = c1.resync /\ crit'.recovery = c1.recovery
    BY <1>1, <2>1 DEF CritType
  <2>3. \A e \in Document : HasCriticalWork(crit', e) => HasCriticalWork(c1, e)
    BY <2>2, SameCriticalWork
  <2>4. \A e \in Document : HasCriticalWork(crit', e) => e \in crit'.scheduled \cup crit'.retry
    BY <1>10, <2>2, <2>3
  <2>5. \A e \in Document : Carries(line'[e], e, crit'.scheduled)
    BY <1>9, <2>1, <2>2
  <2> QED
    BY <2>4, <2>5 DEF CriticalInv
<1>13. CASE again /\ ~failed
  <2>1. crit' = Scheduling(c1, l1, {d}) /\ line' = SchedulingLine(c1, l1, {d})
    BY <1>8, <1>13
  <2>2. ASSUME NEW e \in Document
        PROVE  /\ Carries(line'[e], e, crit'.scheduled)
               /\ HasCriticalWork(crit', e) => e \in crit'.scheduled \cup crit'.retry
    <3>1. HasCriticalWork(c1, e) => e \in c1.scheduled \cup c1.retry \cup {d}
      BY <1>10
    <3>2. Carries(l1[e], e, c1.scheduled) /\ {d} \in SUBSET Document
      BY <1>9
    <3> QED
      BY <1>1, <1>7, <2>1, <3>1, <3>2, ScheduleKept
  <2> QED
    BY <2>2 DEF CriticalInv
<1> QED
  BY <1>11, <1>12, <1>13

\* Work is put into the lines of documents whose tasks go on.
LEMMA CriticalSchedules ==
  ASSUME Base, NEW c \in CritType, NEW D \in SUBSET Document, Schedule(c, line, D),
         \A e \in Document : Carries(line[e], e, c.scheduled),
         \A e \in Document : HasCriticalWork(c, e) => e \in c.scheduled \cup c.retry \cup D
  PROVE  CriticalInv'
<1>1. line \in LineType
  BY DEF Base, TypeInv
<1>2. crit' = Scheduling(c, line, D) /\ line' = SchedulingLine(c, line, D)
  BY DEF Schedule
<1>3. ASSUME NEW e \in Document
      PROVE  /\ Carries(line'[e], e, crit'.scheduled)
             /\ HasCriticalWork(crit', e) => e \in crit'.scheduled \cup crit'.retry
  BY <1>1, <1>2, ScheduleKept
<1> QED
  BY <1>3 DEF CriticalInv

\* A replacement or a deletion ends, and schedules the work it causes.
LEMMA CriticalPublishes ==
  ASSUME Base, CriticalInv, NEW d \in Document, Busy(d), Head(line[d]).kind # "critical",
         NEW c \in CritType, c.scheduled = crit.scheduled, c.retry = crit.retry,
         \A e \in Document : e # d /\ HasCriticalWork(c, e) => HasCriticalWork(crit, e),
         crit' = Scheduling(c, line, {d}),
         NEW b, b.scheduled = crit.scheduled, b.retry = crit.retry,
         line' = Pop(SchedulingLine(b, line, {d}), d)
  PROVE  CriticalInv'
<1> DEFINE m == SchedulingLine(c, line, {d})
<1>1. line \in LineType /\ {d} \in SUBSET Document /\ line[d] # <<>>
  BY DEF Base, TypeInv, Busy
<1>2. line' = Pop(m, d)
  <2>1. Unscheduled(b, {d}) = Unscheduled(c, {d})
    BY DEF Unscheduled
  <2> QED
    BY <2>1 DEF SchedulingLine
<1>3. GrownBy(line, m, {"critical"})
  BY <1>1, ScheduledLine
<1> HIDE DEF m
<1>4. ASSUME NEW e \in Document
      PROVE  /\ Carries(m[e], e, crit'.scheduled)
             /\ HasCriticalWork(crit', e) => e \in crit'.scheduled \cup crit'.retry
  <2>1. HasCriticalWork(c, e) => e \in c.scheduled \cup c.retry \cup {d}
    BY DEF CriticalInv
  <2>2. Carries(line[e], e, c.scheduled)
    BY DEF CriticalInv
  <2> QED
    BY <1>1, <2>1, <2>2, ScheduleKept DEF m
<1>5. m \in LineType /\ m[d] # <<>> /\ Head(m[d]) = Head(line[d])
  BY <1>1, <1>3, HeadKept DEF GrownBy
<1>6. \A e \in Document : line'[e] = IF e = d THEN Tail(m[d]) ELSE m[e]
  BY <1>2, <1>5 DEF Pop, LineType
<1>7. Carries(Tail(m[d]), d, crit'.scheduled)
  <2>1. m[d] \in Seq(Task)
    BY <1>5 DEF LineType
  <2> QED
    BY <1>4, <1>5, <2>1, CarriesTail
<1> QED
  BY <1>4, <1>6, <1>7 DEF CriticalInv

\* Tasks of other kinds enter the lines, within the capacity of standard calls.
LEMMA CriticalGrows ==
  ASSUME Base, CriticalInv, TypeInv', NEW K, "critical" \notin K, Grows(K), Bounded,
         crit'.scheduled = crit.scheduled, crit'.retry = crit.retry,
         \A e \in Document : HasCriticalWork(crit', e) => HasCriticalWork(crit, e)
  PROVE  CriticalInv'
<1>1. line \in LineType /\ line' \in LineType
  BY DEF Base, TypeInv
<1>2. ASSUME NEW e \in Document PROVE Carries(line'[e], e, crit'.scheduled)
  <2>1. line[e] \in Seq(Task) /\ line'[e] \in Seq(Task) /\ Carries(line[e], e, crit.scheduled)
    BY <1>1 DEF LineType, CriticalInv
  <2>2. Grown(line[e], line'[e], K)
    BY DEF Grows, GrownBy
  <2>3. Len(line'[e]) <= Len(line[e]) \/ Len(line'[e]) <= StandardCapacity
    BY DEF Bounded
  <2> QED
    BY <2>1, <2>2, <2>3, CarriesGrown
<1>3. \A e \in Document : HasCriticalWork(crit', e) => e \in crit'.scheduled \cup crit'.retry
  BY DEF CriticalInv
<1> QED
  BY <1>2, <1>3 DEF CriticalInv

\* The steps of tasks keep critical work scheduled.
LEMMA CriticalTask ==
  ASSUME Core, CriticalInv, NEW d \in Document, Serve(d) \/ Fail(d)
  PROVE  CriticalInv'
<1>1. TypeInv' /\ Busy(d) /\ Base /\ crit \in CritType
  BY TaskEffect DEF Core, Base, TypeInv
<1>2. ASSUME Ordinary(d), Head(line[d]).kind # "critical", crit' = crit
      PROVE  CriticalInv'
  BY <1>1, <1>2, CriticalOrdinary
<1>3. ASSUME Head(line[d]).kind = "critical" PROVE d \in crit.scheduled
  <2>1. line[d] \in Seq(Task) /\ line[d] # <<>> /\ Carries(line[d], d, crit.scheduled)
    BY <1>1 DEF Base, TypeInv, LineType, Busy, CriticalInv
  <2> QED
    BY <1>3, <2>1, CarriesTail
<1>4. GrownBy(line, line, {"tell"}) /\ Len(line[d]) <= Len(line[d])
  BY <1>1, UngrownLine DEF Base
<1>5. CASE TellStart(d) \/ TellEmit(d)
  <2>1. Ordinary(d)
    BY <1>1, <1>5, TellEffect
  <2> QED
    BY <1>2, <1>5, <2>1 DEF TellStart, TellEmit, At
<1>6. CASE JoinCheck(d) \/ JoinEnter(d) \/ JoinRegister(d) \/ JoinConfirm(d)
  <2>1. Ordinary(d)
    BY <1>1, <1>6, JoinCheckEffect, JoinEnterEffect, JoinRegisterEffect, JoinConfirmEffect
  <2> QED
    BY <1>2, <1>6, <2>1 DEF JoinCheck, JoinEnter, JoinRegister, JoinConfirm, At
<1>7. CASE Authorize(d, "command") \/ Authorize(d, "lock") \/ CommandProcess(d)
           \/ CommandCurrent(d) \/ CommandBroadcast(d) \/ CommandEmit(d) \/ CommandDelivered(d)
  <2>1. Ordinary(d)
    BY <1>1, <1>7, AuthorizeEffect, CommandProcessEffect, CommandCurrentEffect,
       CommandBroadcastEffect, CommandEmitEffect, CommandDeliveredEffect
  <2> QED
    BY <1>2, <1>7, <2>1 DEF Authorize, CommandProcess, CommandCurrent, CommandBroadcast,
       CommandEmit, CommandDelivered, At
<1>8. CASE LockServed(d) \/ ReplaceTransact(d) \/ DeleteTransact(d)
  <2>1. Ordinary(d)
    BY <1>1, <1>8, LockServedEffect, ReplaceTransactEffect, DeleteTransactEffect
  <2> QED
    BY <1>2, <1>8, <2>1 DEF LockServed, ReplaceTransact, DeleteTransact, At
<1>9. CASE ReplacePublish(d)
  <2>1. Head(line[d]).kind # "critical"
    BY <1>9 DEF ReplacePublish, At
  <2>2. CASE d \in crit.deleted
    <3>1. Rejected(d) /\ sock' = sock /\ crit' = crit
      BY <1>9, <2>2 DEF ReplacePublish, Rejected
    <3>2. Ends(d)
      BY <1>1, <3>1, RejectedEffect
    <3> QED
      BY <1>2, <2>1, <3>1, <3>2 DEF Ordinary
  <2>3. CASE d \notin crit.deleted
    <3> DEFINE change == [rev |-> work[d].rev, elements |-> work[d].elements]
               c == [crit EXCEPT !.resync[d] = change]
    <3>1. work[d] \in Standing
      BY <1>1 DEF Base, TypeInv
    <3>2. work[d].rev \in Revision /\ work[d].elements \in SUBSET Element
      BY <3>1 DEF Standing
    <3>3. change \in Announcement
      BY <3>2 DEF Announcement
    <3>4. /\ crit' = Scheduling(c, line, {d})
          /\ line' = Pop(SchedulingLine(crit, line, {d}), d)
      BY <1>9, <2>3 DEF ReplacePublish
    <3> HIDE DEF change
    <3>5. /\ c \in CritType /\ c.scheduled = crit.scheduled /\ c.retry = crit.retry
          /\ c.deleted = crit.deleted /\ c.evictions = crit.evictions
          /\ c.recovery = crit.recovery
      BY <1>1, <3>3 DEF CritType
    <3>6. \A e \in Document : e # d => c.resync[e] = crit.resync[e]
      BY <1>1 DEF CritType
    <3> HIDE DEF c
    <3>7. \A e \in Document : e # d /\ HasCriticalWork(c, e) => HasCriticalWork(crit, e)
      BY <3>5, <3>6, SameCriticalWork
    <3> QED
      BY <1>1, <2>1, <3>4, <3>5, <3>7, CriticalPublishes
  <2> QED
    BY <2>2, <2>3
<1>10. CASE DeletePublish(d)
  <2> DEFINE c == GoneFrom(crit, {d})
  <2>1. /\ Head(line[d]).kind # "critical"
        /\ crit' = Scheduling(c, line, {d})
        /\ line' = Pop(SchedulingLine(crit, line, {d}), d)
    BY <1>10 DEF DeletePublish, At
  <2>2. {d} \in SUBSET Document
    OBVIOUS
  <2>3. /\ c \in CritType /\ c.scheduled = crit.scheduled /\ c.retry = crit.retry
        /\ c.deleted = crit.deleted \cup {d} /\ c.evictions = crit.evictions
        /\ c.recovery = crit.recovery
        /\ \A e \in Document : c.resync[e] = IF e \in {d} THEN None ELSE crit.resync[e]
    BY <1>1, <2>2, GoneCrit
  <2> HIDE DEF c
  <2>4. \A e \in Document : e # d /\ HasCriticalWork(c, e) => HasCriticalWork(crit, e)
    BY <2>3, SameCriticalWork
  <2> QED
    BY <1>1, <2>1, <2>3, <2>4, CriticalPublishes
<1>11. CASE CriticalEvict(d)
  <2>1. GoesOn(d) /\ crit' = Completed(crit, d)
    BY <1>1, <1>11, CriticalEvictEffect
  <2>2. Head(line[d]).kind = "critical"
    BY <1>11 DEF CriticalEvict, At
  <2>3. /\ crit'.scheduled = crit.scheduled /\ crit'.retry = crit.retry
        /\ crit'.deleted = crit.deleted /\ crit'.resync = crit.resync
        /\ crit'.recovery = crit.recovery
        /\ crit'.evictions = [crit.evictions EXCEPT ![d] = NoEvictions]
    BY <1>1, <2>1, CompletedCrit
  <2>4. \A e \in Document : e # d => crit'.evictions[e] = crit.evictions[e]
    BY <1>1, <2>3 DEF CritType
  <2>5. \A e \in Document : HasCriticalWork(crit', e) =>
          HasCriticalWork(crit, e) \/ e \in crit.scheduled
    BY <1>3, <2>2, <2>3, <2>4, SameCriticalWork
  <2> QED
    BY <1>1, <2>1, <2>3, <2>5, CriticalOrdinary DEF Ordinary
<1>12. CASE CriticalDeleted(d)
  <2> DEFINE R == sock.room[d]
             rest == IF Unlock(held, R, d)[d] = NoLocks THEN 0 ELSE 1
             c0 == IF work[d].pc = "start" THEN Completed(crit, d) ELSE crit
             c == [c0 EXCEPT !.deleted = @ \ {d}, !.recovery = @ \ {d}]
             n == Notices(held, R, d) + rest
             m == Notify(line, d, n)
  <2>1. EndCritical(c, m, d, FALSE) /\ Head(line[d]).kind = "critical"
    BY <1>12 DEF CriticalDeleted, At
  <2>2. n \in Nat
    <3>1. R \in SUBSET Socket
      BY <1>1, RoomSockets DEF Base, TypeInv
    <3>2. Notices(held, R, d) \in Nat
      BY <3>1, NoticesNat
    <3> QED
      BY <3>2
  <2>3. /\ GrownBy(line, m, {"tell"}) /\ \A e \in Document \ {d} : m[e] = line[e]
        /\ Len(m[d]) <= Len(line[d]) \/ Len(m[d]) <= StandardCapacity
    <3>1. line \in LineType
      BY <1>1 DEF Base, TypeInv
    <3> HIDE DEF n
    <3> QED
      BY <2>2, <3>1, NotifyLine
  <2>4. /\ c0 \in CritType /\ c0.scheduled = crit.scheduled /\ c0.retry = crit.retry
        /\ c0.deleted = crit.deleted /\ c0.resync = crit.resync /\ c0.recovery = crit.recovery
        /\ \A e \in Document : e # d => c0.evictions[e] = crit.evictions[e]
    <3>1. /\ Completed(crit, d) \in CritType
          /\ Completed(crit, d).evictions = [crit.evictions EXCEPT ![d] = NoEvictions]
          /\ Completed(crit, d).scheduled = crit.scheduled /\ Completed(crit, d).retry = crit.retry
          /\ Completed(crit, d).deleted = crit.deleted /\ Completed(crit, d).resync = crit.resync
          /\ Completed(crit, d).recovery = crit.recovery
      BY <1>1, CompletedCrit
    <3>2. \A e \in Document : e # d => Completed(crit, d).evictions[e] = crit.evictions[e]
      BY <1>1, <3>1 DEF CritType
    <3> QED
      BY <1>1, <3>1, <3>2
  <2> HIDE DEF c0
  <2>5. /\ c \in CritType /\ c.scheduled = c0.scheduled /\ c.retry = c0.retry
        /\ c.deleted = c0.deleted \ {d} /\ c.resync = c0.resync
        /\ c.recovery = c0.recovery \ {d} /\ c.evictions = c0.evictions
    BY <2>4 DEF CritType
  <2> HIDE DEF c, m
  <2>6. \A e \in Document : e # d /\ HasCriticalWork(c, e) => HasCriticalWork(crit, e)
    BY <2>4, <2>5, SameCriticalWork
  <2> QED
    BY <1>1, <2>1, <2>3, <2>4, <2>5, <2>6, CriticalEnds
<1>13. CASE CriticalAsk(d)
  <2>1. GoesOn(d) /\ crit' = crit
    BY <1>1, <1>13, CriticalAskEffect DEF CriticalAsk
  <2> QED
    BY <1>1, <2>1, CriticalOrdinary DEF Ordinary
<1>14. CASE CriticalDecide(d)
  <2> DEFINE c == [crit EXCEPT !.recovery = @ \ {d}]
  <2>1. Head(line[d]).kind = "critical"
    BY <1>14 DEF CriticalDecide, ReadyForResync, At
  <2>2. /\ c \in CritType /\ c.scheduled = crit.scheduled /\ c.retry = crit.retry
        /\ c.deleted = crit.deleted /\ c.resync = crit.resync
        /\ c.recovery = crit.recovery \ {d} /\ c.evictions = crit.evictions
    BY <1>1 DEF CritType
  <2>3. \A e \in Document : e # d /\ HasCriticalWork(c, e) => HasCriticalWork(crit, e)
    BY <2>2, SameCriticalWork
  <2>4. CASE EndCritical(c, line, d, FALSE)
    <3> HIDE DEF c
    <3> QED
      BY <1>1, <1>4, <2>1, <2>2, <2>3, <2>4, CriticalEnds
  <2>5. CASE crit' \in {crit, c} /\ GoesOn(d)
    <3>1. /\ crit'.scheduled = crit.scheduled /\ crit'.retry = crit.retry
          /\ \A e \in Document : HasCriticalWork(crit', e) =>
               HasCriticalWork(crit, e) \/ e \in crit.scheduled
      BY <1>3, <2>1, <2>2, <2>3, <2>5
    <3> QED
      BY <1>1, <2>5, <3>1, CriticalOrdinary DEF Ordinary
  <2>6. EndCritical(c, line, d, FALSE) \/ (crit' \in {crit, c} /\ GoesOn(d))
    <3> DEFINE change == crit.resync[d]
               w == [Idle EXCEPT !.change = change, !.rev = change.rev]
    <3>1. CASE work[d].owed
      <4>1. UNCHANGED <<sock, line, crit>> /\ ReadCurrent(d, [Idle EXCEPT !.owed = TRUE, !.change = change])
        BY <1>14, <3>1 DEF CriticalDecide
      <4>2. change \in Announcement \cup {None}
        BY <1>1 DEF CritType
      <4>3. [Idle EXCEPT !.owed = TRUE, !.change = change] \in Standing
        BY <4>2, IdleStanding DEF Standing
      <4>4. PICK u \in Standing : u = [Idle EXCEPT !.owed = TRUE, !.change = change]
        BY <4>3
      <4>5. work' = [work EXCEPT ![d] = Read(d, u)] /\ Read(d, u) \in Standing
        BY <1>1, <4>1, <4>4, ReadStanding DEF ReadCurrent, Read, Goto, Base
      <4>6. GoesOn(d)
        BY <1>1, <1>4, <4>1, <4>5, SameJoins, GoesOnOf DEF Base
      <4> QED
        BY <4>1, <4>6
    <3>2. CASE ~work[d].owed /\ change = None
      BY <1>14, <3>2 DEF CriticalDecide
    <3>3. CASE ~work[d].owed /\ change # None
      <4>1. /\ Broadcast(d, w, Reconciled(d, change.elements), ReconcileNotices(d, change.elements))
            /\ crit' = c
        BY <1>14, <3>3 DEF CriticalDecide
      <4>2. change \in Announcement
        BY <1>1, <3>3 DEF CritType
      <4>3. w \in Standing
        BY <4>2, IdleStanding DEF Standing, Announcement
      <4> HIDE DEF w, change
      <4>4. GoesOn(d)
        BY <1>1, <4>1, <4>3, CriticalBroadcastEffect
      <4> QED
        BY <4>1, <4>4
    <3> QED
      BY <3>1, <3>2, <3>3
  <2> QED
    BY <2>4, <2>5, <2>6
<1>15. CASE CriticalCurrent(d)
  <2>1. GoesOn(d) /\ crit' = crit
    BY <1>1, <1>15, CriticalCurrentEffect DEF CriticalCurrent
  <2> QED
    BY <1>1, <2>1, CriticalOrdinary DEF Ordinary
<1>16. CASE CriticalEmit(d)
  <2> DEFINE c == IF crit.resync[d] = work[d].change THEN [crit EXCEPT !.resync[d] = None] ELSE crit
             m == EmitLine(d)
  <2>1. Head(line[d]).kind = "critical"
    BY <1>16 DEF CriticalEmit, At
  <2>2. /\ c \in CritType /\ c.scheduled = crit.scheduled /\ c.retry = crit.retry
        /\ c.deleted = crit.deleted /\ c.recovery = crit.recovery
        /\ c.evictions = crit.evictions
        /\ \A e \in Document : e # d => c.resync[e] = crit.resync[e]
    <3> DEFINE b == [crit EXCEPT !.resync[d] = None]
    <3>1. /\ b \in CritType /\ b.scheduled = crit.scheduled /\ b.retry = crit.retry
          /\ b.deleted = crit.deleted /\ b.recovery = crit.recovery
          /\ b.evictions = crit.evictions
      BY <1>1 DEF CritType
    <3>2. \A e \in Document : e # d => b.resync[e] = crit.resync[e]
      BY <1>1 DEF CritType
    <3> HIDE DEF b
    <3>3. c = b \/ c = crit
      BY DEF b
    <3> HIDE DEF c
    <3> QED
      BY <1>1, <3>1, <3>2, <3>3
  <2>3. \/ crit' = c /\ line' = m /\ work' = [work EXCEPT ![d] = [work[d] EXCEPT !.pc = "marking"]]
        \/ EndCritical(c, m, d, FALSE)
    BY <1>16 DEF CriticalEmit, Goto
  <2>4. /\ GrownBy(line, m, {"tell"}) /\ \A e \in Document \ {d} : m[e] = line[e]
        /\ Len(m[d]) <= Len(line[d]) \/ Len(m[d]) <= StandardCapacity
    BY <1>1, EmitLineGrown DEF Base
  <2>5. sock'.joins = sock.joins /\ sock'.turn = sock.turn
    BY <1>1, <1>16, EmitEffect DEF CriticalEmit
  <2> HIDE DEF c, m
  <2>6. \A e \in Document : e # d /\ HasCriticalWork(c, e) => HasCriticalWork(crit, e)
    BY <2>2, SameCriticalWork
  <2>7. CASE EndCritical(c, m, d, FALSE)
    BY <1>1, <2>1, <2>2, <2>4, <2>6, <2>7, CriticalEnds
  <2>8. CASE crit' = c /\ line' = m /\ work' = [work EXCEPT ![d] = [work[d] EXCEPT !.pc = "marking"]]
    <3>1. [work[d] EXCEPT !.pc = "marking"] \in Standing
      <4>1. work[d] \in Standing /\ "marking" \in Steps
        BY <1>1 DEF Base, TypeInv, Steps
      <4> QED
        BY <4>1 DEF Standing
    <3>2. GoesOn(d)
      BY <1>1, <2>4, <2>5, <2>8, <3>1, SameJoins, GoesOnOf DEF Base
    <3>3. \A e \in Document : HasCriticalWork(crit', e) =>
            HasCriticalWork(crit, e) \/ e \in crit.scheduled
      BY <1>3, <2>1, <2>6, <2>8
    <3> QED
      BY <1>1, <2>2, <2>8, <3>2, <3>3, CriticalOrdinary DEF Ordinary
  <2> QED
    BY <2>3, <2>7, <2>8
<1>17. CASE CriticalDelivered(d)
  <2> DEFINE c == [crit EXCEPT !.recovery = @ \ {d}]
  <2>1. Head(line[d]).kind = "critical" /\ EndCritical(c, line, d, FALSE)
    BY <1>17 DEF CriticalDelivered, At
  <2>2. /\ c \in CritType /\ c.scheduled = crit.scheduled /\ c.retry = crit.retry
        /\ c.deleted = crit.deleted /\ c.resync = crit.resync
        /\ c.recovery = crit.recovery \ {d} /\ c.evictions = crit.evictions
    BY <1>1 DEF CritType
  <2> HIDE DEF c
  <2>3. \A e \in Document : e # d /\ HasCriticalWork(c, e) => HasCriticalWork(crit, e)
    BY <2>2, SameCriticalWork
  <2> QED
    BY <1>1, <1>4, <2>1, <2>2, <2>3, CriticalEnds
<1>18. CASE Fail(d)
  <2>1. \/ UNCHANGED crit /\ Ordinary(d)
        \/ Head(line[d]).kind = "critical" /\ EndCritical(crit, line, d, TRUE)
    BY <1>1, <1>18, FailEffect
  <2>2. CASE Head(line[d]).kind = "critical" /\ EndCritical(crit, line, d, TRUE)
    BY <1>1, <1>4, <2>2, CriticalEnds
  <2>3. CASE UNCHANGED crit /\ Ordinary(d)
    <3>1. CASE Head(line[d]).kind # "critical"
      BY <1>2, <2>3, <3>1
    <3>2. CASE Head(line[d]).kind = "critical"
      BY <1>1, <1>4, <1>18, <3>2, CriticalEnds DEF Fail
    <3> QED
      BY <3>1, <3>2
  <2> QED
    BY <2>1, <2>2, <2>3
<1> QED
  BY <1>5, <1>6, <1>7, <1>8, <1>9, <1>10, <1>11, <1>12, <1>13, <1>14, <1>15, <1>16, <1>17, <1>18
     DEF Serve

\* The other steps keep critical work scheduled.
LEMMA CriticalOther ==
  ASSUME Core, CriticalInv, [Next]_vars, ~\E d \in Document : Serve(d) \/ Fail(d), ~Crash
  PROVE  CriticalInv'
<1>1. Base /\ crit \in CritType
  BY DEF Core, Base, TypeInv
<1>2. ASSUME TypeInv', NEW K, "critical" \notin K, Grows(K), Bounded, crit' = crit
      PROVE  CriticalInv'
  BY <1>1, <1>2, CriticalGrows
<1>3. \A e \in Document : Carries(line[e], e, crit.scheduled)
  BY DEF CriticalInv
<1>4. CASE \E s \in Socket : BeginJoin(s)
  <2>1. TypeInv' /\ Bounded /\ crit' = crit /\ (Grows({}) \/ Grows({"join"}))
    BY <1>1, <1>4, BeginJoinEffect DEF BeginJoin
  <2> QED
    BY <1>2, <2>1
<1>5. CASE \E s \in Socket, d \in Document :
             \/ RequestJoin(s, d) \/ RequestDelete(s, d)
             \/ \E E \in SUBSET Element : RequestReplace(s, d, E)
             \/ \E x \in Element : RequestLock(s, d, x)
  <2>1. /\ TypeInv' /\ Bounded
        /\ Grows({}) \/ Grows({"delete"}) \/ Grows({"put"}) \/ Grows({"lock"})
    BY <1>1, <1>5, RequestEffect
  <2>2. crit' = crit
    BY <1>5 DEF RequestJoin, RequestDelete, RequestReplace, RequestLock
  <2> QED
    BY <1>2, <2>1, <2>2
<1>6. CASE \E s \in Socket : \/ \E d \in Document : Leave(s, d)
                             \/ Disconnect(s) \/ Expel(s) \/ Reconnect(s)
  <2>1. TypeInv' /\ Bounded /\ (Grows({}) \/ Grows({"tell"}))
    BY <1>1, <1>6, LeaveEffect, DisconnectEffect, ReconnectEffect
  <2>2. crit' = crit
    BY <1>6 DEF Leave, Disconnect, Expel, Leaves, Reconnect
  <2> QED
    BY <1>2, <2>1, <2>2
<1>7. CASE \E s \in Socket, o \in Op :
             (\E d \in Document : SendCommand(s, d, o)) \/ ResendCommand(s, o)
  <2>1. TypeInv' /\ Bounded /\ Grows({"command"}) /\ crit' = crit
    BY <1>1, <1>7, SendEffect, ResendEffect
  <2> QED
    BY <1>2, <2>1
<1>8. CASE \E p \in outbox : Publish(p)
  <2>1. PICK p \in outbox : Publish(p)
    BY <1>8
  <2>2. /\ TypeInv' /\ p \in ChangeType
        /\ p.kind \in {"granted", "removed"} => p.user \in User
        /\ p.kind = "removed" => p.n \in Removals
    BY <1>1, <2>1, PublishEffect DEF Base, TypeInv
  <2>3. p.kind \in {"granted", "removed", "deleted", "revoked"} /\ p.docs \in SUBSET Document
    BY <2>2 DEF ChangeType
  <2>4. CASE p.kind = "granted"
    <3> DEFINE c == Fence(crit, p.user, 0, {})
    <3>1. /\ crit' = c /\ UNCHANGED <<sock, line, work>>
      BY <2>1, <2>4 DEF Publish
    <3>2. p.user \in User /\ {} \in SUBSET Document
      BY <2>2, <2>4
    <3>3. /\ c.scheduled = crit.scheduled /\ c.retry = crit.retry
          /\ c.deleted = crit.deleted /\ c.resync = crit.resync /\ c.recovery = crit.recovery
          /\ \A e \in Document : e \notin {} => c.evictions[e] = crit.evictions[e]
      BY <1>1, <3>2, FenceCrit
    <3> HIDE DEF c
    <3>4. \A e \in Document : HasCriticalWork(crit', e) => HasCriticalWork(crit, e)
      BY <3>1, <3>3, SameCriticalWork
    <3>5. \A s \in Socket : JoinsKept(s)
      BY <1>1, <3>1, SameJoins
    <3>6. Grows({}) /\ Bounded
      BY <1>1, <3>1, <3>5, SameLines DEF Base
    <3> QED
      BY <1>1, <2>2, <3>1, <3>3, <3>4, <3>6, CriticalGrows
  <2>5. CASE p.kind = "removed"
    <3> DEFINE c == Fence(crit, p.user, p.n, p.docs)
    <3>1. Schedule(c, line, p.docs)
      BY <2>1, <2>5 DEF Publish
    <3>2. p.user \in User /\ p.n \in Removals /\ p.n \in Nat
      <4>1. p.n \in Removals
        BY <2>2, <2>5
      <4> QED
        BY <2>2, <2>5, <4>1, BudgetAssumption DEF Removals
    <3>3. /\ c \in CritType /\ c.scheduled = crit.scheduled /\ c.retry = crit.retry
          /\ c.deleted = crit.deleted /\ c.resync = crit.resync /\ c.recovery = crit.recovery
          /\ \A e \in Document : e \notin p.docs => c.evictions[e] = crit.evictions[e]
      BY <1>1, <2>3, <3>2, FenceCrit
    <3> HIDE DEF c
    <3>4. \A e \in Document : HasCriticalWork(c, e) => e \in c.scheduled \cup c.retry \cup p.docs
      <4> SUFFICES ASSUME NEW e \in Document, HasCriticalWork(c, e), e \notin p.docs
                   PROVE  e \in c.scheduled \cup c.retry
        OBVIOUS
      <4>1. HasCriticalWork(crit, e)
        BY <3>3, SameCriticalWork
      <4> QED
        BY <3>3, <4>1 DEF CriticalInv
    <3> QED
      BY <1>1, <1>3, <2>3, <3>1, <3>3, <3>4, CriticalSchedules
  <2>6. CASE p.kind = "deleted"
    <3> DEFINE c == GoneFrom(crit, p.docs)
    <3>1. Schedule(c, line, p.docs)
      BY <2>1, <2>6 DEF Publish
    <3>2. /\ c \in CritType /\ c.scheduled = crit.scheduled /\ c.retry = crit.retry
          /\ c.deleted = crit.deleted \cup p.docs /\ c.evictions = crit.evictions
          /\ c.recovery = crit.recovery
          /\ \A e \in Document : c.resync[e] = IF e \in p.docs THEN None ELSE crit.resync[e]
      BY <1>1, <2>3, GoneCrit
    <3> HIDE DEF c
    <3>3. \A e \in Document : HasCriticalWork(c, e) => e \in c.scheduled \cup c.retry \cup p.docs
      <4> SUFFICES ASSUME NEW e \in Document, HasCriticalWork(c, e), e \notin p.docs
                   PROVE  e \in c.scheduled \cup c.retry
        OBVIOUS
      <4>1. HasCriticalWork(crit, e)
        BY <3>2, SameCriticalWork
      <4> QED
        BY <3>2, <4>1 DEF CriticalInv
    <3> QED
      BY <1>1, <1>3, <2>3, <3>1, <3>2, <3>3, CriticalSchedules
  <2>7. CASE p.kind = "revoked"
    <3> DEFINE S == {s \in Socket : SessionOf[s] = p.session}
    <3>1. crit' = crit /\ line' = line /\ work' = work /\ sock' = Doomed(S)
      BY <2>1, <2>7 DEF Publish
    <3>2. S \in SUBSET Socket /\ sock \in SockType
      BY <1>1 DEF Base, TypeInv
    <3> HIDE DEF S
    <3>3. sock'.joins = sock.joins /\ sock'.turn = sock.turn
      BY <3>1, <3>2, DoomedSock
    <3>4. Grows({}) /\ Bounded
      BY <1>1, <3>1, <3>3, SameJoins, SameLines DEF Base
    <3> QED
      BY <1>2, <2>2, <3>1, <3>4
  <2> QED
    BY <2>3, <2>4, <2>5, <2>6, <2>7
<1>9. CASE \E d \in Document : RetryTimer(d)
  <2>1. PICK d \in Document : RetryTimer(d)
    BY <1>9
  <2> DEFINE c == [crit EXCEPT !.retry = @ \ {d}]
             D == IF HasCriticalWork(c, d) THEN {d} ELSE {}
  <2>2. Schedule(c, line, D) /\ D \in SUBSET Document
    BY <2>1 DEF RetryTimer
  <2>3. /\ c \in CritType /\ c.scheduled = crit.scheduled /\ c.retry = crit.retry \ {d}
        /\ c.deleted = crit.deleted /\ c.evictions = crit.evictions
        /\ c.resync = crit.resync /\ c.recovery = crit.recovery
    BY <1>1 DEF CritType
  <2>4. HasCriticalWork(c, d) => d \in D
    OBVIOUS
  <2> HIDE DEF c, D
  <2>5. \A e \in Document : HasCriticalWork(c, e) => e \in c.scheduled \cup c.retry \cup D
    <3> SUFFICES ASSUME NEW e \in Document, HasCriticalWork(c, e), e # d
                 PROVE  e \in c.scheduled \cup c.retry
      BY <2>4
    <3>1. HasCriticalWork(crit, e)
      BY <2>3, SameCriticalWork
    <3> QED
      BY <2>3, <3>1 DEF CriticalInv
  <2> QED
    BY <1>1, <1>3, <2>2, <2>3, <2>5, CriticalSchedules
<1>10. CASE ScanAsk
  <2>1. crit' = [crit EXCEPT !.scan = Awaiting] /\ UNCHANGED <<sock, line, work>>
    BY <1>10 DEF ScanAsk
  <2>2. /\ crit'.scheduled = crit.scheduled /\ crit'.retry = crit.retry
        /\ crit'.deleted = crit.deleted /\ crit'.evictions = crit.evictions
        /\ crit'.resync = crit.resync /\ crit'.recovery = crit.recovery
    BY <1>1, <2>1 DEF CritType
  <2>3. \A e \in Document : HasCriticalWork(crit', e) => HasCriticalWork(crit, e)
    BY <2>2, SameCriticalWork
  <2>4. TypeInv' /\ Grows({}) /\ Bounded
    BY <1>1, <1>10, <2>1, SameJoins, SameLines, ScanEffect DEF Base
  <2> QED
    BY <1>1, <2>2, <2>3, <2>4, CriticalGrows
<1>11. CASE ScanAnswer
  <2> DEFINE c == [crit EXCEPT !.recovery = @ \cup crit.scan, !.scan = {}]
  <2>1. Schedule(c, line, crit.scan) /\ crit.scan \in SUBSET Document
    BY <1>1, <1>11 DEF ScanAnswer, CritType
  <2>2. /\ c \in CritType /\ c.scheduled = crit.scheduled /\ c.retry = crit.retry
        /\ c.deleted = crit.deleted /\ c.evictions = crit.evictions
        /\ c.resync = crit.resync /\ c.recovery = crit.recovery \cup crit.scan
    BY <1>1 DEF CritType
  <2> HIDE DEF c
  <2>3. \A e \in Document : HasCriticalWork(c, e) => e \in c.scheduled \cup c.retry \cup crit.scan
    <3> SUFFICES ASSUME NEW e \in Document, HasCriticalWork(c, e), e \notin crit.scan
                 PROVE  e \in c.scheduled \cup c.retry
      OBVIOUS
    <3>1. HasCriticalWork(crit, e)
      BY <2>2, SameCriticalWork
    <3> QED
      BY <2>2, <3>1 DEF CriticalInv
  <2> QED
    BY <1>1, <1>3, <2>1, <2>2, <2>3, CriticalSchedules
<1>12. CASE \E d \in Document, x \in Element : LockExpires(d, x)
  <2>1. TypeInv' /\ Bounded /\ Grows({"tell"}) /\ crit' = crit
    BY <1>1, <1>12, LockExpiresEffect DEF LockExpires
  <2> QED
    BY <1>2, <2>1
<1>13. CASE Project
  <2>1. TypeInv' /\ Bounded /\ Grows({}) /\ crit' = crit
    BY <1>1, <1>13, ProjectEffect DEF Project
  <2> QED
    BY <1>2, <2>1
<1>14. CASE UNCHANGED vars
  BY <1>14 DEF vars, CriticalInv
<1> QED
  BY <1>4, <1>5, <1>6, <1>7, <1>8, <1>9, <1>10, <1>11, <1>12, <1>13, <1>14
     DEF Next, Housekeeping, Clients, Mishaps

\* Every step keeps critical work scheduled.
LEMMA CriticalStep ==
  ASSUME Core, CriticalInv, [Next]_vars
  PROVE  CriticalInv'
<1>1. CASE Crash
  <2>1. crit' = InitialCritical /\ \A d \in Document : line'[d] = <<>>
    BY <1>1, CrashEffect DEF Core
  <2>2. Capacity \in Nat /\ 0 < Capacity
    BY CapacityAssumption
  <2>3. \A d \in Document : ~HasCriticalWork(InitialCritical, d)
    BY DEF HasCriticalWork, InitialCritical
  <2>4. InitialCritical.scheduled = {}
    BY DEF InitialCritical
  <2>5. \A d \in Document : Carries(line'[d], d, crit'.scheduled)
    <3> SUFFICES ASSUME NEW d \in Document PROVE Carries(<<>>, d, {})
      BY <2>1, <2>4
    <3>1. Len(<<>>) = 0 /\ 1 .. Len(<<>>) = {}
      OBVIOUS
    <3> QED
      BY <2>2, <3>1 DEF Carries
  <2> QED
    BY <2>1, <2>3, <2>5 DEF CriticalInv
<1>2. CASE ~Crash /\ ~\E d \in Document : Serve(d) \/ Fail(d)
  BY <1>2, CriticalOther
<1> QED
  BY <1>1, <1>2, CriticalTask

\* Nothing is owed at the start.
LEMMA CriticalInit ==
  ASSUME Init
  PROVE  CriticalInv
<1>1. crit = InitialCritical /\ \A d \in Document : line[d] = <<>>
  BY DEF Init
<1>2. Capacity \in Nat /\ 0 < Capacity
  BY CapacityAssumption
<1>3. \A d \in Document : ~HasCriticalWork(InitialCritical, d)
  BY DEF HasCriticalWork, InitialCritical
<1>4. InitialCritical.scheduled = {}
  BY DEF InitialCritical
<1>5. \A d \in Document : Carries(line[d], d, crit.scheduled)
  <2> SUFFICES ASSUME NEW d \in Document PROVE Carries(<<>>, d, {})
    BY <1>1, <1>4
  <2>1. Len(<<>>) = 0 /\ 1 .. Len(<<>>) = {}
    OBVIOUS
  <2> QED
    BY <1>2, <2>1 DEF Carries
<1> QED
  BY <1>1, <1>3, <1>5 DEF CriticalInv

\* CriticalInv is an invariant.
THEOREM CriticalInvariant == Spec => []CriticalInv
<1>1. Init => CriticalInv
  BY CriticalInit
<1>2. Core /\ CriticalInv /\ [Next]_vars => CriticalInv'
  BY CriticalStep
<1> QED
  BY <1>1, <1>2, CoreInvariant, PTL DEF Spec

\* What is owed is in the line once, with a place kept for it, or waits for its timer.
THEOREM CriticalWorkStaysScheduled == Spec => []CriticalWorkScheduled
<1>1. Core /\ CriticalInv => CriticalWorkScheduled
  <2> SUFFICES ASSUME Core, CriticalInv, NEW d \in Document
               PROVE  LET n == Cardinality({i \in DOMAIN line[d] : line[d][i].kind = "critical"})
                      IN /\ n = IF d \in crit.scheduled THEN 1 ELSE 0
                         /\ d \notin crit.scheduled => Len(line[d]) < Capacity
                         /\ HasCriticalWork(crit, d) => d \in crit.scheduled \cup crit.retry
    BY DEF CriticalWorkScheduled
  <2> DEFINE X == {i \in DOMAIN line[d] : line[d][i].kind = "critical"}
  <2>1. Carries(line[d], d, crit.scheduled)
    BY DEF CriticalInv
  <2>2. DOMAIN line[d] = 1 .. Len(line[d])
    BY DEF Core, Base, TypeInv, LineType
  <2>3. CASE d \in crit.scheduled
    <3>1. PICK i \in DOMAIN line[d] : X = {i}
      BY <2>1, <2>2, <2>3 DEF Carries
    <3>2. Cardinality(X) = 1
      BY <3>1, FS_Singleton
    <3> QED
      BY <2>3, <3>2 DEF CriticalInv
  <2>4. CASE d \notin crit.scheduled
    <3>1. X = {}
      BY <2>1, <2>2, <2>4 DEF Carries
    <3>2. Cardinality(X) = 0
      BY <3>1, FS_EmptySet
    <3> QED
      BY <2>1, <2>4, <3>2 DEF CriticalInv, Carries
  <2> QED
    BY <2>3, <2>4
<1> QED
  BY <1>1, CoreInvariant, CriticalInvariant, PTL

\* Every variable keeps its type, and the rooms agree with the stores.
THEOREM RoomsCohere == Spec => []RoomCoherence
<1>1. Core /\ CriticalInv => TypeOK
  <2> SUFFICES ASSUME Core, CriticalInv PROVE TypeOK
    OBVIOUS
  <2>1. TypeInv /\ RoomInv /\ IdleInv
    BY DEF Core, Base
  <2>2. /\ db.exists \subseteq Document /\ db.member \subseteq User /\ db.sessions \subseteq Session
        /\ db.rev \in [Document -> Nat] /\ db.elements \in [Document -> SUBSET Element]
    BY <2>1 DEF TypeInv, DatabaseType
  <2>3. \A o \in Op : ops[o].doc \in Document \cup {None} /\ ops[o].rev \in Nat
    BY <2>1 DEF TypeInv, Row
  <2>4. /\ sock.connected \subseteq Socket /\ sock.doomed \subseteq sock.connected
        /\ sock.room \in [Document -> SUBSET Socket]
        /\ sock.joined \in [Socket -> SUBSET Document]
        /\ sock.pending \in [Socket -> SUBSET Document]
        /\ sock.joins \in [Socket -> Seq(Document)] /\ sock.turn \subseteq Socket
    BY <2>1 DEF TypeInv, SockType, RoomInv
  <2>5. present \in [Document -> SUBSET Socket] /\ held \in [Document -> [Element -> Socket \cup {None}]]
    BY <2>1 DEF TypeInv, PresentType, HeldType
  <2>6. ASSUME NEW d \in Document
        PROVE  /\ Len(line[d]) <= Capacity
               /\ \A i \in DOMAIN line[d] : line[d][i].kind \in Kinds
               /\ work[d].pc \in Steps /\ (~Busy(d) => work[d] = Idle)
    <3>1. line[d] \in Seq(Task) /\ work[d] \in Standing
      BY <2>1 DEF TypeInv, LineType
    <3>2. \A i \in DOMAIN line[d] : line[d][i] \in Task
      BY <3>1
    <3>3. \A i \in DOMAIN line[d] : line[d][i].kind \in Kinds
      BY <3>2, TaskFields
    <3>4. work[d].pc \in Steps
      BY <3>1 DEF Standing
    <3>5. Len(line[d]) <= Capacity
      BY DEF CriticalInv, Carries
    <3> QED
      BY <2>1, <3>3, <3>4, <3>5 DEF IdleInv
  <2>7. /\ crit.fence \in [User -> Removals \cup {0}]
        /\ crit.deleted \cup crit.scheduled \cup crit.retry \cup crit.recovery \cup crit.scan
             \subseteq Document
    BY <2>1 DEF TypeInv, CritType, Removal
  <2>8. known \in [Socket -> [Document -> Nat \cup {-1}]]
    BY <2>1 DEF TypeInv, KnownType, Revision
  <2> QED
    BY <2>2, <2>3, <2>4, <2>5, <2>6, <2>7, <2>8 DEF TypeOK
<1>2. Core /\ TypeOK => RoomCoherence
  BY DEF Core, Base, RoomInv, RoomCoherence
<1> QED
  BY <1>1, <1>2, CoreInvariant, CriticalInvariant, PTL

-----------------------------------------------------------------------------
(* The history of the operations *)

\* Operations that were committed follow the revision they were made for, and each
\* revision comes from one of them at most.
OpsInv ==
  /\ \A o \in Op :
       /\ ops[o].doc = None => ops[o].rev = 0
       /\ ops[o].rev = 0 => ~ops[o].delivered
       /\ ops[o].rev > 0 => ops[o].base < ops[o].rev /\ ops[o].rev <= db.rev[ops[o].doc]
  /\ \A o, p \in Op :
       ops[o].rev > 0 /\ ops[p].doc = ops[o].doc /\ ops[p].rev = ops[o].rev => p = o

\* What may happen to the row of an operation besides its commit: nothing, its
\* deletion, which leaves an operation that was only sent, or its delivery.
RowStays(o) ==
  /\ ops'[o].doc = ops[o].doc /\ ops'[o].base = ops[o].base /\ ops'[o].rev = ops[o].rev
  /\ (ops'[o].delivered <=> ops[o].delivered) /\ ops'[o].untold = ops[o].untold
RowVoid(o) ==
  /\ ops'[o].rev = 0 /\ ~ops'[o].delivered
  /\ ops[o].doc # None => ops'[o].doc = ops[o].doc
RowTold(o) ==
  /\ ops'[o].doc = ops[o].doc /\ ops'[o].base = ops[o].base /\ ops'[o].rev = ops[o].rev
  /\ ops[o].rev > 0 /\ ops'[o].delivered

\* Nothing is committed or marked as delivered.
RowsKept ==
  /\ db'.rev = db.rev /\ db'.exists \subseteq db.exists /\ db'.sessions \subseteq db.sessions
  /\ \A o \in Op : RowStays(o) \/ RowVoid(o)

\* The fields of the row of an operation.
LEMMA RowType ==
  ASSUME TypeInv, NEW o \in Op
  PROVE  /\ ops[o].doc \in Document \cup {None} /\ ops[o].base \in Nat /\ ops[o].rev \in Nat
         /\ ops[o].delivered \in BOOLEAN
         /\ \A d \in Document : db.rev[d] \in Nat
<1>1. ops[o] \in Row
  BY DEF TypeInv
<1>2. \A d \in Document : db.rev[d] \in Nat
  BY DEF TypeInv, DatabaseType
<1> QED
  BY <1>1, <1>2 DEF Row

\* Rows that do not change are kept.
LEMMA SameRows ==
  ASSUME db' = db, ops' = ops
  PROVE  RowsKept
  BY DEF RowsKept, RowStays

\* A deletion voids rows, and marks none.
LEMMA RowsWithout ==
  ASSUME TypeInv, NEW D \in SUBSET Document, WithoutDocuments(D)
  PROVE  RowsKept
<1>1. /\ db'.exists = db.exists \ D /\ db'.rev = db.rev /\ db'.sessions = db.sessions
      /\ \A o \in Op :
           ops'[o] = IF ops[o].doc \in D
                       THEN [ops[o] EXCEPT !.rev = 0, !.delivered = FALSE] ELSE ops[o]
  BY WithoutDocumentsType
<1>2. ASSUME NEW o \in Op PROVE RowStays(o) \/ RowVoid(o)
  <2>1. ops[o] \in Row
    BY DEF TypeInv
  <2>2. CASE ops'[o] = ops[o]
    BY <2>2 DEF RowStays
  <2>3. CASE ops'[o] = [ops[o] EXCEPT !.rev = 0, !.delivered = FALSE]
    BY <2>1, <2>3 DEF RowVoid, Row
  <2> QED
    BY <1>1, <2>2, <2>3
<1> QED
  BY <1>1, <1>2 DEF RowsKept

\* The steps that commit or mark.
Hides(d) == Fail(d) /\ MarkHidden(d)
Writes(d) ==
  \/ CommandProcess(d) \/ CommandDelivered(d) \/ ReplaceTransact(d) \/ CriticalDelivered(d)
  \/ Hides(d)

\* No other step of a task commits or marks an operation.
LEMMA RowsTask ==
  ASSUME Core, NEW d \in Document, Serve(d) \/ Fail(d), ~Writes(d)
  PROVE  RowsKept
<1>1. CASE DeleteTransact(d)
  <2>1. Base /\ {d} \in SUBSET Document
    BY DEF Core
  <2>2. UNCHANGED <<db, ops>> \/ WithoutDocuments({d})
    BY <1>1, <2>1, DeleteTransactEffect
  <2> QED
    BY <2>1, <2>2, SameRows, RowsWithout DEF Base
<1>3. CASE Fail(d)
  <2>1. db' = db /\ ops' = ops
    BY <1>3, FailEffect DEF Core, Writes, Hides
  <2> QED
    BY <2>1, SameRows
<1>2. CASE ~DeleteTransact(d) /\ ~Fail(d)
  <2>1. db' = db /\ ops' = ops
    BY <1>2 DEF Writes, Serve, TellStart, TellEmit, JoinCheck, JoinEnter, JoinRegister,
       JoinConfirm, Authorize, CommandCurrent, CommandBroadcast, CommandEmit,
       LockServed, ReplacePublish, DeletePublish, CriticalEvict, CriticalDeleted, CriticalAsk,
       CriticalDecide, CriticalCurrent, CriticalEmit
  <2> QED
    BY <2>1, SameRows
<1> QED
  BY <1>1, <1>2, <1>3

\* No step outside the lines commits or marks an operation.
LEMMA RowsOther ==
  ASSUME Core, OpsInv, [Next]_vars, ~\E d \in Document : Serve(d) \/ Fail(d)
  PROVE  RowsKept
<1>1. Base /\ TypeInv
  BY DEF Core, Base
<1>2. CASE \E s \in Socket, d \in Document, o \in Op : SendCommand(s, d, o)
  <2>1. PICK s \in Socket, d \in Document, o \in Op : SendCommand(s, d, o)
    BY <1>2
  <2>2. /\ ops[o].doc = None /\ db' = db
        /\ ops'[o].rev = ops[o].rev /\ ops'[o].delivered = ops[o].delivered
        /\ \A p \in Op : p # o => ops'[p] = ops[p]
    BY <1>1, <2>1, SendEffect
  <2>3. RowVoid(o)
    BY <2>2 DEF OpsInv, RowVoid
  <2>4. \A p \in Op : p # o => RowStays(p)
    BY <2>2 DEF RowStays
  <2> QED
    BY <2>2, <2>3, <2>4 DEF RowsKept
<1>3. CASE DeleteProject
  <2>1. /\ db' = [db EXCEPT !.exists = {}, !.member = {}]
        /\ ops' = [o \in Op |-> [ops[o] EXCEPT !.rev = 0, !.delivered = FALSE]]
    BY <1>3 DEF DeleteProject
  <2>2. db'.rev = db.rev /\ db'.exists \subseteq db.exists /\ db'.sessions = db.sessions
    BY <1>1, <2>1 DEF TypeInv, DatabaseType
  <2>3. ASSUME NEW o \in Op PROVE RowVoid(o)
    <3>1. ops[o] \in Row
      BY <1>1 DEF TypeInv
    <3> QED
      BY <2>1, <3>1 DEF RowVoid, Row
  <2> QED
    BY <2>2, <2>3 DEF RowsKept
<1>4. CASE (\E u \in User : RemoveMember(u) \/ GrantMember(u)) \/ \E x \in Session : RevokeSession(x)
  <2>1. ops' = ops
    BY <1>4 DEF RemoveMember, GrantMember, RevokeSession
  <2>2. db'.rev = db.rev /\ db'.exists = db.exists /\ db'.sessions \subseteq db.sessions
    BY <1>1, <1>4 DEF RemoveMember, GrantMember, RevokeSession, TypeInv, DatabaseType
  <2> QED
    BY <2>1, <2>2 DEF RowsKept, RowStays
<1>5. CASE \/ \E s \in Socket : BeginJoin(s) \/ Expel(s) \/ Disconnect(s) \/ Reconnect(s)
           \/ \E s \in Socket, d \in Document :
                \/ RequestJoin(s, d) \/ Leave(s, d) \/ RequestDelete(s, d)
                \/ \E x \in Element : RequestLock(s, d, x)
                \/ \E E \in SUBSET Element : RequestReplace(s, d, E)
           \/ \E s \in Socket, o \in Op : ResendCommand(s, o)
  <2>1. db' = db /\ ops' = ops
    BY <1>5 DEF BeginJoin, Expel, Disconnect, Leaves, Reconnect, RequestJoin, Leave,
       RequestDelete, RequestLock, RequestReplace, ResendCommand
  <2> QED
    BY <2>1, SameRows
<1>6. CASE \/ \E p \in outbox : Publish(p)
           \/ \E d \in Document : RetryTimer(d)
           \/ ScanAsk \/ ScanAnswer
           \/ \E d \in Document, x \in Element : LockExpires(d, x)
           \/ Crash \/ UNCHANGED vars
  <2>1. db' = db /\ ops' = ops
    BY <1>6 DEF Publish, RetryTimer, ScanAsk, ScanAnswer, LockExpires, Crash, vars
  <2> QED
    BY <2>1, SameRows
<1> QED
  BY <1>2, <1>3, <1>4, <1>5, <1>6 DEF Next, Housekeeping, Clients, Mishaps, Project

\* Voiding and marking rows keep the history.
LEMMA OpsKept ==
  ASSUME TypeInv, TypeInv', OpsInv, \A d \in Document : db'.rev[d] >= db.rev[d],
         \A o \in Op : RowStays(o) \/ RowVoid(o) \/ RowTold(o)
  PROVE  OpsInv'
<1>1. ASSUME NEW o \in Op
      PROVE  /\ ops'[o].doc = None => ops'[o].rev = 0
             /\ ops'[o].rev = 0 => ~ops'[o].delivered
             /\ ops'[o].rev > 0 => ops'[o].base < ops'[o].rev /\ ops'[o].rev <= db'.rev[ops'[o].doc]
  <2>1. /\ ops[o].doc \in Document \cup {None} /\ ops[o].rev \in Nat /\ ops'[o].rev \in Nat
        /\ \A d \in Document : db.rev[d] \in Nat /\ db'.rev[d] \in Nat
    <3>1. ops'[o] \in Row /\ \A d \in Document : db'.rev[d] \in Nat
      BY DEF TypeInv, DatabaseType
    <3> QED
      BY <3>1, RowType DEF Row
  <2>2. CASE ops'[o].rev = 0 /\ ~ops'[o].delivered
    BY <2>2
  <2>3. CASE /\ ops'[o].doc = ops[o].doc /\ ops'[o].base = ops[o].base
             /\ ops'[o].rev = ops[o].rev
             /\ ops'[o].delivered => ops[o].delivered \/ ops[o].rev > 0
    <3>1. /\ ops[o].doc = None => ops[o].rev = 0
          /\ ops[o].rev = 0 => ~ops[o].delivered
          /\ ops[o].rev > 0 => ops[o].base < ops[o].rev /\ ops[o].rev <= db.rev[ops[o].doc]
      BY DEF OpsInv
    <3>2. ops[o].rev > 0 => ops[o].doc \in Document /\ ops[o].rev <= db'.rev[ops[o].doc]
      BY <2>1, <3>1
    <3> QED
      BY <2>1, <2>3, <3>1, <3>2
  <2> QED
    BY <2>2, <2>3 DEF RowStays, RowVoid, RowTold
<1>2. ASSUME NEW o \in Op, NEW p \in Op, ops'[o].rev > 0, ops'[p].doc = ops'[o].doc,
             ops'[p].rev = ops'[o].rev
      PROVE  p = o
  <2>1. ops'[o].doc = ops[o].doc /\ ops'[o].rev = ops[o].rev
    BY <1>2 DEF RowStays, RowVoid, RowTold
  <2>2. ops'[p].doc = ops[p].doc /\ ops'[p].rev = ops[p].rev
    BY <1>2 DEF RowStays, RowVoid, RowTold
  <2> QED
    BY <1>2, <2>1, <2>2 DEF OpsInv
<1> QED
  BY <1>1, <1>2 DEF OpsInv

\* What a command commits.
LEMMA CommandCommits ==
  ASSUME Core, OpsInv, NEW d \in Document, CommandProcess(d)
  PROVE  /\ Head(line[d]).op \in Op /\ ops[Head(line[d]).op].doc = d
         /\ \A o \in Op : o # Head(line[d]).op => ops'[o] = ops[o]
         /\ db'.exists = db.exists /\ db'.sessions = db.sessions
         /\ \A e \in Document : e # d => db'.rev[e] = db.rev[e]
         /\ \/ db' = db /\ ops' = ops
            \/ LET o == Head(line[d]).op IN
               /\ ops[o].rev = 0 /\ ops[o].base = db.rev[d]
               /\ db'.rev[d] = db.rev[d] + 1
               /\ ops'[o].doc = d /\ ops'[o].base = ops[o].base
               /\ ops'[o].rev = ops[o].base + 1
               /\ ops'[o].delivered <=> ops[o].delivered
<1> DEFINE o == Head(line[d]).op
<1>1. Base /\ TypeInv
  BY DEF Core, Base
<1>2. o \in Op
  BY <1>1, CommandProcessEffect
<1>3. ops[o].doc = d
  <2>1. Busy(d) /\ Head(line[d]).kind = "command"
    BY DEF CommandProcess, At
  <2>2. Head(line[d]) = line[d][1] /\ 1 \in 1 .. Len(line[d])
    BY <1>1, <2>1, HeadTask
  <2> QED
    BY <1>1, <2>1, <2>2 DEF Base, SentInv
<1> HIDE DEF o
<1>4. CASE UNCHANGED <<db, ops>>
  BY <1>2, <1>3, <1>4 DEF o
<1>5. CASE /\ ops[o].rev = 0 /\ ops[o].base = db.rev[d]
           /\ db'.exists = db.exists /\ db'.sessions = db.sessions
           /\ db'.rev = [db.rev EXCEPT ![d] = @ + 1]
           /\ ops' = [ops EXCEPT ![o].rev = ops[o].base + 1]
  <2>1. ops[o] \in Row /\ ops \in [Op -> Row] /\ db.rev \in [Document -> Nat]
    BY <1>1, <1>2 DEF TypeInv, DatabaseType
  <2>2. ops'[o] = [ops[o] EXCEPT !.rev = ops[o].base + 1] /\ \A p \in Op : p # o => ops'[p] = ops[p]
    BY <1>2, <1>5, <2>1
  <2>3. /\ ops'[o].doc = d /\ ops'[o].base = ops[o].base
        /\ ops'[o].rev = ops[o].base + 1
        /\ ops'[o].delivered <=> ops[o].delivered
    BY <1>3, <2>1, <2>2 DEF Row
  <2>4. db'.rev[d] = db.rev[d] + 1 /\ \A e \in Document : e # d => db'.rev[e] = db.rev[e]
    BY <1>5, <2>1
  <2> QED
    BY <1>2, <1>3, <1>5, <2>2, <2>3, <2>4 DEF o
<1> QED
  BY <1>1, <1>4, <1>5, CommandProcessEffect DEF o

\* The commit of an operation extends the history by the next revision.
LEMMA OpsCommand ==
  ASSUME Core, OpsInv, NEW d \in Document, CommandProcess(d)
  PROVE  OpsInv'
<1> DEFINE o == Head(line[d]).op
<1>1. TypeInv /\ TypeInv'
  BY CommandProcessEffect DEF Core, Base
<1>2. \A e \in Document : db.rev[e] \in Nat
  BY <1>1 DEF TypeInv, DatabaseType
<1>3. o \in Op /\ ops[o].doc = d /\ \A p \in Op : p # o => ops'[p] = ops[p]
  BY CommandCommits
<1>4. \A p \in Op : ops[p].rev \in Nat /\ ops[p].base \in Nat
  BY <1>1, RowType
<1>5. CASE db' = db /\ ops' = ops
  BY <1>5 DEF OpsInv
<1>6. CASE ~(db' = db /\ ops' = ops)
  <2>1. /\ ops[o].rev = 0 /\ ops[o].base = db.rev[d]
        /\ db'.rev[d] = db.rev[d] + 1
        /\ ops'[o].doc = d /\ ops'[o].base = ops[o].base
        /\ ops'[o].rev = ops[o].base + 1
        /\ ops'[o].delivered <=> ops[o].delivered
        /\ \A e \in Document : e # d => db'.rev[e] = db.rev[e]
    BY <1>6, CommandCommits
  <2> HIDE DEF o
  <2>2. \A p \in Op : ops[p].doc = d => ops[p].rev <= db.rev[d]
    <3> SUFFICES ASSUME NEW p \in Op, ops[p].doc = d PROVE ops[p].rev <= db.rev[d]
      OBVIOUS
    <3>1. ops[p].rev > 0 => ops[p].rev <= db.rev[d]
      BY DEF OpsInv
    <3> QED
      BY <1>2, <1>4, <3>1
  <2>3. ASSUME NEW p \in Op
        PROVE  /\ ops'[p].doc = None => ops'[p].rev = 0
               /\ ops'[p].rev = 0 => ~ops'[p].delivered
               /\ ops'[p].rev > 0 => ops'[p].base < ops'[p].rev /\ ops'[p].rev <= db'.rev[ops'[p].doc]
    <3>1. CASE p = o
      <4>1. ops'[p].doc # None
        BY <2>1, <3>1, NoneAssumption
      <4> QED
        BY <1>2, <2>1, <3>1, <4>1
    <3>2. CASE p # o
      <4>1. ops'[p] = ops[p]
        BY <1>3, <3>2
      <4>2. /\ ops[p].doc = None => ops[p].rev = 0
            /\ ops[p].rev = 0 => ~ops[p].delivered
            /\ ops[p].rev > 0 => ops[p].base < ops[p].rev /\ ops[p].rev <= db.rev[ops[p].doc]
        BY DEF OpsInv
      <4>3. ops[p].doc \in Document \cup {None}
        BY <1>1, RowType
      <4>4. \A e \in Document : db'.rev[e] \in Nat /\ db'.rev[e] >= db.rev[e]
        BY <1>2, <2>1
      <4>5. ops[p].rev > 0 => ops[p].doc \in Document
        BY <4>2, <4>3
      <4>6. ops[p].rev > 0 => ops[p].rev <= db'.rev[ops[p].doc]
        BY <1>2, <1>4, <4>2, <4>4, <4>5
      <4> QED
        BY <4>1, <4>2, <4>6
    <3> QED
      BY <3>1, <3>2
  <2>4. ASSUME NEW p \in Op, NEW q \in Op, ops'[p].rev > 0, ops'[q].doc = ops'[p].doc,
               ops'[q].rev = ops'[p].rev
        PROVE  q = p
    <3>1. CASE p # o /\ q # o
      BY <1>3, <2>4, <3>1 DEF OpsInv
    <3>2. CASE p = o /\ q # o
      <4>1. ops'[q] = ops[q]
        BY <1>3, <3>2
      <4>2. ops[q].doc = d /\ ops[q].rev = db.rev[d] + 1
        BY <2>1, <2>4, <3>2, <4>1
      <4>3. ops[q].rev <= db.rev[d]
        BY <2>2, <4>2
      <4> QED
        BY <1>2, <4>2, <4>3
    <3>3. CASE q = o /\ p # o
      <4>1. ops'[p] = ops[p]
        BY <1>3, <3>3
      <4>2. ops[p].doc = d /\ ops[p].rev = db.rev[d] + 1
        BY <2>1, <2>4, <3>3, <4>1
      <4>3. ops[p].rev <= db.rev[d]
        BY <2>2, <4>2
      <4> QED
        BY <1>2, <4>2, <4>3
    <3> QED
      BY <3>1, <3>2, <3>3
  <2> QED
    BY <2>3, <2>4 DEF OpsInv
<1> QED
  BY <1>5, <1>6

\* What a mark does to the rows.
LEMMA RowsMarked ==
  ASSUME TypeInv, OpsInv, NEW p, NEW u \in Socket \cup {None}, ops' = Marked(p, u), NEW o \in Op
  PROVE  /\ \/ RowStays(o)
            \/ o = p /\ (RowVoid(o) \/ (RowTold(o) /\ ops'[o].untold = u))
         /\ o # p => ops'[o] = ops[o]
<1>1. o # p => ops'[o] = ops[o]
  BY MarkedRows
<1>2. CASE o = p
  <2>1. /\ ops'[o].doc = ops[o].doc /\ ops'[o].base = ops[o].base /\ ops'[o].rev = ops[o].rev
        /\ ops'[o].untold = u
        /\ ops'[o].delivered <=> ops[o].delivered \/ ops[o].rev > 0
    BY <1>2, MarkedRows
  <2>2. ops[o].rev \in Nat /\ (ops[o].rev = 0 => ~ops[o].delivered)
    BY RowType DEF OpsInv
  <2>3. CASE ops[o].rev > 0
    BY <1>2, <2>1, <2>3 DEF RowTold
  <2>4. CASE ops[o].rev = 0
    BY <1>2, <2>1, <2>2, <2>4 DEF RowVoid
  <2> QED
    BY <1>2, <2>2, <2>3, <2>4
<1> QED
  BY <1>1, <1>2 DEF RowStays

\* What the mark of everything undelivered does to the rows.
LEMMA RowsAllMarked ==
  ASSUME TypeInv, NEW d \in Document, NEW o \in Op,
         ops'[o] = IF o \in Pending(d) THEN [ops[o] EXCEPT !.delivered = TRUE] ELSE ops[o]
  PROVE  /\ RowStays(o) \/ (ops[o].doc = d /\ RowTold(o))
         /\ ops[o].doc # d => ops'[o] = ops[o]
<1>1. CASE o \in Pending(d)
  <2>1. ops[o] \in Row /\ ops[o].rev > 0 /\ ops[o].doc = d
    BY <1>1 DEF TypeInv, Pending
  <2>2. /\ ops'[o].doc = ops[o].doc /\ ops'[o].base = ops[o].base
        /\ ops'[o].rev = ops[o].rev /\ ops'[o].delivered
    BY <1>1, <2>1 DEF Row
  <2> QED
    BY <2>1, <2>2 DEF RowTold
<1>2. CASE o \notin Pending(d)
  BY <1>2 DEF RowStays
<1> QED
  BY <1>1, <1>2

\* The operation of a command is marked.
LEMMA CommandMarks ==
  ASSUME TypeInv, OpsInv, NEW d \in Document, CommandDelivered(d)
  PROVE  /\ db' = db
         /\ \A o \in Op : /\ \/ RowStays(o)
                             \/ o = work[d].op /\ (RowVoid(o) \/ RowTold(o))
                          /\ o # work[d].op => ops'[o] = ops[o]
<1>1. db' = db /\ ops' = Marked(work[d].op, None)
  BY DEF CommandDelivered
<1> QED
  BY <1>1, RowsMarked

\* All that awaits its delivery is marked.
LEMMA CriticalMarks ==
  ASSUME Core, NEW d \in Document, CriticalDelivered(d)
  PROVE  /\ db' = db
         /\ \A o \in Op : /\ RowStays(o) \/ (ops[o].doc = d /\ RowTold(o))
                          /\ ops[o].doc # d => ops'[o] = ops[o]
<1>1. /\ db' = db /\ TypeInv
      /\ \A o \in Op :
           ops'[o] = IF o \in Pending(d) THEN [ops[o] EXCEPT !.delivered = TRUE] ELSE ops[o]
  BY CriticalDeliveredEffect DEF Core, Base, CriticalDelivered
<1> QED
  BY <1>1, RowsAllMarked

\* A mark whose error hides it: the sender is not told of a command, everybody is of
\* a recovery.
LEMMA HiddenMarks ==
  ASSUME Core, OpsInv, NEW d \in Document, Hides(d)
  PROVE  /\ db' = db /\ Busy(d) /\ work[d].pc = "marking"
         /\ Head(line[d]).kind \in {"command", "critical"}
         /\ \A o \in Op :
              \/ RowStays(o)
              \/ /\ Head(line[d]).kind = "command" /\ o = work[d].op
                 /\ RowVoid(o) \/ (RowTold(o) /\ ops'[o].untold = work[d].except)
              \/ Head(line[d]).kind = "critical" /\ ops[o].doc = d /\ RowTold(o)
<1>1. TypeInv /\ db' = db
  BY DEF Core, Base, Hides, Fail
<1>2. work[d].except \in Socket \cup {None}
  BY <1>1 DEF TypeInv, Standing
<1>3. CASE At(d, "command", "marking") /\ ops' = Marked(work[d].op, work[d].except)
  BY <1>1, <1>2, <1>3, RowsMarked DEF At
<1>4. CASE At(d, "critical", "marking") /\ ops' = AllMarked(d)
  <2>1. \A o \in Op :
          ops'[o] = IF o \in Pending(d) THEN [ops[o] EXCEPT !.delivered = TRUE] ELSE ops[o]
    BY <1>1, <1>4, AllMarkedRows
  <2> QED
    BY <1>1, <1>4, <2>1, RowsAllMarked DEF At
<1> QED
  BY <1>3, <1>4 DEF Hides, MarkHidden

\* Every step keeps the history.
LEMMA OpsStep ==
  ASSUME Core, OpsInv, [Next]_vars
  PROVE  OpsInv'
<1>1. Base /\ TypeInv /\ TypeInv'
  BY CoreStep DEF Core, Base
<1>2. \A d \in Document : db.rev[d] \in Nat
  BY <1>1 DEF TypeInv, DatabaseType
<1>3. CASE RowsKept
  BY <1>1, <1>2, <1>3, OpsKept DEF RowsKept
<1>4. ASSUME NEW d \in Document, Writes(d)
      PROVE  OpsInv'
  <2>1. CASE CommandProcess(d)
    BY <2>1, OpsCommand
  <2>2. CASE CommandDelivered(d)
    BY <1>1, <1>2, <2>2, CommandMarks, OpsKept
  <2>3. CASE CriticalDelivered(d)
    BY <1>1, <1>2, <2>3, CriticalMarks, OpsKept
  <2>4. CASE ReplaceTransact(d)
    <3>1. ops' = ops /\ (db' = db \/ db'.rev = [db.rev EXCEPT ![d] = @ + 1])
      BY <1>1, <2>4, ReplaceTransactEffect DEF ReplaceTransact
    <3>2. \A e \in Document : db'.rev[e] >= db.rev[e]
      BY <1>1, <1>2, <3>1 DEF TypeInv, DatabaseType
    <3>3. \A o \in Op : RowStays(o)
      BY <3>1 DEF RowStays
    <3> QED
      BY <1>1, <3>2, <3>3, OpsKept
  <2>5. CASE Hides(d)
    <3>1. db' = db /\ \A o \in Op : RowStays(o) \/ RowVoid(o) \/ RowTold(o)
      BY <2>5, HiddenMarks
    <3> QED
      BY <1>1, <1>2, <3>1, OpsKept
  <2> QED
    BY <1>4, <2>1, <2>2, <2>3, <2>4, <2>5 DEF Writes
<1>5. CASE \E d \in Document : (Serve(d) \/ Fail(d)) /\ ~Writes(d)
  BY <1>3, <1>5, RowsTask
<1>6. CASE ~\E d \in Document : Serve(d) \/ Fail(d)
  BY <1>3, <1>6, RowsOther
<1> QED
  BY <1>4, <1>5, <1>6

\* OpsInv is an invariant.
THEOREM OpsInvariant == Spec => []OpsInv
<1>1. Init => OpsInv
  BY DEF Init, OpsInv
<1>2. Core /\ OpsInv /\ [Next]_vars => OpsInv'
  BY OpsStep
<1> QED
  BY <1>1, <1>2, CoreInvariant, PTL DEF Spec

\* Operations follow the revision they were made for, and no two make the same one.
THEOREM OperationsMakeHistory == Spec => []RevisionHistory
<1>1. OpsInv => RevisionHistory
  BY DEF OpsInv, RevisionHistory
<1> QED
  BY <1>1, OpsInvariant, PTL

-----------------------------------------------------------------------------
(* What is deleted does not come back *)

\* A document is gone before anybody hears of its deletion.
GoneInv ==
  /\ \A d \in crit.deleted : d \notin db.exists
  /\ \A p \in outbox : p.kind = "deleted" => \A d \in p.docs : d \notin db.exists
  /\ \A d \in Document : At(d, "delete", "committed") => d \notin db.exists

\* A task that stands at a step after somebody else's step stood there before.
LEMMA StoodBefore ==
  ASSUME Core, NEW e \in Document, Undisturbed(e) \/ (line'[e] = line[e] /\ work'[e] = work[e]),
         work'[e] = work[e], NEW kind, NEW pc, pc # "start", At(e, kind, pc)'
  PROVE  At(e, kind, pc) /\ Head(line'[e]) = Head(line[e])
<1>1. Busy(e)
  <2>1. CASE ~Busy(e)
    BY <2>1, IdleStanding DEF Core, Base, IdleInv, At
  <2> QED
    BY <2>1
<1> QED
  BY <1>1 DEF Undisturbed, At, Busy

\* A client commits nothing, publishes nothing, and spends events of its own kinds.
LEMMA ClientKeeps ==
  ASSUME Clients
  PROVE  /\ db' = db /\ outbox' = outbox /\ crit' = crit
         /\ budget' = budget
            \/ \E k \in {"join", "drop", "command", "resend", "lock", "put", "delete"} : Spend(k)
<1> DEFINE Kept == /\ db' = db /\ outbox' = outbox /\ crit' = crit
                   /\ budget' = budget
                      \/ \E k \in {"join", "drop", "command", "resend", "lock", "put", "delete"} : Spend(k)
<1>1. PICK s \in Socket :
        \/ Disconnect(s) \/ Reconnect(s)
        \/ \E d \in Document : RequestJoin(s, d) \/ Leave(s, d) \/ RequestDelete(s, d)
        \/ \E d \in Document, o \in Op : SendCommand(s, d, o)
        \/ \E o \in Op : ResendCommand(s, o)
        \/ \E d \in Document, e \in Element : RequestLock(s, d, e)
        \/ \E d \in Document, E \in SUBSET Element : RequestReplace(s, d, E)
  BY DEF Clients
<1>2. (Disconnect(s) \/ Reconnect(s)) => Kept
  BY DEF Disconnect, Leaves, Reconnect
<1>3. ASSUME NEW d \in Document, RequestJoin(s, d) \/ Leave(s, d) \/ RequestDelete(s, d) PROVE Kept
  BY <1>3 DEF RequestJoin, Leave, RequestDelete
<1>4. ASSUME NEW d \in Document, NEW o \in Op, SendCommand(s, d, o) PROVE Kept
  BY <1>4 DEF SendCommand
<1>5. ASSUME NEW o \in Op, ResendCommand(s, o) PROVE Kept
  BY <1>5 DEF ResendCommand
<1>6. ASSUME NEW d \in Document, NEW e \in Element, RequestLock(s, d, e) PROVE Kept
  BY <1>6 DEF RequestLock
<1>7. ASSUME NEW d \in Document, NEW E \in SUBSET Element, RequestReplace(s, d, E) PROVE Kept
  BY <1>7 DEF RequestReplace
<1> HIDE DEF Kept
<1>8. Kept
  BY <1>1, <1>2, <1>3, <1>4, <1>5, <1>6, <1>7
<1> QED
  BY <1>8 DEF Kept

\* Every step keeps GoneInv: what is known as deleted has been deleted before.
LEMMA GoneStep ==
  ASSUME Core, OpsInv, GoneInv, [Next]_vars
  PROVE  GoneInv'
<1>1. Base /\ TypeInv /\ TypeInv'
  BY CoreStep DEF Core, Base
<1>2. ASSUME crit'.deleted \subseteq crit.deleted, outbox' \subseteq outbox,
             db'.exists \subseteq db.exists,
             \A d \in Document : At(d, "delete", "committed")' =>
               At(d, "delete", "committed") \/ d \notin db'.exists
      PROVE  GoneInv'
  BY <1>2 DEF GoneInv
<1>3. CASE \E d \in Document : Serve(d) \/ Fail(d)
  <2>1. PICK d \in Document : Serve(d) \/ Fail(d)
    BY <1>3
  <2>2. Moves(d) /\ Busy(d)
    BY <1>1, <2>1, TaskEffect
  <2>3. ASSUME NEW e \in Document, e # d, At(e, "delete", "committed")'
        PROVE  At(e, "delete", "committed")
    <3>1. line'[e] = line[e] /\ work'[e] = work[e]
      BY <2>2, <2>3 DEF Moves, Ordinary, GoesOn, Ends, EndsCritically, Elsewhere
    <3> QED
      BY <2>3, <3>1 DEF At, Busy
  <2>4. db'.exists \subseteq db.exists
    <3>1. CASE Writes(d)
      BY <1>1, <3>1, CommandCommits, CommandMarks, CriticalMarks, HiddenMarks,
         ReplaceTransactEffect DEF Writes
    <3>2. CASE ~Writes(d)
      BY <2>1, <3>2, RowsTask DEF RowsKept
    <3> QED
      BY <3>1, <3>2
  <2>5. outbox' = outbox
    BY <2>1 DEF Serve, Fail, TellStart, TellEmit, JoinCheck, JoinEnter, JoinRegister, JoinConfirm,
         Authorize, CommandProcess, CommandCurrent, CommandBroadcast, CommandEmit,
         CommandDelivered, LockServed, ReplaceTransact, ReplacePublish, DeleteTransact,
         DeletePublish, CriticalEvict, CriticalDeleted, CriticalAsk, CriticalDecide,
         CriticalCurrent, CriticalEmit, CriticalDelivered
  <2>6. ASSUME work'[d] = Idle PROVE ~At(d, "delete", "committed")'
    BY <2>6, IdleStanding DEF At
  <2>7. CASE DeletePublish(d)
    <3>1. crit'.deleted = crit.deleted \cup {d} /\ work'[d] = Idle
      BY <1>1, <2>7, DeletePublishEffect
    <3>2. d \notin db.exists
      BY <2>7 DEF DeletePublish, GoneInv
    <3> QED
      BY <2>3, <2>4, <2>5, <2>6, <3>1, <3>2 DEF GoneInv
  <2>8. CASE DeleteTransact(d)
    <3>1. crit' = crit
      BY <2>8 DEF DeleteTransact
    <3>2. CASE UNCHANGED <<db, ops>> /\ work'[d] = Idle
      BY <1>2, <2>3, <2>4, <2>5, <2>6, <3>1, <3>2
    <3>3. CASE WithoutDocuments({d})
      <4>1. {d} \in SUBSET Document
        OBVIOUS
      <4>2. d \notin db'.exists
        BY <1>1, <3>3, <4>1, WithoutDocumentsType
      <4> QED
        BY <1>2, <2>3, <2>4, <2>5, <3>1, <4>2
    <3> QED
      BY <1>1, <2>8, <3>2, <3>3, DeleteTransactEffect
  <2>9. CASE ~DeletePublish(d) /\ ~DeleteTransact(d)
    <3>1. crit'.deleted \subseteq crit.deleted
      <4>1. CASE Fail(d) \/ ReplacePublish(d) \/ CriticalDeleted(d) \/ CriticalDecide(d)
                 \/ CriticalEmit(d) \/ CriticalDelivered(d)
        BY <1>1, <4>1, FailEffect, ReplacePublishEffect, CriticalDeletedEffect, CriticalDecideEffect,
           CriticalEmitEffect, CriticalDeliveredEffect
      <4>2. CASE CriticalEvict(d)
        <5>1. crit \in CritType
          BY <1>1 DEF TypeInv
        <5>2. Completed(crit, d).deleted = crit.deleted
          BY <5>1, CompletedCrit
        <5> QED
          BY <4>2, <5>2 DEF CriticalEvict
      <4>3. CASE ~(Fail(d) \/ ReplacePublish(d) \/ CriticalDeleted(d) \/ CriticalDecide(d)
                   \/ CriticalEmit(d) \/ CriticalDelivered(d) \/ CriticalEvict(d))
        BY <2>1, <2>9, <4>3
           DEF Serve, TellStart, TellEmit, JoinCheck, JoinEnter, JoinRegister, JoinConfirm,
               Authorize, CommandProcess, CommandCurrent, CommandBroadcast, CommandEmit,
               CommandDelivered, LockServed, ReplaceTransact, CriticalAsk, CriticalCurrent
      <4> QED
        BY <4>1, <4>2, <4>3
    <3>2. ~At(d, "delete", "committed")'
      <4>1. CASE Head(line[d]).kind = "delete"
        <5>1. Fail(d)
          BY <2>1, <2>9, <4>1
             DEF Serve, TellStart, TellEmit, JoinCheck, JoinEnter, JoinRegister, JoinConfirm,
               Authorize, CommandProcess, CommandCurrent, CommandBroadcast, CommandEmit,
               CommandDelivered, LockServed, ReplaceTransact, ReplacePublish, CriticalEvict,
               CriticalDeleted, CriticalAsk, CriticalDecide, CriticalCurrent, CriticalEmit,
               CriticalDelivered, ReadyForResync, At
        <5> QED
          BY <1>1, <2>6, <5>1, FailEffect
      <4>2. CASE Head(line[d]).kind # "delete"
        <5>1. CASE GoesOn(d)
          <6>1. Head(line'[d]) = Head(line[d])
            BY <1>1, <2>2, <5>1, HeadGoesOn
          <6> QED
            BY <4>2, <6>1 DEF At
        <5>2. CASE work'[d] = Idle
          BY <2>6, <5>2
        <5> QED
          BY <2>2, <5>1, <5>2 DEF Moves, Ordinary, Ends, EndsCritically
      <4> QED
        BY <4>1, <4>2
    <3> QED
      BY <1>2, <2>3, <2>4, <2>5, <3>1, <3>2
  <2> QED
    BY <2>7, <2>8, <2>9
<1>4. CASE ~\E d \in Document : Serve(d) \/ Fail(d)
  <2>1. db'.exists \subseteq db.exists
    BY <1>4, RowsOther DEF RowsKept
  <2>2. CASE Crash
    <3>1. crit' = InitialCritical /\ outbox' = {} /\ \A d \in Document : line'[d] = <<>>
      BY <1>1, <2>2, CrashEffect
    <3>2. InitialCritical.deleted = {}
      BY DEF InitialCritical
    <3> QED
      BY <3>1, <3>2 DEF GoneInv, At, Busy
  <2>3. CASE ~Crash
    <3>1. PICK K \in SUBSET Kinds : Grows(K)
      BY <1>4, <2>3, StepEffect
    <3>2. \A d \in Document : At(d, "delete", "committed")' => At(d, "delete", "committed")
      <4> SUFFICES ASSUME NEW d \in Document, At(d, "delete", "committed")'
                   PROVE  At(d, "delete", "committed")
        OBVIOUS
      <4>1. Undisturbed(d) /\ work'[d] = work[d]
        BY <1>1, <3>1, AllUndisturbed DEF Grows
      <4> QED
        BY <4>1, StoodBefore
    <3>3. CASE \E p \in outbox : Publish(p)
      <4>1. PICK p \in outbox : Publish(p)
        BY <3>3
      <4>2. /\ crit'.deleted = crit.deleted \cup (IF p.kind = "deleted" THEN p.docs ELSE {})
            /\ db' = db /\ outbox' = outbox \ {p}
        BY <1>1, <4>1, PublishEffect DEF Publish
      <4> QED
        BY <3>2, <4>1, <4>2 DEF GoneInv
    <3>4. CASE Project
      <4>1. crit' = crit /\ (\A p \in outbox' : p \in outbox \/ (p.kind = "deleted" => \A d \in p.docs : d \notin db'.exists))
        <5>1. CASE DeleteProject
          <6>1. db'.exists = {}
            BY <1>1, <5>1 DEF DeleteProject, TypeInv, DatabaseType
          <6> QED
            BY <5>1, <6>1 DEF DeleteProject, Commits
        <5>2. CASE ~DeleteProject
          BY <3>4, <5>2 DEF Project, RemoveMember, GrantMember, RevokeSession, Commits, Change
        <5> QED
          BY <5>1, <5>2
      <4> QED
        BY <2>1, <3>2, <4>1 DEF GoneInv
    <3>5. CASE (\E d \in Document : RetryTimer(d)) \/ ScanAsk \/ ScanAnswer
      <4>1. crit'.deleted = crit.deleted /\ outbox' = outbox
        BY <1>1, <3>5, RetryEffect, ScanEffect DEF RetryTimer, ScanAsk, ScanAnswer
      <4> QED
        BY <1>2, <2>1, <3>2, <4>1
    <3>6. CASE ~((\E p \in outbox : Publish(p)) \/ Project
                 \/ (\E d \in Document : RetryTimer(d)) \/ ScanAsk \/ ScanAnswer)
      <4>1. crit' = crit /\ outbox' = outbox
        <5>1. CASE Clients
          BY <5>1, ClientKeeps
        <5>2. CASE \E s \in Socket : BeginJoin(s) \/ Expel(s)
          BY <5>2 DEF BeginJoin, Expel, Leaves
        <5>3. CASE \E d \in Document, x \in Element : LockExpires(d, x)
          BY <5>3 DEF LockExpires
        <5>4. CASE UNCHANGED vars
          BY <5>4 DEF vars
        <5> QED
          BY <1>4, <2>3, <3>6, <5>1, <5>2, <5>3, <5>4 DEF Next, Housekeeping, Mishaps
      <4> QED
        BY <1>2, <2>1, <3>2, <4>1
    <3> QED
      BY <3>3, <3>4, <3>5, <3>6
  <2> QED
    BY <2>2, <2>3
<1> QED
  BY <1>3, <1>4

-----------------------------------------------------------------------------
(* What has been announced is known to those who are in the document *)

\* The join of s is the head of d and has registered s: what s knows of d is
\* still to be said.
Registering(s, d) == At(d, "join", "registered") /\ Caller(d) = s

\* Every participant knows some revision.
KnownOf(d) == \A s \in Socket : s \in present[d] => known[s][d] >= 0 \/ Registering(s, d)

\* Every participant that may be there knows what is marked as delivered, but for
\* the sender who was answered with an error.
ToldOf(d) ==
  d \in db.exists =>
    \A o \in Op, s \in Socket :
      ops[o].doc = d /\ ops[o].delivered /\ SessionActive(s) /\ s \in present[d]
        => known[s][d] >= ops[o].rev \/ Registering(s, d) \/ s = ops[o].untold

\* What a join, a command, and critical work carry over their awaits.
JoinCarries(d) ==
  Busy(d) /\ Head(line[d]).kind = "join" /\ work[d].pc \in {"authorized", "entered", "registered"}
    => work[d].rev = db.rev[d]
CommandCarries(d) ==
  Busy(d) /\ Head(line[d]).kind = "command"
          /\ work[d].pc \in {"committed", "current", "emit", "marking"} =>
    /\ work[d].op \in Op /\ ops[work[d].op].doc = d
    /\ ops[work[d].op].rev \in {0, work[d].reply} /\ work[d].reply <= db.rev[d]
    /\ work[d].pc \in {"emit", "marking"} =>
         \/ work[d].except = None
         \/ work[d].except = Caller(d) /\ work[d].rev = work[d].reply
CriticalCarries(d) ==
  Busy(d) /\ Head(line[d]).kind = "critical" =>
    /\ work[d].except = None
    /\ work[d].pc \in {"current", "marking"} => work[d].owed

\* The current revision is being announced to the whole document, so that
\* operations can be marked as delivered.
Announcing(d) ==
  /\ Busy(d) /\ work[d].pc \in {"current", "emit", "marking"}
  /\ \/ Head(line[d]).kind = "command"
     \/ Head(line[d]).kind = "critical" /\ work[d].owed
AnnouncesTo(d) ==
  Announcing(d) =>
    /\ work[d].rev = db.rev[d]
    /\ work[d].pc = "current" /\ ~work[d].found => d \notin db.exists
    /\ work[d].pc = "emit" =>
         /\ d \in db.exists => sock.room[d] \subseteq work[d].to
         /\ \A s \in work[d].dead : ~SessionActive(s)
    /\ work[d].pc = "marking" /\ d \in db.exists =>
         \A s \in Socket : s \in present[d] /\ SessionActive(s) =>
           known[s][d] >= work[d].rev \/ s = work[d].except

CarriesOf(d) ==
  JoinCarries(d) /\ CommandCarries(d) /\ CriticalCarries(d) /\ AnnouncesTo(d)
DeliveryOf(d) == KnownOf(d) /\ ToldOf(d) /\ CarriesOf(d)
DeliveryInv == \A d \in Document : DeliveryOf(d)

\* Those who remain have forgotten nothing.
Remaining(d) ==
  \A s \in Socket : s \in present'[d] => s \in present[d] /\ known'[s][d] >= known[s][d]

\* After a withdrawal nobody has come, and those who remain have forgotten nothing.
LEMMA WithdrawalRemaining ==
  ASSUME Withdrawal, NEW d \in Document
  PROVE  Remaining(d) /\ \A s \in Socket : s \in sock'.room[d] => s \in sock.room[d]
<1>1. PICK S \in SUBSET Socket, D \in SUBSET Document : Withdrawn(S, D)
  BY DEF Withdrawal
<1> QED
  BY <1>1 DEF Withdrawn, Remaining

\* Revisions are numbers, before and after a step.
LEMMA KnownTypes ==
  ASSUME TypeInv, TypeInv', NEW s \in Socket, NEW d \in Document
  PROVE  /\ known[s][d] \in Int /\ known'[s][d] \in Int /\ known[s][d] >= -1
         /\ db.rev[d] \in Nat /\ db'.rev[d] \in Nat
         /\ work[d].rev \in Int /\ work[d].reply \in Int
         /\ \A o \in Op : ops[o].rev \in Nat /\ ops'[o].rev \in Nat
<1>1. /\ known \in KnownType /\ known' \in KnownType /\ db \in DatabaseType /\ db' \in DatabaseType
      /\ work[d] \in Standing /\ ops \in [Op -> Row] /\ ops' \in [Op -> Row]
  BY DEF TypeInv
<1>2. known[s][d] \in Revision /\ known'[s][d] \in Revision
  BY <1>1 DEF KnownType
<1>3. work[d].rev \in Revision /\ work[d].reply \in Revision
  BY <1>1 DEF Standing
<1>4. db.rev[d] \in Nat /\ db'.rev[d] \in Nat
  BY <1>1 DEF DatabaseType
<1>5. \A o \in Op : ops[o].rev \in Nat /\ ops'[o].rev \in Nat
  BY <1>1 DEF Row
<1> QED
  BY <1>2, <1>3, <1>4, <1>5 DEF Revision

\* A task that has not begun carries nothing that could be wrong.
LEMMA IdleCarries ==
  ASSUME NEW d \in Document, work'[d] = Idle
  PROVE  CarriesOf(d)'
<1>1. work'[d].pc = "start" /\ work'[d].except = None
  BY IdleStanding DEF Idle
<1> QED
  BY <1>1 DEF CarriesOf, JoinCarries, CommandCarries, CriticalCarries, AnnouncesTo, Announcing

\* A row of e is not marked, and none is added.
RowsOfKept(e) ==
  \A o \in Op : RowStays(o) \/ RowVoid(o) \/ (ops[o].doc # e /\ ops'[o].doc # e)

\* Nobody is being registered in d, before the step.
LEMMA ToldRemaining ==
  ASSUME TypeInv, TypeInv', NEW d \in Document, KnownOf(d), ToldOf(d), Remaining(d),
         db'.exists \subseteq db.exists, db'.sessions \subseteq db.sessions, RowsOfKept(d),
         At(d, "join", "registered") => At(d, "join", "registered")' /\ Caller(d)' = Caller(d)
  PROVE  KnownOf(d)' /\ ToldOf(d)'
<1>1. ASSUME NEW s \in Socket, Registering(s, d) PROVE Registering(s, d)'
  BY <1>1 DEF Registering
<1>2. KnownOf(d)'
  <2> SUFFICES ASSUME NEW s \in Socket, s \in present'[d], ~Registering(s, d)
               PROVE  known'[s][d] >= 0
    BY <1>1 DEF KnownOf
  <2> QED
    BY KnownTypes DEF KnownOf, Remaining
<1>3. ToldOf(d)'
  <2> SUFFICES ASSUME d \in db'.exists, NEW o \in Op, NEW s \in Socket,
                      ops'[o].doc = d, ops'[o].delivered, SessionActive(s)', s \in present'[d],
                      ~Registering(s, d), s # ops'[o].untold
               PROVE  known'[s][d] >= ops'[o].rev
    BY <1>1 DEF ToldOf
  <2>1. RowStays(o)
    BY DEF RowsOfKept, RowVoid
  <2>2. /\ ops[o].doc = d /\ ops[o].delivered /\ ops'[o].rev = ops[o].rev
        /\ s # ops[o].untold
    BY <2>1 DEF RowStays
  <2>3. SessionActive(s) /\ d \in db.exists /\ s \in present[d] /\ known'[s][d] >= known[s][d]
    BY DEF SessionActive, Remaining
  <2>4. known[s][d] >= ops[o].rev
    BY <2>2, <2>3 DEF ToldOf
  <2> QED
    BY <2>2, <2>3, <2>4, KnownTypes
<1> QED
  BY <1>2, <1>3

\* A document whose task does not move.
LEMMA CalmDocument ==
  ASSUME Core, TypeInv', NEW d \in Document, DeliveryOf(d),
         Undisturbed(d) \/ line'[d] = line[d], work'[d] = work[d],
         Remaining(d), \A s \in Socket : s \in sock'.room[d] => s \in sock.room[d],
         db'.rev[d] = db.rev[d],
         db'.exists \subseteq db.exists, db'.sessions \subseteq db.sessions, RowsOfKept(d)
  PROVE  DeliveryOf(d)'
<1>1. TypeInv /\ IdleInv
  BY DEF Core, Base
<1>2. CASE ~Busy(d)
  <2>1. work'[d] = Idle /\ work[d] = Idle
    BY <1>1, <1>2 DEF IdleInv
  <2>2. ~At(d, "join", "registered")
    BY <1>2 DEF At
  <2> QED
    BY <1>1, <2>1, <2>2, IdleCarries, ToldRemaining DEF DeliveryOf
<1>3. CASE Busy(d)
  <2>1. Busy(d)' /\ Head(line'[d]) = Head(line[d])
    BY <1>3 DEF Undisturbed, Busy
  <2>2. At(d, "join", "registered") => At(d, "join", "registered")' /\ Caller(d)' = Caller(d)
    BY <2>1 DEF At, Caller
  <2>3. KnownOf(d)' /\ ToldOf(d)'
    BY <1>1, <2>2, ToldRemaining DEF DeliveryOf
  <2>4. JoinCarries(d)' /\ CriticalCarries(d)'
    BY <1>3, <2>1 DEF DeliveryOf, CarriesOf, JoinCarries, CriticalCarries
  <2>5. CommandCarries(d)'
    <3> SUFFICES ASSUME Head(line[d]).kind = "command",
                        work[d].pc \in {"committed", "current", "emit", "marking"}
                 PROVE  /\ work[d].op \in Op /\ ops'[work[d].op].doc = d
                        /\ ops'[work[d].op].rev \in {0, work[d].reply}
                        /\ work[d].reply <= db.rev[d]
                        /\ work[d].pc \in {"emit", "marking"} =>
                             \/ work[d].except = None
                             \/ work[d].except = Caller(d)' /\ work[d].rev = work[d].reply
      BY <2>1 DEF CommandCarries
    <3>1. /\ work[d].op \in Op /\ ops[work[d].op].doc = d
          /\ ops[work[d].op].rev \in {0, work[d].reply} /\ work[d].reply <= db.rev[d]
          /\ work[d].pc \in {"emit", "marking"} =>
               \/ work[d].except = None
               \/ work[d].except = Caller(d) /\ work[d].rev = work[d].reply
      BY <1>3 DEF DeliveryOf, CarriesOf, CommandCarries
    <3>2. d # None
      BY NoneAssumption
    <3>3. RowStays(work[d].op) \/ RowVoid(work[d].op)
      BY <3>1 DEF RowsOfKept
    <3>4. ops'[work[d].op].doc = d /\ ops'[work[d].op].rev \in {0, work[d].reply}
      BY <3>1, <3>2, <3>3 DEF RowStays, RowVoid
    <3>5. Caller(d)' = Caller(d)
      BY <2>1 DEF Caller
    <3> QED
      BY <3>1, <3>4, <3>5
  <2>6. AnnouncesTo(d)'
    <3> SUFFICES ASSUME Announcing(d)'
                 PROVE  /\ work[d].rev = db.rev[d]
                        /\ work[d].pc = "current" /\ ~work[d].found => d \notin db'.exists
                        /\ work[d].pc = "emit" =>
                             /\ d \in db'.exists => sock'.room[d] \subseteq work[d].to
                             /\ \A s \in work[d].dead : ~SessionActive(s)'
                        /\ work[d].pc = "marking" /\ d \in db'.exists =>
                             \A s \in Socket : s \in present'[d] /\ SessionActive(s)' =>
                               known'[s][d] >= work[d].rev \/ s = work[d].except
      BY DEF AnnouncesTo
    <3>1. Announcing(d)
      BY <1>3, <2>1 DEF Announcing
    <3>2. /\ work[d].rev = db.rev[d]
          /\ work[d].pc = "current" /\ ~work[d].found => d \notin db.exists
          /\ work[d].pc = "emit" =>
               /\ d \in db.exists => sock.room[d] \subseteq work[d].to
               /\ \A s \in work[d].dead : ~SessionActive(s)
          /\ work[d].pc = "marking" /\ d \in db.exists =>
               \A s \in Socket : s \in present[d] /\ SessionActive(s) =>
                 known[s][d] >= work[d].rev \/ s = work[d].except
      BY <3>1 DEF DeliveryOf, CarriesOf, AnnouncesTo
    <3>3. \A s : SessionActive(s)' => SessionActive(s)
      BY DEF SessionActive
    <3>4. sock'.room[d] \subseteq sock.room[d]
      <4>1. sock' \in SockType
        BY DEF TypeInv
      <4>2. sock'.room[d] \subseteq Socket
        BY <4>1 DEF SockType
      <4> QED
        BY <4>2
    <3>5. ASSUME work[d].pc = "marking", d \in db'.exists, NEW s \in Socket,
                 s \in present'[d], SessionActive(s)', s # work[d].except
          PROVE  known'[s][d] >= work[d].rev
      <4>1. s \in present[d] /\ known'[s][d] >= known[s][d] /\ SessionActive(s)
        BY <3>3, <3>5 DEF Remaining
      <4>2. known[s][d] >= work[d].rev
        BY <3>2, <3>5, <4>1
      <4> QED
        BY <1>1, <4>1, <4>2, KnownTypes
    <3> QED
      BY <3>2, <3>3, <3>4, <3>5
  <2> QED
    BY <2>3, <2>4, <2>5, <2>6 DEF DeliveryOf, CarriesOf
<1> QED
  BY <1>2, <1>3

-----------------------------------------------------------------------------
(* The steps of a task, in the other documents *)

\* The step of a task changes the rows and the revision of its own document only.
LEMMA TaskRows ==
  ASSUME Core, OpsInv, NEW d \in Document, Serve(d) \/ Fail(d), DeliveryOf(d)
  PROVE  /\ db'.exists \subseteq db.exists /\ db'.sessions \subseteq db.sessions
         /\ \A e \in Document : e # d => db'.rev[e] = db.rev[e] /\ RowsOfKept(e)
<1>1. Base /\ TypeInv
  BY DEF Core, Base
<1>2. CASE ~Writes(d)
  BY <1>2, RowsTask DEF RowsKept, RowsOfKept
<1>3. CASE CommandProcess(d)
  <2>1. /\ Head(line[d]).op \in Op /\ ops[Head(line[d]).op].doc = d
        /\ \A o \in Op : o # Head(line[d]).op => ops'[o] = ops[o]
        /\ db'.exists = db.exists /\ db'.sessions = db.sessions
        /\ \A e \in Document : e # d => db'.rev[e] = db.rev[e]
    BY <1>3, CommandCommits
  <2>2. ops'[Head(line[d]).op].doc = d
    BY <1>3, <2>1, CommandCommits
  <2> QED
    BY <2>1, <2>2 DEF RowsOfKept, RowStays
<1>4. CASE CommandDelivered(d)
  <2>1. At(d, "command", "marking")
    BY <1>4 DEF CommandDelivered
  <2>2. work[d].op \in Op /\ ops[work[d].op].doc = d
    BY <2>1 DEF DeliveryOf, CarriesOf, CommandCarries, At
  <2>3. /\ db' = db
        /\ \A o \in Op : /\ \/ RowStays(o)
                            \/ o = work[d].op /\ (RowVoid(o) \/ RowTold(o))
                         /\ o # work[d].op => ops'[o] = ops[o]
    BY <1>1, <1>4, CommandMarks
  <2> QED
    BY <2>2, <2>3 DEF RowsOfKept, RowTold
<1>5. CASE ReplaceTransact(d)
  <2>1. ops' = ops
    BY <1>5 DEF ReplaceTransact
  <2>2. /\ db'.exists = db.exists /\ db'.sessions = db.sessions
        /\ \A e \in Document : e # d => db'.rev[e] = db.rev[e]
    <3>1. CASE db' = db
      BY <3>1
    <3>2. CASE /\ db'.exists = db.exists /\ db'.sessions = db.sessions
               /\ db'.rev = [db.rev EXCEPT ![d] = @ + 1]
      <4>1. db.rev \in [Document -> Nat]
        BY <1>1 DEF TypeInv, DatabaseType
      <4> QED
        BY <3>2, <4>1
    <3> QED
      BY <1>1, <1>5, <3>1, <3>2, ReplaceTransactEffect
  <2> QED
    BY <2>1, <2>2 DEF RowsOfKept, RowStays
<1>6. CASE CriticalDelivered(d)
  <2>1. /\ db' = db
        /\ \A o \in Op : /\ RowStays(o) \/ (ops[o].doc = d /\ RowTold(o))
                         /\ ops[o].doc # d => ops'[o] = ops[o]
    BY <1>6, CriticalMarks
  <2> QED
    BY <2>1 DEF RowsOfKept, RowTold
<1>7. CASE Hides(d)
  <2>1. Head(line[d]).kind = "command" => ops[work[d].op].doc = d
    BY <1>7, HiddenMarks DEF DeliveryOf, CarriesOf, CommandCarries
  <2>2. \A o \in Op : \/ RowStays(o) \/ RowVoid(o)
                      \/ ops[o].doc = d /\ ops'[o].doc = d
    BY <1>7, <2>1, HiddenMarks DEF RowTold
  <2>3. db' = db
    BY <1>7, HiddenMarks
  <2> QED
    BY <2>2, <2>3 DEF RowsOfKept
<1> QED
  BY <1>2, <1>3, <1>4, <1>5, <1>6, <1>7 DEF Writes

\* Somebody enters, or is registered in, the document of the join only.
LEMMA TaskRemaining ==
  ASSUME Core, NEW d \in Document, Serve(d) \/ Fail(d), NEW e \in Document, e # d
  PROVE  Remaining(e) /\ \A s \in Socket : s \in sock'.room[e] => s \in sock.room[e]
<1>1. Base /\ TypeInv
  BY DEF Core, Base
<1>2. CASE Withdrawal
  BY <1>2, WithdrawalRemaining
<1>3. ASSUME present'[e] = present[e], known' = known PROVE Remaining(e)
  <2>1. \A s \in Socket : known[s][e] \in Int
    <3>1. known \in KnownType
      BY <1>1 DEF TypeInv
    <3>2. \A s \in Socket : known[s][e] \in Revision
      BY <3>1 DEF KnownType
    <3> QED
      BY <3>2 DEF Revision
  <2> QED
    BY <1>3, <2>1 DEF Remaining
<1>4. \A s \in Socket : s \in sock'.room[e] <=> s \in sock.room[e]
  BY <1>1, TaskElsewhere DEF SocksElsewhere
<1>5. CASE JoinEnter(d)
  <2>1. Nothing \/ UNCHANGED <<present, known>>
    BY <1>1, <1>5, JoinEnterEffect
  <2>2. CASE Nothing
    <3>1. Withdrawal
      BY <2>2 DEF Nothing, Withdrawal
    <3> QED
      BY <1>2, <3>1
  <2> QED
    BY <1>3, <1>4, <2>1, <2>2
<1>6. CASE JoinRegister(d)
  <2>1. CASE Withdrawn({Caller(d)}, {d})
    <3>1. Caller(d) \in Socket
      BY <1>1, <1>6, JoinRegisterEffect
    <3>2. {Caller(d)} \in SUBSET Socket /\ {d} \in SUBSET Document
      BY <3>1
    <3>3. Withdrawal
      BY <2>1, <3>2 DEF Withdrawal
    <3> QED
      BY <1>2, <3>3
  <2>2. CASE present' = [present EXCEPT ![d] = @ \cup {Caller(d)}] /\ known' = known
    <3>1. present'[e] = present[e]
      BY <1>1, <2>2 DEF TypeInv, PresentType
    <3> QED
      BY <1>3, <1>4, <2>2, <3>1
  <2> QED
    BY <1>1, <1>6, <2>1, <2>2, JoinRegisterEffect
<1>7. CASE ~JoinEnter(d) /\ ~JoinRegister(d)
  BY <1>1, <1>2, <1>7, TaskWithdraws
<1> QED
  BY <1>5, <1>6, <1>7

\* The step of a task keeps the delivery of the other documents.
LEMMA DeliveryElsewhere ==
  ASSUME Core, OpsInv, NEW d \in Document, Serve(d) \/ Fail(d), DeliveryOf(d),
         NEW e \in Document, e # d, DeliveryOf(e)
  PROVE  DeliveryOf(e)'
<1>1. Base /\ TypeInv /\ TypeInv'
  BY CoreStep DEF Core, Base, Next, Mishaps
<1>2. Moves(d)
  BY <1>1, TaskEffect
<1>3. line'[e] = line[e] /\ work'[e] = work[e]
  BY <1>2 DEF Moves, Ordinary, GoesOn, Ends, EndsCritically, Elsewhere
<1> QED
  BY <1>1, <1>3, TaskRows, TaskRemaining, CalmDocument

-----------------------------------------------------------------------------
(* The steps of a task, in its document *)

\* A task that stands somewhere after its step is still the head.
LEMMA Continues ==
  ASSUME TypeInv, NEW d \in Document, Busy(d), Moves(d), work'[d].pc # "start"
  PROVE  Busy(d)' /\ Head(line'[d]) = Head(line[d]) /\ Caller(d)' = Caller(d)
<1>1. work'[d] # Idle
  BY IdleStanding
<1>2. GoesOn(d)
  BY <1>1 DEF Moves, Ordinary, Ends, EndsCritically
<1>3. line'[d] # <<>> /\ Head(line'[d]) = Head(line[d])
  BY <1>2, HeadGoesOn
<1> QED
  BY <1>3 DEF Busy, Caller

\* A task that is no join, and neither commits nor marks.
LEMMA DeliveryKept ==
  ASSUME Core, TypeInv', NEW d \in Document, KnownOf(d), ToldOf(d), ~At(d, "join", "registered"),
         Withdrawal, RowsKept
  PROVE  KnownOf(d)' /\ ToldOf(d)'
<1>1. TypeInv
  BY DEF Core, Base
<1> QED
  BY <1>1, WithdrawalRemaining, ToldRemaining DEF RowsKept, RowsOfKept

\* To withdraw nobody is a withdrawal.
LEMMA NothingWithdraws ==
  ASSUME Nothing
  PROVE  Withdrawal
  BY DEF Nothing, Withdrawal

\* Broadcasts of presence and locks keep the delivery.
LEMMA DeliveryTell ==
  ASSUME Core, NEW d \in Document, DeliveryOf(d), TellStart(d) \/ TellEmit(d)
  PROVE  DeliveryOf(d)'
<1>1. Base /\ TypeInv /\ Serve(d)
  BY DEF Core, Base, Serve
<1>2. TypeInv' /\ Ordinary(d) /\ Withdrawal
  BY <1>1, TellEffect
<1>3. Busy(d) /\ Head(line[d]).kind = "tell" /\ ~Writes(d)
  BY DEF TellStart, TellEmit, At, Writes, CommandProcess, CommandDelivered, ReplaceTransact,
         CriticalDelivered, Hides, MarkHidden
<1>4. RowsKept
  BY <1>1, <1>3, RowsTask
<1>5. KnownOf(d)' /\ ToldOf(d)'
  BY <1>2, <1>3, <1>4, DeliveryKept DEF DeliveryOf, At
<1>6. CarriesOf(d)'
  <2>1. CASE GoesOn(d)
    <3>1. Head(line'[d]).kind = "tell"
      BY <1>1, <1>3, <2>1, HeadGoesOn
    <3> QED
      BY <3>1 DEF CarriesOf, JoinCarries, CommandCarries, CriticalCarries, AnnouncesTo, Announcing
  <2>2. CASE Ends(d)
    BY <2>2, IdleCarries DEF Ends
  <2> QED
    BY <1>2, <2>1, <2>2 DEF Ordinary
<1> QED
  BY <1>5, <1>6 DEF DeliveryOf

\* A join learns the revision of the document that it was authorized on, which is still
\* the current one.
LEMMA DeliveryJoin ==
  ASSUME Core, OpsInv, NEW d \in Document, DeliveryOf(d),
         JoinCheck(d) \/ JoinEnter(d) \/ JoinRegister(d) \/ JoinConfirm(d)
           \/ (Fail(d) /\ Head(line[d]).kind = "join")
  PROVE  DeliveryOf(d)'
<1>1. Base /\ TypeInv
  BY DEF Core, Base
<1>2. Serve(d) \/ Fail(d)
  BY DEF Serve
<1>3. TypeInv' /\ Moves(d) /\ Busy(d)
  BY <1>1, <1>2, TaskEffect
<1>4. Head(line[d]).kind = "join" /\ ~Writes(d)
  BY DEF JoinCheck, JoinEnter, JoinRegister, JoinConfirm, At, Writes, CommandProcess,
         CommandDelivered, ReplaceTransact, CriticalDelivered, Hides, MarkHidden
<1>5. RowsKept /\ db'.rev = db.rev
  BY <1>2, <1>4, RowsTask DEF RowsKept
<1>6. Caller(d) \in Socket
  BY <1>1, <1>3, <1>4, JoinCaller DEF Base
<1>7. ASSUME ~At(d, "join", "registered"), Withdrawal PROVE KnownOf(d)' /\ ToldOf(d)'
  BY <1>3, <1>5, <1>7, DeliveryKept DEF DeliveryOf
<1>8. ASSUME Head(line'[d]).kind = "join", work'[d].pc \in Steps, work'[d].rev = db.rev[d]
                 \/ work'[d].pc \notin {"authorized", "entered", "registered"}
      PROVE  CarriesOf(d)'
  BY <1>5, <1>8 DEF CarriesOf, JoinCarries, CommandCarries, CriticalCarries, AnnouncesTo, Announcing
<1>9. ASSUME work'[d].pc = "entered" \/ work'[d].pc = "registered" \/ work'[d].pc = "authorized",
             work'[d].rev = db.rev[d]
      PROVE  CarriesOf(d)' /\ Busy(d)' /\ Head(line'[d]).kind = "join" /\ Caller(d)' = Caller(d)
  <2>1. Busy(d)' /\ Head(line'[d]) = Head(line[d]) /\ Caller(d)' = Caller(d)
    BY <1>1, <1>3, <1>9, Continues
  <2> QED
    BY <1>4, <1>8, <1>9, <2>1 DEF Steps
\* The join of the caller fails, or is confirmed: it is in no hurry any more.
<1>10. ASSUME At(d, "join", "registered"), Withdrawal,
              Caller(d) \notin present'[d]
                \/ (known'[Caller(d)][d] >= work[d].rev)
       PROVE  KnownOf(d)' /\ ToldOf(d)'
  <2>1. work[d].rev = db.rev[d]
    BY <1>10 DEF DeliveryOf, CarriesOf, JoinCarries, At
  <2>2. Remaining(d)
    BY <1>10, WithdrawalRemaining
  <2>3. \A s \in Socket : Registering(s, d) => s = Caller(d)
    BY DEF Registering
  <2>4. KnownOf(d)'
    <3> SUFFICES ASSUME NEW s \in Socket, s \in present'[d]
                 PROVE  known'[s][d] >= 0
      BY DEF KnownOf
    <3>1. s \in present[d] /\ known'[s][d] >= known[s][d]
      BY <2>2 DEF Remaining
    <3>2. CASE s = Caller(d)
      BY <1>1, <1>3, <1>10, <2>1, <3>2, KnownTypes
    <3>3. CASE s # Caller(d)
      BY <1>1, <1>3, <2>3, <3>1, <3>3, KnownTypes DEF DeliveryOf, KnownOf
    <3> QED
      BY <3>2, <3>3
  <2>5. ToldOf(d)'
    <3> SUFFICES ASSUME d \in db'.exists, NEW o \in Op, NEW s \in Socket,
                        ops'[o].doc = d, ops'[o].delivered, SessionActive(s)', s \in present'[d],
                        s # ops'[o].untold
                 PROVE  known'[s][d] >= ops'[o].rev
      BY DEF ToldOf
    <3>1. s \in present[d] /\ known'[s][d] >= known[s][d]
      BY <2>2 DEF Remaining
    <3>2. RowStays(o) /\ d \in db.exists /\ SessionActive(s)
      BY <1>5 DEF RowsKept, RowVoid, SessionActive
    <3>3. ops[o].doc = d /\ ops[o].delivered /\ ops'[o].rev = ops[o].rev /\ s # ops[o].untold
      BY <3>2 DEF RowStays
    <3>4. CASE s = Caller(d)
      <4>1. ops[o].rev <= db.rev[d]
        BY <1>1, <1>3, <3>3, KnownTypes DEF OpsInv
      <4> QED
        BY <1>1, <1>3, <1>10, <2>1, <3>3, <3>4, <4>1, KnownTypes
    <3>5. CASE s # Caller(d)
      <4>1. known[s][d] >= ops[o].rev
        BY <2>3, <3>1, <3>2, <3>3, <3>5 DEF DeliveryOf, ToldOf
      <4> QED
        BY <1>1, <1>3, <3>1, <3>3, <4>1, KnownTypes
    <3> QED
      BY <3>4, <3>5
  <2> QED
    BY <2>4, <2>5
<1>11. CASE JoinCheck(d)
  <2>1. ~At(d, "join", "registered") /\ Withdrawal
    BY <1>1, <1>11, JoinCheckEffect, NothingWithdraws DEF JoinCheck, At
  <2>2. CASE work'[d] = Idle
    BY <1>7, <2>1, <2>2, IdleCarries DEF DeliveryOf
  <2>3. CASE work'[d] = [Idle EXCEPT !.pc = "authorized", !.rev = db.rev[d]]
    <3>1. work'[d].pc = "authorized" /\ work'[d].rev = db.rev[d]
      BY <2>3, IdleStanding DEF Standing
    <3> QED
      BY <1>7, <1>9, <2>1, <3>1 DEF DeliveryOf
  <2> QED
    BY <1>1, <1>11, <2>2, <2>3, JoinCheckEffect
<1>12. CASE JoinEnter(d)
  <2>1. ~At(d, "join", "registered") /\ At(d, "join", "authorized")
    BY <1>12 DEF JoinEnter, At
  <2>2. CASE Nothing /\ work'[d] = Idle
    BY <1>7, <2>1, <2>2, IdleCarries, NothingWithdraws DEF DeliveryOf
  <2>3. CASE /\ UNCHANGED <<present, held, known>>
             /\ work'[d] = [work[d] EXCEPT !.pc = "entered"]
    <3>1. work[d] \in Standing
      BY <1>1 DEF TypeInv
    <3>2. work'[d].pc = "entered" /\ work'[d].rev = work[d].rev
      BY <2>3, <3>1 DEF Standing
    <3>3. work[d].rev = db.rev[d]
      BY <2>1 DEF DeliveryOf, CarriesOf, JoinCarries, At
    <3>4. Remaining(d)
      BY <1>1, <1>3, <2>3, KnownTypes DEF Remaining
    <3>5. KnownOf(d)' /\ ToldOf(d)'
      BY <1>1, <1>3, <1>5, <2>1, <3>4, ToldRemaining DEF DeliveryOf, RowsKept, RowsOfKept
    <3> QED
      BY <1>9, <3>2, <3>3, <3>5 DEF DeliveryOf
  <2> QED
    BY <1>1, <1>12, <2>2, <2>3, JoinEnterEffect
<1>13. CASE JoinRegister(d)
  <2>1. ~At(d, "join", "registered") /\ At(d, "join", "entered")
    BY <1>13 DEF JoinRegister, At
  <2>2. CASE Withdrawn({Caller(d)}, {d}) /\ work'[d] = Idle
    <3>1. {Caller(d)} \in SUBSET Socket /\ {d} \in SUBSET Document
      BY <1>6
    <3>2. Withdrawal
      BY <2>2, <3>1 DEF Withdrawal
    <3> QED
      BY <1>7, <2>1, <2>2, <3>2, IdleCarries DEF DeliveryOf
  <2>3. CASE /\ present' = [present EXCEPT ![d] = @ \cup {Caller(d)}]
             /\ UNCHANGED <<held, known>>
             /\ work'[d].pc = "registered" /\ work'[d].rev = work[d].rev
    <3>1. work'[d].rev = db.rev[d]
      BY <2>1, <2>3 DEF DeliveryOf, CarriesOf, JoinCarries, At
    <3>2. /\ CarriesOf(d)' /\ Busy(d)' /\ Head(line'[d]).kind = "join"
          /\ Caller(d)' = Caller(d)
      BY <1>9, <2>3, <3>1
    <3>3. \A s \in Socket : s = Caller(d) => Registering(s, d)'
      BY <2>3, <3>2 DEF Registering, At
    <3>4. \A s \in Socket : s \in present'[d] => s \in present[d] \/ s = Caller(d)
      BY <1>1, <2>3 DEF TypeInv, PresentType
    <3>5. \A s \in Socket : ~Registering(s, d)
      BY <2>1 DEF Registering
    <3>6. KnownOf(d)'
      BY <2>3, <3>3, <3>4, <3>5 DEF DeliveryOf, KnownOf
    <3>7. ToldOf(d)'
      <4> SUFFICES ASSUME d \in db'.exists, NEW o \in Op, NEW s \in Socket,
                          ops'[o].doc = d, ops'[o].delivered, SessionActive(s)',
                          s \in present'[d], s # ops'[o].untold, s # Caller(d)
                   PROVE  known'[s][d] >= ops'[o].rev
        BY <3>3 DEF ToldOf
      <4>1. RowStays(o) /\ d \in db.exists /\ SessionActive(s) /\ s \in present[d]
        BY <1>5, <3>4 DEF RowsKept, RowVoid, SessionActive
      <4>2. ops[o].doc = d /\ ops[o].delivered /\ ops'[o].rev = ops[o].rev /\ s # ops[o].untold
        BY <4>1 DEF RowStays
      <4> QED
        BY <2>3, <3>5, <4>1, <4>2 DEF DeliveryOf, ToldOf
    <3> QED
      BY <3>2, <3>6, <3>7 DEF DeliveryOf
  <2> QED
    BY <1>1, <1>13, <2>2, <2>3, JoinRegisterEffect
<1>14. CASE JoinConfirm(d)
  <2>1. At(d, "join", "registered") /\ work'[d] = Idle
    BY <1>1, <1>14, JoinConfirmEffect DEF JoinConfirm
  <2>2. CASE Withdrawn({Caller(d)}, {d})
    <3>1. {Caller(d)} \in SUBSET Socket /\ {d} \in SUBSET Document
      BY <1>6
    <3>2. Withdrawal
      BY <2>2, <3>1 DEF Withdrawal
    <3>3. Caller(d) \notin present'[d]
      BY <1>6, <2>2 DEF Withdrawn
    <3> QED
      BY <1>10, <2>1, <3>2, <3>3, IdleCarries DEF DeliveryOf
  <2>3. CASE Nothing /\ known'[Caller(d)][d] >= work[d].rev
    BY <1>10, <2>1, <2>3, IdleCarries, NothingWithdraws DEF DeliveryOf
  <2> QED
    BY <1>1, <1>14, <2>2, <2>3, JoinConfirmEffect
<1>15. CASE Fail(d)
  <2>1. work'[d] = Idle /\ Withdrawal
    BY <1>1, <1>15, FailEffect
  <2>2. CASE At(d, "join", "registered")
    <3>1. JoinUndone(Caller(d), d, sock.doomed)
      BY <1>4, <1>15, <2>2 DEF Fail, At
    <3>2. sock.doomed \in SUBSET sock.connected
      BY <1>1 DEF Base, RoomInv
    <3>3. Withdrawn({Caller(d)}, {d})
      BY <1>1, <1>3, <1>4, <3>1, <3>2, JoinUndoneEffect
    <3>4. Caller(d) \notin present'[d]
      BY <1>6, <3>3 DEF Withdrawn
    <3> QED
      BY <1>10, <2>1, <2>2, <3>4, IdleCarries DEF DeliveryOf
  <2>3. CASE ~At(d, "join", "registered")
    BY <1>7, <2>1, <2>3, IdleCarries DEF DeliveryOf
  <2> QED
    BY <2>2, <2>3
<1> QED
  BY <1>11, <1>12, <1>13, <1>14, <1>15

\* Tasks that carry nothing of what the delivery depends on.
LEMMA CarriesLittle ==
  ASSUME TypeInv, NEW d \in Document, Busy(d), Moves(d),
         \/ work'[d] = Idle
         \/ Head(line[d]).kind \in {"lock", "put", "delete", "tell"}
         \/ /\ Head(line[d]).kind = "command"
            /\ work'[d].pc \notin {"committed", "current", "emit", "marking"}
  PROVE  CarriesOf(d)'
<1>1. CASE work'[d] = Idle
  BY <1>1, IdleCarries
<1>2. CASE work'[d] # Idle
  <2>1. GoesOn(d)
    BY <1>2 DEF Moves, Ordinary, Ends, EndsCritically
  <2>2. Head(line'[d]) = Head(line[d])
    BY <2>1, HeadGoesOn
  <2> QED
    BY <1>2, <2>2
       DEF CarriesOf, JoinCarries, CommandCarries, CriticalCarries, AnnouncesTo, Announcing
<1> QED
  BY <1>1, <1>2

\* Locks, replacements and deletions through REST, and a command before it commits.
LEMMA DeliveryServed ==
  ASSUME Core, OpsInv, NEW d \in Document, DeliveryOf(d),
         \/ Authorize(d, "command") \/ Authorize(d, "lock") \/ LockServed(d)
         \/ ReplaceTransact(d) \/ ReplacePublish(d) \/ DeleteTransact(d) \/ DeletePublish(d)
  PROVE  DeliveryOf(d)'
<1>1. Base /\ TypeInv /\ Serve(d)
  BY DEF Core, Base, Serve
<1>2. TypeInv' /\ Moves(d) /\ Busy(d)
  BY <1>1, TaskEffect
<1>3. Nothing
  BY <1>1, AuthorizeEffect, LockServedEffect, ReplaceTransactEffect, ReplacePublishEffect,
     DeleteTransactEffect, DeletePublishEffect
<1>4. ~At(d, "join", "registered")
  BY DEF Authorize, LockServed, ReplaceTransact, ReplacePublish, DeleteTransact, DeletePublish, At
<1>5. db'.exists \subseteq db.exists /\ db'.sessions \subseteq db.sessions
  BY <1>1, TaskRows
<1>6. RowsOfKept(d)
  <2>1. CASE Writes(d)
    <3>1. ReplaceTransact(d)
      BY <2>1 DEF Writes, CommandProcess, CommandDelivered, CriticalDelivered, Hides, MarkHidden,
                  At, Authorize, LockServed, ReplaceTransact, ReplacePublish, DeleteTransact, DeletePublish
    <3> QED
      BY <3>1 DEF ReplaceTransact, RowsOfKept, RowStays
  <2>2. CASE ~Writes(d)
    BY <1>1, <2>2, RowsTask DEF RowsKept, RowsOfKept
  <2> QED
    BY <2>1, <2>2
<1>7. KnownOf(d)' /\ ToldOf(d)'
  BY <1>1, <1>2, <1>3, <1>4, <1>5, <1>6, NothingWithdraws, WithdrawalRemaining, ToldRemaining
     DEF DeliveryOf
<1>8. CarriesOf(d)'
  <2>1. CASE Authorize(d, "command")
    <3>1. Head(line[d]).kind = "command"
      BY <2>1 DEF Authorize, At
    <3>2. CASE work'[d] = Idle
      BY <1>1, <1>2, <3>2, CarriesLittle
    <3>3. CASE work'[d] = [Idle EXCEPT !.pc = "authorized", !.elements = db.elements[d]]
      <4>1. work'[d].pc = "authorized"
        BY <3>3, IdleStanding DEF Standing
      <4> QED
        BY <1>1, <1>2, <3>1, <4>1, CarriesLittle
    <3> QED
      BY <1>1, <2>1, <3>2, <3>3, AuthorizeEffect
  <2>2. CASE ~Authorize(d, "command")
    <3>1. Head(line[d]).kind \in {"lock", "put", "delete", "tell"}
      BY <2>2 DEF Authorize, LockServed, ReplaceTransact, ReplacePublish, DeleteTransact,
                  DeletePublish, At
    <3> QED
      BY <1>1, <1>2, <3>1, CarriesLittle
  <2> QED
    BY <2>1, <2>2
<1> QED
  BY <1>7, <1>8 DEF DeliveryOf

-----------------------------------------------------------------------------
(* Commands *)

\* A commit carries its revision, not marked as delivered.
LEMMA DeliveryProcess ==
  ASSUME Core, OpsInv, NEW d \in Document, DeliveryOf(d), CommandProcess(d)
  PROVE  DeliveryOf(d)'
<1>1. Base /\ TypeInv /\ Serve(d)
  BY DEF Core, Base, Serve
<1>2. TypeInv' /\ Moves(d) /\ Busy(d)
  BY <1>1, TaskEffect
<1>3. /\ ~At(d, "join", "registered") /\ Head(line[d]).kind = "command"
      /\ present' = present
  BY DEF CommandProcess, At
<1>4. Nothing /\ Head(line[d]).op \in Op
  BY <1>1, CommandProcessEffect
<1>5. Remaining(d)
  BY <1>4, NothingWithdraws, WithdrawalRemaining
<1> DEFINE o == Head(line[d]).op
<1>6. ops[o].doc = d /\ o \in Op
  BY CommandCommits
<1> HIDE DEF o
<1>7. CASE UNCHANGED <<db, ops>> /\ work'[d] = Idle
  <2>1. RowsKept
    BY <1>7, SameRows
  <2> QED
    BY <1>2, <1>3, <1>4, <1>7, <2>1, NothingWithdraws, DeliveryKept, IdleCarries DEF DeliveryOf
<1>8. ASSUME NEW owed \in BOOLEAN, NEW r \in Nat, ops'[o].doc = d, ops'[o].rev = r,
             r <= db'.rev[d],
             work'[d] = [Idle EXCEPT !.pc = "committed", !.op = o, !.reply = r, !.owed = owed]
      PROVE  CarriesOf(d)'
  <2>1. work'[d].pc = "committed" /\ work'[d].op = o /\ work'[d].reply = r
    BY <1>8, IdleStanding DEF Standing
  <2>2. Busy(d)' /\ Head(line'[d]) = Head(line[d])
    BY <1>1, <1>2, <2>1, Continues
  <2> QED
    BY <1>3, <1>6, <1>8, <2>1, <2>2
       DEF CarriesOf, JoinCarries, CommandCarries, CriticalCarries, AnnouncesTo, Announcing
<1>9. CASE /\ UNCHANGED <<db, ops, known, sock>> /\ ops[o].rev > 0
           /\ \E owed \in BOOLEAN :
                work'[d] = [Idle EXCEPT !.pc = "committed", !.op = o,
                                        !.reply = ops[o].rev, !.owed = owed]
  <2>1. RowsKept
    BY <1>9, SameRows
  <2>2. ops[o].rev \in Nat /\ ops[o].rev <= db.rev[d]
    BY <1>1, <1>6, <1>9, RowType DEF OpsInv
  <2>3. CarriesOf(d)'
    BY <1>6, <1>8, <1>9, <2>2
  <2> QED
    BY <1>2, <1>3, <1>4, <2>1, <2>3, NothingWithdraws, DeliveryKept DEF DeliveryOf
<1>10. CASE /\ ops[o].rev = 0 /\ ops[o].base = db.rev[d]
            /\ db'.rev = [db.rev EXCEPT ![d] = @ + 1]
            /\ ops' = [ops EXCEPT ![o].rev = ops[o].base + 1]
            /\ db'.exists = db.exists /\ db'.sessions = db.sessions
            /\ UNCHANGED <<known, sock>>
            /\ \E owed \in BOOLEAN :
                 work'[d] = [Idle EXCEPT !.pc = "committed", !.op = o,
                                         !.reply = ops[o].base + 1, !.owed = owed]
  <2>1. /\ ops \in [Op -> Row] /\ db.rev \in [Document -> Nat]
    BY <1>1 DEF TypeInv, DatabaseType
  <2>2. ops[o] \in Row
    BY <1>6, <2>1
  <2>3. /\ ops'[o].doc = d /\ ops'[o].rev = db.rev[d] + 1 /\ db'.rev[d] = db.rev[d] + 1
        /\ ops'[o].delivered = ops[o].delivered
        /\ \A p \in Op : p # o => ops'[p] = ops[p]
    BY <1>6, <1>10, <2>1, <2>2 DEF Row
  <2>4. ~ops[o].delivered
    BY <1>6, <1>10 DEF OpsInv
  <2>5. CarriesOf(d)'
    <3>1. db.rev[d] + 1 \in Nat /\ db.rev[d] + 1 <= db'.rev[d]
      BY <2>1, <2>3
    <3>2. PICK owed \in BOOLEAN :
            work'[d] = [Idle EXCEPT !.pc = "committed", !.op = o,
                                    !.reply = ops[o].base + 1, !.owed = owed]
      BY <1>10
    <3>3. work'[d] = [Idle EXCEPT !.pc = "committed", !.op = o,
                                  !.reply = db.rev[d] + 1, !.owed = owed]
      BY <1>10, <3>2
    <3> QED
      BY <1>8, <2>3, <3>1, <3>3
  <2>6. ~At(d, "join", "registered") => \A s \in Socket : ~Registering(s, d)
    BY DEF Registering
  <2>7. KnownOf(d)'
    BY <1>3, <1>10, <2>6 DEF DeliveryOf, KnownOf
  <2>8. ToldOf(d)'
    <3> SUFFICES ASSUME d \in db'.exists, NEW p \in Op, NEW s \in Socket,
                        ops'[p].doc = d, ops'[p].delivered, SessionActive(s)', s \in present'[d],
                        s # ops'[p].untold
                 PROVE  known'[s][d] >= ops'[p].rev
      BY DEF ToldOf
    <3>1. p # o
      BY <2>3, <2>4
    <3>2. SessionActive(s) /\ d \in db.exists /\ ops'[p] = ops[p]
      BY <1>10, <2>3, <3>1 DEF SessionActive
    <3> QED
      BY <1>3, <1>10, <2>6, <3>2 DEF DeliveryOf, ToldOf
  <2> QED
    BY <2>5, <2>7, <2>8 DEF DeliveryOf
<1>11. \/ UNCHANGED <<db, ops>> /\ work'[d] = Idle
       \/ /\ UNCHANGED <<db, ops, known, sock>> /\ ops[o].rev > 0
          /\ \E owed \in BOOLEAN :
               work'[d] = [Idle EXCEPT !.pc = "committed", !.op = o,
                                       !.reply = ops[o].rev, !.owed = owed]
       \/ /\ ops[o].rev = 0 /\ ops[o].base = db.rev[d]
          /\ db'.rev = [db.rev EXCEPT ![d] = @ + 1]
          /\ ops' = [ops EXCEPT ![o].rev = ops[o].base + 1]
          /\ db'.exists = db.exists /\ db'.sessions = db.sessions
          /\ UNCHANGED <<known, sock>>
          /\ \E owed \in BOOLEAN :
               work'[d] = [Idle EXCEPT !.pc = "committed", !.op = o,
                                       !.reply = ops[o].base + 1, !.owed = owed]
  BY <1>1, CommandProcessEffect DEF o
<1> QED
  BY <1>7, <1>9, <1>10, <1>11

\* The revision that was read is sent to everybody in the room who has not been
\* fenced off.
LEMMA AnnounceChosen ==
  ASSUME Core, TypeInv', GoneInv, NEW d \in Document, NEW w \in Standing, w.rev = db.rev[d], db' = db,
         Withdrawn(FencedOut(d), {d}), work'[d] = Chosen(d, w)
  PROVE  AnnouncesTo(d)'
<1>1. TypeInv /\ sock \in SockType
  BY DEF Core, Base, TypeInv
<1> DEFINE R == IF d \in crit.deleted THEN {} ELSE sock.room[d] \ FencedOut(d)
<1>2. /\ work'[d].pc = "emit" /\ work'[d].rev = db.rev[d] /\ work'[d].to = R
      /\ work'[d].dead = {s \in R : ~SessionActive(s)}
  <2>1. /\ Chosen(d, w).pc = "emit" /\ Chosen(d, w).rev = w.rev
        /\ Chosen(d, w).to = IF d \in crit.deleted THEN {} ELSE sock.room[d] \ FencedOut(d)
        /\ Chosen(d, w).dead = {s \in Chosen(d, w).to : ~SessionActive(s)}
    BY <1>1, ChosenStanding
  <2> QED
    BY <2>1
<1> HIDE DEF R
<1>3. ASSUME d \in db.exists, NEW s \in sock'.room[d] PROVE s \in R
  <2>1. d \notin crit.deleted
    BY <1>3 DEF GoneInv
  <2>2. s \in Socket
    <3>1. sock' \in SockType
      BY DEF TypeInv
    <3>2. sock'.room[d] \subseteq Socket
      BY <3>1 DEF SockType
    <3> QED
      BY <1>3, <3>2
  <2>3. s \in sock.room[d] /\ s \notin FencedOut(d)
    BY <1>3, <2>2 DEF Withdrawn
  <2> QED
    BY <2>1, <2>3 DEF R
<1>4. \A s \in work'[d].dead : ~SessionActive(s)'
  BY <1>2 DEF SessionActive
<1> QED
  BY <1>2, <1>3, <1>4 DEF AnnouncesTo

\* The event reaches everybody who remains in the document, but the sender.
LEMMA AnnounceEmitted ==
  ASSUME Core, TypeInv', GoneInv, NEW d \in Document, DeliveryOf(d), Announcing(d),
         work[d].pc = "emit", Emit(d), db' = db,
         work'[d] = [work[d] EXCEPT !.pc = "marking"]
  PROVE  AnnouncesTo(d)'
<1>1. TypeInv /\ work[d] \in Standing /\ RoomInv
  BY DEF Core, Base, TypeInv
<1>2. work'[d].pc = "marking" /\ work'[d].rev = work[d].rev /\ work'[d].except = work[d].except
  BY <1>1 DEF Standing
<1>3. /\ work[d].rev = db.rev[d]
      /\ d \in db.exists => sock.room[d] \subseteq work[d].to
      /\ \A s \in work[d].dead : ~SessionActive(s)
  BY DEF DeliveryOf, CarriesOf, AnnouncesTo
<1>4. ASSUME d \in db.exists, NEW s \in Socket, s \in present'[d], SessionActive(s),
             s # work[d].except
      PROVE  known'[s][d] >= work[d].rev
  <2>1. /\ s \in present[d] /\ s \notin Revoked(d)
        /\ known'[s][d] = IF s \in Reached(d) /\ known[s][d] \in 0 .. work[d].rev
                            THEN work[d].rev ELSE known[s][d]
    <3>1. Revoked(d) \in SUBSET Socket /\ present \in PresentType
      BY <1>1, RevokedSockets DEF TypeInv
    <3>2. present' = PresentWithout(Revoked(d), d)
      BY DEF Emit
    <3>3. s \in present[d] /\ s \notin Revoked(d)
      BY <1>4, <3>1, <3>2, WithoutPresent
    <3> QED
      BY <1>1, <3>3, EmitStep
  <2>2. s \in sock.room[d]
    BY <1>1, <2>1 DEF RoomInv
  <2>3. s \in Recipients(d)
    BY <1>3, <1>4, <2>2 DEF Recipients
  <2>4. s \notin NowFenced(d) /\ s \in work[d].dead \cup work[d].allowed
    BY <2>1, <2>3 DEF Revoked
  <2>5. s \in work[d].allowed
    BY <1>3, <1>4, <2>4
  <2>6. d \notin crit.deleted
    BY <1>4 DEF GoneInv
  <2>7. s \in Reached(d)
    BY <2>3, <2>4, <2>5, <2>6 DEF Reached
  <2>8. known[s][d] >= 0
    BY <2>1 DEF DeliveryOf, KnownOf, Registering, Announcing, At
  <2> QED
    BY <1>1, <2>1, <2>7, <2>8, KnownTypes
<1>5. \A s : SessionActive(s)' <=> SessionActive(s)
  BY DEF SessionActive
<1> QED
  BY <1>2, <1>3, <1>4, <1>5 DEF AnnouncesTo

\* A command announces the current revision to the whole room, but its caller at most.
LEMMA DeliveryBroadcast ==
  ASSUME Core, OpsInv, GoneInv, NEW d \in Document, DeliveryOf(d),
         CommandCurrent(d) \/ CommandBroadcast(d) \/ CommandEmit(d)
  PROVE  DeliveryOf(d)'
<1>1. Base /\ TypeInv /\ Serve(d) /\ work[d] \in Standing
  BY DEF Core, Base, Serve, TypeInv
<1>2. TypeInv' /\ Moves(d) /\ Busy(d)
  BY <1>1, TaskEffect
<1>3. /\ Busy(d) /\ Head(line[d]).kind = "command" /\ ~At(d, "join", "registered")
      /\ work[d].pc \in {"committed", "current", "emit"}
      /\ db' = db /\ ops' = ops
  BY DEF CommandCurrent, CommandBroadcast, CommandEmit, At
<1>4. Withdrawal
  BY <1>1, CommandCurrentEffect, CommandBroadcastEffect, CommandEmitEffect, NothingWithdraws
<1>5. KnownOf(d)' /\ ToldOf(d)'
  BY <1>2, <1>3, <1>4, SameRows, DeliveryKept DEF DeliveryOf
<1>6. /\ work[d].op \in Op /\ ops[work[d].op].doc = d
      /\ ops[work[d].op].rev \in {0, work[d].reply} /\ work[d].reply <= db.rev[d]
  BY <1>3 DEF DeliveryOf, CarriesOf, CommandCarries
<1>7. ASSUME work'[d].pc \in {"current", "emit", "marking"},
             work'[d].op = work[d].op, work'[d].reply = work[d].reply,
             work'[d].pc \in {"emit", "marking"} =>
               \/ work'[d].except = None
               \/ work'[d].except = Caller(d) /\ work'[d].rev = work'[d].reply,
             AnnouncesTo(d)'
      PROVE  DeliveryOf(d)'
  <2>1. Busy(d)' /\ Head(line'[d]) = Head(line[d]) /\ Caller(d)' = Caller(d)
    BY <1>1, <1>2, <1>7, Continues
  <2>2. CommandCarries(d)'
    BY <1>3, <1>6, <1>7, <2>1 DEF CommandCarries
  <2> QED
    BY <1>3, <1>5, <1>7, <2>1, <2>2 DEF DeliveryOf, CarriesOf, JoinCarries, CriticalCarries
<1>8. CASE work'[d] = Idle
  BY <1>5, <1>8, IdleCarries DEF DeliveryOf
<1>9. CASE CommandCurrent(d) /\ work'[d] = Read(d, work[d])
  <2>1. /\ work'[d].pc = "current" /\ work'[d].rev = db.rev[d]
        /\ work'[d].found <=> d \in db.exists
        /\ work'[d].op = work[d].op /\ work'[d].reply = work[d].reply
    BY <1>1, <1>9, ReadStanding
  <2>2. AnnouncesTo(d)'
    BY <1>3, <2>1 DEF AnnouncesTo
  <2> QED
    BY <1>7, <2>1, <2>2
<1>10. ASSUME CommandBroadcast(d), NEW w \in Standing, work'[d] = Chosen(d, w),
              Withdrawn(FencedOut(d), {d}),
              w.rev = work[d].rev, w.op = work[d].op, w.reply = work[d].reply,
              w.except = IF work[d].rev = work[d].reply THEN Caller(d) ELSE None
       PROVE  DeliveryOf(d)'
  <2>1. Announcing(d)
    BY <1>10 DEF CommandBroadcast, At, Announcing
  <2>2. w.rev = db.rev[d]
    BY <1>10, <2>1 DEF DeliveryOf, CarriesOf, AnnouncesTo
  <2>3. AnnouncesTo(d)'
    BY <1>2, <1>3, <1>10, <2>2, AnnounceChosen
  <2>4. /\ work'[d].pc = "emit" /\ work'[d].op = w.op /\ work'[d].reply = w.reply
        /\ work'[d].except = w.except /\ work'[d].rev = w.rev
    <3>1. sock \in SockType
      BY <1>1 DEF TypeInv
    <3>2. /\ Chosen(d, w).pc = "emit" /\ Chosen(d, w).op = w.op
          /\ Chosen(d, w).reply = w.reply /\ Chosen(d, w).except = w.except
          /\ Chosen(d, w).rev = w.rev
      BY <3>1, ChosenStanding
    <3> QED
      BY <1>10, <3>2
  <2> QED
    BY <1>7, <1>10, <2>3, <2>4
<1>11. CASE CommandEmit(d)
  <2>1. work'[d] = [work[d] EXCEPT !.pc = "marking"]
    BY <1>1, <1>11, CommandEmitEffect
  <2>2. Announcing(d) /\ work[d].pc = "emit" /\ Emit(d)
    BY <1>11 DEF CommandEmit, At, Announcing
  <2>3. AnnouncesTo(d)'
    BY <1>2, <1>3, <2>1, <2>2, AnnounceEmitted
  <2>4. /\ work'[d].pc = "marking" /\ work'[d].op = work[d].op
        /\ work'[d].reply = work[d].reply /\ work'[d].except = work[d].except
        /\ work'[d].rev = work[d].rev
    BY <1>1, <2>1 DEF Standing
  <2>5. \/ work[d].except = None
        \/ work[d].except = Caller(d) /\ work[d].rev = work[d].reply
    BY <1>3, <2>2 DEF DeliveryOf, CarriesOf, CommandCarries
  <2> QED
    BY <1>7, <2>3, <2>4, <2>5
<1>12. CASE CommandCurrent(d)
  BY <1>1, <1>8, <1>9, <1>12, CommandCurrentEffect
<1>13. CASE CommandBroadcast(d)
  BY <1>1, <1>8, <1>10, <1>13, CommandBroadcastEffect
<1> QED
  BY <1>11, <1>12, <1>13

\* What is marked as delivered is known to the others from the event, and to the
\* sender from the answer.
LEMMA DeliveryAnswered ==
  ASSUME Core, OpsInv, NEW d \in Document, DeliveryOf(d), CommandDelivered(d)
  PROVE  DeliveryOf(d)'
<1>1. Base /\ TypeInv /\ Serve(d)
  BY DEF Core, Base, Serve
<1>2. TypeInv' /\ Nothing /\ work'[d] = Idle
  BY <1>1, CommandDeliveredEffect
<1>3. /\ Busy(d) /\ Head(line[d]).kind = "command" /\ work[d].pc = "marking"
      /\ db' = db /\ Announcing(d) /\ \A s \in Socket : ~Registering(s, d)
  BY DEF CommandDelivered, At, Announcing, Registering
<1>4. Remaining(d)
  BY <1>2, NothingWithdraws, WithdrawalRemaining
<1>5. /\ work[d].rev = db.rev[d]
      /\ d \in db.exists => \A s \in Socket : s \in present[d] /\ SessionActive(s) =>
                              known[s][d] >= work[d].rev \/ s = work[d].except
  BY <1>3 DEF DeliveryOf, CarriesOf, AnnouncesTo
<1>6. /\ ops[work[d].op].rev \in {0, work[d].reply} /\ work[d].reply <= db.rev[d]
      /\ work[d].except = None \/ work[d].except = Caller(d)
  BY <1>3 DEF DeliveryOf, CarriesOf, CommandCarries
<1>7. KnownOf(d)'
  <2> SUFFICES ASSUME NEW s \in Socket, s \in present'[d]
               PROVE  known'[s][d] >= 0
    BY DEF KnownOf
  <2>1. s \in present[d] /\ known'[s][d] >= known[s][d] /\ known[s][d] >= 0
    BY <1>3, <1>4 DEF DeliveryOf, KnownOf, Remaining
  <2> QED
    BY <1>1, <1>2, <2>1, KnownTypes
<1>8. ToldOf(d)'
  <2> SUFFICES ASSUME d \in db.exists, NEW o \in Op, NEW s \in Socket,
                      ops'[o].doc = d, ops'[o].delivered, SessionActive(s)', s \in present'[d],
                      s # ops'[o].untold
               PROVE  known'[s][d] >= ops'[o].rev
    BY <1>3 DEF ToldOf
  <2>1. s \in present[d] /\ SessionActive(s) /\ known'[s][d] >= known[s][d] /\ known[s][d] >= 0
    BY <1>3, <1>4 DEF DeliveryOf, KnownOf, Remaining, SessionActive
  <2>2. CASE RowStays(o)
    <3>1. /\ ops[o].doc = d /\ ops[o].delivered /\ ops'[o].rev = ops[o].rev
          /\ s # ops[o].untold
      BY <2>2 DEF RowStays
    <3>2. known[s][d] >= ops[o].rev
      BY <1>3, <2>1, <3>1 DEF DeliveryOf, ToldOf
    <3> QED
      BY <1>1, <1>2, <2>1, <3>1, <3>2, KnownTypes
  <2>3. CASE o = work[d].op /\ RowTold(o)
    <3>1. ops'[o].rev = ops[o].rev /\ ops[o].rev > 0 /\ ops[o].rev = work[d].reply
      <4>1. ops'[o].rev = ops[o].rev /\ ops[o].rev > 0
        BY <2>3 DEF RowTold
      <4> QED
        BY <1>6, <2>3, <4>1
    <3>2. CASE known[s][d] >= work[d].rev
      BY <1>1, <1>2, <1>5, <1>6, <2>1, <3>1, <3>2, KnownTypes
    <3>3. CASE s = work[d].except
      <4>1. s = Caller(d)
        BY <1>6, <3>3, NoneAssumption
      <4>2. known'[s][d] = IF known[s][d] \in 0 .. work[d].reply THEN work[d].reply
                                                                  ELSE known[s][d]
        BY <1>1, <4>1, CommandDeliveredEffect
      <4> QED
        BY <1>1, <1>2, <2>1, <3>1, <4>2, KnownTypes
    <3> QED
      BY <1>5, <2>1, <3>2, <3>3
  <2>4. ~RowVoid(o)
    BY DEF RowVoid
  <2> QED
    BY <1>1, <2>2, <2>3, <2>4, CommandMarks
<1> QED
  BY <1>2, <1>7, <1>8, IdleCarries DEF DeliveryOf

\* A mark hidden by its error: the event has reached the others, and the sender, who
\* hears of an error instead of the revision, is the one whom the row has not told.
LEMMA DeliveryHidden ==
  ASSUME Core, OpsInv, NEW d \in Document, DeliveryOf(d), Hides(d)
  PROVE  DeliveryOf(d)'
<1>1. Base /\ TypeInv /\ Fail(d)
  BY DEF Core, Base, Hides
<1>2. TypeInv' /\ Withdrawal /\ work'[d] = Idle
  BY <1>1, FailEffect
<1>3. /\ db' = db /\ Busy(d) /\ work[d].pc = "marking"
      /\ Head(line[d]).kind \in {"command", "critical"}
  BY HiddenMarks
<1>4. Announcing(d) /\ \A s \in Socket : ~Registering(s, d)
  BY <1>3 DEF Announcing, Registering, At, DeliveryOf, CarriesOf, CriticalCarries
<1>5. Remaining(d)
  BY <1>2, WithdrawalRemaining
<1>6. /\ work[d].rev = db.rev[d]
      /\ d \in db.exists => \A s \in Socket : s \in present[d] /\ SessionActive(s) =>
                              known[s][d] >= work[d].rev \/ s = work[d].except
  BY <1>3, <1>4 DEF DeliveryOf, CarriesOf, AnnouncesTo
<1>7. Head(line[d]).kind = "critical" => work[d].except = None
  BY <1>3 DEF DeliveryOf, CarriesOf, CriticalCarries
<1>8. Head(line[d]).kind = "command" => ops[work[d].op].doc = d
  BY <1>3 DEF DeliveryOf, CarriesOf, CommandCarries
<1>9. KnownOf(d)'
  <2> SUFFICES ASSUME NEW s \in Socket, s \in present'[d]
               PROVE  known'[s][d] >= 0
    BY DEF KnownOf
  <2>1. s \in present[d] /\ known'[s][d] >= known[s][d] /\ known[s][d] >= 0
    BY <1>4, <1>5 DEF DeliveryOf, KnownOf, Remaining
  <2> QED
    BY <1>1, <1>2, <2>1, KnownTypes
<1>10. ToldOf(d)'
  <2> SUFFICES ASSUME d \in db.exists, NEW o \in Op, NEW s \in Socket,
                      ops'[o].doc = d, ops'[o].delivered, SessionActive(s)', s \in present'[d],
                      s # ops'[o].untold
               PROVE  known'[s][d] >= ops'[o].rev
    BY <1>3 DEF ToldOf
  <2>1. s \in present[d] /\ SessionActive(s) /\ known'[s][d] >= known[s][d]
    BY <1>3, <1>5 DEF Remaining, SessionActive
  <2>2. CASE RowStays(o)
    <3>1. /\ ops[o].doc = d /\ ops[o].delivered /\ ops'[o].rev = ops[o].rev
          /\ s # ops[o].untold
      BY <2>2 DEF RowStays
    <3>2. known[s][d] >= ops[o].rev
      BY <1>4, <2>1, <3>1 DEF DeliveryOf, ToldOf
    <3> QED
      BY <1>1, <1>2, <2>1, <3>1, <3>2, KnownTypes
  <2>3. CASE RowTold(o) /\ s # work[d].except
    <3>1. known[s][d] >= db.rev[d]
      BY <1>6, <2>1, <2>3
    <3>2. ops[o].doc = d /\ ops'[o].rev = ops[o].rev /\ ops[o].rev > 0
      BY <2>3 DEF RowTold
    <3>3. ops[o].rev <= db.rev[d]
      BY <3>2 DEF OpsInv
    <3> QED
      BY <1>1, <1>2, <2>1, <3>1, <3>2, <3>3, KnownTypes
  <2>4. ~RowVoid(o)
    BY DEF RowVoid
  <2>5. s # None
    BY NoneAssumption
  <2> QED
    BY <1>7, <2>2, <2>3, <2>4, <2>5, HiddenMarks
<1> QED
  BY <1>2, <1>9, <1>10, IdleCarries DEF DeliveryOf

\* The call that a task awaits fails.
LEMMA DeliveryFails ==
  ASSUME Core, OpsInv, NEW d \in Document, DeliveryOf(d), Fail(d), Head(line[d]).kind # "join"
  PROVE  DeliveryOf(d)'
<1>1. Base
  BY DEF Core
<1>2. TypeInv' /\ Withdrawal /\ work'[d] = Idle
  BY <1>1, FailEffect
<1>3. CASE ~MarkHidden(d)
  <2>1. db' = db /\ ops' = ops
    BY <1>1, <1>3, FailEffect
  <2> QED
    BY <1>2, <2>1, SameRows, DeliveryKept, IdleCarries DEF DeliveryOf, At
<1>4. CASE MarkHidden(d)
  BY <1>4, DeliveryHidden DEF Hides
<1> QED
  BY <1>3, <1>4

-----------------------------------------------------------------------------
(* Critical work *)

\* Critical work announces the current revision to the whole room if it will mark
\* operations.
LEMMA DeliveryCritical ==
  ASSUME Core, OpsInv, GoneInv, NEW d \in Document, DeliveryOf(d),
         \/ CriticalEvict(d) \/ CriticalDeleted(d) \/ CriticalAsk(d) \/ CriticalDecide(d)
         \/ CriticalCurrent(d) \/ CriticalEmit(d)
  PROVE  DeliveryOf(d)'
<1>1. Base /\ TypeInv /\ Serve(d) /\ work[d] \in Standing /\ sock \in SockType
  BY DEF Core, Base, Serve, TypeInv
<1>2. TypeInv' /\ Moves(d) /\ Busy(d)
  BY <1>1, TaskEffect
<1>3. /\ Head(line[d]).kind = "critical" /\ ~At(d, "join", "registered")
      /\ db' = db /\ ops' = ops
  BY DEF CriticalEvict, CriticalDeleted, CriticalAsk, CriticalDecide, CriticalCurrent,
         CriticalEmit, ReadyForResync, At
<1>4. Withdrawal
  BY <1>1, CriticalEvictEffect, CriticalDeletedEffect, CriticalAskEffect, CriticalDecideEffect,
     CriticalCurrentEffect, CriticalEmitEffect, NothingWithdraws
<1>5. KnownOf(d)' /\ ToldOf(d)'
  BY <1>2, <1>3, <1>4, SameRows, DeliveryKept DEF DeliveryOf
<1>6. /\ work[d].except = None
      /\ work[d].pc \in {"current", "marking"} => work[d].owed
  BY <1>2, <1>3 DEF DeliveryOf, CarriesOf, CriticalCarries
<1>7. ASSUME work'[d].pc # "start", work'[d].except = None,
             work'[d].pc \in {"current", "marking"} => work'[d].owed,
             work'[d].pc \in {"current", "emit", "marking"} /\ work'[d].owed => AnnouncesTo(d)'
      PROVE  DeliveryOf(d)'
  <2>1. Busy(d)' /\ Head(line'[d]) = Head(line[d])
    BY <1>1, <1>2, <1>7, Continues
  <2>2. CriticalCarries(d)'
    BY <1>7 DEF CriticalCarries
  <2>3. AnnouncesTo(d)'
    BY <1>3, <1>7, <2>1 DEF AnnouncesTo, Announcing
  <2> QED
    BY <1>3, <1>5, <2>1, <2>2, <2>3 DEF DeliveryOf, CarriesOf, JoinCarries, CommandCarries
<1>8. CASE work'[d] = Idle
  BY <1>5, <1>8, IdleCarries DEF DeliveryOf
<1>9. CASE CriticalEvict(d)
  <2>1. work'[d] = [Idle EXCEPT !.pc = "evicted"]
    BY <1>1, <1>9, CriticalEvictEffect
  <2>2. work'[d].pc = "evicted" /\ work'[d].except = None
    BY <2>1 DEF Idle
  <2> QED
    BY <1>7, <2>2
<1>10. CASE CriticalDeleted(d)
  <2>1. work'[d] = Idle
    BY <1>1, <1>10, CriticalDeletedEffect DEF EndsCritically
  <2> QED
    BY <1>8, <2>1
<1>11. CASE CriticalAsk(d)
  <2>1. PICK owed \in BOOLEAN : work'[d] = [Idle EXCEPT !.pc = "asked", !.owed = owed]
    BY <1>1, <1>11, CriticalAskEffect
  <2>2. work'[d].pc = "asked" /\ work'[d].except = None
    BY <2>1 DEF Idle
  <2> QED
    BY <1>7, <2>2
<1>12. CASE CriticalDecide(d)
  <2>1. ASSUME NEW change \in Announcement \cup {None},
               work'[d] = Read(d, [Idle EXCEPT !.owed = TRUE, !.change = change])
        PROVE  DeliveryOf(d)'
    <3>1. /\ work'[d].pc = "current" /\ work'[d].rev = db.rev[d] /\ work'[d].owed
          /\ work'[d].except = None /\ (work'[d].found <=> d \in db.exists)
      BY <2>1 DEF Read, Idle
    <3>2. AnnouncesTo(d)'
      BY <1>3, <3>1 DEF AnnouncesTo
    <3> QED
      BY <1>7, <3>1, <3>2
  <2>2. ASSUME NEW w \in Standing, w.owed = FALSE, w.except = None, work'[d] = Chosen(d, w)
        PROVE  DeliveryOf(d)'
    <3>1. /\ Chosen(d, w).pc = "emit" /\ Chosen(d, w).owed = w.owed
          /\ Chosen(d, w).except = w.except
      BY <1>1, ChosenStanding
    <3>2. work'[d].pc = "emit" /\ ~work'[d].owed /\ work'[d].except = None
      BY <2>2, <3>1
    <3> QED
      BY <1>7, <3>2
  <2> QED
    BY <1>1, <1>8, <1>12, <2>1, <2>2, CriticalDecideEffect
<1>13. CASE CriticalCurrent(d)
  <2>1. /\ Announcing(d) /\ work[d].owed /\ work[d].pc = "current"
    BY <1>2, <1>3, <1>6, <1>13 DEF CriticalCurrent, At, Announcing
  <2>2. work[d].rev = db.rev[d] /\ (~work[d].found => d \notin db.exists)
    BY <2>1 DEF DeliveryOf, CarriesOf, AnnouncesTo
  <2>3. CASE Withdrawn(FencedOut(d), {d}) /\ work'[d] = Chosen(d, work[d])
    <3>1. AnnouncesTo(d)'
      BY <1>1, <1>2, <1>3, <2>2, <2>3, AnnounceChosen
    <3>2. /\ Chosen(d, work[d]).pc = "emit" /\ Chosen(d, work[d]).except = work[d].except
      BY <1>1, ChosenStanding
    <3>3. work'[d].pc = "emit" /\ work'[d].except = None
      BY <1>6, <2>3, <3>2
    <3> QED
      BY <1>7, <3>1, <3>3
  <2>4. CASE ~work[d].found /\ work'[d] = [work[d] EXCEPT !.pc = "marking"]
    <3>1. /\ work'[d].pc = "marking" /\ work'[d].except = work[d].except
          /\ work'[d].owed = work[d].owed /\ work'[d].rev = work[d].rev
      BY <1>1, <2>4 DEF Standing
    <3>2. AnnouncesTo(d)'
      BY <1>3, <2>2, <2>4, <3>1 DEF AnnouncesTo
    <3> QED
      BY <1>6, <1>7, <2>1, <3>1, <3>2
  <2> QED
    BY <1>1, <1>13, <2>3, <2>4, CriticalCurrentEffect
<1>14. CASE CriticalEmit(d)
  <2>1. CASE work[d].owed /\ work'[d] = [work[d] EXCEPT !.pc = "marking"]
    <3>1. Announcing(d) /\ work[d].pc = "emit" /\ Emit(d)
      BY <1>14, <2>1 DEF CriticalEmit, At, Announcing
    <3>2. AnnouncesTo(d)'
      BY <1>2, <1>3, <2>1, <3>1, AnnounceEmitted
    <3>3. /\ work'[d].pc = "marking" /\ work'[d].except = work[d].except
          /\ work'[d].owed = work[d].owed
      BY <1>1, <2>1 DEF Standing
    <3> QED
      BY <1>6, <1>7, <2>1, <3>2, <3>3
  <2> QED
    BY <1>1, <1>8, <1>14, <2>1, CriticalEmitEffect
<1> QED
  BY <1>9, <1>10, <1>11, <1>12, <1>13, <1>14

\* The operations of a recovery are marked when the current revision has been
\* announced to everybody.
LEMMA DeliveryRecovered ==
  ASSUME Core, OpsInv, NEW d \in Document, DeliveryOf(d), CriticalDelivered(d)
  PROVE  DeliveryOf(d)'
<1>1. Base /\ TypeInv
  BY DEF Core, Base
<1>2. TypeInv' /\ Nothing /\ work'[d] = Idle
  BY <1>1, CriticalDeliveredEffect DEF EndsCritically
<1>3. /\ Busy(d) /\ Head(line[d]).kind = "critical" /\ work[d].pc = "marking"
      /\ db' = db /\ \A s \in Socket : ~Registering(s, d)
  BY DEF CriticalDelivered, At, Registering
<1>4. work[d].owed /\ work[d].except = None
  BY <1>3 DEF DeliveryOf, CarriesOf, CriticalCarries
<1>5. Announcing(d)
  BY <1>3, <1>4 DEF Announcing
<1>6. /\ work[d].rev = db.rev[d]
      /\ d \in db.exists => \A s \in Socket : s \in present[d] /\ SessionActive(s) =>
                              known[s][d] >= work[d].rev \/ s = work[d].except
  BY <1>3, <1>5 DEF DeliveryOf, CarriesOf, AnnouncesTo
<1>7. Remaining(d)
  BY <1>2, NothingWithdraws, WithdrawalRemaining
<1>8. KnownOf(d)'
  <2> SUFFICES ASSUME NEW s \in Socket, s \in present'[d]
               PROVE  known'[s][d] >= 0
    BY DEF KnownOf
  <2>1. s \in present[d] /\ known'[s][d] >= known[s][d] /\ known[s][d] >= 0
    BY <1>3, <1>7 DEF DeliveryOf, KnownOf, Remaining
  <2> QED
    BY <1>1, <1>2, <2>1, KnownTypes
<1>9. ToldOf(d)'
  <2> SUFFICES ASSUME d \in db.exists, NEW o \in Op, NEW s \in Socket,
                      ops'[o].doc = d, ops'[o].delivered, SessionActive(s)', s \in present'[d]
               PROVE  known'[s][d] >= ops'[o].rev
    BY <1>3 DEF ToldOf
  <2>1. s \in present[d] /\ SessionActive(s) /\ known'[s][d] >= known[s][d]
    BY <1>3, <1>7 DEF Remaining, SessionActive
  <2>2. s # None
    BY NoneAssumption
  <2>3. known[s][d] >= db.rev[d]
    BY <1>4, <1>6, <2>1, <2>2
  <2>4. ops[o].doc = d /\ ops'[o].rev = ops[o].rev
    BY CriticalMarks DEF RowStays, RowTold
  <2>5. ops[o].rev <= db.rev[d]
    BY <1>1, <1>2, <2>4, KnownTypes DEF OpsInv
  <2> QED
    BY <1>1, <1>2, <2>1, <2>3, <2>4, <2>5, KnownTypes
<1> QED
  BY <1>2, <1>8, <1>9, IdleCarries DEF DeliveryOf

-----------------------------------------------------------------------------
(* The invariant of the delivery *)

\* The steps of tasks keep the delivery.
LEMMA DeliveryTask ==
  ASSUME Core, OpsInv, GoneInv, DeliveryInv, NEW d \in Document, Serve(d) \/ Fail(d)
  PROVE  DeliveryInv'
<1>1. DeliveryOf(d)'
  <2>1. DeliveryOf(d)
    BY DEF DeliveryInv
  <2>2. CASE Fail(d)
    BY <2>1, <2>2, DeliveryJoin, DeliveryFails
  <2>3. CASE Serve(d)
    BY <2>1, <2>3, DeliveryTell, DeliveryJoin, DeliveryServed, DeliveryProcess, DeliveryBroadcast,
       DeliveryAnswered, DeliveryCritical, DeliveryRecovered DEF Serve
  <2> QED
    BY <2>2, <2>3
<1>2. ASSUME NEW e \in Document, e # d PROVE DeliveryOf(e)'
  BY <1>2, DeliveryElsewhere DEF DeliveryInv
<1> QED
  BY <1>1, <1>2 DEF DeliveryInv

\* Every step keeps the delivery.
LEMMA DeliveryStep ==
  ASSUME Core, OpsInv, GoneInv, DeliveryInv, [Next]_vars
  PROVE  DeliveryInv'
<1>1. Base /\ TypeInv /\ TypeInv'
  BY CoreStep DEF Core, Base
<1>2. CASE \E d \in Document : Serve(d) \/ Fail(d)
  BY <1>2, DeliveryTask
<1>3. CASE ~\E d \in Document : Serve(d) \/ Fail(d)
  <2>1. CASE Crash
    <3>1. /\ \A d \in Document : line'[d] = <<>> /\ work'[d] = Idle /\ present'[d] = {}
      BY <1>1, <2>1, CrashEffect
    <3> QED
      BY <3>1, IdleCarries DEF DeliveryInv, DeliveryOf, KnownOf, ToldOf
  <2>2. CASE ~Crash
    <3>1. Withdrawal /\ \E K \in SUBSET Kinds : Grows(K)
      BY <1>3, <2>2, StepEffect
    <3>2. PICK K \in SUBSET Kinds : Grows(K)
      BY <3>1
    <3>3. RowsKept
      BY <1>3, RowsOther
    <3>4. ASSUME NEW d \in Document PROVE DeliveryOf(d)'
      <4>1. Undisturbed(d) /\ work'[d] = work[d]
        BY <1>1, <3>2, AllUndisturbed DEF Grows
      <4>2. Remaining(d) /\ \A s \in Socket : s \in sock'.room[d] => s \in sock.room[d]
        BY <3>1, WithdrawalRemaining
      <4> QED
        BY <1>1, <3>3, <4>1, <4>2, CalmDocument DEF DeliveryInv, RowsKept, RowsOfKept
    <3> QED
      BY <3>4 DEF DeliveryInv
  <2> QED
    BY <2>1, <2>2
<1> QED
  BY <1>2, <1>3

\* Nothing is delivered, and nobody knows anything, at the start.
LEMMA DeliveryInit ==
  ASSUME Init
  PROVE  GoneInv /\ DeliveryInv
<1>1. /\ \A d \in Document : line[d] = <<>> /\ work[d] = Idle /\ present[d] = {}
      /\ crit = InitialCritical /\ outbox = {}
  BY DEF Init
<1>2. GoneInv
  BY <1>1 DEF GoneInv, InitialCritical, At, Busy
<1> QED
  BY <1>1, <1>2 DEF DeliveryInv, DeliveryOf, KnownOf, ToldOf, CarriesOf, JoinCarries,
     CommandCarries, CriticalCarries, AnnouncesTo, Announcing, Busy

\* GoneInv and DeliveryInv are invariants.
THEOREM DeliveryInvariant == Spec => [](GoneInv /\ DeliveryInv)
<1>1. Init => GoneInv /\ DeliveryInv
  BY DeliveryInit
<1>2. Core /\ OpsInv /\ (GoneInv /\ DeliveryInv) /\ [Next]_vars => (GoneInv /\ DeliveryInv)'
  BY GoneStep, DeliveryStep
<1> QED
  BY <1>1, <1>2, CoreInvariant, OpsInvariant, PTL DEF Spec

\* The delivery of a document, and that a join has its turn, make DeliveredMeansTold.
LEMMA DeliveryTells ==
  ASSUME Core, OpsInv, DeliveryInv
  PROVE  DeliveredMeansTold
<1> SUFFICES ASSUME NEW o \in Op, NEW s \in Socket, ops[o].delivered, SessionActive(s),
                    Authorized(s, ops[o].doc), s \in present[ops[o].doc], sock.joins[s] = <<>>,
                    s # ops[o].untold
             PROVE  known[s][ops[o].doc] >= ops[o].rev
  BY DEF DeliveredMeansTold
<1> DEFINE d == ops[o].doc
<1>1. TypeInv /\ TurnInv
  BY DEF Core, Base
<1>2. d \in Document /\ d \in db.exists
  <2>1. d \in Document \cup {None}
    BY <1>1, RowType
  <2>2. d # None
    BY DEF OpsInv
  <2> QED
    BY <2>1, <2>2 DEF Authorized
<1> HIDE DEF d
<1>3. ~Registering(s, d)
  <2> SUFFICES ASSUME Registering(s, d) PROVE FALSE
    OBVIOUS
  <2>1. Busy(d) /\ Head(line[d]).kind = "join" /\ Caller(d) = s
    BY DEF Registering, At
  <2> QED
    BY <1>1, <1>2, <2>1, JoinCaller
<1>4. ToldOf(d)
  BY <1>2 DEF DeliveryInv, DeliveryOf
<1> QED
  BY <1>2, <1>3, <1>4 DEF ToldOf, d

\* What is marked as delivered is known to every client that is in the document and may
\* be there.
THEOREM DeliveriesAreTold == Spec => []DeliveredMeansTold
  BY CoreInvariant, OpsInvariant, DeliveryInvariant, DeliveryTells, PTL


-----------------------------------------------------------------------------
(* Members who are removed *)

\* A removal of u that has not been published.
BeingRemoved(u) == \E p \in outbox : p.kind = "removed" /\ p.user = u

\* The project has removed u, and the gateway has been told.
ToldOut(u) == u \notin db.member /\ Owner \in db.member /\ ~BeingRemoved(u)

\* The join of s into d has passed the database and may still enter.
Entitled(s, d) ==
  /\ Busy(d) /\ Head(line[d]).kind = "join" /\ Caller(d) = s
  /\ work[d].pc \in {"authorized", "entered", "registered"}
Outside(s, d) == s \notin sock.room[d] /\ ~Entitled(s, d)

\* The fence of u stands until d has been evacuated.
FencedFrom(u, d) ==
  /\ crit.fence[u] # 0 /\ d \in crit.fenceDocs[crit.fence[u]]
  /\ crit.evictions[d][u] = crit.fence[u]

\* Who has been removed is outside, or fenced from what he is in.
FenceInv ==
  \A d \in db.exists, s \in Socket :
    ToldOut(UserOf[s]) => FencedFrom(UserOf[s], d) \/ Outside(s, d)

\* A removal has its number for itself, and reaches every document there still is.
NumbersInv ==
  /\ \A p \in outbox : p.kind = "removed" =>
       p.n > budget.remove /\ db.exists \subseteq p.docs /\ \A u \in User : crit.fence[u] # p.n
  /\ \A p, q \in outbox : p.kind = "removed" /\ q.kind = "removed" /\ p.n = q.n => p = q
  /\ \A u \in User : crit.fence[u] = 0 \/ crit.fence[u] > budget.remove
  /\ \A u, v \in User : crit.fence[u] = crit.fence[v] => u = v \/ crit.fence[u] = 0

\* A project without its owner has been deleted, with its documents.
ProjectInv == Owner \notin db.member => db.exists = {}

\* Whoever is about to receive an event has a document to receive it of, or its
\* deletion is under way.
AllowedOf(d) ==
  Busy(d) /\ work[d].pc = "emit" /\ work[d].allowed # {} =>
    \/ d \in db.exists \/ d \in crit.deleted
    \/ \E p \in outbox : p.kind = "deleted" /\ p.user = None /\ d \in p.docs
AllowedInv == \A d \in Document : AllowedOf(d)

RemovalInv == FenceInv /\ NumbersInv /\ ProjectInv /\ AllowedInv

\* A grant on its way to the gateway has been overtaken by a later removal of the
\* same member, which the gateway has been told already.
GrantOvertaken == \E p \in outbox : p.kind = "granted" /\ ToldOut(p.user)

-----------------------------------------------------------------------------
\* The fences and evictions that a step leaves alone.
FencesKept ==
  crit'.fence = crit.fence /\ crit'.fenceDocs = crit.fenceDocs /\ crit'.evictions = crit.evictions

\* The evictions of d are done: other documents keep their fences.
LEMMA CompletedFences ==
  ASSUME NEW d \in Document, crit \in CritType, NEW c, c = Completed(crit, d),
         crit'.fence = c.fence, crit'.fenceDocs = c.fenceDocs, crit'.evictions = c.evictions
  PROVE  /\ \A u \in User : crit'.fence[u] \in {0, crit.fence[u]}
         /\ \A u \in User, e \in Document : e # d /\ FencedFrom(u, e) => FencedFrom(u, e)'
<1> DEFINE n(u) == crit.evictions[d][u]
           left(m) == IF \E u \in User : n(u) = m THEN crit.fenceDocs[m] \ {d} ELSE crit.fenceDocs[m]
           over(u) == n(u) # 0 /\ crit.fenceDocs[n(u)] # {} /\ left(n(u)) = {}
<1>1. /\ crit.fence \in [User -> Removal] /\ crit.fenceDocs \in [Removals -> SUBSET Document]
      /\ crit.evictions \in [Document -> [User -> Removal]]
  BY DEF CritType
<1>2. /\ crit'.evictions = [crit.evictions EXCEPT ![d] = NoEvictions]
      /\ crit'.fenceDocs = [m \in Removals |-> left(m)]
      /\ crit'.fence = [u \in User |-> IF over(u) /\ crit.fence[u] = n(u) THEN 0 ELSE crit.fence[u]]
  <2>1. DOMAIN crit.fenceDocs = Removals
    BY <1>1
  <2> QED
    BY <2>1 DEF Completed, CritType
<1>3. \A u \in User : crit'.fence[u] \in {0, crit.fence[u]}
  BY <1>2
<1>4. ASSUME NEW u \in User, NEW e \in Document, e # d, FencedFrom(u, e)
      PROVE  FencedFrom(u, e)'
  <2>1. crit.fence[u] \in Removals /\ crit.fence[u] # 0 /\ e \in crit.fenceDocs[crit.fence[u]]
        /\ crit.evictions[e][u] = crit.fence[u]
    BY <1>1, <1>4 DEF FencedFrom, Removal
  <2>2. e \in left(crit.fence[u])
    BY <1>4, <2>1
  <2>3. crit'.fence[u] = crit.fence[u]
    BY <1>2, <2>2
  <2>4. crit'.evictions[e] = crit.evictions[e]
    BY <1>1, <1>2, <1>4
  <2>5. crit'.fenceDocs[crit.fence[u]] = left(crit.fence[u])
    BY <1>2, <2>1
  <2> QED
    BY <2>1, <2>2, <2>3, <2>4, <2>5 DEF FencedFrom
<1> QED
  BY <1>3, <1>4

\* The fences of other users are left alone when one goes up or comes down.
LEMMA FencesOf ==
  ASSUME crit \in CritType, NEW u \in User, NEW n \in Nat, NEW D \in SUBSET Document,
         D # {} => n \in Removals, NEW c, c = Fence(crit, u, n, D),
         crit'.fence = c.fence, crit'.fenceDocs = c.fenceDocs, crit'.evictions = c.evictions
  PROVE  /\ crit'.fence = [crit.fence EXCEPT ![u] = IF D = {} THEN 0 ELSE n]
         /\ \A m \in Removals : crit'.fenceDocs[m] =
              IF m = n THEN D ELSE IF m = crit.fence[u] THEN {} ELSE crit.fenceDocs[m]
         /\ \A d \in Document : crit'.evictions[d] =
              IF d \in D THEN [crit.evictions[d] EXCEPT ![u] = n] ELSE crit.evictions[d]
<1>1. DOMAIN crit.fenceDocs = Removals
  BY DEF CritType
<1> QED
  BY <1>1 DEF Fence, CritType

\* A task publishes nothing and changes no membership.
LEMMA TaskMembers ==
  ASSUME Core, OpsInv, NEW d \in Document, Serve(d) \/ Fail(d)
  PROVE  /\ outbox' = outbox /\ budget'.remove = budget.remove
         /\ db'.member = db.member /\ db'.exists \subseteq db.exists
         /\ ~DeleteTransact(d) => db'.exists = db.exists
<1>1. Base /\ TypeInv
  BY DEF Core, Base
<1>2. outbox' = outbox
  BY DEF Serve, Fail, TellStart, TellEmit, JoinCheck, JoinEnter, JoinRegister, JoinConfirm,
         Authorize, CommandProcess, CommandCurrent, CommandBroadcast, CommandEmit,
         CommandDelivered, LockServed, ReplaceTransact, ReplacePublish, DeleteTransact,
         DeletePublish, CriticalEvict, CriticalDeleted, CriticalAsk, CriticalDecide,
         CriticalCurrent, CriticalEmit, CriticalDelivered
<1>3. budget'.remove = budget.remove
  <2>1. budget \in [Events -> Nat] /\ "remove" \in Events /\ "fail" \in Events /\ "lost" \in Events
    BY <1>1 DEF TypeInv, Events
  <2>2. CASE Fail(d)
    <3>1. Spend("fail") \/ Spend("lost")
      BY <2>2 DEF Fail
    <3> QED
      BY <2>1, <3>1 DEF Spend
  <2>3. CASE ~Fail(d)
    BY <2>3 DEF Serve, TellStart, TellEmit, JoinCheck, JoinEnter, JoinRegister, JoinConfirm,
         Authorize, CommandProcess, CommandCurrent, CommandBroadcast, CommandEmit,
         CommandDelivered, LockServed, ReplaceTransact, ReplacePublish, DeleteTransact,
         DeletePublish, CriticalEvict, CriticalDeleted, CriticalAsk, CriticalDecide,
         CriticalCurrent, CriticalEmit, CriticalDelivered
  <2> QED
    BY <2>2, <2>3
<1>4. CASE CommandProcess(d)
  BY <1>1, <1>2, <1>3, <1>4, CommandProcessEffect
<1>5. CASE ReplaceTransact(d)
  BY <1>1, <1>2, <1>3, <1>5, ReplaceTransactEffect
<1>6. CASE DeleteTransact(d)
  <2>1. {d} \in SUBSET Document
    OBVIOUS
  <2> QED
    BY <1>1, <1>2, <1>3, <1>6, <2>1, DeleteTransactEffect, WithoutDocumentsType
<1>7. CASE ~CommandProcess(d) /\ ~ReplaceTransact(d) /\ ~DeleteTransact(d)
  <2>1. db' = db
    BY <1>7 DEF Serve, Fail, TellStart, TellEmit, JoinCheck, JoinEnter, JoinRegister, JoinConfirm,
         Authorize, CommandCurrent, CommandBroadcast, CommandEmit,
         CommandDelivered, LockServed, ReplacePublish,
         DeletePublish, CriticalEvict, CriticalDeleted, CriticalAsk, CriticalDecide,
         CriticalCurrent, CriticalEmit, CriticalDelivered
  <2> QED
    BY <1>2, <1>3, <2>1
<1> QED
  BY <1>4, <1>5, <1>6, <1>7

\* Only an evacuation touches the fences.
LEMMA TaskFences ==
  ASSUME Core, NEW d \in Document, Serve(d) \/ Fail(d), ~CriticalEvict(d), ~CriticalDeleted(d)
  PROVE  FencesKept
<1>1. Base /\ TypeInv /\ crit \in CritType /\ line \in LineType
  BY DEF Core, Base, TypeInv
<1>2. ASSUME NEW c \in CritType, NEW l \in LineType, l[d] # <<>>, NEW failed \in BOOLEAN,
             EndCritical(c, l, d, failed),
             c.fence = crit.fence, c.fenceDocs = crit.fenceDocs, c.evictions = crit.evictions
      PROVE  FencesKept
  BY <1>1, <1>2, EndCriticalStep DEF FencesKept
<1>3. ASSUME NEW R \in SUBSET Document
      PROVE  LET c == [crit EXCEPT !.recovery = R] IN
             /\ c \in CritType
             /\ c.fence = crit.fence /\ c.fenceDocs = crit.fenceDocs
             /\ c.evictions = crit.evictions
  BY <1>1 DEF CritType
<1>4. ASSUME NEW r \in [Document -> Announcement \cup {None}]
      PROVE  LET c == [crit EXCEPT !.resync = r] IN
             /\ c \in CritType
             /\ c.fence = crit.fence /\ c.fenceDocs = crit.fenceDocs
             /\ c.evictions = crit.evictions
  BY <1>1 DEF CritType
<1>5. crit.recovery \ {d} \in SUBSET Document
  BY <1>1 DEF CritType
<1>6. CASE Fail(d)
  <2>1. CASE Head(line[d]).kind = "critical" /\ EndCritical(crit, line, d, TRUE)
    <3>1. line[d] # <<>>
      BY <1>6 DEF Fail, Busy
    <3> QED
      BY <1>1, <1>2, <2>1, <3>1
  <2> QED
    BY <1>1, <1>6, <2>1, FailEffect DEF FencesKept
<1>7. CASE CriticalDecide(d)
  <2>1. line[d] # <<>>
    BY <1>7 DEF CriticalDecide, At, Busy, ReadyForResync
  <2>2. CASE crit' = crit
    BY <2>2 DEF FencesKept
  <2>3. CASE crit' = [crit EXCEPT !.recovery = @ \ {d}]
    BY <1>1, <2>3 DEF FencesKept, CritType
  <2>4. CASE EndCritical([crit EXCEPT !.recovery = @ \ {d}], line, d, FALSE)
    BY <1>1, <1>2, <1>3, <1>5, <2>1, <2>4
  <2> QED
    BY <1>7, <2>2, <2>3, <2>4 DEF CriticalDecide
<1>8. CASE CriticalEmit(d)
  <2> DEFINE c == IF crit.resync[d] = work[d].change THEN [crit EXCEPT !.resync[d] = None] ELSE crit
  <2>1. line[d] # <<>>
    BY <1>8 DEF CriticalEmit, At, Busy
  <2>2. EmitLine(d) \in LineType /\ EmitLine(d)[d] # <<>>
    <3>1. GrownBy(line, EmitLine(d), {"tell"})
      BY <1>1, EmitLineGrown
    <3> QED
      BY <1>1, <2>1, <3>1, HeadKept DEF GrownBy
  <2>3. /\ c \in CritType
        /\ c.fence = crit.fence /\ c.fenceDocs = crit.fenceDocs /\ c.evictions = crit.evictions
    BY <1>1 DEF CritType
  <2>4. crit' = c \/ EndCritical(c, EmitLine(d), d, FALSE)
    BY <1>8 DEF CriticalEmit
  <2> HIDE DEF c
  <2> QED
    BY <1>2, <2>2, <2>3, <2>4 DEF FencesKept
<1>9. CASE CriticalDelivered(d)
  <2>1. line[d] # <<>>
    BY <1>9 DEF CriticalDelivered, At, Busy
  <2>2. EndCritical([crit EXCEPT !.recovery = @ \ {d}], line, d, FALSE)
    BY <1>9 DEF CriticalDelivered
  <2> QED
    BY <1>1, <1>2, <1>3, <1>5, <2>1, <2>2
<1>10. CASE ReplacePublish(d) \/ DeletePublish(d)
  <2>1. {d} \in SUBSET Document
    OBVIOUS
  <2>2. CASE crit' = crit
    BY <2>2 DEF FencesKept
  <2>3. CASE ReplacePublish(d) /\ crit' # crit
    <3>1. PICK r : r = [crit.resync EXCEPT ![d] = [rev |-> work[d].rev, elements |-> work[d].elements]]
      OBVIOUS
    <3>2. r \in [Document -> Announcement \cup {None}]
      <4>1. work[d].rev \in Revision /\ work[d].elements \in SUBSET Element
        BY <1>1 DEF TypeInv, Standing
      <4> QED
        BY <1>1, <3>1, <4>1 DEF CritType, Announcement
    <3>3. crit' = Scheduling([crit EXCEPT !.resync = r], line, {d})
      BY <2>3, <3>1 DEF ReplacePublish
    <3>4. PICK c : c = [crit EXCEPT !.resync = r]
      OBVIOUS
    <3>5. /\ c \in CritType
          /\ c.fence = crit.fence /\ c.fenceDocs = crit.fenceDocs /\ c.evictions = crit.evictions
      BY <1>4, <3>2, <3>4
    <3> QED
      BY <1>1, <2>1, <3>3, <3>4, <3>5, ScheduledCrit DEF FencesKept
  <2>4. CASE DeletePublish(d)
    <3>1. PICK c : c = GoneFrom(crit, {d})
      OBVIOUS
    <3>2. /\ c \in CritType
          /\ c.fence = crit.fence /\ c.fenceDocs = crit.fenceDocs /\ c.evictions = crit.evictions
      <4>1. c \in CritType /\ c.evictions = crit.evictions
        BY <1>1, <2>1, <3>1, GoneCrit
      <4>2. c.fence = crit.fence /\ c.fenceDocs = crit.fenceDocs
        BY <1>1, <3>1 DEF GoneFrom, CritType
      <4> QED
        BY <4>1, <4>2
    <3>3. crit' = Scheduling(c, line, {d})
      BY <2>4, <3>1 DEF DeletePublish
    <3> QED
      BY <1>1, <2>1, <3>2, <3>3, ScheduledCrit DEF FencesKept
  <2> QED
    BY <1>10, <2>2, <2>3, <2>4
<1>11. CASE ~(Fail(d) \/ CriticalDecide(d) \/ CriticalEmit(d) \/ CriticalDelivered(d)
             \/ ReplacePublish(d) \/ DeletePublish(d))
  <2>1. crit' = crit
    BY <1>11 DEF Serve, TellStart, TellEmit, JoinCheck, JoinEnter, JoinRegister, JoinConfirm,
         Authorize, CommandProcess, CommandCurrent, CommandBroadcast, CommandEmit,
         CommandDelivered, LockServed, ReplaceTransact, DeleteTransact,
         CriticalAsk, CriticalCurrent
  <2> QED
    BY <2>1 DEF FencesKept
<1> QED
  BY <1>6, <1>7, <1>8, <1>9, <1>10, <1>11

\* Nobody who has been removed comes in: a join passes the database only with access.
LEMMA OutsideTask ==
  ASSUME Core, NEW d \in Document, Serve(d) \/ Fail(d),
         NEW s \in Socket, NEW e \in Document, Outside(s, e), UserOf[s] \notin db.member
  PROVE  Outside(s, e)'
<1>1. Base /\ TypeInv
  BY DEF Core, Base
<1>2. TypeInv' /\ Moves(d) /\ Busy(d)
  BY <1>1, TaskEffect
<1>3. s \notin sock'.room[e]
  <2>1. CASE JoinEnter(d)
    <3>1. At(d, "join", "authorized")
      BY <2>1 DEF JoinEnter
    <3>2. CASE Nothing
      BY <3>2 DEF Nothing, Withdrawn, Outside
    <3>3. CASE sock' = [sock EXCEPT !.room[d] = @ \cup {Caller(d)}]
      <4>1. ~(e = d /\ Caller(d) = s)
        BY <3>1 DEF Outside, Entitled, At
      <4>2. sock.room \in [Document -> SUBSET Socket] /\ sock \in SockType
        BY <1>1 DEF TypeInv, SockType
      <4>3. s \notin sock.room[e]
        BY DEF Outside
      <4> QED
        BY <3>3, <4>1, <4>2, <4>3 DEF SockType
    <3> QED
      BY <1>1, <2>1, <3>2, <3>3, JoinEnterEffect
  <2>2. CASE JoinRegister(d)
    <3>1. CASE Withdrawn({Caller(d)}, {d})
      BY <3>1 DEF Withdrawn, Outside
    <3>2. CASE sock' = [sock EXCEPT !.joined[Caller(d)] = @ \cup {d},
                                    !.pending[Caller(d)] = @ \ {d}]
      <4>1. sock'.room = sock.room
        BY <1>1, <3>2 DEF TypeInv, SockType
      <4> QED
        BY <4>1 DEF Outside
    <3> QED
      BY <1>1, <2>2, <3>1, <3>2, JoinRegisterEffect
  <2>3. CASE ~JoinEnter(d) /\ ~JoinRegister(d)
    <3>1. Withdrawal
      BY <1>1, <2>3, TaskWithdraws
    <3> QED
      BY <3>1, WithdrawalRemaining DEF Outside
  <2> QED
    BY <2>1, <2>2, <2>3
<1>4. ASSUME Entitled(s, e)'
      PROVE  FALSE
  <2>1. CASE e # d
    <3>1. line'[e] = line[e] /\ work'[e] = work[e]
      BY <1>2, <2>1 DEF Moves, Ordinary, GoesOn, Ends, EndsCritically, Elsewhere
    <3> QED
      BY <1>4, <3>1 DEF Entitled, Outside, Busy, Caller
  <2>2. CASE e = d
    <3>1. work'[d] # Idle
      BY <1>4, <2>2, IdleStanding DEF Entitled
    <3>2. Head(line'[d]) = Head(line[d])
      <4>1. GoesOn(d)
        BY <1>2, <3>1 DEF Moves, Ordinary, Ends, EndsCritically
      <4> QED
        BY <1>1, <1>2, <4>1, HeadGoesOn
    <3>3. Head(line[d]).kind = "join" /\ Caller(d) = s
      BY <1>4, <2>2, <3>2 DEF Entitled, Caller
    <3>4. work[d].pc \notin {"authorized", "entered", "registered"}
      BY <1>2, <2>2, <3>3 DEF Outside, Entitled
    <3>5. ~Fail(d)
      BY <1>1, <3>1, FailEffect
    <3>6. JoinCheck(d)
      BY <3>3, <3>4, <3>5
         DEF Serve, TellStart, TellEmit, JoinEnter, JoinRegister, JoinConfirm,
             Authorize, CommandProcess, CommandCurrent, CommandBroadcast, CommandEmit,
             CommandDelivered, LockServed, ReplaceTransact, ReplacePublish, DeleteTransact,
             DeletePublish, CriticalEvict, CriticalDeleted, CriticalAsk, CriticalDecide,
             CriticalCurrent, CriticalEmit, CriticalDelivered, ReadyForResync, At
    <3>7. ~Authorized(s, d)
      BY DEF Authorized
    <3>8. work' = [work EXCEPT ![d] = Idle]
      BY <3>3, <3>6, <3>7 DEF JoinCheck, JoinFails, Done, Goto
    <3> QED
      BY <1>1, <3>1, <3>8 DEF TypeInv
  <2> QED
    BY <2>1, <2>2
<1> QED
  BY <1>3, <1>4 DEF Outside

\* Nobody comes in outside the lines either.
LEMMA OutsideRest ==
  ASSUME Core, NEW K, Grows(K), Withdrawal,
         NEW s \in Socket, NEW e \in Document, Outside(s, e)
  PROVE  Outside(s, e)'
<1>1. TypeInv /\ Undisturbed(e) /\ work'[e] = work[e]
  BY AllUndisturbed DEF Core, Base, Grows
<1>2. s \notin sock'.room[e]
  BY WithdrawalRemaining DEF Outside
<1>3. ASSUME Entitled(s, e)'
      PROVE  FALSE
  <2>1. PICK pc : pc = work'[e].pc
    OBVIOUS
  <2>2. pc # "start" /\ At(e, "join", pc)' /\ pc \in {"authorized", "entered", "registered"}
    BY <1>3, <2>1 DEF Entitled, At
  <2>3. At(e, "join", pc) /\ Head(line'[e]) = Head(line[e])
    BY <1>1, <2>2, StoodBefore
  <2> QED
    BY <1>3, <2>2, <2>3 DEF Entitled, At, Caller, Outside
<1> QED
  BY <1>2, <1>3 DEF Outside

\* The evacuation of a document takes out whoever is fenced from it.
LEMMA EvictedOut ==
  ASSUME Core, NEW d \in Document, CriticalEvict(d),
         NEW s \in Socket, FencedFrom(UserOf[s], d)
  PROVE  Outside(s, d)'
<1>1. Base /\ TypeInv /\ UserOf[s] \in User
  BY SocketAssumption DEF Core, Base
<1>2. PICK F : F = {r \in sock.room[d] : crit.evictions[d][UserOf[r]] # 0 /\ Fenced(r, d)}
  OBVIOUS
<1>3. sock' = SockWithout(F, d)
  BY <1>2 DEF CriticalEvict
<1>4. At(d, "critical", "start")
  BY DEF CriticalEvict
<1>5. F \in SUBSET Socket
  BY <1>1, <1>2, RoomSockets DEF TypeInv
<1>6. s \in sock.room[d] => s \in F
  <2> SUFFICES ASSUME s \in sock.room[d] PROVE s \in F
    OBVIOUS
  <2>1. d \in sock.joined[s]
    BY <1>1, <1>4 DEF Base, RoomInv, Entering, At
  <2>2. crit.evictions[d][UserOf[s]] # 0 /\ Fenced(s, d)
    BY <2>1 DEF FencedFrom, Fenced, UserFenced
  <2> QED
    BY <1>2, <2>2
<1>7. s \notin sock'.room[d]
  BY <1>1, <1>3, <1>5, <1>6, WithoutRoom DEF TypeInv
<1>8. work'[d].pc = "evicted"
  BY <1>1, CriticalEvictEffect, IdleStanding DEF Standing
<1> QED
  BY <1>7, <1>8 DEF Outside, Entitled

\* FenceInv through the step of a task.
LEMMA FenceTask ==
  ASSUME Core, OpsInv, GoneInv, FenceInv, NEW d \in Document, Serve(d) \/ Fail(d)
  PROVE  /\ FenceInv'
         /\ \A u \in User : crit'.fence[u] \in {0, crit.fence[u]}
<1>1. Base /\ TypeInv /\ crit \in CritType
  BY DEF Core, Base, TypeInv
<1>2. outbox' = outbox /\ db'.member = db.member /\ db'.exists \subseteq db.exists
  BY TaskMembers
<1>3. /\ \A u \in User : crit'.fence[u] \in {0, crit.fence[u]}
      /\ \A u \in User, e \in Document :
           FencedFrom(u, e) => FencedFrom(u, e)' \/ (e = d /\ (CriticalEvict(d) \/ CriticalDeleted(d)))
  <2>1. CASE CriticalEvict(d)
    <3>1. PICK c : c = Completed(crit, d)
      OBVIOUS
    <3>2. crit' = c
      BY <2>1, <3>1 DEF CriticalEvict
    <3> QED
      BY <1>1, <2>1, <3>1, <3>2, CompletedFences
  <2>2. CASE CriticalDeleted(d)
    <3>1. PICK c : c = IF work[d].pc = "start" THEN Completed(crit, d) ELSE crit
      OBVIOUS
    <3>2. c \in CritType
      BY <1>1, <3>1, CompletedCrit
    <3>3. PICK g : g = [c EXCEPT !.deleted = @ \ {d}, !.recovery = @ \ {d}]
      OBVIOUS
    <3>4. /\ g \in CritType
          /\ g.fence = c.fence /\ g.fenceDocs = c.fenceDocs /\ g.evictions = c.evictions
      BY <3>2, <3>3 DEF CritType
    <3>5. PICK R : R = sock.room[d]
      OBVIOUS
    <3>6. PICK l : l = Notify(line, d, Notices(held, R, d) + (IF Unlock(held, R, d)[d] = NoLocks THEN 0 ELSE 1))
      OBVIOUS
    <3>7. EndCritical(g, l, d, FALSE)
      BY <2>2, <3>1, <3>3, <3>5, <3>6 DEF CriticalDeleted
    <3>8. l \in LineType /\ l[d] # <<>>
      <4>1. line[d] # <<>> /\ line \in LineType
        BY <1>1, <2>2 DEF CriticalDeleted, At, Busy, TypeInv
      <4>2. R \in SUBSET Socket
        BY <1>1, <3>5, RoomSockets DEF TypeInv
      <4>3. Notices(held, R, d) \in Nat
        BY <4>2, NoticesNat
      <4>4. PICK n \in Nat : l = Notify(line, d, n)
        BY <3>6, <4>3
      <4>5. GrownBy(line, l, {"tell"})
        BY <4>1, <4>4, NotifyLine
      <4> QED
        BY <4>1, <4>5, HeadKept DEF GrownBy
    <3>9. crit'.fence = c.fence /\ crit'.fenceDocs = c.fenceDocs /\ crit'.evictions = c.evictions
      BY <1>1, <3>4, <3>7, <3>8, EndCriticalStep
    <3>10. CASE work[d].pc = "start"
      BY <1>1, <2>2, <3>1, <3>9, <3>10, CompletedFences
    <3>11. CASE work[d].pc # "start"
      <4>1. FencesKept
        BY <3>1, <3>9, <3>11 DEF FencesKept
      <4> QED
        BY <4>1 DEF FencesKept, FencedFrom
    <3> QED
      BY <3>10, <3>11
  <2>3. CASE ~CriticalEvict(d) /\ ~CriticalDeleted(d)
    BY <2>3, TaskFences DEF FencesKept, FencedFrom
  <2> QED
    BY <2>1, <2>2, <2>3
<1>4. ASSUME NEW e \in db'.exists, NEW s \in Socket, ToldOut(UserOf[s])'
      PROVE  FencedFrom(UserOf[s], e)' \/ Outside(s, e)'
  <2>1. ToldOut(UserOf[s]) /\ e \in db.exists /\ e \in Document /\ UserOf[s] \in User
    BY <1>1, <1>2, <1>4, SocketAssumption DEF ToldOut, BeingRemoved, TypeInv, DatabaseType
  <2>2. CASE Outside(s, e)
    BY <2>1, <2>2, OutsideTask DEF ToldOut
  <2>3. CASE FencedFrom(UserOf[s], e)
    <3>1. CASE e = d /\ CriticalEvict(d)
      BY <2>3, <3>1, EvictedOut
    <3>2. ~(e = d /\ CriticalDeleted(d))
      BY <2>1 DEF CriticalDeleted, GoneInv
    <3> QED
      BY <1>3, <2>1, <2>3, <3>1, <3>2
  <2> QED
    BY <2>1, <2>2, <2>3 DEF FenceInv
<1> QED
  BY <1>3, <1>4 DEF FenceInv

\* A project event: who leaves the project is being removed.
LEMMA FenceProject ==
  ASSUME Core, FenceInv, Project
  PROVE  FenceInv'
<1>1. Base /\ TypeInv /\ {} \in SUBSET Document
  BY DEF Core, Base
<1>2. UNCHANGED <<sock, line, work, crit>>
  BY DEF Project, RemoveMember, GrantMember, DeleteProject, RevokeSession
<1>3. ASSUME NEW e \in db'.exists, NEW s \in Socket, ToldOut(UserOf[s])'
      PROVE  FencedFrom(UserOf[s], e)' \/ Outside(s, e)'
  <2>1. e \in db.exists /\ ToldOut(UserOf[s])
    <3>1. CASE \E u \in User : RemoveMember(u)
      <4>1. PICK u \in User : RemoveMember(u)
        BY <3>1
      <4>2. PICK c : c = Change("removed", u, budget.remove, db.exists, None)
        OBVIOUS
      <4>3. c \in outbox' /\ outbox \subseteq outbox' /\ c.kind = "removed" /\ c.user = u
        BY <4>1, <4>2 DEF RemoveMember, Commits, Change
      <4>4. db'.exists = db.exists /\ db'.member = db.member \ {u}
        BY <1>1, <4>1 DEF RemoveMember, TypeInv, DatabaseType
      <4> QED
        BY <1>3, <4>3, <4>4 DEF ToldOut, BeingRemoved
    <3>2. CASE \E u \in User : GrantMember(u)
      <4>1. PICK u \in User : GrantMember(u)
        BY <3>2
      <4>2. outbox \subseteq outbox' /\ Owner \in db.member
        BY <4>1 DEF GrantMember, Commits
      <4>4. db'.exists = db.exists /\ db'.member = db.member \cup {u}
        BY <1>1, <4>1 DEF GrantMember, TypeInv, DatabaseType
      <4> QED
        BY <1>3, <4>2, <4>4 DEF ToldOut, BeingRemoved
    <3>3. CASE DeleteProject
      <4>1. db'.member = {}
        BY <1>1, <3>3 DEF DeleteProject, TypeInv, DatabaseType
      <4> QED
        BY <1>3, <4>1 DEF ToldOut
    <3>4. CASE \E x \in Session : RevokeSession(x)
      <4>1. outbox \subseteq outbox' /\ db'.exists = db.exists /\ db'.member = db.member
        BY <1>1, <3>4 DEF RevokeSession, Commits, TypeInv, DatabaseType
      <4> QED
        BY <1>3, <4>1 DEF ToldOut, BeingRemoved
    <3> QED
      BY <3>1, <3>2, <3>3, <3>4 DEF Project
  <2>2. FencedFrom(UserOf[s], e) \/ Outside(s, e)
    BY <2>1 DEF FenceInv
  <2> QED
    BY <1>2, <2>2 DEF FencedFrom, Outside, Entitled, Busy, Caller
<1> QED
  BY <1>3 DEF FenceInv

\* The fence of u is replaced by the fence n until the documents D are evacuated.
Refences(u, n, D) ==
  /\ u \in User /\ (D # {} => n \in Removals)
  /\ crit'.fence = Fence(crit, u, n, D).fence
  /\ crit'.fenceDocs = Fence(crit, u, n, D).fenceDocs
  /\ crit'.evictions = Fence(crit, u, n, D).evictions

\* What a publication does to the fences.
LEMMA PublishedFences ==
  ASSUME Core, NEW p \in outbox, Publish(p)
  PROVE  /\ p.docs \in SUBSET Document /\ p.n \in Nat
         /\ p.kind = "granted" => Refences(p.user, 0, {})
         /\ p.kind = "removed" => Refences(p.user, p.n, p.docs)
         /\ p.kind \notin {"granted", "removed"} => FencesKept
<1>1. TypeInv /\ crit \in CritType /\ line \in LineType /\ p \in ChangeType
  BY DEF Core, Base, TypeInv
<1>2. p.docs \in SUBSET Document /\ p.n \in Nat
  BY <1>1 DEF ChangeType, Removals
<1>3. CASE p.kind = "granted"
  <2>1. crit' = Fence(crit, p.user, 0, {})
    BY <1>3 DEF Publish
  <2>2. p.user \in User
    BY <1>1, <1>3 DEF TypeInv
  <2> QED
    BY <1>2, <1>3, <2>1, <2>2 DEF Refences
<1>4. CASE p.kind = "removed"
  <2>1. p.user \in User /\ p.n \in Removals
    BY <1>1, <1>4 DEF TypeInv
  <2>2. PICK c : c = Fence(crit, p.user, p.n, p.docs)
    OBVIOUS
  <2>3. c \in CritType
    BY <1>1, <1>2, <2>1, <2>2, FenceCrit
  <2>4. crit' = Scheduling(c, line, p.docs)
    BY <1>4, <2>2 DEF Publish, Schedule
  <2>5. crit'.fence = c.fence /\ crit'.fenceDocs = c.fenceDocs /\ crit'.evictions = c.evictions
    BY <1>1, <1>2, <2>3, <2>4, ScheduledCrit
  <2> QED
    BY <1>2, <1>4, <2>1, <2>2, <2>5 DEF Refences
<1>5. CASE p.kind = "deleted"
  <2>1. PICK c : c = GoneFrom(crit, p.docs)
    OBVIOUS
  <2>2. /\ c \in CritType
        /\ c.fence = crit.fence /\ c.fenceDocs = crit.fenceDocs /\ c.evictions = crit.evictions
    <3>1. c \in CritType /\ c.evictions = crit.evictions
      BY <1>1, <1>2, <2>1, GoneCrit
    <3>2. c.fence = crit.fence /\ c.fenceDocs = crit.fenceDocs
      BY <1>1, <2>1 DEF GoneFrom, CritType
    <3> QED
      BY <3>1, <3>2
  <2>3. crit' = Scheduling(c, line, p.docs)
    BY <1>5, <2>1 DEF Publish, Schedule
  <2> QED
    BY <1>1, <1>2, <1>5, <2>2, <2>3, ScheduledCrit DEF FencesKept
<1>6. CASE p.kind = "revoked"
  <2>1. crit' = crit
    BY <1>6 DEF Publish
  <2> QED
    BY <1>2, <1>6, <2>1 DEF FencesKept
<1> QED
  BY <1>1, <1>3, <1>4, <1>5, <1>6 DEF ChangeType

\* FenceInv through a publication, unless it is of a grant that was overtaken.
LEMMA FencePublish ==
  ASSUME Core, FenceInv, NumbersInv, ~GrantOvertaken, NEW p \in outbox, Publish(p)
  PROVE  FenceInv'
<1>1. Base /\ TypeInv /\ crit \in CritType /\ UserOf \in [Socket -> User]
  BY SocketAssumption DEF Core, Base, TypeInv
<1>2. db' = db /\ outbox' = outbox \ {p}
  BY DEF Publish
<1>3. Grows({"critical"}) /\ Withdrawal
  <2>1. {} \in SUBSET Socket /\ {} \in SUBSET Document
    OBVIOUS
  <2> QED
    BY <1>1, <2>1, PublishEffect DEF Nothing, Withdrawal
<1>4. ASSUME NEW e \in db'.exists, NEW s \in Socket, ToldOut(UserOf[s])'
      PROVE  FencedFrom(UserOf[s], e)' \/ Outside(s, e)'
  <2>1. PICK u \in User : u = UserOf[s]
    BY <1>1
  <2>2. e \in db.exists /\ e \in Document /\ u \notin db.member /\ Owner \in db.member
    BY <1>1, <1>2, <1>4, <2>1 DEF ToldOut, TypeInv, DatabaseType
  <2>3. CASE p.kind \notin {"granted", "removed"}
    <3>1. ToldOut(u)
      BY <1>2, <1>4, <2>1, <2>3 DEF ToldOut, BeingRemoved
    <3>2. FencesKept
      BY <2>3, PublishedFences
    <3>3. CASE FencedFrom(u, e)
      BY <2>1, <3>2, <3>3 DEF FencesKept, FencedFrom
    <3>4. CASE Outside(s, e)
      BY <1>3, <2>2, <3>4, OutsideRest
    <3> QED
      BY <2>1, <2>2, <3>1, <3>3, <3>4 DEF FenceInv
  <2>4. CASE p.kind \in {"granted", "removed"}
    <3>1. PICK D \in SUBSET Document, n \in Nat :
            /\ Refences(p.user, n, D)
            /\ IF p.kind = "granted" THEN D = {} /\ n = 0 ELSE D = p.docs /\ n = p.n
      <4>1. p.docs \in SUBSET Document /\ p.n \in Nat /\ {} \in SUBSET Document /\ 0 \in Nat
        BY PublishedFences
      <4>2. CASE p.kind = "granted"
        BY <4>1, <4>2, PublishedFences
      <4>3. CASE p.kind = "removed"
        BY <4>1, <4>3, PublishedFences
      <4> QED
        BY <2>4, <4>2, <4>3
    <3>2. /\ crit'.fence = [crit.fence EXCEPT ![p.user] = IF D = {} THEN 0 ELSE n]
          /\ \A m \in Removals : crit'.fenceDocs[m] =
               IF m = n THEN D ELSE IF m = crit.fence[p.user] THEN {} ELSE crit.fenceDocs[m]
          /\ \A d \in Document : crit'.evictions[d] =
               IF d \in D THEN [crit.evictions[d] EXCEPT ![p.user] = n] ELSE crit.evictions[d]
      BY <1>1, <3>1, FencesOf DEF Refences
    <3>3. /\ p.user \in User /\ crit.fence \in [User -> Removal] /\ crit.evictions \in [Document -> [User -> Removal]]
          /\ (D # {} => n \in Removals) /\ 0 \notin Removals
      BY <1>1, <3>1 DEF CritType, Removals, Refences
    <3>4. CASE u = p.user
      <4>1. p.kind = "removed"
        <5>1. ASSUME p.kind = "granted" PROVE FALSE
          <6>1. ToldOut(u)
            BY <1>2, <1>4, <2>1, <5>1 DEF ToldOut, BeingRemoved
          <6> QED
            BY <3>4, <5>1, <6>1 DEF GrantOvertaken
        <5> QED
          BY <2>4, <5>1
      <4>2. e \in D /\ n = p.n /\ D = p.docs
        BY <2>2, <3>1, <4>1 DEF NumbersInv
      <4>3. n \in Removals /\ n # 0
        BY <3>1, <3>3, <4>2
      <4>4. crit'.fence[u] = n
        BY <3>2, <3>3, <3>4, <4>2
      <4>5. e \in crit'.fenceDocs[n]
        BY <3>2, <4>2, <4>3
      <4>6. crit'.evictions[e][u] = n
        <5>1. crit'.evictions[e] = [crit.evictions[e] EXCEPT ![u] = n]
          BY <2>2, <3>2, <3>4, <4>2
        <5>2. crit.evictions[e] \in [User -> Removal]
          BY <2>2, <3>3
        <5> QED
          BY <5>1, <5>2
      <4> QED
        BY <2>1, <4>3, <4>4, <4>5, <4>6 DEF FencedFrom
    <3>5. CASE u # p.user
      <4>1. ToldOut(u)
        BY <1>2, <1>4, <2>1, <3>5 DEF ToldOut, BeingRemoved
      <4>2. CASE Outside(s, e)
        BY <1>3, <2>2, <4>2, OutsideRest
      <4>3. CASE FencedFrom(u, e)
        <5>1. PICK m : m = crit.fence[u]
          OBVIOUS
        <5>2. m \in Removals /\ m # 0 /\ e \in crit.fenceDocs[m] /\ crit.evictions[e][u] = m
          BY <3>3, <4>3, <5>1 DEF FencedFrom, Removal
        <5>3. m # n
          BY <2>4, <3>1, <5>1, <5>2 DEF NumbersInv
        <5>4. m # crit.fence[p.user]
          BY <3>3, <3>5, <5>1, <5>2 DEF NumbersInv
        <5>5. crit'.fence[u] = m
          BY <3>2, <3>3, <3>5, <5>1
        <5>6. e \in crit'.fenceDocs[m]
          BY <3>2, <5>2, <5>3, <5>4
        <5>7. crit'.evictions[e][u] = m
          <6>1. crit.evictions[e] \in [User -> Removal]
            BY <2>2, <3>3
          <6>2. crit'.evictions[e] = crit.evictions[e]
                  \/ crit'.evictions[e] = [crit.evictions[e] EXCEPT ![p.user] = n]
            BY <2>2, <3>2
          <6> QED
            BY <3>5, <5>2, <6>1, <6>2
        <5> QED
          BY <2>1, <5>2, <5>5, <5>6, <5>7 DEF FencedFrom
      <4> QED
        BY <2>1, <2>2, <4>1, <4>2, <4>3 DEF FenceInv
    <3> QED
      BY <3>4, <3>5
  <2> QED
    BY <2>3, <2>4
<1> QED
  BY <1>4 DEF FenceInv

\* A step of a client or of housekeeping other than a publication.
Aside ==
  /\ ~\E d \in Document : Serve(d) \/ Fail(d)
  /\ ~\E p \in outbox : Publish(p)
  /\ ~Project /\ ~Crash

\* Such a step leaves fences, memberships and publications alone.
LEMMA AsideKeeps ==
  ASSUME Core, [Next]_vars, Aside
  PROVE  /\ db' = db /\ outbox' = outbox /\ budget'.remove = budget.remove
         /\ FencesKept /\ crit'.deleted = crit.deleted
<1>1. Base /\ TypeInv /\ crit \in CritType /\ line \in LineType
  BY DEF Core, Base, TypeInv
<1>2. /\ budget \in [Events -> Nat]
      /\ {"join", "drop", "command", "resend", "lock", "expire", "put", "delete"} \subseteq Events
      /\ "remove" \in Events
  BY <1>1 DEF TypeInv, Events
<1>3. ASSUME NEW k \in Events, k # "remove", Spend(k)
      PROVE  budget'.remove = budget.remove
  BY <1>2, <1>3 DEF Spend
<1>4. CASE \E d \in Document : RetryTimer(d)
  <2>1. PICK d \in Document : RetryTimer(d)
    BY <1>4
  <2>2. PICK c : c = [crit EXCEPT !.retry = @ \ {d}]
    OBVIOUS
  <2>3. /\ c \in CritType /\ c.deleted = crit.deleted
        /\ c.fence = crit.fence /\ c.fenceDocs = crit.fenceDocs /\ c.evictions = crit.evictions
    BY <1>1, <2>2 DEF CritType
  <2>4. PICK D : D = IF HasCriticalWork(c, d) THEN {d} ELSE {}
    OBVIOUS
  <2>5. D \in SUBSET Document /\ crit' = Scheduling(c, line, D)
    BY <2>1, <2>2, <2>4 DEF RetryTimer, Schedule
  <2>6. UNCHANGED <<db, outbox, budget>>
    BY <2>1 DEF RetryTimer
  <2> QED
    BY <1>1, <2>3, <2>5, <2>6, ScheduledCrit DEF FencesKept
<1>5. CASE ScanAnswer
  <2>1. PICK c : c = [crit EXCEPT !.recovery = @ \cup crit.scan, !.scan = {}]
    OBVIOUS
  <2>2. /\ c \in CritType /\ c.deleted = crit.deleted
        /\ c.fence = crit.fence /\ c.fenceDocs = crit.fenceDocs /\ c.evictions = crit.evictions
    BY <1>1, <2>1 DEF CritType
  <2>3. crit.scan \in SUBSET Document /\ crit' = Scheduling(c, line, crit.scan)
    BY <1>1, <1>5, <2>1 DEF ScanAnswer, Schedule, CritType
  <2>4. UNCHANGED <<db, outbox, budget>>
    BY <1>5 DEF ScanAnswer
  <2> QED
    BY <1>1, <2>2, <2>3, <2>4, ScheduledCrit DEF FencesKept
<1>6. CASE ScanAsk
  BY <1>1, <1>6 DEF ScanAsk, FencesKept, CritType
<1>7. CASE ~((\E d \in Document : RetryTimer(d)) \/ ScanAnswer \/ ScanAsk)
  <2> DEFINE Kept == crit' = crit /\ outbox' = outbox /\ db' = db
             Own == budget' = budget
                    \/ \E k \in {"join", "drop", "command", "resend", "lock", "expire", "put", "delete"} :
                         Spend(k)
  <2>a. Clients => Kept /\ Own
    BY ClientKeeps
  <2>b. (\E s \in Socket : BeginJoin(s) \/ Expel(s)) => Kept /\ Own
    BY DEF BeginJoin, Expel, Leaves
  <2>c. (\E d \in Document, x \in Element : LockExpires(d, x)) => Kept /\ Own
    BY DEF LockExpires
  <2>d. UNCHANGED vars => Kept /\ Own
    BY DEF vars
  <2>e. \/ Clients \/ \E s \in Socket : BeginJoin(s) \/ Expel(s)
        \/ \E d \in Document, x \in Element : LockExpires(d, x)
        \/ UNCHANGED vars
    BY <1>7 DEF Next, Housekeeping, Mishaps, Aside
  <2>1. Kept
    BY <2>a, <2>b, <2>c, <2>d, <2>e
  <2>2. Own
    BY <2>a, <2>b, <2>c, <2>d, <2>e
  <2>3. budget'.remove = budget.remove
    BY <1>2, <1>3, <2>2
  <2> QED
    BY <2>1, <2>3 DEF FencesKept
<1> QED
  BY <1>4, <1>5, <1>6, <1>7

\* A crash empties the rooms, the lines and the fences.
LEMMA CrashEmpties ==
  ASSUME Core, Crash
  PROVE  /\ \A d \in Document : sock'.room[d] = {} /\ line'[d] = <<>>
         /\ outbox' = {} /\ db' = db /\ budget'.remove = budget.remove
         /\ \A u \in User : crit'.fence[u] = 0
<1>1. TypeInv
  BY DEF Core, Base
<1>2. /\ \A d \in Document : InitialSockets.room[d] = {}
      /\ \A d \in Document : [InitialSockets EXCEPT !.connected = {}].room[d] = {}
  BY DEF InitialSockets
<1>3. budget'.remove = budget.remove
  <2>1. budget \in [Events -> Nat] /\ "crash" \in Events /\ "remove" \in Events
    BY <1>1 DEF TypeInv, Events
  <2> QED
    BY <2>1 DEF Crash, Spend
<1>4. \A u \in User : InitialCritical.fence[u] = 0
  BY DEF InitialCritical
<1> QED
  BY <1>2, <1>3, <1>4 DEF Crash

\* FenceInv is kept, as long as no grant is overtaken.
LEMMA FenceStep ==
  ASSUME Core, OpsInv, GoneInv, FenceInv, NumbersInv, ~GrantOvertaken, [Next]_vars
  PROVE  FenceInv'
<1>1. TypeInv
  BY DEF Core, Base
<1>2. CASE \E d \in Document : Serve(d) \/ Fail(d)
  BY <1>2, FenceTask
<1>3. CASE \E p \in outbox : Publish(p)
  BY <1>3, FencePublish
<1>4. CASE Project
  BY <1>4, FenceProject
<1>5. CASE Crash
  <2>1. db' = db /\ \A d \in Document : sock'.room[d] = {} /\ line'[d] = <<>>
    BY <1>5, CrashEmpties
  <2>2. \A d \in db'.exists : d \in Document
    BY <1>1, <2>1 DEF TypeInv, DatabaseType
  <2> QED
    BY <2>1, <2>2 DEF FenceInv, Outside, Entitled, Busy
<1>6. CASE Aside
  <2>1. db' = db /\ outbox' = outbox /\ FencesKept
    BY <1>6, AsideKeeps
  <2>2. Withdrawal /\ \E K \in SUBSET Kinds : Grows(K)
    BY <1>6, StepEffect DEF Aside
  <2>3. ASSUME NEW e \in db'.exists, NEW s \in Socket, ToldOut(UserOf[s])'
        PROVE  FencedFrom(UserOf[s], e)' \/ Outside(s, e)'
    <3>1. ToldOut(UserOf[s]) /\ e \in db.exists /\ e \in Document
      BY <1>1, <2>1, <2>3 DEF ToldOut, BeingRemoved, TypeInv, DatabaseType
    <3>2. CASE FencedFrom(UserOf[s], e)
      BY <2>1, <3>2 DEF FencesKept, FencedFrom
    <3>3. CASE Outside(s, e)
      BY <2>2, <3>1, <3>3, OutsideRest
    <3> QED
      BY <3>1, <3>2, <3>3 DEF FenceInv
  <2> QED
    BY <2>3 DEF FenceInv
<1> QED
  BY <1>2, <1>3, <1>4, <1>5, <1>6 DEF Aside

\* NumbersInv through a project event: a removal takes the next number.
LEMMA NumbersProject ==
  ASSUME Core, NumbersInv, Project
  PROVE  NumbersInv'
<1>1. TypeInv /\ budget \in [Events -> Nat] /\ {"remove", "grant", "project", "revoke"} \subseteq Events
  BY DEF Core, Base, TypeInv, Events
<1>2. crit'.fence = crit.fence
  BY DEF Project, RemoveMember, GrantMember, DeleteProject, RevokeSession
<1>3. CASE \E u \in User : RemoveMember(u)
  <2>1. PICK u \in User : RemoveMember(u)
    BY <1>3
  <2>2. PICK c : c = Change("removed", u, budget.remove, db.exists, None)
    OBVIOUS
  <2>3. outbox' = outbox \cup {c} /\ c.kind = "removed" /\ c.n = budget.remove /\ c.docs = db.exists
    BY <2>1, <2>2 DEF RemoveMember, Commits, Change
  <2>4. db'.exists = db.exists
    BY <1>1, <2>1 DEF RemoveMember, TypeInv, DatabaseType
  <2>5. budget'.remove \in Nat /\ budget.remove \in Nat /\ budget.remove > budget'.remove
    BY <1>1, <2>1 DEF RemoveMember, Spend
  <2>6. /\ \A p \in outbox : p.kind = "removed" => p.n \in Nat
        /\ \A v \in User : crit.fence[v] \in Nat
    BY <1>1 DEF TypeInv, ChangeType, CritType, Removal, Removals
  <2>7. \A p \in outbox' : p.kind = "removed" =>
          p.n > budget'.remove /\ db'.exists \subseteq p.docs /\ \A v \in User : crit'.fence[v] # p.n
    <3> SUFFICES ASSUME NEW p \in outbox', p.kind = "removed"
                 PROVE  p.n > budget'.remove /\ db'.exists \subseteq p.docs
                        /\ \A v \in User : crit'.fence[v] # p.n
      OBVIOUS
    <3>1. CASE p = c
      <4>1. \A v \in User : crit.fence[v] # budget.remove
        BY <1>1, <2>5, <2>6 DEF NumbersInv, TypeInv, Removals
      <4> QED
        BY <1>2, <2>3, <2>4, <2>5, <3>1, <4>1
    <3>2. CASE p \in outbox
      <4>1. p.n > budget.remove /\ db.exists \subseteq p.docs /\ \A v \in User : crit.fence[v] # p.n
        BY <3>2 DEF NumbersInv
      <4>2. p.n > budget'.remove
        BY <2>5, <2>6, <3>2, <4>1
      <4> QED
        BY <1>2, <2>4, <4>1, <4>2
    <3> QED
      BY <2>3, <3>1, <3>2
  <2>8. \A p, q \in outbox' : p.kind = "removed" /\ q.kind = "removed" /\ p.n = q.n => p = q
    <3>1. \A p \in outbox : p.kind = "removed" => p.n > budget.remove
      BY DEF NumbersInv
    <3>2. \A p \in outbox : p.kind = "removed" => p.n # c.n
      BY <2>3, <2>5, <2>6, <3>1
    <3> QED
      BY <2>3, <3>2 DEF NumbersInv
  <2>9. \A v \in User : crit'.fence[v] = 0 \/ crit'.fence[v] > budget'.remove
    BY <1>2, <2>5, <2>6 DEF NumbersInv
  <2> QED
    BY <1>2, <2>7, <2>8, <2>9 DEF NumbersInv
<1>4. CASE ~\E u \in User : RemoveMember(u)
  <2>1. \E c : outbox' = outbox \cup {c} /\ c.kind # "removed"
    <3>1. CASE \E u \in User : GrantMember(u)
      <4>1. PICK u \in User : GrantMember(u)
        BY <3>1
      <4>2. PICK c : c = Change("granted", u, budget.grant, {}, None)
        OBVIOUS
      <4>3. outbox' = outbox \cup {c} /\ c.kind # "removed"
        BY <4>1, <4>2 DEF GrantMember, Commits, Change
      <4> QED
        BY <4>3
    <3>2. CASE DeleteProject
      <4>1. PICK c : c = Change("deleted", None, 0, db.exists, None) /\ Commits(c)
        BY <3>2 DEF DeleteProject
      <4> QED
        BY <4>1 DEF Commits, Change
    <3>3. CASE \E x \in Session : RevokeSession(x)
      <4>1. PICK x \in Session : RevokeSession(x)
        BY <3>3
      <4>2. PICK c : c = Change("revoked", None, 0, {}, x)
        OBVIOUS
      <4>3. outbox' = outbox \cup {c} /\ c.kind # "removed"
        BY <4>1, <4>2 DEF RevokeSession, Commits, Change
      <4> QED
        BY <4>3
    <3> QED
      BY <1>4, <3>1, <3>2, <3>3 DEF Project
  <2>2. budget'.remove = budget.remove
    BY <1>1, <1>4 DEF Project, GrantMember, DeleteProject, RevokeSession, Spend
  <2>3. db'.exists \subseteq db.exists
    BY <1>1, <1>4 DEF Project, GrantMember, DeleteProject, RevokeSession, TypeInv, DatabaseType
  <2>4. \A p \in outbox' : p.kind = "removed" => p \in outbox
    BY <2>1
  <2> QED
    BY <1>2, <2>2, <2>3, <2>4 DEF NumbersInv
<1> QED
  BY <1>3, <1>4

\* NumbersInv through a publication: a removal hands its number to the fence.
LEMMA NumbersPublish ==
  ASSUME Core, NumbersInv, NEW p \in outbox, Publish(p)
  PROVE  NumbersInv'
<1>1. TypeInv /\ crit \in CritType
  BY DEF Core, Base, TypeInv
<1>2. db' = db /\ outbox' = outbox \ {p} /\ budget' = budget
  BY DEF Publish
<1>3. CASE crit'.fence = crit.fence
  <2>1. \A q \in outbox' : q \in outbox
    BY <1>2
  <2> QED
    BY <1>2, <1>3, <2>1 DEF NumbersInv
<1>4. ASSUME NEW n \in Nat, p.user \in User, crit'.fence = [crit.fence EXCEPT ![p.user] = n],
             n = 0 \/ (p.kind = "removed" /\ n = p.n)
      PROVE  NumbersInv'
  <2>1. crit.fence \in [User -> Removal]
    BY <1>1 DEF CritType
  <2>2. \A u \in User : crit'.fence[u] = IF u = p.user THEN n ELSE crit.fence[u]
    BY <1>4, <2>1
  <2>3. \A q \in outbox' : q.kind = "removed" =>
          q.n > budget.remove /\ db.exists \subseteq q.docs /\ \A u \in User : crit'.fence[u] # q.n
    <3> SUFFICES ASSUME NEW q \in outbox', q.kind = "removed"
                 PROVE  q.n > budget.remove /\ db.exists \subseteq q.docs
                        /\ \A u \in User : crit'.fence[u] # q.n
      OBVIOUS
    <3>1. q \in outbox /\ q # p
      BY <1>2
    <3>2. q.n > budget.remove /\ db.exists \subseteq q.docs /\ \A u \in User : crit.fence[u] # q.n
      BY <3>1 DEF NumbersInv
    <3>3. n # q.n
      <4>1. q.n \in Removals /\ 0 \notin Removals
        BY <1>1, <3>1 DEF TypeInv, Removals
      <4>2. CASE n = 0
        BY <4>1, <4>2
      <4>3. CASE p.kind = "removed" /\ n = p.n
        BY <3>1, <4>3 DEF NumbersInv
      <4> QED
        BY <1>4, <4>2, <4>3
    <3> QED
      BY <2>2, <3>2, <3>3
  <2>4. n = 0 \/ (n > budget.remove /\ \A u \in User : crit.fence[u] # n)
    <3>1. CASE p.kind = "removed" /\ n = p.n
      BY <3>1 DEF NumbersInv
    <3> QED
      BY <1>4, <3>1
  <2>5. \A u \in User : crit'.fence[u] = 0 \/ crit'.fence[u] > budget.remove
    BY <2>2, <2>4 DEF NumbersInv
  <2>6. \A u, v \in User : crit'.fence[u] = crit'.fence[v] => u = v \/ crit'.fence[u] = 0
    BY <2>2, <2>4 DEF NumbersInv
  <2>7. \A a, b \in outbox' : a.kind = "removed" /\ b.kind = "removed" /\ a.n = b.n => a = b
    BY <1>2 DEF NumbersInv
  <2> QED
    BY <1>2, <2>3, <2>5, <2>6, <2>7 DEF NumbersInv
<1>5. CASE p.kind = "granted"
  <2>1. Refences(p.user, 0, {}) /\ 0 \in Nat /\ {} \in SUBSET Document
    BY <1>5, PublishedFences
  <2>2. crit'.fence = [crit.fence EXCEPT ![p.user] = 0]
    BY <1>1, <2>1, FencesOf DEF Refences
  <2> QED
    BY <1>4, <2>1, <2>2 DEF Refences
<1>6. CASE p.kind = "removed"
  <2>1. Refences(p.user, p.n, p.docs) /\ p.docs \in SUBSET Document /\ p.n \in Nat
    BY <1>6, PublishedFences
  <2>2. crit'.fence = [crit.fence EXCEPT ![p.user] = IF p.docs = {} THEN 0 ELSE p.n]
    BY <1>1, <2>1, FencesOf DEF Refences
  <2>3. CASE p.docs = {}
    <3>1. crit'.fence = [crit.fence EXCEPT ![p.user] = 0]
      BY <2>2, <2>3
    <3> QED
      BY <1>4, <2>1, <3>1 DEF Refences
  <2>4. CASE p.docs # {}
    <3>1. crit'.fence = [crit.fence EXCEPT ![p.user] = p.n]
      BY <2>2, <2>4
    <3> QED
      BY <1>4, <1>6, <2>1, <3>1 DEF Refences
  <2> QED
    BY <2>3, <2>4
<1>7. CASE p.kind \notin {"granted", "removed"}
  BY <1>3, <1>7, PublishedFences DEF FencesKept
<1> QED
  BY <1>5, <1>6, <1>7

\* NumbersInv is kept.
LEMMA NumbersStep ==
  ASSUME Core, OpsInv, GoneInv, FenceInv, NumbersInv, [Next]_vars
  PROVE  NumbersInv'
<1>1. TypeInv
  BY DEF Core, Base
<1>2. ASSUME outbox' = outbox, budget'.remove = budget.remove, db'.exists \subseteq db.exists,
             \A u \in User : crit'.fence[u] \in {0, crit.fence[u]}
      PROVE  NumbersInv'
  <2>1. \A p \in outbox : p.kind = "removed" => p.n # 0
    BY <1>1 DEF TypeInv, Removals
  <2> QED
    BY <1>2, <2>1 DEF NumbersInv
<1>3. CASE \E d \in Document : Serve(d) \/ Fail(d)
  BY <1>2, <1>3, TaskMembers, FenceTask
<1>4. CASE \E p \in outbox : Publish(p)
  BY <1>4, NumbersPublish
<1>5. CASE Project
  BY <1>5, NumbersProject
<1>6. CASE Crash
  BY <1>6, CrashEmpties DEF NumbersInv
<1>7. CASE Aside
  BY <1>2, <1>7, AsideKeeps DEF FencesKept
<1> QED
  BY <1>3, <1>4, <1>5, <1>6, <1>7 DEF Aside

\* ProjectInv is kept: only a deletion takes the owner out.
LEMMA ProjectStep ==
  ASSUME Core, OpsInv, ProjectInv, [Next]_vars
  PROVE  ProjectInv'
<1>1. TypeInv /\ db \in DatabaseType
  BY DEF Core, Base, TypeInv
<1>2. ASSUME Owner \in db.member => Owner \in db'.member, db'.exists \subseteq db.exists
      PROVE  ProjectInv'
  BY <1>2 DEF ProjectInv
<1>3. CASE \E d \in Document : Serve(d) \/ Fail(d)
  BY <1>2, <1>3, TaskMembers
<1>4. CASE Project
  <2>1. CASE DeleteProject
    BY <1>1, <2>1 DEF DeleteProject, ProjectInv, DatabaseType
  <2>2. CASE ~DeleteProject
    BY <1>1, <1>2, <1>4, <2>2 DEF Project, RemoveMember, GrantMember, RevokeSession, DatabaseType
  <2> QED
    BY <2>1, <2>2
<1>5. CASE (\E p \in outbox : Publish(p)) \/ Crash
  BY <1>2, <1>5 DEF Publish, Crash
<1>6. CASE Aside
  BY <1>2, <1>6, AsideKeeps
<1> QED
  BY <1>3, <1>4, <1>5, <1>6 DEF Aside

\* A task takes no other document off the list of the deleted ones.
LEMMA DeletedKept ==
  ASSUME Core, NEW d \in Document, Serve(d) \/ Fail(d), NEW e \in Document, e # d,
         e \in crit.deleted
  PROVE  e \in crit'.deleted
<1>1. Base /\ crit \in CritType
  BY DEF Core, Base, TypeInv
<1>2. CASE CriticalDeleted(d) \/ DeletePublish(d)
  <2>1. crit'.deleted = crit.deleted \ {d} \/ crit'.deleted = crit.deleted \cup {d}
    BY <1>1, <1>2, CriticalDeletedEffect, DeletePublishEffect
  <2> QED
    BY <2>1
<1>3. CASE CriticalEvict(d)
  <2>1. Completed(crit, d).deleted = crit.deleted
    BY <1>1, CompletedCrit
  <2> QED
    BY <1>3, <2>1 DEF CriticalEvict
<1>4. CASE Fail(d) \/ ReplacePublish(d) \/ CriticalDecide(d) \/ CriticalEmit(d) \/ CriticalDelivered(d)
  BY <1>1, <1>4, FailEffect, ReplacePublishEffect, CriticalDecideEffect, CriticalEmitEffect,
     CriticalDeliveredEffect
<1>5. CASE ~(CriticalDeleted(d) \/ DeletePublish(d) \/ CriticalEvict(d) \/ Fail(d) \/ ReplacePublish(d)
             \/ CriticalDecide(d) \/ CriticalEmit(d) \/ CriticalDelivered(d))
  BY <1>5 DEF Serve, TellStart, TellEmit, JoinCheck, JoinEnter, JoinRegister, JoinConfirm,
              Authorize, CommandProcess, CommandCurrent, CommandBroadcast, CommandEmit,
              CommandDelivered, LockServed, ReplaceTransact, DeleteTransact, CriticalAsk,
              CriticalCurrent
<1> QED
  BY <1>2, <1>3, <1>4, <1>5

\* The recipients that a task has admitted have the document: it has not been deleted
\* in between, for the next step of the task is the emission.
LEMMA AdmittedExists ==
  ASSUME Core, NEW d \in Document, Serve(d) \/ Fail(d),
         work'[d].pc = "emit", work'[d].allowed # {}
  PROVE  d \in db'.exists
<1>1. Base /\ TypeInv /\ work[d] \in Standing /\ sock \in SockType
  BY DEF Core, Base, TypeInv
<1>2. work'[d] # Idle
  BY IdleStanding
<1>3. ASSUME NEW w \in Standing, work'[d] = Chosen(d, w)
      PROVE  d \in db.exists
  <2>1. Chosen(d, w).allowed = {s \in Chosen(d, w).to : SessionActive(s) /\ Authorized(s, d)}
    BY <1>1, ChosenStanding
  <2> QED
    BY <1>3, <2>1 DEF Authorized
<1>4. CASE TellStart(d) \/ CommandBroadcast(d) \/ CriticalDecide(d) \/ CriticalCurrent(d)
  <2>1. db' = db
    BY <1>4 DEF TellStart, CommandBroadcast, CriticalDecide, CriticalCurrent
  <2>2. \E w \in Standing : work'[d] = Chosen(d, w)
    <3>1. CASE TellStart(d)
      <4>1. /\ Broadcast(d, Idle, held, 0) /\ held \in HeldType /\ 0 \in Nat /\ Idle \in Standing
            /\ \A e \in Document, x \in Element : held[e][x] \in {None, held[e][x]}
        BY <1>1, <3>1, IdleStanding DEF TellStart, TypeInv
      <4> QED
        BY <1>1, <4>1, BroadcastEffect
    <3>2. CASE CommandBroadcast(d)
      BY <1>1, <1>2, <3>2, CommandBroadcastEffect
    <3>3. CASE CriticalDecide(d)
      <4>1. ASSUME NEW change \in Announcement \cup {None},
                   work'[d] = Read(d, [Idle EXCEPT !.owed = TRUE, !.change = change])
            PROVE  FALSE
        <5>1. [Idle EXCEPT !.owed = TRUE, !.change = change] \in Standing
          BY <4>1, IdleStanding DEF Standing
        <5>2. work'[d].pc = "current"
          BY <1>1, <4>1, <5>1, ReadStanding
        <5> QED
          BY <5>2
      <4> QED
        BY <1>1, <1>2, <3>3, <4>1, CriticalDecideEffect
    <3>4. CASE CriticalCurrent(d)
      <4>1. [work[d] EXCEPT !.pc = "marking"].pc = "marking"
        BY <1>1 DEF Standing
      <4> QED
        BY <1>1, <3>4, <4>1, CriticalCurrentEffect
    <3> QED
      BY <1>4, <3>1, <3>2, <3>3, <3>4
  <2> QED
    BY <1>3, <2>1, <2>2
<1>5. CASE ~(TellStart(d) \/ CommandBroadcast(d) \/ CriticalDecide(d) \/ CriticalCurrent(d))
  <2> SUFFICES work'[d] = Idle \/ work'[d].pc # "emit"
    BY <1>2
  <2>1. /\ \A w \in {work[d], Idle} : \A pc \in {"entered", "marking"} : [w EXCEPT !.pc = pc].pc = pc
        /\ [Idle EXCEPT !.pc = "evicted"].pc = "evicted"
        /\ [Idle EXCEPT !.pc = "committed"].pc = "committed"
        /\ [Idle EXCEPT !.pc = "authorized", !.rev = db.rev[d]].pc = "authorized"
        /\ [Idle EXCEPT !.pc = "authorized", !.elements = db.elements[d]].pc = "authorized"
        /\ \A owed \in BOOLEAN : [Idle EXCEPT !.pc = "asked", !.owed = owed].pc = "asked"
    BY <1>1, IdleStanding DEF Standing
  <2>2. CASE TellEmit(d)
    BY <1>1, <2>2 DEF TellEmit, Done, Goto, TypeInv
  <2>3. CASE JoinCheck(d) \/ JoinEnter(d) \/ JoinRegister(d) \/ JoinConfirm(d)
    BY <1>1, <2>1, <2>3, JoinCheckEffect, JoinEnterEffect, JoinRegisterEffect, JoinConfirmEffect
  <2>4. CASE Authorize(d, "command") \/ Authorize(d, "lock")
    BY <1>1, <2>1, <2>4, AuthorizeEffect
  <2>5. CASE CommandProcess(d)
    BY <1>1, <2>5, CommandStands
  <2>6. CASE CommandCurrent(d)
    BY <1>1, <2>6, CommandCurrentEffect, ReadStanding
  <2>7. CASE CommandEmit(d) \/ CommandDelivered(d) \/ LockServed(d)
    BY <1>1, <2>1, <2>7, CommandEmitEffect, CommandDeliveredEffect, LockServedEffect
  <2>8. CASE ReplaceTransact(d) \/ ReplacePublish(d) \/ DeleteTransact(d) \/ DeletePublish(d)
    BY <1>1, <2>1, <2>8, ReplaceTransactEffect, ReplacePublishEffect, DeleteTransactEffect,
       DeletePublishEffect
  <2>9. CASE CriticalEvict(d) \/ CriticalDeleted(d) \/ CriticalAsk(d)
    <3>1. CASE CriticalEvict(d)
      BY <1>1, <2>1, <3>1, CriticalEvictEffect
    <3>2. CASE CriticalDeleted(d)
      BY <1>1, <3>2, CriticalDeletedEffect DEF EndsCritically
    <3>3. CASE CriticalAsk(d)
      <4>1. work'[d].pc = "asked"
        BY <1>1, <3>3, CriticalAsks
      <4> QED
        BY <4>1
    <3> QED
      BY <2>9, <3>1, <3>2, <3>3
  <2>10. CASE CriticalEmit(d) \/ CriticalDelivered(d) \/ Fail(d)
    BY <1>1, <2>1, <2>10, CriticalEmitEffect, CriticalDeliveredEffect, FailEffect DEF EndsCritically
  <2> QED
    BY <1>5, <2>2, <2>3, <2>4, <2>5, <2>6, <2>7, <2>8, <2>9, <2>10 DEF Serve
<1> QED
  BY <1>4, <1>5

\* AllowedInv is kept: a deletion that comes in between is known, or under way.
LEMMA AllowedStep ==
  ASSUME Core, OpsInv, AllowedInv, [Next]_vars
  PROVE  AllowedInv'
<1>1. Base /\ TypeInv
  BY DEF Core, Base
<1> SUFFICES ASSUME NEW e \in Document, Busy(e)', work'[e].pc = "emit", work'[e].allowed # {}
             PROVE  \/ e \in db'.exists \/ e \in crit'.deleted
                    \/ \E p \in outbox' : p.kind = "deleted" /\ p.user = None /\ e \in p.docs
  BY DEF AllowedInv, AllowedOf
<1> DEFINE Known == \/ e \in db.exists \/ e \in crit.deleted
                    \/ \E p \in outbox : p.kind = "deleted" /\ p.user = None /\ e \in p.docs
<1>2. CASE \E d \in Document : Serve(d) \/ Fail(d)
  <2>1. PICK d \in Document : Serve(d) \/ Fail(d)
    BY <1>2
  <2>2. CASE e = d
    BY <2>1, <2>2, AdmittedExists
  <2>3. CASE e # d
    <3>1. Moves(d)
      BY <1>1, <2>1, TaskEffect
    <3>2. line'[e] = line[e] /\ work'[e] = work[e]
      BY <2>3, <3>1 DEF Moves, Ordinary, GoesOn, Ends, EndsCritically, Elsewhere
    <3>3. Known
      BY <3>2 DEF Busy, AllowedInv, AllowedOf
    <3>4. outbox' = outbox
      BY <2>1, TaskMembers
    <3>5. CASE e \in db.exists
      <4>1. CASE DeleteTransact(d)
        <5>1. {d} \in SUBSET Document
          OBVIOUS
        <5>2. db' = db \/ db'.exists = db.exists \ {d}
          BY <1>1, <4>1, <5>1, DeleteTransactEffect, WithoutDocumentsType
        <5> QED
          BY <2>3, <3>5, <5>2
      <4>2. CASE ~DeleteTransact(d)
        BY <2>1, <3>5, <4>2, TaskMembers
      <4> QED
        BY <4>1, <4>2
    <3>6. CASE e \in crit.deleted
      BY <2>1, <2>3, <3>6, DeletedKept
    <3> QED
      BY <3>3, <3>4, <3>5, <3>6
  <2> QED
    BY <2>2, <2>3
<1>3. CASE Crash
  BY <1>1, <1>3, CrashEffect DEF Busy
<1>4. CASE ~(\E d \in Document : Serve(d) \/ Fail(d)) /\ ~Crash
  <2>1. PICK K \in SUBSET Kinds : Grows(K)
    BY <1>4, StepEffect
  <2>2. Undisturbed(e) /\ work'[e] = work[e]
    BY <1>1, <2>1, AllUndisturbed DEF Grows
  <2>3. PICK kind : kind = Head(line'[e]).kind
    OBVIOUS
  <2>4. At(e, kind, "emit")'
    BY <2>3 DEF At
  <2>5. At(e, kind, "emit")
    BY <2>2, <2>4, StoodBefore
  <2>6. Known
    BY <2>2, <2>5 DEF At, AllowedInv, AllowedOf
  <2> HIDE DEF Known
  <2>7. CASE Project
    <3>1. crit' = crit
      BY <2>7 DEF Project, RemoveMember, GrantMember, DeleteProject, RevokeSession
    <3>2. CASE DeleteProject
      <4>1. PICK c : c = Change("deleted", None, 0, db.exists, None)
        OBVIOUS
      <4>2. outbox' = outbox \cup {c} /\ c.kind = "deleted" /\ c.user = None /\ c.docs = db.exists
        BY <3>2, <4>1 DEF DeleteProject, Commits, Change
      <4> QED
        BY <2>6, <3>1, <4>2 DEF Known
    <3>3. CASE ~DeleteProject
      <4>1. db'.exists = db.exists /\ outbox \subseteq outbox'
        BY <1>1, <2>7, <3>3 DEF Project, RemoveMember, GrantMember, RevokeSession, Commits,
                                TypeInv, DatabaseType
      <4> QED
        BY <2>6, <3>1, <4>1 DEF Known
    <3> QED
      BY <3>2, <3>3
  <2>8. CASE \E p \in outbox : Publish(p)
    <3>1. PICK p \in outbox : Publish(p)
      BY <2>8
    <3>2. db' = db /\ outbox' = outbox \ {p}
      BY <3>1 DEF Publish
    <3>3. crit'.deleted = crit.deleted \cup (IF p.kind = "deleted" THEN p.docs ELSE {})
      BY <1>1, <3>1, PublishEffect
    <3> QED
      BY <2>6, <3>2, <3>3 DEF Known
  <2>9. CASE Aside
    BY <2>6, <2>9, AsideKeeps DEF Known
  <2> QED
    BY <1>4, <2>7, <2>8, <2>9 DEF Aside
<1> QED
  BY <1>2, <1>3, <1>4

\* Nobody has been removed, and nothing is under way, when the server starts.
LEMMA RemovalInit ==
  ASSUME Init
  PROVE  RemovalInv
<1>1. /\ \A d \in Document : line[d] = <<>> /\ sock.room[d] = {}
      /\ crit = InitialCritical /\ outbox = {} /\ db.exists = Document /\ db.member = User
  BY FreshMemory DEF Init
<1>2. \A u \in User : crit.fence[u] = 0
  BY <1>1 DEF InitialCritical
<1>3. Owner \in User
  BY OwnerAssumption
<1> QED
  BY <1>1, <1>2, <1>3 DEF RemovalInv, FenceInv, Outside, Entitled, NumbersInv, ProjectInv,
     AllowedInv, AllowedOf, Busy

\* As long as no grant is overtaken by another removal of the same member,
\* RemovalInv holds.
THEOREM RemovalInvariant == Spec /\ []~GrantOvertaken => []RemovalInv
<1>1. Init => RemovalInv
  BY RemovalInit
<1>2. Core /\ OpsInv /\ GoneInv /\ ~GrantOvertaken /\ RemovalInv /\ [Next]_vars => RemovalInv'
  BY FenceStep, NumbersStep, ProjectStep, AllowedStep DEF RemovalInv
<1> QED
  BY <1>1, <1>2, CoreInvariant, OpsInvariant, DeliveryInvariant, PTL DEF Spec

\* Once the removal of a member is published, the fence against him stands as long
\* as he is in a document of the project (scheduleMemberRevocation,
\* completeMemberEvictions), unless a grant was overtaken.
THEOREM RemovedStayFenced == Spec /\ []~GrantOvertaken => []FencedUntilEvicted
<1>1. Core /\ RemovalInv => FencedUntilEvicted
  <2> SUFFICES ASSUME Core, RemovalInv, NEW d \in Document, NEW s \in Socket,
                      s \in sock.room[d], d \in db.exists,
                      Owner \in db.member, UserOf[s] \notin db.member,
                      \A p \in outbox : p.user # UserOf[s]
               PROVE  UserFenced(UserOf[s])
    BY DEF FencedUntilEvicted
  <2>1. ToldOut(UserOf[s]) /\ ~Outside(s, d)
    BY DEF ToldOut, BeingRemoved, Outside
  <2> QED
    BY <2>1 DEF RemovalInv, FenceInv, FencedFrom, UserFenced
<1> QED
  BY <1>1, CoreInvariant, RemovalInvariant, PTL

\* Nobody receives an event of a document after his removal was published
\* (emitDocumentEvent, hasCurrentProjectAccess), unless a grant was overtaken: he
\* is fenced when the answer of the database has come, or he had not been let in.
THEOREM NothingReachesTheRemoved == Spec /\ []~GrantOvertaken => NoEmissionToRemoved
<1>1. ASSUME Core, RemovalInv, NEW d \in Document, Busy(d), work[d].pc = "emit", NEW s \in Reached(d)
      PROVE  \/ UserOf[s] \in db.member
             \/ \E p \in outbox : \/ p.kind = "removed" /\ p.user = UserOf[s]
                                 \/ p.kind = "deleted"
  <2>1. Base /\ TypeInv /\ RoomInv
    BY <1>1 DEF Core, Base
  <2>2. /\ d \notin crit.deleted /\ s \in sock.room[d] /\ s \in work[d].allowed
        /\ s \in Recipients(d) /\ s \notin NowFenced(d)
    BY <1>1 DEF Reached, Recipients
  <2>3. s \in Socket
    BY <2>1, <2>2, RoomSockets DEF TypeInv
  <2>4. ~Fenced(s, d)
    BY <2>2 DEF NowFenced
  <2>5. d \in sock.joined[s] /\ ~Entitled(s, d)
    BY <1>1, <2>1, <2>2, <2>3 DEF RoomInv, Entering, At, Entitled
  <2>6. d \in db.exists \/ \E p \in outbox : p.kind = "deleted" /\ p.user = None
    BY <1>1, <2>2 DEF RemovalInv, AllowedInv, AllowedOf
  <2>7. CASE d \in db.exists
    <3>1. Owner \in db.member
      BY <1>1, <2>7 DEF RemovalInv, ProjectInv
    <3>2. ~FencedFrom(UserOf[s], d)
      BY <2>4, <2>5 DEF FencedFrom, Fenced, UserFenced
    <3>3. ~ToldOut(UserOf[s])
      BY <1>1, <2>2, <2>3, <2>7, <3>2 DEF RemovalInv, FenceInv, Outside
    <3> QED
      BY <3>1, <3>3 DEF ToldOut, BeingRemoved
  <2> QED
    BY <2>6, <2>7
<1>2. ASSUME NEW d \in Document, TellEmit(d) \/ CommandEmit(d) \/ CriticalEmit(d)
      PROVE  Busy(d) /\ work[d].pc = "emit"
  BY <1>2 DEF TellEmit, CommandEmit, CriticalEmit, At
<1>3. Core /\ RemovalInv =>
        (\A d \in Document :
           TellEmit(d) \/ CommandEmit(d) \/ CriticalEmit(d) =>
             \A s \in Reached(d) :
               \/ UserOf[s] \in db.member
               \/ \E p \in outbox : \/ p.kind = "removed" /\ p.user = UserOf[s]
                                   \/ p.kind = "deleted")
  BY <1>1, <1>2
<1> QED
  BY <1>3, CoreInvariant, RemovalInvariant, PTL DEF NoEmissionToRemoved

-----------------------------------------------------------------------------
(* A lock ends with its lease, its holder or its element *)

\* The steps that commit a revision of d.
Revises(d) == CommandProcess(d) \/ ReplaceTransact(d)

\* What is announced of d: the content that was read, that a replacement has
\* written, or that it left to be announced, is the content of its revision.
ReadOf(d) ==
  /\ Busy(d) /\ work[d].pc = "current" => work[d].elements = db.elements[d]
  /\ At(d, "put", "committed") => work[d].rev = db.rev[d] /\ work[d].elements = db.elements[d]
  /\ crit.resync[d] # None =>
       /\ crit.resync[d].rev <= db.rev[d]
       /\ crit.resync[d].rev = db.rev[d] => crit.resync[d].elements = db.elements[d]
ReadInv == \A d \in Document : ReadOf(d)

\* A commit writes the document of the task only.
LEMMA RevisesOne ==
  ASSUME TypeInv, NEW d \in Document, Revises(d), NEW e \in Document
  PROVE  \/ db'.rev[e] = db.rev[e] /\ db'.elements[e] = db.elements[e]
         \/ e = d /\ db'.rev[e] = db.rev[e] + 1
<1>1. db \in DatabaseType
  BY DEF TypeInv
<1>2. CASE db' = db
  BY <1>2
<1>3. ASSUME NEW E, db' = [db EXCEPT !.rev[d] = @ + 1, !.elements[d] = E]
      PROVE  \/ db'.rev[e] = db.rev[e] /\ db'.elements[e] = db.elements[e]
             \/ e = d /\ db'.rev[e] = db.rev[e] + 1
  <2>1. db'.rev = [db.rev EXCEPT ![d] = @ + 1] /\ db'.elements = [db.elements EXCEPT ![d] = E]
    BY <1>1, <1>3 DEF DatabaseType
  <2>2. db.rev \in [Document -> Nat] /\ db.elements \in [Document -> SUBSET Element]
    BY <1>1 DEF DatabaseType
  <2> QED
    BY <2>1, <2>2
<1>4. CASE CommandProcess(d)
  <2>1. db' = db \/ \E E : db' = [db EXCEPT !.rev[d] = @ + 1, !.elements[d] = E]
    BY <1>4 DEF CommandProcess
  <2> QED
    BY <1>2, <1>3, <2>1
<1>5. CASE ReplaceTransact(d)
  <2>1. db' = db \/ \E E : db' = [db EXCEPT !.rev[d] = @ + 1, !.elements[d] = E]
    BY <1>5 DEF ReplaceTransact
  <2> QED
    BY <1>2, <1>3, <2>1
<1> QED
  BY <1>4, <1>5 DEF Revises

\* Only a commit changes the revision or the elements of a document.
LEMMA ContentsKept ==
  ASSUME TypeInv, [Next]_vars, NEW e \in Document, ~Revises(e)
  PROVE  db'.rev[e] = db.rev[e] /\ db'.elements[e] = db.elements[e]
<1>1. db \in DatabaseType
  BY DEF TypeInv
<1>2. CASE db' = db
  BY <1>2
<1>3. CASE db'.rev = db.rev /\ db'.elements = db.elements
  BY <1>3
<1>4. CASE \E d \in Document : Revises(d)
  BY <1>4, RevisesOne
<1>5. CASE \E d \in Document : DeleteTransact(d)
  <2>1. PICK d \in Document : DeleteTransact(d)
    BY <1>5
  <2>2. db' = db \/ WithoutDocuments({d})
    BY <2>1 DEF DeleteTransact
  <2>3. {d} \in SUBSET Document
    OBVIOUS
  <2> QED
    BY <1>2, <1>3, <2>2, <2>3, WithoutDocumentsType
<1>6. CASE Project
  BY <1>1, <1>3, <1>6 DEF Project, RemoveMember, GrantMember, DeleteProject, RevokeSession, DatabaseType
<1>7. CASE (\E d \in Document : Serve(d) \/ Fail(d)) /\ ~(\E d \in Document : Revises(d) \/ DeleteTransact(d))
  <2>1. PICK d \in Document : (Serve(d) \/ Fail(d)) /\ ~Revises(d) /\ ~DeleteTransact(d)
    BY <1>7
  <2>2. db' = db
    <3>1. CASE TellStart(d) \/ TellEmit(d) \/ JoinCheck(d) \/ JoinEnter(d) \/ JoinRegister(d) \/ JoinConfirm(d)
      BY <3>1 DEF TellStart, TellEmit, JoinCheck, JoinEnter, JoinRegister, JoinConfirm
    <3>2. CASE \/ Authorize(d, "command") \/ Authorize(d, "lock") \/ CommandCurrent(d) \/ CommandBroadcast(d)
               \/ CommandEmit(d) \/ CommandDelivered(d) \/ LockServed(d)
      BY <3>2 DEF Authorize, CommandCurrent, CommandBroadcast, CommandEmit, CommandDelivered, LockServed
    <3>3. CASE ReplacePublish(d) \/ DeletePublish(d) \/ Fail(d)
      BY <3>3 DEF ReplacePublish, DeletePublish, Fail
    <3>4. CASE \/ CriticalEvict(d) \/ CriticalDeleted(d) \/ CriticalAsk(d) \/ CriticalDecide(d)
               \/ CriticalCurrent(d) \/ CriticalEmit(d) \/ CriticalDelivered(d)
      BY <3>4 DEF CriticalEvict, CriticalDeleted, CriticalAsk, CriticalDecide, CriticalCurrent,
                  CriticalEmit, CriticalDelivered
    <3> QED
      BY <2>1, <3>1, <3>2, <3>3, <3>4 DEF Serve, Revises
  <2> QED
    BY <1>2, <2>2
<1>8. CASE ~(\E d \in Document : Serve(d) \/ Fail(d)) /\ ~Project
  <2>1. Housekeeping => db' = db
    BY DEF Housekeeping, BeginJoin, Expel, Leaves, Publish, RetryTimer, ScanAsk, ScanAnswer
  <2>2. Clients => db' = db
    BY ClientKeeps
  <2>3. (\E d \in Document, x \in Element : LockExpires(d, x)) \/ Crash \/ UNCHANGED vars => db' = db
    BY DEF LockExpires, Crash, vars
  <2>4. db' = db
    BY <1>8, <2>1, <2>2, <2>3 DEF Next, Mishaps
  <2> QED
    BY <1>2, <2>4
<1> QED
  BY <1>4, <1>5, <1>6, <1>7, <1>8

\* The maps c are what the step leaves of the pending changes, and no document but
\* those of c waits for its retry.
MapsTo(c) == crit'.resync = c.resync /\ crit'.retry \subseteq c.retry

\* Work that finds a place in its line waits for no retry.
LEMMA SchedulesMaps ==
  ASSUME NEW c \in CritType, NEW l \in LineType, NEW D \in SUBSET Document,
         \A e \in D : e \in c.scheduled \/ Len(l[e]) < Capacity,
         crit' = Scheduling(c, l, D)
  PROVE  MapsTo(c)
<1>1. crit'.resync = c.resync /\ crit' \in CritType
  BY ScheduledCrit
<1>2. ASSUME NEW e \in crit'.retry PROVE e \in c.retry
  <2>1. e \in Document
    BY <1>1, <1>2 DEF CritType
  <2>2. e \in c.retry \/ (e \in Unscheduled(c, D) /\ ~(Len(l[e]) < Capacity))
    BY <1>2, <2>1, ScheduledWhere
  <2> QED
    BY <2>2 DEF Unscheduled
<1> QED
  BY <1>1, <1>2 DEF MapsTo

\* A critical task that ends leaves a place for the next one.
LEMMA EndsMaps ==
  ASSUME NEW d \in Document, NEW c \in CritType, NEW l \in LineType, l[d] # <<>>,
         Len(l[d]) <= Capacity, EndCritical(c, l, d, FALSE)
  PROVE  MapsTo(c)
<1> DEFINE c1 == [c EXCEPT !.scheduled = @ \ {d}]
           l1 == Pop(l, d)
<1>1. c1 \in CritType /\ c1.resync = c.resync /\ c1.retry = c.retry
  BY DEF CritType
<1>2. crit' = c1 \/ crit' = Scheduling(c1, l1, {d})
  BY DEF EndCritical
<1>3. l1 \in LineType /\ Len(l1[d]) < Capacity
  <2>1. l[d] \in Seq(Task) /\ Len(l[d]) # 0 /\ Len(l[d]) \in Nat
    BY EmptySeq DEF LineType
  <2>2. Tail(l[d]) \in Seq(Task) /\ Len(Tail(l[d])) = Len(l[d]) - 1
    BY <2>1, HeadTailProperties
  <2>3. l1 \in LineType /\ l1[d] = Tail(l[d])
    BY <2>2 DEF Pop, LineType
  <2> QED
    BY <2>1, <2>2, <2>3, CapacityAssumption
<1> HIDE DEF c1, l1
<1>4. CASE crit' = c1
  BY <1>1, <1>4 DEF MapsTo
<1>5. CASE crit' = Scheduling(c1, l1, {d})
  <2>1. {d} \in SUBSET Document /\ \A e \in {d} : Len(l1[e]) < Capacity
    BY <1>3
  <2>2. MapsTo(c1)
    BY <1>1, <1>3, <1>5, <2>1, SchedulesMaps
  <2> QED
    BY <1>1, <2>2 DEF MapsTo
<1> QED
  BY <1>2, <1>4, <1>5

\* A line that only broadcasts have lengthened respects the capacity.
LEMMA CapacityKept ==
  ASSUME CriticalInv, NEW d \in Document, NEW n \in Int, n <= Len(line[d]) \/ n <= StandardCapacity,
         Len(line[d]) \in Nat
  PROVE  n <= Capacity
<1>1. Len(line[d]) <= Capacity
  BY DEF CriticalInv, Carries
<1> QED
  BY <1>1, CapacityAssumption DEF StandardCapacity

\* A document whose critical work is not scheduled has a place for it.
LEMMA PlaceLeft ==
  ASSUME CriticalInv, NEW D \in SUBSET Document
  PROVE  \A e \in D : e \in crit.scheduled \/ Len(line[e]) < Capacity
  BY DEF CriticalInv, Carries

\* What a replacement has published waits to be announced until it is, or until the
\* document is gone; only critical work that fails waits for a retry.
ChangeKept(e) ==
  \/ ReplacePublish(e)
  \/ crit'.resync[e] = crit.resync[e]
  \/ crit'.resync[e] = None /\ (e \notin db.exists \/ CriticalEmit(e) \/ Crash)
CriticalFails == \E d \in Document : Fail(d) /\ Head(line[d]).kind = "critical"

\* The steps of a task keep the changes that wait.
LEMMA TaskMaps ==
  ASSUME Core, CriticalInv, GoneInv, NEW d \in Document, Serve(d) \/ Fail(d)
  PROVE  /\ CriticalFails \/ crit'.retry \subseteq crit.retry
         /\ \A e \in Document : ChangeKept(e)
<1>1. Base /\ TypeInv /\ crit \in CritType /\ line \in LineType /\ Busy(d)
  BY TaskEffect DEF Core, Base, TypeInv
<1>2. CASE crit' = crit
  BY <1>2 DEF ChangeKept
<1>3. ASSUME NEW c, MapsTo(c), c.resync = crit.resync, c.retry = crit.retry
      PROVE  crit'.retry \subseteq crit.retry /\ \A e \in Document : ChangeKept(e)
  BY <1>3 DEF MapsTo, ChangeKept
<1>4. line[d] # <<>> /\ line[d] \in Seq(Task) /\ Len(line[d]) \in Nat /\ Len(line[d]) <= Capacity
      /\ {d} \in SUBSET Document
  BY <1>1 DEF Busy, LineType, CriticalInv, Carries
<1>5. CASE Fail(d)
  <2>1. CASE Head(line[d]).kind = "critical"
    <3>1. EndCritical(crit, line, d, TRUE)
      BY <1>5, <2>1 DEF Fail
    <3>2. crit'.resync = crit.resync
      BY <1>1, <1>4, <3>1, EndCriticalStep
    <3> QED
      BY <1>5, <2>1, <3>2 DEF ChangeKept, CriticalFails
  <2>2. CASE Head(line[d]).kind # "critical"
    BY <1>2, <1>5, <2>2 DEF Fail
  <2> QED
    BY <2>1, <2>2
<1>6. CASE ReplacePublish(d)
  <2>1. PICK change : change = [rev |-> work[d].rev, elements |-> work[d].elements]
    OBVIOUS
  <2>2. change \in Announcement
    BY <1>1, <2>1 DEF TypeInv, Standing, Announcement
  <2>3. PICK c : c = [crit EXCEPT !.resync[d] = change]
    OBVIOUS
  <2>4. /\ c \in CritType /\ c.retry = crit.retry /\ c.scheduled = crit.scheduled
        /\ \A e \in Document : e # d => c.resync[e] = crit.resync[e]
    BY <1>1, <2>2, <2>3 DEF CritType
  <2>5. crit' = crit \/ crit' = Scheduling(c, line, {d})
    BY <1>6, <2>1, <2>3 DEF ReplacePublish
  <2>6. CASE crit' = Scheduling(c, line, {d})
    <3>1. \A e \in {d} : e \in c.scheduled \/ Len(line[e]) < Capacity
      BY <1>4, <2>4, PlaceLeft
    <3>2. MapsTo(c)
      BY <1>1, <1>4, <2>4, <2>6, <3>1, SchedulesMaps
    <3> QED
      BY <1>6, <2>4, <3>2 DEF MapsTo, ChangeKept
  <2> QED
    BY <1>2, <2>5, <2>6
<1>7. CASE DeletePublish(d)
  <2>1. d \notin db.exists
    BY <1>7 DEF DeletePublish, GoneInv
  <2>2. PICK c : c = GoneFrom(crit, {d})
    OBVIOUS
  <2>3. /\ c \in CritType /\ c.retry = crit.retry /\ c.scheduled = crit.scheduled
        /\ \A e \in Document : c.resync[e] = IF e \in {d} THEN None ELSE crit.resync[e]
    BY <1>1, <1>4, <2>2, GoneCrit
  <2>4. crit' = Scheduling(c, line, {d})
    BY <1>7, <2>2 DEF DeletePublish
  <2>5. \A e \in {d} : e \in c.scheduled \/ Len(line[e]) < Capacity
    BY <1>4, <2>3, PlaceLeft
  <2>6. MapsTo(c)
    BY <1>1, <1>4, <2>3, <2>4, <2>5, SchedulesMaps
  <2> QED
    BY <2>1, <2>3, <2>6 DEF MapsTo, ChangeKept
<1>8. CASE CriticalEvict(d)
  BY <1>1, <1>8, CompletedCrit DEF CriticalEvict, ChangeKept
<1>9. CASE CriticalDeleted(d)
  <2> DEFINE R == sock.room[d]
             rest == IF Unlock(held, R, d)[d] = NoLocks THEN 0 ELSE 1
             c == IF work[d].pc = "start" THEN Completed(crit, d) ELSE crit
             c1 == [c EXCEPT !.deleted = @ \ {d}, !.recovery = @ \ {d}]
             m == Notify(line, d, Notices(held, R, d) + rest)
  <2>1. EndCritical(c1, m, d, FALSE)
    BY <1>9 DEF CriticalDeleted
  <2>2. c \in CritType /\ c.resync = crit.resync /\ c.retry = crit.retry
    BY <1>1, CompletedCrit
  <2> HIDE DEF c
  <2>3. c1 \in CritType /\ c1.resync = crit.resync /\ c1.retry = crit.retry
    BY <2>2 DEF CritType
  <2>4. R \in SUBSET Socket /\ rest \in Nat
    BY <1>1, RoomSockets, SockKept
  <2> HIDE DEF R, rest, c1
  <2>5. GrownBy(line, m, {"tell"}) /\ (Len(m[d]) <= Len(line[d]) \/ Len(m[d]) <= StandardCapacity)
    BY <1>1, <2>4, NoticesNat, NotifyLine
  <2> HIDE DEF m
  <2>6. m \in LineType /\ m[d] # <<>> /\ Len(m[d]) \in Int
    <3>1. m \in LineType /\ m[d] # <<>>
      BY <1>1, <1>4, <2>5, HeadKept DEF GrownBy
    <3>2. m[d] \in Seq(Task)
      BY <3>1 DEF LineType
    <3> QED
      BY <3>1, <3>2
  <2>7. Len(m[d]) <= Capacity
    BY <1>4, <2>5, <2>6, CapacityKept
  <2>8. MapsTo(c1)
    BY <2>1, <2>3, <2>6, <2>7, EndsMaps
  <2> QED
    BY <1>3, <2>3, <2>8
<1>10. CASE CriticalDecide(d)
  <2>1. PICK c : c = [crit EXCEPT !.recovery = @ \ {d}]
    OBVIOUS
  <2>2. c \in CritType /\ c.resync = crit.resync /\ c.retry = crit.retry
    BY <1>1, <2>1 DEF CritType
  <2>3. crit' = crit \/ crit' = c \/ EndCritical(c, line, d, FALSE)
    BY <1>10, <2>1 DEF CriticalDecide
  <2>4. CASE crit' = c
    BY <2>2, <2>4 DEF ChangeKept
  <2>5. CASE EndCritical(c, line, d, FALSE)
    <3>1. MapsTo(c)
      BY <1>1, <1>4, <2>2, <2>5, EndsMaps
    <3> QED
      BY <1>3, <2>2, <3>1
  <2> QED
    BY <1>2, <2>3, <2>4, <2>5
<1>11. CASE CriticalEmit(d)
  <2>1. PICK c : c = IF crit.resync[d] = work[d].change THEN [crit EXCEPT !.resync[d] = None] ELSE crit
    OBVIOUS
  <2>2. c \in CritType /\ c.retry = crit.retry /\ c.resync[d] \in {None, crit.resync[d]}
        /\ \A e \in Document : e # d => c.resync[e] = crit.resync[e]
    BY <1>1, <2>1 DEF CritType
  <2>3. crit' = c \/ EndCritical(c, EmitLine(d), d, FALSE)
    BY <1>11, <2>1 DEF CriticalEmit
  <2>4. MapsTo(c)
    <3>1. CASE crit' = c
      BY <3>1 DEF MapsTo
    <3>2. CASE EndCritical(c, EmitLine(d), d, FALSE)
      <4>1. GrownBy(line, EmitLine(d), {"tell"})
            /\ (Len(EmitLine(d)[d]) <= Len(line[d]) \/ Len(EmitLine(d)[d]) <= StandardCapacity)
        BY <1>1, EmitLineGrown
      <4>2. EmitLine(d) \in LineType /\ EmitLine(d)[d] # <<>> /\ Len(EmitLine(d)[d]) \in Int
        <5>1. EmitLine(d) \in LineType /\ EmitLine(d)[d] # <<>>
          BY <1>1, <1>4, <4>1, HeadKept DEF GrownBy
        <5>2. EmitLine(d)[d] \in Seq(Task)
          BY <5>1 DEF LineType
        <5> QED
          BY <5>1, <5>2
      <4>3. Len(EmitLine(d)[d]) <= Capacity
        BY <1>4, <4>1, <4>2, CapacityKept
      <4> QED
        BY <2>2, <3>2, <4>2, <4>3, EndsMaps
    <3> QED
      BY <2>3, <3>1, <3>2
  <2> QED
    BY <1>11, <2>2, <2>4 DEF MapsTo, ChangeKept
<1>12. CASE CriticalDelivered(d)
  <2>1. PICK c : c = [crit EXCEPT !.recovery = @ \ {d}]
    OBVIOUS
  <2>2. c \in CritType /\ c.resync = crit.resync /\ c.retry = crit.retry
    BY <1>1, <2>1 DEF CritType
  <2>3. EndCritical(c, line, d, FALSE)
    BY <1>12, <2>1 DEF CriticalDelivered
  <2>4. MapsTo(c)
    BY <1>1, <1>4, <2>2, <2>3, EndsMaps
  <2> QED
    BY <1>3, <2>2, <2>4
<1>13. CASE ~(Fail(d) \/ ReplacePublish(d) \/ DeletePublish(d) \/ CriticalEvict(d)
              \/ CriticalDeleted(d) \/ CriticalDecide(d) \/ CriticalEmit(d) \/ CriticalDelivered(d))
  <2>1. crit' = crit
    BY <1>13 DEF Serve, TellStart, TellEmit, JoinCheck, JoinEnter, JoinRegister, JoinConfirm,
       Authorize, CommandProcess, CommandCurrent, CommandBroadcast, CommandEmit, CommandDelivered,
       LockServed, ReplaceTransact, DeleteTransact, CriticalAsk, CriticalCurrent
  <2> QED
    BY <1>2, <2>1
<1> QED
  BY <1>5, <1>6, <1>7, <1>8, <1>9, <1>10, <1>11, <1>12, <1>13

\* Every step keeps them.
LEMMA MapsKept ==
  ASSUME Core, CriticalInv, GoneInv, [Next]_vars
  PROVE  /\ CriticalFails \/ crit'.retry \subseteq crit.retry
         /\ \A e \in Document : ChangeKept(e)
<1>1. Base /\ TypeInv /\ crit \in CritType /\ line \in LineType
  BY DEF Core, Base, TypeInv
<1>2. CASE crit' = crit
  BY <1>2 DEF ChangeKept
<1>3. ASSUME NEW c, MapsTo(c), c.resync = crit.resync, c.retry \subseteq crit.retry
      PROVE  crit'.retry \subseteq crit.retry /\ \A e \in Document : ChangeKept(e)
  BY <1>3 DEF MapsTo, ChangeKept
<1>4. CASE \E d \in Document : Serve(d) \/ Fail(d)
  BY <1>4, TaskMaps
<1>5. CASE \E p \in outbox : Publish(p)
  <2>1. PICK p \in outbox : Publish(p)
    BY <1>5
  <2>2. /\ p \in ChangeType
        /\ p.kind \in {"granted", "removed"} => p.user \in User
        /\ p.kind = "removed" => p.n \in Removals
    BY <1>1 DEF TypeInv
  <2>3. p.docs \in SUBSET Document
    BY <2>2 DEF ChangeType
  <2>4. CASE p.kind = "granted"
    <3>1. crit' = Fence(crit, p.user, 0, {})
      BY <2>1, <2>4 DEF Publish
    <3>2. p.user \in User /\ {} \in SUBSET Document /\ 0 \in Nat
      BY <2>2, <2>4
    <3>3. crit'.resync = crit.resync /\ crit'.retry = crit.retry
      BY <1>1, <3>1, <3>2, FenceCrit
    <3> QED
      BY <3>3 DEF ChangeKept
  <2>5. CASE p.kind = "removed"
    <3>1. PICK c : c = Fence(crit, p.user, p.n, p.docs)
      OBVIOUS
    <3>2. crit' = Scheduling(c, line, p.docs)
      BY <2>1, <2>5, <3>1 DEF Publish, Schedule
    <3>3. p.n \in Nat
      BY <2>2, <2>5, BudgetAssumption DEF ChangeType, Removals, Events
    <3>4. /\ c \in CritType /\ c.resync = crit.resync /\ c.retry = crit.retry
          /\ c.scheduled = crit.scheduled
      BY <1>1, <2>2, <2>3, <2>5, <3>1, <3>3, FenceCrit
    <3>5. MapsTo(c)
      BY <1>1, <2>3, <3>2, <3>4, PlaceLeft, SchedulesMaps
    <3> QED
      BY <1>3, <3>4, <3>5
  <2>6. CASE p.kind = "deleted"
    <3>1. PICK c : c = GoneFrom(crit, p.docs)
      OBVIOUS
    <3>2. crit' = Scheduling(c, line, p.docs)
      BY <2>1, <2>6, <3>1 DEF Publish, Schedule
    <3>3. /\ c \in CritType /\ c.retry = crit.retry /\ c.scheduled = crit.scheduled
          /\ \A e \in Document : c.resync[e] = IF e \in p.docs THEN None ELSE crit.resync[e]
      BY <1>1, <2>3, <3>1, GoneCrit
    <3>4. MapsTo(c)
      BY <1>1, <2>3, <3>2, <3>3, PlaceLeft, SchedulesMaps
    <3>5. \A e \in p.docs : e \notin db.exists
      BY <2>1, <2>6 DEF GoneInv
    <3> QED
      BY <3>3, <3>4, <3>5 DEF MapsTo, ChangeKept
  <2>7. CASE p.kind \notin {"granted", "removed", "deleted"}
    BY <1>2, <2>1, <2>7 DEF Publish
  <2> QED
    BY <2>4, <2>5, <2>6, <2>7
<1>6. CASE \E d \in Document : RetryTimer(d)
  <2>1. PICK d \in Document : RetryTimer(d)
    BY <1>6
  <2>2. PICK c : c = [crit EXCEPT !.retry = @ \ {d}]
    OBVIOUS
  <2>3. PICK D : D = IF HasCriticalWork(c, d) THEN {d} ELSE {}
    OBVIOUS
  <2>4. D \in SUBSET Document /\ crit' = Scheduling(c, line, D)
    BY <2>1, <2>2, <2>3 DEF RetryTimer, Schedule
  <2>5. /\ c \in CritType /\ c.resync = crit.resync /\ c.retry \subseteq crit.retry
        /\ c.scheduled = crit.scheduled
    BY <1>1, <2>2 DEF CritType
  <2>6. MapsTo(c)
    BY <1>1, <2>4, <2>5, PlaceLeft, SchedulesMaps
  <2> QED
    BY <1>3, <2>5, <2>6
<1>7. CASE ScanAsk
  BY <1>1, <1>7 DEF ScanAsk, ChangeKept, CritType
<1>8. CASE ScanAnswer
  <2>1. PICK c : c = [crit EXCEPT !.recovery = @ \cup crit.scan, !.scan = {}]
    OBVIOUS
  <2>2. crit.scan \in SUBSET Document /\ crit' = Scheduling(c, line, crit.scan)
    BY <1>1, <1>8, <2>1 DEF ScanAnswer, Schedule, CritType
  <2>3. /\ c \in CritType /\ c.resync = crit.resync /\ c.retry \subseteq crit.retry
        /\ c.scheduled = crit.scheduled
    BY <1>1, <2>1 DEF CritType
  <2>4. MapsTo(c)
    BY <1>1, <2>2, <2>3, PlaceLeft, SchedulesMaps
  <2> QED
    BY <1>3, <2>3, <2>4
<1>9. CASE Crash
  <2>1. crit' = InitialCritical
    BY <1>9 DEF Crash
  <2> QED
    BY <1>9, <2>1 DEF InitialCritical, ChangeKept
<1>10. CASE ~(\/ \E d \in Document : Serve(d) \/ Fail(d)
              \/ \E p \in outbox : Publish(p)
              \/ \E d \in Document : RetryTimer(d)
              \/ ScanAsk \/ ScanAnswer \/ Crash)
  <2>1. crit' = crit
    <3>1. CASE Clients
      BY <3>1, ClientKeeps
    <3>2. CASE Project
      BY <3>2 DEF Project, RemoveMember, GrantMember, DeleteProject, RevokeSession
    <3>3. CASE \E s \in Socket : BeginJoin(s) \/ Expel(s)
      BY <3>3 DEF BeginJoin, Expel, Leaves
    <3>4. CASE (\E d \in Document, x \in Element : LockExpires(d, x)) \/ UNCHANGED vars
      BY <3>4 DEF LockExpires, vars
    <3> QED
      BY <1>10, <3>1, <3>2, <3>3, <3>4 DEF Next, Housekeeping, Mishaps
  <2> QED
    BY <1>2, <2>1
<1> QED
  BY <1>4, <1>5, <1>6, <1>7, <1>8, <1>9, <1>10

\* A task that commits stands there, or ends.
LEMMA RevisesStands ==
  ASSUME Base, NEW d \in Document, Revises(d)
  PROVE  work'[d] = Idle \/ work'[d].pc = "committed"
<1>1. CASE CommandProcess(d)
  BY <1>1, CommandStands
<1>2. CASE ReplaceTransact(d)
  BY <1>2, ReplaceTransactEffect
<1> QED
  BY <1>1, <1>2 DEF Revises

\* Where a task stands that has read the document, or committed.
LEMMA TaskReads ==
  ASSUME Base, NEW d \in Document, Serve(d) \/ Fail(d)
  PROVE  /\ work'[d].pc = "current" =>
              /\ CommandCurrent(d) \/ CriticalDecide(d)
              /\ work'[d].elements = db.elements[d]
         /\ work'[d].pc = "committed" => Revises(d) \/ DeleteTransact(d)
<1> DEFINE Elsewise == work'[d].pc # "current" /\ work'[d].pc # "committed"
<1>1. TypeInv /\ work \in [Document -> Standing]
  BY DEF Base, TypeInv
<1>2. Idle.pc = "start" /\ Idle \in Standing
  BY IdleStanding
<1>3. ASSUME work'[d] = Idle PROVE Elsewise
  BY <1>2, <1>3
<1>4. ASSUME NEW w \in Standing, work'[d] = Chosen(d, w) PROVE Elsewise
  BY <1>1, <1>4, ChosenStanding DEF TypeInv
<1>5. ASSUME NEW w \in Standing, NEW h, NEW n, Broadcast(d, w, h, n) PROVE Elsewise
  <2>1. work' = [work EXCEPT ![d] = Chosen(d, w)]
    BY <1>5 DEF Broadcast, FencedOut, Chosen, Goto
  <2> QED
    BY <1>1, <1>4, <2>1
<1>6. ASSUME NEW w \in Standing, work'[d] = [w EXCEPT !.pc = "marking"] PROVE Elsewise
  BY <1>6 DEF Standing
<1>7. ASSUME NEW w \in Standing, work'[d] = Read(d, w)
      PROVE  work'[d].pc = "current" /\ work'[d].elements = db.elements[d]
  <2>1. work'[d].elements = db.elements[d]
    BY <1>7 DEF Read, Standing
  <2> QED
    BY <1>1, <1>7, <2>1, ReadStanding
<1>8. CASE TellStart(d)
  BY <1>2, <1>5, <1>8 DEF TellStart
<1>9. CASE TellEmit(d) \/ LockServed(d) \/ ReplacePublish(d) \/ DeletePublish(d)
  BY <1>1, <1>3, <1>9 DEF TellEmit, LockServed, ReplacePublish, DeletePublish, Done, Goto
<1>10. CASE JoinCheck(d)
  BY <1>2, <1>10, JoinCheckEffect DEF Standing
<1>11. CASE JoinEnter(d)
  <2>1. work'[d] = Idle \/ work'[d] = [work[d] EXCEPT !.pc = "entered"]
    BY <1>1, <1>11 DEF JoinEnter, JoinFails, Done, Goto
  <2> QED
    BY <1>1, <1>3, <2>1 DEF Standing
<1>12. CASE JoinRegister(d)
  BY <1>3, <1>12, JoinRegisterEffect
<1>13. CASE JoinConfirm(d) \/ CommandDelivered(d) \/ Fail(d)
  BY <1>3, <1>13, JoinConfirmEffect, CommandDeliveredEffect, FailEffect
<1>14. CASE Authorize(d, "command") \/ Authorize(d, "lock")
  BY <1>2, <1>14, AuthorizeEffect DEF Standing
<1>15. CASE Revises(d)
  BY <1>2, <1>15, RevisesStands
<1>16. CASE DeleteTransact(d)
  BY <1>2, <1>16, DeleteTransactEffect DEF Standing
<1>17. CASE CommandCurrent(d)
  BY <1>1, <1>3, <1>7, <1>17, CommandCurrentEffect
<1>18. CASE CommandBroadcast(d)
  BY <1>1, <1>2, <1>18, CommandBroadcastEffect, ChosenStanding DEF TypeInv
<1>19. CASE CommandEmit(d)
  BY <1>1, <1>6, <1>19, CommandEmitEffect
<1>20. CASE CriticalEvict(d) \/ CriticalAsk(d)
  <2>1. CASE CriticalEvict(d)
    BY <2>1, CriticalEvictEffect DEF Idle
  <2>2. CASE CriticalAsk(d)
    BY <2>2, CriticalAsks
  <2> QED
    BY <1>20, <2>1, <2>2
<1>21. CASE CriticalDeleted(d) \/ CriticalDelivered(d)
  BY <1>3, <1>21, CriticalDeletedEffect, CriticalDeliveredEffect DEF EndsCritically
<1>22. CASE CriticalDecide(d)
  <2>1. ASSUME NEW change \in Announcement \cup {None},
               work'[d] = Read(d, [Idle EXCEPT !.owed = TRUE, !.change = change])
        PROVE  work'[d].pc = "current" /\ work'[d].elements = db.elements[d]
    <3>1. [Idle EXCEPT !.owed = TRUE, !.change = change] \in Standing
      BY <1>2 DEF Standing
    <3> QED
      BY <1>7, <2>1, <3>1
  <2> QED
    BY <1>3, <1>4, <1>22, <2>1, CriticalDecideEffect
<1>23. CASE CriticalCurrent(d)
  BY <1>1, <1>4, <1>6, <1>23, CriticalCurrentEffect
<1>24. CASE CriticalEmit(d)
  BY <1>1, <1>3, <1>6, <1>24, CriticalEmitEffect
<1> QED
  BY <1>8, <1>9, <1>10, <1>11, <1>12, <1>13, <1>14, <1>15, <1>16, <1>17, <1>18, <1>19, <1>20,
     <1>21, <1>22, <1>23, <1>24 DEF Serve, Revises

\* A task elsewhere stands where it stood.
Stays(e) == work'[e] = work[e] /\ (Undisturbed(e) \/ line'[e] = line[e])

\* Every step is a crash, a step of a task, which leaves the others where they
\* stand, or leaves them all there.
LEMMA TasksStay ==
  ASSUME Core, [Next]_vars
  PROVE  \/ Crash
         \/ \E d \in Document : /\ Serve(d) \/ Fail(d)
                                /\ \A e \in Document : e # d => Stays(e)
         \/ /\ ~\E d \in Document : Serve(d) \/ Fail(d)
            /\ \A e \in Document : Stays(e)
<1>1. Base /\ TypeInv
  BY DEF Core, Base
<1>2. CASE \E d \in Document : Serve(d) \/ Fail(d)
  <2>1. PICK d \in Document : Serve(d) \/ Fail(d)
    BY <1>2
  <2>2. Moves(d)
    BY <1>1, <2>1, TaskEffect
  <2>3. \A e \in Document : e # d => Stays(e)
    BY <2>2 DEF Moves, Ordinary, GoesOn, Ends, EndsCritically, Elsewhere, Stays
  <2> QED
    BY <2>1, <2>3
<1>3. CASE \E K : Grows(K)
  <2>1. PICK K : Grows(K)
    BY <1>3
  <2>2. \A e \in Document : Stays(e)
    BY <1>1, <2>1, AllUndisturbed DEF Grows, Stays
  <2> QED
    BY <1>2, <2>2
<1> QED
  BY <1>2, <1>3, StepEffect

\* What is announced stays what it is as long as no task reads, commits or publishes.
LEMMA ReadKept ==
  ASSUME Core, NEW e \in Document, ReadOf(e),
         db'.rev[e] = db.rev[e], db'.elements[e] = db.elements[e],
         crit'.resync[e] \in {None, crit.resync[e]},
         Busy(e)' /\ work'[e].pc = "current" => work'[e].elements = db.elements[e],
         At(e, "put", "committed")' => At(e, "put", "committed") /\ work'[e] = work[e]
  PROVE  ReadOf(e)'
  BY DEF ReadOf

\* Every step keeps ReadInv.
LEMMA ReadStep ==
  ASSUME Core, CriticalInv, GoneInv, ReadInv, [Next]_vars
  PROVE  ReadInv'
<1>1. Base /\ TypeInv /\ TypeInv'
  BY CoreStep DEF Core, Base
<1>2. \A e \in Document : ChangeKept(e)
  BY MapsKept
<1>3. SUFFICES ASSUME NEW e \in Document PROVE ReadOf(e)'
  BY DEF ReadInv
<1>4. ReadOf(e) /\ db.rev[e] \in Nat
  BY <1>1, RowType DEF ReadInv, TypeInv, DatabaseType
<1>5. CASE Crash
  <2>1. crit'.resync[e] = None /\ ~Busy(e)'
    BY <1>5 DEF Crash, InitialCritical, Busy
  <2> QED
    BY <2>1 DEF ReadOf, At
<1>6. CASE ReplacePublish(e)
  <2>1. /\ work'[e] = Idle /\ db' = db
        /\ work[e].rev = db.rev[e] /\ work[e].elements = db.elements[e]
    BY <1>1, <1>4, <1>6 DEF ReplacePublish, ReadOf, Done, Goto, TypeInv
  <2>2. PICK change : change = [rev |-> work[e].rev, elements |-> work[e].elements]
    OBVIOUS
  <2>3. change.rev = db.rev[e] /\ change.elements = db.elements[e]
    BY <2>1, <2>2
  <2>4. crit'.resync[e] = crit.resync[e] \/ crit'.resync[e] = change
    <3>1. PICK c : c = [crit EXCEPT !.resync[e] = change]
      OBVIOUS
    <3>2. change \in Announcement
      BY <1>1, <2>2 DEF TypeInv, Standing, Announcement
    <3>3. c \in CritType /\ c.resync[e] = change /\ {e} \in SUBSET Document /\ line \in LineType
      BY <1>1, <3>1, <3>2 DEF TypeInv, CritType
    <3>4. crit' = crit \/ crit' = Scheduling(c, line, {e})
      BY <1>6, <2>2, <3>1 DEF ReplacePublish
    <3> QED
      BY <3>3, <3>4, ScheduledCrit
  <2>5. work'[e].pc = "start"
    BY <2>1, IdleStanding
  <2> QED
    BY <1>4, <2>1, <2>3, <2>4, <2>5 DEF ReadOf, At
<1>7. CASE Revises(e) /\ ~ReplacePublish(e)
  <2>1. Serve(e) /\ crit' = crit
    BY <1>7 DEF Revises, Serve, CommandProcess, ReplaceTransact
  <2>2. \/ db'.rev[e] = db.rev[e] /\ db'.elements[e] = db.elements[e]
        \/ db'.rev[e] = db.rev[e] + 1
    BY <1>1, <1>7, RevisesOne
  <2>3. work'[e].pc # "current"
    BY <1>1, <1>7, RevisesStands, IdleStanding
  <2>4. At(e, "put", "committed")' => work'[e].rev = db'.rev[e] /\ work'[e].elements = db'.elements[e]
    <3> SUFFICES ASSUME At(e, "put", "committed")'
                 PROVE  work'[e].rev = db'.rev[e] /\ work'[e].elements = db'.elements[e]
      OBVIOUS
    <3>1. Head(line[e]).kind = "put"
      <4>1. Moves(e) /\ Busy(e)
        BY <1>1, <2>1, TaskEffect
      <4> QED
        BY <1>1, <4>1, Continues DEF At
    <3>2. ReplaceTransact(e) /\ work'[e] # Idle
      BY <1>7, <3>1, IdleStanding DEF Revises, CommandProcess, At
    <3>3. PICK t : t = Head(line[e])
      OBVIOUS
    <3>4. /\ t.base = db.rev[e]
          /\ db' = [db EXCEPT !.rev[e] = @ + 1, !.elements[e] = t.elements]
          /\ work' = [work EXCEPT ![e] = [Idle EXCEPT !.pc = "committed", !.rev = t.base + 1,
                                                      !.elements = t.elements]]
      BY <1>1, <3>2, <3>3 DEF ReplaceTransact, Rejected, Done, Goto, TypeInv
    <3>5. db'.rev[e] = db.rev[e] + 1 /\ db'.elements[e] = t.elements
      BY <1>1, <3>4 DEF TypeInv, DatabaseType
    <3>6. work'[e].rev = t.base + 1 /\ work'[e].elements = t.elements
      BY <1>1, <3>4 DEF TypeInv, Idle
    <3> QED
      BY <3>4, <3>5, <3>6
  <2>5. crit.resync[e] # None => crit.resync[e].rev \in Int
    BY <1>1 DEF TypeInv, CritType, Announcement, Revision
  <2> QED
    BY <1>4, <2>1, <2>2, <2>3, <2>4, <2>5 DEF ReadOf
<1>8. CASE ~Crash /\ ~ReplacePublish(e) /\ ~Revises(e)
  <2>1. db'.rev[e] = db.rev[e] /\ db'.elements[e] = db.elements[e]
    BY <1>1, <1>8, ContentsKept
  <2>2. crit'.resync[e] \in {None, crit.resync[e]}
    BY <1>2, <1>8 DEF ChangeKept
  <2>3. CASE Stays(e)
    <3>1. Busy(e)' /\ work'[e].pc = "current" => Busy(e) /\ work[e] = work'[e]
      <4>1. PICK k : k = Head(line'[e]).kind
        OBVIOUS
      <4>2. Busy(e)' /\ work'[e].pc = "current" => At(e, k, "current")'
        BY <4>1 DEF At
      <4> QED
        BY <2>3, <4>2, StoodBefore DEF Stays, At
    <3>2. At(e, "put", "committed")' => At(e, "put", "committed") /\ work'[e] = work[e]
      BY <2>3, StoodBefore DEF Stays
    <3> QED
      BY <1>4, <2>1, <2>2, <3>1, <3>2, ReadKept DEF ReadOf
  <2>4. CASE Serve(e) \/ Fail(e)
    <3>1. /\ work'[e].pc = "current" => work'[e].elements = db.elements[e]
          /\ work'[e].pc = "committed" => DeleteTransact(e)
      BY <1>1, <1>8, <2>4, TaskReads
    <3>2. Moves(e) /\ Busy(e)
      BY <1>1, <2>4, TaskEffect
    <3>3. ~At(e, "put", "committed")'
      <4> SUFFICES ASSUME At(e, "put", "committed")' PROVE FALSE
        OBVIOUS
      <4>1. Head(line[e]).kind = "put"
        BY <1>1, <3>2, Continues DEF At
      <4> QED
        BY <3>1, <4>1 DEF DeleteTransact, At
    <3> QED
      BY <1>4, <2>1, <2>2, <3>1, <3>3, ReadKept
  <2> QED
    BY <1>8, <2>3, <2>4, TasksStay
<1> QED
  BY <1>5, <1>6, <1>7, <1>8

\* ReadInv is an invariant.
THEOREM ReadInvariant == Spec => []ReadInv
<1>1. Init => ReadInv
  <2> SUFFICES ASSUME Init PROVE ReadInv
    OBVIOUS
  <2>1. crit.resync = [d \in Document |-> None] /\ line = [d \in Document |-> <<>>]
    BY DEF Init, InitialCritical
  <2> QED
    BY <2>1 DEF ReadInv, ReadOf, At, Busy
<1>2. Core /\ CriticalInv /\ GoneInv /\ ReadInv /\ [Next]_vars => ReadInv'
  BY ReadStep
<1> QED
  BY <1>1, <1>2, CoreInvariant, CriticalInvariant, DeliveryInvariant, PTL DEF Spec

\* A replacement is about to be announced, and the document has moved on.
AnnouncesReplacement(d) ==
  /\ At(d, "critical", "asked") \/ (ReadyForResync(d) /\ d \notin crit.recovery)
  /\ ~work[d].owed /\ crit.resync[d] # None
ResyncOvertaken ==
  \E d \in Document :
    d \in db.exists /\ AnnouncesReplacement(d) /\ crit.resync[d].rev # db.rev[d]

\* How a lock may end: its holder leaves, its element or its document is gone, its
\* lease is over, or its holder releases it.
LockEnds(e, x) ==
  \/ held[e][x] \notin present'[e]
  \/ x \notin db.elements[e] \/ e \notin db.exists
  \/ budget'.expire < budget.expire
  \/ At(e, "lock", "authorized") /\ Head(line[e]).do = "release"

\* Who loses a lock as the locks of some sockets are freed has left the document,
\* or had lost the lock before.
LEMMA UnlockLeaves ==
  ASSUME TypeInv, NEW h \in HeldType, NEW S \in SUBSET Socket, NEW d \in Document,
         held' = Unlock(h, S, d), present' = PresentWithout(S, d),
         NEW e \in Document, NEW x \in Element, held[e][x] # None, held'[e][x] # held[e][x]
  PROVE  h[e][x] # held[e][x] \/ held[e][x] \notin present'[e]
<1> SUFFICES ASSUME h[e][x] = held[e][x] PROVE held[e][x] \notin present'[e]
  OBVIOUS
<1>1. held'[e][x] = IF e = d /\ h[d][x] \in S THEN None ELSE h[e][x]
  BY UnlockHeld
<1>2. e = d /\ held[e][x] \in S
  BY <1>1
<1>3. present \in PresentType
  BY DEF TypeInv
<1> QED
  BY <1>2, <1>3, WithoutPresent

\* A synchronisation with the elements of the document frees no lock of theirs.
LEMMA ResyncLeaves ==
  ASSUME TypeInv, NEW d \in Document, NEW w \in Standing, NEW E,
         Broadcast(d, w, Reconciled(d, E), ReconcileNotices(d, E)),
         E = db.elements[d] \/ d \notin db.exists,
         NEW e \in Document, NEW x \in Element, held[e][x] # None, held'[e][x] # held[e][x]
  PROVE  LockEnds(e, x)
<1>1. /\ Reconciled(d, E) \in HeldType /\ ReconcileNotices(d, E) \in Nat
      /\ Reconciled(d, E)[e][x] = IF e = d /\ x \notin E THEN None ELSE held[e][x]
  BY ReconciledHeld DEF TypeInv
<1>2. /\ FencedOut(d) \in SUBSET Socket /\ present' = PresentWithout(FencedOut(d), d)
      /\ held' = Unlock(Reconciled(d, E), FencedOut(d), d)
  BY <1>1, BroadcastStep
<1>3. Reconciled(d, E)[e][x] # held[e][x] \/ held[e][x] \notin present'[e]
  BY <1>1, <1>2, UnlockLeaves
<1> QED
  BY <1>1, <1>3 DEF LockEnds

\* The steps of a task take no lock away that has not ended.
LEMMA LocksTask ==
  ASSUME Core, GoneInv, ReadInv, ~ResyncOvertaken, NEW d \in Document, Serve(d) \/ Fail(d),
         NEW e \in Document, NEW x \in Element, held[e][x] # None, held'[e][x] # held[e][x]
  PROVE  LockEnds(e, x)
<1>1. Base /\ TypeInv /\ held \in HeldType /\ work[d] \in Standing
  BY DEF Core, Base, TypeInv
<1>2. ASSUME NEW S \in SUBSET Socket, held' = Unlock(held, S, d), present' = PresentWithout(S, d)
      PROVE  LockEnds(e, x)
  BY <1>1, <1>2, UnlockLeaves DEF LockEnds
<1>3. CASE TellStart(d)
  <2>1. Idle \in Standing /\ Broadcast(d, Idle, held, 0)
    BY <1>3, IdleStanding DEF TellStart
  <2>2. /\ FencedOut(d) \in SUBSET Socket /\ present' = PresentWithout(FencedOut(d), d)
        /\ held' = Unlock(held, FencedOut(d), d)
    BY <1>1, <2>1, BroadcastStep
  <2> QED
    BY <1>2, <2>2
<1>4. CASE TellEmit(d) \/ CommandEmit(d) \/ CriticalEmit(d)
  <2>1. Revoked(d) \in SUBSET Socket /\ present' = PresentWithout(Revoked(d), d)
        /\ held' = Unlock(held, Revoked(d), d)
    BY <1>1, <1>4, RevokedSockets DEF TellEmit, CommandEmit, CriticalEmit, Emit
  <2> QED
    BY <1>2, <2>1
<1>5. CASE JoinConfirm(d) \/ Fail(d)
  <2>1. held' = held \/ (/\ Head(line[d]).kind = "join" /\ Busy(d)
                         /\ present' = PresentWithout({Caller(d)}, d)
                         /\ held' = Unlock(held, {Caller(d)}, d))
    <3>1. CASE JoinConfirm(d)
      BY <3>1 DEF JoinConfirm, JoinUndone, At
    <3>2. CASE Fail(d)
      <4>1. CASE Head(line[d]).kind = "join"
        BY <3>2, <4>1 DEF Fail, JoinUndone, JoinFails
      <4>2. CASE Head(line[d]).kind = "critical"
        BY <3>2, <4>2 DEF Fail
      <4>3. CASE Head(line[d]).kind \notin {"join", "critical"}
        BY <3>2, <4>3 DEF Fail
      <4> QED
        BY <4>1, <4>2, <4>3
    <3> QED
      BY <1>5, <3>1, <3>2
  <2>2. CASE Head(line[d]).kind = "join" /\ Busy(d)
    <3>1. {Caller(d)} \in SUBSET Socket
      BY <1>1, <2>2, JoinCaller DEF Base
    <3> QED
      BY <1>2, <2>1, <3>1
  <2> QED
    BY <2>1, <2>2
<1>6. CASE CommandBroadcast(d) \/ CriticalCurrent(d)
  <2>1. work[d].elements = db.elements[d]
    BY <1>6 DEF CommandBroadcast, CriticalCurrent, At, ReadInv, ReadOf
  <2>2. \E w \in Standing : Broadcast(d, w, Reconciled(d, work[d].elements), ReconcileNotices(d, work[d].elements))
    <3>1. CASE CriticalCurrent(d)
      <4>1. work[d].found
        BY <3>1 DEF CriticalCurrent
      <4> QED
        BY <1>1, <3>1, <4>1 DEF CriticalCurrent
    <3>2. CASE CommandBroadcast(d)
      <4>1. work[d].found
        BY <3>2 DEF CommandBroadcast
      <4>2. PICK except : except = IF work[d].rev = work[d].reply THEN Caller(d) ELSE None
        OBVIOUS
      <4>3. except \in Socket \cup {None}
        <5>1. Caller(d) \in Socket
          BY <1>1, <3>2, CallerSocket DEF CommandBroadcast, At
        <5> QED
          BY <4>2, <5>1
      <4>4. [work[d] EXCEPT !.except = except] \in Standing
        BY <1>1, <4>3 DEF Standing
      <4> QED
        BY <3>2, <4>1, <4>2, <4>4 DEF CommandBroadcast
    <3> QED
      BY <1>6, <3>1, <3>2
  <2> QED
    BY <1>1, <2>1, <2>2, ResyncLeaves
<1>7. CASE CriticalEvict(d)
  <2>1. PICK F : F = {s \in sock.room[d] : crit.evictions[d][UserOf[s]] # 0 /\ Fenced(s, d)}
    OBVIOUS
  <2>2. F \in SUBSET Socket
    BY <1>1, <2>1, RoomSockets DEF TypeInv
  <2>3. present' = PresentWithout(F, d) /\ held' = Unlock(held, F, d)
    BY <1>7, <2>1 DEF CriticalEvict
  <2> QED
    BY <1>2, <2>2, <2>3
<1>8. CASE CriticalDeleted(d)
  <2>1. held' = [held EXCEPT ![d] = NoLocks] /\ d \notin db.exists
    BY <1>8 DEF CriticalDeleted, GoneInv
  <2>2. e = d
    BY <1>1, <2>1 DEF HeldType
  <2> QED
    BY <2>1, <2>2 DEF LockEnds
<1>9. CASE CriticalDecide(d)
  <2>1. ~work[d].owed /\ crit.resync[d] # None
    BY <1>9 DEF CriticalDecide
  <2>2. AnnouncesReplacement(d)
    BY <1>9, <2>1 DEF CriticalDecide, AnnouncesReplacement
  <2>3. crit.resync[d].elements = db.elements[d] \/ d \notin db.exists
    BY <2>1, <2>2 DEF ResyncOvertaken, ReadInv, ReadOf
  <2>4. PICK change : change = crit.resync[d]
    OBVIOUS
  <2>5. change \in Announcement
    BY <1>1, <2>1, <2>4 DEF TypeInv, CritType
  <2>6. PICK w : w = [Idle EXCEPT !.change = change, !.rev = change.rev]
    OBVIOUS
  <2>7. w \in Standing
    BY <2>5, <2>6, IdleStanding DEF Standing, Announcement
  <2>8. Broadcast(d, w, Reconciled(d, change.elements), ReconcileNotices(d, change.elements))
    BY <1>9, <2>1, <2>4, <2>6 DEF CriticalDecide
  <2> QED
    BY <1>1, <2>3, <2>4, <2>7, <2>8, ResyncLeaves
<1>10. CASE LockServed(d)
  <2>1. PICK s, y, do : s = Caller(d) /\ y = Head(line[d]).el /\ do = Head(line[d]).do
    OBVIOUS
  <2>2. /\ At(d, "lock", "authorized")
        /\ held[d][y] \in (IF do = "acquire" THEN {None, s} ELSE {s})
        /\ held' = [held EXCEPT ![d][y] = IF do = "release" THEN None ELSE s]
    BY <1>10, <2>1 DEF LockServed
  <2>3. e = d /\ x = y /\ held'[e][x] = IF do = "release" THEN None ELSE s
    BY <1>1, <2>2 DEF HeldType
  <2> QED
    BY <2>1, <2>2, <2>3 DEF LockEnds
<1>11. CASE ~(TellStart(d) \/ TellEmit(d) \/ CommandEmit(d) \/ CriticalEmit(d) \/ JoinConfirm(d)
              \/ Fail(d) \/ CommandBroadcast(d) \/ CriticalCurrent(d) \/ CriticalEvict(d)
              \/ CriticalDeleted(d) \/ CriticalDecide(d) \/ LockServed(d))
  <2>1. held' = held
    BY <1>11 DEF Serve, JoinCheck, JoinEnter, JoinRegister, JoinFails, Authorize, CommandProcess,
       CommandCurrent, CommandDelivered, ReplaceTransact, ReplacePublish, DeleteTransact,
       DeletePublish, CriticalAsk, CriticalDelivered
  <2> QED
    BY <2>1
<1> QED
  BY <1>3, <1>4, <1>5, <1>6, <1>7, <1>8, <1>9, <1>10, <1>11

\* Nor does any other step.
LEMMA LocksStep ==
  ASSUME Core, GoneInv, ReadInv, ~ResyncOvertaken, [Next]_vars,
         NEW e \in Document, NEW x \in Element, held[e][x] # None, held'[e][x] # held[e][x]
  PROVE  LockEnds(e, x)
<1>1. Base /\ TypeInv /\ held \in HeldType
  BY DEF Core, Base, TypeInv
<1>2. CASE \E d \in Document : Serve(d) \/ Fail(d)
  BY <1>2, LocksTask
<1>3. ASSUME NEW s \in Socket, NEW d \in Document, Leave(s, d) PROVE LockEnds(e, x)
  <2>1. {s} \in SUBSET Socket /\ held' = Unlock(held, {s}, d) /\ present' = PresentWithout({s}, d)
    BY <1>3 DEF Leave
  <2> QED
    BY <1>1, <2>1, UnlockLeaves DEF LockEnds
<1>4. ASSUME NEW s \in Socket, Leaves(s) PROVE LockEnds(e, x)
  <2>1. held' = [d \in Document |-> Unlock(held, {s}, d)[d]] /\ s \notin present'[e]
    BY <1>4 DEF Leaves
  <2>2. Unlock(held, {s}, e)[e][x] = IF held[e][x] \in {s} THEN None ELSE held[e][x]
    BY <1>1, UnlockHeld
  <2> QED
    BY <2>1, <2>2 DEF LockEnds
<1>5. CASE \E d \in Document, y \in Element : LockExpires(d, y)
  <2>1. budget'.expire = budget.expire - 1 /\ budget.expire \in Nat
    <3>1. budget \in [Events -> Nat] /\ "expire" \in Events
      BY <1>1 DEF TypeInv, Events
    <3>2. budget' = [budget EXCEPT !["expire"] = @ - 1]
      BY <1>5 DEF LockExpires, Spend
    <3> QED
      BY <3>1, <3>2
  <2> QED
    BY <2>1 DEF LockEnds
<1>6. CASE Crash
  BY <1>6 DEF Crash, LockEnds
<1>7. CASE ~(\/ \E d \in Document : Serve(d) \/ Fail(d)
             \/ \E s \in Socket : Leaves(s) \/ \E d \in Document : Leave(s, d)
             \/ \E d \in Document, y \in Element : LockExpires(d, y)
             \/ Crash)
  <2>1. held' = held
    BY <1>7 DEF Next, Housekeeping, Clients, Project, Mishaps, BeginJoin, Expel, Disconnect,
       Reconnect, RequestJoin, RequestDelete, RequestLock, RequestReplace, SendCommand,
       ResendCommand, RemoveMember, GrantMember, DeleteProject, RevokeSession, Publish,
       RetryTimer, ScanAsk, ScanAnswer, vars
  <2> QED
    BY <2>1
<1> QED
  BY <1>2, <1>3, <1>4, <1>5, <1>6, <1>7

\* A lock ends with its lease, its holder or its element: no broadcast and no
\* synchronisation (reconcileDocumentElements) takes away the lock of a live element,
\* as long as no replacement is announced after the document has moved on.
THEOREM LocksOutliveAnnouncements == Spec /\ []~ResyncOvertaken => LocksOutliveResync
<1>1. Core /\ GoneInv /\ ReadInv /\ ~ResyncOvertaken /\ [Next]_vars =>
        (\A d \in Document, e \in Element :
           held[d][e] # None /\ held'[d][e] # held[d][e] =>
             \/ held[d][e] \notin present'[d]
             \/ e \notin db.elements[d] \/ d \notin db.exists
             \/ budget'.expire < budget.expire
             \/ At(d, "lock", "authorized") /\ Head(line[d]).do = "release")
  BY LocksStep DEF LockEnds
<1> QED
  BY <1>1, CoreInvariant, DeliveryInvariant, ReadInvariant, PTL DEF Spec, LocksOutliveResync

\* Nobody knows more of d than its revision, and a replacement that is committed has
\* made a revision that nobody knows yet.
KnownWithin(d) ==
  /\ \A s \in Socket : known[s][d] <= db.rev[d]
  /\ \A o \in Op : ops[o].doc = d => ops[o].base <= db.rev[d]
  /\ work[d].rev <= db.rev[d] /\ work[d].reply <= db.rev[d]
  /\ At(d, "put", "committed") =>
       /\ \A s \in Socket : known[s][d] < db.rev[d]
       /\ \A o \in Op : ops[o].doc = d => ops[o].base < db.rev[d]
KnownInv == \A d \in Document : KnownWithin(d)

\* What a client comes to know of a document is what the task there announces.
Learned(s, e) ==
  \/ known'[s][e] \in {known[s][e], -1}
  \/ /\ Busy(e) /\ Head(line[e]).kind # "put"
     /\ known'[s][e] \in {work[e].rev, work[e].reply, db.rev[e]}

\* The steps of a task tell nothing else.
LEMMA KnownTask ==
  ASSUME Core, NEW d \in Document, Serve(d) \/ Fail(d), NEW s \in Socket, NEW e \in Document
  PROVE  Learned(s, e)
<1>1. Base /\ TypeInv /\ known \in KnownType /\ sock \in SockType /\ work \in [Document -> Standing]
  BY DEF Core, Base, TypeInv
<1>2. Busy(d)
  BY <1>1, TaskEffect
<1>3. ASSUME NEW S \in SUBSET Socket, known' = Forget(S, d) PROVE Learned(s, e)
  BY <1>1, <1>3, ForgetKnown DEF Learned
<1>4. ASSUME NEW w, NEW h, NEW n, Broadcast(d, w, h, n) PROVE Learned(s, e)
  <2>1. known' = Forget(FencedOut(d), d) /\ FencedOut(d) \in SUBSET Socket
    BY <1>1, <1>4, RoomSockets DEF Broadcast, FencedOut
  <2> QED
    BY <1>3, <2>1
<1>5. ASSUME NEW k, NEW r \in Revision, Replies(d, k, r), Head(line[d]).kind \in {"command", "lock"},
             r \in {-1, work[d].reply, db.rev[d]}
      PROVE  Learned(s, e)
  <2>1. known' = Learn(known, {Caller(d)}, d, r)
    BY <1>5 DEF Replies
  <2>2. {Caller(d)} \in SUBSET Socket
    BY <1>1, <1>2, <1>5, CallerSocket
  <2>3. known'[s][e] = known[s][e] \/ (e = d /\ known'[s][e] = r)
    BY <1>1, <2>1, <2>2, LearnKnown
  <2> QED
    BY <1>2, <1>5, <2>3 DEF Learned
<1>6. ASSUME known' = known PROVE Learned(s, e)
  BY <1>6 DEF Learned
<1>7. -1 \in Revision /\ db.rev[d] \in Revision /\ work[d].reply \in Revision /\ work[d].rev \in Revision
  BY <1>1 DEF TypeInv, DatabaseType, Revision, Standing
<1>8. CASE TellStart(d)
  BY <1>4, <1>8 DEF TellStart
<1>9. CASE TellEmit(d) \/ CommandEmit(d) \/ CriticalEmit(d)
  <2>1. known' = Learn(Forget(Revoked(d), d), Reached(d), d, work[d].rev) /\ Head(line[d]).kind # "put"
    BY <1>9 DEF TellEmit, CommandEmit, CriticalEmit, Emit, At
  <2>2. Revoked(d) \in SUBSET Socket /\ Reached(d) \in SUBSET Socket
    BY <1>1, RevokedSockets
  <2>3. PICK k : k = Forget(Revoked(d), d)
    OBVIOUS
  <2>4. k \in KnownType /\ (k[s][e] = known[s][e] \/ k[s][e] = -1)
    <3>1. k \in KnownType
      BY <1>1, <2>2, <2>3, ForgetKnown
    <3>2. k[s][e] = IF s \in Revoked(d) /\ e = d THEN -1 ELSE known[s][e]
      BY <1>1, <2>2, <2>3, ForgetKnown
    <3> QED
      BY <3>1, <3>2
  <2>5. known'[s][e] = k[s][e] \/ (e = d /\ known'[s][e] = work[d].rev)
    BY <1>7, <2>1, <2>2, <2>3, <2>4, LearnKnown
  <2> QED
    BY <1>2, <2>1, <2>4, <2>5 DEF Learned
<1>10. CASE JoinConfirm(d)
  <2>1. Caller(d) \in Socket /\ Head(line[d]).kind # "put"
    BY <1>1, <1>2, <1>10, JoinCaller DEF JoinConfirm, At, Base
  <2>2. CASE known' = Forget({Caller(d)}, d)
    BY <1>3, <2>1, <2>2
  <2>3. CASE known' = [known EXCEPT ![Caller(d)][d] = IF @ > work[d].rev THEN @ ELSE work[d].rev]
    <3>1. known'[s][e] = known[s][e] \/ (e = d /\ known'[s][e] = work[d].rev)
      BY <1>1, <2>1, <2>3 DEF KnownType
    <3> QED
      BY <1>2, <2>1, <3>1 DEF Learned
  <2> QED
    BY <1>10, <2>2, <2>3 DEF JoinConfirm, JoinUndone
<1>11. CASE Authorize(d, "command") \/ Authorize(d, "lock") \/ CommandProcess(d)
            \/ CommandCurrent(d) \/ CommandDelivered(d)
  <2>1. Head(line[d]).kind \in {"command", "lock"}
    BY <1>11 DEF Authorize, CommandProcess, CommandCurrent, CommandDelivered, At
  <2>2. known' = known \/ \E k : \E r \in {-1, work[d].reply, db.rev[d]} : Replies(d, k, r)
    BY <1>11 DEF Authorize, CommandProcess, CommandCurrent, CommandDelivered
  <2> QED
    BY <1>5, <1>6, <1>7, <2>1, <2>2
<1>12. CASE CommandBroadcast(d)
  <2>1. (\E w, h, n : Broadcast(d, w, h, n)) \/ \E k : Replies(d, k, work[d].reply)
    BY <1>12 DEF CommandBroadcast
  <2>2. Head(line[d]).kind = "command"
    BY <1>12 DEF CommandBroadcast, At
  <2> QED
    BY <1>4, <1>5, <1>7, <2>1, <2>2
<1>13. CASE CriticalEvict(d)
  <2>1. PICK F : F = {t \in sock.room[d] : crit.evictions[d][UserOf[t]] # 0 /\ Fenced(t, d)}
    OBVIOUS
  <2>2. F \in SUBSET Socket /\ known' = Forget(F, d)
    BY <1>1, <1>13, <2>1, RoomSockets DEF CriticalEvict
  <2> QED
    BY <1>3, <2>2
<1>14. CASE CriticalDeleted(d)
  <2>1. known' = Forget(sock.room[d], d) /\ sock.room[d] \in SUBSET Socket
    BY <1>1, <1>14, RoomSockets DEF CriticalDeleted
  <2> QED
    BY <1>3, <2>1
<1>15. CASE CriticalDecide(d) \/ CriticalCurrent(d)
  <2>1. known' = known \/ \E w, h, n : Broadcast(d, w, h, n)
    BY <1>15 DEF CriticalDecide, CriticalCurrent
  <2> QED
    BY <1>4, <1>6, <2>1
<1>16. CASE Fail(d)
  <2>1. CASE Head(line[d]).kind = "join"
    <3>1. known' = known \/ known' = Forget({Caller(d)}, d)
      BY <1>16, <2>1 DEF Fail, JoinUndone, JoinFails
    <3>2. {Caller(d)} \in SUBSET Socket
      BY <1>1, <1>2, <2>1, JoinCaller DEF Base
    <3> QED
      BY <1>3, <1>6, <3>1, <3>2
  <2>2. CASE Head(line[d]).kind = "critical"
    BY <1>6, <1>16, <2>2 DEF Fail
  <2>3. CASE Head(line[d]).kind \notin {"join", "critical"}
    BY <1>6, <1>16, <2>3 DEF Fail
  <2> QED
    BY <2>1, <2>2, <2>3
<1>17. CASE JoinCheck(d) \/ JoinEnter(d) \/ JoinRegister(d) \/ LockServed(d) \/ ReplaceTransact(d)
            \/ ReplacePublish(d) \/ DeleteTransact(d) \/ DeletePublish(d) \/ CriticalAsk(d)
            \/ CriticalDelivered(d)
  <2>1. known' = known
    BY <1>17 DEF JoinCheck, JoinEnter, JoinRegister, JoinFails, LockServed, ReplaceTransact,
       ReplacePublish, DeleteTransact, DeletePublish, CriticalAsk, CriticalDelivered
  <2> QED
    BY <1>6, <2>1
<1> QED
  BY <1>8, <1>9, <1>10, <1>11, <1>12, <1>13, <1>14, <1>15, <1>16, <1>17 DEF Serve

\* Nor does any other step.
LEMMA KnownMoves ==
  ASSUME Core, [Next]_vars, NEW s \in Socket, NEW e \in Document
  PROVE  Learned(s, e)
<1>1. Base /\ TypeInv /\ known \in KnownType
  BY DEF Core, Base, TypeInv
<1>2. CASE \E d \in Document : Serve(d) \/ Fail(d)
  BY <1>2, KnownTask
<1>3. ASSUME NEW t \in Socket, NEW d \in Document, Leave(t, d) PROVE Learned(s, e)
  <2>1. known' = known \/ known' = Forget({t}, d)
    BY <1>3 DEF Leave
  <2>2. {t} \in SUBSET Socket
    OBVIOUS
  <2> QED
    BY <1>1, <2>1, <2>2, ForgetKnown DEF Learned
<1>4. ASSUME NEW t \in Socket, Leaves(t) PROVE Learned(s, e)
  <2>1. known' = [known EXCEPT ![t] = [d \in Document |-> -1]]
    BY <1>4 DEF Leaves
  <2> QED
    BY <1>1, <2>1 DEF Learned, KnownType
<1>5. CASE Crash
  BY <1>5 DEF Crash, Strangers, Learned
<1>6. CASE ~(\/ \E d \in Document : Serve(d) \/ Fail(d)
             \/ \E t \in Socket : Leaves(t) \/ \E d \in Document : Leave(t, d)
             \/ Crash)
  <2>1. known' = known
    BY <1>6 DEF Next, Housekeeping, Clients, Project, Mishaps, BeginJoin, Expel, Disconnect,
       Reconnect, RequestJoin, RequestDelete, RequestLock, RequestReplace, SendCommand,
       ResendCommand, RemoveMember, GrantMember, DeleteProject, RevokeSession, Publish,
       RetryTimer, ScanAsk, ScanAnswer, LockExpires, vars
  <2> QED
    BY <2>1 DEF Learned
<1> QED
  BY <1>2, <1>3, <1>4, <1>5, <1>6

\* What an operation is made for is what its client knew as it was sent; the row of
\* an operation is voided with its document only.
RowGoesOn(o) ==
  /\ ops'[o].doc = ops[o].doc /\ ops'[o].base = ops[o].base
  /\ ops[o].rev > 0 /\ ops[o].doc \in db'.exists => ops'[o].rev > 0
RowSent(o) ==
  /\ ops[o].doc = None
  /\ \E s \in Socket : ops'[o].doc \in Document /\ ops'[o].base = known[s][ops'[o].doc]

\* Every step leaves the row of an operation, or sends the operation.
LEMMA RowsMove ==
  ASSUME Core, OpsInv, [Next]_vars, NEW o \in Op
  PROVE  RowGoesOn(o) \/ RowSent(o)
<1>1. Base /\ TypeInv /\ ops \in [Op -> Row] /\ ops[o] \in Row /\ ops[o].rev \in Nat
  <2>1. ops \in [Op -> Row]
    BY DEF Core, Base, TypeInv
  <2> QED
    BY <2>1 DEF Core, Base, Row
<1>2. CASE ops'[o] = ops[o]
  BY <1>2 DEF RowGoesOn
<1>3. ASSUME NEW r, NEW b, ops'[o] = [ops[o] EXCEPT !.rev = r, !.delivered = b],
             ops[o].rev > 0 /\ ops[o].doc \in db'.exists => r > 0
      PROVE  RowGoesOn(o)
  BY <1>1, <1>3 DEF Row, RowGoesOn
<1>4. CASE \E d \in Document : CommandProcess(d)
  <2>1. PICK d \in Document : CommandProcess(d)
    BY <1>4
  <2>2. PICK p : p = Head(line[d]).op
    OBVIOUS
  <2>3. p \in Op /\ (ops' = ops \/ ops' = [ops EXCEPT ![p].rev = ops[p].base + 1])
    BY <1>1, <2>1, <2>2, CommandProcessEffect
  <2>4. ops'[o] = ops[o] \/ ops'[o] = [ops[o] EXCEPT !.rev = ops[p].base + 1]
    BY <1>1, <2>3
  <2>5. CASE ops'[o] = [ops[o] EXCEPT !.rev = ops[p].base + 1]
    <3>1. ops[p].base + 1 > 0
      BY <1>1, <2>3, RowType
    <3> QED
      BY <1>1, <2>5, <3>1 DEF Row, RowGoesOn
  <2> QED
    BY <1>2, <2>4, <2>5
<1>5. ASSUME NEW p, NEW u \in Socket \cup {None}, ops' = Marked(p, u) PROVE RowGoesOn(o)
  <2>1. ops'[o].doc = ops[o].doc /\ ops'[o].base = ops[o].base /\ ops'[o].rev = ops[o].rev
    BY <1>1, <1>5, MarkedRows
  <2> QED
    BY <2>1 DEF RowGoesOn
<1>6. ASSUME NEW d \in Document, CommandDelivered(d) \/ CriticalDelivered(d) \/ Fail(d)
      PROVE  RowGoesOn(o)
  <2>1. CASE CommandDelivered(d)
    BY <1>5, <2>1 DEF CommandDelivered
  <2>2. CASE ops' = AllMarked(d)
    <3>1. ops'[o] = IF o \in Pending(d) THEN [ops[o] EXCEPT !.delivered = TRUE] ELSE ops[o]
      BY <1>1, <2>2, AllMarkedRows
    <3> QED
      BY <1>1, <3>1 DEF Row, RowGoesOn
  <2>3. CASE CriticalDelivered(d)
    BY <2>2, <2>3 DEF CriticalDelivered
  <2>4. CASE Fail(d)
    <3>1. work[d].except \in Socket \cup {None}
      BY <1>1 DEF TypeInv, Standing
    <3>2. ops' = ops \/ ops' = Marked(work[d].op, work[d].except) \/ ops' = AllMarked(d)
      BY <1>1, <2>4, FailEffect DEF MarkHidden
    <3>3. CASE ops' = Marked(work[d].op, work[d].except)
      BY <1>5, <3>1, <3>3
    <3>4. CASE ops' = ops
      BY <3>4 DEF RowGoesOn
    <3> QED
      BY <2>2, <3>2, <3>3, <3>4
  <2> QED
    BY <1>6, <2>1, <2>3, <2>4
<1>7. CASE \E d \in Document : DeleteTransact(d)
  <2>1. PICK d \in Document : DeleteTransact(d)
    BY <1>7
  <2>2. CASE WithoutDocuments({d})
    <3>1. {d} \in SUBSET Document
      OBVIOUS
    <3>2. /\ db'.exists = db.exists \ {d}
          /\ ops'[o] = IF ops[o].doc \in {d}
                         THEN [ops[o] EXCEPT !.rev = 0, !.delivered = FALSE] ELSE ops[o]
      BY <1>1, <2>2, <3>1, WithoutDocumentsType
    <3>3. ops[o].doc = d => ops[o].doc \notin db'.exists
      BY <3>2
    <3> QED
      BY <1>2, <1>3, <3>2, <3>3
  <2>3. CASE ops' = ops
    BY <1>2, <2>3
  <2> QED
    BY <2>1, <2>2, <2>3 DEF DeleteTransact
<1>8. CASE DeleteProject
  <2>1. db'.exists = {} /\ ops'[o] = [ops[o] EXCEPT !.rev = 0, !.delivered = FALSE]
    BY <1>1, <1>8 DEF DeleteProject, TypeInv, DatabaseType
  <2> QED
    BY <1>3, <2>1
<1>9. CASE \E s \in Socket, d \in Document, p \in Op : SendCommand(s, d, p)
  <2>1. PICK s \in Socket, d \in Document, p \in Op : SendCommand(s, d, p)
    BY <1>9
  <2>2. PICK do, x : ops' = [ops EXCEPT ![p] = [@ EXCEPT !.doc = d, !.author = UserOf[s],
                                                        !.base = known[s][d], !.do = do, !.el = x]]
    BY <2>1 DEF SendCommand
  <2>3. ops[p].doc = None
    BY <2>1 DEF SendCommand
  <2>4. CASE o = p
    <3>1. ops'[o].doc = d /\ ops'[o].base = known[s][d]
      BY <1>1, <2>2, <2>4 DEF Row
    <3> QED
      BY <2>3, <2>4, <3>1 DEF RowSent
  <2>5. CASE o # p
    BY <1>1, <1>2, <2>2, <2>5
  <2> QED
    BY <2>4, <2>5
<1>10. CASE ~(\/ \E d \in Document : \/ CommandProcess(d) \/ CommandDelivered(d)
                                     \/ CriticalDelivered(d) \/ DeleteTransact(d) \/ Fail(d)
              \/ DeleteProject \/ \E s \in Socket, d \in Document, p \in Op : SendCommand(s, d, p))
  <2>1. CASE \E d \in Document : Serve(d) \/ Fail(d)
    <3>1. PICK d \in Document :
            Serve(d) /\ ~CommandProcess(d) /\ ~CommandDelivered(d)
              /\ ~CriticalDelivered(d) /\ ~DeleteTransact(d)
      BY <1>10, <2>1
    <3>2. ops' = ops
      <4>1. CASE \/ TellStart(d) \/ TellEmit(d) \/ JoinCheck(d) \/ JoinEnter(d) \/ JoinRegister(d)
                 \/ JoinConfirm(d)
        BY <4>1 DEF TellStart, TellEmit, JoinCheck, JoinEnter, JoinRegister, JoinConfirm
      <4>2. CASE \/ Authorize(d, "command") \/ Authorize(d, "lock") \/ CommandCurrent(d)
                 \/ CommandBroadcast(d) \/ CommandEmit(d) \/ LockServed(d)
        BY <4>2 DEF Authorize, CommandCurrent, CommandBroadcast, CommandEmit, LockServed
      <4>3. CASE ReplaceTransact(d) \/ ReplacePublish(d) \/ DeletePublish(d)
        BY <4>3 DEF ReplaceTransact, ReplacePublish, DeletePublish
      <4>4. CASE \/ CriticalEvict(d) \/ CriticalDeleted(d) \/ CriticalAsk(d) \/ CriticalDecide(d)
                 \/ CriticalCurrent(d) \/ CriticalEmit(d)
        BY <4>4 DEF CriticalEvict, CriticalDeleted, CriticalAsk, CriticalDecide, CriticalCurrent,
                    CriticalEmit
      <4> QED
        BY <3>1, <4>1, <4>2, <4>3, <4>4 DEF Serve
    <3> QED
      BY <1>2, <3>2
  <2>2. CASE ~\E d \in Document : Serve(d) \/ Fail(d)
    <3>1. Housekeeping => ops' = ops
      BY DEF Housekeeping, BeginJoin, Expel, Leaves, Publish, RetryTimer, ScanAsk, ScanAnswer
    <3>2. CASE Clients
      <4>1. PICK s \in Socket :
              \/ Disconnect(s) \/ Reconnect(s)
              \/ \E d \in Document : RequestJoin(s, d) \/ Leave(s, d) \/ RequestDelete(s, d)
              \/ \E p \in Op : ResendCommand(s, p)
              \/ \E d \in Document, x \in Element : RequestLock(s, d, x)
              \/ \E d \in Document, E \in SUBSET Element : RequestReplace(s, d, E)
        BY <1>10, <3>2 DEF Clients
      <4>2. ops' = ops
        BY <4>1 DEF Disconnect, Leaves, Reconnect, RequestJoin, Leave, RequestDelete,
                    ResendCommand, RequestLock, RequestReplace
      <4> QED
        BY <1>2, <4>2
    <3>3. Project /\ ~DeleteProject => ops' = ops
      BY DEF Project, RemoveMember, GrantMember, RevokeSession
    <3>4. (\E d \in Document, x \in Element : LockExpires(d, x)) \/ Crash \/ UNCHANGED vars => ops' = ops
      BY DEF LockExpires, Crash, vars
    <3>5. CASE ~Clients
      <4>1. ops' = ops
        BY <1>10, <2>2, <3>1, <3>3, <3>4, <3>5 DEF Next, Mishaps
      <4> QED
        BY <1>2, <4>1
    <3> QED
      BY <3>2, <3>5
  <2> QED
    BY <2>1, <2>2
<1> QED
  BY <1>4, <1>5, <1>6, <1>7, <1>8, <1>9, <1>10

\* The revision of a document never falls.
LEMMA RevisionsRise ==
  ASSUME Core, [Next]_vars, NEW e \in Document
  PROVE  db.rev[e] \in Nat /\ db'.rev[e] \in Nat /\ db'.rev[e] >= db.rev[e]
<1>1. TypeInv /\ TypeInv'
  BY CoreStep DEF Core, Base
<1>2. db.rev[e] \in Nat /\ db'.rev[e] \in Nat
  BY <1>1 DEF TypeInv, DatabaseType
<1>3. CASE Revises(e)
  BY <1>1, <1>2, <1>3, RevisesOne
<1>4. CASE ~Revises(e)
  BY <1>1, <1>2, <1>4, ContentsKept
<1> QED
  BY <1>2, <1>3, <1>4

\* What a task carries are revisions that its document has had.
LEMMA TaskWithin ==
  ASSUME Core, OpsInv, ReadInv, NEW d \in Document, KnownWithin(d), Serve(d) \/ Fail(d)
  PROVE  work'[d].rev <= db'.rev[d] /\ work'[d].reply <= db'.rev[d]
<1> DEFINE Goal == work'[d].rev <= db'.rev[d] /\ work'[d].reply <= db'.rev[d]
<1>1. Base /\ TypeInv /\ work \in [Document -> Standing] /\ [Next]_vars
  BY DEF Core, Base, TypeInv, Next, Mishaps
<1>2. db.rev[d] \in Nat /\ db'.rev[d] \in Nat /\ db'.rev[d] >= db.rev[d]
  BY <1>1, RevisionsRise
<1>3. /\ work[d].rev <= db.rev[d] /\ work[d].reply <= db.rev[d]
      /\ work[d].rev \in Int /\ work[d].reply \in Int /\ work[d] \in Standing
  BY <1>1 DEF KnownWithin, Standing, Revision
<1>4. ASSUME work'[d].rev \in {-1, work[d].rev, db.rev[d]}, work'[d].reply \in {-1, work[d].reply}
      PROVE  Goal
  BY <1>2, <1>3, <1>4
<1>5. Idle \in Standing /\ Idle.pc = "start" /\ Idle.rev = -1 /\ Idle.reply = -1
  BY IdleStanding DEF Idle
<1>6. CASE work'[d] = Idle
  BY <1>4, <1>5, <1>6
<1>0. ASSUME NEW w \in Standing
      PROVE  Chosen(d, w).rev = w.rev /\ Chosen(d, w).reply = w.reply
  <2>1. sock \in SockType
    BY <1>1 DEF TypeInv
  <2> QED
    BY <2>1, ChosenStanding
<1>7. ASSUME NEW w \in Standing, work'[d] = Chosen(d, w), w.rev \in {-1, work[d].rev, db.rev[d]},
             w.reply \in {-1, work[d].reply}
      PROVE  Goal
  <2>1. work'[d].rev = w.rev /\ work'[d].reply = w.reply
    BY <1>0, <1>7
  <2> QED
    BY <1>4, <1>7, <2>1
<1>8. ASSUME NEW w \in Standing, work'[d] = Read(d, w), w.reply \in {-1, work[d].reply}
      PROVE  Goal
  <2>1. work'[d].rev = db.rev[d] /\ work'[d].reply = w.reply
    BY <1>1, <1>8, ReadStanding
  <2> QED
    BY <1>4, <1>8, <2>1
<1>9. ASSUME work'[d] = [work[d] EXCEPT !.pc = "marking"] PROVE Goal
  <2>1. work'[d].rev = work[d].rev /\ work'[d].reply = work[d].reply
    BY <1>3, <1>9 DEF Standing
  <2> QED
    BY <1>4, <2>1
<1>10. CASE TellStart(d)
  <2>1. work' = [work EXCEPT ![d] = Chosen(d, Idle)]
    BY <1>10 DEF TellStart, Broadcast, FencedOut, Chosen, Goto
  <2>2. work'[d] = Chosen(d, Idle)
    BY <1>1, <2>1
  <2> QED
    BY <1>5, <1>7, <2>2
<1>11. CASE TellEmit(d) \/ LockServed(d) \/ ReplacePublish(d) \/ DeletePublish(d)
  BY <1>1, <1>6, <1>11 DEF TellEmit, LockServed, ReplacePublish, DeletePublish, Done, Goto
<1>12. CASE JoinCheck(d)
  <2>1. CASE work'[d] = [Idle EXCEPT !.pc = "authorized", !.rev = db.rev[d]]
    <3>1. work'[d].rev = db.rev[d] /\ work'[d].reply = -1
      BY <2>1 DEF Idle
    <3> QED
      BY <1>4, <3>1
  <2> QED
    BY <1>1, <1>6, <1>12, <2>1, JoinCheckEffect
<1>13. CASE JoinEnter(d)
  <2>1. CASE work'[d] = [work[d] EXCEPT !.pc = "entered"]
    <3>1. work'[d].rev = work[d].rev /\ work'[d].reply = work[d].reply
      BY <1>3, <2>1 DEF Standing
    <3> QED
      BY <1>4, <3>1
  <2> QED
    BY <1>1, <1>6, <1>13, <2>1, JoinEnterEffect
<1>14. CASE JoinRegister(d)
  <2>1. CASE Done(d)
    BY <1>1, <1>6, <2>1 DEF Done, Goto
  <2>2. ASSUME NEW b, Goto(d, [work[d] EXCEPT !.pc = "registered", !.live = b])
        PROVE  Goal
    <3>1. work'[d] = [work[d] EXCEPT !.pc = "registered", !.live = b]
      BY <1>1, <2>2 DEF Goto
    <3>2. work'[d].rev = work[d].rev /\ work'[d].reply = work[d].reply
      BY <1>3, <3>1 DEF Standing
    <3> QED
      BY <1>4, <3>2
  <2> QED
    BY <1>14, <2>1, <2>2 DEF JoinRegister, JoinFails
<1>15. CASE JoinConfirm(d) \/ CommandDelivered(d) \/ Fail(d)
  BY <1>1, <1>6, <1>15, JoinConfirmEffect, CommandDeliveredEffect, FailEffect
<1>16. CASE Authorize(d, "command") \/ Authorize(d, "lock")
  <2>1. CASE work'[d] = [Idle EXCEPT !.pc = "authorized", !.elements = db.elements[d]]
    <3>1. work'[d].rev = -1 /\ work'[d].reply = -1
      BY <2>1 DEF Idle
    <3> QED
      BY <1>4, <3>1
  <2> QED
    BY <1>1, <1>6, <1>16, <2>1, AuthorizeEffect
<1>17. CASE CommandProcess(d)
  <2>1. PICK o : o = Head(line[d]).op
    OBVIOUS
  <2>2. o \in Op /\ ops[o].doc = d
    BY <1>17, <2>1, CommandCommits
  <2>3. ASSUME NEW owed, NEW r, r <= db'.rev[d],
               work'[d] = [Idle EXCEPT !.pc = "committed", !.op = o, !.reply = r, !.owed = owed]
        PROVE  Goal
    <3>1. work'[d].rev = -1 /\ work'[d].reply = r
      BY <2>3 DEF Idle
    <3> QED
      BY <1>2, <2>3, <3>1
  <2>4. CASE db' = db /\ ops[o].rev > 0
             /\ \E owed \in BOOLEAN : work'[d] = [Idle EXCEPT !.pc = "committed", !.op = o,
                                                              !.reply = ops[o].rev, !.owed = owed]
    <3>1. ops[o].rev <= db'.rev[d]
      BY <2>2, <2>4 DEF OpsInv
    <3> QED
      BY <2>3, <2>4, <3>1
  <2>5. CASE ops[o].base = db.rev[d] /\ db'.rev = [db.rev EXCEPT ![d] = @ + 1]
             /\ \E owed \in BOOLEAN : work'[d] = [Idle EXCEPT !.pc = "committed", !.op = o,
                                                              !.reply = ops[o].base + 1, !.owed = owed]
    <3>1. db'.rev[d] = db.rev[d] + 1
      BY <1>1, <2>5 DEF TypeInv, DatabaseType
    <3>2. ops[o].base + 1 <= db'.rev[d]
      BY <1>2, <2>5, <3>1
    <3> QED
      BY <2>3, <2>5, <3>2
  <2> QED
    BY <1>1, <1>6, <1>17, <2>1, <2>4, <2>5, CommandProcessEffect
<1>18. CASE ReplaceTransact(d)
  <2>1. CASE Rejected(d)
    BY <1>1, <1>6, <2>1 DEF Rejected, Done, Goto
  <2>2. PICK t : t = Head(line[d])
    OBVIOUS
  <2>3. CASE /\ t.base = db.rev[d] /\ db' = [db EXCEPT !.rev[d] = @ + 1, !.elements[d] = t.elements]
             /\ Goto(d, [Idle EXCEPT !.pc = "committed", !.rev = t.base + 1, !.elements = t.elements])
    <3>1. db'.rev[d] = db.rev[d] + 1
      BY <1>1, <2>3 DEF TypeInv, DatabaseType
    <3>2. work'[d].rev = t.base + 1 /\ work'[d].reply = -1
      BY <1>1, <2>3 DEF Goto, Idle
    <3> QED
      BY <1>2, <2>3, <3>1, <3>2
  <2> QED
    BY <1>18, <2>1, <2>2, <2>3 DEF ReplaceTransact
<1>19. CASE DeleteTransact(d)
  <2>1. CASE work'[d] = [Idle EXCEPT !.pc = "committed"]
    <3>1. work'[d].rev = -1 /\ work'[d].reply = -1
      BY <2>1 DEF Idle
    <3> QED
      BY <1>4, <3>1
  <2> QED
    BY <1>1, <1>6, <1>19, <2>1, DeleteTransactEffect
<1>20. CASE CommandCurrent(d)
  BY <1>1, <1>3, <1>6, <1>8, <1>20, CommandCurrentEffect
<1>21. CASE CommandBroadcast(d)
  BY <1>1, <1>6, <1>7, <1>21, CommandBroadcastEffect
<1>22. CASE CommandEmit(d)
  BY <1>1, <1>9, <1>22, CommandEmitEffect
<1>23. CASE CriticalEvict(d) \/ CriticalAsk(d)
  <2>1. work'[d].rev = -1 /\ work'[d].reply = -1
    <3>1. \/ work'[d] = [Idle EXCEPT !.pc = "evicted"]
          \/ \E owed \in BOOLEAN : work'[d] = [Idle EXCEPT !.pc = "asked", !.owed = owed]
      BY <1>1, <1>23, CriticalEvictEffect, CriticalAskEffect
    <3> QED
      BY <3>1 DEF Idle
  <2> QED
    BY <1>4, <2>1
<1>24. CASE CriticalDeleted(d) \/ CriticalDelivered(d)
  BY <1>1, <1>6, <1>24, CriticalDeletedEffect, CriticalDeliveredEffect DEF EndsCritically
<1>25. CASE CriticalDecide(d)
  <2>1. PICK change : change = crit.resync[d]
    OBVIOUS
  <2>2. change \in Announcement \cup {None}
    BY <1>1, <2>1 DEF TypeInv, CritType
  <2>3. CASE work[d].owed
    <3>1. PICK w : w = [Idle EXCEPT !.owed = TRUE, !.change = change]
      OBVIOUS
    <3>2. w \in Standing /\ w.reply = -1
      BY <1>5, <2>2, <3>1 DEF Standing, Idle
    <3>3. Goto(d, Read(d, w))
      BY <1>25, <2>1, <2>3, <3>1 DEF CriticalDecide, ReadCurrent, Read
    <3>4. work'[d] = Read(d, w)
      BY <1>1, <3>3 DEF Goto
    <3> QED
      BY <1>8, <3>2, <3>4
  <2>4. CASE ~work[d].owed /\ change = None
    <3>1. Done(d)
      BY <1>25, <2>1, <2>4 DEF CriticalDecide, EndCritical
    <3> QED
      BY <1>1, <1>6, <3>1 DEF Done, Goto
  <2>5. CASE ~work[d].owed /\ change # None
    <3>1. PICK w : w = [Idle EXCEPT !.change = change, !.rev = change.rev]
      OBVIOUS
    <3>2. change \in Announcement /\ change.rev <= db.rev[d] /\ change.rev \in Int
      BY <2>1, <2>2, <2>5 DEF ReadInv, ReadOf, Announcement, Revision
    <3>3. w \in Standing /\ w.rev = change.rev /\ w.reply = -1
      BY <1>5, <3>1, <3>2 DEF Standing, Announcement, Idle
    <3>4. work' = [work EXCEPT ![d] = Chosen(d, w)]
      BY <1>25, <2>1, <2>5, <3>1 DEF CriticalDecide, Broadcast, FencedOut, Chosen, Goto
    <3>5. work'[d] = Chosen(d, w)
      BY <1>1, <3>4
    <3>6. work'[d].rev = change.rev /\ work'[d].reply = -1
      BY <1>0, <3>3, <3>5
    <3> QED
      BY <1>2, <3>2, <3>6
  <2> QED
    BY <2>3, <2>4, <2>5
<1>26. CASE CriticalCurrent(d)
  BY <1>1, <1>3, <1>7, <1>9, <1>26, CriticalCurrentEffect
<1>27. CASE CriticalEmit(d)
  BY <1>1, <1>6, <1>9, <1>27, CriticalEmitEffect
<1> QED
  BY <1>10, <1>11, <1>12, <1>13, <1>14, <1>15, <1>16, <1>17, <1>18, <1>19, <1>20, <1>21,
     <1>22, <1>23, <1>24, <1>25, <1>26, <1>27 DEF Serve

\* Every step keeps KnownInv.
LEMMA KnownStep ==
  ASSUME Core, OpsInv, ReadInv, KnownInv, [Next]_vars
  PROVE  KnownInv'
<1>1. Base /\ TypeInv /\ TypeInv'
  BY CoreStep DEF Core, Base
<1>2. SUFFICES ASSUME NEW e \in Document PROVE KnownWithin(e)'
  BY DEF KnownInv
<1>3. db.rev[e] \in Nat /\ db'.rev[e] \in Nat /\ db'.rev[e] >= db.rev[e]
  BY RevisionsRise
<1>4. /\ KnownWithin(e) /\ work[e].rev \in Int /\ work[e].reply \in Int
      /\ \A s \in Socket : known[s][e] \in Int
      /\ \A o \in Op : ops[o].base \in Int
  BY <1>1, RowType DEF KnownInv, TypeInv, Standing, Revision, KnownType
<1>5. \A s \in Socket : known'[s][e] <= db'.rev[e]
  <2> SUFFICES ASSUME NEW s \in Socket PROVE known'[s][e] <= db'.rev[e]
    OBVIOUS
  <2>1. known'[s][e] \in {known[s][e], -1, work[e].rev, work[e].reply, db.rev[e]}
    BY KnownMoves DEF Learned
  <2>2. known[s][e] <= db.rev[e] /\ work[e].rev <= db.rev[e] /\ work[e].reply <= db.rev[e]
    BY <1>4 DEF KnownWithin
  <2> QED
    BY <1>3, <1>4, <2>1, <2>2
<1>6. ASSUME NEW o \in Op, ops'[o].doc = e
      PROVE  \/ ops[o].doc = e /\ ops'[o].base = ops[o].base
             \/ \E s \in Socket : ops'[o].base = known[s][e]
  BY <1>6, RowsMove DEF RowGoesOn, RowSent
<1>7. ASSUME NEW o \in Op, ops'[o].doc = e PROVE ops'[o].base <= db'.rev[e]
  BY <1>3, <1>4, <1>6, <1>7 DEF KnownWithin
<1>8. work'[e].rev <= db'.rev[e] /\ work'[e].reply <= db'.rev[e]
  <2>1. CASE work'[e] = Idle
    BY <1>3, <2>1 DEF Idle
  <2>2. CASE work'[e] = work[e]
    BY <1>3, <1>4, <2>2 DEF KnownWithin
  <2>3. CASE Crash
    BY <2>1, <2>3 DEF Crash
  <2>4. CASE Serve(e) \/ Fail(e)
    BY <1>4, <2>4, TaskWithin
  <2> QED
    BY <2>2, <2>3, <2>4, TasksStay DEF Stays
<1>9. ASSUME At(e, "put", "committed")'
      PROVE  /\ \A s \in Socket : known'[s][e] < db'.rev[e]
             /\ \A o \in Op : ops'[o].doc = e => ops'[o].base < db'.rev[e]
  <2>1. ~Crash
    BY <1>9 DEF Crash, At, Busy
  <2>2. CASE Serve(e) \/ Fail(e)
    <3>1. Moves(e) /\ Busy(e)
      BY <1>1, <2>2, TaskEffect
    <3>2. Head(line[e]).kind = "put" /\ work'[e].pc = "committed"
      BY <1>1, <1>9, <3>1, Continues DEF At
    <3>3. Revises(e) \/ DeleteTransact(e)
      BY <1>1, <2>2, <3>2, TaskReads
    <3>4. ReplaceTransact(e)
      BY <3>2, <3>3 DEF Revises, CommandProcess, DeleteTransact, At
    <3>5. ops' = ops /\ known' = known
      BY <3>4 DEF ReplaceTransact
    <3>6. db'.rev[e] = db.rev[e] + 1
      <4>1. work'[e] # Idle
        BY <3>2, IdleStanding
      <4>2. db'.rev = [db.rev EXCEPT ![e] = @ + 1]
        BY <1>1, <3>4, <4>1, ReplaceTransactEffect
      <4> QED
        BY <1>1, <4>2 DEF TypeInv, DatabaseType
    <3> QED
      BY <1>3, <1>4, <3>5, <3>6 DEF KnownWithin
  <2>3. CASE Stays(e)
    <3>1. At(e, "put", "committed")
      BY <1>9, <2>3, StoodBefore DEF Stays
    <3>2. /\ \A s \in Socket : known[s][e] < db.rev[e]
          /\ \A o \in Op : ops[o].doc = e => ops[o].base < db.rev[e]
      BY <1>4, <3>1 DEF KnownWithin
    <3>3. \A s \in Socket : known'[s][e] \in {known[s][e], -1}
      BY <3>1, KnownMoves DEF Learned, At
    <3> QED
      BY <1>3, <1>4, <1>6, <3>2, <3>3
  <2> QED
    BY <2>1, <2>2, <2>3, TasksStay
<1> QED
  BY <1>5, <1>7, <1>8, <1>9 DEF KnownWithin

\* KnownInv is an invariant: no client is ahead of its document.
THEOREM KnownInvariant == Spec => []KnownInv
<1>1. Init => KnownInv
  <2> SUFFICES ASSUME Init, NEW d \in Document PROVE KnownWithin(d)
    BY DEF KnownInv
  <2>1. /\ db.rev[d] = 0 /\ work[d] = Idle /\ line[d] = <<>>
        /\ \A s \in Socket : known[s][d] = -1
        /\ \A o \in Op : ops[o].base = 0
    BY DEF Init, Strangers
  <2>2. work[d].rev = -1 /\ work[d].reply = -1
    BY <2>1 DEF Idle
  <2> QED
    BY <2>1, <2>2 DEF KnownWithin, At, Busy
<1>2. Core /\ OpsInv /\ ReadInv /\ KnownInv /\ [Next]_vars => KnownInv'
  BY KnownStep
<1> QED
  BY <1>1, <1>2, CoreInvariant, OpsInvariant, ReadInvariant, PTL DEF Spec

\* Some command for o stands before the critical task in the line q.
Ahead(q, o) ==
  \E i, j \in 1 .. Len(q) :
    i < j /\ q[i].kind = "command" /\ q[i].op = o /\ q[j].kind = "critical"

\* A line with a critical task gets no command before it as it grows.
LEMMA AheadGrows ==
  ASSUME NEW q \in Seq(Task), NEW r \in Seq(Task), NEW K, Grown(q, r, K),
         \E k \in 1 .. Len(q) : q[k].kind = "critical",
         \A i, j \in 1 .. Len(r) : r[i].kind = "critical" /\ r[j].kind = "critical" => i = j,
         NEW o, Ahead(r, o)
  PROVE  Ahead(q, o)
<1>1. Len(q) \in Nat /\ Len(r) \in Nat /\ Len(q) <= Len(r)
      /\ \A i \in 1 .. Len(q) : r[i] = q[i]
  BY DEF Grown, Longer
<1>2. PICK k \in 1 .. Len(q) : q[k].kind = "critical"
  OBVIOUS
<1>3. PICK i \in 1 .. Len(r), j \in 1 .. Len(r) :
        i < j /\ r[i].kind = "command" /\ r[i].op = o /\ r[j].kind = "critical"
  BY DEF Ahead
<1>4. k \in 1 .. Len(r) /\ r[k].kind = "critical"
  BY <1>1, <1>2
<1>5. j = k
  BY <1>3, <1>4
<1>6. i \in 1 .. Len(q) /\ j \in 1 .. Len(q)
  BY <1>1, <1>2, <1>3, <1>5
<1> QED
  BY <1>1, <1>3, <1>6 DEF Ahead

\* Nor as it loses a head that is not that task.
LEMMA AheadEnds ==
  ASSUME NEW q \in Seq(Task), NEW r \in Seq(Task), NEW K, q # <<>>, Grown(Tail(q), r, K),
         Head(q).kind # "critical",
         \E k \in 1 .. Len(q) : q[k].kind = "critical",
         \A i, j \in 1 .. Len(r) : r[i].kind = "critical" /\ r[j].kind = "critical" => i = j,
         NEW o, Ahead(r, o)
  PROVE  Ahead(q, o)
<1>1. Len(q) \in Nat /\ Len(q) # 0 /\ Head(q) = q[1]
  BY EmptySeq
<1>2. /\ Tail(q) \in Seq(Task) /\ Len(Tail(q)) = Len(q) - 1
      /\ \A i \in 1 .. Len(Tail(q)) : Tail(q)[i] = q[i + 1]
  BY HeadTailProperties
<1>3. PICK k \in 1 .. Len(q) : q[k].kind = "critical"
  OBVIOUS
<1>4. k # 1 /\ k - 1 \in 1 .. Len(Tail(q)) /\ Tail(q)[k - 1].kind = "critical"
  <2>1. k # 1 /\ k - 1 \in 1 .. Len(Tail(q))
    BY <1>1, <1>2, <1>3
  <2>2. Tail(q)[k - 1] = q[k - 1 + 1] /\ k - 1 + 1 = k
    BY <1>2, <2>1
  <2> QED
    BY <1>3, <2>1, <2>2
<1>5. Ahead(Tail(q), o)
  BY <1>2, <1>4, AheadGrows
<1>6. PICK i \in 1 .. Len(Tail(q)), j \in 1 .. Len(Tail(q)) :
        i < j /\ Tail(q)[i].kind = "command" /\ Tail(q)[i].op = o /\ Tail(q)[j].kind = "critical"
  BY <1>5 DEF Ahead
<1>7. i + 1 \in 1 .. Len(q) /\ j + 1 \in 1 .. Len(q) /\ i + 1 < j + 1
  BY <1>1, <1>2, <1>6
<1>8. q[i + 1].kind = "command" /\ q[i + 1].op = o /\ q[j + 1].kind = "critical"
  BY <1>2, <1>6
<1> QED
  BY <1>7, <1>8 DEF Ahead

\* The commands that are before the critical task of d commit nothing any more.
Refused(d) == \A o \in Op : Ahead(line[d], o) => ops[o].rev > 0 \/ ops[o].base < db.rev[d]

\* What a replacement has published of d is announced before the document moves on,
\* or moves on with a newer replacement, and is out of the way once it is announced.
Smooth(d) ==
  /\ crit.resync[d] # None =>
       /\ crit.resync[d].rev = db.rev[d] \/ At(d, "put", "committed")
       /\ Refused(d)
  /\ At(d, "critical", "current") => work[d].found /\ work[d].change = crit.resync[d]
  /\ At(d, "critical", "emit") => work[d].change = crit.resync[d]
  /\ At(d, "critical", "marking") => crit.resync[d] = None
SmoothInv ==
  /\ crit.retry = {}
  /\ \A d \in Document : d \in db.exists => Smooth(d)

\* The failures that delay an announcement: of critical work, which is tried again
\* after the commands that wait, and of a replacement that has committed.
Interrupted ==
  \E d \in Document : Fail(d) /\ Head(line[d]).kind \in {"critical", "put"}

\* No document comes back.
LEMMA ExistsShrinks ==
  ASSUME Core, OpsInv, [Next]_vars
  PROVE  db'.exists \subseteq db.exists
<1>1. Base
  BY DEF Core
<1>2. ASSUME NEW d \in Document, Writes(d) PROVE db'.exists \subseteq db.exists
  <2>1. TypeInv
    BY <1>1 DEF Base
  <2>2. CASE CommandProcess(d)
    BY <2>2, CommandCommits
  <2>3. CASE CommandDelivered(d)
    BY <2>1, <2>3, CommandMarks
  <2>4. CASE ReplaceTransact(d)
    <3>1. db' = db \/ db'.exists = db.exists
      BY <1>1, <2>4, ReplaceTransactEffect
    <3> QED
      BY <3>1
  <2>5. CASE CriticalDelivered(d)
    BY <2>5, CriticalMarks
  <2>6. CASE Hides(d)
    BY <2>6, HiddenMarks
  <2> QED
    BY <1>2, <2>2, <2>3, <2>4, <2>5, <2>6 DEF Writes
<1>3. CASE \E d \in Document : (Serve(d) \/ Fail(d)) /\ ~Writes(d)
  BY <1>3, RowsTask DEF RowsKept
<1>4. CASE ~\E d \in Document : Serve(d) \/ Fail(d)
  BY <1>4, RowsOther DEF RowsKept
<1> QED
  BY <1>2, <1>3, <1>4

\* The line of e keeps its critical task where it is, or one place further on.
LineKeeps(e) ==
  \/ \E K : Grown(line[e], line'[e], K)
  \/ Busy(e) /\ Head(line[e]).kind # "critical" /\ \E K : Grown(Tail(line[e]), line'[e], K)

\* What commits nothing before the critical task will not.
LEMMA RefusedKept ==
  ASSUME Core, OpsInv, CriticalInv, [Next]_vars, NEW e \in Document, e \in db'.exists,
         e \in crit.scheduled, Refused(e), LineKeeps(e)
  PROVE  Refused(e)'
<1>1. Base /\ TypeInv /\ TypeInv' /\ SentInv /\ CriticalInv'
  BY CoreStep, CriticalStep DEF Core, Base
<1>2. line[e] \in Seq(Task) /\ line'[e] \in Seq(Task)
  BY <1>1 DEF TypeInv, LineType
<1>3. \E k \in 1 .. Len(line[e]) : line[e][k].kind = "critical"
  BY DEF CriticalInv, Carries
<1>4. \A i, j \in 1 .. Len(line'[e]) :
        line'[e][i].kind = "critical" /\ line'[e][j].kind = "critical" => i = j
  BY <1>1 DEF CriticalInv, Carries
<1>5. ASSUME NEW o \in Op, Ahead(line'[e], o) PROVE Ahead(line[e], o)
  <2>1. CASE \E K : Grown(line[e], line'[e], K)
    <3>1. PICK K : Grown(line[e], line'[e], K)
      BY <2>1
    <3> QED
      BY <1>2, <1>3, <1>4, <1>5, <3>1, AheadGrows
  <2>2. CASE Busy(e) /\ Head(line[e]).kind # "critical" /\ \E K : Grown(Tail(line[e]), line'[e], K)
    <3>1. PICK K : Grown(Tail(line[e]), line'[e], K)
      BY <2>2
    <3> QED
      BY <1>2, <1>3, <1>4, <1>5, <2>2, <3>1, AheadEnds DEF Busy
  <2> QED
    BY <2>1, <2>2 DEF LineKeeps
<1>6. ASSUME NEW o \in Op, Ahead(line[e], o) PROVE RowGoesOn(o) /\ ops[o].doc = e
  <2>1. ops[o].doc = e
    BY <1>1, <1>6 DEF SentInv, Ahead
  <2> QED
    BY <2>1, RowsMove, NoneAssumption DEF RowSent
<1>7. /\ db.rev[e] \in Nat /\ db'.rev[e] \in Nat /\ db'.rev[e] >= db.rev[e]
      /\ \A o \in Op : ops[o].base \in Nat
  BY <1>1, RevisionsRise, RowType
<1>8. ASSUME NEW o \in Op, Ahead(line'[e], o)
      PROVE  ops'[o].rev > 0 \/ ops'[o].base < db'.rev[e]
  <2>1. Ahead(line[e], o)
    BY <1>5, <1>8
  <2>2. ops[o].rev > 0 \/ ops[o].base < db.rev[e]
    BY <2>1 DEF Refused
  <2>3. RowGoesOn(o) /\ ops[o].doc = e
    BY <1>6, <2>1
  <2> QED
    BY <1>7, <2>2, <2>3 DEF RowGoesOn
<1> QED
  BY <1>8 DEF Refused

\* A change that waits has its critical task, unless the task waits for its retry.
LEMMA WaitsScheduled ==
  ASSUME CriticalInv, crit.retry = {}, NEW e \in Document, crit.resync[e] # None
  PROVE  e \in crit.scheduled
  BY DEF CriticalInv, HasCriticalWork

\* The steps elsewhere leave the announcement of e as it is.
LEMMA SmoothElsewhere ==
  ASSUME Core, OpsInv, CriticalInv, GoneInv, [Next]_vars, ~Crash, crit.retry = {},
         NEW e \in Document, ~(Serve(e) \/ Fail(e)), e \in db'.exists, Smooth(e)
  PROVE  Smooth(e)'
<1>1. Base /\ TypeInv /\ e \in db.exists
  BY ExistsShrinks DEF Core, Base
<1>2. Stays(e)
  BY TasksStay
<1>3. crit'.resync[e] = crit.resync[e]
  BY <1>1, MapsKept DEF ChangeKept, Serve
<1>4. db'.rev[e] = db.rev[e]
  BY <1>1, ContentsKept DEF Revises, Serve
<1>5. At(e, "put", "committed") => At(e, "put", "committed")'
  BY <1>2 DEF Stays, Undisturbed, At, Busy
<1>6. crit.resync[e] # None => Refused(e)'
  <2> SUFFICES ASSUME crit.resync[e] # None PROVE Refused(e)'
    OBVIOUS
  <2>1. e \in crit.scheduled /\ Refused(e)
    BY WaitsScheduled DEF Smooth
  <2>2. LineKeeps(e)
    <3>1. CASE \E K : Grows(K)
      BY <3>1 DEF Grows, GrownBy, LineKeeps
    <3>2. CASE \E d \in Document : Serve(d) \/ Fail(d)
      <4>1. PICK d \in Document : Serve(d) \/ Fail(d)
        BY <3>2
      <4>2. Moves(d) /\ d # e
        BY <1>1, <4>1, TaskEffect
      <4>3. line'[e] = line[e] /\ Len(line[e]) \in Nat
        BY <1>1, <4>2 DEF Moves, Ordinary, GoesOn, Ends, EndsCritically, Elsewhere, TypeInv, LineType
      <4>4. Grown(line[e], line'[e], {})
        BY <4>3 DEF Grown, Longer
      <4> QED
        BY <4>4 DEF LineKeeps
    <3> QED
      BY <3>1, <3>2, StepEffect
  <2> QED
    BY <2>1, <2>2, RefusedKept
<1>7. \A pc \in {"current", "emit", "marking"} :
        At(e, "critical", pc)' => At(e, "critical", pc) /\ work'[e] = work[e]
  BY <1>2, StoodBefore DEF Stays
<1> QED
  BY <1>3, <1>4, <1>5, <1>6, <1>7 DEF Smooth

\* A replacement that is published waits with the current revision, which no
\* command in the line was sent for.
LEMMA SmoothPublish ==
  ASSUME Core, GoneInv, ReadInv, KnownInv, [Next]_vars,
         NEW e \in Document, ReplacePublish(e), e \in db.exists
  PROVE  Smooth(e)'
<1>1. Base /\ TypeInv /\ SentInv' /\ work'[e] = Idle /\ db' = db /\ ops' = ops /\ e \notin crit.deleted
  BY CoreStep, ReplacePublishEffect DEF Core, Base, GoneInv, ReplacePublish
<1>2. At(e, "put", "committed") /\ work[e].rev = db.rev[e] /\ work[e].rev \in Revision
      /\ work[e].elements \in SUBSET Element
  BY <1>1 DEF ReplacePublish, ReadInv, ReadOf, TypeInv, Standing
<1>3. PICK change : change = [rev |-> work[e].rev, elements |-> work[e].elements]
  OBVIOUS
<1>4. crit'.resync[e] = change
  <2>1. PICK c : c = [crit EXCEPT !.resync[e] = change]
    OBVIOUS
  <2>2. change \in Announcement
    BY <1>2, <1>3 DEF Announcement
  <2>3. c \in CritType /\ c.resync[e] = change /\ {e} \in SUBSET Document /\ line \in LineType
    BY <1>1, <2>1, <2>2 DEF TypeInv, CritType
  <2>4. crit' = Scheduling(c, line, {e})
    BY <1>1, <1>3, <2>1 DEF ReplacePublish
  <2> QED
    BY <2>3, <2>4, ScheduledCrit
<1>5. ASSUME NEW o \in Op, Ahead(line'[e], o) PROVE ops'[o].base < db'.rev[e]
  <2>1. ops'[o].doc = e
    BY <1>1, <1>5 DEF SentInv, Ahead
  <2> QED
    BY <1>1, <1>2, <2>1 DEF KnownInv, KnownWithin
<1>6. work'[e].pc = "start" /\ change.rev = db'.rev[e]
  BY <1>1, <1>2, <1>3, IdleStanding
<1> QED
  BY <1>4, <1>5, <1>6 DEF Smooth, Refused, At

\* A command that comes before the critical task commits nothing.
LEMMA RefusedCommits ==
  ASSUME Core, OpsInv, CriticalInv, NEW e \in Document, e \in crit.scheduled, Refused(e),
         CommandProcess(e)
  PROVE  db' = db
<1>1. Base /\ TypeInv
  BY DEF Core, Base
<1>2. line[e] \in Seq(Task) /\ line[e] # <<>> /\ Head(line[e]).kind = "command"
  BY <1>1 DEF TypeInv, LineType, CommandProcess, At, Busy
<1>3. PICK k \in 1 .. Len(line[e]) : line[e][k].kind = "critical"
  BY DEF CriticalInv, Carries
<1>4. PICK o : o = Head(line[e]).op
  OBVIOUS
<1>5. o \in Op
  BY <1>4, CommandCommits
<1>6. Ahead(line[e], o)
  <2>1. /\ 1 \in 1 .. Len(line[e]) /\ 1 < k
        /\ line[e][1].kind = "command" /\ line[e][1].op = o
    BY <1>2, <1>3, <1>4
  <2> QED
    BY <1>3, <2>1 DEF Ahead
<1>7. ops[o].rev > 0 \/ ops[o].base < db.rev[e]
  BY <1>5, <1>6 DEF Refused
<1>8. ops[o].rev \in Nat /\ ops[o].base \in Nat /\ db.rev[e] \in Nat
  BY <1>1, <1>5, RowType
<1> QED
  BY <1>4, <1>7, <1>8, CommandCommits

\* A replacement that has committed is published, unless its acknowledgement fails.
LEMMA CommittedPublishes ==
  ASSUME NEW e \in Document, At(e, "put", "committed"), Serve(e)
  PROVE  ReplacePublish(e)
  BY DEF Serve, At, TellStart, TellEmit, JoinCheck, JoinEnter, JoinRegister, JoinConfirm,
     Authorize, CommandProcess, CommandCurrent, CommandBroadcast, CommandEmit, CommandDelivered,
     LockServed, ReplaceTransact, DeleteTransact, DeletePublish, CriticalEvict, CriticalDeleted,
     ReadyForResync, CriticalAsk, CriticalDecide, CriticalCurrent, CriticalEmit, CriticalDelivered

\* The tasks before the critical one leave what it has to announce.
LEMMA SmoothWaits ==
  ASSUME Core, OpsInv, CriticalInv, GoneInv, [Next]_vars, ~Interrupted, crit.retry = {},
         NEW e \in Document, Serve(e) \/ Fail(e), Head(line[e]).kind # "critical",
         ~ReplacePublish(e), e \in db'.exists, Smooth(e)
  PROVE  Smooth(e)'
<1>1. Base /\ TypeInv /\ Moves(e) /\ Busy(e) /\ e \in db.exists
  BY TaskEffect, ExistsShrinks DEF Core, Base
<1>2. crit'.resync[e] # None => crit'.resync[e] = crit.resync[e]
  BY MapsKept DEF ChangeKept
<1>3. ASSUME NEW pc, pc # "start" PROVE ~At(e, "critical", pc)'
  BY <1>1, <1>3, Continues DEF At
<1>4. ASSUME crit'.resync[e] # None
      PROVE  /\ crit'.resync[e].rev = db'.rev[e] \/ At(e, "put", "committed")'
             /\ Refused(e)'
  <2>1. /\ crit.resync[e] # None /\ crit'.resync[e] = crit.resync[e]
        /\ crit.resync[e].rev = db.rev[e] \/ At(e, "put", "committed")
        /\ Refused(e) /\ e \in crit.scheduled
    BY <1>2, <1>4, WaitsScheduled DEF Smooth
  <2>2. LineKeeps(e)
    BY <1>1 DEF Moves, Ordinary, GoesOn, Ends, EndsCritically, LineKeeps
  <2>3. Refused(e)'
    BY <2>1, <2>2, RefusedKept
  <2>4. CASE ReplaceTransact(e)
    <3>1. At(e, "put", "start") /\ Head(line[e]).kind = "put"
      BY <2>4 DEF ReplaceTransact, At
    <3>2. crit.resync[e].rev = db.rev[e]
      BY <2>1, <3>1 DEF At
    <3>3. db' = db \/ work'[e].pc = "committed"
      BY <1>1, <2>4, ReplaceTransactEffect
    <3>4. CASE work'[e].pc = "committed"
      BY <1>1, <3>1, <3>4, <2>3, Continues DEF At
    <3> QED
      BY <2>1, <2>3, <3>2, <3>3, <3>4
  <2>5. CASE CommandProcess(e)
    <3>1. db' = db /\ ~At(e, "put", "committed")
      BY <2>1, <2>5, RefusedCommits DEF CommandProcess, At
    <3> QED
      BY <2>1, <2>3, <3>1
  <2>6. CASE ~ReplaceTransact(e) /\ ~CommandProcess(e)
    <3>1. db'.rev[e] = db.rev[e]
      BY <1>1, <2>6, ContentsKept DEF Revises
    <3>2. ~At(e, "put", "committed")
      BY CommittedPublishes DEF Interrupted, At
    <3> QED
      BY <2>1, <2>3, <3>1, <3>2
  <2> QED
    BY <2>4, <2>5, <2>6
<1> QED
  BY <1>3, <1>4 DEF Smooth

\* The critical task announces the change that waits, and clears it away.
LEMMA SmoothCritical ==
  ASSUME Core, OpsInv, CriticalInv, GoneInv, [Next]_vars, crit.retry = {},
         NEW e \in Document, Serve(e), Head(line[e]).kind = "critical", e \in db'.exists, Smooth(e)
  PROVE  Smooth(e)'
<1>1. /\ Base /\ TypeInv /\ Moves(e) /\ Busy(e) /\ e \in db.exists /\ e \notin crit.deleted
      /\ work[e] \in Standing /\ work' \in [Document -> Standing]
  <2>1. TypeInv' /\ Base /\ TypeInv
    BY CoreStep DEF Core, Base
  <2> QED
    BY <2>1, TaskEffect, ExistsShrinks DEF GoneInv, TypeInv
<1>2. db'.rev[e] = db.rev[e] /\ ~At(e, "put", "committed")
  BY <1>1, ContentsKept DEF Revises, CommandProcess, ReplaceTransact, At
<1>3. ASSUME crit'.resync[e] = crit.resync[e], work'[e].pc # "start",
             work'[e].pc = "current" => work'[e].found /\ work'[e].change = crit.resync[e],
             work'[e].pc = "emit" => work'[e].change = crit.resync[e], work'[e].pc # "marking"
      PROVE  Smooth(e)'
  <2>1. GoesOn(e)
    BY <1>1, <1>3, IdleStanding DEF Moves, Ordinary, Ends, EndsCritically
  <2>2. crit.resync[e] # None => Refused(e)'
    <3> SUFFICES ASSUME crit.resync[e] # None PROVE Refused(e)'
      OBVIOUS
    <3>1. Refused(e) /\ e \in crit.scheduled
      BY WaitsScheduled DEF Smooth
    <3>2. LineKeeps(e)
      BY <2>1 DEF GoesOn, LineKeeps
    <3> QED
      BY <3>1, <3>2, RefusedKept
  <2>3. crit.resync[e] # None => crit.resync[e].rev = db.rev[e]
    BY <1>2 DEF Smooth
  <2> QED
    BY <1>2, <1>3, <2>2, <2>3 DEF Smooth, At
<1>4. ASSUME crit'.resync[e] = None, work'[e].pc \notin {"current", "emit"} PROVE Smooth(e)'
  BY <1>4 DEF Smooth, At
<1>5. CASE CriticalEvict(e)
  <2>1. crit'.resync = crit.resync
    BY <1>1, <1>5, CompletedCrit DEF CriticalEvict, TypeInv
  <2>2. work'[e].pc = "evicted"
    BY <1>1, <1>5, CriticalEvictEffect DEF Idle
  <2> QED
    BY <1>3, <2>1, <2>2
<1>6. CASE CriticalDeleted(e)
  BY <1>1, <1>6 DEF CriticalDeleted
<1>7. CASE CriticalAsk(e)
  <2>1. crit' = crit
    BY <1>7 DEF CriticalAsk
  <2>2. work'[e].pc = "asked"
    BY <1>1, <1>7, CriticalAsks
  <2> QED
    BY <1>3, <2>1, <2>2
<1>8. CASE CriticalDecide(e)
  <2>1. PICK change : change = crit.resync[e]
    OBVIOUS
  <2>2. PICK c : c = [crit EXCEPT !.recovery = @ \ {e}]
    OBVIOUS
  <2>3. /\ change \in Announcement \cup {None}
        /\ c \in CritType /\ c.resync = crit.resync
    BY <1>1, <2>1, <2>2 DEF TypeInv, CritType
  <2>4. CASE work[e].owed
    <3>1. PICK w : w = [Idle EXCEPT !.owed = TRUE, !.change = change]
      OBVIOUS
    <3>2. w \in Standing /\ w.change = change
      BY <2>3, <3>1, IdleStanding DEF Standing
    <3>3. crit' = crit /\ work' = [work EXCEPT ![e] =
            [w EXCEPT !.pc = "current", !.found = e \in db.exists, !.rev = db.rev[e],
                      !.elements = db.elements[e]]]
      BY <1>8, <2>1, <2>4, <3>1 DEF CriticalDecide, ReadCurrent, Goto
    <3>4. work'[e] = [w EXCEPT !.pc = "current", !.found = e \in db.exists, !.rev = db.rev[e],
                               !.elements = db.elements[e]]
      BY <1>1, <3>3 DEF TypeInv
    <3>5. work'[e].pc = "current" /\ work'[e].found = (e \in db.exists) /\ work'[e].change = change
      BY <3>2, <3>4 DEF Standing
    <3> QED
      BY <1>1, <1>3, <2>1, <3>3, <3>5
  <2>5. CASE ~work[e].owed /\ change = None
    <3>1. EndCritical(c, line, e, FALSE) /\ line[e] # <<>>
      BY <1>1, <1>8, <2>1, <2>2, <2>5 DEF CriticalDecide, Busy
    <3>2. crit'.resync = c.resync /\ work' = [work EXCEPT ![e] = Idle]
      BY <1>1, <2>3, <3>1, EndCriticalStep DEF TypeInv
    <3>3. work'[e].pc = "start"
      BY <1>1, <3>2, IdleStanding DEF TypeInv
    <3> QED
      BY <1>4, <2>1, <2>3, <2>5, <3>2, <3>3
  <2>6. CASE ~work[e].owed /\ change # None
    <3>1. PICK w : w = [Idle EXCEPT !.change = change, !.rev = change.rev]
      OBVIOUS
    <3>2. w \in Standing /\ w.change = change
      BY <2>3, <2>6, <3>1, IdleStanding DEF Standing, Announcement
    <3>3. crit' = c /\ work' = [work EXCEPT ![e] = Chosen(e, w)]
      BY <1>8, <2>1, <2>2, <2>6, <3>1 DEF CriticalDecide, Broadcast, FencedOut, Chosen, Goto
    <3>4. work'[e] = Chosen(e, w)
      BY <1>1, <3>3 DEF TypeInv
    <3>5. Chosen(e, w).pc = "emit" /\ Chosen(e, w).change = w.change
      BY <1>1, <3>2, ChosenStanding DEF TypeInv
    <3> QED
      BY <1>3, <2>1, <2>3, <3>2, <3>3, <3>4, <3>5
  <2> QED
    BY <2>4, <2>5, <2>6
<1>9. CASE CriticalCurrent(e)
  <2>1. At(e, "critical", "current") /\ crit' = crit
    BY <1>9 DEF CriticalCurrent
  <2>2. work[e].found /\ work[e].change = crit.resync[e]
    BY <2>1 DEF Smooth
  <2>3. work'[e] = Chosen(e, work[e])
    BY <1>1, <1>9, <2>2, CriticalCurrentEffect
  <2>4. Chosen(e, work[e]).pc = "emit" /\ Chosen(e, work[e]).change = work[e].change
    <3>1. sock \in SockType
      BY <1>1 DEF TypeInv
    <3> QED
      BY <1>1, <3>1, ChosenStanding
  <2> QED
    BY <1>3, <2>1, <2>2, <2>3, <2>4
<1>10. CASE CriticalEmit(e)
  <2>1. crit.resync[e] = work[e].change
    BY <1>10 DEF CriticalEmit, Smooth
  <2>2. PICK c : c = [crit EXCEPT !.resync[e] = None]
    OBVIOUS
  <2>3. c \in CritType /\ c.resync[e] = None
    BY <1>1, <2>2 DEF TypeInv, CritType
  <2>4. crit' = c \/ EndCritical(c, EmitLine(e), e, FALSE)
    BY <1>10, <2>1, <2>2 DEF CriticalEmit
  <2>5. EmitLine(e) \in LineType /\ EmitLine(e)[e] # <<>>
    <3>1. GrownBy(line, EmitLine(e), {"tell"})
      BY <1>1, EmitLineGrown
    <3> QED
      BY <1>1, <3>1, HeadKept DEF GrownBy, TypeInv, Busy
  <2>6. crit'.resync[e] = None
    BY <1>1, <2>3, <2>4, <2>5, EndCriticalStep
  <2>7. work'[e] = [work[e] EXCEPT !.pc = "marking"] \/ work'[e] = Idle
    BY <1>1, <1>10, CriticalEmitEffect
  <2>8. work'[e].pc \in {"marking", "start"}
    BY <1>1, <2>7, IdleStanding DEF Standing
  <2> QED
    BY <1>4, <2>6, <2>8
<1>11. CASE CriticalDelivered(e)
  <2>1. crit.resync[e] = None
    BY <1>11 DEF CriticalDelivered, Smooth
  <2>2. PICK c : c = [crit EXCEPT !.recovery = @ \ {e}]
    OBVIOUS
  <2>3. c \in CritType /\ c.resync = crit.resync
    BY <1>1, <2>2 DEF TypeInv, CritType
  <2>4. EndCritical(c, line, e, FALSE) /\ line[e] # <<>>
    BY <1>1, <1>11, <2>2 DEF CriticalDelivered, Busy
  <2>5. crit'.resync = c.resync /\ work' = [work EXCEPT ![e] = Idle]
    BY <1>1, <2>3, <2>4, EndCriticalStep DEF TypeInv
  <2>6. work'[e].pc = "start"
    BY <1>1, <2>5, IdleStanding DEF TypeInv
  <2> QED
    BY <1>4, <2>1, <2>3, <2>5, <2>6
<1> QED
  BY <1>5, <1>6, <1>7, <1>8, <1>9, <1>10, <1>11 DEF Serve, At, TellStart, TellEmit, JoinCheck,
     JoinEnter, JoinRegister, JoinConfirm, Authorize, CommandProcess, CommandCurrent,
     CommandBroadcast, CommandEmit, CommandDelivered, LockServed, ReplaceTransact, ReplacePublish,
     DeleteTransact, DeletePublish

\* Every step that is not such a failure keeps SmoothInv.
LEMMA SmoothStep ==
  ASSUME Core, OpsInv, CriticalInv, GoneInv, ReadInv, KnownInv, SmoothInv, [Next]_vars,
         ~Interrupted
  PROVE  SmoothInv'
<1>1. crit.retry = {} /\ \A d \in Document : d \in db.exists => Smooth(d)
  BY DEF SmoothInv
<1>2. crit'.retry = {}
  BY <1>1, MapsKept DEF Interrupted, CriticalFails
<1>3. ASSUME NEW e \in Document, e \in db'.exists PROVE Smooth(e)'
  <2>1. Smooth(e) /\ e \in db.exists
    BY <1>1, <1>3, ExistsShrinks
  <2>2. CASE Crash
    <3>1. crit'.resync[e] = None /\ ~Busy(e)'
      BY <2>2 DEF Crash, InitialCritical, Busy
    <3> QED
      BY <3>1 DEF Smooth, At
  <2>3. CASE Serve(e) \/ Fail(e)
    <3>1. CASE ReplacePublish(e)
      BY <2>1, <3>1, SmoothPublish
    <3>2. CASE ~ReplacePublish(e) /\ Head(line[e]).kind # "critical"
      BY <1>1, <1>3, <2>1, <2>3, <3>2, SmoothWaits
    <3>3. CASE Head(line[e]).kind = "critical"
      <4>1. Serve(e)
        BY <2>3, <3>3 DEF Interrupted
      <4> QED
        BY <1>1, <1>3, <2>1, <3>3, <4>1, SmoothCritical
    <3> QED
      BY <3>1, <3>2, <3>3
  <2>4. CASE ~Crash /\ ~(Serve(e) \/ Fail(e))
    BY <1>1, <1>3, <2>1, <2>4, SmoothElsewhere
  <2> QED
    BY <2>2, <2>3, <2>4
<1> QED
  BY <1>2, <1>3 DEF SmoothInv

\* Unless critical work fails, or the acknowledgement of a replacement is lost, no
\* replacement is announced of a document that has moved on.
THEOREM ResyncInTime == Spec /\ [][~Interrupted]_vars => []~ResyncOvertaken
<1>1. Init => SmoothInv
  BY DEF Init, InitialCritical, SmoothInv, Smooth, At, Busy
<1>2. /\ Core /\ OpsInv /\ CriticalInv /\ GoneInv /\ ReadInv /\ KnownInv /\ SmoothInv
      /\ [Next]_vars /\ [~Interrupted]_vars
      => SmoothInv'
  <2> SUFFICES ASSUME Core, OpsInv, CriticalInv, GoneInv, ReadInv, KnownInv, SmoothInv,
                      [Next]_vars, [~Interrupted]_vars
               PROVE  SmoothInv'
    OBVIOUS
  <2>1. CASE ~Interrupted
    BY <2>1, SmoothStep
  <2>2. CASE UNCHANGED vars
    BY <2>2 DEF vars, SmoothInv, Smooth, Refused, Ahead, At, Busy
  <2> QED
    BY <2>1, <2>2
<1>3. SmoothInv => ~ResyncOvertaken
  BY DEF SmoothInv, Smooth, ResyncOvertaken, AnnouncesReplacement, ReadyForResync, At
<1> QED
  BY <1>1, <1>2, <1>3, CoreInvariant, OpsInvariant, CriticalInvariant, DeliveryInvariant,
     ReadInvariant, KnownInvariant, PTL DEF Spec

\* So then a lock outlives the announcements of other replacements: it ends with its
\* lease, its holder, its element or its document only.
COROLLARY LocksOutliveReplacements == Spec /\ [][~Interrupted]_vars => LocksOutliveResync
  BY ResyncInTime, LocksOutliveAnnouncements

=============================================================================
