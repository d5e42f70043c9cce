------------------------ MODULE GatewaySteps_proofs ------------------------
(***************************************************************************)
(* The steps of CollaborationGateway, one by one: what each does to the    *)
(* lines, to the sockets in the rooms and to what the clients know.  The   *)
(* invariants of the gateway (CollaborationGateway_proofs) are proved from *)
(* these effects, and do not look into the actions again.                  *)
(*                                                                         *)
(* A step of a running task Moves it: it GoesOn, it Ends, or it            *)
(* EndsCritically, when critical work may enter the line as it ends.  Any  *)
(* other step Grows the lines.  Steps take sockets out of rooms, and       *)
(* nobody but a join puts one in: that is Withdrawal, of which Nothing is  *)
(* the case in which nobody leaves.                                        *)
(***************************************************************************)
EXTENDS CollaborationGateway, FiniteSetTheorems, SequenceTheorems, TLAPS

-----------------------------------------------------------------------------
(* The types *)

Task ==
  [kind : {"critical", "tell"}]
  \cup [kind : {"join", "delete"}, sock : Socket]
  \cup [kind : {"command"}, sock : Socket, op : Op]
  \cup [kind : {"lock"}, sock : Socket, el : Element, do : {"acquire", "renew", "release"}]
  \cup [kind : {"put"}, sock : Socket, base : Nat, elements : SUBSET Element]

Revision == Nat \cup {-1}
Announcement == [rev : Revision, elements : SUBSET Element]

Row == [doc : Document \cup {None}, author : User \cup {None}, base : Nat,
        do : {"add", "edit", "remove"}, el : Element \cup {None}, rev : Nat, delivered : BOOLEAN,
        untold : Socket \cup {None}]
DatabaseType == [exists : SUBSET Document, rev : [Document -> Nat],
                 elements : [Document -> SUBSET Element],
                 member : SUBSET User, sessions : SUBSET Session]
ChangeType == [kind : {"granted", "removed", "deleted", "revoked"}, user : User \cup {None},
               n : Removals \cup Nat, docs : SUBSET Document, session : Session \cup {None}]
SockType == [connected : SUBSET Socket, doomed : SUBSET Socket,
             room : [Document -> SUBSET Socket],
             joined : [Socket -> SUBSET Document], pending : [Socket -> SUBSET Document],
             joins : [Socket -> Seq(Document)], turn : SUBSET Socket]
PresentType == [Document -> SUBSET Socket]
HeldType == [Document -> [Element -> Socket \cup {None}]]
LineType == [Document -> Seq(Task)]
Standing == [pc : Steps, live : BOOLEAN, found : BOOLEAN, rev : Revision,
             elements : SUBSET Element, op : Op \cup {None}, reply : Revision,
             owed : BOOLEAN, change : Announcement \cup {None}, except : Socket \cup {None},
             to : SUBSET Socket, dead : SUBSET Socket, allowed : SUBSET Socket]
Removal == Removals \cup {0}
CritType == [fence : [User -> Removal], fenceDocs : [Removals -> SUBSET Document],
             evictions : [Document -> [User -> Removal]],
             deleted : SUBSET Document, resync : [Document -> Announcement \cup {None}],
             scheduled : SUBSET Document, retry : SUBSET Document,
             recovery : SUBSET Document, scan : SUBSET Document]
KnownType == [Socket -> [Document -> Revision]]

TypeInv ==
  /\ db \in DatabaseType
  /\ ops \in [Op -> Row]
  /\ sock \in SockType
  /\ present \in PresentType
  /\ held \in HeldType
  /\ line \in LineType
  /\ work \in [Document -> Standing]
  /\ crit \in CritType
  /\ known \in KnownType
  /\ budget \in [Events -> Nat]
  /\ \A n \in 1 .. budget.remove : n \in Removals
  /\ \A p \in outbox :
       /\ p \in ChangeType
       /\ p.kind \in {"granted", "removed"} => p.user \in User
       /\ p.kind = "removed" => p.n \in Removals

-----------------------------------------------------------------------------
(* Lines *)

Longer(p, q) == Len(p) <= Len(q) /\ \A i \in 1 .. Len(p) : q[i] = p[i]

\* The line q of a document has grown from p by tasks of kinds K; all the lines
\* have grown so.
Grown(p, q, K) == Longer(p, q) /\ \A i \in Len(p) + 1 .. Len(q) : q[i].kind \in K
GrownBy(l, m, K) == m \in LineType /\ \A d \in Document : Grown(l[d], m[d], K)

\* Notify adds broadcasts to one line, within the capacity of standard calls.
LEMMA NotifyLine ==
  ASSUME NEW l \in LineType, NEW d \in Document, NEW n \in Nat
  PROVE  LET m == Notify(l, d, n) IN
         /\ GrownBy(l, m, {"tell"})
         /\ \A e \in Document \ {d} : m[e] = l[e]
         /\ Len(m[d]) <= Len(l[d]) \/ Len(m[d]) <= StandardCapacity
<1> DEFINE free == IF Len(l[d]) < StandardCapacity THEN StandardCapacity - Len(l[d]) ELSE 0
           k == IF n < free THEN n ELSE free
           tells == [i \in 1 .. k |-> Tell]
<1>1. l[d] \in Seq(Task) /\ Len(l[d]) \in Nat
  BY DEF LineType
<1>0. StandardCapacity \in Nat
  BY CapacityAssumption DEF StandardCapacity
<1>2. free \in Nat /\ k \in Nat /\ k <= free
  <2>1. free \in Nat
    BY <1>1, <1>0
  <2> HIDE DEF free
  <2> QED
    BY <2>1
<1>3. Tell \in Task /\ Tell.kind = "tell"
  BY DEF Tell, Task
<1>4. tells \in Seq(Task) /\ Len(tells) = k /\ \A i \in 1 .. k : tells[i] = Tell
  <2> HIDE DEF k
  <2>1. tells \in [1 .. k -> Task]
    BY <1>3
  <2> QED
    BY <2>1, <1>2, <1>3, SeqDef
<1>5. Notify(l, d, n) = [l EXCEPT ![d] = @ \o tells]
  BY DEF Notify
<1> HIDE DEF tells, k
<1>6. /\ l[d] \o tells \in Seq(Task)
      /\ Len(l[d] \o tells) = Len(l[d]) + k
      /\ \A i \in 1 .. Len(l[d]) + k :
           (l[d] \o tells)[i] = IF i <= Len(l[d]) THEN l[d][i] ELSE tells[i - Len(l[d])]
  BY <1>1, <1>4, ConcatProperties
<1>7. \A i \in Len(l[d]) + 1 .. Len(l[d]) + k : (l[d] \o tells)[i] = Tell
  BY <1>1, <1>2, <1>4, <1>6
<1>8. Len(l[d]) + k <= Len(l[d]) \/ Len(l[d]) + k <= StandardCapacity
  BY <1>0, <1>1, <1>2
<1>9. Notify(l, d, n) \in LineType
  BY <1>5, <1>6 DEF LineType
<1> QED
  <2>1. \A e \in Document : l[e] \in Seq(Task) /\ Len(l[e]) \in Nat
    BY DEF LineType
  <2>2. \A e \in Document : Notify(l, d, n)[e] = IF e = d THEN l[d] \o tells ELSE l[e]
    BY <1>5 DEF LineType
  <2>3. ASSUME NEW e \in Document
        PROVE  LET m == Notify(l, d, n) IN
               /\ Longer(l[e], m[e])
               /\ \A i \in Len(l[e]) + 1 .. Len(m[e]) : m[e][i].kind \in {"tell"}
    <3>1. CASE e = d
      <4>1. Notify(l, d, n)[e] = l[d] \o tells
        BY <2>2, <3>1
      <4>2. Longer(l[e], Notify(l, d, n)[e])
        BY <4>1, <1>1, <1>2, <1>6, <3>1 DEF Longer
      <4>3. \A i \in Len(l[e]) + 1 .. Len(Notify(l, d, n)[e]) : Notify(l, d, n)[e][i] = Tell
        BY <4>1, <1>6, <1>7, <3>1
      <4> QED
        BY <4>2, <4>3, <1>3
    <3>2. CASE e # d
      BY <2>1, <2>2, <3>2 DEF Longer
    <3> QED
      BY <3>1, <3>2
  <2> QED
    BY <1>6, <1>8, <1>9, <2>2, <2>3 DEF GrownBy, Grown

\* A task that is appended to a line is its last, and changes no other line.
LEMMA EnqueuedLine ==
  ASSUME NEW l \in LineType, NEW d \in Document, NEW t \in Task
  PROVE  LET m == [l EXCEPT ![d] = Append(@, t)] IN
         /\ m \in LineType
         /\ GrownBy(l, m, {t.kind})
         /\ \A e \in Document \ {d} : m[e] = l[e]
         /\ Len(m[d]) = Len(l[d]) + 1 /\ m[d][Len(m[d])] = t
<1> DEFINE m == [l EXCEPT ![d] = Append(@, t)]
<1>1. \A e \in Document : l[e] \in Seq(Task) /\ Len(l[e]) \in Nat
  BY DEF LineType
<1>2. /\ Append(l[d], t) \in Seq(Task)
      /\ Len(Append(l[d], t)) = Len(l[d]) + 1
      /\ \A i \in 1 .. Len(l[d]) : Append(l[d], t)[i] = l[d][i]
      /\ Append(l[d], t)[Len(l[d]) + 1] = t
  BY <1>1, AppendProperties
<1>3. \A e \in Document : m[e] = IF e = d THEN Append(l[d], t) ELSE l[e]
  BY DEF LineType
<1>4. m \in LineType
  BY <1>2 DEF LineType
<1> HIDE DEF m
<1>5. GrownBy(l, m, {t.kind})
  <2>1. ASSUME NEW e \in Document
        PROVE  /\ Longer(l[e], m[e])
               /\ \A i \in Len(l[e]) + 1 .. Len(m[e]) : m[e][i].kind \in {t.kind}
    <3>1. CASE e = d
      <4>1. m[e] = Append(l[d], t) /\ Len(l[d]) \in Nat
        BY <1>1, <1>3, <3>1
      <4>2. Longer(l[e], m[e])
        BY <4>1, <1>2, <3>1 DEF Longer
      <4>3. \A i \in Len(l[d]) + 1 .. Len(l[d]) + 1 : i = Len(l[d]) + 1
        BY <4>1
      <4>4. \A i \in Len(l[e]) + 1 .. Len(m[e]) : m[e][i] = t
        BY <4>1, <4>3, <1>2, <3>1
      <4> QED
        BY <4>2, <4>4
    <3>2. CASE e # d
      BY <1>1, <1>3, <3>2 DEF Longer
    <3> QED
      BY <3>1, <3>2
  <2> QED
    BY <1>4, <2>1 DEF GrownBy, Grown
<1> QED
  BY <1>1, <1>2, <1>3, <1>4, <1>5 DEF m

\* Pop takes away the first task of one line.
LEMMA PoppedLine ==
  ASSUME NEW l \in LineType, NEW d \in Document, l[d] # <<>>
  PROVE  LET m == Pop(l, d) IN
         /\ m \in LineType
         /\ \A e \in Document \ {d} : m[e] = l[e]
         /\ Len(m[d]) = Len(l[d]) - 1
         /\ \A i \in 1 .. Len(m[d]) : m[d][i] = l[d][i + 1]
<1>1. l[d] \in Seq(Task)
  BY DEF LineType
<1>2. /\ Tail(l[d]) \in Seq(Task) /\ Len(Tail(l[d])) = Len(l[d]) - 1
      /\ \A i \in 1 .. Len(Tail(l[d])) : Tail(l[d])[i] = l[d][i + 1]
  BY <1>1, HeadTailProperties
<1> QED
  BY <1>2 DEF LineType, Pop

\* What the line looks like once the documents D have their critical task.
LEMMA ScheduledLine ==
  ASSUME NEW c \in CritType, NEW l \in LineType, NEW D \in SUBSET Document
  PROVE  LET m == SchedulingLine(c, l, D) IN
         /\ GrownBy(l, m, {"critical"})
         /\ \A d \in Document :
              IF d \in Unscheduled(c, D) /\ Len(l[d]) < Capacity
                THEN m[d] = Append(l[d], Critical) ELSE m[d] = l[d]
<1> DEFINE m == SchedulingLine(c, l, D)
<1>1. \A d \in Document : l[d] \in Seq(Task) /\ Len(l[d]) \in Nat
  BY DEF LineType
<1>2. Critical \in Task /\ Critical.kind = "critical"
  BY DEF Critical, Task
<1>3. \A d \in Document :
        /\ Append(l[d], Critical) \in Seq(Task)
        /\ Len(Append(l[d], Critical)) = Len(l[d]) + 1
        /\ \A i \in 1 .. Len(l[d]) : Append(l[d], Critical)[i] = l[d][i]
        /\ Append(l[d], Critical)[Len(l[d]) + 1] = Critical
  BY <1>1, <1>2, AppendProperties
<1>4. \A d \in Document :
        m[d] = IF d \in Unscheduled(c, D) /\ Len(l[d]) < Capacity
                 THEN Append(l[d], Critical) ELSE l[d]
  BY DEF SchedulingLine
<1>5. m \in LineType
  BY <1>1, <1>3 DEF SchedulingLine, LineType
<1> HIDE DEF m
<1>6. ASSUME NEW d \in Document
      PROVE  /\ Longer(l[d], m[d])
             /\ \A i \in Len(l[d]) + 1 .. Len(m[d]) : m[d][i].kind \in {"critical"}
  <2>1. CASE m[d] = l[d]
    BY <1>1, <2>1 DEF Longer
  <2>2. CASE m[d] = Append(l[d], Critical)
    <3>1. Longer(l[d], m[d])
      BY <1>1, <1>3, <2>2 DEF Longer
    <3>2. \A i \in Len(l[d]) + 1 .. Len(l[d]) + 1 : i = Len(l[d]) + 1
      BY <1>1
    <3>3. \A i \in Len(l[d]) + 1 .. Len(m[d]) : m[d][i] = Critical
      BY <1>3, <2>2, <3>2
    <3> QED
      BY <1>2, <3>1, <3>3
  <2> QED
    BY <1>4, <2>1, <2>2
<1> QED
  BY <1>4, <1>5, <1>6 DEF GrownBy, Grown, m

\* Scheduling changes only which documents are scheduled or wait for their retry.
LEMMA ScheduledCrit ==
  ASSUME NEW c \in CritType, NEW l \in LineType, NEW D \in SUBSET Document
  PROVE  /\ Scheduling(c, l, D) \in CritType
         /\ Scheduling(c, l, D).fence = c.fence
         /\ Scheduling(c, l, D).fenceDocs = c.fenceDocs
         /\ Scheduling(c, l, D).evictions = c.evictions
         /\ Scheduling(c, l, D).deleted = c.deleted
         /\ Scheduling(c, l, D).resync = c.resync
         /\ Scheduling(c, l, D).recovery = c.recovery
         /\ Scheduling(c, l, D).scan = c.scan
  BY DEF Scheduling, Unscheduled, CritType

\* A document becomes scheduled if its line has a place, and waits for its retry
\* otherwise.
LEMMA ScheduledWhere ==
  ASSUME NEW c \in CritType, NEW l \in LineType, NEW D \in SUBSET Document, NEW d \in Document
  PROVE  /\ d \in Scheduling(c, l, D).scheduled <=>
              d \in c.scheduled \/ (d \in Unscheduled(c, D) /\ Len(l[d]) < Capacity)
         /\ d \in Scheduling(c, l, D).retry <=>
              d \in c.retry \/ (d \in Unscheduled(c, D) /\ ~(Len(l[d]) < Capacity))
  BY DEF Scheduling, Unscheduled, CritType

\* A line that grows keeps its head.
LEMMA HeadKept ==
  ASSUME NEW l \in LineType, NEW K, NEW m, GrownBy(l, m, K), NEW d \in Document, l[d] # <<>>
  PROVE  m[d] # <<>> /\ Head(m[d]) = Head(l[d])
<1>1. l[d] \in Seq(Task) /\ m[d] \in Seq(Task) /\ Len(l[d]) \in Nat /\ Len(m[d]) \in Nat
  BY DEF GrownBy, Grown, LineType
<1>2. Len(l[d]) # 0
  BY <1>1, EmptySeq
<1>3. 1 \in 1 .. Len(l[d]) /\ Len(l[d]) <= Len(m[d]) /\ m[d][1] = l[d][1]
  BY <1>1, <1>2 DEF GrownBy, Grown, Longer
<1>4. m[d] # <<>>
  BY <1>1, <1>2, <1>3
<1> QED
  BY <1>1, <1>3, <1>4

\* Lines that grow twice have grown.
LEMMA GrownTwice ==
  ASSUME NEW k \in LineType, NEW l, NEW m, NEW K, GrownBy(k, l, K), GrownBy(l, m, K)
  PROVE  GrownBy(k, m, K)
<1> SUFFICES ASSUME NEW d \in Document
             PROVE  /\ Longer(k[d], m[d])
                    /\ \A i \in Len(k[d]) + 1 .. Len(m[d]) : m[d][i].kind \in K
  BY DEF GrownBy, Grown
<1>1. Len(k[d]) \in Nat /\ Len(l[d]) \in Nat /\ Len(m[d]) \in Nat
  BY DEF GrownBy, Grown, LineType
<1>2. Longer(k[d], m[d])
  BY <1>1 DEF GrownBy, Grown, Longer
<1>3. ASSUME NEW i \in Len(k[d]) + 1 .. Len(m[d]) PROVE m[d][i].kind \in K
  <2>1. CASE i <= Len(l[d])
    BY <1>1, <2>1 DEF GrownBy, Grown, Longer
  <2>2. CASE i > Len(l[d])
    BY <1>1, <2>2 DEF GrownBy, Grown
  <2> QED
    BY <1>1, <2>1, <2>2
<1> QED
  BY <1>2, <1>3

-----------------------------------------------------------------------------
(* The stores *)

\* SockWithout keeps the connections and the chains of joins.
LEMMA WithoutSock ==
  ASSUME sock \in SockType, NEW S \in SUBSET Socket, NEW d \in Document
  PROVE  /\ SockWithout(S, d) \in SockType
         /\ SockWithout(S, d).connected = sock.connected
         /\ SockWithout(S, d).doomed = sock.doomed
         /\ SockWithout(S, d).joins = sock.joins
         /\ SockWithout(S, d).turn = sock.turn
  BY DEF SockWithout, SockType

\* SockWithout takes the sockets S, and nobody else, out of the document d.
LEMMA WithoutRoom ==
  ASSUME sock \in SockType, NEW S \in SUBSET Socket, NEW d \in Document,
         NEW s \in Socket, NEW e \in Document
  PROVE  LET gone == s \in S /\ e = d IN
         /\ s \in SockWithout(S, d).room[e] <=> s \in sock.room[e] /\ ~gone
         /\ e \in SockWithout(S, d).joined[s] <=> e \in sock.joined[s] /\ ~gone
         /\ e \in SockWithout(S, d).pending[s] <=> e \in sock.pending[s] /\ ~gone
  BY DEF SockWithout, SockType

\* Doomed marks the connected sockets of S, and changes nothing else.
LEMMA DoomedSock ==
  ASSUME sock \in SockType, NEW S \in SUBSET Socket
  PROVE  /\ Doomed(S) \in SockType
         /\ Doomed(S).doomed = sock.doomed \cup (S \cap sock.connected)
         /\ Doomed(S).connected = sock.connected /\ Doomed(S).room = sock.room /\ Doomed(S).joined = sock.joined
         /\ Doomed(S).pending = sock.pending /\ Doomed(S).joins = sock.joins /\ Doomed(S).turn = sock.turn
  BY DEF Doomed, SockType

\* Settled ends the first join of s: what is left is the state of the sockets.
LEMMA SettledType ==
  ASSUME NEW k \in SockType, NEW s \in Socket, NEW d \in Document, k.joins[s] # <<>>
  PROVE  Settled(k, s, d) \in SockType
<1>1. Tail(k.joins[s]) \in Seq(Document)
  BY HeadTailProperties DEF SockType
<1> QED
  BY <1>1 DEF Settled, SockType

\* PresentWithout takes the sockets S off the participants of d.
LEMMA WithoutPresent ==
  ASSUME present \in PresentType, NEW S \in SUBSET Socket, NEW d \in Document
  PROVE  /\ PresentWithout(S, d) \in PresentType
         /\ \A s \in Socket, e \in Document :
              s \in PresentWithout(S, d)[e] <=> s \in present[e] /\ ~(s \in S /\ e = d)
  BY DEF PresentWithout, PresentType

\* Unlock frees the locks that the sockets S hold in d.
LEMMA UnlockHeld ==
  ASSUME NEW h \in HeldType, NEW S \in SUBSET Socket, NEW d \in Document
  PROVE  /\ Unlock(h, S, d) \in HeldType
         /\ \A e \in Document, x \in Element :
              Unlock(h, S, d)[e][x] = IF e = d /\ h[d][x] \in S THEN None ELSE h[e][x]
  BY DEF Unlock, HeldType

\* The number of broadcasts that a withdrawal owes is finite.
LEMMA NoticesNat ==
  ASSUME NEW h, NEW S \in SUBSET Socket, NEW d \in Document
  PROVE  Notices(h, S, d) \in Nat
<1>1. S \cap present[d] \in SUBSET Socket /\ {h[d][e] : e \in Element} \cap S \in SUBSET Socket
  OBVIOUS
<1>2. IsFiniteSet(S \cap present[d]) /\ IsFiniteSet({h[d][e] : e \in Element} \cap S)
  BY <1>1, FiniteAssumption, FS_Subset
<1>3. /\ Cardinality(S \cap present[d]) \in Nat
      /\ Cardinality({h[d][e] : e \in Element} \cap S) \in Nat
  BY <1>2, FS_CardinalityType
<1> QED
  BY <1>3 DEF Notices

\* Forget takes from the clients S what they know of d.
LEMMA ForgetKnown ==
  ASSUME known \in KnownType, NEW S \in SUBSET Socket, NEW d \in Document
  PROVE  /\ Forget(S, d) \in KnownType
         /\ \A s \in Socket, e \in Document :
              Forget(S, d)[s][e] = IF s \in S /\ e = d THEN -1 ELSE known[s][e]
  BY DEF Forget, KnownType, Revision

\* Learn raises what the clients S know of d to the revision r, and lowers nothing.
LEMMA LearnKnown ==
  ASSUME NEW k \in KnownType, NEW S \in SUBSET Socket, NEW d \in Document, NEW r \in Revision
  PROVE  /\ Learn(k, S, d, r) \in KnownType
         /\ \A s \in Socket, e \in Document :
              Learn(k, S, d, r)[s][e] =
                IF s \in S /\ e = d /\ k[s][d] \in 0 .. r THEN r ELSE k[s][e]
  BY DEF Learn, KnownType, Revision

\* Reconciled frees the locks of the elements outside E.
LEMMA ReconciledHeld ==
  ASSUME held \in HeldType, NEW d \in Document, NEW E
  PROVE  /\ Reconciled(d, E) \in HeldType
         /\ \A e \in Document, x \in Element :
              Reconciled(d, E)[e][x] = IF e = d /\ x \notin E THEN None ELSE held[e][x]
         /\ ReconcileNotices(d, E) \in Nat
  BY DEF Reconciled, HeldType, ReconcileNotices

-----------------------------------------------------------------------------
(* Broadcasts and critical work *)

\* Who is thrown out when a broadcast chooses its recipients.
FencedOut(d) == IF d \in crit.deleted THEN {} ELSE {s \in sock.room[d] : Fenced(s, d)}
\* Where the task stands that has chosen them.
Chosen(d, w) ==
  LET R == IF d \in crit.deleted THEN {} ELSE sock.room[d] \ FencedOut(d)
  IN [w EXCEPT !.pc = "emit", !.to = R,
               !.dead = {s \in R : ~SessionActive(s)},
               !.allowed = {s \in R : SessionActive(s) /\ Authorized(s, d)}]

\* A room consists of sockets.
LEMMA RoomSockets ==
  ASSUME sock \in SockType, NEW d \in Document
  PROVE  sock.room[d] \in SUBSET Socket
  BY DEF SockType

\* Choosing recipients leaves the rest of what the task carries as it was.
LEMMA ChosenStanding ==
  ASSUME sock \in SockType, NEW d \in Document, NEW w \in Standing
  PROVE  /\ Chosen(d, w) \in Standing
         /\ Chosen(d, w).pc = "emit"
         /\ Chosen(d, w).live = w.live /\ Chosen(d, w).found = w.found
         /\ Chosen(d, w).rev = w.rev /\ Chosen(d, w).elements = w.elements
         /\ Chosen(d, w).op = w.op /\ Chosen(d, w).reply = w.reply
         /\ Chosen(d, w).owed = w.owed /\ Chosen(d, w).change = w.change
         /\ Chosen(d, w).except = w.except
         /\ Chosen(d, w).to = IF d \in crit.deleted THEN {} ELSE sock.room[d] \ FencedOut(d)
         /\ Chosen(d, w).dead = {s \in Chosen(d, w).to : ~SessionActive(s)}
         /\ Chosen(d, w).allowed =
              {s \in Chosen(d, w).to : SessionActive(s) /\ Authorized(s, d)}
<1> DEFINE R == IF d \in crit.deleted THEN {} ELSE sock.room[d] \ FencedOut(d)
           X == {s \in R : ~SessionActive(s)}
           Y == {s \in R : SessionActive(s) /\ Authorized(s, d)}
<1>1. R \in SUBSET Socket
  BY RoomSockets
<1>2. X \in SUBSET Socket /\ Y \in SUBSET Socket
  BY <1>1
<1>3. Chosen(d, w) = [w EXCEPT !.pc = "emit", !.to = R, !.dead = X, !.allowed = Y]
  BY DEF Chosen
<1>4. "emit" \in Steps
  BY DEF Steps
<1>5. Chosen(d, w).to = R /\ Chosen(d, w).dead = X /\ Chosen(d, w).allowed = Y
  <2> HIDE DEF R, X, Y
  <2> QED
    BY <1>3 DEF Standing
<1> HIDE DEF R, X, Y
<1>6. /\ Chosen(d, w) \in Standing
      /\ Chosen(d, w).pc = "emit"
      /\ Chosen(d, w).live = w.live /\ Chosen(d, w).found = w.found
      /\ Chosen(d, w).rev = w.rev /\ Chosen(d, w).elements = w.elements
      /\ Chosen(d, w).op = w.op /\ Chosen(d, w).reply = w.reply
      /\ Chosen(d, w).owed = w.owed /\ Chosen(d, w).change = w.change
      /\ Chosen(d, w).except = w.except
  BY <1>1, <1>2, <1>3, <1>4 DEF Standing
<1> QED
  BY <1>5, <1>6 DEF R, X, Y

\* What the first half of a broadcast does to each store.
LEMMA BroadcastStep ==
  ASSUME TypeInv, NEW d \in Document, NEW w \in Standing, NEW h \in HeldType, NEW n \in Nat,
         Broadcast(d, w, h, n)
  PROVE  /\ FencedOut(d) \in SUBSET Socket
         /\ sock' = SockWithout(FencedOut(d), d)
         /\ present' = PresentWithout(FencedOut(d), d)
         /\ held' = Unlock(h, FencedOut(d), d)
         /\ known' = Forget(FencedOut(d), d)
         /\ GrownBy(line, line', {"tell"})
         /\ \A e \in Document \ {d} : line'[e] = line[e]
         /\ Len(line'[d]) <= Len(line[d]) \/ Len(line'[d]) <= StandardCapacity
         /\ work' = [work EXCEPT ![d] = Chosen(d, w)]
<1>1. FencedOut(d) \in SUBSET Socket
  BY RoomSockets DEF FencedOut, TypeInv
<1>2. n + Notices(h, FencedOut(d), d) \in Nat
  BY <1>1, NoticesNat
<1>3. line' = Notify(line, d, n + Notices(h, FencedOut(d), d))
  BY DEF Broadcast, FencedOut
<1>4. work' = [work EXCEPT ![d] = Chosen(d, w)]
  BY DEF Broadcast, FencedOut, Chosen, Goto
<1>5. /\ sock' = SockWithout(FencedOut(d), d)
      /\ present' = PresentWithout(FencedOut(d), d)
      /\ held' = Unlock(h, FencedOut(d), d)
      /\ known' = Forget(FencedOut(d), d)
  BY DEF Broadcast, FencedOut
<1> QED
  BY <1>1, <1>2, <1>3, <1>4, <1>5, NotifyLine DEF TypeInv

\* The second half of a broadcast is about sockets.
LEMMA RevokedSockets ==
  ASSUME TypeInv, NEW d \in Document
  PROVE  /\ Recipients(d) \in SUBSET Socket
         /\ Revoked(d) \in SUBSET Socket /\ Reached(d) \in SUBSET Socket
         /\ FoundDead(d) \in SUBSET Socket
<1>1. Recipients(d) \in SUBSET Socket
  BY RoomSockets DEF Recipients, TypeInv
<1> QED
  BY <1>1 DEF Revoked, Reached, FoundDead, NowFenced

\* What the second half of a broadcast does to each store.
LEMMA EmitStep ==
  ASSUME TypeInv, NEW d \in Document, Emit(d)
  PROVE  /\ sock' \in SockType /\ present' \in PresentType /\ held' \in HeldType
         /\ known' \in KnownType
         /\ sock'.connected = sock.connected
         /\ sock'.doomed = sock.doomed \cup FoundDead(d)
         /\ sock'.room = SockWithout(Revoked(d), d).room
         /\ sock'.joined = SockWithout(Revoked(d), d).joined
         /\ sock'.pending = SockWithout(Revoked(d), d).pending
         /\ sock'.joins = sock.joins /\ sock'.turn = sock.turn
         /\ present' = PresentWithout(Revoked(d), d)
         /\ held' = Unlock(held, Revoked(d), d)
         /\ \A s \in Socket, e \in Document :
              known'[s][e] =
                IF e = d /\ s \in Revoked(d) THEN -1
                ELSE IF e = d /\ s \in Reached(d) /\ known[s][d] \in 0 .. work[d].rev
                  THEN work[d].rev
                ELSE known[s][e]
<1> DEFINE k == SockWithout(Revoked(d), d)
           f == Forget(Revoked(d), d)
<1>1. /\ Revoked(d) \in SUBSET Socket /\ Reached(d) \in SUBSET Socket
      /\ FoundDead(d) \in SUBSET Socket
  BY RevokedSockets
<1>2. /\ k \in SockType /\ k.connected = sock.connected /\ k.doomed = sock.doomed
      /\ k.joins = sock.joins /\ k.turn = sock.turn
  <2>1. sock \in SockType
    BY DEF TypeInv
  <2> QED
    BY <1>1, <2>1, WithoutSock
<1>3. sock' = [k EXCEPT !.doomed = @ \cup FoundDead(d)]
  BY DEF Emit
<1>4. /\ f \in KnownType
      /\ \A s \in Socket, e \in Document :
           f[s][e] = IF s \in Revoked(d) /\ e = d THEN -1 ELSE known[s][e]
  BY <1>1, ForgetKnown DEF TypeInv
<1>5. work[d].rev \in Revision
  BY DEF TypeInv, Standing
<1>6. known' = Learn(f, Reached(d), d, work[d].rev)
  BY DEF Emit
<1> HIDE DEF f
<1>7. /\ known' \in KnownType
      /\ \A s \in Socket, e \in Document :
           known'[s][e] = IF s \in Reached(d) /\ e = d /\ f[s][d] \in 0 .. work[d].rev
                            THEN work[d].rev ELSE f[s][e]
  BY <1>1, <1>4, <1>5, <1>6, LearnKnown
<1>8. ASSUME NEW s \in Socket, NEW e \in Document
      PROVE  known'[s][e] =
               IF e = d /\ s \in Revoked(d) THEN -1
               ELSE IF e = d /\ s \in Reached(d) /\ known[s][d] \in 0 .. work[d].rev
                 THEN work[d].rev
               ELSE known[s][e]
  <2>1. s \in Revoked(d) => f[s][d] = -1 /\ f[s][d] \notin 0 .. work[d].rev
    BY <1>4, <1>5 DEF Revision
  <2>2. s \notin Revoked(d) => f[s][d] = known[s][d]
    BY <1>4
  <2> QED
    BY <1>4, <1>7, <2>1, <2>2
<1> HIDE DEF k
<1>9. /\ sock' \in SockType /\ sock'.connected = k.connected
      /\ sock'.doomed = k.doomed \cup FoundDead(d) /\ sock'.room = k.room
      /\ sock'.joined = k.joined /\ sock'.pending = k.pending
      /\ sock'.joins = k.joins /\ sock'.turn = k.turn
  BY <1>1, <1>2, <1>3 DEF SockType
<1>10. present' = PresentWithout(Revoked(d), d) /\ held' = Unlock(held, Revoked(d), d)
  BY DEF Emit
<1>11. present' \in PresentType /\ held' \in HeldType
  BY <1>1, <1>10, WithoutPresent, UnlockHeld DEF TypeInv
<1> QED
  BY <1>2, <1>7, <1>8, <1>9, <1>10, <1>11 DEF k

\* The notices of the second half of a broadcast only lengthen the line of d.
LEMMA EmitLineGrown ==
  ASSUME TypeInv, NEW d \in Document
  PROVE  LET m == EmitLine(d) IN
         /\ GrownBy(line, m, {"tell"})
         /\ \A e \in Document \ {d} : m[e] = line[e]
         /\ Len(m[d]) <= Len(line[d]) \/ Len(m[d]) <= StandardCapacity
  BY RevokedSockets, NoticesNat, NotifyLine DEF EmitLine, TypeInv

\* A task that has not begun carries nothing.
LEMMA IdleStanding == Idle \in Standing /\ Idle.pc = "start" /\ Idle.rev = -1 /\ Idle.owed = FALSE
  BY DEF Idle, Standing, Steps, Revision

\* The task at the head of a line.
LEMMA HeadTask ==
  ASSUME TypeInv, NEW d \in Document, Busy(d)
  PROVE  /\ Head(line[d]) \in Task /\ Head(line[d]) = line[d][1]
         /\ Len(line[d]) \in Nat /\ 1 \in 1 .. Len(line[d])
<1>1. line[d] \in Seq(Task) /\ line[d] # <<>>
  BY DEF TypeInv, LineType, Busy
<1>2. Len(line[d]) \in Nat /\ Len(line[d]) # 0
  BY <1>1, EmptySeq
<1> QED
  BY <1>1, <1>2, HeadTailProperties

\* The fields that a task of each kind has.
LEMMA TaskFields ==
  ASSUME NEW t \in Task
  PROVE  /\ t.kind \in Kinds
         /\ t.kind \notin {"critical", "tell"} => t.sock \in Socket
         /\ t.kind = "command" => t.op \in Op
         /\ t.kind = "lock" => t.el \in Element /\ t.do \in {"acquire", "renew", "release"}
         /\ t.kind = "put" => t.base \in Nat /\ t.elements \in SUBSET Element
  BY DEF Task, Kinds

\* Where a critical task leaves the maps c and the line l.
LEMMA EndCriticalStep ==
  ASSUME TypeInv, NEW d \in Document, NEW c \in CritType, NEW l \in LineType, l[d] # <<>>,
         NEW failed \in BOOLEAN, EndCritical(c, l, d, failed)
  PROVE  /\ crit' \in CritType /\ line' \in LineType
         /\ work' = [work EXCEPT ![d] = Idle]
         /\ crit'.fence = c.fence /\ crit'.fenceDocs = c.fenceDocs
         /\ crit'.evictions = c.evictions /\ crit'.deleted = c.deleted
         /\ crit'.resync = c.resync /\ crit'.recovery = c.recovery /\ crit'.scan = c.scan
<1> DEFINE c1 == [c EXCEPT !.scheduled = @ \ {d}]
           l1 == Pop(l, d)
           again == HasCriticalWork(c1, d)
<1>1. /\ c1 \in CritType
      /\ c1.fence = c.fence /\ c1.fenceDocs = c.fenceDocs /\ c1.evictions = c.evictions
      /\ c1.deleted = c.deleted /\ c1.resync = c.resync /\ c1.recovery = c.recovery
      /\ c1.scan = c.scan
  BY DEF CritType
<1>2. l1 \in LineType
  BY PoppedLine
<1>3. SchedulingLine(c1, l1, {d}) \in LineType
  BY <1>1, <1>2, ScheduledLine DEF GrownBy, Grown
<1>4. /\ Scheduling(c1, l1, {d}) \in CritType
      /\ Scheduling(c1, l1, {d}).fence = c1.fence
      /\ Scheduling(c1, l1, {d}).fenceDocs = c1.fenceDocs
      /\ Scheduling(c1, l1, {d}).evictions = c1.evictions
      /\ Scheduling(c1, l1, {d}).deleted = c1.deleted
      /\ Scheduling(c1, l1, {d}).resync = c1.resync
      /\ Scheduling(c1, l1, {d}).recovery = c1.recovery
      /\ Scheduling(c1, l1, {d}).scan = c1.scan
  <2> HIDE DEF c1, l1
  <2>1. {d} \in SUBSET Document
    OBVIOUS
  <2> QED
    BY <1>1, <1>2, <2>1, ScheduledCrit
<1>5. /\ crit' = IF ~again THEN c1
                 ELSE IF failed THEN [c1 EXCEPT !.retry = @ \cup {d}]
                 ELSE Scheduling(c1, l1, {d})
      /\ line' = IF again /\ ~failed THEN SchedulingLine(c1, l1, {d}) ELSE l1
      /\ work' = [work EXCEPT ![d] = Idle]
  BY DEF EndCritical, Done, Goto
<1> HIDE DEF c1, l1, again
<1>6. line' \in LineType
  BY <1>2, <1>3, <1>5
<1>7. CASE ~again
  BY <1>1, <1>5, <1>6, <1>7
<1>8. CASE again /\ failed
  BY <1>1, <1>5, <1>6, <1>8 DEF CritType
<1>9. CASE again /\ ~failed
  BY <1>1, <1>4, <1>5, <1>6, <1>9
<1> QED
  BY <1>7, <1>8, <1>9

\* Completed changes fences and the evictions of d only.
LEMMA CompletedCrit ==
  ASSUME NEW c \in CritType, NEW d \in Document
  PROVE  /\ Completed(c, d) \in CritType
         /\ Completed(c, d).deleted = c.deleted /\ Completed(c, d).resync = c.resync
         /\ Completed(c, d).scheduled = c.scheduled /\ Completed(c, d).retry = c.retry
         /\ Completed(c, d).recovery = c.recovery /\ Completed(c, d).scan = c.scan
         /\ Completed(c, d).evictions = [c.evictions EXCEPT ![d] = NoEvictions]
<1> DEFINE n(u) == c.evictions[d][u]
           left(m) == IF \E u \in User : n(u) = m THEN c.fenceDocs[m] \ {d} ELSE c.fenceDocs[m]
           over(u) == n(u) # 0 /\ c.fenceDocs[n(u)] # {} /\ left(n(u)) = {}
           docs == [m \in DOMAIN c.fenceDocs |-> left(m)]
           fence == [u \in User |-> IF over(u) /\ c.fence[u] = n(u) THEN 0 ELSE c.fence[u]]
           evictions == [c.evictions EXCEPT ![d] = NoEvictions]
<1>1. docs \in [Removals -> SUBSET Document]
  BY DEF CritType
<1>2. fence \in [User -> Removal]
  <2> HIDE DEF over
  <2> QED
    BY DEF CritType, Removal
<1>3. evictions \in [Document -> [User -> Removal]]
  BY DEF CritType, NoEvictions, Removal
<1>4. Completed(c, d) = [c EXCEPT !.evictions = evictions, !.fenceDocs = docs, !.fence = fence]
  BY DEF Completed
<1> HIDE DEF docs, fence, evictions
<1>5. /\ Completed(c, d) \in CritType
      /\ Completed(c, d).deleted = c.deleted /\ Completed(c, d).resync = c.resync
      /\ Completed(c, d).scheduled = c.scheduled /\ Completed(c, d).retry = c.retry
      /\ Completed(c, d).recovery = c.recovery /\ Completed(c, d).scan = c.scan
      /\ Completed(c, d).evictions = evictions
  BY <1>1, <1>2, <1>3, <1>4 DEF CritType
<1> QED
  BY <1>5 DEF evictions

\* GoneFrom adds to the deleted documents and drops their resyncs.
LEMMA GoneCrit ==
  ASSUME NEW c \in CritType, NEW D \in SUBSET Document
  PROVE  /\ GoneFrom(c, D) \in CritType
         /\ GoneFrom(c, D).deleted = c.deleted \cup D
         /\ GoneFrom(c, D).scheduled = c.scheduled /\ GoneFrom(c, D).retry = c.retry
         /\ GoneFrom(c, D).recovery = c.recovery /\ GoneFrom(c, D).scan = c.scan
         /\ GoneFrom(c, D).evictions = c.evictions
         /\ \A d \in Document : GoneFrom(c, D).resync[d] = IF d \in D THEN None ELSE c.resync[d]
  BY DEF GoneFrom, CritType

\* Fence changes fences and the evictions of the documents D only.
LEMMA FenceCrit ==
  ASSUME NEW c \in CritType, NEW u \in User, NEW n \in Nat, NEW D \in SUBSET Document,
         D # {} => n \in Removals
  PROVE  /\ Fence(c, u, n, D) \in CritType
         /\ Fence(c, u, n, D).deleted = c.deleted /\ Fence(c, u, n, D).resync = c.resync
         /\ Fence(c, u, n, D).scheduled = c.scheduled /\ Fence(c, u, n, D).retry = c.retry
         /\ Fence(c, u, n, D).recovery = c.recovery /\ Fence(c, u, n, D).scan = c.scan
         /\ \A d \in Document :
              d \notin D => Fence(c, u, n, D).evictions[d] = c.evictions[d]
<1> DEFINE docs == [m \in DOMAIN c.fenceDocs |->
                      IF m = n THEN D ELSE IF m = c.fence[u] THEN {} ELSE c.fenceDocs[m]]
           fence == [c.fence EXCEPT ![u] = IF D = {} THEN 0 ELSE n]
           evictions == [d \in Document |->
                           IF d \in D THEN [c.evictions[d] EXCEPT ![u] = n] ELSE c.evictions[d]]
<1>1. docs \in [Removals -> SUBSET Document]
  BY DEF CritType
<1>2. fence \in [User -> Removal]
  BY DEF CritType, Removal
<1>3. evictions \in [Document -> [User -> Removal]]
  BY DEF CritType, Removal
<1>4. Fence(c, u, n, D) = [c EXCEPT !.fence = fence, !.fenceDocs = docs, !.evictions = evictions]
  BY DEF Fence, CritType
<1>5. \A d \in Document : d \notin D => evictions[d] = c.evictions[d]
  OBVIOUS
<1> HIDE DEF docs, fence, evictions
<1> QED
  BY <1>1, <1>2, <1>3, <1>4, <1>5 DEF CritType

-----------------------------------------------------------------------------
(* Types *)

\* A join in a line is the oldest join of its socket, which waits its turn, and
\* the only one of the socket in any line.
TurnInv ==
  /\ \A d \in Document : \A i \in 1 .. Len(line[d]) :
       LET t == line[d][i] IN
       t.kind = "join" => /\ t.sock \in sock.turn
                          /\ sock.joins[t.sock] # <<>>
                          /\ Head(sock.joins[t.sock]) = d
  /\ \A d \in Document : \A i, j \in 1 .. Len(line[d]) :
       /\ line[d][i].kind = "join" /\ line[d][j].kind = "join"
       /\ line[d][i].sock = line[d][j].sock
       => i = j

\* Goto moves the task of d only.
LEMMA Goes ==
  ASSUME TypeInv, NEW d \in Document, NEW w \in Standing, work' = [work EXCEPT ![d] = w]
  PROVE  /\ work' \in [Document -> Standing]
         /\ work'[d] = w
         /\ \A e \in Document : e # d => work'[e] = work[e]
  BY DEF TypeInv

\* The caller of a join.
LEMMA JoinCaller ==
  ASSUME TypeInv, TurnInv, NEW d \in Document, Busy(d), Head(line[d]).kind = "join"
  PROVE  /\ Caller(d) \in Socket
         /\ sock.joins[Caller(d)] # <<>> /\ Head(sock.joins[Caller(d)]) = d
         /\ Caller(d) \in sock.turn
<1>1. Head(line[d]) \in Task /\ Head(line[d]) = line[d][1] /\ 1 \in 1 .. Len(line[d])
  BY HeadTask
<1> QED
  BY <1>1, TaskFields DEF TurnInv, Caller

-----------------------------------------------------------------------------
(* What a step does to the lines, and to the sockets in the rooms *)

\* A join keeps its place in the chain of its socket.
JoinsKept(s) ==
  s \in sock.turn =>
    /\ s \in sock'.turn
    /\ sock.joins[s] # <<>> =>
         sock'.joins[s] # <<>> /\ Head(sock'.joins[s]) = Head(sock.joins[s])

\* The task at the head of d goes on, or ends; broadcasts are appended to the
\* line, within the capacity of standard calls.  Nothing happens in other lines.
Elsewhere(d) ==
  /\ line' \in LineType /\ work' \in [Document -> Standing]
  /\ \A e \in Document : e # d => line'[e] = line[e] /\ work'[e] = work[e]
GoesOn(d) ==
  /\ Elsewhere(d) /\ Grown(line[d], line'[d], {"tell"})
  /\ Len(line'[d]) <= Len(line[d]) \/ Len(line'[d]) <= StandardCapacity
  /\ \A s \in Socket : JoinsKept(s)
Ends(d) ==
  /\ Elsewhere(d) /\ work'[d] = Idle /\ Grown(Tail(line[d]), line'[d], {"tell"})
  /\ Len(line'[d]) < Len(line[d]) \/ Len(line'[d]) < StandardCapacity
  /\ \A s \in Socket : JoinsKept(s) \/ (Head(line[d]).kind = "join" /\ s = Caller(d))

\* As Ends, but the line may be given a critical task too.
EndsCritically(d) ==
  /\ Elsewhere(d) /\ work'[d] = Idle /\ Grown(Tail(line[d]), line'[d], {"tell", "critical"})
  /\ \A s \in Socket : JoinsKept(s)
Ordinary(d) == GoesOn(d) \/ Ends(d)
Moves(d) == Ordinary(d) \/ EndsCritically(d)

\* The sockets S are taken out of the documents D: out of the rooms, the sets of
\* joined documents, the presence and the locks.  Nobody enters, only participants
\* gain a lock, and no other client forgets a revision.
Withdrawn(S, D) ==
  /\ \A s \in Socket, e \in Document :
       LET gone == s \in S /\ e \in D IN
       /\ s \in sock'.room[e] <=> s \in sock.room[e] /\ ~gone
       /\ e \in sock'.joined[s] <=> e \in sock.joined[s] /\ ~gone
       /\ s \in present'[e] <=> s \in present[e] /\ ~gone
       /\ ~gone => known'[s][e] >= known[s][e]
  /\ \A e \in Document, x \in Element :
       \/ held'[e][x] \in {None} \cup present'[e]
       \/ held'[e][x] = held[e][x] /\ ~(held[e][x] \in S /\ e \in D)
  /\ \A s \in sock.connected : s \in sock'.connected \/ (s \in S /\ D = Document)
  /\ sock'.doomed \subseteq sock'.connected
Nothing == Withdrawn({}, {})
Withdrawal == \E S \in SUBSET Socket, D \in SUBSET Document : Withdrawn(S, D)

\* The sockets are where the stores say.
RoomInv ==
  /\ sock.doomed \subseteq sock.connected
  /\ \A d \in Document, s \in Socket :
       /\ (d \in sock.joined[s]) <=> (s \in present[d])
       /\ d \in sock.joined[s] => s \in sock.room[d]
       /\ s \in sock.room[d] =>
            /\ s \in sock.connected
            /\ d \in sock.joined[s] \/ Entering(s, d)

\* A line without a task stands nowhere.
IdleInv == \A d \in Document : ~Busy(d) => work[d] = Idle

\* A command in a line is for an operation that was sent for its document.
SentInv ==
  /\ \A o \in Op : ops[o].doc # None => ops[o].el \in Element
  /\ \A d \in Document : \A i \in 1 .. Len(line[d]) :
       line[d][i].kind = "command" => ops[line[d][i].op].doc = d

Base ==
  TypeInv /\ TurnInv /\ SentInv /\ RoomInv /\ LocksHeldByParticipants /\ IdleInv

\* A revision is a number, and at least -1.
LEMMA RevisionsGrow ==
  ASSUME NEW a \in Revision
  PROVE  a >= a /\ a >= -1 /\ a \in Int
  BY DEF Revision

\* A line that has grown and lost its head has grown from its tail.
LEMMA TailGrown ==
  ASSUME NEW l \in LineType, NEW m, NEW K, GrownBy(l, m, K),
         NEW d \in Document, l[d] # <<>>
  PROVE  /\ Pop(m, d) \in LineType
         /\ \A e \in Document : e # d => Pop(m, d)[e] = m[e]
         /\ Len(Pop(m, d)[d]) = Len(m[d]) - 1
         /\ Grown(Tail(l[d]), Pop(m, d)[d], K)
<1>1. /\ l[d] \in Seq(Task) /\ m[d] \in Seq(Task)
      /\ Len(l[d]) \in Nat /\ Len(m[d]) \in Nat
  BY DEF GrownBy, LineType
<1>2. Len(l[d]) # 0
  BY <1>1, EmptySeq
<1>3. m[d] # <<>> /\ m \in LineType
  BY HeadKept DEF GrownBy
<1>4. /\ Pop(m, d) \in LineType
      /\ \A e \in Document \ {d} : Pop(m, d)[e] = m[e]
      /\ Len(Pop(m, d)[d]) = Len(m[d]) - 1
      /\ \A i \in 1 .. Len(Pop(m, d)[d]) : Pop(m, d)[d][i] = m[d][i + 1]
  BY <1>3, PoppedLine
<1>5. /\ Len(Tail(l[d])) = Len(l[d]) - 1
      /\ \A i \in 1 .. Len(Tail(l[d])) : Tail(l[d])[i] = l[d][i + 1]
  BY <1>1, <1>2, HeadTailProperties
<1>6. Grown(l[d], m[d], K)
  BY DEF GrownBy
<1>7. Longer(Tail(l[d]), Pop(m, d)[d])
  <2>1. Len(l[d]) <= Len(m[d]) /\ \A i \in 1 .. Len(l[d]) : m[d][i] = l[d][i]
    BY <1>6 DEF Grown, Longer
  <2>2. Len(Tail(l[d])) <= Len(Pop(m, d)[d])
    BY <1>1, <1>4, <1>5, <2>1
  <2>3. ASSUME NEW i \in 1 .. Len(Tail(l[d]))
        PROVE  Pop(m, d)[d][i] = Tail(l[d])[i]
    <3>1. i \in 1 .. Len(Pop(m, d)[d]) /\ i + 1 \in 1 .. Len(l[d])
      BY <1>1, <1>4, <1>5, <2>1
    <3> QED
      BY <1>4, <1>5, <2>1, <3>1
  <2> QED
    BY <2>2, <2>3 DEF Longer
<1>8. ASSUME NEW i \in Len(Tail(l[d])) + 1 .. Len(Pop(m, d)[d])
      PROVE  Pop(m, d)[d][i].kind \in K
  <2>1. i \in 1 .. Len(Pop(m, d)[d]) /\ i + 1 \in Len(l[d]) + 1 .. Len(m[d])
    BY <1>1, <1>2, <1>4, <1>5
  <2> QED
    BY <1>4, <1>6, <2>1 DEF Grown
<1>9. Grown(Tail(l[d]), Pop(m, d)[d], K)
  BY <1>7, <1>8 DEF Grown
<1> QED
  BY <1>4, <1>9

\* How the line of d is left by a task that ends, after the line has grown to m.
LEMMA EndedLine ==
  ASSUME TypeInv, NEW d \in Document, Busy(d), NEW m,
         GrownBy(line, m, {"tell"}),
         \A e \in Document \ {d} : m[e] = line[e],
         Len(m[d]) <= Len(line[d]) \/ Len(m[d]) <= StandardCapacity
  PROVE  LET p == Pop(m, d) IN
         /\ p \in LineType
         /\ \A e \in Document : e # d => p[e] = line[e]
         /\ Grown(Tail(line[d]), p[d], {"tell"})
         /\ Len(p[d]) < Len(line[d]) \/ Len(p[d]) < StandardCapacity
<1>1. line \in LineType /\ line[d] # <<>>
  BY DEF TypeInv, Busy
<1>2. /\ Pop(m, d) \in LineType
      /\ \A e \in Document : e # d => Pop(m, d)[e] = m[e]
      /\ Len(Pop(m, d)[d]) = Len(m[d]) - 1
      /\ Grown(Tail(line[d]), Pop(m, d)[d], {"tell"})
  BY <1>1, TailGrown
<1>3. Len(m[d]) \in Nat /\ Len(line[d]) \in Nat /\ StandardCapacity \in Nat
  BY <1>1, CapacityAssumption DEF GrownBy, LineType, StandardCapacity
<1> QED
  BY <1>2, <1>3

\* A line that does not change has grown by nothing.
LEMMA UngrownLine ==
  ASSUME TypeInv
  PROVE  /\ GrownBy(line, line, {"tell"})
         /\ \A d \in Document : line[d] \in Seq(Task) /\ Len(line[d]) \in Nat
  BY DEF TypeInv, LineType, GrownBy, Grown, Longer

\* Popping a line that only broadcasts have lengthened ends its task.
LEMMA EndsOf ==
  ASSUME TypeInv, NEW d \in Document, Busy(d), NEW m,
         GrownBy(line, m, {"tell"}),
         \A e \in Document \ {d} : m[e] = line[e],
         Len(m[d]) <= Len(line[d]) \/ Len(m[d]) <= StandardCapacity,
         line' = Pop(m, d), work' = [work EXCEPT ![d] = Idle],
         \A s \in Socket : JoinsKept(s) \/ (Head(line[d]).kind = "join" /\ s = Caller(d))
  PROVE  Ends(d)
<1>1. /\ line' \in LineType
      /\ \A e \in Document : e # d => line'[e] = line[e]
      /\ Grown(Tail(line[d]), line'[d], {"tell"})
      /\ Len(line'[d]) < Len(line[d]) \/ Len(line'[d]) < StandardCapacity
  BY EndedLine
<1>2. /\ work' \in [Document -> Standing] /\ work'[d] = Idle
      /\ \A e \in Document : e # d => work'[e] = work[e]
  BY IdleStanding, Goes
<1> QED
  BY <1>1, <1>2 DEF Ends, Elsewhere

\* A task that moves while only broadcasts lengthen its line goes on.
LEMMA GoesOnOf ==
  ASSUME TypeInv, NEW d \in Document, NEW w \in Standing,
         GrownBy(line, line', {"tell"}),
         \A e \in Document \ {d} : line'[e] = line[e],
         Len(line'[d]) <= Len(line[d]) \/ Len(line'[d]) <= StandardCapacity,
         work' = [work EXCEPT ![d] = w],
         \A s \in Socket : JoinsKept(s)
  PROVE  GoesOn(d) /\ work'[d] = w
<1>1. /\ work' \in [Document -> Standing] /\ work'[d] = w
      /\ \A e \in Document : e # d => work'[e] = work[e]
  BY Goes
<1>2. line' \in LineType /\ Grown(line[d], line'[d], {"tell"})
  BY DEF GrownBy
<1> QED
  BY <1>1, <1>2 DEF GoesOn, Elsewhere

\* SockWithout, PresentWithout and Unlock, together, withdraw S from d.
LEMMA StoresWithout ==
  ASSUME Base, NEW S \in SUBSET Socket, NEW d \in Document, NEW h \in HeldType,
         \A e \in Document, x \in Element : h[e][x] \in {None, held[e][x]},
         sock'.room = SockWithout(S, d).room, sock'.joined = SockWithout(S, d).joined,
         sock'.connected = sock.connected, sock'.doomed \subseteq sock.connected,
         present' = PresentWithout(S, d), held' = Unlock(h, S, d),
         \A s \in Socket, e \in Document : ~(s \in S /\ e = d) => known'[s][e] >= known[s][e]
  PROVE  Withdrawn(S, {d})
<1>1. sock \in SockType /\ present \in PresentType
  BY DEF Base, TypeInv
<1>2. ASSUME NEW s \in Socket, NEW e \in Document
      PROVE  LET gone == s \in S /\ e \in {d} IN
             /\ s \in sock'.room[e] <=> s \in sock.room[e] /\ ~gone
             /\ e \in sock'.joined[s] <=> e \in sock.joined[s] /\ ~gone
             /\ s \in present'[e] <=> s \in present[e] /\ ~gone
             /\ ~gone => known'[s][e] >= known[s][e]
  BY <1>1, WithoutRoom, WithoutPresent
<1>3. ASSUME NEW e \in Document, NEW x \in Element
      PROVE  \/ held'[e][x] = None
             \/ held'[e][x] = held[e][x] /\ ~(held[e][x] \in S /\ e \in {d})
  <2>1. held'[e][x] = IF e = d /\ h[d][x] \in S THEN None ELSE h[e][x]
    BY UnlockHeld
  <2>2. h[e][x] \in {None, held[e][x]}
    OBVIOUS
  <2> QED
    BY <2>1, <2>2
<1> QED
  BY <1>2, <1>3 DEF Withdrawn

\* A step that keeps the stores, but for locks that it frees, withdraws nobody.
LEMMA StoresKept ==
  ASSUME Base, sock'.room = sock.room, sock'.joined = sock.joined,
         sock'.connected = sock.connected, sock'.doomed \subseteq sock.connected,
         present' = present,
         \A e \in Document, x \in Element : held'[e][x] \in {None, held[e][x]},
         \A s \in Socket, e \in Document : known'[s][e] >= known[s][e]
  PROVE  Nothing
  BY DEF Nothing, Withdrawn

\* Every chain of joins keeps its first when the chains stay the same.
LEMMA SameJoins ==
  ASSUME sock'.joins = sock.joins, sock'.turn = sock.turn
  PROVE  \A s \in Socket : JoinsKept(s)
  BY DEF JoinsKept

\* Settling a join touches the chain of its socket only.
LEMMA SettledJoins ==
  ASSUME TypeInv, NEW s \in Socket, NEW d \in Document, NEW k \in SockType,
         k.joins = sock.joins, k.turn = sock.turn, k.joins[s] # <<>>,
         sock'.turn = k.turn \ {s}, sock'.joins = [k.joins EXCEPT ![s] = Tail(@)]
  PROVE  \A r \in Socket : JoinsKept(r) \/ r = s
<1> SUFFICES ASSUME NEW r \in Socket, r # s
             PROVE  JoinsKept(r)
  OBVIOUS
<1>1. sock.joins \in [Socket -> Seq(Document)]
  BY DEF TypeInv, SockType
<1>2. sock'.joins[r] = sock.joins[r]
  BY <1>1
<1> QED
  BY <1>2 DEF JoinsKept

\* The first half of a broadcast goes on, and withdraws those who are fenced off.
LEMMA BroadcastEffect ==
  ASSUME Base, NEW d \in Document, NEW w \in Standing, NEW h \in HeldType, NEW n \in Nat,
         \A e \in Document, x \in Element : h[e][x] \in {None, held[e][x]},
         Broadcast(d, w, h, n)
  PROVE  /\ GoesOn(d) /\ work'[d] = Chosen(d, w)
         /\ FencedOut(d) \in SUBSET Socket /\ Withdrawn(FencedOut(d), {d})
         /\ sock' \in SockType /\ present' \in PresentType /\ held' \in HeldType
         /\ known' \in KnownType
<1> DEFINE F == FencedOut(d)
<1>1. /\ F \in SUBSET Socket /\ sock' = SockWithout(F, d)
      /\ present' = PresentWithout(F, d) /\ held' = Unlock(h, F, d)
      /\ known' = Forget(F, d)
      /\ GrownBy(line, line', {"tell"})
      /\ \A e \in Document \ {d} : line'[e] = line[e]
      /\ Len(line'[d]) <= Len(line[d]) \/ Len(line'[d]) <= StandardCapacity
      /\ work' = [work EXCEPT ![d] = Chosen(d, w)]
  BY BroadcastStep DEF Base
<1> HIDE DEF F
<1>2. sock \in SockType /\ present \in PresentType /\ known \in KnownType
  BY DEF Base, TypeInv
<1>3. /\ sock' \in SockType /\ sock'.connected = sock.connected /\ sock'.doomed = sock.doomed
      /\ sock'.joins = sock.joins /\ sock'.turn = sock.turn
  BY <1>1, <1>2, WithoutSock
<1>4. \A s \in Socket : JoinsKept(s)
  BY <1>3, SameJoins
<1>5. GoesOn(d) /\ work'[d] = Chosen(d, w)
  <2>1. Chosen(d, w) \in Standing
    BY <1>2, ChosenStanding
  <2> QED
    BY <1>1, <1>4, <2>1, GoesOnOf DEF Base
<1>6. /\ known' \in KnownType
      /\ \A s \in Socket, e \in Document :
           known'[s][e] = IF s \in F /\ e = d THEN -1 ELSE known[s][e]
  BY <1>1, <1>2, ForgetKnown
<1>7. \A s \in Socket, e \in Document : ~(s \in F /\ e = d) => known'[s][e] >= known[s][e]
  BY <1>2, <1>6 DEF KnownType, Revision
<1>8. sock'.doomed \subseteq sock.connected
  BY <1>3 DEF Base, RoomInv
<1>9. Withdrawn(F, {d})
  BY <1>1, <1>3, <1>7, <1>8, StoresWithout
<1>10. present' \in PresentType /\ held' \in HeldType
  BY <1>1, <1>2, WithoutPresent, UnlockHeld
<1> QED
  BY <1>1, <1>3, <1>5, <1>6, <1>9, <1>10 DEF F

\* The second half of a broadcast withdraws those who have lost their access.
LEMMA EmitEffect ==
  ASSUME Base, NEW d \in Document, Emit(d)
  PROVE  /\ Revoked(d) \in SUBSET Socket /\ Withdrawn(Revoked(d), {d})
         /\ sock' \in SockType /\ present' \in PresentType /\ held' \in HeldType
         /\ known' \in KnownType
         /\ sock'.joins = sock.joins /\ sock'.turn = sock.turn
<1>1. /\ sock' \in SockType /\ present' \in PresentType /\ held' \in HeldType
      /\ known' \in KnownType
      /\ sock'.connected = sock.connected
      /\ sock'.doomed = sock.doomed \cup FoundDead(d)
      /\ sock'.room = SockWithout(Revoked(d), d).room
      /\ sock'.joined = SockWithout(Revoked(d), d).joined
      /\ sock'.joins = sock.joins /\ sock'.turn = sock.turn
      /\ present' = PresentWithout(Revoked(d), d)
      /\ held' = Unlock(held, Revoked(d), d)
      /\ \A s \in Socket, e \in Document :
           known'[s][e] =
             IF e = d /\ s \in Revoked(d) THEN -1
             ELSE IF e = d /\ s \in Reached(d) /\ known[s][d] \in 0 .. work[d].rev
               THEN work[d].rev
             ELSE known[s][e]
  BY EmitStep DEF Base
<1>2. Revoked(d) \in SUBSET Socket /\ FoundDead(d) \in SUBSET Socket
  BY RevokedSockets DEF Base
<1>3. FoundDead(d) \subseteq sock.room[d]
  BY DEF FoundDead, Recipients
<1>4. sock'.doomed \subseteq sock.connected
  BY <1>1, <1>2, <1>3 DEF Base, RoomInv
<1>5. known \in KnownType /\ work[d].rev \in Revision /\ held \in HeldType
  BY DEF Base, TypeInv, Standing
<1>6. \A s \in Socket, e \in Document :
        ~(s \in Revoked(d) /\ e = d) => known'[s][e] >= known[s][e]
  <2> SUFFICES ASSUME NEW s \in Socket, NEW e \in Document, ~(s \in Revoked(d) /\ e = d)
               PROVE  known'[s][e] >= known[s][e]
    OBVIOUS
  <2>1. known[s][e] \in Revision
    BY <1>5 DEF KnownType
  <2>2. \/ known'[s][e] = known[s][e]
        \/ known'[s][e] = work[d].rev /\ known[s][e] \in 0 .. work[d].rev
    BY <1>1
  <2> QED
    BY <1>5, <2>1, <2>2 DEF Revision
<1>7. Withdrawn(Revoked(d), {d})
  BY <1>1, <1>2, <1>4, <1>5, <1>6, StoresWithout
<1> QED
  BY <1>1, <1>2, <1>7

\* A join that settles, with the sockets k and the line m.
LEMMA SettledEffect ==
  ASSUME Base, NEW d \in Document, Busy(d), Head(line[d]).kind = "join",
         NEW k \in SockType, k.joins = sock.joins, k.turn = sock.turn,
         NEW m, GrownBy(line, m, {"tell"}),
         \A e \in Document \ {d} : m[e] = line[e],
         Len(m[d]) <= Len(line[d]) \/ Len(m[d]) <= StandardCapacity,
         sock' = Settled(k, Caller(d), d), line' = Pop(m, d), work' = [work EXCEPT ![d] = Idle]
  PROVE  /\ Ends(d) /\ sock' \in SockType
         /\ sock'.connected = k.connected /\ sock'.doomed = k.doomed
         /\ sock'.room = k.room /\ sock'.joined = k.joined
<1>1. Caller(d) \in Socket /\ k.joins[Caller(d)] # <<>>
  BY JoinCaller DEF Base
<1>2. /\ sock' \in SockType
      /\ sock'.connected = k.connected /\ sock'.doomed = k.doomed
      /\ sock'.room = k.room /\ sock'.joined = k.joined
      /\ sock'.turn = k.turn \ {Caller(d)}
      /\ sock'.joins = [k.joins EXCEPT ![Caller(d)] = Tail(@)]
  <2>1. sock' \in SockType
    BY <1>1, SettledType
  <2>2. /\ sock'.connected = k.connected /\ sock'.doomed = k.doomed
        /\ sock'.room = k.room /\ sock'.joined = k.joined
        /\ sock'.turn = k.turn \ {Caller(d)}
        /\ sock'.joins = [k.joins EXCEPT ![Caller(d)] = Tail(@)]
    BY DEF Settled, SockType
  <2> QED
    BY <2>1, <2>2
<1>3. \A s \in Socket : JoinsKept(s) \/ (Head(line[d]).kind = "join" /\ s = Caller(d))
  BY <1>1, <1>2, SettledJoins DEF Base
<1>4. Ends(d)
  BY <1>3, EndsOf DEF Base
<1> QED
  BY <1>2, <1>4

\* A join that fails before it is registered; k are the sockets it leaves.
LEMMA JoinFailsEffect ==
  ASSUME Base, NEW d \in Document, Busy(d), Head(line[d]).kind = "join",
         NEW k \in SockType, k.joins = sock.joins, k.turn = sock.turn,
         JoinFails(Caller(d), d, k)
  PROVE  /\ Ends(d) /\ sock' \in SockType
         /\ sock'.connected = k.connected /\ sock'.doomed = k.doomed
         /\ sock'.room = k.room /\ sock'.joined = k.joined
         /\ present' = present /\ held' = held /\ known' = known
<1>1. /\ sock' = Settled(k, Caller(d), d)
      /\ line' = Pop(line, d) /\ work' = [work EXCEPT ![d] = Idle]
      /\ present' = present /\ held' = held /\ known' = known
  BY DEF JoinFails, Done, Goto
<1>2. GrownBy(line, line, {"tell"}) /\ Len(line[d]) <= Len(line[d])
  BY UngrownLine DEF Base
<1> QED
  BY <1>1, <1>2, SettledEffect

\* A registration that is undone ends the join and withdraws its caller.
LEMMA JoinUndoneEffect ==
  ASSUME Base, NEW d \in Document, Busy(d), Head(line[d]).kind = "join",
         NEW D \in SUBSET sock.connected, JoinUndone(Caller(d), d, D)
  PROVE  /\ Ends(d) /\ Withdrawn({Caller(d)}, {d}) /\ sock' \in SockType
         /\ present' \in PresentType /\ held' \in HeldType /\ known' \in KnownType
<1> DEFINE caller == Caller(d)
           w == SockWithout({caller}, d)
           left == [w EXCEPT !.doomed = D]
           m == Notify(line, d, Notices(held, {caller}, d))
<1>1. caller \in Socket /\ sock.joins[caller] # <<>> /\ {caller} \in SUBSET Socket
  BY JoinCaller DEF Base
<1>2. sock \in SockType /\ present \in PresentType /\ held \in HeldType /\ known \in KnownType
      /\ line \in LineType
  BY DEF Base, TypeInv
<1>3. /\ sock' = Settled(left, caller, d)
      /\ present' = PresentWithout({caller}, d) /\ held' = Unlock(held, {caller}, d)
      /\ known' = Forget({caller}, d)
      /\ line' = Pop(m, d) /\ work' = [work EXCEPT ![d] = Idle]
  BY DEF JoinUndone, Done, Goto
<1> HIDE DEF caller
<1>4. /\ w \in SockType /\ w.joins = sock.joins /\ w.turn = sock.turn
      /\ w.connected = sock.connected
  BY <1>1, <1>2, WithoutSock
<1> HIDE DEF w
<1>5. /\ left \in SockType /\ left.joins = sock.joins /\ left.turn = sock.turn
      /\ left.connected = sock.connected /\ left.doomed = D
      /\ left.room = w.room /\ left.joined = w.joined
  BY <1>2, <1>4 DEF SockType
<1> HIDE DEF left
<1>6. /\ GrownBy(line, m, {"tell"})
      /\ \A e \in Document \ {d} : m[e] = line[e]
      /\ Len(m[d]) <= Len(line[d]) \/ Len(m[d]) <= StandardCapacity
  BY <1>1, <1>2, NoticesNat, NotifyLine
<1> HIDE DEF m
<1>7. /\ Ends(d) /\ sock' \in SockType
      /\ sock'.connected = left.connected /\ sock'.doomed = left.doomed
      /\ sock'.room = left.room /\ sock'.joined = left.joined
  <2>1. sock' = Settled(left, Caller(d), d)
    BY <1>3 DEF caller
  <2> QED
    BY <1>3, <1>5, <1>6, <2>1, SettledEffect
<1>8. /\ sock' \in SockType
      /\ sock'.connected = sock.connected /\ sock'.doomed = D
      /\ sock'.room = w.room /\ sock'.joined = w.joined
  BY <1>5, <1>7
<1>10. /\ known' \in KnownType
       /\ \A r \in Socket, e \in Document :
            known'[r][e] = IF r \in {caller} /\ e = d THEN -1 ELSE known[r][e]
  <2>1. known \in KnownType /\ {caller} \in SUBSET Socket /\ known' = Forget({caller}, d)
    BY <1>1, <1>2, <1>3
  <2> QED
    BY <2>1, ForgetKnown
<1>11. \A r \in Socket, e \in Document : ~(r \in {caller} /\ e = d) => known'[r][e] >= known[r][e]
  BY <1>2, <1>10 DEF KnownType, Revision
<1>12. Withdrawn({caller}, {d})
  <2>1. \A e \in Document, x \in Element : held[e][x] \in {None, held[e][x]}
    OBVIOUS
  <2> QED
    BY <1>1, <1>2, <1>3, <1>8, <1>11, <2>1, StoresWithout DEF w
<1>13. present' \in PresentType /\ held' \in HeldType
  BY <1>1, <1>2, <1>3, WithoutPresent, UnlockHeld
<1> QED
  BY <1>7, <1>10, <1>12, <1>13 DEF caller

\* A task that moves without touching a store goes on.
LEMMA GotoEffect ==
  ASSUME Base, NEW d \in Document, NEW w \in Standing,
         Goto(d, w), line' = line, sock'.joins = sock.joins, sock'.turn = sock.turn
  PROVE  GoesOn(d) /\ work'[d] = w /\ work' \in [Document -> Standing]
<1>1. work' = [work EXCEPT ![d] = w]
  BY DEF Goto
<1>2. \A s \in Socket : JoinsKept(s)
  BY SameJoins
<1>3. GrownBy(line, line', {"tell"}) /\ Len(line'[d]) <= Len(line[d])
  BY UngrownLine DEF Base
<1>4. GoesOn(d) /\ work'[d] = w
  BY <1>1, <1>2, <1>3, GoesOnOf DEF Base
<1> QED
  BY <1>4 DEF GoesOn, Elsewhere

\* Doomed sockets are no withdrawal.
LEMMA SocksKept ==
  ASSUME Base, UNCHANGED <<sock, present, held, known>>
  PROVE  Nothing
<1>1. /\ sock.doomed \subseteq sock.connected
      /\ \A e \in Document, x \in Element : held'[e][x] \in {None, held[e][x]}
  BY DEF Base, RoomInv
<1>2. \A s \in Socket, e \in Document : known'[s][e] >= known[s][e]
  BY DEF Base, TypeInv, KnownType, Revision
<1> QED
  BY <1>1, <1>2, StoresKept

\* A task that replies ends, and only its caller learns something.
LEMMA RepliesEffect ==
  ASSUME Base, NEW d \in Document, Busy(d), Head(line[d]).kind \in {"command", "lock"},
         NEW k \in SockType, NEW r \in Revision, Replies(d, k, r),
         k.joins = sock.joins, k.turn = sock.turn, k.room = sock.room, k.joined = sock.joined,
         k.connected = sock.connected, k.doomed \subseteq sock.connected,
         present' = present, held' = held
  PROVE  /\ Ends(d) /\ Nothing /\ sock' \in SockType /\ known' \in KnownType
         /\ Caller(d) \in Socket
         /\ \A s \in Socket, e \in Document :
              known'[s][e] = IF s = Caller(d) /\ e = d /\ known[s][d] \in 0 .. r
                               THEN r ELSE known[s][e]
<1>1. Caller(d) \in Socket
  BY HeadTask, TaskFields DEF Caller, Base
<1>2. /\ sock' = k /\ known' = Learn(known, {Caller(d)}, d, r)
      /\ line' = Pop(line, d) /\ work' = [work EXCEPT ![d] = Idle]
  BY DEF Replies, Done, Goto
<1>3. Ends(d)
  <2>1. \A s \in Socket : JoinsKept(s)
    BY <1>2, SameJoins
  <2>2. GrownBy(line, line, {"tell"}) /\ Len(line[d]) <= Len(line[d])
    BY UngrownLine DEF Base
  <2> QED
    BY <1>2, <2>1, <2>2, EndsOf DEF Base
<1>4. known \in KnownType /\ {Caller(d)} \in SUBSET Socket
  BY <1>1 DEF Base, TypeInv
<1>5. /\ known' \in KnownType
      /\ \A s \in Socket, e \in Document :
           known'[s][e] = IF s \in {Caller(d)} /\ e = d /\ known[s][d] \in 0 .. r
                            THEN r ELSE known[s][e]
  BY <1>2, <1>4, LearnKnown
<1>6. \A s \in Socket, e \in Document : known'[s][e] >= known[s][e]
  <2> SUFFICES ASSUME NEW s \in Socket, NEW e \in Document
               PROVE  known'[s][e] >= known[s][e]
    OBVIOUS
  <2>1. known[s][e] \in Revision
    BY <1>4 DEF KnownType
  <2>2. known'[s][e] = known[s][e] \/ (known'[s][e] = r /\ known[s][e] \in 0 .. r)
    BY <1>5
  <2> QED
    BY <2>1, <2>2 DEF Revision
<1>7. Nothing
  <2>1. \A e \in Document, x \in Element : held'[e][x] \in {None, held[e][x]}
    OBVIOUS
  <2> QED
    BY <1>2, <1>6, <2>1, StoresKept
<1> QED
  BY <1>1, <1>2, <1>3, <1>5, <1>7

\* What getAuthorizedDocumentOrThrow does to a socket of a revoked session.
LEMMA DoomedKept ==
  ASSUME Base, NEW S \in SUBSET Socket
  PROVE  /\ Doomed(S) \in SockType
         /\ Doomed(S).joins = sock.joins /\ Doomed(S).turn = sock.turn
         /\ Doomed(S).room = sock.room /\ Doomed(S).joined = sock.joined
         /\ Doomed(S).connected = sock.connected
         /\ Doomed(S).doomed \subseteq sock.connected
<1>1. sock \in SockType /\ sock.doomed \subseteq sock.connected
  BY DEF Base, TypeInv, RoomInv
<1> QED
  BY <1>1, DoomedSock

\* Sockets that do not change are no withdrawal.
LEMMA SockKept ==
  ASSUME Base
  PROVE  sock \in SockType /\ sock.doomed \subseteq sock.connected
  BY DEF Base, TypeInv, RoomInv

-----------------------------------------------------------------------------
(* The steps of a running task *)

\* A broadcast of presence or locks.
LEMMA TellEffect ==
  ASSUME Base, NEW d \in Document, TellStart(d) \/ TellEmit(d)
  PROVE  TypeInv' /\ Ordinary(d) /\ Withdrawal
<1>1. CASE TellStart(d)
  <2>1. /\ Broadcast(d, Idle, held, 0) /\ held \in HeldType /\ 0 \in Nat /\ Idle \in Standing
        /\ \A e \in Document, x \in Element : held[e][x] \in {None, held[e][x]}
    BY <1>1, IdleStanding DEF TellStart, Base, TypeInv
  <2>2. /\ GoesOn(d) /\ Withdrawn(FencedOut(d), {d}) /\ FencedOut(d) \in SUBSET Socket
        /\ sock' \in SockType /\ present' \in PresentType /\ held' \in HeldType
        /\ known' \in KnownType
    BY <2>1, BroadcastEffect
  <2> QED
    BY <1>1, <2>2 DEF TellStart, Base, TypeInv, GoesOn, Elsewhere, Ordinary, Withdrawal
<1>2. CASE TellEmit(d)
  <2>1. Emit(d) /\ line' = Pop(EmitLine(d), d) /\ work' = [work EXCEPT ![d] = Idle] /\ Busy(d)
    BY <1>2 DEF TellEmit, Done, Goto, At
  <2>2. /\ Revoked(d) \in SUBSET Socket /\ Withdrawn(Revoked(d), {d})
        /\ sock' \in SockType /\ present' \in PresentType /\ held' \in HeldType
        /\ known' \in KnownType
        /\ sock'.joins = sock.joins /\ sock'.turn = sock.turn
    BY <2>1, EmitEffect
  <2>3. /\ GrownBy(line, EmitLine(d), {"tell"})
        /\ \A e \in Document \ {d} : EmitLine(d)[e] = line[e]
        /\ Len(EmitLine(d)[d]) <= Len(line[d]) \/ Len(EmitLine(d)[d]) <= StandardCapacity
    BY EmitLineGrown DEF Base
  <2>4. \A s \in Socket : JoinsKept(s)
    BY <2>2, SameJoins
  <2>5. Ends(d)
    BY <2>1, <2>3, <2>4, EndsOf DEF Base
  <2> QED
    BY <1>2, <2>2, <2>5 DEF TellEmit, Base, TypeInv, Ends, Elsewhere, Ordinary, Withdrawal
<1> QED
  BY <1>1, <1>2

\* A join is authorized on the revision of the document, or fails.
LEMMA JoinCheckEffect ==
  ASSUME Base, NEW d \in Document, JoinCheck(d)
  PROVE  /\ TypeInv' /\ Ordinary(d) /\ Nothing
         /\ work'[d] = Idle \/ work'[d] = [Idle EXCEPT !.pc = "authorized", !.rev = db.rev[d]]
<1>1. /\ Busy(d) /\ Head(line[d]).kind = "join"
      /\ UNCHANGED <<db, ops, outbox, crit, budget>>
  BY DEF JoinCheck, At
<1>2. Caller(d) \in Socket
  BY <1>1, JoinCaller DEF Base
<1>3. ASSUME NEW k \in SockType, k.joins = sock.joins, k.turn = sock.turn,
             k.room = sock.room, k.joined = sock.joined, k.connected = sock.connected,
             k.doomed \subseteq sock.connected, JoinFails(Caller(d), d, k)
      PROVE  TypeInv' /\ Ends(d) /\ Nothing
  <2>1. /\ Ends(d) /\ sock' \in SockType
        /\ sock'.connected = k.connected /\ sock'.doomed = k.doomed
        /\ sock'.room = k.room /\ sock'.joined = k.joined
        /\ present' = present /\ held' = held /\ known' = known
    BY <1>1, <1>3, JoinFailsEffect
  <2>2. \A s \in Socket, e \in Document : known'[s][e] >= known[s][e]
    BY <2>1 DEF Base, TypeInv, KnownType, Revision
  <2>3. \A e \in Document, x \in Element : held'[e][x] \in {None, held[e][x]}
    BY <2>1
  <2>4. Nothing
    BY <1>3, <2>1, <2>2, <2>3, StoresKept
  <2> QED
    BY <1>1, <2>1, <2>4 DEF Base, TypeInv, Ends, Elsewhere
<1>4. CASE JoinFails(Caller(d), d, sock)
  BY <1>3, <1>4, SockKept DEF Ordinary, Ends
<1>5. CASE JoinFails(Caller(d), d, Doomed({Caller(d)}))
  BY <1>2, <1>3, <1>5, DoomedKept DEF Ordinary, Ends
<1>6. CASE /\ Goto(d, [Idle EXCEPT !.pc = "authorized", !.rev = db.rev[d]])
           /\ UNCHANGED <<sock, present, held, line, known>>
  <2> DEFINE w == [Idle EXCEPT !.pc = "authorized", !.rev = db.rev[d]]
  <2>1. w \in Standing
    BY IdleStanding DEF Base, TypeInv, DatabaseType, Standing, Steps, Revision
  <2>2. GoesOn(d) /\ work'[d] = w /\ work' \in [Document -> Standing]
    BY <1>6, <2>1, GotoEffect
  <2>3. Nothing
    BY <1>6, SocksKept
  <2> QED
    BY <1>1, <1>6, <2>2, <2>3 DEF Base, TypeInv, Ordinary
<1> QED
  BY <1>4, <1>5, <1>6 DEF JoinCheck

\* A join enters the room if the limits allow it, or fails.
LEMMA JoinEnterEffect ==
  ASSUME Base, NEW d \in Document, JoinEnter(d)
  PROVE  /\ TypeInv' /\ Ordinary(d)
         /\ \/ Nothing /\ work'[d] = Idle
            \/ /\ ~AtDocumentLimit(Caller(d), d)
               /\ Caller(d) \in sock.connected
               /\ sock' = [sock EXCEPT !.room[d] = @ \cup {Caller(d)}]
               /\ UNCHANGED <<present, held, known>>
               /\ GoesOn(d) /\ work'[d] = [work[d] EXCEPT !.pc = "entered"]
<1>1. /\ Busy(d) /\ Head(line[d]).kind = "join"
      /\ UNCHANGED <<db, ops, outbox, crit, budget>>
  BY DEF JoinEnter, At
<1>2. Caller(d) \in Socket
  BY <1>1, JoinCaller DEF Base
<1>3. CASE JoinFails(Caller(d), d, sock)
  <2>1. /\ Ends(d) /\ sock' \in SockType
        /\ sock'.connected = sock.connected /\ sock'.doomed = sock.doomed
        /\ sock'.room = sock.room /\ sock'.joined = sock.joined
        /\ present' = present /\ held' = held /\ known' = known
    BY <1>1, <1>3, SockKept, JoinFailsEffect
  <2>2. \A s \in Socket, e \in Document : known'[s][e] >= known[s][e]
    BY <2>1 DEF Base, TypeInv, KnownType, Revision
  <2>3. \A e \in Document, x \in Element : held'[e][x] \in {None, held[e][x]}
    BY <2>1
  <2>4. Nothing
    BY <2>1, <2>2, <2>3, SockKept, StoresKept
  <2> QED
    BY <1>1, <2>1, <2>4 DEF Base, TypeInv, Ends, Elsewhere, Ordinary
<1>4. CASE ~(UserFenced(UserOf[Caller(d)]) \/ ~JoinActive(Caller(d), d) \/ AtDocumentLimit(Caller(d), d))
  <2> DEFINE w == [work[d] EXCEPT !.pc = "entered"]
  <2>1. /\ sock' = [sock EXCEPT !.room[d] = @ \cup {Caller(d)}]
        /\ Goto(d, w) /\ UNCHANGED <<present, held, line, known>>
    BY <1>4 DEF JoinEnter
  <2>2. w \in Standing
    BY DEF Base, TypeInv, Standing, Steps
  <2>3. sock' \in SockType /\ sock'.joins = sock.joins /\ sock'.turn = sock.turn
    BY <1>2, <2>1, SockKept DEF SockType
  <2> HIDE DEF w
  <2>4. GoesOn(d) /\ work'[d] = w /\ work' \in [Document -> Standing]
    BY <2>1, <2>2, <2>3, GotoEffect
  <2>5. Caller(d) \in sock.connected
    BY <1>4 DEF JoinActive
  <2> QED
    BY <1>1, <1>4, <2>1, <2>3, <2>4, <2>5 DEF Base, TypeInv, Ordinary, w
<1> QED
  BY <1>3, <1>4 DEF JoinEnter

\* A join is registered as a participant, or fails and leaves the room.
LEMMA JoinRegisterEffect ==
  ASSUME Base, NEW d \in Document, JoinRegister(d)
  PROVE  /\ TypeInv' /\ Ordinary(d) /\ Caller(d) \in Socket
         /\ \/ Withdrawn({Caller(d)}, {d}) /\ work'[d] = Idle
            \/ /\ Caller(d) \in sock.connected
               /\ sock' = [sock EXCEPT !.joined[Caller(d)] = @ \cup {d},
                                       !.pending[Caller(d)] = @ \ {d}]
               /\ present' = [present EXCEPT ![d] = @ \cup {Caller(d)}]
               /\ UNCHANGED <<held, known>>
               /\ GoesOn(d) /\ work'[d].pc = "registered" /\ work'[d].rev = work[d].rev
<1>1. /\ Busy(d) /\ Head(line[d]).kind = "join"
      /\ UNCHANGED <<db, ops, outbox, crit, budget>>
  BY DEF JoinRegister, At
<1>2. Caller(d) \in Socket
  BY <1>1, JoinCaller DEF Base
<1> DEFINE full == Caller(d) \notin present[d] /\ Cardinality(present[d]) >= MaxParticipants
<1>3. CASE ~JoinActive(Caller(d), d) \/ full
  <2> DEFINE k == [sock EXCEPT !.room[d] = @ \ {Caller(d)}]
  <2>0. JoinFails(Caller(d), d, k)
    BY <1>3 DEF JoinRegister
  <2>1. /\ k \in SockType /\ k.joins = sock.joins /\ k.turn = sock.turn
        /\ k.connected = sock.connected /\ k.doomed = sock.doomed /\ k.joined = sock.joined
    BY SockKept DEF SockType
  <2>2. \A s \in Socket, e \in Document :
          s \in k.room[e] <=> s \in sock.room[e] /\ ~(s = Caller(d) /\ e = d)
    BY SockKept DEF SockType
  <2> HIDE DEF k
  <2>3. /\ Ends(d) /\ sock' \in SockType
        /\ sock'.connected = sock.connected /\ sock'.doomed = sock.doomed
        /\ sock'.room = k.room /\ sock'.joined = sock.joined
        /\ present' = present /\ held' = held /\ known' = known
    BY <1>1, <2>0, <2>1, JoinFailsEffect
  <2>4. Caller(d) \notin present[d] /\ d \notin sock.joined[Caller(d)]
    BY <1>2, <1>3 DEF JoinActive, Base, RoomInv
  <2>5. \A s \in Socket, e \in Document : known'[s][e] >= known[s][e]
    BY <2>3 DEF Base, TypeInv, KnownType, Revision
  <2>6. ASSUME NEW e \in Document, NEW x \in Element
        PROVE  held'[e][x] \in {None} \cup present'[e]
    BY <2>3 DEF Base, LocksHeldByParticipants
  <2>7. sock'.doomed \subseteq sock'.connected
    BY <2>3, SockKept
  <2>8. ASSUME NEW s \in Socket, NEW e \in Document
        PROVE  LET gone == s \in {Caller(d)} /\ e \in {d} IN
               /\ s \in sock'.room[e] <=> s \in sock.room[e] /\ ~gone
               /\ e \in sock'.joined[s] <=> e \in sock.joined[s] /\ ~gone
               /\ s \in present'[e] <=> s \in present[e] /\ ~gone
               /\ ~gone => known'[s][e] >= known[s][e]
    BY <2>2, <2>3, <2>4, <2>5
  <2>9. Withdrawn({Caller(d)}, {d})
    BY <2>3, <2>6, <2>7, <2>8 DEF Withdrawn
  <2>10. Ordinary(d)
    BY <1>1, <2>3 DEF Ordinary
  <2>11. TypeInv'
    BY <1>1, <1>2, <2>3 DEF Base, TypeInv, Ends, Elsewhere
  <2>12. work'[d] = Idle
    BY <2>3 DEF Ends
  <2> QED
    BY <1>2, <2>9, <2>10, <2>11, <2>12
<1>4. CASE ~(~JoinActive(Caller(d), d) \/ full)
  <2> DEFINE w == [work[d] EXCEPT !.pc = "registered", !.live = SessionActive(Caller(d))]
  <2>1. /\ sock' = [sock EXCEPT !.joined[Caller(d)] = @ \cup {d},
                                !.pending[Caller(d)] = @ \ {d}]
        /\ present' = [present EXCEPT ![d] = @ \cup {Caller(d)}]
        /\ line' = Notify(line, d, 1)
        /\ Goto(d, w) /\ UNCHANGED <<held, known>>
    BY <1>4 DEF JoinRegister
  <2>2. w \in Standing /\ w.pc = "registered" /\ w.rev = work[d].rev
    <3> DEFINE live == SessionActive(Caller(d))
    <3>1. live \in BOOLEAN
      BY DEF SessionActive
    <3>2. w = [work[d] EXCEPT !.pc = "registered", !.live = live]
      OBVIOUS
    <3>3. work[d] \in Standing
      BY DEF Base, TypeInv
    <3> HIDE DEF w, live
    <3>4. w \in Standing
      BY <3>1, <3>2, <3>3 DEF Standing, Steps
    <3>5. w.pc = "registered" /\ w.rev = work[d].rev
      BY <3>2, <3>3 DEF Standing
    <3> QED
      BY <3>4, <3>5
  <2>3. sock' \in SockType /\ sock'.joins = sock.joins /\ sock'.turn = sock.turn
    BY <1>2, <2>1, SockKept DEF SockType
  <2>4. present' \in PresentType
    BY <1>2, <2>1 DEF Base, TypeInv, PresentType
  <2> HIDE DEF w
  <2>5. /\ GrownBy(line, line', {"tell"})
        /\ \A e \in Document \ {d} : line'[e] = line[e]
        /\ Len(line'[d]) <= Len(line[d]) \/ Len(line'[d]) <= StandardCapacity
    BY <2>1, NotifyLine DEF Base, TypeInv
  <2>6. GoesOn(d) /\ work'[d] = w
    BY <2>1, <2>2, <2>3, <2>5, SameJoins, GoesOnOf DEF Base, Goto
  <2>7. Caller(d) \in sock.connected
    BY <1>4 DEF JoinActive
  <2> QED
    BY <1>1, <1>2, <2>1, <2>2, <2>3, <2>4, <2>6, <2>7 DEF Base, TypeInv, GoesOn, Elsewhere, Ordinary
<1> QED
  BY <1>3, <1>4

\* A join is confirmed with the revision it was authorized on, or undone.
LEMMA JoinConfirmEffect ==
  ASSUME Base, NEW d \in Document, JoinConfirm(d)
  PROVE  /\ TypeInv' /\ Ordinary(d) /\ work'[d] = Idle /\ Caller(d) \in Socket
         /\ \/ Withdrawn({Caller(d)}, {d})
            \/ Nothing /\ known'[Caller(d)][d] >= work[d].rev
<1>1. /\ Busy(d) /\ Head(line[d]).kind = "join"
      /\ UNCHANGED <<db, ops, outbox, crit, budget>>
  BY DEF JoinConfirm, At
<1>2. Caller(d) \in Socket /\ sock.joins[Caller(d)] # <<>>
  BY <1>1, JoinCaller DEF Base
<1>3. ASSUME NEW D \in SUBSET sock.connected, JoinUndone(Caller(d), d, D)
      PROVE  TypeInv' /\ Ordinary(d) /\ work'[d] = Idle /\ Withdrawn({Caller(d)}, {d})
  <2>1. /\ Ends(d) /\ Withdrawn({Caller(d)}, {d}) /\ sock' \in SockType
        /\ present' \in PresentType /\ held' \in HeldType /\ known' \in KnownType
    BY <1>1, <1>3, JoinUndoneEffect
  <2> QED
    BY <1>1, <2>1 DEF Base, TypeInv, Ends, Elsewhere, Ordinary
<1>4. CASE JoinUndone(Caller(d), d, Doomed({Caller(d)}).doomed)
  <2>1. {Caller(d)} \in SUBSET Socket
    BY <1>2
  <2>2. Doomed({Caller(d)}).doomed \in SUBSET sock.connected
    BY <2>1, DoomedKept
  <2> QED
    BY <1>2, <1>3, <1>4, <2>2
<1>5. CASE JoinUndone(Caller(d), d, sock.doomed)
  BY <1>2, <1>3, <1>5, SockKept
<1>6. CASE /\ sock' = [sock EXCEPT !.joins[Caller(d)] = Tail(@), !.turn = @ \ {Caller(d)}]
           /\ known' = [known EXCEPT ![Caller(d)][d] = IF @ > work[d].rev THEN @ ELSE work[d].rev]
           /\ line' = Pop(line, d)
           /\ Done(d)
           /\ UNCHANGED <<present, held>>
  <2>1. Tail(sock.joins[Caller(d)]) \in Seq(Document)
    BY <1>2, HeadTailProperties DEF Base, TypeInv, SockType
  <2>2. /\ sock' \in SockType
        /\ sock'.connected = sock.connected /\ sock'.doomed = sock.doomed
        /\ sock'.room = sock.room /\ sock'.joined = sock.joined
        /\ sock'.turn = sock.turn \ {Caller(d)}
        /\ sock'.joins = [sock.joins EXCEPT ![Caller(d)] = Tail(@)]
    BY <1>2, <1>6, <2>1, SockKept DEF SockType
  <2>3. \A s \in Socket : JoinsKept(s) \/ (Head(line[d]).kind = "join" /\ s = Caller(d))
    BY <1>1, <1>2, <2>2, SockKept, SettledJoins DEF Base
  <2>4. Ends(d)
    <3>1. GrownBy(line, line, {"tell"}) /\ Len(line[d]) <= Len(line[d])
      BY UngrownLine DEF Base
    <3>2. work' = [work EXCEPT ![d] = Idle]
      BY <1>6 DEF Done, Goto
    <3> QED
      BY <1>1, <1>6, <2>3, <3>1, <3>2, EndsOf DEF Base
  <2>5. known \in KnownType /\ work[d].rev \in Revision
    BY DEF Base, TypeInv, Standing
  <2>6. known' \in KnownType
    BY <1>2, <1>6, <2>5 DEF KnownType
  <2>7. \A s \in Socket, e \in Document :
          known'[s][e] = IF s = Caller(d) /\ e = d /\ known[s][d] <= work[d].rev
                           THEN work[d].rev ELSE known[s][e]
    BY <1>2, <1>6, <2>5 DEF KnownType, Revision
  <2>8. \A s \in Socket, e \in Document : known'[s][e] >= known[s][e]
    BY <2>5, <2>7 DEF KnownType, Revision
  <2>9. known'[Caller(d)][d] >= work[d].rev
    <3>1. known[Caller(d)][d] \in Revision
      BY <1>2, <2>5 DEF KnownType
    <3> QED
      BY <1>2, <2>5, <2>7, <3>1 DEF Revision
  <2>10. \A e \in Document, x \in Element : held'[e][x] \in {None, held[e][x]}
    BY <1>6
  <2>11. Nothing
    BY <1>6, <2>2, <2>8, <2>10, SockKept, StoresKept
  <2> QED
    BY <1>1, <1>2, <1>6, <2>2, <2>4, <2>6, <2>9, <2>11 DEF Base, TypeInv, Ends, Elsewhere, Ordinary
<1> QED
  BY <1>2, <1>4, <1>5, <1>6 DEF JoinConfirm

\* Every task but critical work and broadcasts has a socket.
LEMMA CallerSocket ==
  ASSUME TypeInv, NEW d \in Document, Busy(d), Head(line[d]).kind \notin {"critical", "tell"}
  PROVE  Caller(d) \in Socket
  BY HeadTask, TaskFields DEF Caller

\* A command or a lock request is authorized, or refused.
LEMMA AuthorizeEffect ==
  ASSUME Base, NEW d \in Document, NEW kind \in {"command", "lock"}, Authorize(d, kind)
  PROVE  /\ TypeInv' /\ Ordinary(d) /\ Nothing
         /\ work'[d] = Idle
              \/ work'[d] = [Idle EXCEPT !.pc = "authorized", !.elements = db.elements[d]]
<1>1. /\ Busy(d) /\ Head(line[d]).kind = kind
      /\ UNCHANGED <<db, ops, outbox, present, held, crit, budget>>
  BY DEF Authorize, At
<1>2. Caller(d) \in Socket /\ {Caller(d)} \in SUBSET Socket
  BY <1>1, CallerSocket DEF Base
<1>3. -1 \in Revision
  BY DEF Revision
<1>4. CASE Replies(d, Doomed({Caller(d)}), -1)
  <2>1. Ends(d) /\ Nothing /\ sock' \in SockType /\ known' \in KnownType
    BY <1>1, <1>2, <1>3, <1>4, DoomedKept, RepliesEffect
  <2> QED
    BY <1>1, <2>1 DEF Base, TypeInv, Ends, Elsewhere, Ordinary
<1>5. CASE Replies(d, sock, -1)
  <2>1. Ends(d) /\ Nothing /\ sock' \in SockType /\ known' \in KnownType
    BY <1>1, <1>2, <1>3, <1>5, SockKept, RepliesEffect
  <2> QED
    BY <1>1, <2>1 DEF Base, TypeInv, Ends, Elsewhere, Ordinary
<1>6. CASE /\ Goto(d, [Idle EXCEPT !.pc = "authorized", !.elements = db.elements[d]])
           /\ UNCHANGED <<sock, line, known>>
  <2> DEFINE w == [Idle EXCEPT !.pc = "authorized", !.elements = db.elements[d]]
  <2>1. w \in Standing
    BY IdleStanding DEF Base, TypeInv, DatabaseType, Standing, Steps
  <2> HIDE DEF w
  <2>2. GoesOn(d) /\ work'[d] = w /\ work' \in [Document -> Standing]
    BY <1>6, <2>1, GotoEffect DEF w
  <2>3. Nothing
    BY <1>1, <1>6, SocksKept
  <2> QED
    BY <1>1, <1>6, <2>2, <2>3 DEF Base, TypeInv, Ordinary, w
<1> QED
  BY <1>4, <1>5, <1>6 DEF Authorize

\* What the transaction of a command does to the database, and what the task
\* goes on with.
LEMMA CommandProcessEffect ==
  ASSUME Base, NEW d \in Document, CommandProcess(d)
  PROVE  /\ TypeInv' /\ Ordinary(d) /\ Nothing /\ Head(line[d]).op \in Op
         /\ LET o == Head(line[d]).op IN
            \/ UNCHANGED <<db, ops>> /\ work'[d] = Idle
            \/ /\ UNCHANGED <<db, ops, known, sock>>
               /\ ops[o].rev > 0 /\ GoesOn(d)
               /\ \E owed \in BOOLEAN :
                    work'[d] = [Idle EXCEPT !.pc = "committed", !.op = o,
                                            !.reply = ops[o].rev, !.owed = owed]
            \/ /\ ops[o].rev = 0 /\ ops[o].base = db.rev[d] /\ GoesOn(d)
               /\ db'.exists = db.exists /\ db'.member = db.member
               /\ db'.sessions = db.sessions
               /\ db'.rev = [db.rev EXCEPT ![d] = @ + 1]
               /\ ops' = [ops EXCEPT ![o].rev = ops[o].base + 1]
               /\ UNCHANGED <<known, sock>>
               /\ \E owed \in BOOLEAN :
                    work'[d] = [Idle EXCEPT !.pc = "committed", !.op = o,
                                            !.reply = ops[o].base + 1, !.owed = owed]
<1> DEFINE o == Head(line[d]).op
<1>1. /\ Busy(d) /\ Head(line[d]).kind = "command"
      /\ UNCHANGED <<outbox, present, held, crit, budget>>
  BY DEF CommandProcess, At
<1>2. Caller(d) \in Socket /\ {Caller(d)} \in SUBSET Socket
  BY <1>1, CallerSocket DEF Base
<1>3. o \in Op
  BY <1>1, HeadTask, TaskFields DEF Base
<1>4. /\ -1 \in Revision /\ db.rev[d] \in Revision /\ db.rev[d] \in Nat
      /\ ops[o] \in Row
  BY <1>3 DEF Base, TypeInv, DatabaseType, Revision
<1>5. /\ ops[o].rev \in Nat /\ ops[o].base \in Nat /\ ops[o].delivered \in BOOLEAN
      /\ ops[o].do \in {"add", "edit", "remove"} /\ ops[o].el \in Element \cup {None}
  BY <1>4 DEF Row
<1>6. ASSUME NEW k \in SockType, NEW r \in Revision, Replies(d, k, r), UNCHANGED <<db, ops>>,
             k.joins = sock.joins, k.turn = sock.turn, k.room = sock.room,
             k.joined = sock.joined, k.connected = sock.connected,
             k.doomed \subseteq sock.connected
      PROVE  TypeInv' /\ Ordinary(d) /\ Nothing /\ work'[d] = Idle
  <2>1. Ends(d) /\ Nothing /\ sock' \in SockType /\ known' \in KnownType
    BY <1>1, <1>6, RepliesEffect
  <2> QED
    BY <1>1, <1>6, <2>1 DEF Base, TypeInv, Ends, Elsewhere, Ordinary
<1>7. ASSUME NEW r \in Nat, NEW owed \in BOOLEAN, Committing(d, o, r, owed),
             UNCHANGED <<sock, line, known>>
      PROVE  /\ GoesOn(d) /\ Nothing /\ work' \in [Document -> Standing]
             /\ work'[d] = [Idle EXCEPT !.pc = "committed", !.op = o, !.reply = r, !.owed = owed]
  <2> DEFINE w == [Idle EXCEPT !.pc = "committed", !.op = o, !.reply = r, !.owed = owed]
  <2> HIDE DEF o
  <2>1. w \in Standing
    BY <1>3, IdleStanding DEF Standing, Steps, Revision
  <2>2. Goto(d, w)
    BY <1>7 DEF Committing
  <2> HIDE DEF w
  <2>3. GoesOn(d) /\ work'[d] = w /\ work' \in [Document -> Standing]
    BY <1>7, <2>1, <2>2, GotoEffect
  <2>4. Nothing
    BY <1>1, <1>7, SocksKept
  <2> QED
    BY <2>3, <2>4 DEF w
<1>8. CASE Replies(d, sock, -1) /\ UNCHANGED <<db, ops>>
  BY <1>3, <1>4, <1>6, <1>8, SockKept
<1>9. CASE Replies(d, Doomed({Caller(d)}), -1) /\ UNCHANGED <<db, ops>>
  BY <1>2, <1>3, <1>4, <1>6, <1>9, DoomedKept
<1>10. CASE Replies(d, sock, db.rev[d]) /\ UNCHANGED <<db, ops>>
  BY <1>3, <1>4, <1>6, <1>10, SockKept
<1>11. CASE /\ ops[o].rev > 0
            /\ Committing(d, o, ops[o].rev, ~ops[o].delivered)
            /\ UNCHANGED <<db, ops, sock, line, known>>
  <2>1. (~ops[o].delivered) \in BOOLEAN
    OBVIOUS
  <2> HIDE DEF o
  <2>2. PICK owed \in BOOLEAN : owed = ~ops[o].delivered
    BY <2>1
  <2>3. Committing(d, o, ops[o].rev, owed)
    BY <1>11, <2>2
  <2>4. /\ GoesOn(d) /\ Nothing /\ work' \in [Document -> Standing]
        /\ work'[d] = [Idle EXCEPT !.pc = "committed", !.op = o, !.reply = ops[o].rev, !.owed = owed]
    BY <1>5, <1>7, <1>11, <2>3
  <2>5. TypeInv'
    BY <1>1, <1>11, <2>4 DEF Base, TypeInv
  <2> QED
    BY <1>3, <1>11, <2>4, <2>5 DEF Ordinary, o
<1>12. CASE /\ ops[o].rev = 0 /\ ops[o].base = db.rev[d]
            /\ db' = [db EXCEPT !.rev[d] = @ + 1,
                                !.elements[d] = Applied(ops[o].do, ops[o].el, db.elements[d])]
            /\ ops' = [ops EXCEPT ![o].rev = ops[o].base + 1]
            /\ Committing(d, o, ops[o].base + 1, TRUE)
            /\ UNCHANGED <<sock, line, known>>
  <2>0. ops[o].el \in Element
    <3>1. ops[o].doc = d
      BY <1>1, HeadTask DEF Base, SentInv
    <3> QED
      BY <1>3, <3>1, NoneAssumption DEF Base, SentInv
  <2> HIDE DEF o
  <2>1. PICK owed \in BOOLEAN : owed = TRUE
    OBVIOUS
  <2>2. Committing(d, o, ops[o].base + 1, owed) /\ ops[o].base + 1 \in Nat
    <3>1. ops[o].base + 1 \in Nat
      BY <1>5
    <3>2. Committing(d, o, ops[o].base + 1, TRUE)
      BY <1>12
    <3>3. Committing(d, o, ops[o].base + 1, owed)
      BY <2>1, <3>2, Zenon
    <3> QED
      BY <3>1, <3>3
  <2>3. /\ GoesOn(d) /\ Nothing /\ work' \in [Document -> Standing]
        /\ work'[d] = [Idle EXCEPT !.pc = "committed", !.op = o,
                                   !.reply = ops[o].base + 1, !.owed = owed]
    BY <1>7, <1>12, <2>2
  <2>4. ops' \in [Op -> Row]
    BY <1>3, <1>5, <1>12, <2>2 DEF Base, TypeInv, Row
  <2> DEFINE E == Applied(ops[o].do, ops[o].el, db.elements[d])
  <2>5. E \in SUBSET Element
    BY <2>0 DEF Base, TypeInv, DatabaseType, Applied
  <2> HIDE DEF E
  <2>6. db' = [db EXCEPT !.rev[d] = @ + 1, !.elements[d] = E]
    BY <1>12 DEF E
  <2>7. /\ db' \in DatabaseType /\ db'.exists = db.exists /\ db'.member = db.member
        /\ db'.sessions = db.sessions /\ db'.rev = [db.rev EXCEPT ![d] = @ + 1]
    <3> DEFINE rev == [db.rev EXCEPT ![d] = @ + 1]
               elements == [db.elements EXCEPT ![d] = E]
    <3>1. rev \in [Document -> Nat] /\ elements \in [Document -> SUBSET Element]
      BY <2>5 DEF Base, TypeInv, DatabaseType
    <3>2. db' = [db EXCEPT !.rev = rev, !.elements = elements]
      BY <2>6
    <3> HIDE DEF rev, elements
    <3>3. /\ db' \in DatabaseType /\ db'.exists = db.exists /\ db'.member = db.member
          /\ db'.sessions = db.sessions /\ db'.rev = rev
      BY <3>1, <3>2 DEF Base, TypeInv, DatabaseType
    <3> QED
      BY <3>3 DEF rev
  <2>8. TypeInv'
    BY <1>1, <1>12, <2>3, <2>4, <2>7 DEF Base, TypeInv
  <2> QED
    BY <1>3, <1>12, <2>3, <2>7, <2>8 DEF Ordinary, o
<1>13. \/ Replies(d, sock, -1) /\ UNCHANGED <<db, ops>>
       \/ Replies(d, Doomed({Caller(d)}), -1) /\ UNCHANGED <<db, ops>>
       \/ Replies(d, sock, db.rev[d]) /\ UNCHANGED <<db, ops>>
       \/ /\ ops[o].rev > 0
          /\ Committing(d, o, ops[o].rev, ~ops[o].delivered)
          /\ UNCHANGED <<db, ops, sock, line, known>>
       \/ /\ ~(ops[o].rev > 0) /\ ops[o].base = db.rev[d]
          /\ db' = [db EXCEPT !.rev[d] = @ + 1,
                              !.elements[d] = Applied(ops[o].do, ops[o].el, db.elements[d])]
          /\ ops' = [ops EXCEPT ![o].rev = ops[o].base + 1]
          /\ Committing(d, o, ops[o].base + 1, TRUE)
          /\ UNCHANGED <<sock, line, known>>
  BY DEF CommandProcess, Outdated
<1>14. ops[o].rev > 0 \/ ops[o].rev = 0
  BY <1>5
<1> HIDE DEF o
<1> QED
  BY <1>8, <1>9, <1>10, <1>11, <1>12, <1>13, <1>14 DEF o

\* Where a task stands that has read the document.
Read(d, w) == [w EXCEPT !.pc = "current", !.found = d \in db.exists, !.rev = db.rev[d],
                        !.elements = db.elements[d]]

\* A task that has read its document carries the revision of it.
LEMMA ReadStanding ==
  ASSUME TypeInv, NEW d \in Document, NEW w \in Standing
  PROVE  /\ Read(d, w) \in Standing /\ Read(d, w).pc = "current" /\ Read(d, w).rev = db.rev[d]
         /\ Read(d, w).found <=> d \in db.exists
         /\ Read(d, w).live = w.live /\ Read(d, w).op = w.op /\ Read(d, w).reply = w.reply
         /\ Read(d, w).owed = w.owed /\ Read(d, w).change = w.change
         /\ Read(d, w).except = w.except
<1> DEFINE found == d \in db.exists
<1>1. found \in BOOLEAN
  OBVIOUS
<1>2. Read(d, w) = [w EXCEPT !.pc = "current", !.found = found, !.rev = db.rev[d],
                             !.elements = db.elements[d]]
  BY DEF Read
<1>3. db.rev[d] \in Revision /\ db.elements[d] \in SUBSET Element
  BY DEF TypeInv, DatabaseType, Revision
<1>4. found <=> d \in db.exists
  OBVIOUS
<1> HIDE DEF found
<1> QED
  BY <1>1, <1>2, <1>3, <1>4 DEF Standing, Steps

\* A command whose operation is undelivered reads its document, any other answers.
LEMMA CommandCurrentEffect ==
  ASSUME Base, NEW d \in Document, CommandCurrent(d)
  PROVE  /\ TypeInv' /\ Ordinary(d) /\ Nothing
         /\ work'[d] = Idle \/ work'[d] = Read(d, work[d])
<1>1. /\ Busy(d) /\ Head(line[d]).kind = "command"
      /\ UNCHANGED <<db, ops, outbox, present, held, crit, budget>>
  BY DEF CommandCurrent, At
<1>2. work[d] \in Standing
  BY DEF Base, TypeInv
<1>3. work[d].reply \in Revision
  BY <1>2 DEF Standing
<1>4. CASE Replies(d, sock, work[d].reply)
  <2>1. Ends(d) /\ Nothing /\ sock' \in SockType /\ known' \in KnownType
    BY <1>1, <1>3, <1>4, SockKept, RepliesEffect
  <2> QED
    BY <1>1, <2>1 DEF Base, TypeInv, Ends, Elsewhere, Ordinary
<1>5. CASE ReadCurrent(d, work[d]) /\ UNCHANGED <<sock, line, known>>
  <2>1. Read(d, work[d]) \in Standing
    BY <1>2, ReadStanding DEF Base
  <2>2. GoesOn(d) /\ work'[d] = Read(d, work[d]) /\ work' \in [Document -> Standing]
    BY <1>5, <2>1, GotoEffect DEF ReadCurrent, Read
  <2>3. Nothing
    BY <1>1, <1>5, SocksKept
  <2> QED
    BY <1>1, <1>5, <2>2, <2>3 DEF Base, TypeInv, Ordinary
<1> QED
  BY <1>4, <1>5 DEF CommandCurrent

\* A command announces what it has read to all, or its operation to all but the caller.
LEMMA CommandBroadcastEffect ==
  ASSUME Base, NEW d \in Document, CommandBroadcast(d)
  PROVE  /\ TypeInv' /\ Ordinary(d) /\ Withdrawal
         /\ \/ work'[d] = Idle
            \/ \E w \in Standing :
                 /\ work'[d] = Chosen(d, w) /\ Withdrawn(FencedOut(d), {d})
                 /\ w.rev = work[d].rev /\ w.op = work[d].op /\ w.reply = work[d].reply
                 /\ w.except = IF work[d].rev = work[d].reply THEN Caller(d) ELSE None
<1> DEFINE except == IF work[d].rev = work[d].reply THEN Caller(d) ELSE None
           w == [work[d] EXCEPT !.except = except]
           E == work[d].elements
<1>1. /\ Busy(d) /\ Head(line[d]).kind = "command"
      /\ UNCHANGED <<db, ops, outbox, crit, budget>>
  BY DEF CommandBroadcast, At
<1>2. work[d] \in Standing /\ Caller(d) \in Socket
  BY <1>1, CallerSocket DEF Base, TypeInv
<1>3. work[d].reply \in Revision
  BY <1>2 DEF Standing
<1>4. CASE Replies(d, sock, work[d].reply) /\ UNCHANGED <<present, held>>
  <2>1. Ends(d) /\ Nothing /\ sock' \in SockType /\ known' \in KnownType
    BY <1>1, <1>3, <1>4, SockKept, RepliesEffect
  <2>2. Withdrawal
    BY <2>1 DEF Nothing, Withdrawal
  <2> QED
    BY <1>1, <1>4, <2>1, <2>2 DEF Base, TypeInv, Ends, Elsewhere, Ordinary
<1>5. CASE Broadcast(d, w, Reconciled(d, E), ReconcileNotices(d, E))
  <2>1. except \in Socket \cup {None}
    BY <1>2
  <2>2. /\ w \in Standing /\ w.rev = work[d].rev /\ w.op = work[d].op
        /\ w.reply = work[d].reply /\ w.except = except
    <3> HIDE DEF except
    <3> QED
      BY <1>2, <2>1 DEF Standing
  <2> HIDE DEF w
  <2>3. /\ Reconciled(d, E) \in HeldType /\ ReconcileNotices(d, E) \in Nat
        /\ \A e \in Document, x \in Element : Reconciled(d, E)[e][x] \in {None, held[e][x]}
    <3>1. held \in HeldType
      BY DEF Base, TypeInv
    <3> QED
      BY <3>1, ReconciledHeld
  <2>4. /\ GoesOn(d) /\ work'[d] = Chosen(d, w)
        /\ FencedOut(d) \in SUBSET Socket /\ Withdrawn(FencedOut(d), {d})
        /\ sock' \in SockType /\ present' \in PresentType /\ held' \in HeldType
        /\ known' \in KnownType
    BY <1>5, <2>2, <2>3, BroadcastEffect
  <2>5. Withdrawal
    BY <2>4 DEF Withdrawal
  <2> QED
    BY <1>1, <2>2, <2>4, <2>5 DEF Base, TypeInv, GoesOn, Elsewhere, Ordinary
<1> QED
  BY <1>4, <1>5 DEF CommandBroadcast

\* A command emits its event and goes on to mark it.
LEMMA CommandEmitEffect ==
  ASSUME Base, NEW d \in Document, CommandEmit(d)
  PROVE  /\ TypeInv' /\ Ordinary(d) /\ Withdrawal
         /\ work'[d] = [work[d] EXCEPT !.pc = "marking"]
<1>1. /\ Emit(d) /\ line' = EmitLine(d) /\ work' = [work EXCEPT ![d] = [work[d] EXCEPT !.pc = "marking"]]
      /\ UNCHANGED <<db, ops, outbox, crit, budget>>
  BY DEF CommandEmit, Goto
<1> DEFINE w == [work[d] EXCEPT !.pc = "marking"]
<1>2. w \in Standing
  BY DEF Base, TypeInv, Standing, Steps
<1> HIDE DEF w
<1>3. /\ Revoked(d) \in SUBSET Socket /\ Withdrawn(Revoked(d), {d})
      /\ sock' \in SockType /\ present' \in PresentType /\ held' \in HeldType
      /\ known' \in KnownType
      /\ sock'.joins = sock.joins /\ sock'.turn = sock.turn
  BY <1>1, EmitEffect
<1>4. /\ GrownBy(line, line', {"tell"})
      /\ \A e \in Document \ {d} : line'[e] = line[e]
      /\ Len(line'[d]) <= Len(line[d]) \/ Len(line'[d]) <= StandardCapacity
  BY <1>1, EmitLineGrown DEF Base
<1>5. GoesOn(d) /\ work'[d] = w
  BY <1>1, <1>2, <1>3, <1>4, SameJoins, GoesOnOf DEF Base, w
<1>6. Withdrawal
  BY <1>3 DEF Withdrawal
<1> QED
  BY <1>1, <1>3, <1>5, <1>6 DEF Base, TypeInv, GoesOn, Elsewhere, Ordinary, w

\* The mark of an operation that has been committed, and who was not told.
LEMMA MarkedRows ==
  ASSUME TypeInv, NEW o, NEW u \in Socket \cup {None}
  PROVE  /\ Marked(o, u) \in [Op -> Row]
         /\ \A p \in Op : p # o => Marked(o, u)[p] = ops[p]
         /\ o \in Op =>
              /\ Marked(o, u)[o].doc = ops[o].doc /\ Marked(o, u)[o].base = ops[o].base
              /\ Marked(o, u)[o].author = ops[o].author
              /\ Marked(o, u)[o].el = ops[o].el /\ Marked(o, u)[o].rev = ops[o].rev
              /\ Marked(o, u)[o].untold = u
              /\ Marked(o, u)[o].delivered <=> ops[o].delivered \/ ops[o].rev > 0
<1>1. PICK b \in BOOLEAN : b = (ops[o].delivered \/ ops[o].rev > 0)
  OBVIOUS
<1>2. Marked(o, u) = [ops EXCEPT ![o].delivered = b, ![o].untold = u]
  BY <1>1 DEF Marked
<1>3. ops \in [Op -> Row]
  BY DEF TypeInv
<1>4. \A p \in Op : [ops[p] EXCEPT !.delivered = b, !.untold = u] \in Row
  BY <1>1, <1>3 DEF Row
<1>5. \A p \in Op : p # o => Marked(o, u)[p] = ops[p]
  BY <1>2, <1>3
<1>6. ASSUME o \in Op PROVE Marked(o, u)[o] = [ops[o] EXCEPT !.delivered = b, !.untold = u]
  BY <1>2, <1>3, <1>6
<1>7. Marked(o, u) \in [Op -> Row]
  <2>1. DOMAIN Marked(o, u) = Op /\ Marked(o, u) = [p \in Op |-> Marked(o, u)[p]]
    BY <1>2, <1>3
  <2>2. \A p \in Op : Marked(o, u)[p] \in Row
    BY <1>3, <1>4, <1>5, <1>6
  <2> QED
    BY <2>1, <2>2
<1>8. ASSUME o \in Op
      PROVE  /\ Marked(o, u)[o].doc = ops[o].doc /\ Marked(o, u)[o].base = ops[o].base
             /\ Marked(o, u)[o].author = ops[o].author
             /\ Marked(o, u)[o].el = ops[o].el /\ Marked(o, u)[o].rev = ops[o].rev
             /\ Marked(o, u)[o].untold = u /\ Marked(o, u)[o].delivered = b
  <2>1. ops[o] \in Row
    BY <1>3, <1>8
  <2> QED
    BY <1>6, <1>8, <2>1 DEF Row
<1> QED
  BY <1>1, <1>5, <1>7, <1>8

\* The mark of everything that is undelivered in d.
LEMMA AllMarkedRows ==
  ASSUME TypeInv, NEW d \in Document
  PROVE  /\ AllMarked(d) \in [Op -> Row]
         /\ \A o \in Op : AllMarked(d)[o] =
              IF o \in Pending(d) THEN [ops[o] EXCEPT !.delivered = TRUE] ELSE ops[o]
<1>1. \A o \in Op : ops[o] \in Row /\ [ops[o] EXCEPT !.delivered = TRUE] \in Row
  BY DEF TypeInv, Row
<1> QED
  BY <1>1 DEF AllMarked

\* A command that has marked its operation answers its caller, who learns the reply.
LEMMA CommandDeliveredEffect ==
  ASSUME Base, NEW d \in Document, CommandDelivered(d)
  PROVE  /\ TypeInv' /\ Ordinary(d) /\ Nothing /\ work'[d] = Idle
         /\ Caller(d) \in Socket
         /\ \A s \in Socket, e \in Document :
              known'[s][e] = IF s = Caller(d) /\ e = d /\ known[s][d] \in 0 .. work[d].reply
                               THEN work[d].reply ELSE known[s][e]
<1>1. /\ Busy(d) /\ Head(line[d]).kind = "command" /\ Replies(d, sock, work[d].reply)
      /\ ops' = Marked(work[d].op, None)
      /\ UNCHANGED <<db, outbox, present, held, crit, budget>>
  BY DEF CommandDelivered, At
<1>2. work[d].reply \in Revision
  BY DEF Base, TypeInv, Standing
<1>3. /\ Ends(d) /\ Nothing /\ sock' \in SockType /\ known' \in KnownType
      /\ Caller(d) \in Socket
      /\ \A s \in Socket, e \in Document :
           known'[s][e] = IF s = Caller(d) /\ e = d /\ known[s][d] \in 0 .. work[d].reply
                            THEN work[d].reply ELSE known[s][e]
  BY <1>1, <1>2, SockKept, RepliesEffect
<1>4. ops' \in [Op -> Row]
  BY <1>1, MarkedRows DEF Base
<1>5. work'[d] = Idle
  BY <1>1, <1>3 DEF Ends
<1>6. Ordinary(d)
  BY <1>1, <1>3 DEF Ordinary
<1>7. TypeInv'
  BY <1>1, <1>3, <1>4 DEF Base, TypeInv, Ends, Elsewhere
<1> QED
  BY <1>3, <1>5, <1>6, <1>7

\* A request for a lock ends.
LEMMA LockServedEffect ==
  ASSUME Base, NEW d \in Document, LockServed(d)
  PROVE  TypeInv' /\ Ordinary(d) /\ Nothing /\ work'[d] = Idle
<1> DEFINE s == Caller(d)
           el == Head(line[d]).el
           do == Head(line[d]).do
           granted == /\ Admitted(s, d) /\ el \in work[d].elements
                      /\ held[d][el] \in (IF do = "acquire" THEN {None, s} ELSE {s})
           m == IF granted THEN Notify(line, d, 1) ELSE line
<1>1. /\ Busy(d) /\ Head(line[d]).kind = "lock"
      /\ held' = IF granted
                   THEN [held EXCEPT ![d][el] = IF do = "release" THEN None ELSE s]
                   ELSE held
      /\ line' = Pop(m, d) /\ work' = [work EXCEPT ![d] = Idle]
      /\ UNCHANGED <<db, ops, outbox, sock, present, crit, known, budget>>
  BY DEF LockServed, At, Done, Goto
<1>2. s \in Socket /\ el \in Element
  BY <1>1, CallerSocket, HeadTask, TaskFields DEF Base
<1>3. granted => s \in present[d]
  BY <1>2 DEF Admitted, Base, RoomInv
<1> HIDE DEF granted, s, el, do
<1>4. /\ GrownBy(line, m, {"tell"})
      /\ \A e \in Document \ {d} : m[e] = line[e]
      /\ Len(m[d]) <= Len(line[d]) \/ Len(m[d]) <= StandardCapacity
  <2>1. CASE granted
    BY <2>1, NotifyLine DEF Base, TypeInv
  <2>2. CASE ~granted
    BY <2>2, UngrownLine DEF Base
  <2> QED
    BY <2>1, <2>2
<1> HIDE DEF m
<1>5. Ends(d)
  BY <1>1, <1>4, SameJoins, EndsOf DEF Base
<1>6. held \in HeldType
  BY DEF Base, TypeInv
<1>7. held' \in HeldType
  BY <1>1, <1>2, <1>6 DEF HeldType
<1>8. ASSUME NEW e \in Document, NEW x \in Element
      PROVE  held'[e][x] \in {None} \cup present'[e] \/ held'[e][x] = held[e][x]
  BY <1>1, <1>2, <1>3, <1>6 DEF HeldType
<1>9. Nothing
  <2>1. \A r \in Socket, e \in Document : known'[r][e] >= known[r][e]
    BY <1>1 DEF Base, TypeInv, KnownType, Revision
  <2> QED
    BY <1>1, <1>8, <2>1, SockKept DEF Nothing, Withdrawn
<1> QED
  BY <1>1, <1>5, <1>7, <1>9 DEF Base, TypeInv, Ends, Elsewhere, Ordinary

\* Withdrawing the sockets F from d, whatever locks are freed besides.
LEMMA WithoutEffect ==
  ASSUME Base, NEW F \in SUBSET Socket, NEW d \in Document, NEW h \in HeldType,
         \A e \in Document, x \in Element : h[e][x] \in {None, held[e][x]},
         sock' = SockWithout(F, d), present' = PresentWithout(F, d),
         held' = Unlock(h, F, d), known' = Forget(F, d)
  PROVE  /\ Withdrawn(F, {d}) /\ Withdrawal
         /\ sock' \in SockType /\ present' \in PresentType /\ held' \in HeldType
         /\ known' \in KnownType
         /\ sock'.joins = sock.joins /\ sock'.turn = sock.turn
<1>2. sock \in SockType /\ present \in PresentType /\ known \in KnownType
  BY DEF Base, TypeInv
<1>3. /\ sock' \in SockType /\ sock'.connected = sock.connected /\ sock'.doomed = sock.doomed
      /\ sock'.joins = sock.joins /\ sock'.turn = sock.turn
  BY <1>2, WithoutSock
<1>6. /\ known' \in KnownType
      /\ \A s \in Socket, e \in Document :
           known'[s][e] = IF s \in F /\ e = d THEN -1 ELSE known[s][e]
  BY <1>2, ForgetKnown
<1>7. \A s \in Socket, e \in Document : ~(s \in F /\ e = d) => known'[s][e] >= known[s][e]
  BY <1>2, <1>6 DEF KnownType, Revision
<1>8. sock'.doomed \subseteq sock.connected
  BY <1>3, SockKept
<1>9. Withdrawn(F, {d})
  BY <1>3, <1>7, <1>8, StoresWithout
<1>10. present' \in PresentType /\ held' \in HeldType
  BY <1>2, WithoutPresent, UnlockHeld
<1> QED
  BY <1>3, <1>6, <1>9, <1>10 DEF Withdrawal

\* A line may grow by tasks of two sets of kinds, one after the other.
LEMMA GrownOn ==
  ASSUME NEW p \in Seq(Task), NEW q \in Seq(Task), NEW r \in Seq(Task),
         NEW K, NEW L, Grown(p, q, K), Grown(q, r, L)
  PROVE  Grown(p, r, K \cup L)
<1>1. Len(p) \in Nat /\ Len(q) \in Nat /\ Len(r) \in Nat
  OBVIOUS
<1>2. Len(p) <= Len(q) /\ Len(q) <= Len(r)
  BY DEF Grown, Longer
<1>3. ASSUME NEW i \in 1 .. Len(p) PROVE r[i] = p[i]
  <2>1. i \in 1 .. Len(q)
    BY <1>1, <1>2
  <2> QED
    BY <2>1 DEF Grown, Longer
<1>4. ASSUME NEW i \in Len(p) + 1 .. Len(r) PROVE r[i].kind \in K \cup L
  <2>1. CASE i <= Len(q)
    <3>1. i \in Len(p) + 1 .. Len(q) /\ i \in 1 .. Len(q)
      BY <1>1, <2>1
    <3> QED
      BY <3>1 DEF Grown, Longer
  <2>2. CASE i > Len(q)
    <3>1. i \in Len(q) + 1 .. Len(r)
      BY <1>1, <2>2
    <3> QED
      BY <3>1 DEF Grown
  <2> QED
    BY <1>1, <2>1, <2>2
<1>5. Len(p) <= Len(r)
  BY <1>1, <1>2
<1>6. Longer(p, r)
  BY <1>3, <1>5 DEF Longer
<1> QED
  BY <1>4, <1>6 DEF Grown

\* Scheduling work for one document leaves the lines of the others alone.
LEMMA ScheduledAlone ==
  ASSUME NEW c \in CritType, NEW l \in LineType, NEW d \in Document
  PROVE  /\ \A e \in Document : e # d => SchedulingLine(c, l, {d})[e] = l[e]
         /\ GrownBy(l, SchedulingLine(c, l, {d}), {"critical"})
<1>1. {d} \in SUBSET Document
  OBVIOUS
<1>2. /\ GrownBy(l, SchedulingLine(c, l, {d}), {"critical"})
      /\ \A e \in Document :
           IF e \in Unscheduled(c, {d}) /\ Len(l[e]) < Capacity
             THEN SchedulingLine(c, l, {d})[e] = Append(l[e], Critical)
             ELSE SchedulingLine(c, l, {d})[e] = l[e]
  BY <1>1, ScheduledLine
<1>3. \A e \in Document : e # d => e \notin Unscheduled(c, {d})
  BY DEF Unscheduled
<1> QED
  BY <1>2, <1>3

\* Critical work that ends may put itself into the line again.
LEMMA EndCriticalEffect ==
  ASSUME Base, NEW d \in Document, Busy(d), NEW c \in CritType, NEW m,
         GrownBy(line, m, {"tell"}), \A e \in Document \ {d} : m[e] = line[e],
         Len(m[d]) <= Len(line[d]) \/ Len(m[d]) <= StandardCapacity,
         NEW failed \in BOOLEAN, EndCritical(c, m, d, failed),
         sock'.joins = sock.joins, sock'.turn = sock.turn
  PROVE  /\ EndsCritically(d) /\ crit' \in CritType
         /\ crit'.deleted = c.deleted /\ crit'.resync = c.resync
<1> DEFINE c1 == [c EXCEPT !.scheduled = @ \ {d}]
           l1 == Pop(m, d)
<1>1. line \in LineType /\ m \in LineType
  BY DEF Base, TypeInv, GrownBy
<1>2. m[d] # <<>>
  BY <1>1, HeadKept DEF Busy
<1>3. /\ crit' \in CritType /\ line' \in LineType
      /\ work' = [work EXCEPT ![d] = Idle]
      /\ crit'.deleted = c.deleted /\ crit'.resync = c.resync
  BY <1>1, <1>2, EndCriticalStep DEF Base
<1>4. /\ l1 \in LineType
      /\ \A e \in Document : e # d => l1[e] = line[e]
      /\ Grown(Tail(line[d]), l1[d], {"tell"})
  BY EndedLine DEF Base
<1>5. c1 \in CritType
  BY DEF CritType
<1>6. line' = SchedulingLine(c1, l1, {d}) \/ line' = l1
  BY DEF EndCritical
<1> HIDE DEF c1, l1
<1>7. /\ \A e \in Document : e # d => line'[e] = line[e]
      /\ Grown(l1[d], line'[d], {"critical"})
  <2>1. CASE line' = SchedulingLine(c1, l1, {d})
    BY <1>4, <1>5, <2>1, ScheduledAlone DEF GrownBy
  <2>2. CASE line' = l1
    BY <1>4, <2>2 DEF Grown, Longer, LineType
  <2> QED
    BY <1>6, <2>1, <2>2
<1>8. Tail(line[d]) \in Seq(Task) /\ l1[d] \in Seq(Task) /\ line'[d] \in Seq(Task)
  BY <1>1, <1>3, <1>4, HeadTailProperties DEF Busy, LineType
<1>9. Grown(Tail(line[d]), line'[d], {"tell"} \cup {"critical"})
  BY <1>4, <1>7, <1>8, GrownOn
<1>10. {"tell"} \cup {"critical"} = {"tell", "critical"}
  OBVIOUS
<1>11. /\ work' \in [Document -> Standing] /\ work'[d] = Idle
       /\ \A e \in Document : e # d => work'[e] = work[e]
  BY <1>3, IdleStanding, Goes DEF Base
<1> QED
  BY <1>3, <1>7, <1>9, <1>10, <1>11, SameJoins DEF EndsCritically, Elsewhere

\* A replacement or a deletion ends and schedules the work it causes.
LEMMA PublishedEffect ==
  ASSUME Base, NEW d \in Document, Busy(d), NEW c \in CritType,
         line' = Pop(SchedulingLine(c, line, {d}), d),
         work' = [work EXCEPT ![d] = Idle], sock' = sock
  PROVE  EndsCritically(d)
<1> DEFINE m == SchedulingLine(c, line, {d})
<1>1. line \in LineType /\ line[d] # <<>>
  BY DEF Base, TypeInv, Busy
<1>2. GrownBy(line, m, {"critical"}) /\ \A e \in Document : e # d => m[e] = line[e]
  BY <1>1, ScheduledAlone
<1> HIDE DEF m
<1>3. /\ line' \in LineType /\ \A e \in Document : e # d => line'[e] = line[e]
      /\ Grown(Tail(line[d]), line'[d], {"critical"})
  BY <1>1, <1>2, TailGrown DEF m
<1>4. Grown(Tail(line[d]), line'[d], {"tell", "critical"})
  BY <1>3 DEF Grown
<1>5. /\ work' \in [Document -> Standing] /\ work'[d] = Idle
      /\ \A e \in Document : e # d => work'[e] = work[e]
  BY IdleStanding, Goes DEF Base
<1> QED
  BY <1>3, <1>4, <1>5, SameJoins DEF EndsCritically, Elsewhere

\* A call that is rejected ends.
LEMMA RejectedEffect ==
  ASSUME Base, NEW d \in Document, Busy(d), Rejected(d), sock' = sock
  PROVE  Ends(d)
<1>1. line' = Pop(line, d) /\ work' = [work EXCEPT ![d] = Idle]
  BY DEF Rejected, Done, Goto
<1>2. GrownBy(line, line, {"tell"}) /\ Len(line[d]) <= Len(line[d])
  BY UngrownLine DEF Base
<1> QED
  BY <1>1, <1>2, SameJoins, EndsOf DEF Base

\* A replacement commits the next revision, or ends.
LEMMA ReplaceTransactEffect ==
  ASSUME Base, NEW d \in Document, ReplaceTransact(d)
  PROVE  /\ TypeInv' /\ Ordinary(d) /\ Nothing
         /\ \/ db' = db /\ work'[d] = Idle
            \/ /\ db'.exists = db.exists /\ db'.member = db.member
               /\ db'.sessions = db.sessions
               /\ db'.rev = [db.rev EXCEPT ![d] = @ + 1]
               /\ work'[d].pc = "committed"
<1> DEFINE t == Head(line[d])
<1>1. /\ Busy(d) /\ t.kind = "put"
      /\ UNCHANGED <<ops, outbox, sock, present, held, crit, known, budget>>
  BY DEF ReplaceTransact, At
<1>2. Nothing
  BY <1>1, SocksKept
<1>3. t.base \in Nat /\ t.elements \in SUBSET Element
  BY <1>1, HeadTask, TaskFields DEF Base
<1>4. CASE Rejected(d) /\ UNCHANGED db
  <2>1. Ends(d)
    BY <1>1, <1>4, RejectedEffect
  <2> QED
    BY <1>1, <1>2, <1>4, <2>1 DEF Base, TypeInv, Ends, Elsewhere, Ordinary
<1>5. CASE /\ db' = [db EXCEPT !.rev[d] = @ + 1, !.elements[d] = t.elements]
           /\ Goto(d, [Idle EXCEPT !.pc = "committed", !.rev = t.base + 1,
                                   !.elements = t.elements])
           /\ UNCHANGED line
  <2> HIDE DEF t
  <2> DEFINE rev == [db.rev EXCEPT ![d] = @ + 1]
             elements == [db.elements EXCEPT ![d] = t.elements]
             w == [Idle EXCEPT !.pc = "committed", !.rev = t.base + 1, !.elements = t.elements]
  <2>1. rev \in [Document -> Nat] /\ elements \in [Document -> SUBSET Element]
    BY <1>3 DEF Base, TypeInv, DatabaseType
  <2>2. db' = [db EXCEPT !.rev = rev, !.elements = elements]
    BY <1>5
  <2>3. /\ w \in Standing /\ w.pc = "committed"
    <3>1. t.base + 1 \in Revision
      BY <1>3 DEF Revision
    <3>2. PICK r \in Revision, E \in SUBSET Element : r = t.base + 1 /\ E = t.elements
      BY <1>3, <3>1
    <3>3. w = [Idle EXCEPT !.pc = "committed", !.rev = r, !.elements = E]
      BY <3>2
    <3> HIDE DEF w
    <3> QED
      BY <3>3, IdleStanding DEF Standing, Steps
  <2> HIDE DEF rev, elements, w
  <2>4. /\ db' \in DatabaseType /\ db'.exists = db.exists /\ db'.member = db.member
        /\ db'.sessions = db.sessions /\ db'.rev = rev
    BY <2>1, <2>2 DEF Base, TypeInv, DatabaseType
  <2>5. GoesOn(d) /\ work'[d] = w /\ work' \in [Document -> Standing]
    BY <1>1, <1>5, <2>3, GotoEffect DEF w
  <2> QED
    BY <1>1, <1>2, <1>5, <2>3, <2>4, <2>5 DEF Base, TypeInv, Ordinary, rev
<1> QED
  BY <1>4, <1>5 DEF ReplaceTransact

\* A replacement publishes its change and ends.
LEMMA ReplacePublishEffect ==
  ASSUME Base, NEW d \in Document, ReplacePublish(d)
  PROVE  /\ TypeInv' /\ Moves(d) /\ Nothing /\ work'[d] = Idle
         /\ crit'.deleted = crit.deleted
<1> DEFINE change == [rev |-> work[d].rev, elements |-> work[d].elements]
           c == [crit EXCEPT !.resync[d] = change]
<1>1. /\ Busy(d) /\ work' = [work EXCEPT ![d] = Idle] /\ work[d].pc = "committed"
      /\ Head(line[d]).kind = "put"
      /\ UNCHANGED <<db, ops, outbox, sock, present, held, known, budget>>
  BY DEF ReplacePublish, At, Done, Goto
<1>2. Nothing
  BY <1>1, SocksKept
<1>3. CASE line' = Pop(line, d) /\ UNCHANGED crit
  <2>1. Ends(d)
    BY <1>1, <1>3, RejectedEffect DEF Rejected, Done, Goto
  <2> QED
    BY <1>1, <1>2, <1>3, <2>1 DEF Base, TypeInv, Ends, Elsewhere, Moves, Ordinary
<1>4. CASE /\ crit' = Scheduling(c, line, {d})
           /\ line' = Pop(SchedulingLine(crit, line, {d}), d)
  <2>1. change \in Announcement
    BY DEF Base, TypeInv, Standing, Announcement
  <2> HIDE DEF change
  <2>2. c \in CritType /\ c.deleted = crit.deleted
    BY <2>1 DEF Base, TypeInv, CritType
  <2> HIDE DEF c
  <2>3. {d} \in SUBSET Document /\ line \in LineType /\ crit \in CritType
    BY DEF Base, TypeInv
  <2>4. crit' \in CritType /\ crit'.deleted = crit.deleted
    BY <1>4, <2>2, <2>3, ScheduledCrit
  <2>5. EndsCritically(d)
    BY <1>1, <1>4, <2>3, PublishedEffect
  <2> QED
    BY <1>1, <1>2, <2>4, <2>5 DEF Base, TypeInv, EndsCritically, Elsewhere, Moves, Ordinary
<1> QED
  BY <1>3, <1>4 DEF ReplacePublish

\* Deleting the documents D voids their operations and nothing else.
LEMMA WithoutDocumentsType ==
  ASSUME TypeInv, NEW D \in SUBSET Document, WithoutDocuments(D)
  PROVE  /\ db' \in DatabaseType /\ ops' \in [Op -> Row]
         /\ db'.exists = db.exists \ D /\ db'.rev = db.rev
         /\ db'.member = db.member /\ db'.sessions = db.sessions
         /\ db'.elements = db.elements
         /\ \A o \in Op :
              ops'[o] = IF ops[o].doc \in D
                          THEN [ops[o] EXCEPT !.rev = 0, !.delivered = FALSE] ELSE ops[o]
<1>1. /\ db' = [db EXCEPT !.exists = @ \ D]
      /\ ops' = [o \in Op |-> IF ops[o].doc \in D
                               THEN [ops[o] EXCEPT !.rev = 0, !.delivered = FALSE] ELSE ops[o]]
  BY DEF WithoutDocuments
<1>2. /\ db' \in DatabaseType /\ db'.exists = db.exists \ D /\ db'.rev = db.rev
      /\ db'.member = db.member /\ db'.sessions = db.sessions
      /\ db'.elements = db.elements
  BY <1>1 DEF TypeInv, DatabaseType
<1>3. \A o \in Op : ops[o] \in Row /\ [ops[o] EXCEPT !.rev = 0, !.delivered = FALSE] \in Row
  BY DEF TypeInv, Row
<1>4. ops' \in [Op -> Row]
  BY <1>1, <1>3
<1> QED
  BY <1>1, <1>2, <1>4

\* A deletion commits, or ends.
LEMMA DeleteTransactEffect ==
  ASSUME Base, NEW d \in Document, DeleteTransact(d)
  PROVE  /\ TypeInv' /\ Ordinary(d) /\ Nothing
         /\ \/ UNCHANGED <<db, ops>> /\ work'[d] = Idle
            \/ WithoutDocuments({d}) /\ work'[d] = [Idle EXCEPT !.pc = "committed"]
<1>1. /\ Busy(d)
      /\ UNCHANGED <<outbox, sock, present, held, crit, known, budget>>
  BY DEF DeleteTransact, At
<1>2. Nothing
  BY <1>1, SocksKept
<1>3. CASE Rejected(d) /\ UNCHANGED <<db, ops>>
  <2>1. Ends(d)
    BY <1>1, <1>3, RejectedEffect
  <2> QED
    BY <1>1, <1>2, <1>3, <2>1 DEF Base, TypeInv, Ends, Elsewhere, Ordinary
<1>4. CASE /\ WithoutDocuments({d}) /\ Goto(d, [Idle EXCEPT !.pc = "committed"])
           /\ UNCHANGED line
  <2> DEFINE w == [Idle EXCEPT !.pc = "committed"]
  <2>1. w \in Standing
    BY IdleStanding DEF Standing, Steps
  <2>2. GoesOn(d) /\ work'[d] = w /\ work' \in [Document -> Standing]
    BY <1>1, <1>4, <2>1, GotoEffect
  <2>3. db' \in DatabaseType /\ ops' \in [Op -> Row]
    BY <1>4, WithoutDocumentsType DEF Base
  <2> QED
    BY <1>1, <1>2, <1>4, <2>2, <2>3 DEF Base, TypeInv, Ordinary
<1> QED
  BY <1>3, <1>4 DEF DeleteTransact

\* A deletion makes its document known as deleted, and ends.
LEMMA DeletePublishEffect ==
  ASSUME Base, NEW d \in Document, DeletePublish(d)
  PROVE  /\ TypeInv' /\ Moves(d) /\ Nothing /\ work'[d] = Idle
         /\ crit'.deleted = crit.deleted \cup {d}
<1> DEFINE c == GoneFrom(crit, {d})
<1>1. /\ Busy(d) /\ work' = [work EXCEPT ![d] = Idle]
      /\ crit' = Scheduling(c, line, {d})
      /\ line' = Pop(SchedulingLine(crit, line, {d}), d)
      /\ UNCHANGED <<db, ops, outbox, sock, present, held, known, budget>>
  BY DEF DeletePublish, At, Done, Goto
<1>2. Nothing
  BY <1>1, SocksKept
<1>3. {d} \in SUBSET Document /\ line \in LineType /\ crit \in CritType
  BY DEF Base, TypeInv
<1>4. c \in CritType /\ c.deleted = crit.deleted \cup {d}
  BY <1>3, GoneCrit
<1> HIDE DEF c
<1>5. crit' \in CritType /\ crit'.deleted = crit.deleted \cup {d}
  BY <1>1, <1>3, <1>4, ScheduledCrit
<1>6. EndsCritically(d)
  BY <1>1, <1>3, PublishedEffect
<1> QED
  BY <1>1, <1>2, <1>5, <1>6 DEF Base, TypeInv, EndsCritically, Elsewhere, Moves, Ordinary

\* An eviction completes the removals that are due in d, and the work goes on.
LEMMA CriticalEvictEffect ==
  ASSUME Base, NEW d \in Document, CriticalEvict(d)
  PROVE  /\ TypeInv' /\ GoesOn(d) /\ Withdrawal
         /\ work'[d] = [Idle EXCEPT !.pc = "evicted"]
         /\ crit' = Completed(crit, d)
<1> DEFINE F == {s \in sock.room[d] : crit.evictions[d][UserOf[s]] # 0 /\ Fenced(s, d)}
           w == [Idle EXCEPT !.pc = "evicted"]
<1>1. /\ Busy(d) /\ UNCHANGED <<db, ops, outbox, budget>>
      /\ sock' = SockWithout(F, d) /\ present' = PresentWithout(F, d)
      /\ held' = Unlock(held, F, d) /\ known' = Forget(F, d)
      /\ line' = Notify(line, d, Notices(held, F, d))
      /\ crit' = Completed(crit, d) /\ work' = [work EXCEPT ![d] = w]
  BY DEF CriticalEvict, At, Goto
<1>2. F \in SUBSET Socket
  BY RoomSockets, SockKept
<1>3. w \in Standing
  BY IdleStanding DEF Standing, Steps
<1> HIDE DEF F, w
<1>4. held \in HeldType /\ crit \in CritType /\ line \in LineType
  BY DEF Base, TypeInv
<1>5. /\ Withdrawal
      /\ sock' \in SockType /\ present' \in PresentType /\ held' \in HeldType
      /\ known' \in KnownType
      /\ sock'.joins = sock.joins /\ sock'.turn = sock.turn
  <2>1. \A e \in Document, x \in Element : held[e][x] \in {None, held[e][x]}
    OBVIOUS
  <2> QED
    BY <1>1, <1>2, <1>4, <2>1, WithoutEffect
<1>6. /\ GrownBy(line, line', {"tell"})
      /\ \A e \in Document \ {d} : line'[e] = line[e]
      /\ Len(line'[d]) <= Len(line[d]) \/ Len(line'[d]) <= StandardCapacity
  BY <1>1, <1>2, <1>4, NoticesNat, NotifyLine
<1>7. GoesOn(d) /\ work'[d] = w
  BY <1>1, <1>3, <1>5, <1>6, SameJoins, GoesOnOf DEF Base
<1>8. crit' \in CritType
  BY <1>1, <1>4, CompletedCrit
<1> QED
  BY <1>1, <1>5, <1>7, <1>8 DEF Base, TypeInv, GoesOn, Elsewhere, w

\* A deleted document is evacuated, and the work ends.
LEMMA CriticalDeletedEffect ==
  ASSUME Base, NEW d \in Document, CriticalDeleted(d)
  PROVE  /\ TypeInv' /\ EndsCritically(d) /\ Withdrawal
         /\ crit'.deleted = crit.deleted \ {d}
<1> DEFINE R == sock.room[d]
           rest == IF Unlock(held, R, d)[d] = NoLocks THEN 0 ELSE 1
           c == IF work[d].pc = "start" THEN Completed(crit, d) ELSE crit
           c1 == [c EXCEPT !.deleted = @ \ {d}, !.recovery = @ \ {d}]
           m == Notify(line, d, Notices(held, R, d) + rest)
           h == [held EXCEPT ![d] = NoLocks]
<1>1. /\ Busy(d) /\ UNCHANGED <<db, ops, outbox, budget>>
      /\ sock' = SockWithout(R, d) /\ present' = PresentWithout(R, d)
      /\ held' = h /\ known' = Forget(R, d)
      /\ EndCritical(c1, m, d, FALSE)
  BY DEF CriticalDeleted, At
<1>2. R \in SUBSET Socket
  BY RoomSockets, SockKept
<1>3. rest \in Nat
  OBVIOUS
<1>4. held \in HeldType /\ crit \in CritType /\ line \in LineType
  BY DEF Base, TypeInv
<1>5. c \in CritType /\ c.deleted = crit.deleted
  BY <1>4, CompletedCrit
<1> HIDE DEF c, rest
<1>6. c1 \in CritType /\ c1.deleted = crit.deleted \ {d}
  BY <1>5 DEF CritType
<1> HIDE DEF R, c1
<1>7. /\ h \in HeldType /\ h[d] = NoLocks
      /\ \A e \in Document, x \in Element : h[e][x] \in {None, held[e][x]}
  BY <1>4 DEF HeldType, NoLocks
<1>8. Unlock(h, R, d) = h
  <2>1. [x \in Element |-> IF h[d][x] \in R THEN None ELSE h[d][x]] = h[d]
    BY <1>7 DEF NoLocks
  <2> HIDE DEF h
  <2> QED
    BY <1>7, <2>1 DEF Unlock, HeldType
<1> HIDE DEF h
<1>9. /\ Withdrawal
      /\ sock' \in SockType /\ present' \in PresentType /\ held' \in HeldType
      /\ known' \in KnownType
      /\ sock'.joins = sock.joins /\ sock'.turn = sock.turn
  BY <1>1, <1>2, <1>7, <1>8, WithoutEffect
<1>10. /\ GrownBy(line, m, {"tell"})
       /\ \A e \in Document \ {d} : m[e] = line[e]
       /\ Len(m[d]) <= Len(line[d]) \/ Len(m[d]) <= StandardCapacity
  BY <1>2, <1>3, <1>4, NoticesNat, NotifyLine
<1> HIDE DEF m
<1>11. EndsCritically(d) /\ crit' \in CritType /\ crit'.deleted = c1.deleted
  BY <1>1, <1>6, <1>9, <1>10, EndCriticalEffect
<1> QED
  BY <1>1, <1>6, <1>9, <1>11 DEF Base, TypeInv, EndsCritically, Elsewhere

\* A recovery learns whether operations are undelivered.
LEMMA CriticalAskEffect ==
  ASSUME Base, NEW d \in Document, CriticalAsk(d)
  PROVE  /\ TypeInv' /\ GoesOn(d) /\ Nothing
         /\ \E owed \in BOOLEAN : work'[d] = [Idle EXCEPT !.pc = "asked", !.owed = owed]
<1> DEFINE pending == Pending(d) # {}
<1>1. PICK owed \in BOOLEAN : owed = pending
  OBVIOUS
<1> DEFINE w == [Idle EXCEPT !.pc = "asked", !.owed = owed]
<1>2. Goto(d, w) /\ UNCHANGED <<db, ops, outbox, sock, present, held, line, crit, known, budget>>
  BY <1>1 DEF CriticalAsk
<1>3. w \in Standing
  BY IdleStanding DEF Standing, Steps
<1>4. GoesOn(d) /\ work'[d] = w /\ work' \in [Document -> Standing]
  BY <1>2, <1>3, GotoEffect
<1>5. Nothing
  BY <1>2, SocksKept
<1> QED
  BY <1>2, <1>4, <1>5 DEF Base, TypeInv

\* Such a task stands at its answer, and excepts nobody.
LEMMA CriticalAsks ==
  ASSUME Base, NEW d \in Document, CriticalAsk(d)
  PROVE  work'[d].pc = "asked" /\ work'[d].except = None
<1>1. PICK owed \in BOOLEAN : work'[d] = [Idle EXCEPT !.pc = "asked", !.owed = owed]
  BY CriticalAskEffect
<1> QED
  BY <1>1 DEF Idle

\* How a critical task broadcasts the state of its document.
LEMMA CriticalBroadcastEffect ==
  ASSUME Base, NEW d \in Document, NEW w \in Standing, NEW E,
         Broadcast(d, w, Reconciled(d, E), ReconcileNotices(d, E))
  PROVE  /\ GoesOn(d) /\ Withdrawal /\ Withdrawn(FencedOut(d), {d})
         /\ work'[d] = Chosen(d, w) /\ work' \in [Document -> Standing]
         /\ sock' \in SockType /\ present' \in PresentType /\ held' \in HeldType
         /\ known' \in KnownType /\ line' \in LineType
<1>1. /\ Reconciled(d, E) \in HeldType /\ ReconcileNotices(d, E) \in Nat
      /\ \A e \in Document, x \in Element : Reconciled(d, E)[e][x] \in {None, held[e][x]}
  <2>1. held \in HeldType
    BY DEF Base, TypeInv
  <2> QED
    BY <2>1, ReconciledHeld
<1>2. /\ GoesOn(d) /\ work'[d] = Chosen(d, w)
      /\ FencedOut(d) \in SUBSET Socket /\ Withdrawn(FencedOut(d), {d})
      /\ sock' \in SockType /\ present' \in PresentType /\ held' \in HeldType
      /\ known' \in KnownType
  BY <1>1, BroadcastEffect
<1> QED
  BY <1>2 DEF GoesOn, Elsewhere, Withdrawal

\* Critical work reads the document, announces a replacement, or ends.
LEMMA CriticalDecideEffect ==
  ASSUME Base, NEW d \in Document, CriticalDecide(d)
  PROVE  /\ TypeInv' /\ Moves(d) /\ Withdrawal /\ crit'.deleted = crit.deleted
         /\ \/ work'[d] = Idle
            \/ \E change \in Announcement \cup {None} :
                 work'[d] = Read(d, [Idle EXCEPT !.owed = TRUE, !.change = change])
            \/ \E w \in Standing : w.owed = FALSE /\ w.except = None /\ work'[d] = Chosen(d, w)
<1> DEFINE owed == work[d].owed
           change == crit.resync[d]
           c == IF owed THEN crit ELSE [crit EXCEPT !.recovery = @ \ {d}]
<1>1. Busy(d) /\ UNCHANGED <<db, ops, outbox, budget>>
  BY DEF CriticalDecide, At, ReadyForResync
<1>2. crit \in CritType /\ change \in Announcement \cup {None}
  BY DEF Base, TypeInv, CritType
<1>3. c \in CritType /\ c.deleted = crit.deleted
  BY <1>2 DEF CritType
<1> HIDE DEF c
<1>4. CASE owed
  <2> DEFINE w == [Idle EXCEPT !.owed = TRUE, !.change = change]
  <2>1. w \in Standing
    <3> HIDE DEF change
    <3> QED
      BY <1>2, IdleStanding DEF Standing
  <2>2. Read(d, w) \in Standing
    BY <2>1, ReadStanding DEF Base
  <2>3. Goto(d, Read(d, w)) /\ UNCHANGED <<sock, present, held, line, crit, known>>
    BY <1>4 DEF CriticalDecide, ReadCurrent, Read
  <2> HIDE DEF w
  <2>4. GoesOn(d) /\ work'[d] = Read(d, w) /\ work' \in [Document -> Standing]
    BY <2>2, <2>3, GotoEffect
  <2>5. Withdrawal
    BY <2>3, SocksKept DEF Nothing, Withdrawal
  <2> QED
    BY <1>1, <1>2, <2>3, <2>4, <2>5 DEF Base, TypeInv, Moves, Ordinary, w
<1>5. CASE ~owed /\ change = None
  <2>1. EndCritical(c, line, d, FALSE) /\ UNCHANGED <<sock, present, held, known>>
    BY <1>5 DEF CriticalDecide, c
  <2>2. GrownBy(line, line, {"tell"}) /\ Len(line[d]) <= Len(line[d])
    BY UngrownLine DEF Base
  <2>3. EndsCritically(d) /\ crit' \in CritType /\ crit'.deleted = c.deleted
    BY <1>1, <1>3, <2>1, <2>2, EndCriticalEffect
  <2>4. Withdrawal
    BY <2>1, SocksKept DEF Nothing, Withdrawal
  <2> QED
    BY <1>1, <1>3, <2>1, <2>3, <2>4 DEF Base, TypeInv, EndsCritically, Elsewhere, Moves, Ordinary
<1>6. CASE ~owed /\ change # None
  <2> DEFINE w == [Idle EXCEPT !.change = change, !.rev = change.rev]
  <2>1. /\ Broadcast(d, w, Reconciled(d, change.elements), ReconcileNotices(d, change.elements))
        /\ crit' = c
    BY <1>6 DEF CriticalDecide, c
  <2>2. w \in Standing /\ w.owed = FALSE /\ w.except = None
    <3>1. change \in Announcement /\ change.rev \in Revision
      BY <1>2, <1>6 DEF Announcement
    <3>2. PICK r \in Revision : r = change.rev
      BY <3>1
    <3>3. w = [Idle EXCEPT !.change = change, !.rev = r]
      BY <3>2
    <3> HIDE DEF w, change
    <3> QED
      BY <3>1, <3>3, IdleStanding DEF Standing, Idle
  <2> HIDE DEF w
  <2>3. /\ GoesOn(d) /\ Withdrawal
        /\ work'[d] = Chosen(d, w) /\ work' \in [Document -> Standing]
        /\ sock' \in SockType /\ present' \in PresentType /\ held' \in HeldType
        /\ known' \in KnownType /\ line' \in LineType
    BY <2>1, <2>2, CriticalBroadcastEffect
  <2> QED
    BY <1>1, <1>3, <2>1, <2>2, <2>3 DEF Base, TypeInv, Moves, Ordinary
<1> QED
  BY <1>4, <1>5, <1>6

\* A recovery announces the document it has read, or has nobody to tell.
LEMMA CriticalCurrentEffect ==
  ASSUME Base, NEW d \in Document, CriticalCurrent(d)
  PROVE  /\ TypeInv' /\ GoesOn(d) /\ Withdrawal
         /\ \/ /\ work[d].found /\ Withdrawn(FencedOut(d), {d})
               /\ work'[d] = Chosen(d, work[d])
            \/ ~work[d].found /\ Nothing /\ work'[d] = [work[d] EXCEPT !.pc = "marking"]
<1>1. UNCHANGED <<db, ops, outbox, crit, budget>> /\ work[d] \in Standing
  BY DEF CriticalCurrent, Base, TypeInv
<1>2. CASE work[d].found
  <2>1. Broadcast(d, work[d], Reconciled(d, work[d].elements), ReconcileNotices(d, work[d].elements))
    BY <1>2 DEF CriticalCurrent
  <2>2. /\ GoesOn(d) /\ Withdrawal /\ Withdrawn(FencedOut(d), {d})
        /\ work'[d] = Chosen(d, work[d]) /\ work' \in [Document -> Standing]
        /\ sock' \in SockType /\ present' \in PresentType /\ held' \in HeldType
        /\ known' \in KnownType /\ line' \in LineType
    BY <1>1, <2>1, CriticalBroadcastEffect
  <2> QED
    BY <1>1, <1>2, <2>2 DEF Base, TypeInv
<1>3. CASE ~work[d].found
  <2> DEFINE w == [work[d] EXCEPT !.pc = "marking"]
  <2>1. Goto(d, w) /\ UNCHANGED <<sock, present, held, line, known>>
    BY <1>3 DEF CriticalCurrent
  <2>2. w \in Standing
    BY <1>1 DEF Standing, Steps
  <2> HIDE DEF w
  <2>3. GoesOn(d) /\ work'[d] = w /\ work' \in [Document -> Standing]
    BY <2>1, <2>2, GotoEffect
  <2>4. Nothing
    BY <2>1, SocksKept
  <2>5. Withdrawal
    BY <2>4 DEF Nothing, Withdrawal
  <2> QED
    BY <1>1, <1>3, <2>1, <2>3, <2>4, <2>5 DEF Base, TypeInv, w
<1> QED
  BY <1>2, <1>3

\* Critical work emits its event; a recovery goes on to mark operations.
LEMMA CriticalEmitEffect ==
  ASSUME Base, NEW d \in Document, CriticalEmit(d)
  PROVE  /\ TypeInv' /\ Moves(d) /\ Withdrawal /\ crit'.deleted = crit.deleted
         /\ \/ work[d].owed /\ work'[d] = [work[d] EXCEPT !.pc = "marking"]
            \/ work'[d] = Idle
<1> DEFINE c == IF crit.resync[d] = work[d].change THEN [crit EXCEPT !.resync[d] = None] ELSE crit
<1>1. Busy(d) /\ Emit(d) /\ UNCHANGED <<db, ops, outbox, budget>>
  BY DEF CriticalEmit, At
<1>2. crit \in CritType
  BY DEF Base, TypeInv
<1>3. c \in CritType /\ c.deleted = crit.deleted
  BY <1>2 DEF CritType
<1> HIDE DEF c
<1>4. /\ Revoked(d) \in SUBSET Socket /\ Withdrawn(Revoked(d), {d})
      /\ sock' \in SockType /\ present' \in PresentType /\ held' \in HeldType
      /\ known' \in KnownType
      /\ sock'.joins = sock.joins /\ sock'.turn = sock.turn
  BY <1>1, EmitEffect
<1>5. Withdrawal
  BY <1>4 DEF Withdrawal
<1>6. /\ GrownBy(line, EmitLine(d), {"tell"})
      /\ \A e \in Document \ {d} : EmitLine(d)[e] = line[e]
      /\ Len(EmitLine(d)[d]) <= Len(line[d]) \/ Len(EmitLine(d)[d]) <= StandardCapacity
  BY EmitLineGrown DEF Base
<1>7. CASE work[d].owed
  <2> DEFINE w == [work[d] EXCEPT !.pc = "marking"]
  <2>1. crit' = c /\ line' = EmitLine(d) /\ work' = [work EXCEPT ![d] = w]
    BY <1>7 DEF CriticalEmit, c, Goto
  <2>2. w \in Standing
    BY DEF Base, TypeInv, Standing, Steps
  <2> HIDE DEF w
  <2>3. GoesOn(d) /\ work'[d] = w
    BY <1>4, <1>6, <2>1, <2>2, SameJoins, GoesOnOf DEF Base
  <2> QED
    BY <1>1, <1>3, <1>4, <1>5, <1>7, <2>1, <2>3 DEF Base, TypeInv, GoesOn, Elsewhere, Moves, Ordinary, w
<1>8. CASE ~work[d].owed
  <2>1. EndCritical(c, EmitLine(d), d, FALSE)
    BY <1>8 DEF CriticalEmit, c
  <2>2. EndsCritically(d) /\ crit' \in CritType /\ crit'.deleted = c.deleted
    BY <1>1, <1>3, <1>4, <1>6, <2>1, EndCriticalEffect
  <2> QED
    BY <1>1, <1>3, <1>4, <1>5, <2>2 DEF Base, TypeInv, EndsCritically, Elsewhere, Moves, Ordinary
<1> QED
  BY <1>7, <1>8

\* A recovery marks what is undelivered in its document, and ends.
LEMMA CriticalDeliveredEffect ==
  ASSUME Base, NEW d \in Document, CriticalDelivered(d)
  PROVE  /\ TypeInv' /\ EndsCritically(d) /\ Nothing /\ crit'.deleted = crit.deleted
         /\ \A o \in Op :
              ops'[o] = IF o \in Pending(d) THEN [ops[o] EXCEPT !.delivered = TRUE] ELSE ops[o]
<1> DEFINE c == [crit EXCEPT !.recovery = @ \ {d}]
<1>1. /\ Busy(d) /\ EndCritical(c, line, d, FALSE)
      /\ ops' = AllMarked(d)
      /\ UNCHANGED <<db, outbox, sock, present, held, known, budget>>
  BY DEF CriticalDelivered, At
<1>2. c \in CritType /\ c.deleted = crit.deleted
  BY DEF Base, TypeInv, CritType
<1> HIDE DEF c
<1>3. GrownBy(line, line, {"tell"}) /\ Len(line[d]) <= Len(line[d])
  BY UngrownLine DEF Base
<1>4. EndsCritically(d) /\ crit' \in CritType /\ crit'.deleted = c.deleted
  BY <1>1, <1>2, <1>3, EndCriticalEffect
<1>5. /\ ops' \in [Op -> Row]
      /\ \A o \in Op :
           ops'[o] = IF o \in Pending(d) THEN [ops[o] EXCEPT !.delivered = TRUE] ELSE ops[o]
  BY <1>1, AllMarkedRows DEF Base
<1>6. Nothing
  BY <1>1, SocksKept
<1> QED
  BY <1>1, <1>2, <1>4, <1>5, <1>6 DEF Base, TypeInv, EndsCritically, Elsewhere

-----------------------------------------------------------------------------
(* The other steps *)

\* An event of the environment leaves a budget.
LEMMA Spent ==
  ASSUME TypeInv, NEW k \in Events, Spend(k)
  PROVE  budget' \in [Events -> Nat] /\ \A n \in 1 .. budget'.remove : n \in Removals
<1>1. "remove" \in Events
  BY DEF Events
<1>2. budget \in [Events -> Nat] /\ budget[k] > 0 /\ budget' = [budget EXCEPT ![k] = @ - 1]
  BY DEF TypeInv, Spend
<1>3. budget' \in [Events -> Nat] /\ budget'["remove"] <= budget["remove"]
  BY <1>1, <1>2
<1>4. \A n \in 1 .. budget'["remove"] : n \in 1 .. budget["remove"]
  BY <1>1, <1>2, <1>3
<1> QED
  BY <1>3, <1>4 DEF TypeInv

\* A call that fails ends its task; critical work waits for its retry.
LEMMA FailEffect ==
  ASSUME Base, NEW d \in Document, Fail(d)
  PROVE  /\ TypeInv' /\ Moves(d) /\ Withdrawal /\ work'[d] = Idle
         /\ \/ UNCHANGED crit /\ Ordinary(d)
            \/ Head(line[d]).kind = "critical" /\ EndCritical(crit, line, d, TRUE)
         /\ crit'.deleted = crit.deleted
         /\ UNCHANGED <<db, outbox>> /\ (ops' = ops \/ MarkHidden(d))
<1>0. ops' \in [Op -> Row]
  <2>1. work[d].except \in Socket \cup {None}
    BY DEF Base, TypeInv, Standing
  <2>2. ops' = ops \/ ops' = Marked(work[d].op, work[d].except) \/ ops' = AllMarked(d)
    BY DEF Fail, MarkHidden
  <2> QED
    BY <2>1, <2>2, MarkedRows, AllMarkedRows DEF Base, TypeInv
<1>1. /\ Busy(d) /\ UNCHANGED <<db, outbox>> /\ (ops' = ops \/ MarkHidden(d))
      /\ budget' \in [Events -> Nat] /\ \A n \in 1 .. budget'.remove : n \in Removals
  <2>1. {"fail", "lost"} \subseteq Events
    BY DEF Events
  <2> QED
    BY <2>1, Spent DEF Fail, Base
<1>2. CASE Head(line[d]).kind = "join" /\ UNCHANGED crit
           /\ JoinUndone(Caller(d), d, sock.doomed)
  <2>1. /\ Ends(d) /\ Withdrawn({Caller(d)}, {d}) /\ sock' \in SockType
        /\ present' \in PresentType /\ held' \in HeldType /\ known' \in KnownType
    BY <1>1, <1>2, SockKept, JoinUndoneEffect
  <2>2. Caller(d) \in Socket
    BY <1>1, <1>2, JoinCaller DEF Base
  <2>3. {Caller(d)} \in SUBSET Socket /\ {d} \in SUBSET Document
    BY <2>2
  <2> QED
    BY <1>0, <1>1, <1>2, <2>1, <2>3 DEF Base, TypeInv, Ends, Elsewhere, Moves, Ordinary, Withdrawal
<1>3. CASE Head(line[d]).kind = "join" /\ UNCHANGED crit /\ JoinFails(Caller(d), d, sock)
  <2>1. /\ Ends(d) /\ sock' \in SockType
        /\ sock'.connected = sock.connected /\ sock'.doomed = sock.doomed
        /\ sock'.room = sock.room /\ sock'.joined = sock.joined
        /\ present' = present /\ held' = held /\ known' = known
    BY <1>1, <1>3, SockKept, JoinFailsEffect
  <2>2. \A s \in Socket, e \in Document : known'[s][e] >= known[s][e]
    BY <2>1 DEF Base, TypeInv, KnownType, Revision
  <2>3. \A e \in Document, x \in Element : held'[e][x] \in {None, held[e][x]}
    BY <2>1
  <2>4. Withdrawal
    BY <2>1, <2>2, <2>3, SockKept, StoresKept DEF Nothing, Withdrawal
  <2> QED
    BY <1>0, <1>1, <1>3, <2>1, <2>4 DEF Base, TypeInv, Ends, Elsewhere, Moves, Ordinary
<1>4. CASE Head(line[d]).kind = "critical" /\ EndCritical(crit, line, d, TRUE)
           /\ UNCHANGED <<sock, present, held, known>>
  <2>1. GrownBy(line, line, {"tell"}) /\ Len(line[d]) <= Len(line[d]) /\ crit \in CritType
    BY UngrownLine DEF Base, TypeInv
  <2>2. EndsCritically(d) /\ crit' \in CritType /\ crit'.deleted = crit.deleted
    BY <1>1, <1>4, <2>1, EndCriticalEffect
  <2>3. Withdrawal
    BY <1>4, SocksKept DEF Nothing, Withdrawal
  <2> QED
    BY <1>0, <1>1, <1>4, <2>2, <2>3 DEF Base, TypeInv, EndsCritically, Elsewhere, Moves, Ordinary
<1>5. CASE /\ line' = Pop(line, d) /\ Done(d)
           /\ UNCHANGED <<sock, present, held, crit, known>>
  <2>1. Ends(d)
    BY <1>1, <1>5, RejectedEffect DEF Rejected
  <2>2. Withdrawal
    BY <1>5, SocksKept DEF Nothing, Withdrawal
  <2> QED
    BY <1>0, <1>1, <1>5, <2>1, <2>2 DEF Base, TypeInv, Ends, Elsewhere, Moves, Ordinary
<1> QED
  BY <1>1, <1>2, <1>3, <1>4, <1>5 DEF Fail

\* Lines grow by tasks of kinds K, and no running task moves.
Grows(K) == work' = work /\ GrownBy(line, line', K) /\ \A s \in Socket : JoinsKept(s)
\* The capacity of standard calls is respected.
Bounded ==
  \A d \in Document : Len(line'[d]) <= Len(line[d]) \/ Len(line'[d]) <= StandardCapacity

\* Lines and joins that do not change have grown by nothing.
LEMMA SameLines ==
  ASSUME TypeInv, line' = line, work' = work, \A s \in Socket : JoinsKept(s)
  PROVE  Grows({}) /\ Bounded
<1>1. GrownBy(line, line', {})
  BY DEF TypeInv, GrownBy, Grown, Longer, LineType
<1>2. \A d \in Document : Len(line[d]) \in Nat
  BY DEF TypeInv, LineType
<1> QED
  BY <1>1, <1>2 DEF Grows, Bounded

\* A call that finds room is the last of its line.
LEMMA EnqueueEffect ==
  ASSUME TypeInv, NEW d \in Document, NEW t \in Task, HasRoom(d), Enqueue(d, t)
  PROVE  /\ GrownBy(line, line', {t.kind}) /\ Bounded
         /\ \A e \in Document \ {d} : line'[e] = line[e]
         /\ Len(line'[d]) = Len(line[d]) + 1 /\ line'[d][Len(line'[d])] = t
<1>1. line \in LineType /\ line' = [line EXCEPT ![d] = Append(@, t)]
  BY DEF TypeInv, Enqueue
<1> DEFINE m == [line EXCEPT ![d] = Append(@, t)]
<1>2. /\ GrownBy(line, line', {t.kind})
      /\ \A e \in Document \ {d} : line'[e] = line[e]
      /\ Len(line'[d]) = Len(line[d]) + 1 /\ line'[d][Len(line'[d])] = t
  <2>1. GrownBy(line, m, {t.kind})
    BY <1>1, EnqueuedLine
  <2>2. \A e \in Document \ {d} : m[e] = line[e]
    BY <1>1 DEF LineType
  <2>3. m[d] = Append(line[d], t) /\ line[d] \in Seq(Task)
    BY <1>1 DEF LineType
  <2>4. Len(m[d]) = Len(line[d]) + 1 /\ m[d][Len(m[d])] = t
    BY <2>3, AppendProperties
  <2>5. line' = m
    BY <1>1
  <2> HIDE DEF m
  <2> QED
    BY <2>1, <2>2, <2>4, <2>5
<1>3. Len(line[d]) < StandardCapacity /\ StandardCapacity \in Nat
  BY CapacityAssumption DEF HasRoom, StandardCapacity
<1>4. \A e \in Document : Len(line[e]) \in Nat
  BY <1>1 DEF LineType
<1>5. Bounded
  BY <1>2, <1>3, <1>4 DEF Bounded
<1> QED
  BY <1>2, <1>5

\* A request puts its task into a line and withdraws nobody.
LEMMA RequestEffect ==
  ASSUME Base, NEW d \in Document, NEW s \in Socket
  PROVE  /\ RequestJoin(s, d) => TypeInv' /\ Grows({}) /\ Bounded /\ Nothing
         /\ RequestDelete(s, d) => TypeInv' /\ Grows({"delete"}) /\ Bounded /\ Nothing
         /\ \A E \in SUBSET Element :
              RequestReplace(s, d, E) => TypeInv' /\ Grows({"put"}) /\ Bounded /\ Nothing
         /\ \A x \in Element :
              RequestLock(s, d, x) => TypeInv' /\ Grows({"lock"}) /\ Bounded /\ Nothing
<1>0. {"join", "delete", "put", "lock"} \subseteq Events
  BY DEF Events
<1>1. ASSUME RequestJoin(s, d)
      PROVE  TypeInv' /\ Grows({}) /\ Bounded /\ Nothing
  <2>1. /\ sock' = [sock EXCEPT !.pending[s] = @ \cup {d}, !.joins[s] = Append(@, d)]
        /\ UNCHANGED <<db, ops, outbox, present, held, line, work, crit, known>>
        /\ budget' \in [Events -> Nat] /\ \A n \in 1 .. budget'.remove : n \in Removals
    BY <1>0, <1>1, Spent DEF RequestJoin, Base
  <2>2. Append(sock.joins[s], d) \in Seq(Document)
    BY SockKept DEF SockType
  <2>3. /\ sock' \in SockType /\ sock'.turn = sock.turn
        /\ sock'.joins = [sock.joins EXCEPT ![s] = Append(@, d)]
        /\ sock'.room = sock.room /\ sock'.joined = sock.joined
        /\ sock'.connected = sock.connected /\ sock'.doomed = sock.doomed
    BY <2>1, <2>2, SockKept DEF SockType
  <2>4. ASSUME NEW r \in Socket PROVE JoinsKept(r)
    <3>1. sock.joins \in [Socket -> Seq(Document)]
      BY SockKept DEF SockType
    <3>2. CASE r = s
      <4>1. sock.joins[s] \in Seq(Document)
        BY <3>1
      <4>2. sock.joins[s] # <<>> =>
              Append(sock.joins[s], d) # <<>> /\ Head(Append(sock.joins[s], d)) = Head(sock.joins[s])
        BY <4>1
      <4> QED
        BY <2>3, <3>1, <3>2, <4>2 DEF JoinsKept
    <3>3. CASE r # s
      BY <2>3, <3>1, <3>3 DEF JoinsKept
    <3> QED
      BY <3>2, <3>3
  <2>5. Grows({}) /\ Bounded
    BY <2>1, <2>4, SameLines DEF Base
  <2>6. Nothing
    <3>1. \A e \in Document, x \in Element : held'[e][x] \in {None, held[e][x]}
      BY <2>1
    <3>2. \A r \in Socket, e \in Document : known'[r][e] >= known[r][e]
      BY <2>1 DEF Base, TypeInv, KnownType, Revision
    <3> QED
      BY <2>1, <2>3, <3>1, <3>2, SockKept, StoresKept
  <2> QED
    BY <2>1, <2>3, <2>5, <2>6 DEF Base, TypeInv
<1>2. ASSUME NEW t \in Task, NEW k \in Events, HasRoom(d), Enqueue(d, t), Spend(k),
             UNCHANGED <<db, ops, outbox, sock, present, held, work, crit, known>>
      PROVE  TypeInv' /\ Grows({t.kind}) /\ Bounded /\ Nothing
  <2>1. GrownBy(line, line', {t.kind}) /\ Bounded
    BY <1>2, EnqueueEffect DEF Base
  <2>2. budget' \in [Events -> Nat] /\ \A n \in 1 .. budget'.remove : n \in Removals
    BY <1>2, Spent DEF Base
  <2>3. Nothing
    BY <1>2, SocksKept
  <2> QED
    BY <1>2, <2>1, <2>2, <2>3, SameJoins DEF Base, TypeInv, Grows, GrownBy
<1>3. ASSUME RequestDelete(s, d)
      PROVE  TypeInv' /\ Grows({"delete"}) /\ Bounded /\ Nothing
  <2> DEFINE t == [kind |-> "delete", sock |-> s]
  <2>1. t \in Task /\ t.kind = "delete"
    BY DEF Task
  <2>2. /\ HasRoom(d) /\ Enqueue(d, t) /\ Spend("delete")
        /\ UNCHANGED <<db, ops, outbox, sock, present, held, work, crit, known>>
    BY <1>3 DEF RequestDelete
  <2> HIDE DEF t
  <2> QED
    BY <1>0, <1>2, <2>1, <2>2
<1>4. ASSUME NEW E \in SUBSET Element, RequestReplace(s, d, E)
      PROVE  TypeInv' /\ Grows({"put"}) /\ Bounded /\ Nothing
  <2> DEFINE t == [kind |-> "put", sock |-> s, base |-> db.rev[d], elements |-> E]
  <2>1. t \in Task /\ t.kind = "put"
    BY DEF Task, Base, TypeInv, DatabaseType
  <2>2. /\ HasRoom(d) /\ Enqueue(d, t) /\ Spend("put")
        /\ UNCHANGED <<db, ops, outbox, sock, present, held, work, crit, known>>
    BY <1>4 DEF RequestReplace
  <2> HIDE DEF t
  <2> QED
    BY <1>0, <1>2, <2>1, <2>2
<1>5. ASSUME NEW x \in Element, RequestLock(s, d, x)
      PROVE  TypeInv' /\ Grows({"lock"}) /\ Bounded /\ Nothing
  <2>1. PICK do \in {"acquire", "renew", "release"} : Enqueue(d, LockTask(s, x, do))
    BY <1>5 DEF RequestLock
  <2> DEFINE t == LockTask(s, x, do)
  <2>2. t \in Task /\ t.kind = "lock"
    BY DEF Task, LockTask
  <2>3. /\ HasRoom(d) /\ Enqueue(d, t) /\ Spend("lock")
        /\ UNCHANGED <<db, ops, outbox, sock, present, held, work, crit, known>>
    BY <1>5, <2>1 DEF RequestLock
  <2> HIDE DEF t
  <2> QED
    BY <1>0, <1>2, <2>2, <2>3
<1> QED
  BY <1>1, <1>3, <1>4, <1>5

\* The oldest join of a socket enters the line, or fails if the line is full.
LEMMA BeginJoinEffect ==
  ASSUME Base, NEW s \in Socket, BeginJoin(s)
  PROVE  /\ TypeInv' /\ Bounded /\ Nothing
         /\ \/ Grows({})
            \/ /\ Grows({"join"}) /\ s \notin sock.turn
               /\ \A r \in Socket : r \in sock'.turn <=> r \in sock.turn \/ r = s
               /\ sock'.joins = sock.joins /\ sock.joins[s] # <<>>
               /\ LET d == Head(sock.joins[s]) IN
                  /\ d \in Document /\ line'[d] = Append(line[d], Join(s))
                  /\ \A e \in Document \ {d} : line'[e] = line[e]
<1> DEFINE d == Head(sock.joins[s])
<1>1. /\ sock.joins[s] # <<>> /\ s \notin sock.turn
      /\ UNCHANGED <<db, ops, outbox, present, held, work, crit, known, budget>>
  BY DEF BeginJoin
<1>2. d \in Document /\ Tail(sock.joins[s]) \in Seq(Document)
  BY <1>1, SockKept, HeadTailProperties DEF SockType
<1>3. /\ \A e \in Document, x \in Element : held'[e][x] \in {None, held[e][x]}
      /\ \A r \in Socket, e \in Document : known'[r][e] >= known[r][e]
  BY <1>1 DEF Base, TypeInv, KnownType, Revision
<1>4. CASE HasRoom(d)
  <2>1. Enqueue(d, Join(s)) /\ sock' = [sock EXCEPT !.turn = @ \cup {s}]
    BY <1>4 DEF BeginJoin
  <2>2. Join(s) \in Task /\ Join(s).kind = "join"
    BY DEF Join, Task
  <2> HIDE DEF d
  <2>3. /\ GrownBy(line, line', {"join"}) /\ Bounded
        /\ \A e \in Document \ {d} : line'[e] = line[e]
    BY <1>2, <1>4, <2>1, <2>2, EnqueueEffect DEF Base
  <2>4. line'[d] = Append(line[d], Join(s))
    BY <1>2, <2>1 DEF Enqueue, Base, TypeInv, LineType
  <2>5. /\ sock' \in SockType /\ sock'.joins = sock.joins
        /\ \A r \in Socket : r \in sock'.turn <=> r \in sock.turn \/ r = s
        /\ sock'.room = sock.room /\ sock'.joined = sock.joined
        /\ sock'.connected = sock.connected /\ sock'.doomed = sock.doomed
    BY <2>1, SockKept DEF SockType
  <2>6. \A r \in Socket : JoinsKept(r)
    BY <2>5 DEF JoinsKept
  <2>7. Nothing
    BY <1>1, <1>3, <2>5, SockKept, StoresKept
  <2> QED
    BY <1>1, <1>2, <2>3, <2>4, <2>5, <2>6, <2>7 DEF Base, TypeInv, Grows, GrownBy, d
<1>5. CASE ~HasRoom(d)
  <2>1. /\ sock' = [sock EXCEPT !.joins[s] = Tail(@), !.pending[s] = @ \ {d}]
        /\ UNCHANGED line
    BY <1>5 DEF BeginJoin
  <2> HIDE DEF d
  <2>2. /\ sock' \in SockType /\ sock'.turn = sock.turn
        /\ sock'.joins = [sock.joins EXCEPT ![s] = Tail(@)]
        /\ sock'.room = sock.room /\ sock'.joined = sock.joined
        /\ sock'.connected = sock.connected /\ sock'.doomed = sock.doomed
    BY <1>2, <2>1, SockKept DEF SockType
  <2>3. \A r \in Socket : JoinsKept(r)
    BY <1>1, <2>2, SockKept DEF JoinsKept, SockType
  <2>4. Nothing
    BY <1>1, <1>3, <2>2, SockKept, StoresKept
  <2>5. Grows({}) /\ Bounded
    BY <1>1, <2>1, <2>3, SameLines DEF Base
  <2> QED
    BY <1>1, <2>1, <2>2, <2>4, <2>5 DEF Base, TypeInv
<1> QED
  BY <1>4, <1>5

\* A socket that leaves a document is withdrawn from it.
LEMMA LeaveEffect ==
  ASSUME Base, NEW s \in Socket, NEW d \in Document, Leave(s, d)
  PROVE  TypeInv' /\ Grows({"tell"}) /\ Bounded /\ Withdrawal
<1>1. UNCHANGED <<db, ops, outbox, work, crit, budget>> /\ {s} \in SUBSET Socket
  BY DEF Leave
<1>2. held \in HeldType /\ line \in LineType
  BY DEF Base, TypeInv
<1>3. ASSUME sock' \in SockType, sock'.joins = sock.joins, sock'.turn = sock.turn,
             sock'.room = sock.room, sock'.joined = sock.joined,
             sock'.connected = sock.connected, sock'.doomed \subseteq sock.connected,
             UNCHANGED <<present, held, line, known>>
      PROVE  TypeInv' /\ Grows({"tell"}) /\ Bounded /\ Withdrawal
  <2>1. Grows({}) /\ Bounded
    BY <1>1, <1>3, SameJoins, SameLines DEF Base
  <2>2. Grows({"tell"})
    BY <2>1 DEF Grows, GrownBy, Grown
  <2>3. /\ \A e \in Document, x \in Element : held'[e][x] \in {None, held[e][x]}
        /\ \A r \in Socket, e \in Document : known'[r][e] >= known[r][e]
    BY <1>3 DEF Base, TypeInv, KnownType, Revision
  <2>4. Withdrawal
    BY <1>3, <2>3, StoresKept DEF Nothing, Withdrawal
  <2> QED
    BY <1>1, <1>3, <2>1, <2>2, <2>4 DEF Base, TypeInv
<1>4. CASE sock' = Doomed({s}) /\ UNCHANGED <<present, held, line, known>>
  BY <1>1, <1>3, <1>4, DoomedKept
<1>5. CASE /\ sock' = [sock EXCEPT !.pending[s] = @ \ {d}]
           /\ UNCHANGED <<present, held, line, known>>
  <2>1. /\ sock' \in SockType /\ sock'.joins = sock.joins /\ sock'.turn = sock.turn
        /\ sock'.room = sock.room /\ sock'.joined = sock.joined
        /\ sock'.connected = sock.connected /\ sock'.doomed = sock.doomed
    BY <1>5, SockKept DEF SockType
  <2> QED
    BY <1>3, <1>5, <2>1, SockKept
<1>6. CASE /\ sock' = SockWithout({s}, d)
           /\ present' = PresentWithout({s}, d)
           /\ held' = Unlock(held, {s}, d)
           /\ line' = Notify(line, d, Notices(held, {s}, d))
           /\ known' = Forget({s}, d)
  <2>1. /\ Withdrawal
        /\ sock' \in SockType /\ present' \in PresentType /\ held' \in HeldType
        /\ known' \in KnownType
        /\ sock'.joins = sock.joins /\ sock'.turn = sock.turn
    <3>1. \A e \in Document, x \in Element : held[e][x] \in {None, held[e][x]}
      OBVIOUS
    <3> QED
      BY <1>1, <1>2, <1>6, <3>1, WithoutEffect
  <2>2. /\ GrownBy(line, line', {"tell"})
        /\ \A e \in Document \ {d} : line'[e] = line[e]
        /\ Len(line'[d]) <= Len(line[d]) \/ Len(line'[d]) <= StandardCapacity
    BY <1>1, <1>2, <1>6, NoticesNat, NotifyLine
  <2>3. \A e \in Document : Len(line[e]) \in Nat
    BY <1>2 DEF LineType
  <2>4. Bounded
    BY <2>2, <2>3 DEF Bounded
  <2> QED
    BY <1>1, <2>1, <2>2, <2>4, SameJoins DEF Base, TypeInv, Grows, GrownBy
<1> QED
  BY <1>4, <1>5, <1>6 DEF Leave

\* A socket that is disconnected is withdrawn from every document.
LEMMA LeavesEffect ==
  ASSUME Base, NEW s \in Socket, Leaves(s),
         budget' \in [Events -> Nat], \A n \in 1 .. budget'.remove : n \in Removals
  PROVE  TypeInv' /\ Grows({"tell"}) /\ Bounded /\ Withdrawal
<1>1. /\ sock' = [sock EXCEPT !.connected = @ \ {s}, !.doomed = @ \ {s},
                              !.room = [d \in Document |-> @[d] \ {s}],
                              !.joined[s] = {}, !.pending[s] = {}]
      /\ present' = [d \in Document |-> present[d] \ {s}]
      /\ held' = [d \in Document |-> Unlock(held, {s}, d)[d]]
      /\ line' = [d \in Document |-> Notify(line, d, Notices(held, {s}, d))[d]]
      /\ known' = [known EXCEPT ![s] = [d \in Document |-> -1]]
      /\ UNCHANGED <<db, ops, outbox, work, crit>>
  BY DEF Leaves
<1>2. /\ held \in HeldType /\ line \in LineType /\ present \in PresentType
      /\ known \in KnownType /\ {s} \in SUBSET Socket
  BY DEF Base, TypeInv
<1>3. /\ sock' \in SockType /\ sock'.joins = sock.joins /\ sock'.turn = sock.turn
      /\ sock'.connected = sock.connected \ {s} /\ sock'.doomed = sock.doomed \ {s}
  BY <1>1, SockKept DEF SockType
<1>4. \A r \in Socket, e \in Document :
        /\ r \in sock'.room[e] <=> r \in sock.room[e] /\ r # s
        /\ e \in sock'.joined[r] <=> e \in sock.joined[r] /\ r # s
  BY <1>1, SockKept DEF SockType
<1>5. /\ present' \in PresentType
      /\ \A r \in Socket, e \in Document : r \in present'[e] <=> r \in present[e] /\ r # s
  BY <1>1, <1>2 DEF PresentType
<1>6. /\ held' \in HeldType
      /\ \A e \in Document, x \in Element :
           held'[e][x] = IF held[e][x] \in {s} THEN None ELSE held[e][x]
  <2>1. \A d \in Document : Unlock(held, {s}, d) \in HeldType
    BY <1>2, UnlockHeld
  <2>2. held' \in HeldType
    BY <1>1, <2>1 DEF HeldType
  <2>3. ASSUME NEW e \in Document, NEW x \in Element
        PROVE  held'[e][x] = IF held[e][x] \in {s} THEN None ELSE held[e][x]
    BY <1>1, <1>2, UnlockHeld
  <2> QED
    BY <2>2, <2>3
<1>7. /\ known' \in KnownType
      /\ \A r \in Socket, e \in Document : r # s => known'[r][e] = known[r][e]
  BY <1>1, <1>2 DEF KnownType, Revision
<1>8. ASSUME NEW d \in Document
      PROVE  /\ line'[d] \in Seq(Task) /\ Grown(line[d], line'[d], {"tell"})
             /\ Len(line'[d]) <= Len(line[d]) \/ Len(line'[d]) <= StandardCapacity
  <2> DEFINE m == Notify(line, d, Notices(held, {s}, d))
  <2>1. /\ GrownBy(line, m, {"tell"})
        /\ Len(m[d]) <= Len(line[d]) \/ Len(m[d]) <= StandardCapacity
    BY <1>2, NoticesNat, NotifyLine
  <2>2. line'[d] = m[d]
    BY <1>1
  <2> HIDE DEF m
  <2> QED
    BY <2>1, <2>2 DEF GrownBy, LineType
<1>9. line' \in LineType
  BY <1>1, <1>8 DEF LineType
<1>10. Grows({"tell"}) /\ Bounded
  BY <1>1, <1>3, <1>8, <1>9, SameJoins DEF Grows, Bounded, GrownBy
<1>11. Withdrawn({s}, Document)
  <2>1. ASSUME NEW r \in Socket, NEW e \in Document
        PROVE  LET gone == r \in {s} /\ e \in Document IN
               /\ r \in sock'.room[e] <=> r \in sock.room[e] /\ ~gone
               /\ e \in sock'.joined[r] <=> e \in sock.joined[r] /\ ~gone
               /\ r \in present'[e] <=> r \in present[e] /\ ~gone
               /\ ~gone => known'[r][e] >= known[r][e]
    BY <1>2, <1>4, <1>5, <1>7 DEF KnownType, Revision
  <2>2. sock'.doomed \subseteq sock'.connected
    BY <1>3, SockKept
  <2> QED
    BY <1>3, <1>6, <2>1, <2>2 DEF Withdrawn
<1>12. Withdrawal
  BY <1>2, <1>11 DEF Withdrawal
<1> QED
  BY <1>1, <1>3, <1>5, <1>6, <1>7, <1>9, <1>10, <1>12 DEF Base, TypeInv

\* A connection is lost, or the server ends it.
LEMMA DisconnectEffect ==
  ASSUME Base, NEW s \in Socket, Disconnect(s) \/ Expel(s)
  PROVE  TypeInv' /\ Grows({"tell"}) /\ Bounded /\ Withdrawal
<1>1. CASE Disconnect(s)
  <2>1. Leaves(s) /\ Spend("drop") /\ "drop" \in Events
    BY <1>1 DEF Disconnect, Events
  <2>2. budget' \in [Events -> Nat] /\ \A n \in 1 .. budget'.remove : n \in Removals
    BY <2>1, Spent DEF Base
  <2> QED
    BY <2>1, <2>2, LeavesEffect
<1>2. CASE Expel(s)
  <2>1. Leaves(s) /\ budget' = budget
    BY <1>2 DEF Expel
  <2>2. budget' \in [Events -> Nat] /\ \A n \in 1 .. budget'.remove : n \in Removals
    BY <2>1 DEF Base, TypeInv
  <2> QED
    BY <2>1, <2>2, LeavesEffect
<1> QED
  BY <1>1, <1>2

\* A socket of the session comes back.
LEMMA ReconnectEffect ==
  ASSUME Base, NEW s \in Socket, Reconnect(s)
  PROVE  TypeInv' /\ Grows({}) /\ Bounded /\ Nothing
<1>1. /\ sock' = [sock EXCEPT !.connected = @ \cup {s}]
      /\ UNCHANGED <<db, ops, outbox, present, held, line, work, crit, known, budget>>
  BY DEF Reconnect
<1>2. /\ sock' \in SockType /\ sock'.joins = sock.joins /\ sock'.turn = sock.turn
      /\ sock'.room = sock.room /\ sock'.joined = sock.joined
      /\ sock'.connected = sock.connected \cup {s} /\ sock'.doomed = sock.doomed
  BY <1>1, SockKept DEF SockType
<1>3. Grows({}) /\ Bounded
  BY <1>1, <1>2, SameJoins, SameLines DEF Base
<1>4. /\ \A e \in Document, x \in Element : held'[e][x] \in {None, held[e][x]}
      /\ \A r \in Socket, e \in Document : known'[r][e] >= known[r][e]
  BY <1>1 DEF Base, TypeInv, KnownType, Revision
<1>5. Nothing
  BY <1>1, <1>2, <1>4, SockKept DEF Nothing, Withdrawn
<1> QED
  BY <1>1, <1>2, <1>3, <1>5 DEF Base, TypeInv

\* A command enters the line of the document its operation is for.
LEMMA SendEffect ==
  ASSUME Base, NEW s \in Socket, NEW d \in Document, NEW o \in Op, SendCommand(s, d, o)
  PROVE  /\ TypeInv' /\ Grows({"command"}) /\ Bounded /\ Nothing
         /\ line' = [line EXCEPT ![d] = Append(@, Command(s, o))]
         /\ ops[o].doc = None /\ UNCHANGED <<db, crit, known, present>>
         /\ ops'[o].doc = d /\ ops'[o].el \in Element
         /\ ops'[o].rev = ops[o].rev /\ ops'[o].delivered = ops[o].delivered
         /\ \A p \in Op : p # o => ops'[p] = ops[p]
<1>1. /\ HasRoom(d) /\ Enqueue(d, Command(s, o)) /\ Spend("command") /\ "command" \in Events
      /\ known[s][d] >= 0 /\ ops[o].doc = None
      /\ UNCHANGED <<db, outbox, sock, present, held, work, crit, known>>
  BY DEF SendCommand, Events
<1>2. PICK do \in {"add", "edit", "remove"}, e \in Element :
        ops' = [ops EXCEPT ![o] = [@ EXCEPT !.doc = d, !.author = UserOf[s],
                                            !.base = known[s][d], !.do = do, !.el = e]]
  BY DEF SendCommand
<1>3. Command(s, o) \in Task /\ Command(s, o).kind = "command"
  BY DEF Command, Task
<1>4. GrownBy(line, line', {"command"}) /\ Bounded
  BY <1>1, <1>3, EnqueueEffect DEF Base
<1>5. budget' \in [Events -> Nat] /\ \A n \in 1 .. budget'.remove : n \in Removals
  BY <1>1, Spent DEF Base
<1>6. Nothing
  BY <1>1, SocksKept
<1>7. known[s][d] \in Nat /\ UserOf[s] \in User /\ ops \in [Op -> Row]
  BY <1>1, SocketAssumption DEF Base, TypeInv, KnownType, Revision
<1> DEFINE row == [ops[o] EXCEPT !.doc = d, !.author = UserOf[s],
                                 !.base = known[s][d], !.do = do, !.el = e]
<1>8. /\ row \in Row /\ row.doc = d /\ row.el = e
      /\ row.rev = ops[o].rev /\ row.delivered = ops[o].delivered
  BY <1>7 DEF Row
<1>9. ops' = [ops EXCEPT ![o] = row]
  BY <1>2
<1> HIDE DEF row
<1>10. /\ ops' \in [Op -> Row] /\ ops'[o] = row
       /\ \A p \in Op : p # o => ops'[p] = ops[p]
  BY <1>7, <1>8, <1>9
<1> QED
  BY <1>1, <1>4, <1>5, <1>6, <1>8, <1>10, SameJoins DEF Base, TypeInv, Grows, GrownBy, Enqueue

\* An operation that is sent again puts a command into the line of its document.
LEMMA ResendEffect ==
  ASSUME Base, NEW s \in Socket, NEW o \in Op, ResendCommand(s, o)
  PROVE  /\ TypeInv' /\ Grows({"command"}) /\ Bounded /\ Nothing
         /\ ops[o].doc \in Document
         /\ line' = [line EXCEPT ![ops[o].doc] = Append(@, Command(s, o))]
         /\ UNCHANGED <<db, ops, crit, known, present>>
<1> DEFINE d == ops[o].doc
<1>1. /\ d # None /\ HasRoom(d) /\ Enqueue(d, Command(s, o))
      /\ Spend("resend") /\ "resend" \in Events
      /\ UNCHANGED <<db, ops, outbox, sock, present, held, work, crit, known>>
  BY DEF ResendCommand, Events
<1>2. d \in Document
  BY <1>1 DEF Base, TypeInv, Row
<1> HIDE DEF d
<1>3. Command(s, o) \in Task /\ Command(s, o).kind = "command"
  BY DEF Command, Task
<1>4. GrownBy(line, line', {"command"}) /\ Bounded
  BY <1>1, <1>2, <1>3, EnqueueEffect DEF Base
<1>5. budget' \in [Events -> Nat] /\ \A n \in 1 .. budget'.remove : n \in Removals
  BY <1>1, Spent DEF Base
<1>6. Nothing
  BY <1>1, SocksKept
<1>7. line' = [line EXCEPT ![d] = Append(@, Command(s, o))]
  BY <1>1 DEF Enqueue
<1> QED
  BY <1>1, <1>2, <1>4, <1>5, <1>6, <1>7, SameJoins DEF Base, TypeInv, Grows, GrownBy, d

\* A lease that ends withdraws nobody.
LEMMA LockExpiresEffect ==
  ASSUME Base, NEW d \in Document, NEW x \in Element, LockExpires(d, x)
  PROVE  TypeInv' /\ Grows({"tell"}) /\ Bounded /\ Nothing
<1>1. /\ held' = [held EXCEPT ![d][x] = None] /\ line' = Notify(line, d, 1)
      /\ Spend("expire") /\ "expire" \in Events
      /\ UNCHANGED <<db, ops, outbox, sock, present, work, crit, known>>
  BY DEF LockExpires, Events
<1>2. held \in HeldType /\ line \in LineType
  BY DEF Base, TypeInv
<1>3. /\ held' \in HeldType
      /\ \A e \in Document, y \in Element : held'[e][y] \in {None, held[e][y]}
  BY <1>1, <1>2 DEF HeldType
<1>4. /\ GrownBy(line, line', {"tell"})
      /\ \A e \in Document \ {d} : line'[e] = line[e]
      /\ Len(line'[d]) <= Len(line[d]) \/ Len(line'[d]) <= StandardCapacity
  BY <1>1, <1>2, NotifyLine
<1>5. \A e \in Document : Len(line[e]) \in Nat
  BY <1>2 DEF LineType
<1>6. Bounded
  BY <1>4, <1>5 DEF Bounded
<1>7. budget' \in [Events -> Nat] /\ \A n \in 1 .. budget'.remove : n \in Removals
  BY <1>1, Spent DEF Base
<1>8. \A r \in Socket, e \in Document : known'[r][e] >= known[r][e]
  BY <1>1 DEF Base, TypeInv, KnownType, Revision
<1>9. Nothing
  BY <1>1, <1>3, <1>8, SockKept, StoresKept
<1> QED
  BY <1>1, <1>3, <1>4, <1>6, <1>7, <1>9, SameJoins DEF Base, TypeInv, Grows, GrownBy

-----------------------------------------------------------------------------
(* The project, the event buses, recovery and crashes *)

\* A change of the project leaves the memory of the process as it is.
LEMMA ProjectEffect ==
  ASSUME Base,
         \/ \E u \in User : RemoveMember(u) \/ GrantMember(u)
         \/ DeleteProject
         \/ \E x \in Session : RevokeSession(x)
  PROVE  /\ TypeInv' /\ Grows({}) /\ Bounded /\ Nothing
         /\ UNCHANGED <<sock, present, held, line, work, crit, known>>
         /\ db'.rev = db.rev
         /\ \A o \in Op : /\ ops'[o].doc = ops[o].doc /\ ops'[o].el = ops[o].el
<1>1. {"remove", "grant", "project", "revoke"} \subseteq Events
  BY DEF Events
<1>2. /\ db \in DatabaseType /\ ops \in [Op -> Row] /\ budget \in [Events -> Nat]
      /\ \A n \in 1 .. budget.remove : n \in Removals
  BY DEF Base, TypeInv
<1>3. ASSUME UNCHANGED <<sock, present, held, line, work, crit, known>>,
             NEW k \in Events, Spend(k), db' \in DatabaseType, db'.rev = db.rev,
             ops' \in [Op -> Row],
             \A o \in Op : ops'[o].doc = ops[o].doc /\ ops'[o].el = ops[o].el,
             NEW change \in ChangeType, outbox' = outbox \cup {change},
             change.kind \in {"granted", "removed"} => change.user \in User,
             change.kind = "removed" => change.n \in Removals
      PROVE  /\ TypeInv' /\ Grows({}) /\ Bounded /\ Nothing
             /\ UNCHANGED <<sock, present, held, line, work, crit, known>>
             /\ db'.rev = db.rev
             /\ \A o \in Op : ops'[o].doc = ops[o].doc /\ ops'[o].el = ops[o].el
  <2>1. Grows({}) /\ Bounded
    BY <1>3, SameJoins, SameLines DEF Base
  <2>2. Nothing
    BY <1>3, SocksKept
  <2>3. budget' \in [Events -> Nat] /\ \A n \in 1 .. budget'.remove : n \in Removals
    BY <1>3, Spent DEF Base
  <2>4. \A p \in outbox' :
          /\ p \in ChangeType
          /\ p.kind \in {"granted", "removed"} => p.user \in User
          /\ p.kind = "removed" => p.n \in Removals
    BY <1>3 DEF Base, TypeInv
  <2> QED
    BY <1>3, <2>1, <2>2, <2>3, <2>4 DEF Base, TypeInv
<1>4. CASE \E u \in User : RemoveMember(u)
  <2>1. PICK u \in User : RemoveMember(u)
    BY <1>4
  <2> DEFINE change == Change("removed", u, budget.remove, db.exists, None)
  <2>2. budget.remove \in Removals
    BY <1>2, <2>1 DEF RemoveMember, Spend, Events
  <2>3. /\ change \in ChangeType /\ change.kind = "removed" /\ change.user = u
        /\ change.n = budget.remove
    BY <1>2, <2>2 DEF Change, ChangeType, DatabaseType
  <2>4. /\ Spend("remove") /\ outbox' = outbox \cup {change}
        /\ db' = [db EXCEPT !.member = @ \ {u}]
        /\ UNCHANGED <<ops, sock, present, held, line, work, crit, known>>
    BY <2>1 DEF RemoveMember, Commits
  <2>5. db' \in DatabaseType /\ db'.rev = db.rev
    BY <1>2, <2>4 DEF DatabaseType
  <2> HIDE DEF change
  <2> QED
    BY <1>1, <1>2, <1>3, <2>2, <2>3, <2>4, <2>5
<1>5. CASE \E u \in User : GrantMember(u)
  <2>1. PICK u \in User : GrantMember(u)
    BY <1>5
  <2> DEFINE change == Change("granted", u, budget.grant, {}, None)
  <2>2. budget.grant \in Nat
    BY <1>2 DEF Events
  <2>3. change \in ChangeType /\ change.kind = "granted" /\ change.user = u
    BY <2>2 DEF Change, ChangeType
  <2>4. /\ Spend("grant") /\ outbox' = outbox \cup {change}
        /\ db' = [db EXCEPT !.member = @ \cup {u}]
        /\ UNCHANGED <<ops, sock, present, held, line, work, crit, known>>
    BY <2>1 DEF GrantMember, Commits
  <2>5. db' \in DatabaseType /\ db'.rev = db.rev
    BY <1>2, <2>4 DEF DatabaseType
  <2> HIDE DEF change
  <2> QED
    BY <1>1, <1>2, <1>3, <2>3, <2>4, <2>5
<1>6. CASE DeleteProject
  <2> DEFINE change == Change("deleted", None, 0, db.exists, None)
  <2>1. change \in ChangeType /\ change.kind = "deleted"
    BY <1>2 DEF Change, ChangeType, DatabaseType
  <2>2. /\ Spend("project") /\ outbox' = outbox \cup {change}
        /\ db' = [db EXCEPT !.exists = {}, !.member = {}]
        /\ ops' = [o \in Op |-> [ops[o] EXCEPT !.rev = 0, !.delivered = FALSE]]
        /\ UNCHANGED <<sock, present, held, line, work, crit, known>>
    BY <1>6 DEF DeleteProject, Commits
  <2>3. db' \in DatabaseType /\ db'.rev = db.rev
    BY <1>2, <2>2 DEF DatabaseType
  <2>4. /\ ops' \in [Op -> Row]
        /\ \A o \in Op : ops'[o].doc = ops[o].doc /\ ops'[o].el = ops[o].el
    BY <1>2, <2>2 DEF Row
  <2> HIDE DEF change
  <2> QED
    BY <1>1, <1>3, <2>1, <2>2, <2>3, <2>4
<1>7. CASE \E x \in Session : RevokeSession(x)
  <2>1. PICK x \in Session : RevokeSession(x)
    BY <1>7
  <2> DEFINE change == Change("revoked", None, 0, {}, x)
  <2>2. change \in ChangeType /\ change.kind = "revoked"
    BY DEF Change, ChangeType
  <2>3. /\ Spend("revoke") /\ outbox' = outbox \cup {change}
        /\ db' = [db EXCEPT !.sessions = @ \ {x}]
        /\ UNCHANGED <<ops, sock, present, held, line, work, crit, known>>
    BY <2>1 DEF RevokeSession, Commits
  <2>4. db' \in DatabaseType /\ db'.rev = db.rev
    BY <1>2, <2>3 DEF DatabaseType
  <2> HIDE DEF change
  <2> QED
    BY <1>1, <1>2, <1>3, <2>2, <2>3, <2>4
<1> QED
  BY <1>4, <1>5, <1>6, <1>7

\* Critical work is put into the lines of documents, whatever the maps say of it.
LEMMA ScheduleEffect ==
  ASSUME Base, NEW c \in CritType, NEW D \in SUBSET Document, Schedule(c, line, D),
         work' = work, sock' = sock
  PROVE  /\ crit' \in CritType /\ Grows({"critical"}) /\ line' \in LineType
         /\ crit'.deleted = c.deleted
<1>1. line \in LineType
  BY DEF Base, TypeInv
<1>2. crit' = Scheduling(c, line, D) /\ line' = SchedulingLine(c, line, D)
  BY DEF Schedule
<1>3. GrownBy(line, line', {"critical"})
  BY <1>1, <1>2, ScheduledLine
<1>4. crit' \in CritType /\ crit'.deleted = c.deleted
  BY <1>1, <1>2, ScheduledCrit
<1> QED
  BY <1>3, <1>4, SameJoins DEF Grows, GrownBy

\* A published change fences, schedules or dooms, and withdraws nobody yet.
LEMMA PublishEffect ==
  ASSUME Base, NEW p \in outbox, Publish(p)
  PROVE  /\ TypeInv' /\ Grows({"critical"}) /\ Nothing
         /\ crit'.deleted = crit.deleted \cup (IF p.kind = "deleted" THEN p.docs ELSE {})
<1>1. /\ outbox' = outbox \ {p}
      /\ UNCHANGED <<db, ops, present, held, work, known, budget>>
  BY DEF Publish
<1>2. /\ p \in ChangeType /\ crit \in CritType
      /\ p.kind \in {"granted", "removed"} => p.user \in User
      /\ p.kind = "removed" => p.n \in Removals
  BY DEF Base, TypeInv
<1>3. p.docs \in SUBSET Document
  BY <1>2 DEF ChangeType
<1>4. /\ Grows({}) => Grows({"critical"})
      /\ \A q \in outbox' :
           /\ q \in ChangeType
           /\ q.kind \in {"granted", "removed"} => q.user \in User
           /\ q.kind = "removed" => q.n \in Removals
  BY <1>1 DEF Grows, GrownBy, Grown, Base, TypeInv
<1>5. ASSUME sock' = sock, crit' \in CritType, Grows({"critical"}), line' \in LineType,
             crit'.deleted = crit.deleted \cup (IF p.kind = "deleted" THEN p.docs ELSE {})
      PROVE  /\ TypeInv' /\ Grows({"critical"}) /\ Nothing
             /\ crit'.deleted = crit.deleted \cup (IF p.kind = "deleted" THEN p.docs ELSE {})
  <2>1. Nothing
    BY <1>1, <1>5, SocksKept
  <2> QED
    BY <1>1, <1>4, <1>5, <2>1 DEF Base, TypeInv
<1>6. CASE p.kind = "granted"
  <2>1. crit' = Fence(crit, p.user, 0, {}) /\ UNCHANGED <<sock, line>>
    BY <1>6 DEF Publish
  <2>2. p.user \in User /\ {} \in SUBSET Document /\ 0 \in Nat
    BY <1>2, <1>6
  <2>3. crit' \in CritType /\ crit'.deleted = crit.deleted
    BY <1>2, <2>1, <2>2, FenceCrit
  <2>4. Grows({}) /\ line' \in LineType
    BY <1>1, <2>1, SameJoins, SameLines DEF Base, TypeInv
  <2> QED
    BY <1>4, <1>5, <1>6, <2>1, <2>3, <2>4
<1>7. CASE p.kind = "removed"
  <2> DEFINE c == Fence(crit, p.user, p.n, p.docs)
  <2>1. Schedule(c, line, p.docs) /\ sock' = sock
    BY <1>7 DEF Publish
  <2>2. p.n \in Nat
    BY <1>2, <1>7, BudgetAssumption DEF ChangeType, Removals, Events
  <2>3. c \in CritType /\ c.deleted = crit.deleted
    BY <1>2, <1>3, <1>7, <2>2, FenceCrit
  <2> HIDE DEF c
  <2>4. crit' \in CritType /\ Grows({"critical"}) /\ line' \in LineType /\ crit'.deleted = c.deleted
    BY <1>1, <1>3, <2>1, <2>3, ScheduleEffect
  <2> QED
    BY <1>5, <1>7, <2>1, <2>3, <2>4
<1>8. CASE p.kind = "deleted"
  <2> DEFINE c == GoneFrom(crit, p.docs)
  <2>1. Schedule(c, line, p.docs) /\ sock' = sock
    BY <1>8 DEF Publish
  <2>2. c \in CritType /\ c.deleted = crit.deleted \cup p.docs
    BY <1>2, <1>3, GoneCrit
  <2> HIDE DEF c
  <2>3. crit' \in CritType /\ Grows({"critical"}) /\ line' \in LineType /\ crit'.deleted = c.deleted
    BY <1>1, <1>3, <2>1, <2>2, ScheduleEffect
  <2> QED
    BY <1>5, <1>8, <2>1, <2>2, <2>3
<1>9. CASE p.kind \notin {"granted", "removed", "deleted"}
  <2> DEFINE S == {s \in Socket : SessionOf[s] = p.session}
  <2>1. sock' = Doomed(S) /\ UNCHANGED <<crit, line>> /\ S \in SUBSET Socket
    BY <1>9 DEF Publish
  <2> HIDE DEF S
  <2>2. /\ sock' \in SockType /\ sock'.joins = sock.joins /\ sock'.turn = sock.turn
        /\ sock'.room = sock.room /\ sock'.joined = sock.joined
        /\ sock'.connected = sock.connected /\ sock'.doomed \subseteq sock.connected
    BY <2>1, DoomedKept
  <2>3. Grows({})
    BY <1>1, <2>1, <2>2, SameJoins, SameLines DEF Base
  <2>4. /\ \A e \in Document, x \in Element : held'[e][x] \in {None, held[e][x]}
        /\ \A r \in Socket, e \in Document : known'[r][e] >= known[r][e]
    BY <1>1 DEF Base, TypeInv, KnownType, Revision
  <2>5. Nothing
    BY <1>1, <2>2, <2>4, StoresKept
  <2> QED
    BY <1>1, <1>4, <1>9, <2>1, <2>2, <2>3, <2>5 DEF Base, TypeInv
<1> QED
  BY <1>6, <1>7, <1>8, <1>9

\* A retry puts critical work into its line.
LEMMA RetryEffect ==
  ASSUME Base, NEW d \in Document, RetryTimer(d)
  PROVE  TypeInv' /\ Grows({"critical"}) /\ Nothing /\ crit'.deleted = crit.deleted
<1> DEFINE c == [crit EXCEPT !.retry = @ \ {d}]
           D == IF HasCriticalWork(c, d) THEN {d} ELSE {}
<1>1. /\ Schedule(c, line, D)
      /\ UNCHANGED <<db, ops, outbox, sock, present, held, work, known, budget>>
  BY DEF RetryTimer
<1>2. c \in CritType /\ c.deleted = crit.deleted
  BY DEF Base, TypeInv, CritType
<1>3. D \in SUBSET Document
  OBVIOUS
<1> HIDE DEF c, D
<1>4. crit' \in CritType /\ Grows({"critical"}) /\ line' \in LineType /\ crit'.deleted = c.deleted
  BY <1>1, <1>2, <1>3, ScheduleEffect
<1>5. Nothing
  BY <1>1, SocksKept
<1> QED
  BY <1>1, <1>2, <1>4, <1>5 DEF Base, TypeInv

\* The recovery of undelivered operations schedules critical work.
LEMMA ScanEffect ==
  ASSUME Base, ScanAsk \/ ScanAnswer
  PROVE  TypeInv' /\ Grows({"critical"}) /\ Nothing /\ crit'.deleted = crit.deleted
<1>1. UNCHANGED <<db, ops, outbox, sock, present, held, work, known, budget>>
  BY DEF ScanAsk, ScanAnswer
<1>2. Nothing
  BY <1>1, SocksKept
<1>3. CASE ScanAsk
  <2>1. line' = line /\ crit' = [crit EXCEPT !.scan = Awaiting] /\ Awaiting \in SUBSET Document
    BY <1>3 DEF ScanAsk, Awaiting
  <2>2. crit' \in CritType /\ crit'.deleted = crit.deleted
    BY <2>1 DEF Base, TypeInv, CritType
  <2>3. Grows({})
    BY <1>1, <2>1, SameJoins, SameLines DEF Base
  <2> QED
    BY <1>1, <1>2, <2>1, <2>2, <2>3 DEF Base, TypeInv, Grows, GrownBy, Grown
<1>4. CASE ScanAnswer
  <2> DEFINE c == [crit EXCEPT !.recovery = @ \cup crit.scan, !.scan = {}]
  <2>1. Schedule(c, line, crit.scan) /\ crit.scan \in SUBSET Document
    BY <1>4 DEF ScanAnswer, Base, TypeInv, CritType
  <2>2. c \in CritType /\ c.deleted = crit.deleted
    BY DEF Base, TypeInv, CritType
  <2> HIDE DEF c
  <2>3. crit' \in CritType /\ Grows({"critical"}) /\ line' \in LineType /\ crit'.deleted = c.deleted
    BY <1>1, <2>1, <2>2, ScheduleEffect
  <2> QED
    BY <1>1, <1>2, <2>2, <2>3 DEF Base, TypeInv
<1> QED
  BY <1>3, <1>4

\* The memory of a process that starts.
LEMMA FreshMemory ==
  /\ InitialSockets \in SockType /\ InitialSockets.connected = Socket
  /\ InitialSockets.doomed = {}
  /\ [InitialSockets EXCEPT !.connected = {}] \in SockType
  /\ [InitialSockets EXCEPT !.connected = {}].doomed = {}
  /\ \A d \in Document : InitialSockets.room[d] = {}
  /\ \A s \in Socket : InitialSockets.joined[s] = {}
  /\ InitialCritical \in CritType
  /\ [d \in Document |-> {}] \in PresentType
  /\ [d \in Document |-> NoLocks] \in HeldType
  /\ [d \in Document |-> <<>>] \in LineType
  /\ [d \in Document |-> Idle] \in [Document -> Standing]
  /\ Strangers \in KnownType
<1>1. /\ InitialSockets \in SockType /\ InitialSockets.connected = Socket
      /\ InitialSockets.doomed = {}
      /\ [InitialSockets EXCEPT !.connected = {}] \in SockType
      /\ [InitialSockets EXCEPT !.connected = {}].doomed = {}
      /\ \A d \in Document : InitialSockets.room[d] = {}
      /\ \A s \in Socket : InitialSockets.joined[s] = {}
  <2>1. /\ Nobody \in [Socket -> SUBSET Document] /\ \A s \in Socket : Nobody[s] = {}
        /\ [s \in Socket |-> <<>>] \in [Socket -> Seq(Document)]
        /\ [d \in Document |-> {}] \in [Document -> SUBSET Socket]
    BY DEF Nobody
  <2>2. /\ InitialSockets.connected = Socket /\ InitialSockets.doomed = {}
        /\ InitialSockets.joined = Nobody
        /\ [InitialSockets EXCEPT !.connected = {}].doomed = {}
        /\ \A d \in Document : InitialSockets.room[d] = {}
    BY DEF InitialSockets
  <2>3. InitialSockets \in SockType
    BY <2>1 DEF InitialSockets, SockType
  <2>4. [InitialSockets EXCEPT !.connected = {}] \in SockType
    BY <2>3 DEF SockType
  <2> QED
    BY <2>1, <2>2, <2>3, <2>4
<1>2. InitialCritical \in CritType
  BY DEF InitialCritical, CritType, Removal
<1>3. /\ [d \in Document |-> {}] \in PresentType
      /\ [d \in Document |-> NoLocks] \in HeldType
      /\ [d \in Document |-> <<>>] \in LineType
      /\ [d \in Document |-> Idle] \in [Document -> Standing]
      /\ Strangers \in KnownType
  BY IdleStanding DEF PresentType, HeldType, NoLocks, LineType, Strangers, KnownType, Revision
<1> QED
  BY <1>1, <1>2, <1>3

\* A process that has died remembers nothing; the database is as it was.
LEMMA CrashEffect ==
  ASSUME Base, Crash
  PROVE  /\ TypeInv' /\ UNCHANGED <<db, ops>> /\ crit' = InitialCritical
         /\ \A d \in Document :
              /\ line'[d] = <<>> /\ work'[d] = Idle /\ present'[d] = {}
              /\ sock'.room[d] = {} /\ held'[d] = NoLocks
         /\ \A s \in Socket : sock'.joined[s] = {}
         /\ outbox' = {} /\ sock'.doomed = {}
<1>1. /\ outbox' = {}
      /\ sock' = [InitialSockets EXCEPT !.connected = {}]
      /\ present' = [d \in Document |-> {}]
      /\ held' = [d \in Document |-> NoLocks]
      /\ line' = [d \in Document |-> <<>>]
      /\ work' = [d \in Document |-> Idle]
      /\ crit' = InitialCritical
      /\ known' = Strangers
      /\ UNCHANGED <<db, ops>>
      /\ Spend("crash") /\ "crash" \in Events
  BY DEF Crash, Events
<1>2. budget' \in [Events -> Nat] /\ \A n \in 1 .. budget'.remove : n \in Removals
  BY <1>1, Spent DEF Base
<1>3. TypeInv'
  BY <1>1, <1>2, FreshMemory DEF Base, TypeInv
<1>4. /\ \A d \in Document :
           /\ line'[d] = <<>> /\ work'[d] = Idle /\ present'[d] = {} /\ held'[d] = NoLocks
      /\ \A d \in Document : sock'.room[d] = {}
      /\ \A s \in Socket : sock'.joined[s] = {}
      /\ sock'.doomed = {}
  BY <1>1 DEF InitialSockets, Nobody
<1> QED
  BY <1>1, <1>3, <1>4

\* Every variable has its type at the start.
LEMMA InitType ==
  ASSUME Init
  PROVE  TypeInv
<1>1. db \in DatabaseType
  BY ElementsAssumption DEF Init, DatabaseType
<1>2. ops \in [Op -> Row]
  BY DEF Init, Row
<1>3. budget \in [Events -> Nat] /\ \A n \in 1 .. budget.remove : n \in Removals
  BY BudgetAssumption DEF Init, Removals
<1>4. outbox = {}
  BY DEF Init
<1> QED
  BY <1>1, <1>2, <1>3, <1>4, FreshMemory DEF Init, TypeInv
=============================================================================
