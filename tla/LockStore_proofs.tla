-------------------------- MODULE LockStore_proofs --------------------------
(***************************************************************************)
(* Proofs about the lock store for every set of documents, elements,       *)
(* sockets and leases, every TTL and however early a timer may fire.       *)
(***************************************************************************)
EXTENDS LockStore, TLAPS

\* TypeOK but for the value that the last call returned.
StoreTypeOK ==
  /\ Held \subseteq Key
  /\ \A k \in Held : locks[k] \in Lock
  /\ locks = [k \in Held |-> locks[k]]
  /\ index \in [Socket -> SUBSET Key]
  /\ announced \in [Document -> SUBSET PublicLock]
  /\ issued \subseteq Lease
  /\ listening \in BOOLEAN

StoreInv == StoreTypeOK /\ IndexExact /\ AnnouncedIsStored

\* What the listener is told of a document has the type of its payload.
LEMMA PublicType ==
  ASSUME StoreTypeOK', NEW d \in Document
  PROVE  Public(locks', d) \in SUBSET PublicLock
<1>1. \A k \in DOMAIN locks' : k \in Key /\ locks'[k] \in Lock
  BY DEF StoreTypeOK, Held
<1>2. \A k \in DOMAIN locks' : k[2] \in Element /\ locks'[k].owner \in Socket
                               /\ locks'[k].lease \in Lease
  BY <1>1 DEF Key, Lock
<1>3. QED
  BY <1>2 DEF Public, PublicLock

\* Without a change to the locks of a document its public list is the same.
LEMMA PublicSame ==
  ASSUME NEW d \in Document, NEW f, NEW g,
         \A k : k[1] = d => (k \in DOMAIN f <=> k \in DOMAIN g),
         \A k \in DOMAIN f : k[1] = d => f[k].owner = g[k].owner /\ f[k].lease = g[k].lease
  PROVE  Public(f, d) = Public(g, d)
BY DEF Public

\* What goes with a set of stored locks: lapsed locks of the same documents.
LEMMA SweptAlong ==
  ASSUME NEW K \in SUBSET Held
  PROVE  /\ K \subseteq Swept(K) /\ Swept(K) \subseteq Held
         /\ \A k \in Swept(K) : k[1] \in {x[1] : x \in K}
         /\ \A k \in Swept(K) : k \in K \/ locks[k].left = 0
  BY DEF Swept, Lapsed

\* Dropping a set of stored locks, whoever asks for it.
LEMMA DropStore ==
  ASSUME StoreInv, NEW K \in SUBSET Held, Drop(K)
  PROVE  StoreInv'
<1>0. Swept(K) \subseteq Held /\ \A k \in Swept(K) : k[1] \in {x[1] : x \in K}
  BY SweptAlong
<1>1. /\ locks' = [k \in Held \ Swept(K) |-> locks[k]]
      /\ index' = [s \in Socket |-> index[s] \ (Swept(K) \cap OwnedBy(s))]
      /\ announced' = [d \in Document |->
                         IF listening /\ d \in {k[1] : k \in K} THEN Public(locks', d)
                                                                ELSE announced[d]]
      /\ issued' = issued /\ listening' = listening
  BY DEF Drop, Without, IndexWithout, Announce
<1>2. Held' = Held \ Swept(K) /\ \A k \in Held' : locks'[k] = locks[k]
  BY <1>1 DEF Held
<1>3. /\ Held' \subseteq Key
      /\ \A k \in Held' : locks'[k] \in Lock
      /\ locks' = [k \in Held' |-> locks'[k]]
      /\ index' \in [Socket -> SUBSET Key]
      /\ issued' \subseteq Lease
      /\ listening' \in BOOLEAN
  BY <1>1, <1>2 DEF StoreInv, StoreTypeOK
<1>4. ASSUME NEW d \in Document PROVE Public(locks', d) \in SUBSET PublicLock
  <2>1. \A k \in Held' : k \in Key /\ locks'[k] \in Lock
    BY <1>3
  <2>2. \A k \in Held' : k[2] \in Element /\ locks'[k].owner \in Socket
                         /\ locks'[k].lease \in Lease
    BY <2>1 DEF Key, Lock
  <2>3. QED
    BY <2>2 DEF Public, PublicLock, Held
<1>5. StoreTypeOK'
  BY <1>1, <1>3, <1>4 DEF StoreInv, StoreTypeOK
<1>6. IndexExact'
  BY <1>1, <1>2 DEF StoreInv, IndexExact, OwnedBy
<1>7. AnnouncedIsStored'
  <2> SUFFICES ASSUME listening, NEW d \in Document
               PROVE announced'[d] = Public(locks', d)
    BY <1>1 DEF AnnouncedIsStored
  <2>1. CASE d \in {k[1] : k \in K}
    BY <2>1, <1>1
  <2>2. CASE d \notin {k[1] : k \in K}
    <3>1. \A k : k[1] = d => (k \in DOMAIN locks <=> k \in DOMAIN locks')
      BY <2>2, <1>0, <1>2 DEF Held
    <3>2. Public(locks, d) = Public(locks', d)
      BY <3>1, <1>2, PublicSame DEF Held
    <3>3. QED
      BY <2>2, <3>2, <1>1 DEF StoreInv, AnnouncedIsStored
  <2>3. QED
    BY <2>1, <2>2
<1>8. QED
  BY <1>5, <1>6, <1>7 DEF StoreInv

\* An operation that finds nothing else to do drops the lapsed locks.
LEMMA ExpireDrops ==
  ASSUME NEW d \in Document, ExpireDocument(d)
  PROVE  Drop(Lapsed(d)) /\ Lapsed(d) \subseteq Held
<1>1. {k[1] : k \in Lapsed(d)} = {x \in {d} : Lapsed(x) # {}}
  BY DEF Lapsed
<1>2. Swept(Lapsed(d)) = Lapsed(d)
  BY DEF Swept, Lapsed
<1>3. QED
  BY <1>1, <1>2 DEF ExpireDocument, Drop, Live, Lapsed

\* An operation that only drops lapsed locks keeps the invariant.
LEMMA ExpireStore ==
  ASSUME StoreInv, NEW d \in Document, ExpireDocument(d)
  PROVE  StoreInv'
BY ExpireDrops, DropStore

\* Storing a lock for k in place of the lapsed locks of its document, with k
\* in the index of its owner.
LEMMA StoreLock ==
  ASSUME StoreInv, NEW k \in Key, NEW v \in Lock,
         k \in Held \ Lapsed(k[1]) => locks[k].owner = v.owner,
         locks' = [x \in (Held \ Lapsed(k[1])) \cup {k} |->
                     IF x = k THEN v ELSE locks[x]],
         index' = [s \in Socket |->
                     IF s = v.owner
                       THEN (index[s] \ (Lapsed(k[1]) \cap OwnedBy(s))) \cup {k}
                       ELSE index[s] \ (Lapsed(k[1]) \cap OwnedBy(s))],
         Announce({k[1]}), issued' \subseteq Lease, UNCHANGED listening
  PROVE  StoreInv'
<1>1. /\ Held' = (Held \ Lapsed(k[1])) \cup {k}
      /\ locks'[k] = v
      /\ \A x \in Held' : x # k => x \in Held /\ locks'[x] = locks[x]
  BY DEF Held
<1>2. v.owner \in Socket /\ k[1] \in Document
  BY DEF Lock, Key
<1>3. /\ Held' \subseteq Key
      /\ \A x \in Held' : locks'[x] \in Lock
      /\ locks' = [x \in Held' |-> locks'[x]]
  BY <1>1 DEF StoreInv, StoreTypeOK
<1>4. index' \in [Socket -> SUBSET Key]
  BY <1>2 DEF StoreInv, StoreTypeOK
<1>5. ASSUME NEW d \in Document PROVE Public(locks', d) \in SUBSET PublicLock
  <2>1. \A x \in Held' : x \in Key /\ locks'[x] \in Lock
    BY <1>3
  <2>2. \A x \in Held' : x[2] \in Element /\ locks'[x].owner \in Socket
                         /\ locks'[x].lease \in Lease
    BY <2>1 DEF Key, Lock
  <2>3. \A x \in Held' : [element |-> x[2], owner |-> locks'[x].owner,
                          lease |-> locks'[x].lease] \in PublicLock
    BY <2>2 DEF PublicLock
  <2>4. QED
    BY <2>3 DEF Public, Held
<1>6. StoreTypeOK'
  BY <1>3, <1>4, <1>5 DEF StoreInv, StoreTypeOK, Announce
<1>7. IndexExact'
  BY <1>1, <1>2 DEF StoreInv, IndexExact, OwnedBy
<1>8. AnnouncedIsStored'
  <2> SUFFICES ASSUME listening, NEW d \in Document
               PROVE announced'[d] = Public(locks', d)
    BY DEF AnnouncedIsStored
  <2>1. CASE d = k[1]
    BY <2>1 DEF Announce
  <2>2. CASE d # k[1]
    <3>1. \A x : x[1] = d => (x \in DOMAIN locks <=> x \in DOMAIN locks')
      BY <2>2, <1>1 DEF Held, Lapsed
    <3>2. \A x \in DOMAIN locks : x[1] = d => locks'[x] = locks[x]
      BY <2>2, <3>1, <1>1 DEF Held
    <3>3. Public(locks, d) = Public(locks', d)
      BY <3>1, <3>2, PublicSame
    <3>4. QED
      BY <2>2, <3>3 DEF Announce, StoreInv, AnnouncedIsStored
  <2>3. QED
    BY <2>1, <2>2
<1>9. QED
  BY <1>6, <1>7, <1>8 DEF StoreInv

\* A renewal keeps the invariant.
LEMMA ExtendStore ==
  ASSUME StoreInv, NEW k \in Key, k \in DOMAIN Live(k[1]), Extend(k)
  PROVE  StoreInv'
<1> DEFINE v == Granted(locks[k].owner, locks[k].lease)
<1>1. k \in Held \ Lapsed(k[1]) /\ locks[k] \in Lock
  BY DEF Live, Without, StoreInv, StoreTypeOK
<1>2. v \in Lock /\ v.owner = locks[k].owner
  BY <1>1, TTLAssumption DEF Granted, Lock, TooEarly
<1>4. locks' = [x \in (Held \ Lapsed(k[1])) \cup {k} |-> IF x = k THEN v ELSE locks[x]]
  BY <1>1 DEF Extend, Live, Without
<1>5. index' = [s \in Socket |->
                  IF s = v.owner
                    THEN (index[s] \ (Lapsed(k[1]) \cap OwnedBy(s))) \cup {k}
                    ELSE index[s] \ (Lapsed(k[1]) \cap OwnedBy(s))]
  <2>1. k \in index[v.owner] /\ v.owner \in Socket
    BY <1>1, <1>2 DEF StoreInv, IndexExact, OwnedBy, Lock
  <2>2. QED
    BY <2>1, <1>1 DEF Extend, IndexWithout
<1>6. Announce({k[1]}) /\ issued' \subseteq Lease /\ UNCHANGED listening
  BY DEF Extend, StoreInv, StoreTypeOK
<1>7. k \in Held \ Lapsed(k[1]) => locks[k].owner = v.owner
  BY <1>2
<1> HIDE DEF v
<1>8. QED
  BY <1>2, <1>4, <1>5, <1>6, <1>7, StoreLock

\* A new lock keeps the invariant.
LEMMA AcquireStore ==
  ASSUME StoreInv, NEW s \in Socket, NEW k \in Key, NEW l \in Lease, AcquireFree(s, k, l)
  PROVE  StoreInv'
<1>1. Granted(s, l) \in Lock /\ Granted(s, l).owner = s
  BY TTLAssumption DEF Granted, Lock, TooEarly
<1>2. DOMAIN Live(k[1]) = Held \ Lapsed(k[1])
  BY DEF Live, Without
<1>3. index' = [x \in Socket |->
                  IF x = Granted(s, l).owner
                    THEN (index[x] \ (Lapsed(k[1]) \cap OwnedBy(x))) \cup {k}
                    ELSE index[x] \ (Lapsed(k[1]) \cap OwnedBy(x))]
  BY <1>1 DEF AcquireFree, IndexWithout
<1>4. /\ k \notin Held \ Lapsed(k[1])
      /\ locks' = [x \in (Held \ Lapsed(k[1])) \cup {k} |->
                     IF x = k THEN Granted(s, l) ELSE locks[x]]
      /\ Announce({k[1]}) /\ issued' \subseteq Lease /\ UNCHANGED listening
  BY <1>2 DEF AcquireFree, StoreInv, StoreTypeOK
<1>5. QED
  BY <1>1, <1>3, <1>4, StoreLock

\* A step that touches only the clocks of the locks.
LEMMA ClockStore ==
  ASSUME StoreInv, UNCHANGED <<index, announced, issued, listening>>,
         Held' = Held, locks' = [k \in Held |-> locks'[k]],
         \A k \in Held : /\ locks'[k] \in Lock
                         /\ locks'[k].owner = locks[k].owner
                         /\ locks'[k].lease = locks[k].lease
  PROVE  StoreInv'
<1>1. StoreTypeOK'
  BY DEF StoreInv, StoreTypeOK
<1>2. IndexExact'
  BY DEF StoreInv, IndexExact, OwnedBy
<1>3. AnnouncedIsStored'
  <2>1. \A d \in Document : Public(locks', d) = Public(locks, d)
    BY PublicSame DEF Held
  <2>2. QED
    BY <2>1 DEF StoreInv, AnnouncedIsStored
<1>4. QED
  BY <1>1, <1>2, <1>3 DEF StoreInv

-----------------------------------------------------------------------------
\* The invariant holds of an empty store.
LEMMA InitStore == Init => StoreInv
  BY DEF Init, StoreInv, StoreTypeOK, IndexExact, AnnouncedIsStored, OwnedBy,
         Public, Held

\* Every step keeps the invariant.
LEMMA StoreStep == StoreInv /\ [Next]_vars => StoreInv'
<1> SUFFICES ASSUME StoreInv, [Next]_vars PROVE StoreInv'
  OBVIOUS
<1>k. \A k \in Key : k[1] \in Document
  BY DEF Key
<1>1. ASSUME NEW s \in Socket, NEW k \in Key, Acquire(s, k) PROVE StoreInv'
  <2>1. ASSUME NEW l \in Lease, AcquireFree(s, k, l) PROVE StoreInv'
    BY <2>1, AcquireStore
  <2>2. CASE AcquireOwn(s, k)
    BY <2>2, ExtendStore DEF AcquireOwn
  <2>3. CASE AcquireTaken(s, k)
    BY <2>3, <1>k, ExpireStore DEF AcquireTaken
  <2>4. QED
    BY <1>1, <2>1, <2>2, <2>3 DEF Acquire
<1>2. ASSUME NEW s \in Socket, NEW k \in Key, NEW l \in issued, Renew(s, k, l)
      PROVE StoreInv'
  <2>1. CASE HoldsLease(s, k, l) /\ Extend(k)
    BY <2>1, ExtendStore DEF HoldsLease
  <2>2. CASE ExpireDocument(k[1])
    BY <2>2, <1>k, ExpireStore
  <2>3. QED
    BY <1>2, <2>1, <2>2 DEF Renew
<1>3. ASSUME NEW s \in Socket, NEW k \in Key, NEW l \in issued, Release(s, k, l)
      PROVE StoreInv'
  <2>1. CASE HoldsLease(s, k, l) /\ Drop({k})
    <3>1. {k} \in SUBSET Held
      BY <2>1 DEF HoldsLease, Live, Without
    <3>2. QED
      BY <2>1, <3>1, DropStore
  <2>2. CASE ExpireDocument(k[1])
    BY <2>2, <1>k, ExpireStore
  <2>3. QED
    BY <1>3, <2>1, <2>2 DEF Release
<1>4. ASSUME NEW s \in Socket, ReleaseBySocket(s) PROVE StoreInv'
  <2>1. index[s] \cap OwnedBy(s) \in SUBSET Held
    BY DEF OwnedBy
  <2>2. QED
    BY <1>4, <2>1, DropStore DEF ReleaseBySocket
<1>5. ASSUME NEW s \in Socket, NEW d \in Document, ReleaseBySocketInDocument(s, d)
      PROVE StoreInv'
  <2>1. {k \in index[s] \cap OwnedBy(s) : k[1] = d} \in SUBSET Held
    BY DEF OwnedBy
  <2>2. QED
    BY <1>5, <2>1, DropStore DEF ReleaseBySocketInDocument
<1>6. ASSUME NEW s \in Socket, NEW d \in Document, NEW E \in SUBSET Element,
             AskWhetherBlocked(d, E, s)
      PROVE StoreInv'
  BY <1>6, ExpireStore DEF AskWhetherBlocked
<1>7. ASSUME NEW d \in Document, NEW E \in SUBSET Element, Reconcile(d, E)
      PROVE StoreInv'
  <2>1. Lapsed(d) \cup {k \in Held : k[1] = d /\ k[2] \notin E} \in SUBSET Held
    BY DEF Lapsed
  <2>2. QED
    BY <1>7, <2>1, DropStore DEF Reconcile
<1>8. ASSUME NEW d \in Document, List(d) PROVE StoreInv'
  BY <1>8, ExpireStore DEF List
<1>9. ASSUME NEW k \in Key, TimerFires(k) PROVE StoreInv'
  <2>1. CASE Drop({k})
    BY <1>9, <2>1, DropStore DEF TimerFires
  <2>2. CASE /\ locks' = [locks EXCEPT ![k].timer = Fired(@)]
             /\ UNCHANGED <<index, announced, issued, listening>>
    <3>1. k \in Held
      BY <1>9 DEF TimerFires
    <3>2. \A x \in Held : locks[x] \in Lock
      BY DEF StoreInv, StoreTypeOK
    <3>3. /\ Held' = Held
          /\ locks' = [x \in Held |-> locks'[x]]
          /\ \A x \in Held : x # k => locks'[x] = locks[x]
          /\ locks'[k] = [locks[k] EXCEPT !.timer = Fired(@)]
      BY <2>2, <3>1 DEF Held, StoreInv, StoreTypeOK
    <3>4. /\ locks'[k] \in Lock /\ locks'[k].owner = locks[k].owner
          /\ locks'[k].lease = locks[k].lease
      BY <3>1, <3>2, <3>3, TTLAssumption DEF Lock, TooEarly, Spent, Fired
    <3>5. QED
      BY <2>2, <3>2, <3>3, <3>4, ClockStore
  <2>3. QED
    BY <1>9, <2>1, <2>2 DEF TimerFires
<1>10. CASE Shutdown
  <2>1. Held' = {} /\ ~listening' /\ locks' = [k \in {} |-> locks'[k]]
    BY <1>10 DEF Shutdown, Held
  <2>2. StoreTypeOK'
    BY <1>10, <2>1 DEF Shutdown, StoreInv, StoreTypeOK
  <2>3. IndexExact'
    BY <1>10, <2>1 DEF Shutdown, IndexExact, OwnedBy
  <2>4. QED
    BY <2>1, <2>2, <2>3 DEF StoreInv, AnnouncedIsStored
<1>11. CASE Tick
  <2>1. locks' = [k \in Held |-> [locks[k] EXCEPT !.left = CountDown(@),
                                                  !.timer = CountDown(@)]]
    BY <1>11 DEF Tick
  <2>2. \A k \in Held : locks[k] \in Lock
    BY DEF StoreInv, StoreTypeOK
  <2>3. Held' = Held /\ locks' = [k \in Held |-> locks'[k]]
    BY <2>1 DEF Held
  <2>4. ASSUME NEW k \in Held
        PROVE /\ locks'[k] \in Lock /\ locks'[k].owner = locks[k].owner
              /\ locks'[k].lease = locks[k].lease
    <3>1. CountDown(locks[k].left) \in 0 .. TTL /\ CountDown(locks[k].timer) \in TooEarly .. TTL
      BY <2>2, TTLAssumption DEF CountDown, Lock, TooEarly
    <3>2. QED
      BY <2>1, <2>2, <3>1 DEF Lock
  <2>5. QED
    BY <1>11, <2>3, <2>4, ClockStore DEF Tick
<1>12. CASE UNCHANGED vars
  BY <1>12 DEF vars, StoreInv, StoreTypeOK, IndexExact, AnnouncedIsStored, OwnedBy,
               Public, Held
<1>13. QED
  BY <1>1, <1>2, <1>3, <1>4, <1>5, <1>6, <1>7, <1>8, <1>9, <1>10, <1>11, <1>12 DEF Next

\* Types, index and announcements are right in every state.
THEOREM StoreInvariant == Spec => []StoreInv
  BY InitStore, StoreStep, PTL DEF Spec

\* A disconnecting socket finds exactly its own locks in the index.
THEOREM IndexIsExact == Spec => []IndexExact
<1>1. StoreInv => IndexExact
  BY DEF StoreInv
<1>2. QED
  BY <1>1, StoreInvariant, PTL

\* The room has been told of every change of the stored locks.
THEOREM RoomKnowsTheLocks == Spec => []AnnouncedIsStored
<1>1. StoreInv => AnnouncedIsStored
  BY DEF StoreInv
<1>2. QED
  BY <1>1, StoreInvariant, PTL

(***************************************************************************)
(* What becomes of a lease                                                 *)
(***************************************************************************)

\* A stored lease is one that was handed out.
IssuedInv == \A k \in Held : locks[k].lease \in issued

\* What a step does with an element: its lease goes on, no lapsed one revived,
\* or ends by its time or by right, or a new one begins where none was live.
GoesOn(k) ==
  /\ k \in Held /\ k \in Held'
  /\ locks'[k].owner = locks[k].owner /\ locks'[k].lease = locks[k].lease
  /\ locks[k].left = 0 => locks'[k].left = 0
Ends(k) == k \in Held /\ k \notin Held' /\ (locks[k].left = 0 \/ EndedByRight(k))
Begins(k) ==
  /\ k \in Held' /\ (k \in Held => locks[k].left = 0)
  /\ locks'[k].lease \notin issued /\ locks'[k].lease \in issued'
Free(k) == k \notin Held /\ k \notin Held'
Fate(k) == GoesOn(k) \/ Ends(k) \/ Begins(k) \/ Free(k)

\* Dropping locks that lapsed or end by right.
LEMMA DroppedFate ==
  ASSUME StoreInv, NEW K \in SUBSET Held, Drop(K),
         \A k \in K : locks[k].left = 0 \/ EndedByRight(k)
  PROVE  (\A k \in Key : Fate(k)) /\ issued' = issued
<1>1. Held' = Held \ Swept(K) /\ \A k \in Held' : locks'[k] = locks[k]
  BY DEF Drop, Without, Held
<1>2. issued' = issued
  BY DEF Drop
<1>3. ASSUME NEW k \in Key
      PROVE  Fate(k)
  <2>1. k \in Swept(K) => k \in Held /\ (locks[k].left = 0 \/ EndedByRight(k))
    BY SweptAlong
  <2>. QED BY <1>1, <2>1 DEF Fate, GoesOn, Ends, Free
<1>. QED BY <1>2, <1>3

\* Dropping the lapsed locks of a document only.
LEMMA ExpiredFate ==
  ASSUME StoreInv, NEW d \in Document, ExpireDocument(d)
  PROVE  (\A k \in Key : Fate(k)) /\ issued' = issued
<1>1. Drop(Lapsed(d)) /\ Lapsed(d) \in SUBSET Held /\ \A k \in Lapsed(d) : locks[k].left = 0
  BY ExpireDrops DEF Lapsed
<1>. QED BY <1>1, DroppedFate

\* A renewal is of a live lease.
LEMMA ExtendedFate ==
  ASSUME StoreInv, NEW k \in Key, k \in DOMAIN Live(k[1]), Extend(k)
  PROVE  (\A x \in Key : Fate(x)) /\ issued' = issued
<1>. DEFINE L == Lapsed(k[1])
<1>1. /\ k \in Held \ L /\ locks[k].left # 0
      /\ \A x \in L : x \in Held /\ locks[x].left = 0
  BY DEF Live, Without, Lapsed
<1>. HIDE DEF L
<1>2. /\ Held' = Held \ L
      /\ locks'[k] = Granted(locks[k].owner, locks[k].lease)
      /\ \A x \in Held' : x # k => locks'[x] = locks[x]
      /\ issued' = issued
  BY <1>1 DEF Extend, Live, Without, L, Held
<1>3. ASSUME NEW x \in Key
      PROVE  Fate(x)
  BY <1>1, <1>2 DEF Fate, GoesOn, Ends, Free, Granted
<1>. QED BY <1>2, <1>3

\* A lease that begins is new, where none was live.
LEMMA AcquiredFate ==
  ASSUME StoreInv, NEW s \in Socket, NEW k \in Key, NEW l \in Lease, AcquireFree(s, k, l)
  PROVE  (\A x \in Key : Fate(x)) /\ issued' = issued \cup {l}
<1>. DEFINE L == Lapsed(k[1])
<1>1. /\ k \notin Held \ L
      /\ \A x \in L : x \in Held /\ locks[x].left = 0
  BY DEF AcquireFree, Live, Without, Lapsed
<1>. HIDE DEF L
<1>2. /\ Held' = (Held \ L) \cup {k}
      /\ locks'[k] = Granted(s, l)
      /\ \A x \in Held' : x # k => locks'[x] = locks[x]
      /\ l \notin issued /\ issued' = issued \cup {l}
  BY DEF AcquireFree, Live, Without, L, Held
<1>3. ASSUME NEW x \in Key
      PROVE  Fate(x)
  BY <1>1, <1>2 DEF Fate, GoesOn, Ends, Begins, Free, Granted
<1>. QED BY <1>2, <1>3

\* Steps that leave owners and leases alone, and revive nothing.
LEMMA ClockFate ==
  ASSUME Held' = Held, issued' = issued,
         \A k \in Held : /\ locks'[k].owner = locks[k].owner /\ locks'[k].lease = locks[k].lease
                         /\ locks[k].left = 0 => locks'[k].left = 0
  PROVE  (\A k \in Key : Fate(k)) /\ issued' = issued
BY DEF Fate, GoesOn, Free

\* The fate of every element in every step.
LEMMA Fates ==
  ASSUME StoreInv, [Next]_vars
  PROVE  /\ \A k \in Key : Fate(k)
         /\ issued \subseteq issued'
<1>. DEFINE Told == (\A k \in Key : Fate(k)) /\ issued \subseteq issued'
<1>k. \A k \in Key : k[1] \in Document
  BY DEF Key
<1>1. ASSUME NEW s \in Socket, NEW k \in Key, Acquire(s, k) PROVE Told
  <2>1. ASSUME NEW l \in Lease, AcquireFree(s, k, l) PROVE Told
    BY <2>1, AcquiredFate
  <2>2. CASE AcquireOwn(s, k)
    BY <2>2, ExtendedFate DEF AcquireOwn
  <2>3. CASE AcquireTaken(s, k)
    BY <2>3, <1>k, ExpiredFate DEF AcquireTaken
  <2>. QED BY <1>1, <2>1, <2>2, <2>3 DEF Acquire
<1>2. ASSUME NEW s \in Socket, NEW k \in Key, NEW l \in issued, Renew(s, k, l) PROVE Told
  <2>1. CASE HoldsLease(s, k, l) /\ Extend(k)
    BY <2>1, ExtendedFate DEF HoldsLease
  <2>2. CASE ExpireDocument(k[1])
    BY <2>2, <1>k, ExpiredFate
  <2>. QED BY <1>2, <2>1, <2>2 DEF Renew
<1>3. ASSUME NEW s \in Socket, NEW k \in Key, NEW l \in issued, Release(s, k, l) PROVE Told
  <2>1. CASE HoldsLease(s, k, l) /\ Drop({k})
    <3>1. {k} \in SUBSET Held /\ s = locks[k].owner /\ l = locks[k].lease
      BY <2>1 DEF HoldsLease, Live, Without
    <3>2. EndedByRight(k)
      BY <1>3, <3>1 DEF EndedByRight
    <3>. QED BY <2>1, <3>1, <3>2, DroppedFate
  <2>2. CASE ExpireDocument(k[1])
    BY <2>2, <1>k, ExpiredFate
  <2>. QED BY <1>3, <2>1, <2>2 DEF Release
<1>4. ASSUME NEW s \in Socket, ReleaseBySocket(s) PROVE Told
  <2>1. index[s] \cap OwnedBy(s) \in SUBSET Held
    BY DEF OwnedBy
  <2>2. \A k \in index[s] \cap OwnedBy(s) : EndedByRight(k)
    BY <1>4 DEF OwnedBy, EndedByRight
  <2>. QED BY <1>4, <2>1, <2>2, DroppedFate DEF ReleaseBySocket
<1>5. ASSUME NEW s \in Socket, NEW d \in Document, ReleaseBySocketInDocument(s, d) PROVE Told
  <2>. DEFINE K == {k \in index[s] \cap OwnedBy(s) : k[1] = d}
  <2>1. K \in SUBSET Held
    BY DEF OwnedBy
  <2>2. \A k \in K : EndedByRight(k)
    BY <1>5 DEF OwnedBy, EndedByRight
  <2>. QED BY <1>5, <2>1, <2>2, DroppedFate DEF ReleaseBySocketInDocument
<1>6. ASSUME NEW s \in Socket, NEW d \in Document, NEW E \in SUBSET Element,
             AskWhetherBlocked(d, E, s)
      PROVE Told
  BY <1>6, ExpiredFate DEF AskWhetherBlocked
<1>7. ASSUME NEW d \in Document, NEW E \in SUBSET Element, Reconcile(d, E) PROVE Told
  <2>. DEFINE K == Lapsed(d) \cup {k \in Held : k[1] = d /\ k[2] \notin E}
  <2>1. K \in SUBSET Held
    BY DEF Lapsed
  <2>2. ASSUME NEW k \in Held, k[1] = d, k[2] \notin E
        PROVE  EndedByRight(k)
    <3>1. E \in SUBSET (Element \ {k[2]}) /\ Reconcile(k[1], E)
      BY <1>7, <2>2
    <3>. QED BY <3>1 DEF EndedByRight
  <2>3. \A k \in K : locks[k].left = 0 \/ EndedByRight(k)
    BY <2>2 DEF Lapsed
  <2>. QED BY <1>7, <2>1, <2>3, DroppedFate DEF Reconcile
<1>8. ASSUME NEW d \in Document, List(d) PROVE Told
  BY <1>8, ExpiredFate DEF List
<1>9. ASSUME NEW k \in Key, TimerFires(k) PROVE Told
  <2>0. k \in Held
    BY <1>9 DEF TimerFires
  <2>1. CASE locks[k].left = 0 /\ Drop({k})
    BY <2>0, <2>1, DroppedFate
  <2>2. CASE /\ locks' = [locks EXCEPT ![k].timer = Fired(@)]
             /\ UNCHANGED <<index, announced, issued, listening>>
    <3>1. locks[k] \in Lock
      BY <2>0 DEF StoreInv, StoreTypeOK
    <3>2. /\ Held' = Held
          /\ \A x \in Held : x # k => locks'[x] = locks[x]
          /\ locks'[k] = [locks[k] EXCEPT !.timer = Fired(@)]
      BY <2>0, <2>2 DEF Held, StoreInv, StoreTypeOK
    <3>3. /\ locks'[k].owner = locks[k].owner /\ locks'[k].lease = locks[k].lease
          /\ locks'[k].left = locks[k].left
      BY <3>1, <3>2 DEF Lock
    <3>. QED BY <2>2, <3>2, <3>3, ClockFate
  <2>. QED BY <1>9, <2>1, <2>2 DEF TimerFires
<1>10. CASE Shutdown
  <2>1. Held' = {} /\ issued' = issued
    BY <1>10 DEF Shutdown, Held
  <2>2. ASSUME NEW k \in Key
        PROVE  Fate(k)
    <3>1. EndedByRight(k)
      BY <1>10 DEF EndedByRight
    <3>. QED BY <2>1, <3>1 DEF Fate, Ends, Free
  <2>. QED BY <2>1, <2>2
<1>11. CASE Tick
  <2>1. /\ locks' = [k \in Held |-> [locks[k] EXCEPT !.left = CountDown(@),
                                                     !.timer = CountDown(@)]]
        /\ issued' = issued
    BY <1>11 DEF Tick
  <2>2. \A k \in Held : locks[k] \in Lock
    BY DEF StoreInv, StoreTypeOK
  <2>3. Held' = Held
    BY <2>1 DEF Held
  <2>4. ASSUME NEW k \in Held
        PROVE  /\ locks'[k].owner = locks[k].owner /\ locks'[k].lease = locks[k].lease
               /\ locks[k].left = 0 => locks'[k].left = 0
    <3>1. locks'[k] = [locks[k] EXCEPT !.left = CountDown(@), !.timer = CountDown(@)]
      BY <2>1
    <3>2. /\ locks'[k].owner = locks[k].owner /\ locks'[k].lease = locks[k].lease
          /\ locks'[k].left = CountDown(locks[k].left)
      BY <2>2, <3>1 DEF Lock
    <3>3. CountDown(0) = 0
      BY DEF CountDown
    <3>. QED BY <3>2, <3>3
  <2>. QED BY <2>1, <2>3, <2>4, ClockFate
<1>12. CASE UNCHANGED vars
  BY <1>12, ClockFate DEF vars, Held
<1>. QED BY <1>1, <1>2, <1>3, <1>4, <1>5, <1>6, <1>7, <1>8, <1>9, <1>10, <1>11, <1>12 DEF Next

\* What is stored was handed out.
LEMMA IssuedStep ==
  ASSUME StoreInv, IssuedInv, [Next]_vars
  PROVE  IssuedInv'
<1>1. ASSUME NEW k \in Held'
      PROVE  locks'[k].lease \in issued'
  <2>1. k \in Key
    <3>1. StoreInv'
      BY StoreStep
    <3>. QED BY <3>1 DEF StoreInv, StoreTypeOK
  <2>2. Fate(k) /\ issued \subseteq issued'
    BY <2>1, Fates
  <2>. QED BY <2>2 DEF Fate, GoesOn, Ends, Begins, Free, IssuedInv
<1>. QED BY <1>1 DEF IssuedInv

\* The types of the store and the leases it handed out, of every state.
LEMMA IssuedInvariant == Spec => [](StoreInv /\ IssuedInv)
<1>1. Init => IssuedInv
  BY DEF Init, IssuedInv, Held
<1>. QED BY <1>1, IssuedStep, StoreInvariant, PTL DEF Spec

\* A lease that lapsed or was ended is over for good, whoever acquires or
\* renews what it was about.
THEOREM LeasesEndOnce == Spec => LeasesEndForGood
<1>. DEFINE Kept ==
       /\ \A l \in issued \ HeldLeases : l \notin HeldLeases'
       /\ \A k \in Held \cap Held' :
            locks[k].lease = locks'[k].lease /\ locks[k].left = 0 => locks'[k].left = 0
<1>1. ASSUME StoreInv, IssuedInv, [Next]_vars
      PROVE  Kept
  <2>0. Held \subseteq Key /\ Held' \subseteq Key
    <3>1. StoreInv'
      BY <1>1, StoreStep
    <3>. QED BY <1>1, <3>1 DEF StoreInv, StoreTypeOK
  <2>f. \A k \in Key : Fate(k)
    BY <1>1, Fates
  <2>1. ASSUME NEW l \in issued \ HeldLeases, l \in HeldLeases'
        PROVE  FALSE
    <3>1. PICK k \in Held' : l = locks'[k].lease
      BY <2>1 DEF HeldLeases
    <3>2. Fate(k)
      BY <2>0, <2>f
    <3>. QED BY <2>1, <3>1, <3>2 DEF Fate, GoesOn, Ends, Begins, Free, HeldLeases
  <2>2. ASSUME NEW k \in Held \cap Held', locks[k].lease = locks'[k].lease, locks[k].left = 0
        PROVE  locks'[k].left = 0
    <3>1. Fate(k) /\ locks[k].lease \in issued
      BY <1>1, <2>0, <2>f DEF IssuedInv
    <3>. QED BY <2>2, <3>1 DEF Fate, GoesOn, Ends, Begins, Free
  <2>. QED BY <2>1, <2>2
<1>2. StoreInv /\ IssuedInv /\ [Next]_vars => [Kept]_vars
  BY <1>1
<1>. QED BY <1>2, IssuedInvariant, PTL DEF Spec, LeasesEndForGood

\* A live lease ends by its owner, by the end of its element or by a shutdown,
\* and by nobody else's call.
THEOREM LiveLeasesAreProtected == Spec => LiveLeaseProtected
<1>. DEFINE Kept == \A k \in Held : locks[k].left > 0 => SameLease(k) \/ EndedByRight(k)
<1>1. ASSUME StoreInv, [Next]_vars, NEW k \in Held, locks[k].left > 0
      PROVE  SameLease(k) \/ EndedByRight(k)
  <2>1. Fate(k) /\ locks[k].left # 0
    BY <1>1, Fates DEF StoreInv, StoreTypeOK
  <2>. QED BY <2>1 DEF Fate, GoesOn, Ends, Begins, Free, SameLease
<1>2. StoreInv /\ [Next]_vars => [Kept]_vars
  BY <1>1
<1>. QED BY <1>2, StoreInvariant, PTL DEF Spec, LiveLeaseProtected

\* Whoever is kept out, is kept out by a live lease of another.
THEOREM LapsedLeasesNeverBlock == Spec => LapsedNeverBlocks
<1>. DEFINE Kept ==
       answer'.kind \in {"denied", "blocked"} /\ answer' # answer
         => \E k \in answer'.keys \cap Held :
              locks[k].left > 0 /\ locks[k].owner # answer'.socket
<1>l. ASSUME StoreInv, NEW d \in Document, NEW k \in DOMAIN Live(d), k[1] = d
      PROVE  k \in Held /\ locks[k].left > 0
  <2>1. k \in Held /\ locks[k].left # 0 /\ locks[k] \in Lock
    BY <1>l DEF Live, Without, Lapsed, StoreInv, StoreTypeOK
  <2>2. locks[k].left \in 0 .. TTL
    BY <2>1 DEF Lock
  <2>. QED BY <2>1, <2>2, TTLAssumption
<1>1. ASSUME StoreInv, Next, answer'.kind \in {"denied", "blocked"}, answer' # answer
      PROVE  Kept
  <2>1. CASE \E s \in Socket, k \in Key : AcquireTaken(s, k)
    <3>1. PICK s \in Socket, k \in Key : AcquireTaken(s, k)
      BY <2>1
    <3>2. k \in DOMAIN Live(k[1]) /\ k[1] \in Document /\ locks[k].owner # s
          /\ answer'.keys = {k} /\ answer'.socket = s
      BY <3>1 DEF AcquireTaken, Return, Key
    <3>3. k \in Held /\ locks[k].left > 0
      BY <1>1, <1>l, <3>2
    <3>. QED BY <3>2, <3>3
  <2>2. CASE \E s \in Socket, d \in Document, E \in SUBSET Element : AskWhetherBlocked(d, E, s)
    <3>1. PICK s \in Socket, d \in Document, E \in SUBSET Element : AskWhetherBlocked(d, E, s)
      BY <2>2
    <3>2. Blocking(d, E, s) # {} /\ answer'.keys = {d} \X E /\ answer'.socket = s
      BY <1>1, <3>1 DEF AskWhetherBlocked, Return
    <3>3. PICK k \in DOMAIN Live(d) : k \in {d} \X E /\ locks[k].owner # s
      BY <3>2 DEF Blocking
    <3>4. k \in Held /\ locks[k].left > 0
      BY <1>1, <1>l, <3>3
    <3>. QED BY <3>2, <3>3, <3>4
  <2>3. ASSUME NEW s, NEW K, Return("granted", s, K) \/ Return("renewed", s, K)
                 \/ Return("refused", s, K) \/ Return("released", s, K) \/ Return("none", s, K)
        PROVE  FALSE
    BY <1>1, <2>3 DEF Return
  <2>4. ASSUME NEW s \in Socket, NEW k \in Key, Acquire(s, k), ~AcquireTaken(s, k)
        PROVE  FALSE
    BY <2>3, <2>4 DEF Acquire, AcquireFree, AcquireOwn
  <2>5. ASSUME NEW s \in Socket, NEW k \in Key, NEW l \in issued, Renew(s, k, l) \/ Release(s, k, l)
        PROVE  FALSE
    BY <2>3, <2>5 DEF Renew, Release
  <2>6. ASSUME NEW s \in Socket, NEW d \in Document, ReleaseBySocketInDocument(s, d)
        PROVE  FALSE
    BY <2>3, <2>6 DEF ReleaseBySocketInDocument
  <2>7. ASSUME NEW d \in Document, (\E E \in SUBSET Element : Reconcile(d, E)) \/ List(d)
        PROVE  FALSE
    BY <2>3, <2>7 DEF Reconcile, List
  <2>8. CASE \E s \in Socket : ReleaseBySocket(s)
    BY <2>3, <2>8 DEF ReleaseBySocket
  <2>9. CASE (\E k \in Key : TimerFires(k)) \/ Shutdown \/ Tick
    BY <1>1, <2>9 DEF TimerFires, Shutdown, Tick
  <2>. QED BY <1>1, <2>1, <2>2, <2>4, <2>5, <2>6, <2>7, <2>8, <2>9 DEF Next
<1>2. StoreInv /\ [Next]_vars => [Kept]_vars
  BY <1>1 DEF vars
<1>. QED BY <1>2, StoreInvariant, PTL DEF Spec, LapsedNeverBlocks

\* A lock that lapsed counts for nothing, however late its timer is and whatever
\* its owner or others ask for.
THEOREM LapsedLeasesAreOver == Spec => LapsedIsOver
BY LapsedLeasesNeverBlock, LeasesEndOnce DEF LapsedIsOver

=============================================================================
