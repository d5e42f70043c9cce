----------------------------- MODULE LockStore -----------------------------
(***************************************************************************)
(* CollaborationLockStore: leases on the elements of a document, kept in   *)
(* memory.  A lease ends when its owner releases it, when its socket leaves *)
(* the document or the process, when its element disappears, or by time:   *)
(* each stored lock has its own timer, and every operation first drops the *)
(* lapsed locks of the document it is about.  The listener of the store    *)
(* (the gateway) is told the locks of a document after each change.        *)
(*                                                                         *)
(* Time is counted down: `left` is what remains of a lease, 0 once         *)
(* expiresAt <= Date.now().  A socket belongs to one user, so the checks   *)
(* of userId follow from those of socketId.  A method runs to its end      *)
(* without an await: it is one action.                                     *)
(***************************************************************************)
EXTENDS Integers, FiniteSets

CONSTANTS Document, Element, Socket,
          Lease,       \* bound: the lease identifiers randomUUID hands out
          TTL,         \* ttlSeconds, in ticks
          TimerEarly,  \* how many ticks before its due time a timer may fire
          None

ASSUME TTLAssumption == TTL \in Nat \ {0}
ASSUME TimerAssumption == TimerEarly \in 0 .. TTL

VARIABLES
  locks,      \* locksByDocument: the stored locks, by <<document, element>>
  index,      \* lockKeysBySocket
  announced,  \* what the listener was told last of each document
  issued,     \* history: the leases handed out
  listening,  \* FALSE once the shutdown removed the listeners
  answer      \* what the last call returned

vars == <<locks, index, announced, issued, listening, answer>>

Key == Document \X Element
\* Timers that fired without ending their lock, before or at their due time.
TooEarly == -2
Spent == -1
Lock == [owner : Socket, lease : Lease, left : 0 .. TTL, timer : TooEarly .. TTL]
PublicLock == [element : Element, owner : Socket, lease : Lease]
Answer == {"none", "granted", "denied", "renewed", "released", "refused",
           "blocked", "clear"}

Init ==
  /\ locks = <<>>
  /\ index = [s \in Socket |-> {}]
  /\ announced = [d \in Document |-> {}]
  /\ issued = {}
  /\ listening = TRUE
  /\ answer = [kind |-> "none", socket |-> None, keys |-> {}]

Held == DOMAIN locks
Lapsed(d) == {k \in Held : k[1] = d /\ locks[k].left = 0}
OwnedBy(s) == {k \in Held : locks[k].owner = s}

\* remove, of a set of locks, in both maps.
Without(K) == [k \in Held \ K |-> locks[k]]
\* Mutant: the index keeps the keys of removed locks.
IndexKept(K) == index
IndexWithout(K) == [s \in Socket |-> index[s] \ (K \cap OwnedBy(s))]

\* Mutant: lapsed locks are left to their timers.
AllLocks(d) == locks
\* expireDocument: what every operation finds.
Live(d) == Without(Lapsed(d))

Public(store, d) ==
  {[element |-> k[2], owner |-> store[k].owner, lease |-> store[k].lease] :
     k \in {x \in DOMAIN store : x[1] = d}}

\* emitChange for each document of D, after the change.
Announce(D) ==
  announced' = [d \in Document |-> IF listening /\ d \in D THEN Public(locks', d)
                                                           ELSE announced[d]]

Return(kind, s, K) == answer' = [kind |-> kind, socket |-> s, keys |-> K]

\* Mutant: lapsed locks are dropped without telling the listener.
ExpireSilently(d) ==
  /\ locks' = Live(d)
  /\ index' = IndexWithout(Lapsed(d))
  /\ UNCHANGED <<announced, issued, listening>>
\* An operation that only drops the lapsed locks of d.
ExpireDocument(d) ==
  /\ locks' = Live(d)
  /\ index' = IndexWithout(Lapsed(d))
  /\ Announce({x \in {d} : Lapsed(x) # {}})
  /\ UNCHANGED <<issued, listening>>

\* A lock with a full lease and its timer.
Granted(s, l) == [owner |-> s, lease |-> l, left |-> TTL, timer |-> TTL]

\* Mutant: the renewed lease keeps the timer of the old one.
ExtendWithoutTimer(k) ==
  /\ locks' = [Live(k[1]) EXCEPT ![k].left = TTL]
  /\ index' = IndexWithout(Lapsed(k[1]))
  /\ Announce({k[1]})
  /\ UNCHANGED <<issued, listening>>
\* renewStored: the same lease with a new expiry and a new timer.
Extend(k) ==
  /\ locks' = [Live(k[1]) EXCEPT ![k] = Granted(locks[k].owner, locks[k].lease)]
  /\ index' = IndexWithout(Lapsed(k[1]))
  /\ Announce({k[1]})
  /\ UNCHANGED <<issued, listening>>

\* emitChange lists the document, which drops its other lapsed locks.
Swept(K) == K \cup UNION {Lapsed(k[1]) : k \in K}
\* A set of locks goes, with one announcement for each document it touches.
Drop(K) ==
  /\ locks' = Without(Swept(K))
  /\ index' = IndexWithout(Swept(K))
  /\ Announce({k[1] : k \in K})
  /\ UNCHANGED <<issued, listening>>

-----------------------------------------------------------------------------
AcquireFree(s, k, l) ==
  /\ k \notin DOMAIN Live(k[1])
  /\ l \notin issued
  /\ locks' = [x \in DOMAIN Live(k[1]) \cup {k} |->
                 IF x = k THEN Granted(s, l) ELSE locks[x]]
  /\ index' = [IndexWithout(Lapsed(k[1])) EXCEPT ![s] = @ \cup {k}]
  /\ Announce({k[1]})
  /\ issued' = issued \cup {l}
  /\ Return("granted", s, {k})
  /\ UNCHANGED listening

AcquireOwn(s, k) ==
  /\ k \in DOMAIN Live(k[1])
  /\ locks[k].owner = s
  /\ Extend(k)
  /\ Return("granted", s, {k})

AcquireTaken(s, k) ==
  /\ k \in DOMAIN Live(k[1])
  /\ locks[k].owner # s
  /\ ExpireDocument(k[1])
  /\ Return("denied", s, {k})

\* Mutant: any socket that knows the lease may use it.
KnowsLease(s, k, l) == k \in DOMAIN Live(k[1]) /\ locks[k].lease = l
\* The caller presents the lease it believes it has.
HoldsLease(s, k, l) ==
  k \in DOMAIN Live(k[1]) /\ locks[k].owner = s /\ locks[k].lease = l

Renew(s, k, l) ==
  \/ /\ HoldsLease(s, k, l)
     /\ Extend(k)
     /\ Return("renewed", s, {k})
  \/ /\ ~HoldsLease(s, k, l)
     /\ ExpireDocument(k[1])
     /\ Return("refused", s, {k})

Release(s, k, l) ==
  \/ /\ HoldsLease(s, k, l)
     /\ Drop({k})
     /\ Return("released", s, {k})
  \/ /\ ~HoldsLease(s, k, l)
     /\ ExpireDocument(k[1])
     /\ Return("refused", s, {k})

\* releaseBySocket goes through the index, and checks the owner of each lock.
ReleaseBySocket(s) ==
  /\ Drop(index[s] \cap OwnedBy(s))
  /\ Return("none", s, {})

ReleaseBySocketInDocument(s, d) ==
  /\ Drop({k \in index[s] \cap OwnedBy(s) : k[1] = d})
  /\ Return("none", s, {})

\* hasLockOwnedByAnotherSocket, asked before a command touches the elements;
\* hasAnyLock is the same question with no socket of its own.
Blocking(d, E, s) == {k \in DOMAIN Live(d) : k \in {d} \X E /\ locks[k].owner # s}

AskWhetherBlocked(d, E, s) ==
  /\ ExpireDocument(d)
  /\ Return(IF Blocking(d, E, s) # {} THEN "blocked" ELSE "clear", s, {d} \X E)

\* reconcileDocumentElements: E are the elements the document still has.
Reconcile(d, E) ==
  /\ Drop(Lapsed(d) \cup {k \in Held : k[1] = d /\ k[2] \notin E})
  /\ Return("none", None, {})

List(d) ==
  /\ ExpireDocument(d)
  /\ Return("none", None, {})

\* The callback of a timer: a lock whose expiry lies ahead is left alone, and
\* no other timer is set for it.
Fired(timer) == IF timer > 0 THEN TooEarly ELSE Spent
TimerFires(k) ==
  /\ k \in Held
  /\ locks[k].timer \in 0 .. TimerEarly
  /\ \/ locks[k].left = 0 /\ Drop({k})
     \/ /\ locks[k].left > 0
        /\ locks' = [locks EXCEPT ![k].timer = Fired(@)]
        /\ UNCHANGED <<index, announced, issued, listening>>
  /\ UNCHANGED answer

\* onApplicationShutdown: timers, locks and listeners go, silently.
Shutdown ==
  /\ listening
  /\ locks' = <<>>
  /\ index' = [s \in Socket |-> {}]
  /\ listening' = FALSE
  /\ UNCHANGED <<announced, issued, answer>>

CountDown(n) == IF n > 0 THEN n - 1 ELSE n

\* Time passes; a timer that is due may still be late.
Tick ==
  /\ \E k \in Held : locks[k].left > 0
  /\ locks' = [k \in Held |-> [locks[k] EXCEPT !.left = CountDown(@),
                                               !.timer = CountDown(@)]]
  /\ UNCHANGED <<index, announced, issued, listening, answer>>

Acquire(s, k) ==
  \/ \E l \in Lease : AcquireFree(s, k, l)
  \/ AcquireOwn(s, k)
  \/ AcquireTaken(s, k)

Next ==
  \/ \E s \in Socket, k \in Key : Acquire(s, k)
  \/ \E s \in Socket, k \in Key, l \in issued : Renew(s, k, l)
  \/ \E s \in Socket, k \in Key, l \in issued : Release(s, k, l)
  \/ \E s \in Socket : ReleaseBySocket(s)
  \/ \E s \in Socket, d \in Document : ReleaseBySocketInDocument(s, d)
  \/ \E s \in Socket, d \in Document, E \in SUBSET Element : AskWhetherBlocked(d, E, s)
  \/ \E d \in Document, E \in SUBSET Element : Reconcile(d, E)
  \/ \E d \in Document : List(d)
  \/ \E k \in Key : TimerFires(k)
  \/ Shutdown
  \/ Tick

\* Time passes and the event loop serves the timers that are due.
Fairness == WF_vars(Tick) /\ \A k \in Key : WF_vars(TimerFires(k))

Spec == Init /\ [][Next]_vars
FairSpec == Spec /\ Fairness

-----------------------------------------------------------------------------
(* Properties *)

\* The types of the lock store's state.
TypeOK ==
  /\ Held \subseteq Key
  /\ \A k \in Held : locks[k] \in Lock
  /\ locks = [k \in Held |-> locks[k]]
  /\ index \in [Socket -> SUBSET Key]
  /\ announced \in [Document -> SUBSET PublicLock]
  /\ issued \subseteq Lease
  /\ listening \in BOOLEAN
  /\ answer \in [kind : Answer, socket : Socket \cup {None}, keys : SUBSET Key]

\* The two maps of the store agree: a disconnecting socket finds all its
\* locks in the index and never those of another socket that took over an
\* element after a lapse.
IndexExact == \A s \in Socket : index[s] = OwnedBy(s)

\* What the room was last told of a document is what the store holds, however
\* the last lock came or went: by its owner, by another's call that found it
\* lapsed, by a reconciliation or by its timer.
AnnouncedIsStored ==
  listening => \A d \in Document : announced[d] = Public(locks, d)

\* A lapsed lock keeps nobody out: it denies no acquisition and blocks no
\* command, even when its timer is late.
LapsedNeverBlocks ==
  [][/\ answer'.kind \in {"denied", "blocked"} /\ answer' # answer
     => \E k \in answer'.keys \cap Held :
          locks[k].left > 0 /\ locks[k].owner # answer'.socket]_vars

\* A lease that lapsed is over for good: neither its owner's renewal nor a
\* second acquisition revives it, and once it left the store it never comes
\* back.
HeldLeases == {locks[k].lease : k \in Held}
LeasesEndForGood ==
  [][/\ \A l \in issued \ HeldLeases : l \notin HeldLeases'
     /\ \A k \in Held \cap Held' :
          locks[k].lease = locks'[k].lease /\ locks[k].left = 0
          => locks'[k].left = 0]_vars

\* A lapsed lock is as good as gone, in or out of the store: it neither keeps
\* anybody out nor serves its owner again.
LapsedIsOver == LapsedNeverBlocks /\ LeasesEndForGood

\* Nobody but its owner, the disappearance of the element or a shutdown ends a
\* lease before its time.
SameLease(k) ==
  k \in Held' /\ locks'[k].owner = locks[k].owner /\ locks'[k].lease = locks[k].lease
EndedByRight(k) ==
  \/ Release(locks[k].owner, k, locks[k].lease)
  \/ ReleaseBySocket(locks[k].owner)
  \/ ReleaseBySocketInDocument(locks[k].owner, k[1])
  \/ \E E \in SUBSET (Element \ {k[2]}) : Reconcile(k[1], E)
  \/ Shutdown
LiveLeaseProtected ==
  [][\A k \in Held : locks[k].left > 0 => SameLease(k) \/ EndedByRight(k)]_vars

\* A lapsed lock leaves the store, called or not, unless its timer fired before
\* the lapse, which the callback takes for a renewal: a renewed lease has a timer of its
\* own that is due at the new expiry, whatever became of the timers before it.
TimelyLocksExpire ==
  \A k \in Key :
    (k \in Held /\ locks[k].left = 0 /\ locks[k].timer # TooEarly)
      ~> (k \notin Held \/ locks[k].left > 0)
=============================================================================
