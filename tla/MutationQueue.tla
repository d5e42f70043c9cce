--------------------------- MODULE MutationQueue ---------------------------
(***************************************************************************)
(* DocumentMutationQueueService: every piece of work about a document (a   *)
(* join, a command, a lock request, a broadcast, a critical               *)
(* synchronisation) runs in the line of that document.  A line is not a    *)
(* queue object: it is a chain of promises.  Each caller takes the tail    *)
(* it finds in the map `tails` as its predecessor, leaves its own promise  *)
(* there, and starts once the predecessor's promise has settled.           *)
(*                                                                         *)
(* A task is one call of run (priority "standard") or runCritical          *)
(* (priority "critical").  Tasks are used once; `ticket`, `born` and        *)
(* `generation` are history variables: the order of the admissions and the *)
(* number of shutdowns before each call.                                   *)
(***************************************************************************)
EXTENDS Integers, FiniteSets

CONSTANTS Task, Document,
          Capacity,      \* collaboration.maxPendingMutationsPerDocument
          MaxShutdowns,  \* bound: calls of onApplicationShutdown
          None

ASSUME CapacityAssumption == Capacity \in Nat \ {0}
ASSUME ShutdownAssumption == MaxShutdowns \in Nat
ASSUME TaskAssumption == None \notin Task /\ IsFiniteSet(Task)

VARIABLES
  status,      \* where the call of each task stands
  docOf,       \* the document it was called for
  priority,    \* "standard" or "critical"
  prev,        \* the task whose promise it awaits, None for a resolved promise
  ticket,      \* history: its place among all the admissions
  born,        \* history: the generation it was called in
  tails,       \* tails[d]: the task whose promise the map holds, None if no entry
  pending,     \* pendingByDocument[d], 0 if no entry
  clock,       \* history: number of admissions
  generation   \* history: number of shutdowns

vars == <<status, docOf, priority, prev, ticket, born, tails, pending, clock,
          generation>>

Priority == {"standard", "critical"}
Status == {"new", "waiting", "running", "resolved", "rejected", "refused"}

\* A task whose promise in the chain is still unsettled.
IsActive(t) == status[t] \in {"waiting", "running"}
IsSettled(t) == status[t] \in {"resolved", "rejected"}
Active(d) == {t \in Task : IsActive(t) /\ docOf[t] = d}

\* Mutant: no slot is kept back.
WholeCapacity == Capacity
\* Math.max(1, capacity - 1): the last slot is kept for critical work.
StandardCapacity == IF Capacity > 1 THEN Capacity - 1 ELSE 1
Limit(p) == IF p = "standard" THEN StandardCapacity ELSE Capacity

Init ==
  /\ status = [t \in Task |-> "new"]
  /\ docOf = [t \in Task |-> None]
  /\ priority = [t \in Task |-> "standard"]
  /\ prev = [t \in Task |-> None]
  /\ ticket = [t \in Task |-> 0]
  /\ born = [t \in Task |-> 0]
  /\ tails = [d \in Document |-> None]
  /\ pending = [d \in Document |-> 0]
  /\ clock = 0
  /\ generation = 0

(***************************************************************************)
(* The synchronous part of enqueue, up to `await previous`.                *)
(***************************************************************************)
Admit(t, d, p) ==
  /\ status[t] = "new"
  /\ pending[d] < Limit(p)
  /\ status' = [status EXCEPT ![t] = "waiting"]
  /\ docOf' = [docOf EXCEPT ![t] = d]
  /\ priority' = [priority EXCEPT ![t] = p]
  /\ pending' = [pending EXCEPT ![d] = @ + 1]
  /\ prev' = [prev EXCEPT ![t] = tails[d]]
  /\ tails' = [tails EXCEPT ![d] = t]
  /\ clock' = clock + 1
  /\ ticket' = [ticket EXCEPT ![t] = clock']
  /\ born' = [born EXCEPT ![t] = generation]
  /\ UNCHANGED generation

\* DocumentMutationQueueOverloadedError, thrown before anything is recorded.
Refuse(t, d, p) ==
  /\ status[t] = "new"
  /\ pending[d] >= Limit(p)
  /\ status' = [status EXCEPT ![t] = "refused"]
  /\ docOf' = [docOf EXCEPT ![t] = d]
  /\ priority' = [priority EXCEPT ![t] = p]
  /\ born' = [born EXCEPT ![t] = generation]
  /\ UNCHANGED <<prev, ticket, tails, pending, clock, generation>>

\* Mutants: the predecessor has only started; a rejection is not caught.
PreviousStarted(t) == prev[t] # None => status[prev[t]] # "waiting"
PreviousResolved(t) == prev[t] # None => status[prev[t]] = "resolved"
\* previous.catch(() => undefined): a rejected predecessor settles it too.
PreviousSettled(t) == prev[t] # None => IsSettled(prev[t])

Start(t) ==
  /\ status[t] = "waiting"
  /\ PreviousSettled(t)
  /\ status' = [status EXCEPT ![t] = "running"]
  /\ UNCHANGED <<docOf, priority, prev, ticket, born, tails, pending, clock,
                 generation>>

(***************************************************************************)
(* operation() returns or throws: the finally block releases the promise,  *)
(* drops the tail when it is still this task's and counts down, with       *)
(* `?? 1` for an entry that a shutdown cleared.                            *)
(***************************************************************************)
\* Mutants: the missing entry counts as 0; the last call is not counted down.
UncheckedCountDown(n) == n - 1
CountDown(n) == IF n > 0 THEN n - 1 ELSE 0

\* Mutant: the tail is dropped although a later call has taken it over.
FinishDroppingTail(t, outcome) ==
  /\ status[t] = "running"
  /\ status' = [status EXCEPT ![t] = outcome]
  /\ tails' = [tails EXCEPT ![docOf[t]] = None]
  /\ pending' = [pending EXCEPT ![docOf[t]] = CountDown(@)]
  /\ UNCHANGED <<docOf, priority, prev, ticket, born, clock, generation>>
Finish(t, outcome) ==
  /\ status[t] = "running"
  /\ status' = [status EXCEPT ![t] = outcome]
  /\ tails' = [tails EXCEPT ![docOf[t]] = IF @ = t THEN None ELSE @]
  /\ pending' = [pending EXCEPT ![docOf[t]] = CountDown(@)]
  /\ UNCHANGED <<docOf, priority, prev, ticket, born, clock, generation>>

\* onApplicationShutdown clears both maps whatever is still running.
Shutdown ==
  /\ generation < MaxShutdowns
  /\ tails' = [d \in Document |-> None]
  /\ pending' = [d \in Document |-> 0]
  /\ generation' = generation + 1
  /\ UNCHANGED <<status, docOf, priority, prev, ticket, born, clock>>

Next ==
  \/ \E t \in Task, d \in Document, p \in Priority : Admit(t, d, p)
  \/ \E t \in Task, d \in Document, p \in Priority : Refuse(t, d, p)
  \/ \E t \in Task : Start(t)
  \/ \E t \in Task, o \in {"resolved", "rejected"} : Finish(t, o)
  \/ Shutdown

\* Microtasks run, and an operation that was started settles.
Fairness ==
  /\ \A t \in Task : WF_vars(Start(t))
  /\ \A t \in Task : WF_vars(\E o \in {"resolved", "rejected"} : Finish(t, o))

Spec == Init /\ [][Next]_vars
FairSpec == Spec /\ Fairness

-----------------------------------------------------------------------------
(* Properties *)

\* The types of the variables of the queue service.
TypeOK ==
  /\ status \in [Task -> Status]
  /\ docOf \in [Task -> Document \cup {None}]
  /\ priority \in [Task -> Priority]
  /\ prev \in [Task -> Task \cup {None}]
  /\ ticket \in [Task -> Nat]
  /\ born \in [Task -> Nat]
  /\ tails \in [Document -> Task \cup {None}]
  /\ pending \in [Document -> Nat]
  /\ clock \in Nat
  /\ generation \in Nat
  /\ \A t \in Task : status[t] # "new" => docOf[t] \in Document

\* Two tasks of one document, admitted without a shutdown in between.
SameLine(t, u) == docOf[t] = docOf[u] /\ born[t] = born[u]

\* The operations of one document never overlap: the reads of one are not
\* interleaved with the writes of another, although nothing locks the
\* document and the only link between two callers is the promise the second
\* one found in `tails`.
MutualExclusion ==
  \A t, u \in Task :
    status[t] = "running" /\ status[u] = "running" /\ SameLine(t, u) => t = u

\* The operations of a document start in the order of the calls: when one is
\* running or over, everything admitted before it on that document is over,
\* whether it succeeded or threw.
ServedInOrder ==
  \A t, u \in Task :
    /\ status[t] = "running" \/ IsSettled(t)
    /\ IsActive(u)
    /\ SameLine(t, u)
    => ticket[t] <= ticket[u]

\* Critical work is refused only while other critical work holds the
\* reserved slot: standard calls alone never keep it out.
CriticalSlotReserved ==
  [][\A t \in Task :
       /\ Capacity > 1
       /\ status[t] = "new" /\ status'[t] = "refused"
       /\ priority'[t] = "critical"
       => \E u \in Active(docOf'[t]) : priority[u] = "critical"]_vars

\* Every admitted call is eventually settled, also behind one that throws.
EveryCallSettles ==
  \A t \in Task : status[t] = "waiting" ~> IsSettled(t)
-----------------------------------------------------------------------------
(* The lines that the callers rely on, seen in the chain of promises. *)

\* The elements of a finite set, the one with the least f first.
Rank(S, f, t) == Cardinality({u \in S : f[u] <= f[t]})
Sorted(S, f) == [i \in 1 .. Cardinality(S) |-> CHOOSE t \in S : Rank(S, f, t) = i]

\* The calls of a document that were made before the first shutdown, oldest
\* first.  For the lines, the later ones are never made.
Outstanding(d) == {t \in Active(d) : born[t] = 0}

Lines == INSTANCE DocumentLine WITH
  line <- [d \in Document |-> Sorted(Outstanding(d), ticket)],
  serving <- {d \in Document : \E t \in Outstanding(d) : status[t] = "running"},
  outside <- {t \in Task : status[t] = "new" \/ born[t] > 0}

\* Up to its shutdown the promise chain implements the bounded lines that its
\* callers rely on; the calls that a shutdown finds are still served in line,
\* to the last one.
ImplementsLines == Lines!Spec
=============================================================================
