------------------------ MODULE MutationQueue_proofs ------------------------
(***************************************************************************)
(* Proofs about the mutation queue for every set of tasks and documents,   *)
(* every capacity and every number of shutdowns.                           *)
(***************************************************************************)
EXTENDS MutationQueue, FiniteSetTheorems, SequenceTheorems, TLAPS

Admitted(t) == IsActive(t) \/ IsSettled(t)

\* The history variables number the admissions.
TicketsInv ==
  /\ \A t \in Task : Admitted(t) => ticket[t] <= clock /\ born[t] <= generation
  /\ \A t, u \in Task :
       Admitted(t) /\ Admitted(u) /\ ticket[t] = ticket[u] => t = u

\* A task with an older active task in its line awaits an active task of
\* that line which is at least as young as the older one.
ChainInv ==
  \A t, u \in Task :
    IsActive(t) /\ IsActive(u) /\ SameLine(t, u) /\ ticket[u] < ticket[t]
    => /\ prev[t] \in Task
       /\ IsActive(prev[t])
       /\ SameLine(prev[t], t)
       /\ ticket[u] <= ticket[prev[t]]

\* The map holds the youngest outstanding task, or nothing when none is.
TailInv ==
  /\ \A d \in Document :
       tails[d] # None => /\ IsActive(tails[d])
                          /\ docOf[tails[d]] = d
                          /\ born[tails[d]] = generation
  /\ \A d \in Document, u \in Task :
       IsActive(u) /\ docOf[u] = d /\ born[u] = generation
       => tails[d] # None /\ ticket[u] <= ticket[tails[d]]

\* Standard calls alone never fill the last slot of a line.
SlotInv ==
  \A d \in Document :
    /\ pending[d] <= Capacity
    /\ (\A u \in Task : /\ IsActive(u)
                        /\ docOf[u] = d
                        /\ born[u] = generation
                        => priority[u] = "standard")
       => pending[d] <= StandardCapacity

OrderInv == TicketsInv /\ ChainInv /\ TailInv /\ ServedInOrder

IInv == TypeOK /\ OrderInv /\ SlotInv

-----------------------------------------------------------------------------
\* The variables of the queue service keep their types.
THEOREM TypeCorrect == Spec => []TypeOK
<1>1. Init => TypeOK
  BY DEF Init, TypeOK, Status, Priority
<1>2. TypeOK /\ [Next]_vars => TypeOK'
  <2> SUFFICES ASSUME TypeOK, [Next]_vars PROVE TypeOK'
    OBVIOUS
  <2> USE DEF TypeOK, Status, Priority
  <2>1. ASSUME NEW t \in Task, NEW d \in Document, NEW p \in Priority, Admit(t, d, p)
        PROVE TypeOK'
    BY <2>1 DEF Admit
  <2>2. ASSUME NEW t \in Task, NEW d \in Document, NEW p \in Priority, Refuse(t, d, p)
        PROVE TypeOK'
    BY <2>2 DEF Refuse
  <2>3. ASSUME NEW t \in Task, Start(t) PROVE TypeOK'
    BY <2>3 DEF Start
  <2>4. ASSUME NEW t \in Task, NEW o \in {"resolved", "rejected"}, Finish(t, o)
        PROVE TypeOK'
    <3>1. docOf[t] \in Document
      BY <2>4 DEF Finish
    <3>2. CountDown(pending[docOf[t]]) \in Nat
      BY <3>1 DEF CountDown
    <3>3. QED
      BY <2>4, <3>1, <3>2 DEF Finish
  <2>5. CASE Shutdown
    BY <2>5 DEF Shutdown
  <2>6. CASE UNCHANGED vars
    BY <2>6 DEF vars
  <2>7. QED
    BY <2>1, <2>2, <2>3, <2>4, <2>5, <2>6 DEF Next
<1>3. QED
  BY <1>1, <1>2, PTL DEF Spec

-----------------------------------------------------------------------------
\* The empty chain is in order.
LEMMA InitOrder == Init => OrderInv /\ SlotInv
  BY CapacityAssumption
     DEF Init, OrderInv, TicketsInv, ChainInv, TailInv, ServedInOrder, SlotInv,
         Admitted, IsActive, IsSettled, StandardCapacity

\* Admission hands the new task the youngest outstanding one as predecessor.
LEMMA AdmitOrder ==
  ASSUME TypeOK, OrderInv, NEW t \in Task, NEW d \in Document,
         NEW p \in Priority, Admit(t, d, p)
  PROVE  OrderInv'
<1> USE TaskAssumption
<1>1. /\ ticket' = [ticket EXCEPT ![t] = clock + 1]
      /\ status' = [status EXCEPT ![t] = "waiting"]
      /\ docOf' = [docOf EXCEPT ![t] = d]
      /\ born' = [born EXCEPT ![t] = generation]
      /\ prev' = [prev EXCEPT ![t] = tails[d]]
      /\ tails' = [tails EXCEPT ![d] = t]
      /\ clock' = clock + 1 /\ generation' = generation
      /\ status[t] = "new"
  BY DEF Admit
<1>2. \A u \in Task : u # t => /\ status'[u] = status[u] /\ ticket'[u] = ticket[u]
                               /\ docOf'[u] = docOf[u] /\ born'[u] = born[u]
                               /\ prev'[u] = prev[u]
  BY <1>1 DEF TypeOK
<1>3. /\ status'[t] = "waiting" /\ ticket'[t] = clock + 1 /\ docOf'[t] = d
      /\ born'[t] = generation /\ prev'[t] = tails[d] /\ tails'[d] = t
  BY <1>1 DEF TypeOK
<1>4. \A u \in Task : Admitted(u) => ticket[u] < clock + 1 /\ u # t
  BY <1>1 DEF OrderInv, TicketsInv, Admitted, IsActive, IsSettled, TypeOK
<1>5. TicketsInv'
  BY <1>1, <1>2, <1>3, <1>4
     DEF OrderInv, TicketsInv, Admitted, IsActive, IsSettled, TypeOK
<1>6. ChainInv'
  <2> SUFFICES ASSUME NEW a \in Task, NEW b \in Task,
                      IsActive(a)', IsActive(b)', SameLine(a, b)',
                      ticket'[b] < ticket'[a]
               PROVE /\ prev'[a] \in Task
                     /\ IsActive(prev[a])'
                     /\ SameLine(prev[a], a)'
                     /\ ticket'[b] <= ticket'[prev'[a]]
    BY DEF ChainInv
  <2>1. b # t
    <3>1. SUFFICES ASSUME b = t PROVE FALSE
      OBVIOUS
    <3>2. a # t
      BY <3>1, <1>3 DEF TypeOK
    <3>3. Admitted(a)
      BY <3>2, <1>2 DEF Admitted, IsActive
    <3>4. QED
      BY <3>1, <3>2, <3>3, <1>2, <1>3, <1>4 DEF TypeOK
  <2>2. IsActive(b) /\ ticket'[b] = ticket[b]
    BY <2>1, <1>2 DEF IsActive
  <2>3. CASE a = t
    <3>1. docOf[b] = d /\ born[b] = generation
      BY <2>1, <2>3, <1>2, <1>3 DEF SameLine
    <3>2. tails[d] # None /\ ticket[b] <= ticket[tails[d]]
      BY <3>1, <2>2 DEF OrderInv, TailInv
    <3>3. tails[d] \in Task /\ IsActive(tails[d])
          /\ docOf[tails[d]] = d /\ born[tails[d]] = generation
      BY <3>2 DEF OrderInv, TailInv, TypeOK
    <3>4. tails[d] # t
      BY <3>3, <1>1 DEF IsActive
    <3>5. QED
      BY <2>2, <2>3, <3>2, <3>3, <3>4, <1>2, <1>3 DEF SameLine, IsActive
  <2>4. CASE a # t
    <3>1. IsActive(a) /\ SameLine(a, b) /\ ticket[b] < ticket[a] /\ prev'[a] = prev[a]
      BY <2>1, <2>4, <1>2 DEF IsActive, SameLine
    <3>2. /\ prev[a] \in Task /\ IsActive(prev[a]) /\ SameLine(prev[a], a)
          /\ ticket[b] <= ticket[prev[a]]
      BY <3>1, <2>2 DEF OrderInv, ChainInv
    <3>3. prev[a] # t
      BY <3>2, <1>1 DEF IsActive
    <3>4. QED
      BY <2>4, <2>2, <3>1, <3>2, <3>3, <1>2 DEF SameLine, IsActive
  <2>5. QED
    BY <2>3, <2>4
<1>7. TailInv'
  <2>1. \A e \in Document : e # d => tails'[e] = tails[e]
    BY <1>1 DEF TypeOK
  <2>2. ASSUME NEW e \in Document, tails'[e] # None
        PROVE /\ IsActive(tails[e])' /\ docOf'[tails'[e]] = e
              /\ born'[tails'[e]] = generation'
    <3>1. CASE e = d
      BY <3>1, <1>1, <1>3 DEF IsActive
    <3>2. CASE e # d
      <4>1. /\ tails[e] \in Task /\ IsActive(tails[e]) /\ docOf[tails[e]] = e
            /\ born[tails[e]] = generation /\ tails'[e] = tails[e]
        BY <2>1, <2>2, <3>2 DEF OrderInv, TailInv, TypeOK
      <4>2. tails[e] # t
        BY <4>1, <1>1 DEF IsActive
      <4>3. QED
        BY <4>1, <4>2, <1>1, <1>2 DEF IsActive
    <3>3. QED
      BY <3>1, <3>2
  <2>3. ASSUME NEW e \in Document, NEW u \in Task,
               IsActive(u)', docOf'[u] = e, born'[u] = generation'
        PROVE tails'[e] # None /\ ticket'[u] <= ticket'[tails'[e]]
    <3>1. CASE u = t
      BY <3>1, <2>3, <1>3 DEF TypeOK
    <3>2. CASE u # t
      <4>1. IsActive(u) /\ docOf[u] = e /\ born[u] = generation /\ ticket'[u] = ticket[u]
        BY <3>2, <2>3, <1>1, <1>2 DEF IsActive
      <4>2. CASE e = d
        <5>1. ticket[u] < clock + 1
          BY <4>1, <1>4 DEF Admitted
        <5>2. QED
          BY <4>1, <4>2, <5>1, <1>3 DEF TypeOK
      <4>3. CASE e # d
        <5>1. tails[e] # None /\ ticket[u] <= ticket[tails[e]]
          BY <4>1 DEF OrderInv, TailInv
        <5>2. tails[e] \in Task /\ IsActive(tails[e])
          BY <5>1 DEF OrderInv, TailInv, TypeOK
        <5>3. tails[e] # t
          BY <5>2, <1>1 DEF IsActive
        <5>4. QED
          BY <4>1, <4>3, <5>1, <5>2, <5>3, <2>1, <1>2
      <4>4. QED
        BY <4>2, <4>3
    <3>3. QED
      BY <3>1, <3>2
  <2>4. QED
    BY <2>2, <2>3 DEF TailInv
<1>8. ServedInOrder'
  <2> SUFFICES ASSUME NEW a \in Task, NEW b \in Task,
                      status'[a] = "running" \/ IsSettled(a)', IsActive(b)',
                      SameLine(a, b)'
               PROVE ticket'[a] <= ticket'[b]
    BY DEF ServedInOrder
  <2>1. a # t
    BY <1>3 DEF IsSettled
  <2>2. (status[a] = "running" \/ IsSettled(a)) /\ ticket'[a] = ticket[a] /\ Admitted(a)
    BY <2>1, <1>2 DEF IsSettled, Admitted, IsActive
  <2>3. CASE b = t
    BY <2>2, <2>3, <1>3, <1>4 DEF TypeOK
  <2>4. CASE b # t
    BY <2>1, <2>2, <2>4, <1>2 DEF OrderInv, ServedInOrder, IsActive, SameLine
  <2>5. QED
    BY <2>3, <2>4
<1>9. QED
  BY <1>5, <1>6, <1>7, <1>8 DEF OrderInv

\* A refused call changes nothing that the invariants speak of.
LEMMA RefuseOrder ==
  ASSUME TypeOK, OrderInv, NEW t \in Task, NEW d \in Document,
         NEW p \in Priority, Refuse(t, d, p)
  PROVE  OrderInv'
<1>1. /\ \A u \in Task : /\ (Admitted(u)' <=> Admitted(u))
                         /\ (IsActive(u)' <=> IsActive(u))
                         /\ (IsSettled(u)' <=> IsSettled(u))
                         /\ (status'[u] = "running" <=> status[u] = "running")
                         /\ (status[u] = "running" => Admitted(u))
                         /\ (u # t => docOf'[u] = docOf[u] /\ born'[u] = born[u])
      /\ UNCHANGED <<prev, ticket, tails, clock, generation>>
      /\ ~Admitted(t)
  BY DEF Refuse, Admitted, IsActive, IsSettled, TypeOK
<1>2. \A u \in Task : Admitted(u) => docOf'[u] = docOf[u] /\ born'[u] = born[u]
  BY <1>1
<1>3. TicketsInv'
  BY <1>1, <1>2 DEF OrderInv, TicketsInv
<1>4. ChainInv'
  BY <1>1, <1>2 DEF OrderInv, ChainInv, SameLine, Admitted
<1>5. TailInv'
  <2>1. \A e \in Document : tails[e] # None => tails[e] \in Task /\ tails'[e] = tails[e]
    BY <1>1 DEF TypeOK
  <2>2. QED
    BY <2>1, <1>1, <1>2 DEF OrderInv, TailInv, Admitted
<1>6. ServedInOrder'
  BY <1>1, <1>2 DEF OrderInv, ServedInOrder, SameLine, Admitted
<1>7. QED
  BY <1>3, <1>4, <1>5, <1>6 DEF OrderInv

\* A task that starts is the oldest active one of its line: an older one would
\* make its predecessor active.
LEMMA StartOrder ==
  ASSUME TypeOK, OrderInv, NEW t \in Task, Start(t)
  PROVE  OrderInv'
<1> USE TaskAssumption
<1>1. /\ \A u \in Task : /\ (Admitted(u)' <=> Admitted(u))
                         /\ (IsActive(u)' <=> IsActive(u))
                         /\ (IsSettled(u)' <=> IsSettled(u))
                         /\ (u # t => status'[u] = status[u])
      /\ UNCHANGED <<docOf, prev, ticket, born, tails, clock, generation>>
      /\ IsActive(t)
  BY DEF Start, Admitted, IsActive, IsSettled, TypeOK
<1>2. TicketsInv' /\ ChainInv'
  BY <1>1 DEF OrderInv, TicketsInv, ChainInv, SameLine, TypeOK
<1>3. TailInv'
  BY <1>1 DEF OrderInv, TailInv, TypeOK
<1>4. ServedInOrder'
  <2> SUFFICES ASSUME NEW a \in Task, NEW b \in Task,
                      status'[a] = "running" \/ IsSettled(a)', IsActive(b)',
                      SameLine(a, b)'
               PROVE ticket'[a] <= ticket'[b]
    BY DEF ServedInOrder
  <2>1. CASE a = t
    <3>1. SUFFICES ASSUME ticket[b] < ticket[a] PROVE FALSE
      BY <1>1 DEF TypeOK
    <3>2. prev[a] \in Task /\ IsActive(prev[a])
      BY <2>1, <3>1, <1>1 DEF OrderInv, ChainInv, SameLine
    <3>3. IsSettled(prev[a])
      BY <2>1, <3>2 DEF Start, PreviousSettled
    <3>4. QED
      BY <3>2, <3>3 DEF IsActive, IsSettled
  <2>2. CASE a # t
    BY <2>2, <1>1 DEF OrderInv, ServedInOrder, SameLine
  <2>3. QED
    BY <2>1, <2>2
<1>5. QED
  BY <1>2, <1>3, <1>4 DEF OrderInv

\* The task that settles was the oldest of its line, so that the chain of the
\* others does not need it, and when it was also the youngest nothing is left.
LEMMA FinishOrder ==
  ASSUME TypeOK, OrderInv, NEW t \in Task, NEW o \in {"resolved", "rejected"},
         Finish(t, o)
  PROVE  OrderInv'
<1> USE TaskAssumption
<1>1. /\ \A u \in Task : /\ (Admitted(u)' <=> Admitted(u))
                         /\ (IsActive(u)' <=> IsActive(u) /\ u # t)
                         /\ (IsSettled(u)' <=> IsSettled(u) \/ u = t)
                         /\ (u # t => status'[u] = status[u])
      /\ UNCHANGED <<docOf, prev, ticket, born, clock, generation>>
      /\ IsActive(t) /\ status[t] = "running" /\ docOf[t] \in Document
      /\ tails' = [tails EXCEPT ![docOf[t]] = IF tails[docOf[t]] = t THEN None ELSE @]
  BY DEF Finish, Admitted, IsActive, IsSettled, TypeOK
<1>2. TicketsInv'
  BY <1>1 DEF OrderInv, TicketsInv
<1>3. \A u \in Task : IsActive(u) /\ SameLine(t, u) => ticket[t] <= ticket[u]
  BY <1>1 DEF OrderInv, ServedInOrder
<1>4. \A u \in Task : IsActive(u) /\ ticket[u] = ticket[t] => u = t
  BY <1>1 DEF OrderInv, TicketsInv, Admitted
<1>5. ChainInv'
  <2> SUFFICES ASSUME NEW a \in Task, NEW b \in Task,
                      IsActive(a)', IsActive(b)', SameLine(a, b)',
                      ticket'[b] < ticket'[a]
               PROVE /\ prev'[a] \in Task
                     /\ IsActive(prev[a])'
                     /\ SameLine(prev[a], a)'
                     /\ ticket'[b] <= ticket'[prev'[a]]
    BY DEF ChainInv
  <2>1. IsActive(a) /\ IsActive(b) /\ a # t /\ b # t /\ SameLine(a, b)
        /\ ticket[b] < ticket[a]
    BY <1>1 DEF SameLine
  <2>2. /\ prev[a] \in Task /\ IsActive(prev[a]) /\ SameLine(prev[a], a)
        /\ ticket[b] <= ticket[prev[a]]
    BY <2>1 DEF OrderInv, ChainInv
  <2>3. prev[a] # t
    <3>1. SUFFICES ASSUME prev[a] = t PROVE FALSE
      OBVIOUS
    <3>2. SameLine(t, b)
      BY <3>1, <2>1, <2>2 DEF SameLine
    <3>3. ticket[b] = ticket[t]
      BY <3>1, <3>2, <2>1, <2>2, <1>3 DEF TypeOK
    <3>4. QED
      BY <3>3, <2>1, <1>4
  <2>4. QED
    BY <2>2, <2>3, <1>1 DEF SameLine
<1>6. TailInv'
  <2>1. ASSUME NEW e \in Document, tails'[e] # None
        PROVE /\ IsActive(tails[e])' /\ docOf'[tails'[e]] = e
              /\ born'[tails'[e]] = generation'
    <3>1. tails[e] \in Task /\ tails'[e] = tails[e] /\ tails[e] # t
      BY <2>1, <1>1 DEF OrderInv, TailInv, TypeOK
    <3>2. QED
      BY <3>1, <2>1, <1>1 DEF OrderInv, TailInv
  <2>2. ASSUME NEW e \in Document, NEW u \in Task,
               IsActive(u)', docOf'[u] = e, born'[u] = generation'
        PROVE tails'[e] # None /\ ticket'[u] <= ticket'[tails'[e]]
    <3>1. IsActive(u) /\ u # t /\ docOf[u] = e /\ born[u] = generation
      BY <2>2, <1>1
    <3>2. tails[e] # None /\ ticket[u] <= ticket[tails[e]]
      BY <3>1 DEF OrderInv, TailInv
    <3>3. CASE tails[e] = t
      <4>1. SameLine(t, u)
        BY <3>1, <3>2, <3>3 DEF OrderInv, TailInv, SameLine
      <4>2. ticket[u] = ticket[t]
        BY <4>1, <3>1, <3>2, <3>3, <1>3 DEF TypeOK
      <4>3. QED
        BY <4>2, <3>1, <1>4
    <3>4. CASE tails[e] # t
      BY <3>2, <3>4, <1>1 DEF TypeOK
    <3>5. QED
      BY <3>3, <3>4
  <2>3. QED
    BY <2>1, <2>2 DEF TailInv
<1>7. ServedInOrder'
  BY <1>1, <1>3 DEF OrderInv, ServedInOrder, SameLine
<1>8. QED
  BY <1>2, <1>5, <1>6, <1>7 DEF OrderInv

\* After a shutdown nothing is outstanding in the new generation.
LEMMA ShutdownOrder ==
  ASSUME TypeOK, OrderInv, Shutdown
  PROVE  OrderInv'
<1>1. /\ UNCHANGED <<status, docOf, prev, ticket, born, clock>>
      /\ tails' = [d \in Document |-> None] /\ generation' = generation + 1
  BY DEF Shutdown
<1>2. \A u \in Task : /\ (Admitted(u)' <=> Admitted(u))
                      /\ (IsActive(u)' <=> IsActive(u))
                      /\ (IsSettled(u)' <=> IsSettled(u))
  BY <1>1 DEF Admitted, IsActive, IsSettled
<1>3. \A u \in Task : Admitted(u) => born[u] < generation'
  BY <1>1 DEF OrderInv, TicketsInv, TypeOK
<1>4. TicketsInv' /\ ChainInv' /\ ServedInOrder'
  BY <1>1, <1>2, <1>3
     DEF OrderInv, TicketsInv, ChainInv, ServedInOrder, SameLine, TypeOK
<1>5. TailInv'
  BY <1>1, <1>2, <1>3 DEF TailInv, Admitted, TypeOK
<1>6. QED
  BY <1>4, <1>5 DEF OrderInv

\* The order of the tasks of a line is an inductive invariant.
LEMMA OrderStep == TypeOK /\ OrderInv /\ [Next]_vars => OrderInv'
<1> SUFFICES ASSUME TypeOK, OrderInv, [Next]_vars PROVE OrderInv'
  OBVIOUS
<1>1. CASE UNCHANGED vars
  BY <1>1 DEF vars, OrderInv, TicketsInv, ChainInv, TailInv, ServedInOrder,
              Admitted, IsActive, IsSettled, SameLine
<1>2. QED
  BY <1>1, AdmitOrder, RefuseOrder, StartOrder, FinishOrder, ShutdownOrder DEF Next

\* The reserved slot: inductive on its own, from the types and the tails.
LEMMA SlotStep == TypeOK /\ SlotInv /\ [Next]_vars => SlotInv'
<1> SUFFICES ASSUME TypeOK, SlotInv, [Next]_vars, NEW e \in Document
    PROVE /\ pending'[e] <= Capacity
          /\ (\A u \in Task : /\ IsActive(u)'
                              /\ docOf'[u] = e
                              /\ born'[u] = generation'
                              => priority'[u] = "standard")
             => pending'[e] <= StandardCapacity
  BY DEF SlotInv
<1>0. /\ pending[e] \in Nat /\ pending[e] <= Capacity
      /\ StandardCapacity <= Capacity /\ StandardCapacity \in Nat \ {0}
      /\ Capacity <= StandardCapacity + 1
      /\ Capacity = 1 => StandardCapacity = 1
  BY CapacityAssumption DEF TypeOK, SlotInv, StandardCapacity
<1>1. ASSUME NEW t \in Task, NEW d \in Document, NEW p \in Priority, Admit(t, d, p)
      PROVE /\ pending'[e] <= Capacity
            /\ (\A u \in Task : /\ IsActive(u)'
                                /\ docOf'[u] = e
                                /\ born'[u] = generation'
                                => priority'[u] = "standard")
               => pending'[e] <= StandardCapacity
  <2>1. CASE e = d
    <3>1. /\ pending[e] < Limit(p) /\ pending'[e] = pending[e] + 1
          /\ IsActive(t)' /\ docOf'[t] = e /\ born'[t] = generation' /\ priority'[t] = p
      BY <1>1, <2>1 DEF Admit, IsActive, TypeOK
    <3>2. CASE p = "standard"
      BY <3>1, <3>2, <1>0, CapacityAssumption DEF Limit
    <3>3. CASE p = "critical"
      BY <3>1, <3>3, <1>0, CapacityAssumption DEF Limit
    <3>4. QED
      BY <3>2, <3>3 DEF Priority
  <2>2. CASE e # d
    <3>1. pending'[e] = pending[e] /\ docOf'[t] # e /\ ~IsActive(t)
      BY <1>1, <2>2 DEF Admit, IsActive, TypeOK
    <3>2. \A u \in Task : u # t => /\ (IsActive(u)' <=> IsActive(u))
                                   /\ docOf'[u] = docOf[u] /\ born'[u] = born[u]
                                   /\ priority'[u] = priority[u]
      BY <1>1 DEF Admit, IsActive, TypeOK
    <3>3. generation' = generation
      BY <1>1 DEF Admit
    <3>4. QED
      BY <3>1, <3>2, <3>3 DEF SlotInv
  <2>3. QED
    BY <2>1, <2>2
<1>2. ASSUME NEW t \in Task, NEW d \in Document, NEW p \in Priority, Refuse(t, d, p)
      PROVE /\ pending'[e] <= Capacity
            /\ (\A u \in Task : /\ IsActive(u)'
                                /\ docOf'[u] = e
                                /\ born'[u] = generation'
                                => priority'[u] = "standard")
               => pending'[e] <= StandardCapacity
  <2>1. /\ \A u \in Task : u # t => /\ docOf'[u] = docOf[u]
                                    /\ priority'[u] = priority[u]
                                    /\ born'[u] = born[u]
        /\ \A u \in Task : IsActive(u)' <=> IsActive(u)
        /\ ~IsActive(t) /\ UNCHANGED <<pending, generation>>
    BY <1>2 DEF Refuse, IsActive, TypeOK
  <2>2. QED
    BY <2>1 DEF SlotInv
<1>3. ASSUME NEW t \in Task, Start(t)
      PROVE /\ pending'[e] <= Capacity
            /\ (\A u \in Task : /\ IsActive(u)'
                                /\ docOf'[u] = e
                                /\ born'[u] = generation'
                                => priority'[u] = "standard")
               => pending'[e] <= StandardCapacity
  <2>1. /\ \A u \in Task : IsActive(u)' <=> IsActive(u)
        /\ UNCHANGED <<docOf, priority, born, pending, generation>>
    BY <1>3 DEF Start, IsActive, TypeOK
  <2>2. QED
    BY <2>1 DEF SlotInv
<1>4. ASSUME NEW t \in Task, NEW o \in {"resolved", "rejected"}, Finish(t, o)
      PROVE /\ pending'[e] <= Capacity
            /\ (\A u \in Task : /\ IsActive(u)'
                                /\ docOf'[u] = e
                                /\ born'[u] = generation'
                                => priority'[u] = "standard")
               => pending'[e] <= StandardCapacity
  <2>1. /\ \A u \in Task : IsActive(u)' <=> IsActive(u) /\ u # t
        /\ UNCHANGED <<docOf, priority, born, generation>>
        /\ IsActive(t) /\ docOf[t] \in Document
    BY <1>4 DEF Finish, IsActive, TypeOK
  <2>2. CASE e = docOf[t]
    <3>1. pending'[e] = CountDown(pending[e])
      BY <1>4, <2>1, <2>2 DEF Finish, TypeOK
    <3>2. pending'[e] \in Nat /\ pending'[e] <= pending[e] /\ pending'[e] <= StandardCapacity
      BY <3>1, <1>0, CapacityAssumption DEF CountDown
    <3>3. QED
      BY <3>2, <1>0, CapacityAssumption
  <2>3. CASE e # docOf[t]
    <3>1. pending'[e] = pending[e]
      BY <1>4, <2>1, <2>3 DEF Finish, TypeOK
    <3>2. QED
      BY <3>1, <2>1, <2>3 DEF SlotInv
  <2>4. QED
    BY <2>2, <2>3
<1>5. CASE Shutdown
  BY <1>5, <1>0, CapacityAssumption DEF Shutdown
<1>6. CASE UNCHANGED vars
  BY <1>6 DEF vars, SlotInv, IsActive
<1>7. QED
  BY <1>1, <1>2, <1>3, <1>4, <1>5, <1>6 DEF Next

\* Types, order and slots are right in every state.
THEOREM InductiveInvariant == Spec => []IInv
<1>1. Init => OrderInv /\ SlotInv
  BY InitOrder
<1>2. TypeOK /\ OrderInv /\ SlotInv /\ [Next]_vars => OrderInv' /\ SlotInv'
  BY OrderStep, SlotStep
<1>3. QED
  BY <1>1, <1>2, TypeCorrect, PTL DEF Spec, IInv

-----------------------------------------------------------------------------
\* The operations of one document start in the order of their calls, each
\* after the end of every earlier one.
THEOREM CallsServedInOrder == Spec => []ServedInOrder
<1>1. IInv => ServedInOrder
  BY DEF IInv, OrderInv
<1>2. QED
  BY <1>1, InductiveInvariant, PTL

\* Two operations of one document never run at the same time.
THEOREM OperationsNeverOverlap == Spec => []MutualExclusion
<1>1. IInv => MutualExclusion
  <2> SUFFICES ASSUME IInv, NEW t \in Task, NEW u \in Task,
                      status[t] = "running", status[u] = "running", SameLine(t, u)
               PROVE t = u
    BY DEF MutualExclusion
  <2>1. IsActive(t) /\ IsActive(u) /\ SameLine(u, t)
    BY DEF IsActive, SameLine
  <2>2. ticket[t] <= ticket[u] /\ ticket[u] <= ticket[t]
    BY <2>1 DEF IInv, OrderInv, ServedInOrder
  <2>3. ticket[t] = ticket[u]
    BY <2>2 DEF IInv, TypeOK
  <2>4. QED
    BY <2>1, <2>3 DEF IInv, OrderInv, TicketsInv, Admitted
<1>2. QED
  BY <1>1, InductiveInvariant, PTL

\* Standard calls never keep critical work out of a document's line.
THEOREM CriticalWorkHasRoom == Spec => CriticalSlotReserved
<1> DEFINE Reserved ==
      \A t \in Task :
        /\ Capacity > 1
        /\ status[t] = "new" /\ status'[t] = "refused"
        /\ priority'[t] = "critical"
        => \E u \in Active(docOf'[t]) : priority[u] = "critical"
<1>1. IInv /\ [Next]_vars => [Reserved]_vars
  <2> SUFFICES ASSUME IInv, Next, NEW t \in Task, Capacity > 1,
                      status[t] = "new", status'[t] = "refused",
                      priority'[t] = "critical"
               PROVE \E u \in Active(docOf'[t]) : priority[u] = "critical"
    BY DEF vars
  <2> USE DEF IInv, TypeOK
  <2>1. \E d \in Document : Refuse(t, d, "critical")
    <3>1. ASSUME NEW v \in Task, NEW d \in Document, NEW p \in Priority, Admit(v, d, p)
          PROVE FALSE
      BY <3>1 DEF Admit
    <3>2. ASSUME NEW v \in Task, Start(v) PROVE FALSE
      BY <3>2 DEF Start
    <3>3. ASSUME NEW v \in Task, NEW o \in {"resolved", "rejected"}, Finish(v, o)
          PROVE FALSE
      BY <3>3 DEF Finish
    <3>4. ASSUME Shutdown PROVE FALSE
      BY <3>4 DEF Shutdown
    <3>5. PICK v \in Task, d \in Document, p \in Priority : Refuse(v, d, p)
      BY <3>1, <3>2, <3>3, <3>4 DEF Next
    <3>6. v = t
      BY <3>5 DEF Refuse
    <3>7. p = "critical"
      BY <3>5, <3>6 DEF Refuse
    <3>8. QED
      BY <3>5, <3>6, <3>7
  <2>2. PICK d \in Document : Refuse(t, d, "critical")
    BY <2>1
  <2>3. docOf'[t] = d /\ pending[d] >= Capacity /\ pending[d] \in Nat
    BY <2>2 DEF Refuse, Limit
  <2>4. ~(pending[d] <= StandardCapacity)
    BY <2>3, CapacityAssumption DEF StandardCapacity
  <2>5. PICK u \in Task : IsActive(u) /\ docOf[u] = d /\ priority[u] # "standard"
    BY <2>4 DEF SlotInv
  <2>6. priority[u] = "critical"
    BY <2>5 DEF Priority
  <2>7. QED
    BY <2>3, <2>5, <2>6 DEF Active
<1>2. QED
  BY <1>1, InductiveInvariant, PTL DEF Spec, CriticalSlotReserved

(***************************************************************************)
(* Ranks: a finite set in the order of a number of its elements            *)
(***************************************************************************)

Numbers(S, f) ==
  /\ \A t \in S : f[t] \in Nat
  /\ \A t, u \in S : f[t] = f[u] => t = u

\* The ranks of a finite set are the numbers up to its cardinality, each of
\* one element.
LEMMA Ranks ==
  ASSUME NEW S, NEW f, IsFiniteSet(S), Numbers(S, f)
  PROVE  /\ \A t \in S : Rank(S, f, t) \in 1 .. Cardinality(S)
         /\ \A t, u \in S : Rank(S, f, t) = Rank(S, f, u) => t = u
         /\ \A i \in 1 .. Cardinality(S) : \E t \in S : Rank(S, f, t) = i
<1>. DEFINE Below(t) == {u \in S : f[u] <= f[t]}
<1>1. ASSUME NEW t \in S
      PROVE  /\ IsFiniteSet(Below(t)) /\ Cardinality(Below(t)) \in 1 .. Cardinality(S)
             /\ t \in Below(t)
  <2>1. t \in Below(t) /\ Below(t) \in SUBSET S
    BY DEF Numbers
  <2>. HIDE DEF Below
  <2>2. IsFiniteSet(Below(t)) /\ Cardinality(Below(t)) <= Cardinality(S)
    BY <2>1, FS_Subset
  <2>3. Cardinality(Below(t)) \in Nat /\ Cardinality(S) \in Nat /\ Cardinality(Below(t)) # 0
    BY <2>1, <2>2, FS_CardinalityType, FS_EmptySet
  <2>. QED BY <2>1, <2>2, <2>3
<1>2. ASSUME NEW t \in S, NEW u \in S, f[t] < f[u]
      PROVE  Cardinality(Below(t)) < Cardinality(Below(u))
  <2>1. f[t] \in Nat /\ f[u] \in Nat
    BY DEF Numbers
  <2>2. Below(t) \in SUBSET Below(u) /\ u \in Below(u) /\ u \notin Below(t)
    BY <1>2, <2>1 DEF Numbers
  <2>. HIDE DEF Below
  <2>3. Cardinality(Below(t)) <= Cardinality(Below(u)) /\ Cardinality(Below(t)) # Cardinality(Below(u))
    BY <1>1, <2>2, FS_Subset
  <2>4. Cardinality(Below(t)) \in Nat /\ Cardinality(Below(u)) \in Nat
    BY <1>1
  <2>. QED BY <2>3, <2>4
<1>3. \A t \in S : Rank(S, f, t) = Cardinality(Below(t))
  BY DEF Rank
<1>. HIDE DEF Below
<1>4. \A t \in S : Rank(S, f, t) \in 1 .. Cardinality(S)
  BY <1>1, <1>3
<1>5. ASSUME NEW t \in S, NEW u \in S, Rank(S, f, t) = Rank(S, f, u)
      PROVE  t = u
  <2>1. f[t] \in Nat /\ f[u] \in Nat
    BY DEF Numbers
  <2>2. Cardinality(Below(t)) \in Nat /\ Cardinality(Below(t)) = Cardinality(Below(u))
    BY <1>1, <1>3, <1>5
  <2>3. ~(f[t] < f[u]) /\ ~(f[u] < f[t])
    BY <1>2, <2>2
  <2>. QED BY <2>1, <2>3 DEF Numbers
<1>6. ASSUME NEW i \in 1 .. Cardinality(S)
      PROVE  \E t \in S : Rank(S, f, t) = i
  <2>. DEFINE g == [t \in S |-> Rank(S, f, t)]
              T == 1 .. Cardinality(S)
  <2>1. g \in [S -> T] /\ \A t, u \in S : g[t] = g[u] => t = u
    BY <1>4, <1>5
  <2>2. g \in Injection(S, T)
    BY <2>1 DEF Injection, IsInjective
  <2>3. Cardinality(S) \in Nat
    BY FS_CardinalityType
  <2>4. IsFiniteSet(T) /\ Cardinality(T) = Cardinality(S)
    BY <2>3, FS_Interval
  <2>. HIDE DEF g
  <2>5. g \in Surjection(S, T)
    BY <2>2, <2>4, FS_Injection
  <2>6. \A j \in T : \E t \in S : g[t] = j
    BY <2>5 DEF Surjection
  <2>. QED BY <2>6 DEF g
<1>. QED BY <1>4, <1>5, <1>6

\* The sorted sequence has each element at its rank.
LEMMA SortedByRank ==
  ASSUME NEW S, NEW f, IsFiniteSet(S), Numbers(S, f)
  PROVE  /\ Cardinality(S) \in Nat
         /\ Sorted(S, f) \in [1 .. Cardinality(S) -> S]
         /\ \A i \in 1 .. Cardinality(S) : Rank(S, f, Sorted(S, f)[i]) = i
         /\ Sorted(S, f) \in Seq(S)
         /\ Len(Sorted(S, f)) = Cardinality(S)
<1>1. Cardinality(S) \in Nat
  BY FS_CardinalityType
<1>2. \A i \in 1 .. Cardinality(S) :
        /\ Sorted(S, f)[i] \in S
        /\ Rank(S, f, Sorted(S, f)[i]) = i
  <2>1. \A i \in 1 .. Cardinality(S) : \E t \in S : Rank(S, f, t) = i
    BY Ranks
  <2>. QED BY <2>1 DEF Sorted
<1>3. Sorted(S, f) \in [1 .. Cardinality(S) -> S]
  BY <1>2 DEF Sorted
<1>4. Sorted(S, f) \in Seq(S)
  BY <1>1, <1>3, IsASeq
<1>5. Len(Sorted(S, f)) = Cardinality(S)
  BY <1>1, <1>3, <1>4, LenProperties
<1>. QED BY <1>1, <1>2, <1>3, <1>4, <1>5

\* A sequence with each element at its rank is the sorted one.
LEMMA SortedIsUnique ==
  ASSUME NEW S, NEW f, IsFiniteSet(S), Numbers(S, f), NEW s \in Seq(S), Len(s) = Cardinality(S),
         \A i \in 1 .. Cardinality(S) : Rank(S, f, s[i]) = i
  PROVE  s = Sorted(S, f)
<1>. DEFINE z == Sorted(S, f)
<1>1. z \in Seq(S) /\ Len(z) = Cardinality(S) /\ Cardinality(S) \in Nat
  BY SortedByRank
<1>2. ASSUME NEW i \in 1 .. Len(s)
      PROVE  s[i] = z[i]
  <2>1. s[i] \in S /\ z[i] \in S /\ Rank(S, f, s[i]) = i /\ Rank(S, f, z[i]) = i
    BY <1>1, SortedByRank, ElementOfSeq
  <2>. QED BY <2>1, Ranks
<1>. HIDE DEF z
<1>3. s = z
  BY <1>1, <1>2, SeqEqual
<1>. QED BY <1>3 DEF z

\* Only the numbers of the elements count.
LEMMA SortedSame ==
  ASSUME NEW S, NEW f, NEW g, \A t \in S : f[t] = g[t]
  PROVE  Sorted(S, f) = Sorted(S, g)
<1>1. \A t \in S : Rank(S, f, t) = Rank(S, g, t)
  <2>. SUFFICES ASSUME NEW t \in S PROVE Rank(S, f, t) = Rank(S, g, t)
    OBVIOUS
  <2>1. {u \in S : f[u] <= f[t]} = {u \in S : g[u] <= g[t]}
    OBVIOUS
  <2>. QED BY <2>1 DEF Rank
<1>2. \A i : (CHOOSE t \in S : Rank(S, f, t) = i) = (CHOOSE t \in S : Rank(S, g, t) = i)
  BY <1>1
<1>. QED BY <1>2 DEF Sorted

\* An element whose number is above the others' comes last.
LEMMA SortedAppends ==
  ASSUME NEW S, NEW f, NEW t, IsFiniteSet(S), Numbers(S, f), t \notin S, f[t] \in Nat,
         \A u \in S : f[u] < f[t]
  PROVE  /\ Sorted(S \cup {t}, f) = Append(Sorted(S, f), t)
         /\ IsFiniteSet(S \cup {t}) /\ Cardinality(S \cup {t}) = Cardinality(S) + 1
<1>. DEFINE R == S \cup {t}
            z == Sorted(S, f)
            n == Cardinality(S)
<1>1. IsFiniteSet(R) /\ Cardinality(R) = n + 1 /\ n \in Nat
  BY FS_AddElement, FS_CardinalityType
<1>2. Numbers(R, f)
  BY DEF Numbers
<1>3. z \in [1 .. n -> S] /\ z \in Seq(S) /\ Len(z) = n /\ \A i \in 1 .. n : Rank(S, f, z[i]) = i
  BY SortedByRank
<1>4. Rank(R, f, t) = n + 1
  <2>1. {u \in R : f[u] <= f[t]} = R
    BY DEF Numbers
  <2>. QED BY <1>1, <2>1 DEF Rank
<1>5. ASSUME NEW u \in S
      PROVE  Rank(R, f, u) = Rank(S, f, u)
  <2>1. {v \in R : f[v] <= f[u]} = {v \in S : f[v] <= f[u]}
    BY DEF Numbers
  <2>. QED BY <2>1 DEF Rank
<1>. HIDE DEF z, n, R
<1>6. /\ Append(z, t) \in Seq(R) /\ Len(Append(z, t)) = n + 1
      /\ \A i \in 1 .. n : Append(z, t)[i] = z[i]
      /\ Append(z, t)[n + 1] = t
  <2>1. z \in Seq(R) /\ t \in R
    BY <1>1, <1>3, IsASeq DEF R
  <2>. QED BY <1>3, <2>1, AppendProperties
<1>7. ASSUME NEW i \in 1 .. Cardinality(R)
      PROVE  Rank(R, f, Append(z, t)[i]) = i
  <2>1. CASE i \in 1 .. n
    BY <1>3, <1>5, <1>6, <2>1
  <2>2. CASE i = n + 1
    BY <1>4, <1>6, <2>2
  <2>3. i \in 1 .. n + 1
    BY <1>1, <1>7
  <2>4. i \in 1 .. n \/ i = n + 1
    BY <1>1, <2>3
  <2>. QED BY <2>1, <2>2, <2>4
<1>8. Append(z, t) = Sorted(R, f)
  BY <1>1, <1>2, <1>6, <1>7, SortedIsUnique
<1>. QED BY <1>1, <1>8 DEF z, n, R

\* The element with the least number comes first, and leaves the others.
LEMMA SortedTail ==
  ASSUME NEW S, NEW f, IsFiniteSet(S), Numbers(S, f), NEW t \in S,
         \A u \in S : f[t] <= f[u]
  PROVE  Sorted(S, f) # <<>> /\ Sorted(S \ {t}, f) = Tail(Sorted(S, f))
<1>. DEFINE R == S \ {t}
            z == Sorted(S, f)
            n == Cardinality(R)
<1>1. IsFiniteSet(R) /\ Cardinality(S) = n + 1 /\ n \in Nat
  <2>1. IsFiniteSet(R) /\ n = Cardinality(S) - 1
    BY FS_RemoveElement
  <2>2. n \in Nat /\ Cardinality(S) \in Nat
    BY <2>1, FS_CardinalityType
  <2>. QED BY <2>1, <2>2
<1>2. Numbers(R, f)
  BY DEF Numbers
<1>3. /\ z \in [1 .. n + 1 -> S] /\ z \in Seq(S) /\ Len(z) = n + 1
      /\ \A i \in 1 .. n + 1 : Rank(S, f, z[i]) = i
  BY <1>1, SortedByRank
<1>4. Rank(S, f, t) = 1
  <2>1. {u \in S : f[u] <= f[t]} = {t}
    BY DEF Numbers
  <2>. QED BY <2>1, FS_Singleton DEF Rank
<1>5. ASSUME NEW u \in R
      PROVE  Rank(R, f, u) = Rank(S, f, u) - 1
  <2>. DEFINE A == {v \in S : f[v] <= f[u]}
  <2>1. IsFiniteSet(A) /\ t \in A
    BY FS_Subset DEF Numbers
  <2>2. {v \in R : f[v] <= f[u]} = A \ {t}
    OBVIOUS
  <2>3. Rank(S, f, u) = Cardinality(A) /\ Rank(R, f, u) = Cardinality(A \ {t})
    BY <2>2 DEF Rank
  <2>. HIDE DEF A
  <2>. QED BY <2>1, <2>3, FS_RemoveElement
<1>. HIDE DEF z, n, R
<1>6. z # <<>>
  BY <1>1, <1>3, EmptySeq
<1>7. /\ Tail(z) \in Seq(S) /\ Len(Tail(z)) = n
      /\ \A i \in 1 .. n : Tail(z)[i] = z[i + 1]
  BY <1>1, <1>3, <1>6, HeadTailProperties
<1>8. ASSUME NEW i \in 1 .. n
      PROVE  Tail(z)[i] \in R /\ Rank(R, f, Tail(z)[i]) = i
  <2>1. i + 1 \in 1 .. n + 1 /\ i + 1 # 1
    BY <1>1
  <2>2. Rank(S, f, z[i + 1]) = i + 1 /\ z[i + 1] \in S
    BY <1>3, <2>1
  <2>3. z[i + 1] \in R
    BY <1>4, <2>1, <2>2 DEF R
  <2>. QED BY <1>1, <1>5, <1>7, <2>2, <2>3
<1>9. Tail(z) \in Seq(R)
  <2>1. Tail(z) \in [1 .. n -> S]
    BY <1>7, LenProperties
  <2>2. Tail(z) \in [1 .. n -> R]
    BY <1>8, <2>1
  <2>3. n \in Nat /\ Seq(R) = UNION {[1 .. m -> R] : m \in Nat}
    BY <1>1, SeqDef
  <2>. HIDE DEF R
  <2>. QED BY <2>2, <2>3
<1>10. Tail(z) = Sorted(R, f)
  BY <1>1, <1>2, <1>7, <1>8, <1>9, SortedIsUnique DEF n
<1>. QED BY <1>6, <1>10 DEF z, R

(***************************************************************************)
(* The lines in the chain of promises                                      *)
(***************************************************************************)

\* Until a shutdown clears them the counters count what is outstanding.
CountInv ==
  generation = 0 => \A d \in Document : pending[d] = Cardinality(Active(d))

LineInv == IInv /\ CountInv

\* The outstanding tasks of a document are numbered by their tickets.
LEMMA LineFacts ==
  ASSUME LineInv, NEW d \in Document
  PROVE  /\ IsFiniteSet(Active(d)) /\ IsFiniteSet(Outstanding(d))
         /\ Numbers(Outstanding(d), ticket)
         /\ generation = 0 => Outstanding(d) = Active(d)
<1>1. IsFiniteSet(Active(d)) /\ IsFiniteSet(Outstanding(d))
  BY TaskAssumption, FS_Subset DEF Active, Outstanding
<1>2. Numbers(Outstanding(d), ticket)
  BY DEF Numbers, Outstanding, Active, LineInv, IInv, OrderInv, TicketsInv, Admitted, TypeOK
<1>3. generation = 0 => \A t \in Active(d) : born[t] = 0
  BY DEF Active, LineInv, IInv, OrderInv, TicketsInv, Admitted, TypeOK
<1>. QED BY <1>1, <1>2, <1>3 DEF Outstanding

\* Steps that leave the outstanding tasks alone.
LEMMA SameOutstanding ==
  ASSUME UNCHANGED <<docOf, born, ticket>>, \A t \in Task : IsActive(t)' <=> IsActive(t)
  PROVE  \A d : /\ Active(d)' = Active(d) /\ Outstanding(d)' = Outstanding(d)
                /\ Sorted(Outstanding(d), ticket)' = Sorted(Outstanding(d), ticket)
<1>1. \A d : Active(d)' = Active(d)
  BY DEF Active
<1>2. \A d : Outstanding(d)' = Outstanding(d)
  BY <1>1 DEF Outstanding
<1>3. \A d : Sorted(Outstanding(d), ticket)' = Sorted(Outstanding(d)', ticket)
  BY DEF Sorted, Rank
<1>. QED BY <1>1, <1>2, <1>3

\* A task is admitted behind all that is outstanding.
LEMMA AdmitLines ==
  ASSUME LineInv, NEW t \in Task, NEW d \in Document, NEW p \in Priority, Admit(t, d, p)
  PROVE  /\ t \notin Active(d) /\ Active(d)' = Active(d) \cup {t}
         /\ \A e \in Document \ {d} : Active(e)' = Active(e)
         /\ \A e \in Document \ {d} :
              Sorted(Outstanding(e), ticket)' = Sorted(Outstanding(e), ticket)
         /\ generation = 0 =>
              Sorted(Outstanding(d), ticket)' = Append(Sorted(Outstanding(d), ticket), t)
         /\ generation # 0 =>
              Sorted(Outstanding(d), ticket)' = Sorted(Outstanding(d), ticket)
<1>1. /\ \A u \in Task \ {t} : /\ status'[u] = status[u] /\ docOf'[u] = docOf[u]
                               /\ born'[u] = born[u] /\ ticket'[u] = ticket[u]
      /\ status[t] = "new" /\ status'[t] = "waiting" /\ docOf'[t] = d
      /\ born'[t] = generation /\ ticket'[t] = clock + 1 /\ clock \in Nat
  BY DEF Admit, LineInv, IInv, TypeOK
<1>2. t \notin Active(d) /\ Active(d)' = Active(d) \cup {t}
  BY <1>1 DEF Active, IsActive
<1>3. \A e \in Document \ {d} : t \notin Active(e) /\ Active(e)' = Active(e)
  BY <1>1 DEF Active, IsActive
<1>4. \A e \in Document \ {d} : t \notin Outstanding(e) /\ Outstanding(e)' = Outstanding(e)
  BY <1>1, <1>3 DEF Outstanding, Active
<1>5. \A e \in Document : \A u \in Outstanding(e) : ticket'[u] = ticket[u] /\ u # t
  BY <1>1 DEF Outstanding, Active, IsActive
<1>6. \A e \in Document : Sorted(Outstanding(e), ticket') = Sorted(Outstanding(e), ticket)
  BY <1>5, SortedSame
<1>7. \A e \in Document \ {d} : Sorted(Outstanding(e), ticket)' = Sorted(Outstanding(e), ticket)
  <2>1. \A e \in Document \ {d} :
          Sorted(Outstanding(e), ticket)' = Sorted(Outstanding(e)', ticket')
    BY DEF Sorted, Rank
  <2>. QED BY <1>4, <1>6, <2>1
<1>. DEFINE S == Outstanding(d)
<1>8. Sorted(S, ticket)' = Sorted(S', ticket')
  BY DEF Sorted, Rank
<1>9. generation # 0 => S' = S
  BY <1>1, <1>2 DEF Outstanding, Active
<1>10. generation = 0 => S' = S \cup {t}
  BY <1>1, <1>2 DEF Outstanding, Active
<1>11. \A u \in S : ticket'[u] \in Nat /\ ticket'[u] < ticket'[t]
  BY <1>1, <1>5 DEF Outstanding, Active, LineInv, IInv, OrderInv, TicketsInv, Admitted, TypeOK
<1>12. IsFiniteSet(S) /\ Numbers(S, ticket') /\ t \notin S /\ ticket'[t] \in Nat
  <2>1. IsFiniteSet(S) /\ Numbers(S, ticket)
    BY LineFacts
  <2>2. Numbers(S, ticket')
    BY <1>5, <2>1 DEF Numbers
  <2>. QED BY <1>1, <1>5, <2>1, <2>2
<1>. HIDE DEF S
<1>13. Sorted(S \cup {t}, ticket') = Append(Sorted(S, ticket'), t)
  <2>1. PICK f : f = ticket'
    OBVIOUS
  <2>2. IsFiniteSet(S) /\ Numbers(S, f)
    BY <1>12, <2>1
  <2>3. t \notin S /\ f[t] \in Nat
    BY <1>12, <2>1
  <2>4. \A u \in S : f[u] < f[t]
    BY <1>11, <2>1
  <2>5. Sorted(S \cup {t}, f) = Append(Sorted(S, f), t)
    BY <2>2, <2>3, <2>4, SortedAppends
  <2>. QED BY <2>1, <2>5
<1>14. Sorted(S, ticket') = Sorted(S, ticket)
  BY <1>6 DEF S
<1>. QED BY <1>2, <1>3, <1>7, <1>8, <1>9, <1>10, <1>13, <1>14 DEF S

\* A task that ends was the first of its line.
LEMMA FinishLines ==
  ASSUME LineInv, NEW t \in Task, NEW o \in {"resolved", "rejected"}, Finish(t, o),
         NEW d, d = docOf[t]
  PROVE  /\ d \in Document
         /\ t \in Active(d) /\ Active(d)' = Active(d) \ {t}
         /\ \A e \in Document \ {d} : Active(e)' = Active(e)
         /\ \A e \in Document \ {d} :
              Sorted(Outstanding(e), ticket)' = Sorted(Outstanding(e), ticket)
         /\ born[t] = 0 =>
              /\ Sorted(Outstanding(d), ticket) # <<>>
              /\ Sorted(Outstanding(d), ticket)' = Tail(Sorted(Outstanding(d), ticket))
         /\ born[t] # 0 =>
              Sorted(Outstanding(d), ticket)' = Sorted(Outstanding(d), ticket)
<1>1. /\ \A u \in Task \ {t} : status'[u] = status[u]
      /\ status[t] = "running" /\ status'[t] = o
      /\ UNCHANGED <<docOf, born, ticket>>
  BY DEF Finish, LineInv, IInv, TypeOK
<1>2. d \in Document
  BY <1>1 DEF LineInv, IInv, TypeOK
<1>3. t \in Active(d) /\ Active(d)' = Active(d) \ {t}
  BY <1>1 DEF Active, IsActive
<1>4. \A e \in Document \ {d} : Active(e)' = Active(e)
  BY <1>1 DEF Active, IsActive
<1>5. \A e \in Document \ {d} : Outstanding(e)' = Outstanding(e)
  BY <1>1, <1>4 DEF Outstanding
<1>6. \A e : Sorted(Outstanding(e), ticket)' = Sorted(Outstanding(e)', ticket)
  BY <1>1 DEF Sorted, Rank
<1>. DEFINE S == Outstanding(d)
<1>7. born[t] # 0 => S' = S
  BY <1>1, <1>3 DEF Outstanding
<1>8. born[t] = 0 => S' = S \ {t} /\ t \in S
  BY <1>1, <1>3 DEF Outstanding
<1>9. ASSUME born[t] = 0, NEW u \in S
      PROVE  ticket[t] <= ticket[u]
  <2>1. SameLine(t, u) /\ IsActive(u) /\ u \in Task
    BY <1>9 DEF SameLine, Outstanding, Active
  <2>. QED BY <1>1, <2>1 DEF LineInv, IInv, OrderInv, ServedInOrder
<1>10. IsFiniteSet(S) /\ Numbers(S, ticket)
  BY <1>2, LineFacts
<1>. HIDE DEF S
<1>11. born[t] = 0 => Sorted(S, ticket) # <<>> /\ Sorted(S \ {t}, ticket) = Tail(Sorted(S, ticket))
  BY <1>8, <1>9, <1>10, SortedTail
<1>. QED BY <1>2, <1>3, <1>4, <1>5, <1>6, <1>7, <1>8, <1>11 DEF S

\* The counters are right until the first shutdown.
LEMMA CountStep ==
  ASSUME LineInv, [Next]_vars
  PROVE  CountInv'
<1>1. ASSUME NEW t \in Task, NEW d \in Document, NEW p \in Priority, Admit(t, d, p)
      PROVE  CountInv'
  <2>1. /\ t \notin Active(d) /\ Active(d)' = Active(d) \cup {t}
        /\ \A e \in Document \ {d} : Active(e)' = Active(e)
    BY <1>1, AdmitLines
  <2>2. pending' = [pending EXCEPT ![d] = @ + 1] /\ generation' = generation
    BY <1>1 DEF Admit
  <2>3. IsFiniteSet(Active(d))
    BY LineFacts
  <2>4. Cardinality(Active(d) \cup {t}) = Cardinality(Active(d)) + 1
    BY <2>1, <2>3, FS_AddElement
  <2>5. pending \in [Document -> Nat]
    BY DEF LineInv, IInv, TypeOK
  <2>. QED BY <2>1, <2>2, <2>4, <2>5 DEF LineInv, CountInv
<1>2. ASSUME NEW t \in Task, NEW o \in {"resolved", "rejected"}, Finish(t, o)
      PROVE  CountInv'
  <2>. DEFINE d == docOf[t]
  <2>1. /\ d \in Document /\ t \in Active(d) /\ Active(d)' = Active(d) \ {t}
        /\ \A e \in Document \ {d} : Active(e)' = Active(e)
    <3>1. \A e : e = docOf[t] => /\ e \in Document
                                 /\ t \in Active(e) /\ Active(e)' = Active(e) \ {t}
                                 /\ \A f \in Document \ {e} : Active(f)' = Active(f)
      BY <1>2, FinishLines
    <3>2. docOf' = docOf
      BY <1>2 DEF Finish
    <3>. QED BY <3>1, <3>2
  <2>2. pending' = [pending EXCEPT ![d] = CountDown(@)] /\ generation' = generation
    BY <1>2 DEF Finish
  <2>3. IsFiniteSet(Active(d))
    BY <2>1, LineFacts
  <2>4. Cardinality(Active(d) \ {t}) = Cardinality(Active(d)) - 1 /\ Cardinality(Active(d)) \in Nat
    BY <2>1, <2>3, FS_RemoveElement, FS_CardinalityType
  <2>5. Cardinality(Active(d)) # 0
    BY <2>1, <2>3, FS_EmptySet
  <2>6. pending \in [Document -> Nat]
    BY DEF LineInv, IInv, TypeOK
  <2>7. docOf' = docOf
    BY <1>2 DEF Finish
  <2>8. ASSUME generation' = 0, NEW e \in Document
        PROVE  pending'[e] = Cardinality(Active(e)')
    <3>1. CASE e = d
      <4>1. pending[d] = Cardinality(Active(d)) /\ pending'[d] = CountDown(pending[d])
        BY <2>1, <2>2, <2>6, <2>8 DEF LineInv, CountInv
      <4>2. CountDown(pending[d]) = pending[d] - 1
        BY <2>4, <2>5, <4>1 DEF CountDown
      <4>3. Active(e)' = Active(d) \ {t}
        BY <2>1, <2>7, <3>1
      <4>. QED BY <2>4, <3>1, <4>1, <4>2, <4>3
    <3>2. CASE e # d
      BY <2>1, <2>2, <2>6, <2>8, <3>2 DEF LineInv, CountInv
    <3>. QED BY <3>1, <3>2
  <2>. QED BY <2>8 DEF CountInv
<1>3. ASSUME UNCHANGED <<docOf, born, ticket, pending, generation>>,
             \A t \in Task : IsActive(t)' <=> IsActive(t)
      PROVE  CountInv'
  BY <1>3, SameOutstanding DEF LineInv, CountInv
<1>4. ASSUME NEW t \in Task, NEW d \in Document, NEW p \in Priority, Refuse(t, d, p)
      PROVE  CountInv'
  <2>1. \A e \in Document : Active(e)' = Active(e)
    BY <1>4 DEF Refuse, Active, IsActive, LineInv, IInv, TypeOK
  <2>. QED BY <1>4, <2>1 DEF Refuse, LineInv, CountInv
<1>5. ASSUME NEW t \in Task, Start(t)
      PROVE  CountInv'
  BY <1>3, <1>5 DEF Start, IsActive, LineInv, IInv, TypeOK
<1>6. CASE Shutdown
  <2>1. generation' # 0
    BY <1>6 DEF Shutdown, LineInv, IInv, TypeOK
  <2>. QED BY <2>1 DEF CountInv
<1>7. CASE UNCHANGED vars
  BY <1>3, <1>7 DEF vars, IsActive
<1>. QED BY <1>1, <1>2, <1>4, <1>5, <1>6, <1>7 DEF Next

\* The invariant of the chain, and what the counters count, of every state.
LEMMA LineInvariant == Spec => []LineInv
<1>1. Init => CountInv
  <2>1. Init => \A d : Active(d) = {}
    BY DEF Init, Active, IsActive
  <2>. QED BY <2>1, FS_EmptySet DEF Init, CountInv
<1>2. LineInv /\ [Next]_vars => CountInv'
  BY CountStep
<1>. QED BY <1>1, <1>2, InductiveInvariant, PTL DEF Spec, LineInv

\* The documents whose head is served are told by the only task that runs.
LEMMA ServedAlone ==
  ASSUME IInv, NEW t \in Task, NEW u \in Task, status[t] = "running", status[u] = "running",
         docOf[t] = docOf[u], born[t] = born[u]
  PROVE  t = u
<1>1. ticket[t] <= ticket[u] /\ ticket[u] <= ticket[t] /\ Admitted(t) /\ Admitted(u)
  BY DEF IInv, OrderInv, ServedInOrder, SameLine, IsActive, Admitted
<1>2. ticket[t] = ticket[u]
  BY <1>1 DEF IInv, TypeOK
<1>. QED BY <1>1, <1>2 DEF IInv, OrderInv, TicketsInv

\* In the words of the property.
LEMMA NoneBeside == IInv => MutualExclusion
BY ServedAlone DEF MutualExclusion, SameLine

Served == {d \in Document : \E t \in Outstanding(d) : status[t] = "running"}
Uncalled == {t \in Task : status[t] = "new" \/ born[t] > 0}
AllLines == [d \in Document |-> Sorted(Outstanding(d), ticket)]

\* The variables of the lines, in the names above.
LEMMA LinesAre ==
  /\ Lines!lineVars = <<AllLines, Served, Uncalled>>
  /\ Lines!lineVars' = <<AllLines', Served', Uncalled'>>
  /\ \A t, d : Lines!Enter(t, d) <=>
       /\ t \in Uncalled /\ Len(AllLines[d]) < Capacity
       /\ AllLines' = [AllLines EXCEPT ![d] = Append(@, t)]
       /\ Uncalled' = Uncalled \ {t} /\ Served' = Served
  /\ \A t, d : Lines!TurnAway(t, d) <=>
       /\ t \in Uncalled /\ AllLines[d] # <<>> /\ Uncalled' = Uncalled \ {t}
       /\ AllLines' = AllLines /\ Served' = Served
  /\ \A d : Lines!Serve(d) <=>
       /\ AllLines[d] # <<>> /\ d \notin Served /\ Served' = Served \cup {d}
       /\ AllLines' = AllLines /\ Uncalled' = Uncalled
  /\ \A d : Lines!Depart(d) <=>
       /\ d \in Served /\ Served' = Served \ {d}
       /\ AllLines' = [AllLines EXCEPT ![d] = Tail(@)] /\ Uncalled' = Uncalled
BY DEF Lines!lineVars, Lines!Enter, Lines!TurnAway, Lines!Serve, Lines!Depart, AllLines, Served,
       Uncalled

\* Who is served changes with the tasks that run.
LEMMA ServedSame ==
  ASSUME \A t \in Task : /\ (status'[t] = "running" <=> status[t] = "running")
                         /\ status[t] = "running" => /\ docOf'[t] = docOf[t]
                                                     /\ born'[t] = born[t]
  PROVE  Served' = Served
BY DEF Served, Outstanding, Active, IsActive

\* Admission enters the line; after a shutdown it is not seen by the lines.
LEMMA AdmitRefines ==
  ASSUME LineInv, NEW t \in Task, NEW d \in Document, NEW p \in Priority, Admit(t, d, p)
  PROVE  Lines!Enter(t, d) \/ UNCHANGED Lines!lineVars
<1>1. /\ \A u \in Task \ {t} : status'[u] = status[u] /\ docOf'[u] = docOf[u] /\ born'[u] = born[u]
      /\ status[t] = "new" /\ status'[t] = "waiting" /\ born'[t] = generation
      /\ generation \in Nat
  BY DEF Admit, LineInv, IInv, TypeOK
<1>2. Served' = Served
  BY <1>1, ServedSame
<1>3. /\ t \in Uncalled
      /\ generation = 0 => Uncalled' = Uncalled \ {t}
      /\ generation # 0 => Uncalled' = Uncalled
  BY <1>1 DEF Uncalled
<1>4. AllLines' = [e \in Document |-> Sorted(Outstanding(e), ticket)']
  BY DEF AllLines
<1>5. generation # 0 => AllLines' = AllLines
  <2>1. generation # 0 => \A e \in Document :
          Sorted(Outstanding(e), ticket)' = Sorted(Outstanding(e), ticket)
    BY AdmitLines
  <2>. QED BY <1>4, <2>1 DEF AllLines
<1>6. CASE generation = 0
  <2>1. /\ Sorted(Outstanding(d), ticket)' = Append(Sorted(Outstanding(d), ticket), t)
        /\ \A e \in Document \ {d} :
              Sorted(Outstanding(e), ticket)' = Sorted(Outstanding(e), ticket)
    BY <1>6, AdmitLines
  <2>2. AllLines' = [AllLines EXCEPT ![d] = Append(@, t)]
    BY <1>4, <2>1 DEF AllLines
  <2>3. Len(AllLines[d]) = Cardinality(Outstanding(d))
    BY LineFacts, SortedByRank DEF AllLines
  <2>4. Cardinality(Outstanding(d)) = pending[d]
    BY <1>6, LineFacts DEF LineInv, CountInv
  <2>5. pending[d] < Limit(p) /\ pending[d] \in Nat /\ Limit(p) \in Nat /\ Limit(p) <= Capacity
    BY CapacityAssumption DEF Admit, LineInv, IInv, TypeOK, Limit, StandardCapacity
  <2>6. Len(AllLines[d]) < Capacity
    BY <2>3, <2>4, <2>5, CapacityAssumption
  <2>. QED BY <1>2, <1>3, <1>6, <2>2, <2>6, LinesAre
<1>7. CASE generation # 0
  BY <1>2, <1>3, <1>5, <1>7, LinesAre
<1>. QED BY <1>6, <1>7

\* A refusal turns away from a line that is not empty.
LEMMA RefuseRefines ==
  ASSUME LineInv, NEW t \in Task, NEW d \in Document, NEW p \in Priority, Refuse(t, d, p)
  PROVE  Lines!TurnAway(t, d) \/ UNCHANGED Lines!lineVars
<1>1. /\ \A u \in Task \ {t} : status'[u] = status[u] /\ docOf'[u] = docOf[u] /\ born'[u] = born[u]
      /\ status[t] = "new" /\ status'[t] = "refused" /\ born'[t] = generation
      /\ generation \in Nat /\ ticket' = ticket
  BY DEF Refuse, LineInv, IInv, TypeOK
<1>2. Served' = Served
  BY <1>1, ServedSame
<1>3. /\ t \in Uncalled
      /\ generation = 0 => Uncalled' = Uncalled \ {t}
      /\ generation # 0 => Uncalled' = Uncalled
  BY <1>1 DEF Uncalled
<1>4. \A e : Outstanding(e)' = Outstanding(e)
  BY <1>1 DEF Outstanding, Active, IsActive
<1>5. AllLines' = AllLines
  <2>1. \A e : Sorted(Outstanding(e), ticket)' = Sorted(Outstanding(e)', ticket)
    BY <1>1 DEF Sorted, Rank
  <2>. QED BY <1>4, <2>1 DEF AllLines
<1>6. CASE generation = 0
  <2>1. pending[d] = Cardinality(Outstanding(d))
    BY <1>6, LineFacts DEF LineInv, CountInv
  <2>2. pending[d] \in Nat /\ Limit(p) \in Nat /\ pending[d] >= Limit(p) /\ Limit(p) >= 1
    BY CapacityAssumption DEF Refuse, LineInv, IInv, TypeOK, Limit, StandardCapacity
  <2>3. Len(AllLines[d]) = Cardinality(Outstanding(d))
    BY LineFacts, SortedByRank DEF AllLines
  <2>4. Len(AllLines[d]) # 0
    BY <2>1, <2>2, <2>3
  <2>5. AllLines[d] # <<>>
    BY <2>4, EmptySeq
  <2>. QED BY <1>2, <1>3, <1>5, <1>6, <2>5, LinesAre
<1>7. CASE generation # 0
  BY <1>2, <1>3, <1>5, <1>7, LinesAre
<1>. QED BY <1>6, <1>7

\* A task that starts is the head of a line that nobody serves.
LEMMA StartRefines ==
  ASSUME LineInv, LineInv', NEW t \in Task, Start(t)
  PROVE  (\E d \in Document : Lines!Serve(d)) \/ UNCHANGED Lines!lineVars
<1>1. /\ \A u \in Task \ {t} : status'[u] = status[u]
      /\ status[t] = "waiting" /\ status'[t] = "running"
      /\ UNCHANGED <<docOf, born, ticket>>
  BY DEF Start, LineInv, IInv, TypeOK
<1>2. \A u \in Task : IsActive(u)' <=> IsActive(u)
  BY <1>1 DEF IsActive
<1>3. AllLines' = AllLines /\ \A d : Outstanding(d)' = Outstanding(d)
  BY <1>1, <1>2, SameOutstanding DEF AllLines
<1>4. Uncalled' = Uncalled
  BY <1>1 DEF Uncalled
<1>5. CASE born[t] # 0
  <2>1. \A d : t \notin Outstanding(d)
    BY <1>5 DEF Outstanding
  <2>2. Served' = Served
    <3>1. ASSUME NEW d, NEW u \in Outstanding(d)
          PROVE  status'[u] = status[u]
      BY <1>1, <2>1 DEF Outstanding, Active
    <3>. QED BY <1>3, <3>1 DEF Served
  <2>. QED BY <1>3, <1>4, <2>2, LinesAre
<1>6. CASE born[t] = 0
  <2>. DEFINE d == docOf[t]
  <2>1. d \in Document /\ t \in Outstanding(d)
    BY <1>1, <1>6 DEF Outstanding, Active, IsActive, LineInv, IInv, TypeOK
  <2>2. d \notin Served
    <3>. SUFFICES ASSUME NEW u \in Outstanding(d), status[u] = "running"
                  PROVE  FALSE
      BY DEF Served
    <3>1. u \in Task /\ docOf[u] = docOf[t] /\ born[u] = born[t] /\ u # t
      BY <1>1, <1>6 DEF Outstanding, Active
    <3>2. status'[u] = "running" /\ docOf'[u] = docOf'[t] /\ born'[u] = born'[t]
      BY <1>1, <3>1
    <3>3. MutualExclusion'
      <4>1. IInv'
        BY DEF LineInv
      <4>. QED BY <4>1, NoneBeside, PTL
    <3>. QED BY <1>1, <3>1, <3>2, <3>3 DEF MutualExclusion, SameLine
  <2>3. Served' = Served \cup {d}
    <3>1. ASSUME NEW e \in Document
          PROVE  e \in Served' <=> e \in Served \cup {d}
      <4>1. \A u \in Outstanding(e) : u # t => status'[u] = status[u]
        BY <1>1 DEF Outstanding, Active
      <4>2. t \in Outstanding(e) <=> e = d
        BY <2>1 DEF Outstanding, Active
      <4>3. e \in Served' <=> \E u \in Outstanding(e) : status'[u] = "running"
        BY <1>3 DEF Served
      <4>4. e \in Served <=> \E u \in Outstanding(e) : status[u] = "running"
        BY DEF Served
      <4>. QED BY <1>1, <4>1, <4>2, <4>3, <4>4
    <3>2. Served \subseteq Document /\ Served' \subseteq Document
      BY DEF Served
    <3>. QED BY <2>1, <3>1, <3>2
  <2>4. AllLines[d] # <<>>
    <3>1. Len(AllLines[d]) = Cardinality(Outstanding(d)) /\ IsFiniteSet(Outstanding(d))
      BY <2>1, LineFacts, SortedByRank DEF AllLines
    <3>2. Len(AllLines[d]) # 0
      BY <2>1, <3>1, FS_EmptySet
    <3>. QED BY <3>2, EmptySeq
  <2>. HIDE DEF d
  <2>. QED BY <1>3, <1>4, <2>1, <2>2, <2>3, <2>4, LinesAre
<1>. QED BY <1>5, <1>6

\* A task that ends, however it ends, departs from the head of its line.
LEMMA FinishRefines ==
  ASSUME LineInv, NEW t \in Task, NEW o \in {"resolved", "rejected"}, Finish(t, o)
  PROVE  (\E d \in Document : Lines!Depart(d)) \/ UNCHANGED Lines!lineVars
<1>1. /\ \A u \in Task \ {t} : status'[u] = status[u]
      /\ status[t] = "running" /\ status'[t] = o
      /\ UNCHANGED <<docOf, born, ticket>>
  BY DEF Finish, LineInv, IInv, TypeOK
<1>2. Uncalled' = Uncalled
  BY <1>1 DEF Uncalled
<1>3. PICK d : d = docOf[t]
  OBVIOUS
<1>4. /\ d \in Document
      /\ \A e \in Document \ {d} :
              Sorted(Outstanding(e), ticket)' = Sorted(Outstanding(e), ticket)
      /\ born[t] = 0 =>
              /\ Sorted(Outstanding(d), ticket) # <<>>
              /\ Sorted(Outstanding(d), ticket)' = Tail(Sorted(Outstanding(d), ticket))
      /\ born[t] # 0 =>
              Sorted(Outstanding(d), ticket)' = Sorted(Outstanding(d), ticket)
  BY <1>3, FinishLines
<1>5. AllLines' = [e \in Document |-> Sorted(Outstanding(e), ticket)']
  BY DEF AllLines
<1>6. \A e : \A u : (u \in Outstanding(e)' /\ status'[u] = "running") <=>
                    (u \in Outstanding(e) /\ status[u] = "running" /\ u # t)
  BY <1>1 DEF Outstanding, Active, IsActive
<1>7. CASE born[t] # 0
  <2>1. AllLines' = AllLines
    BY <1>4, <1>5, <1>7 DEF AllLines
  <2>2. \A e : t \notin Outstanding(e)
    BY <1>7 DEF Outstanding
  <2>3. Served' = Served
    BY <1>6, <2>2 DEF Served
  <2>. QED BY <1>2, <2>1, <2>3, LinesAre
<1>8. CASE born[t] = 0
  <2>1. AllLines' = [AllLines EXCEPT ![d] = Tail(@)]
    BY <1>4, <1>5, <1>8 DEF AllLines
  <2>2. t \in Outstanding(d)
    BY <1>1, <1>3, <1>8 DEF Outstanding, Active, IsActive
  <2>3. d \in Served
    BY <1>1, <1>4, <2>2 DEF Served
  <2>4. ASSUME NEW e, NEW u \in Outstanding(e), status[u] = "running"
        PROVE  e = d <=> u = t
    BY <1>1, <1>3, <1>8, <2>4, ServedAlone DEF Outstanding, Active, LineInv
  <2>5. Served' = Served \ {d}
    BY <1>6, <2>4 DEF Served
  <2>. QED BY <1>2, <1>4, <2>1, <2>3, <2>5, LinesAre
<1>. QED BY <1>7, <1>8

\* The chain of promises is a bounded line for each document, served from its
\* head, one call at a time and to its end, also through a shutdown: whatever
\* fails, nothing overtakes, overlaps or is lost.
THEOREM ChainsAreLines == Spec => Lines!SafeSpec
<1>1. Init => Lines!Init
  <2>. SUFFICES ASSUME Init PROVE Lines!Init
    OBVIOUS
  <2>1. \A d : Outstanding(d) = {}
    BY DEF Init, Outstanding, Active, IsActive
  <2>2. \A d : Sorted(Outstanding(d), ticket) = <<>>
    <3>1. IsFiniteSet({}) /\ Cardinality({}) = 0 /\ Numbers({}, ticket)
      BY FS_EmptySet DEF Numbers
    <3>2. Sorted({}, ticket) \in Seq({}) /\ Len(Sorted({}, ticket)) = 0
      BY <3>1, SortedByRank
    <3>3. Sorted({}, ticket) = <<>>
      BY <3>2, EmptySeq
    <3>. QED BY <2>1, <3>3
  <2>3. \A t \in Task : status[t] = "new"
    BY DEF Init
  <2>. QED BY <2>1, <2>2, <2>3 DEF Lines!Init
<1>2. ASSUME LineInv, LineInv', [Next]_vars
      PROVE  [Lines!Next]_Lines!lineVars
  <2>1. ASSUME NEW t \in Task, NEW d \in Document, NEW p \in Priority,
               Admit(t, d, p) \/ Refuse(t, d, p)
        PROVE  Lines!Enter(t, d) \/ Lines!TurnAway(t, d) \/ UNCHANGED Lines!lineVars
    BY <1>2, <2>1, AdmitRefines, RefuseRefines
  <2>2. ASSUME NEW t \in Task, Start(t)
        PROVE  (\E d \in Document : Lines!Serve(d)) \/ UNCHANGED Lines!lineVars
    BY <1>2, <2>2, StartRefines
  <2>3. ASSUME NEW t \in Task, NEW o \in {"resolved", "rejected"}, Finish(t, o)
        PROVE  (\E d \in Document : Lines!Depart(d)) \/ UNCHANGED Lines!lineVars
    BY <1>2, <2>3, FinishRefines
  <2>4. CASE Shutdown \/ UNCHANGED vars
    <3>1. UNCHANGED <<status, docOf, born, ticket>>
      BY <2>4 DEF Shutdown, vars
    <3>2. AllLines' = AllLines /\ Served' = Served /\ Uncalled' = Uncalled
      BY <3>1, SameOutstanding, ServedSame DEF AllLines, Uncalled, IsActive
    <3>. QED BY <3>2, LinesAre
  <2>. QED BY <1>2, <2>1, <2>2, <2>3, <2>4 DEF Next, Lines!Next
<1>. QED BY <1>1, <1>2, LineInvariant, PTL DEF Spec, Lines!SafeSpec

=============================================================================
