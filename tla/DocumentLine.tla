---------------------------- MODULE DocumentLine ----------------------------
(***************************************************************************)
(* What the collaboration code expects of the mutation queue: one bounded  *)
(* first-in first-out line per document, the head of which is served alone *)
(* and to its end.                                                         *)
(***************************************************************************)
EXTENDS Naturals, Sequences

CONSTANTS Task, Document, Capacity

VARIABLES
  line,     \* line[d]: the calls outstanding on document d, oldest first
  serving,  \* the documents whose head is being served
  outside   \* the calls that have not been made yet

lineVars == <<line, serving, outside>>

Init ==
  /\ line = [d \in Document |-> <<>>]
  /\ serving = {}
  /\ outside = Task

Enter(t, d) ==
  /\ t \in outside
  /\ Len(line[d]) < Capacity
  /\ line' = [line EXCEPT ![d] = Append(@, t)]
  /\ outside' = outside \ {t}
  /\ UNCHANGED serving

TurnAway(t, d) ==
  /\ t \in outside
  /\ line[d] # <<>>
  /\ outside' = outside \ {t}
  /\ UNCHANGED <<line, serving>>

Serve(d) ==
  /\ line[d] # <<>>
  /\ d \notin serving
  /\ serving' = serving \cup {d}
  /\ UNCHANGED <<line, outside>>

Depart(d) ==
  /\ d \in serving
  /\ serving' = serving \ {d}
  /\ line' = [line EXCEPT ![d] = Tail(@)]
  /\ UNCHANGED outside

Next ==
  \E d \in Document :
    \/ \E t \in Task : Enter(t, d) \/ TurnAway(t, d)
    \/ Serve(d)
    \/ Depart(d)

Fairness == \A d \in Document : WF_lineVars(Serve(d)) /\ WF_lineVars(Depart(d))

\* What the line does, and that it goes on.
SafeSpec == Init /\ [][Next]_lineVars
Spec == SafeSpec /\ Fairness
=============================================================================
