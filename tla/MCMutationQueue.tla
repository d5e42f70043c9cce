-------------------------- MODULE MCMutationQueue --------------------------
(***************************************************************************)
(* Model checking of MutationQueue, and of its refinement of DocumentLine. *)
(***************************************************************************)
EXTENDS MutationQueue

\* Tasks and documents are numbers, and interchangeable: it is enough to look
\* at the behaviours in which they are used in the order of their numbers.
UsedInOrder ==
  /\ \A t, u \in Task : t < u /\ status[u] # "new" => status[t] # "new"
  /\ \A t \in Task : docOf[t] # None => \A d \in Document :
       d < docOf[t] => \E u \in Task : u < t /\ docOf[u] = d
=============================================================================
