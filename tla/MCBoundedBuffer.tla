-------------------------- MODULE MCBoundedBuffer --------------------------
(* The programs for TLC: cond.cpp at its own size; the threads of           *)
(* multiple_cons_work.cpp (two producers, three consumers) with room for    *)
(* two of four items.                                                       *)
EXTENDS BoundedBuffer, TLC

CONSTANTS p1, p2, k1, k2, k3, cv, cv_producer, cv_consumer

Cond ==
  [producers |-> {p1}, consumers |-> {k1}, MAXBUFF |-> 5, share |-> p1 :> 10,
   quota |-> 10, cvs |-> [producer |-> cv, consumer |-> cv]]

MultipleConsWork ==
  [producers |-> {p1, p2}, consumers |-> {k1, k2, k3}, MAXBUFF |-> 2,
   share |-> p1 :> 2 @@ p2 :> 2, quota |-> Forever,
   cvs |-> [producer |-> cv_producer, consumer |-> cv_consumer]]

MCPrograms == {Cond, MultipleConsWork}
=============================================================================
