---------------------------- MODULE MCDoneQueue ----------------------------
(* Values for TLC: two producers and two consumers, as in main.             *)
EXTENDS DoneQueue

CONSTANTS p1, p2, k1, k2

MCProducers == {p1, p2}
MCConsumers == {k1, k2}
=============================================================================
