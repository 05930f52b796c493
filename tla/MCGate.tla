------------------------------- MODULE MCGate -------------------------------
(* The programs for TLC: cond1.cpp with four of its ten threads, worker.cpp *)
(* with its one.                                                            *)
EXTENDS Gate

CONSTANTS w1, w2, w3, w4

Cond1 == [workers |-> {w1, w2, w3, w4}, announces |-> TRUE, answers |-> FALSE]
Worker == [workers |-> {w1}, announces |-> FALSE, answers |-> TRUE]

MCPrograms == {Cond1, Worker}
=============================================================================
