---------------------------- MODULE MCThreadPool ----------------------------
(* Values for TLC.  The tasks of "TEST 1" in scheduler/src/main.cpp, scaled *)
(* down: two that start together with different priorities, and one that    *)
(* is due at once.                                                          *)
EXTENDS ThreadPool, TLC

CONSTANTS w1, w2, w3, t1, t2, t3

MCWorkers2 == {w1, w2}
MCWorkers3 == {w1, w2, w3}
MCTasks2 == {t1, t2}
MCTasks3 == {t1, t2, t3}
MCStart2 == t1 :> 1 @@ t2 :> 1
MCPriority2 == t1 :> 2 @@ t2 :> 1
MCStart3 == t1 :> 1 @@ t2 :> 1 @@ t3 :> 0
MCPriority3 == t1 :> 2 @@ t2 :> 1 @@ t3 :> 3
=============================================================================
