------------------------------ MODULE Monitor ------------------------------
(***************************************************************************)
(* std::mutex and std::condition_variable, as the programs of threads/ use *)
(* them: one mutex, and for each condition variable the threads blocked in *)
(* its wait().  A thread that is woken must lock the mutex again before    *)
(* wait() returns; which waiter notify_one picks is anybody's guess, and a *)
(* waiter may wake although nobody notified it.                            *)
(***************************************************************************)
CONSTANT Free         (* nobody holds the mutex                            *)

VARIABLES
  mutex,       (* the thread that holds the mutex, or Free                  *)
  waiters      (* [condition variables -> the threads blocked in wait]      *)

Lock(t) == mutex = Free /\ mutex' = t

Unlock(t) == mutex = t /\ mutex' = Free

(* Release the mutex and block, in one step towards the mutex.              *)
Wait(t, cv) ==
  /\ mutex = t /\ mutex' = Free
  /\ waiters' = [waiters EXCEPT ![cv] = @ \cup {t}]

Blocked(t) == \E cv \in DOMAIN waiters : t \in waiters[cv]

NotifyOne(cv) ==
  \/ \E t \in waiters[cv] : waiters' = [waiters EXCEPT ![cv] = @ \ {t}]
  \/ waiters[cv] = {} /\ UNCHANGED waiters

NotifyAll(cv) == waiters' = [waiters EXCEPT ![cv] = {}]

WakesUnasked(t) ==
  /\ Blocked(t)
  /\ waiters' = [cv \in DOMAIN waiters |-> waiters[cv] \ {t}]
=============================================================================
