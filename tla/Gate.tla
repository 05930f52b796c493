-------------------------------- MODULE Gate --------------------------------
(***************************************************************************)
(* Threads that wait for a flag which main raises.                         *)
(*                                                                         *)
(* threads/atomic/cond1.cpp (announces): go() raises the flag and notifies *)
(* everybody, with the mutex held; the threads then print and end.         *)
(*                                                                         *)
(* threads/cons_work/worker.cpp (answers): main raises the flag and does   *)
(* NOT notify; its one worker processes the data, raises a flag of its own *)
(* and notifies main, which waits for it on the same condition variable.   *)
(***************************************************************************)
EXTENDS Monitor, Integers, FiniteSets

CONSTANTS
  Main,        (* the main thread                                           *)
  Programs     (* the two programs, as records:                             *)
               (*   workers   : their threads but main                      *)
               (*   announces : main notifies when it has raised the flag   *)
               (*   answers   : the worker raises processed, main waits     *)

ASSUME GateAssumption ==
  \A q \in Programs :
    /\ IsFiniteSet(q.workers) /\ Main \notin q.workers /\ Free \notin q.workers \cup {Main}
    /\ q.announces \in BOOLEAN /\ q.answers \in BOOLEAN

VARIABLES
  program,     (* the one of Programs that runs                             *)
  pc,          (* where each thread is                                      *)
  data,        (* the shared string: what was done to it, by whom           *)
  ready, processed

Workers == program.workers
Threads == Workers \cup {Main}
Announces == program.announces
Answers == program.answers
AllWorkers == UNION {q.workers : q \in Programs}

flags == <<ready, processed>>
monitorVars == <<mutex, waiters>>
threadVars == <<monitorVars, pc, data, flags>>
vars == <<program, threadVars>>

TypeOK ==
  /\ program \in Programs
  /\ mutex \in Threads \cup {Free}
  /\ waiters \in [{"cv"} -> SUBSET Threads]
  /\ pc \in [Threads -> {"unborn", "start", "data", "raise", "announce", "lock", "check",
                         "woken", "notify", "join", "ended"}]
  /\ data \in {"", "Example data", "after processing"}
  /\ ready \in BOOLEAN /\ processed \in BOOLEAN

Init ==
  /\ program \in Programs
  /\ mutex = Free /\ waiters = [cv \in {"cv"} |-> {}]
  /\ pc = [t \in Threads |-> IF t = Main THEN "start" ELSE "unborn"]
  /\ data = "" /\ ready = FALSE /\ processed = FALSE

Goto(t, label) == pc' = [pc EXCEPT ![t] = label]
-----------------------------------------------------------------------------
(* main.                                                                    *)
StartThread(w) ==
  /\ pc[Main] = "start" /\ pc[w] = "unborn"
  /\ Goto(w, "lock")
  /\ UNCHANGED <<monitorVars, data, flags>>

(* The threads run; cond1.cpp sleeps for a second, worker.cpp writes data   *)
(* without the mutex.                                                       *)
Prepare ==
  /\ pc[Main] = "start" /\ \A w \in Workers : pc[w] # "unborn"
  /\ data' = IF Answers THEN "Example data" ELSE data
  /\ Goto(Main, "raise")
  /\ UNCHANGED <<monitorVars, flags>>

(* ready = true under the mutex, which go() keeps until it has notified.    *)
Raise ==
  /\ pc[Main] = "raise" /\ mutex = Free
  /\ ready' = TRUE
  /\ mutex' = IF Announces THEN Main ELSE Free
  /\ Goto(Main, IF Announces THEN "announce" ELSE "lock")
  /\ UNCHANGED <<waiters, data, processed>>

Announce_One ==
  /\ pc[Main] = "announce"
  /\ NotifyOne("cv") /\ Unlock(Main)
  /\ Goto(Main, IF Answers THEN "lock" ELSE "join")
  /\ UNCHANGED <<data, flags>>

(* cv.notify_all().                                                         *)
Announce ==
  /\ pc[Main] = "announce"
  /\ NotifyAll("cv") /\ Unlock(Main)
  /\ Goto(Main, IF Answers THEN "lock" ELSE "join")
  /\ UNCHANGED <<data, flags>>

Join ==
  /\ pc[Main] = "join" /\ \A w \in Workers : pc[w] = "ended"
  /\ Goto(Main, "ended")
  /\ UNCHANGED <<monitorVars, data, flags>>
-----------------------------------------------------------------------------
(* cv.wait(lock, predicate), in a worker and in main.                       *)
Predicate(t) == IF t = Main THEN processed ELSE ready

Enter(t) ==
  /\ pc[t] = "lock" \/ (pc[t] = "woken" /\ ~Blocked(t))
  /\ Lock(t)
  /\ Goto(t, "check")
  /\ UNCHANGED <<waiters, data, flags>>

Block(t) ==
  /\ pc[t] = "check" /\ ~Predicate(t)
  /\ Wait(t, "cv")
  /\ Goto(t, "woken")
  /\ UNCHANGED <<data, flags>>

Pass_NoPredicate(t) ==
  /\ pc[t] = "check"
  /\ Unlock(t)
  /\ \/ t = Main /\ Goto(t, "join") /\ UNCHANGED <<data, processed>>
     \/ t # Main /\ ~Answers /\ Goto(t, "ended") /\ UNCHANGED <<data, processed>>
     \/ /\ t # Main /\ Answers
        /\ data' = "after processing" /\ processed' = TRUE
        /\ Goto(t, "notify")
  /\ UNCHANGED <<waiters, ready>>

(* What follows the wait, and the unlock.                                   *)
Pass(t) ==
  /\ pc[t] = "check" /\ Predicate(t)
  /\ Unlock(t)
  /\ \/ t = Main /\ Goto(t, "join") /\ UNCHANGED <<data, processed>>
     \/ t # Main /\ ~Answers /\ Goto(t, "ended") /\ UNCHANGED <<data, processed>>
     \/ /\ t # Main /\ Answers
        /\ data' = "after processing" /\ processed' = TRUE
        /\ Goto(t, "notify")
  /\ UNCHANGED <<waiters, ready>>

WorkerNotifies(w) ==
  /\ pc[w] = "notify"
  /\ NotifyOne("cv")
  /\ Goto(w, "ended")
  /\ UNCHANGED <<mutex, data, flags>>

SpuriousWakeup(t) ==
  /\ WakesUnasked(t)
  /\ UNCHANGED <<mutex, pc, data, flags>>
-----------------------------------------------------------------------------
MainStep == (\E w \in Workers : StartThread(w)) \/ Prepare \/ Raise \/ Announce \/ Join

WaitStep(t) == Enter(t) \/ Block(t) \/ Pass(t)

Next ==
  /\ UNCHANGED program
  /\ \/ MainStep
     \/ \E t \in Threads : WaitStep(t) \/ SpuriousWakeup(t)
     \/ \E w \in Workers : WorkerNotifies(w)

Spec == Init /\ [][Next]_vars

(* Every runnable thread runs, and gets the mutex if it is free again and   *)
(* again; nobody counts on spurious wakeups.                                *)
FairSpec ==
  /\ Spec
  /\ WF_threadVars(MainStep) /\ SF_threadVars(Raise)
  /\ \A t \in AllWorkers \cup {Main} :
       /\ WF_threadVars(t \in Threads /\ WaitStep(t)) /\ SF_threadVars(t \in Threads /\ Enter(t))
  /\ \A w \in AllWorkers : WF_threadVars(w \in Workers /\ WorkerNotifies(w))
-----------------------------------------------------------------------------
(* The string changes hands without a race although main writes it before   *)
(* it takes the mutex: the worker appends to it after that, and main reads  *)
(* it after the worker.                                                     *)
HandedOver ==
  Answers =>
    /\ \A w \in Workers : pc[w] \in {"notify", "ended"} => pc[Main] \notin {"start", "raise"}
    /\ pc[Main] \in {"join", "ended"} => data = "after processing"
    /\ ready /\ ~processed => data = "Example data"

(* When the gate is announced, main's joins return.                         *)
MainEnds == Announces => <>(pc[Main] = "ended")

(* worker.cpp: "main() signals data ready for processing".                  *)
DataProcessed == ready ~> processed
=============================================================================
