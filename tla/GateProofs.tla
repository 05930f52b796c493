----------------------------- MODULE GateProofs -----------------------------
(***************************************************************************)
(* Threads that wait for main's flag: the string they share without holding *)
(* the mutex, and the announcement nobody misses, for any programs.         *)
(***************************************************************************)
EXTENDS Gate, TLAPS

Places == {"unborn", "start", "data", "raise", "announce", "lock", "check", "woken", "notify",
           "join", "ended"}

(* The mutex is held where a thread tests its predicate, and from main's    *)
(* raising of the flag to its announcement.                                 *)
LockInv ==
  /\ program \in Programs
  /\ mutex \in Threads \cup {Free}
  /\ pc \in [Threads -> Places]
  /\ waiters \in [{"cv"} -> SUBSET Threads]
  /\ ready \in BOOLEAN /\ processed \in BOOLEAN
  /\ \A t \in Threads : pc[t] = "check" => mutex = t
  /\ pc[Main] = "announce" => mutex = Main
  /\ \A t \in waiters["cv"] : pc[t] = "woken"

(* What was done to the string is what the flags say, and nobody gets past  *)
(* a wait before they say so.                                               *)
DataInv ==
  /\ data \in {"", "Example data", "after processing"}
  /\ pc[Main] \in {"start", "raise"} => ~ready /\ ~processed
  /\ \A w \in Workers : pc[w] \in {"notify", "ended"} => ready
  /\ Answers =>
       /\ pc[Main] # "start" /\ ~processed => data = "Example data"
       /\ processed => data = "after processing"
       /\ pc[Main] \in {"join", "ended"} => processed

(* Once the flag is announced no worker is blocked, and none will be.       *)
NobodyLeftWaiting ==
  Announces /\ ready /\ pc[Main] # "announce" => Workers \cap waiters["cv"] = {}

(* While main waits for an answer that is given, somebody is about to       *)
(* notify: of several workers, if the gate was announced to them, or of one.*)
AnswerOwed ==
  /\ Answers /\ (Announces \/ \A v, w \in Workers : v = w)
  /\ processed /\ Main \in waiters["cv"]
  => \E w \in Workers : pc[w] = "notify"

IInv == LockInv /\ DataInv /\ NobodyLeftWaiting /\ AnswerOwed
-----------------------------------------------------------------------------
(* What the assumption says of the program that runs.                       *)
LEMMA ProgramFacts ==
  ASSUME program \in Programs
  PROVE  Main \notin Workers /\ Free \notin Threads /\ Announces \in BOOLEAN /\ Answers \in BOOLEAN
BY GateAssumption DEF GateAssumption, Workers, Threads, Announces, Answers

(* No flag is raised and nobody sleeps at the start.                        *)
LEMMA InitIInv == Init => IInv
<1> SUFFICES ASSUME Init PROVE IInv
  OBVIOUS
<1> USE DEF Init
<1>1. LockInv
  <2>1. /\ pc \in [Threads -> Places] /\ waiters \in [{"cv"} -> SUBSET Threads]
        /\ \A t \in Threads : pc[t] # "check"
    BY DEF Places
  <2>2. pc[Main] # "announce"
    BY DEF Threads
  <2> QED
    BY <2>1, <2>2 DEF LockInv
<1>2. DataInv /\ NobodyLeftWaiting /\ AnswerOwed
  BY ProgramFacts DEF DataInv, NobodyLeftWaiting, AnswerOwed, Threads
<1> QED
  BY <1>1, <1>2 DEF IInv

(* No step changes the program.                                             *)
LEMMA ProgramStays ==
  ASSUME [Next]_vars
  PROVE  /\ program' = program /\ Workers' = Workers /\ Threads' = Threads
         /\ (Answers' <=> Answers) /\ (Announces' <=> Announces)
<1>1. program' = program
  BY DEF Next, vars
<1>2. (Answers' <=> Answers) /\ (Announces' <=> Announces)
  BY <1>1, Zenon DEF Answers, Announces
<1> QED
  BY <1>1, <1>2 DEF Workers, Threads

(* A thread that tests or raises a flag holds the mutex.                    *)
LEMMA LockStep == LockInv /\ [Next]_vars => LockInv'
<1> SUFFICES ASSUME LockInv, [Next]_vars PROVE LockInv'
  OBVIOUS
<1>1. /\ pc \in [Threads -> Places] /\ waiters \in [{"cv"} -> SUBSET Threads]
      /\ Main \in Threads /\ Main \notin Workers /\ Workers \subseteq Threads
      /\ \A t \in Threads : t # Free /\ (t # Main => t \in Workers)
      /\ Announces \in BOOLEAN /\ Answers \in BOOLEAN
      /\ ready \in BOOLEAN /\ processed \in BOOLEAN
  BY ProgramFacts DEF LockInv, Threads
<1> USE <1>1, ProgramStays DEF LockInv, Goto, monitorVars, flags, Places
<1>2. ASSUME NEW w \in Workers, StartThread(w) PROVE LockInv'
  BY <1>2 DEF StartThread
<1>3. CASE Prepare
  BY <1>3 DEF Prepare
<1>4. CASE Raise
  BY <1>4 DEF Raise
<1>5. CASE Announce
  BY <1>5 DEF Announce, NotifyAll, Unlock
<1>6. CASE Join
  BY <1>6 DEF Join
<1>7. ASSUME NEW t \in Threads, Enter(t) PROVE LockInv'
  BY <1>7 DEF Enter, Lock, Blocked
<1>8. ASSUME NEW t \in Threads, Block(t) PROVE LockInv'
  BY <1>8 DEF Block, Wait, Predicate
<1>9. ASSUME NEW t \in Threads, Pass(t) PROVE LockInv'
  <2>1. CASE t = Main
    BY <1>9, <2>1 DEF Pass, Unlock, Predicate
  <2>2. CASE t # Main
    BY <1>9, <2>2 DEF Pass, Unlock, Predicate
  <2> QED
    BY <2>1, <2>2
<1>10. ASSUME NEW w \in Workers, WorkerNotifies(w) PROVE LockInv'
  BY <1>10 DEF WorkerNotifies, NotifyOne
<1>11. ASSUME NEW t \in Threads, SpuriousWakeup(t) PROVE LockInv'
  BY <1>11 DEF SpuriousWakeup, WakesUnasked
<1>12. CASE UNCHANGED vars
  BY <1>12 DEF vars, threadVars
<1> QED
  BY <1>2, <1>3, <1>4, <1>5, <1>6, <1>7, <1>8, <1>9, <1>10, <1>11, <1>12
     DEF Next, MainStep, WaitStep

(* The flags say what was done to the string.                               *)
LEMMA DataStep == LockInv /\ DataInv /\ [Next]_vars => DataInv'
<1> SUFFICES ASSUME LockInv, DataInv, [Next]_vars PROVE DataInv'
  OBVIOUS
<1>1. /\ pc \in [Threads -> Places] /\ waiters \in [{"cv"} -> SUBSET Threads]
      /\ Main \in Threads /\ Main \notin Workers /\ Workers \subseteq Threads
      /\ \A t \in Threads : t # Free /\ (t # Main => t \in Workers)
      /\ Announces \in BOOLEAN /\ Answers \in BOOLEAN
      /\ ready \in BOOLEAN /\ processed \in BOOLEAN
  BY ProgramFacts DEF LockInv, Threads
<1> USE <1>1, ProgramStays DEF DataInv, Goto, monitorVars, flags, Places
<1>2. ASSUME NEW w \in Workers, StartThread(w) PROVE DataInv'
  BY <1>2 DEF StartThread
<1>3. CASE Prepare
  BY <1>3 DEF Prepare
<1>4. CASE Raise
  BY <1>4 DEF Raise
<1>5. CASE Announce
  BY <1>5 DEF Announce, NotifyAll, Unlock
<1>6. CASE Join
  BY <1>6 DEF Join
<1>7. ASSUME NEW t \in Threads, Enter(t) PROVE DataInv'
  BY <1>7 DEF Enter, Lock
<1>8. ASSUME NEW t \in Threads, Block(t) PROVE DataInv'
  BY <1>8 DEF Block, Wait, Predicate
<1>9. ASSUME NEW t \in Threads, Pass(t) PROVE DataInv'
  <2>1. CASE t = Main
    <3>1. pc[Main] = "check" /\ processed /\ pc' = [pc EXCEPT ![Main] = "join"]
      BY <1>9, <2>1 DEF Pass, Predicate
    <3>2. UNCHANGED <<data, ready, processed>>
      BY <1>9, <2>1 DEF Pass
    <3> QED
      BY <3>1, <3>2
  <2>2. CASE t # Main
    <3>1. ready /\ ready' = ready /\ pc[t] = "check"
      BY <1>9, <2>2 DEF Pass, Predicate
    <3>2. \E l \in {"ended", "notify"} : pc' = [pc EXCEPT ![t] = l]
      BY <1>9, <2>2 DEF Pass
    <3>3. /\ Answers => processed' /\ data' = "after processing"
          /\ data' \in {data, "after processing"} /\ (~Answers => UNCHANGED <<data, processed>>)
      BY <1>9, <2>2 DEF Pass
    <3> QED
      BY <2>2, <3>1, <3>2, <3>3
  <2> QED
    BY <2>1, <2>2
<1>10. ASSUME NEW w \in Workers, WorkerNotifies(w) PROVE DataInv'
  BY <1>10 DEF WorkerNotifies, NotifyOne
<1>11. ASSUME NEW t \in Threads, SpuriousWakeup(t) PROVE DataInv'
  BY <1>11 DEF SpuriousWakeup, WakesUnasked
<1>12. CASE UNCHANGED vars
  BY <1>12 DEF vars, threadVars
<1> QED
  BY <1>2, <1>3, <1>4, <1>5, <1>6, <1>7, <1>8, <1>9, <1>10, <1>11, <1>12
     DEF Next, MainStep, WaitStep

(* From raising to announcing the flag main keeps the mutex.                *)
LEMMA WaitingStep == LockInv /\ NobodyLeftWaiting /\ [Next]_vars => NobodyLeftWaiting'
<1> SUFFICES ASSUME LockInv, NobodyLeftWaiting, [Next]_vars PROVE NobodyLeftWaiting'
  OBVIOUS
<1>1. /\ pc \in [Threads -> Places] /\ waiters \in [{"cv"} -> SUBSET Threads]
      /\ Main \in Threads /\ Main \notin Workers /\ Workers \subseteq Threads
      /\ \A t \in Threads : t # Free /\ (t # Main => t \in Workers)
      /\ Announces \in BOOLEAN /\ Answers \in BOOLEAN
      /\ ready \in BOOLEAN /\ processed \in BOOLEAN
  BY ProgramFacts DEF LockInv, Threads
<1> USE <1>1, ProgramStays DEF NobodyLeftWaiting, Goto, monitorVars, flags, Places
<1>2. ASSUME NEW w \in Workers, StartThread(w) PROVE NobodyLeftWaiting'
  BY <1>2 DEF StartThread
<1>3. CASE Prepare
  BY <1>3 DEF Prepare
<1>4. CASE Raise
  BY <1>4 DEF Raise
<1>5. CASE Announce
  BY <1>5 DEF Announce, NotifyAll, Unlock
<1>6. CASE Join
  BY <1>6 DEF Join
<1>7. ASSUME NEW t \in Threads, Enter(t) PROVE NobodyLeftWaiting'
  BY <1>7 DEF Enter, Lock
<1>8. ASSUME NEW t \in Threads, Block(t) PROVE NobodyLeftWaiting'
  BY <1>8 DEF Block, Wait, Predicate
<1>9. ASSUME NEW t \in Threads, Pass(t) PROVE NobodyLeftWaiting'
  <2>1. CASE t = Main
    BY <1>9, <2>1 DEF Pass, Unlock, Predicate
  <2>2. CASE t # Main
    BY <1>9, <2>2 DEF Pass, Unlock, Predicate
  <2> QED
    BY <2>1, <2>2
<1>10. ASSUME NEW w \in Workers, WorkerNotifies(w) PROVE NobodyLeftWaiting'
  BY <1>10 DEF WorkerNotifies, NotifyOne
<1>11. ASSUME NEW t \in Threads, SpuriousWakeup(t) PROVE NobodyLeftWaiting'
  BY <1>11 DEF SpuriousWakeup, WakesUnasked
<1>12. CASE UNCHANGED vars
  BY <1>12 DEF vars, threadVars
<1> QED
  BY <1>2, <1>3, <1>4, <1>5, <1>6, <1>7, <1>8, <1>9, <1>10, <1>11, <1>12
     DEF Next, MainStep, WaitStep

(* Main blocks only while there is no answer; a worker that answers is about*)
(* to notify, and its notify_one finds nobody else asleep.                  *)
LEMMA AnswerStep ==
  LockInv /\ DataInv /\ NobodyLeftWaiting /\ AnswerOwed /\ [Next]_vars => AnswerOwed'
<1> SUFFICES ASSUME LockInv, DataInv, NobodyLeftWaiting, AnswerOwed, [Next]_vars,
                    Answers, Announces \/ \A v, w \in Workers : v = w,
                    processed', Main \in waiters'["cv"]
             PROVE  \E w \in Workers : pc'[w] = "notify"
  BY ProgramStays DEF AnswerOwed
<1>1. /\ pc \in [Threads -> Places] /\ waiters \in [{"cv"} -> SUBSET Threads]
      /\ Main \in Threads /\ Main \notin Workers /\ Workers \subseteq Threads
      /\ \A t \in Threads : t # Free /\ (t # Main => t \in Workers)
  BY ProgramFacts DEF LockInv, Threads
<1>2. ASSUME processed, Main \in waiters["cv"], NEW t \in Threads, NEW l,
             pc' = [pc EXCEPT ![t] = l], pc[t] # "notify"
      PROVE  \E w \in Workers : pc'[w] = "notify"
  <2>1. PICK w \in Workers : pc[w] = "notify"
    BY <1>2 DEF AnswerOwed
  <2> QED
    BY <1>1, <1>2, <2>1
<1> USE <1>1 DEF Goto, monitorVars, flags
<1>3. ASSUME NEW w \in Workers, StartThread(w) PROVE \E v \in Workers : pc'[v] = "notify"
  BY <1>2, <1>3 DEF StartThread
<1>4. CASE Prepare \/ Join \/ Raise
  BY <1>2, <1>4 DEF Prepare, Join, Raise
<1>5. CASE Announce
  BY <1>5 DEF Announce, NotifyAll
<1>6. ASSUME NEW t \in Threads, Enter(t) PROVE \E v \in Workers : pc'[v] = "notify"
  BY <1>2, <1>6 DEF Enter
<1>7. ASSUME NEW t \in Threads, Block(t) PROVE \E v \in Workers : pc'[v] = "notify"
  <2>1. CASE t = Main
    BY <1>7, <2>1 DEF Block, Predicate
  <2>2. CASE t # Main
    BY <1>2, <1>7, <2>2 DEF Block, Wait
  <2> QED
    BY <2>1, <2>2
<1>8. ASSUME NEW t \in Threads, Pass(t) PROVE \E v \in Workers : pc'[v] = "notify"
  <2>1. CASE t = Main
    <3>1. pc[Main] = "check" /\ Main \in waiters["cv"]
      BY <1>8, <2>1 DEF Pass
    <3> QED
      BY <3>1 DEF LockInv
  <2>2. CASE t # Main
    <3>1. t \in Workers /\ pc' = [pc EXCEPT ![t] = "notify"]
      BY <1>8, <2>2 DEF Pass
    <3> QED
      BY <3>1
  <2> QED
    BY <2>1, <2>2
<1>9. ASSUME NEW w \in Workers, WorkerNotifies(w) PROVE \E v \in Workers : pc'[v] = "notify"
  <2>1. /\ pc[w] = "notify" /\ Main \in waiters["cv"]
        /\ \E t \in waiters["cv"] : waiters' = [waiters EXCEPT !["cv"] = @ \ {t}]
    BY <1>9 DEF WorkerNotifies, NotifyOne
  <2>2. ready /\ pc[Main] = "woken"
    BY <2>1 DEF DataInv, LockInv
  <2>3. waiters["cv"] \cap Workers = {}
    <3>1. CASE Announces
      BY <2>2, <3>1 DEF NobodyLeftWaiting
    <3>2. CASE \A u, v \in Workers : u = v
      <4>1. w \notin waiters["cv"]
        BY <2>1 DEF LockInv
      <4> QED
        BY <3>2, <4>1
    <3> QED
      BY <3>1, <3>2
  <2>4. waiters["cv"] = {Main}
    BY <2>1, <2>3
  <2> QED
    BY <2>1, <2>4
<1>10. ASSUME NEW t \in Threads, SpuriousWakeup(t) PROVE \E v \in Workers : pc'[v] = "notify"
  BY <1>10 DEF SpuriousWakeup, WakesUnasked, AnswerOwed
<1>11. CASE UNCHANGED vars
  BY <1>11 DEF vars, threadVars, AnswerOwed
<1> QED
  BY <1>3, <1>4, <1>5, <1>6, <1>7, <1>8, <1>9, <1>10, <1>11 DEF Next, MainStep, WaitStep

(* The invariant is inductive.                                              *)
LEMMA StepIInv == IInv /\ [Next]_vars => IInv'
BY LockStep, DataStep, WaitingStep, AnswerStep DEF IInv

(* Hence it holds in every reachable state.                                 *)
LEMMA Invariance == Spec => []IInv
BY InitIInv, StepIInv, PTL DEF Spec
-----------------------------------------------------------------------------
(* worker.cpp: main writes data before it locks, and reads it after the     *)
(* worker's flag; in no program of this shape do their accesses meet.       *)
THEOREM NoAccessesMeet == Spec => []HandedOver
<1>1. IInv => HandedOver
  BY DEF IInv, DataInv, HandedOver
<1> QED
  BY <1>1, Invariance, PTL

(* cond1.cpp: go() raises the flag and notifies with the mutex held, so     *)
(* that afterwards no thread is left in the wait: what MainEnds needs.      *)
THEOREM AnnouncementReachesAll == Spec => []NobodyLeftWaiting
BY Invariance, PTL DEF IInv

(* worker.cpp: the worker's notify_one goes to main, whoever wakes unasked  *)
(* in between: main does not sleep beside an answer that nobody will tell.  *)
THEOREM AnswerReachesMain == Spec => []AnswerOwed
BY Invariance, PTL DEF IInv

(* Every variable keeps its type.                                           *)
THEOREM TypeCorrect == Spec => []TypeOK
<1>1. IInv => TypeOK
  BY DEF IInv, LockInv, DataInv, TypeOK, Places
<1> QED
  BY <1>1, Invariance, PTL
=============================================================================
