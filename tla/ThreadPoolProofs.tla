-------------------------- MODULE ThreadPoolProofs --------------------------
(***************************************************************************)
(* Machine-checked proofs about ThreadPool, for every number of workers    *)
(* and tasks and every assignment of start times and priorities: its       *)
(* invariants, and that it implements TaskPool.                            *)
(***************************************************************************)
EXTENDS ThreadPool, FiniteSetTheorems, TLAPS

(* The program counters at which a worker owns the mutex, and those at      *)
(* which it owns a task.                                                    *)
InLock == {"check", "block", "decide"}
WithTask == {"start", "sleep", "run"}

(* The inductive invariant, by subject.                                     *)
LockInv == \A w \in Workers : pc[w] \in InLock <=> mutex_ = w

TaskInv ==
  /\ \A w \in Workers : task[w] # NoTask <=> pc[w] \in WithTask
  /\ \A w \in Workers : pc[w] = "run" => now >= StartTime[task[w]]

ClientInv ==
  /\ stop_ <=> client \in {"stopping", "join", "destroyed"}
  /\ \A w \in Workers : pc[w] = "unborn" => client = "construct"
  /\ client = "destroyed" => \A w \in Workers : pc[w] = "done"

QueueInv ==
  \A w \in Workers :
    /\ pc[w] = "block" => tasks_ = {}
    /\ pc[w] = "decide" => stop_ \/ tasks_ # {}
    /\ pc[w] = "done" => stop_ /\ tasks_ = {}

WindowInv ==
  \A w \in Workers :
    client \in {"join", "destroyed"} /\ pc[w] \in {"block", "waiting"}
      => w \in missed

IInv ==
  /\ TypeOK
  /\ LockInv
  /\ TaskInv
  /\ ClientInv
  /\ QueueInv
  /\ WindowInv
  /\ TaskConservation
  /\ NoEarlyRun
  /\ WorkConserving
-----------------------------------------------------------------------------
(* The comparator is a strict weak order, which std::priority_queue needs:  *)
(* irreflexive, transitive, and incomparability is transitive too.          *)
THEOREM ComparatorStrictWeakOrder ==
  \A a, b, c \in Tasks :
    /\ ~TaskComparator(a, a)
    /\ TaskComparator(a, b) /\ TaskComparator(b, c) => TaskComparator(a, c)
    /\ ~TaskComparator(a, b) /\ ~TaskComparator(b, c) => ~TaskComparator(a, c)
BY PoolAssumption DEF PoolAssumption, TaskComparator

LEMMA InitIInv == Init => IInv
<1> SUFFICES ASSUME Init PROVE IInv
  OBVIOUS
<1> USE PoolAssumption DEF PoolAssumption, Init
<1>1. TypeOK
  <2>1. stop_ \in BOOLEAN
    BY Zenon
  <2>2. pc \in [Workers -> WorkerPc] /\ task \in [Workers -> Tasks \cup {NoTask}]
    BY DEF WorkerPc
  <2>3. client \in ClientPc /\ now \in 0..Horizon /\ runs \in [Tasks -> Nat]
    BY DEF ClientPc
  <2>4. tasks_ \subseteq Tasks /\ submitted \subseteq Tasks /\ missed \subseteq Workers
    OBVIOUS
  <2>5. mutex_ \in Workers \cup {Free}
    OBVIOUS
  <2> QED
    BY <2>1, <2>2, <2>3, <2>4, <2>5, Zenon DEF TypeOK
<1>2. LockInv /\ TaskInv /\ ClientInv /\ QueueInv /\ WindowInv
  BY DEF LockInv, TaskInv, ClientInv, QueueInv, WindowInv, InLock, WithTask
<1>3. TaskConservation /\ NoEarlyRun
  BY DEF TaskConservation, NoEarlyRun, Held
<1>4. WorkConserving
  BY DEF WorkConserving
<1> QED
  BY <1>1, <1>2, <1>3, <1>4 DEF IInv

(* Type correctness of every step.                                          *)
LEMMA TypeStep == TypeOK /\ TaskInv /\ [Next]_vars => TypeOK'
<1> SUFFICES ASSUME TypeOK, TaskInv, [Next]_vars PROVE TypeOK'
  OBVIOUS
<1> USE PoolAssumption DEF PoolAssumption, TypeOK, WorkerPc, ClientPc, Goto
<1>1. ASSUME NEW w \in Workers, WorkerStep(w) \/ SpuriousWake(w) PROVE TypeOK'
  <2>1. CASE Acquire(w) \/ Check(w) \/ Block(w) \/ Return(w) \/ SpuriousWake(w)
    BY <2>1 DEF Acquire, Check, Block, Return, SpuriousWake
  <2>2. CASE Pop(w)
    BY <2>2 DEF Pop, Top
  <2>3. CASE Start(w) \/ Awake(w)
    BY <2>3 DEF Start, Awake
  <2>4. CASE Run(w)
    <3>1. task[w] \in Tasks
      BY <2>4 DEF Run, TaskInv, WithTask
    <3> QED
      BY <2>4, <3>1 DEF Run
  <2> QED
    BY <1>1, <2>1, <2>2, <2>3, <2>4 DEF WorkerStep
<1>2. CASE ClientStep
  BY <1>2 DEF ClientStep, SpawnWorker, ConstructorReturns, EnqueueNotify,
              DestroyNotify, DestroyJoin
<1>3. ASSUME NEW t \in Tasks, EnqueuePush(t) PROVE TypeOK'
  BY <1>3 DEF EnqueuePush
<1>4. CASE Tick
  BY <1>4 DEF Tick
<1>5. CASE DestroyStop
  <2>1. stop_' \in BOOLEAN
    BY <1>5, Zenon DEF DestroyStop
  <2>2. client' \in ClientPc
    BY <1>5 DEF DestroyStop
  <2> QED
    BY <1>5, <2>1, <2>2, Zenon DEF DestroyStop
<1>6. CASE UNCHANGED vars
  BY <1>6 DEF vars
<1> QED
  BY <1>1, <1>2, <1>3, <1>4, <1>5, <1>6 DEF Next

(* The mutex is held exactly by the worker whose counter says so.            *)
LEMMA LockStep == TypeOK /\ LockInv /\ [Next]_vars => LockInv'
<1> SUFFICES ASSUME TypeOK, LockInv, [Next]_vars PROVE LockInv'
  OBVIOUS
<1> USE PoolAssumption DEF PoolAssumption, TypeOK, Goto, LockInv, InLock
<1>1. ASSUME NEW w \in Workers, Acquire(w) PROVE LockInv'
  BY <1>1 DEF Acquire
<1>2. ASSUME NEW w \in Workers, Check(w) PROVE LockInv'
  BY <1>2 DEF Check, WaitPredicate
<1>3. ASSUME NEW w \in Workers, Block(w) PROVE LockInv'
  BY <1>3 DEF Block
<1>4. ASSUME NEW w \in Workers, Return(w) PROVE LockInv'
  BY <1>4 DEF Return, ShouldReturn
<1>5. ASSUME NEW w \in Workers, Pop(w) PROVE LockInv'
  BY <1>5 DEF Pop, ShouldReturn, Top
<1>6. ASSUME NEW w \in Workers, Start(w) PROVE LockInv'
  BY <1>6 DEF Start, TooEarly
<1>7. ASSUME NEW w \in Workers, Awake(w) PROVE LockInv'
  BY <1>7 DEF Awake
<1>8. ASSUME NEW w \in Workers, Run(w) PROVE LockInv'
  BY <1>8 DEF Run
<1>9. ASSUME NEW w \in Workers, SpuriousWake(w) PROVE LockInv'
  BY <1>9 DEF SpuriousWake
<1>10. ASSUME NEW w \in Workers, SpawnWorker(w) PROVE LockInv'
  BY <1>10 DEF SpawnWorker
<1>11. CASE ConstructorReturns
  BY <1>11 DEF ConstructorReturns
<1>12. ASSUME NEW t \in Tasks, EnqueuePush(t) PROVE LockInv'
  BY <1>12 DEF EnqueuePush
<1>13. CASE EnqueueNotify
  BY <1>13 DEF EnqueueNotify
<1>14. CASE DestroyStop
  BY <1>14 DEF DestroyStop
<1>15. CASE DestroyNotify
  BY <1>15 DEF DestroyNotify
<1>16. CASE DestroyJoin
  BY <1>16 DEF DestroyJoin
<1>17. CASE Tick
  BY <1>17 DEF Tick
<1>18. CASE UNCHANGED vars
  BY <1>18 DEF vars
<1> QED
  BY <1>1, <1>2, <1>3, <1>4, <1>5, <1>6, <1>7, <1>8, <1>9,
     <1>10, <1>11, <1>12, <1>13, <1>14, <1>15, <1>16, <1>17, <1>18
     DEF Next, WorkerStep, ClientStep


(* newTask is owned from the pop to the call, and run only when due.         *)
LEMMA TaskStep == TypeOK /\ TaskInv /\ [Next]_vars => TaskInv'
<1> SUFFICES ASSUME TypeOK, TaskInv, [Next]_vars PROVE TaskInv'
  OBVIOUS
<1> USE PoolAssumption DEF PoolAssumption, TypeOK, Goto, TaskInv, WithTask
<1>1. ASSUME NEW w \in Workers, Acquire(w) PROVE TaskInv'
  BY <1>1 DEF Acquire
<1>2. ASSUME NEW w \in Workers, Check(w) PROVE TaskInv'
  BY <1>2 DEF Check, WaitPredicate
<1>3. ASSUME NEW w \in Workers, Block(w) PROVE TaskInv'
  BY <1>3 DEF Block
<1>4. ASSUME NEW w \in Workers, Return(w) PROVE TaskInv'
  BY <1>4 DEF Return, ShouldReturn
<1>5. ASSUME NEW w \in Workers, Pop(w) PROVE TaskInv'
  BY <1>5 DEF Pop, ShouldReturn, Top
<1>6. ASSUME NEW w \in Workers, Start(w) PROVE TaskInv'
  BY <1>6 DEF Start, TooEarly
<1>7. ASSUME NEW w \in Workers, Awake(w) PROVE TaskInv'
  BY <1>7 DEF Awake
<1>8. ASSUME NEW w \in Workers, Run(w) PROVE TaskInv'
  BY <1>8 DEF Run
<1>9. ASSUME NEW w \in Workers, SpuriousWake(w) PROVE TaskInv'
  BY <1>9 DEF SpuriousWake
<1>10. ASSUME NEW w \in Workers, SpawnWorker(w) PROVE TaskInv'
  BY <1>10 DEF SpawnWorker
<1>11. CASE ConstructorReturns
  BY <1>11 DEF ConstructorReturns
<1>12. ASSUME NEW t \in Tasks, EnqueuePush(t) PROVE TaskInv'
  BY <1>12 DEF EnqueuePush
<1>13. CASE EnqueueNotify
  BY <1>13 DEF EnqueueNotify
<1>14. CASE DestroyStop
  BY <1>14 DEF DestroyStop
<1>15. CASE DestroyNotify
  BY <1>15 DEF DestroyNotify
<1>16. CASE DestroyJoin
  BY <1>16 DEF DestroyJoin
<1>17. CASE Tick
  BY <1>17 DEF Tick
<1>18. CASE UNCHANGED vars
  BY <1>18 DEF vars
<1> QED
  BY <1>1, <1>2, <1>3, <1>4, <1>5, <1>6, <1>7, <1>8, <1>9,
     <1>10, <1>11, <1>12, <1>13, <1>14, <1>15, <1>16, <1>17, <1>18
     DEF Next, WorkerStep, ClientStep


(* stop_ mirrors the destructor; joined means that every thread returned.    *)
LEMMA ClientStepInv == TypeOK /\ LockInv /\ ClientInv /\ [Next]_vars => ClientInv'
<1> SUFFICES ASSUME TypeOK, LockInv, ClientInv, [Next]_vars PROVE ClientInv'
  OBVIOUS
<1> USE PoolAssumption DEF PoolAssumption, TypeOK, Goto, ClientInv, LockInv, InLock
<1>1. ASSUME NEW w \in Workers, Acquire(w) PROVE ClientInv'
  BY <1>1 DEF Acquire
<1>2. ASSUME NEW w \in Workers, Check(w) PROVE ClientInv'
  BY <1>2 DEF Check, WaitPredicate
<1>3. ASSUME NEW w \in Workers, Block(w) PROVE ClientInv'
  BY <1>3 DEF Block
<1>4. ASSUME NEW w \in Workers, Return(w) PROVE ClientInv'
  BY <1>4 DEF Return, ShouldReturn
<1>5. ASSUME NEW w \in Workers, Pop(w) PROVE ClientInv'
  BY <1>5 DEF Pop, ShouldReturn, Top
<1>6. ASSUME NEW w \in Workers, Start(w) PROVE ClientInv'
  BY <1>6 DEF Start, TooEarly
<1>7. ASSUME NEW w \in Workers, Awake(w) PROVE ClientInv'
  BY <1>7 DEF Awake
<1>8. ASSUME NEW w \in Workers, Run(w) PROVE ClientInv'
  BY <1>8 DEF Run
<1>9. ASSUME NEW w \in Workers, SpuriousWake(w) PROVE ClientInv'
  BY <1>9 DEF SpuriousWake
<1>10. ASSUME NEW w \in Workers, SpawnWorker(w) PROVE ClientInv'
  BY <1>10 DEF SpawnWorker
<1>11. CASE ConstructorReturns
  BY <1>11 DEF ConstructorReturns
<1>12. ASSUME NEW t \in Tasks, EnqueuePush(t) PROVE ClientInv'
  BY <1>12 DEF EnqueuePush
<1>13. CASE EnqueueNotify
  BY <1>13 DEF EnqueueNotify
<1>14. CASE DestroyStop
  BY <1>14 DEF DestroyStop
<1>15. CASE DestroyNotify
  BY <1>15 DEF DestroyNotify
<1>16. CASE DestroyJoin
  BY <1>16 DEF DestroyJoin
<1>17. CASE Tick
  BY <1>17 DEF Tick
<1>18. CASE UNCHANGED vars
  BY <1>18 DEF vars
<1> QED
  BY <1>1, <1>2, <1>3, <1>4, <1>5, <1>6, <1>7, <1>8, <1>9,
     <1>10, <1>11, <1>12, <1>13, <1>14, <1>15, <1>16, <1>17, <1>18
     DEF Next, WorkerStep, ClientStep


(* What a worker saw of the queue stays true while it holds the mutex.       *)
LEMMA QueueStep == TypeOK /\ LockInv /\ ClientInv /\ QueueInv /\ [Next]_vars => QueueInv'
<1> SUFFICES ASSUME TypeOK, LockInv, ClientInv, QueueInv, [Next]_vars PROVE QueueInv'
  OBVIOUS
<1> USE PoolAssumption DEF PoolAssumption, TypeOK, Goto, QueueInv, ClientInv, LockInv, InLock
<1>1. ASSUME NEW w \in Workers, Acquire(w) PROVE QueueInv'
  BY <1>1 DEF Acquire
<1>2. ASSUME NEW w \in Workers, Check(w) PROVE QueueInv'
  BY <1>2 DEF Check, WaitPredicate
<1>3. ASSUME NEW w \in Workers, Block(w) PROVE QueueInv'
  BY <1>3 DEF Block
<1>4. ASSUME NEW w \in Workers, Return(w) PROVE QueueInv'
  BY <1>4 DEF Return, ShouldReturn
<1>5. ASSUME NEW w \in Workers, Pop(w) PROVE QueueInv'
  BY <1>5 DEF Pop, ShouldReturn, Top
<1>6. ASSUME NEW w \in Workers, Start(w) PROVE QueueInv'
  BY <1>6 DEF Start, TooEarly
<1>7. ASSUME NEW w \in Workers, Awake(w) PROVE QueueInv'
  BY <1>7 DEF Awake
<1>8. ASSUME NEW w \in Workers, Run(w) PROVE QueueInv'
  BY <1>8 DEF Run
<1>9. ASSUME NEW w \in Workers, SpuriousWake(w) PROVE QueueInv'
  BY <1>9 DEF SpuriousWake
<1>10. ASSUME NEW w \in Workers, SpawnWorker(w) PROVE QueueInv'
  BY <1>10 DEF SpawnWorker
<1>11. CASE ConstructorReturns
  BY <1>11 DEF ConstructorReturns
<1>12. ASSUME NEW t \in Tasks, EnqueuePush(t) PROVE QueueInv'
  BY <1>12 DEF EnqueuePush
<1>13. CASE EnqueueNotify
  BY <1>13 DEF EnqueueNotify
<1>14. CASE DestroyStop
  BY <1>14 DEF DestroyStop
<1>15. CASE DestroyNotify
  BY <1>15 DEF DestroyNotify
<1>16. CASE DestroyJoin
  BY <1>16 DEF DestroyJoin
<1>17. CASE Tick
  BY <1>17 DEF Tick
<1>18. CASE UNCHANGED vars
  BY <1>18 DEF vars
<1> QED
  BY <1>1, <1>2, <1>3, <1>4, <1>5, <1>6, <1>7, <1>8, <1>9,
     <1>10, <1>11, <1>12, <1>13, <1>14, <1>15, <1>16, <1>17, <1>18
     DEF Next, WorkerStep, ClientStep


(* After notify_all only the workers it missed can still be going to sleep.  *)
LEMMA WindowStep == TypeOK /\ ClientInv /\ WindowInv /\ [Next]_vars => WindowInv'
<1> SUFFICES ASSUME TypeOK, ClientInv, WindowInv, [Next]_vars PROVE WindowInv'
  OBVIOUS
<1> USE PoolAssumption DEF PoolAssumption, TypeOK, Goto, WindowInv, ClientInv
<1>1. ASSUME NEW w \in Workers, Acquire(w) PROVE WindowInv'
  BY <1>1 DEF Acquire
<1>2. ASSUME NEW w \in Workers, Check(w) PROVE WindowInv'
  BY <1>2 DEF Check, WaitPredicate
<1>3. ASSUME NEW w \in Workers, Block(w) PROVE WindowInv'
  BY <1>3 DEF Block
<1>4. ASSUME NEW w \in Workers, Return(w) PROVE WindowInv'
  BY <1>4 DEF Return, ShouldReturn
<1>5. ASSUME NEW w \in Workers, Pop(w) PROVE WindowInv'
  BY <1>5 DEF Pop, ShouldReturn, Top
<1>6. ASSUME NEW w \in Workers, Start(w) PROVE WindowInv'
  BY <1>6 DEF Start, TooEarly
<1>7. ASSUME NEW w \in Workers, Awake(w) PROVE WindowInv'
  BY <1>7 DEF Awake
<1>8. ASSUME NEW w \in Workers, Run(w) PROVE WindowInv'
  BY <1>8 DEF Run
<1>9. ASSUME NEW w \in Workers, SpuriousWake(w) PROVE WindowInv'
  BY <1>9 DEF SpuriousWake
<1>10. ASSUME NEW w \in Workers, SpawnWorker(w) PROVE WindowInv'
  BY <1>10 DEF SpawnWorker
<1>11. CASE ConstructorReturns
  BY <1>11 DEF ConstructorReturns
<1>12. ASSUME NEW t \in Tasks, EnqueuePush(t) PROVE WindowInv'
  BY <1>12 DEF EnqueuePush
<1>13. CASE EnqueueNotify
  BY <1>13 DEF EnqueueNotify
<1>14. CASE DestroyStop
  BY <1>14 DEF DestroyStop
<1>15. CASE DestroyNotify
  BY <1>15 DEF DestroyNotify
<1>16. CASE DestroyJoin
  BY <1>16 DEF DestroyJoin
<1>17. CASE Tick
  BY <1>17 DEF Tick
<1>18. CASE UNCHANGED vars
  BY <1>18 DEF vars
<1> QED
  BY <1>1, <1>2, <1>3, <1>4, <1>5, <1>6, <1>7, <1>8, <1>9,
     <1>10, <1>11, <1>12, <1>13, <1>14, <1>15, <1>16, <1>17, <1>18
     DEF Next, WorkerStep, ClientStep

(* Only a push, a pop and a run move a task; every other step leaves the    *)
(* queue, the hands and the counters alone.                                 *)
LEMMA MovesOnly ==
  ASSUME [Next]_vars
  PROVE  \/ \E w \in Workers : Pop(w)
         \/ \E w \in Workers : Run(w)
         \/ \E t \in Tasks : EnqueuePush(t)
         \/ UNCHANGED <<task, tasks_, runs, submitted>>
BY DEF Next, vars, WorkerStep, ClientStep, Acquire, Check, Block, Return,
       Start, Awake, SpuriousWake, SpawnWorker, ConstructorReturns,
       EnqueueNotify, DestroyStop, DestroyNotify, DestroyJoin, Tick

(* A task stays in exactly one place.                                       *)
LEMMA ConservationStep ==
  TypeOK /\ TaskInv /\ TaskConservation /\ [Next]_vars => TaskConservation'
<1> SUFFICES ASSUME TypeOK, TaskInv, TaskConservation, [Next]_vars
             PROVE  TaskConservation'
  OBVIOUS
<1> USE PoolAssumption DEF PoolAssumption, TypeOK
<1>1. ASSUME NEW w \in Workers, Pop(w) PROVE TaskConservation'
  <2>1. PICK p \in tasks_ : /\ task' = [task EXCEPT ![w] = p]
                            /\ tasks_' = tasks_ \ {p}
    BY <1>1 DEF Pop, Top
  <2>2. task[w] = NoTask /\ UNCHANGED <<runs, submitted>>
    BY <1>1 DEF Pop, TaskInv, WithTask
  <2>3. Held' = Held \cup {p}
    BY <2>1, <2>2 DEF Held
  <2>4. p \in Tasks /\ p \notin Held /\ runs[p] = 0
    BY <2>1 DEF TaskConservation
  <2> QED
    BY <2>1, <2>2, <2>3, <2>4 DEF TaskConservation, Held
<1>2. ASSUME NEW w \in Workers, Run(w) PROVE TaskConservation'
  <2> DEFINE r == task[w]
  <2>1. r \in Tasks /\ r \in Held
    BY <1>2 DEF Run, TaskInv, WithTask, Held
  <2>2. /\ task' = [task EXCEPT ![w] = NoTask]
        /\ runs' = [runs EXCEPT ![r] = @ + 1]
        /\ UNCHANGED <<tasks_, submitted>>
    BY <1>2 DEF Run
  <2>3. r \notin tasks_ /\ runs[r] = 0 /\ runs'[r] = 1
    BY <2>1, <2>2 DEF TaskConservation
  <2>4. \A v \in Workers : task[v] = r => v = w
    BY <2>1 DEF TaskConservation
  <2>5. Held' = Held \ {r}
    BY <2>1, <2>2, <2>4 DEF Held
  <2> HIDE DEF r
  <2>6. ASSUME NEW t \in Tasks PROVE TaskConservation!(t)'
    <3>1. CASE t = r
      BY <3>1, <2>1, <2>2, <2>3, <2>5 DEF TaskConservation
    <3>2. CASE t # r
      BY <3>2, <2>1, <2>2, <2>5 DEF TaskConservation
    <3> QED
      BY <3>1, <3>2
  <2> QED
    BY <2>6 DEF TaskConservation
<1>3. ASSUME NEW t \in Tasks, EnqueuePush(t) PROVE TaskConservation'
  <2>1. t \notin tasks_ /\ t \notin Held /\ runs[t] = 0
    BY <1>3 DEF EnqueuePush, TaskConservation
  <2>2. Held' = Held
    BY <1>3 DEF EnqueuePush, Held
  <2> QED
    BY <1>3, <2>1, <2>2 DEF EnqueuePush, TaskConservation
<1>4. CASE UNCHANGED <<task, tasks_, runs, submitted>>
  BY <1>4 DEF TaskConservation, Held
<1> QED
  BY <1>1, <1>2, <1>3, <1>4, MovesOnly

(* A task that is run is due, and the clock never goes back.                *)
LEMMA NoEarlyStep ==
  TypeOK /\ TaskInv /\ NoEarlyRun /\ [Next]_vars => NoEarlyRun'
<1> SUFFICES ASSUME TypeOK, TaskInv, NoEarlyRun, [Next]_vars PROVE NoEarlyRun'
  OBVIOUS
<1> USE PoolAssumption DEF PoolAssumption, TypeOK, NoEarlyRun
<1>1. now' >= now /\ now' \in Int
  BY DEF Next, vars, WorkerStep, ClientStep, Acquire, Check, Block, Return,
         Pop, Start, Awake, Run, SpuriousWake, SpawnWorker, ConstructorReturns,
         EnqueuePush, EnqueueNotify, DestroyStop, DestroyNotify, DestroyJoin, Tick
<1>2. ASSUME NEW w \in Workers, Run(w) PROVE NoEarlyRun'
  <2>1. task[w] \in Tasks /\ now >= StartTime[task[w]]
    BY <1>2 DEF Run, TaskInv, WithTask
  <2> QED
    BY <1>2, <2>1 DEF Run
<1>3. CASE UNCHANGED runs
  BY <1>1, <1>3
<1> QED
  BY <1>2, <1>3, MovesOnly DEF Pop, EnqueuePush

(* Sizes of the two sets WorkConserving compares.                           *)
LEMMA Sizes ==
  TypeOK => /\ IsFiniteSet(tasks_) /\ Cardinality(tasks_) \in Nat
            /\ IsFiniteSet(Claimants) /\ Cardinality(Claimants) \in Nat
<1> SUFFICES ASSUME TypeOK
             PROVE  /\ IsFiniteSet(tasks_) /\ Cardinality(tasks_) \in Nat
                    /\ IsFiniteSet(Claimants) /\ Cardinality(Claimants) \in Nat
  OBVIOUS
<1>1. IsFiniteSet(tasks_) /\ IsFiniteSet(Claimants)
  BY PoolAssumption, FS_Subset DEF PoolAssumption, TypeOK, Claimants
<1> QED
  BY <1>1, FS_CardinalityType

(* A worker that sets off for the queue adds one to the claimants.          *)
LEMMA OneMoreClaimant ==
  ASSUME TypeOK, NEW w \in Workers, pc[w] \notin {"acquire", "check", "decide"},
         Goto(w, "acquire")
  PROVE  Cardinality(Claimants') = Cardinality(Claimants) + 1
<1>1. Claimants' = Claimants \cup {w} /\ w \notin Claimants
  BY DEF TypeOK, Claimants, Goto
<1> QED
  BY <1>1, Sizes, FS_AddElement

(* Two facts of arithmetic, for the bound below.                            *)
LEMMA ZeroIsLeast == \A q, c, o \in Nat : q = 0 => q <= c + o
OBVIOUS

LEMMA OneClaimsForOneOwed ==
  \A q, c, r, o \in Nat : q <= c + 1 /\ r = c + 1 => q <= r + o
OBVIOUS

(* The work-conserving bound is inductive given the locking discipline.     *)
LEMMA WorkConservingStep ==
  TypeOK /\ TaskInv /\ QueueInv /\ WorkConserving /\ [Next]_vars
    => WorkConserving'
<1> SUFFICES ASSUME TypeOK, TaskInv, QueueInv, WorkConserving, [Next]_vars
             PROVE  WorkConserving'
  OBVIOUS
<1> DEFINE owed == IF client = "notify" THEN 1 ELSE 0
           someWaits == \E w \in Workers : pc[w] = "waiting"
           q == Cardinality(tasks_)
           c == Cardinality(Claimants)
<1>a. /\ q \in Nat /\ c \in Nat /\ owed \in Nat
      /\ q' \in Nat /\ c' \in Nat /\ owed' \in Nat
  <2>1. TypeOK'
    BY TypeStep
  <2>2. IsFiniteSet(tasks_') /\ IsFiniteSet(Claimants')
    BY <2>1, PoolAssumption, FS_Subset DEF PoolAssumption, TypeOK, Claimants
  <2>3. q' \in Nat /\ c' \in Nat
    BY <2>2, FS_CardinalityType
  <2> QED
    BY Sizes, <2>3
<1>b. someWaits => q <= c + owed
  BY DEF WorkConserving
<1>c. WorkConserving' <=> (someWaits' => q' <= c' + owed')
  BY DEF WorkConserving
<1> HIDE DEF owed, someWaits, q, c
<1>1. ASSUME NEW w \in Workers, Acquire(w) PROVE WorkConserving'
  <2>1. Claimants' = Claimants /\ someWaits' = someWaits
    BY <1>1 DEF Acquire, Goto, TypeOK, Claimants, someWaits
  <2>2. UNCHANGED <<tasks_, client>>
    BY <1>1 DEF Acquire
  <2> QED
    BY <1>b, <1>c, <2>1, <2>2 DEF q, c, owed
<1>2. ASSUME NEW w \in Workers, Check(w) PROVE WorkConserving'
  <2>1. CASE tasks_ = {}
    <3>1. q' = 0
      BY <1>2, <2>1, FS_EmptySet DEF Check, q
    <3>2. q' <= c' + owed'
      BY <3>1, <1>a, ZeroIsLeast, Zenon
    <3> QED
      BY <3>2, <1>c
  <2>2. CASE tasks_ # {}
    <3>1. Claimants' = Claimants /\ someWaits' = someWaits
      BY <1>2, <2>2 DEF Check, WaitPredicate, Goto, TypeOK, Claimants, someWaits
    <3>2. UNCHANGED <<tasks_, client>>
      BY <1>2 DEF Check
    <3> QED
      BY <1>b, <1>c, <3>1, <3>2 DEF q, c, owed
  <2> QED
    BY <2>1, <2>2
<1>3. ASSUME NEW w \in Workers, Block(w) \/ Return(w) PROVE WorkConserving'
  <2>1. tasks_' = {}
    BY <1>3 DEF Block, Return, ShouldReturn, QueueInv
  <2>2. q' = 0
    BY <2>1, FS_EmptySet DEF q
  <2>3. q' <= c' + owed'
    BY <2>2, <1>a, ZeroIsLeast, Zenon
  <2> QED
    BY <2>3, <1>c
<1>4. ASSUME NEW w \in Workers, Pop(w) PROVE WorkConserving'
  <2>1. PICK p \in tasks_ : tasks_' = tasks_ \ {p}
    BY <1>4 DEF Pop, Top
  <2>2. q' = q - 1
    BY <2>1, Sizes, FS_RemoveElement DEF q
  <2>3. /\ Claimants' = Claimants \ {w} /\ w \in Claimants
        /\ someWaits' = someWaits /\ owed' = owed
    BY <1>4 DEF Pop, Goto, TypeOK, Claimants, someWaits, owed
  <2>4. c' = c - 1
    BY <2>3, Sizes, FS_RemoveElement DEF c
  <2> QED
    BY <1>a, <1>b, <1>c, <2>2, <2>3, <2>4
<1>5. ASSUME NEW w \in Workers, Start(w) \/ Awake(w) PROVE WorkConserving'
  <2>1. Claimants' = Claimants /\ someWaits' = someWaits
    BY <1>5 DEF Start, Awake, Goto, TypeOK, Claimants, someWaits
  <2>2. UNCHANGED <<tasks_, client>>
    BY <1>5 DEF Start, Awake
  <2> QED
    BY <1>b, <1>c, <2>1, <2>2 DEF q, c, owed
<1>6. ASSUME NEW w \in Workers, Run(w) \/ SpuriousWake(w) \/ SpawnWorker(w)
      PROVE  WorkConserving'
  <2>1. /\ pc[w] \notin {"acquire", "check", "decide"} /\ Goto(w, "acquire")
        /\ UNCHANGED <<tasks_, client>>
    BY <1>6 DEF Run, SpuriousWake, SpawnWorker
  <2>2. c' = c + 1
    BY <2>1, OneMoreClaimant DEF c
  <2>3. someWaits' => someWaits
    BY <2>1 DEF Goto, TypeOK, someWaits
  <2> QED
    BY <1>a, <1>b, <1>c, <2>1, <2>2, <2>3 DEF q, owed
<1>7. ASSUME NEW t \in Tasks, EnqueuePush(t) PROVE WorkConserving'
  <2>1. q' <= q + 1
    <3>1. IsFiniteSet(tasks_) /\ tasks_' = tasks_ \cup {t}
      BY <1>7, Sizes DEF EnqueuePush
    <3>2. \/ Cardinality(tasks_ \cup {t}) = Cardinality(tasks_)
          \/ Cardinality(tasks_ \cup {t}) = Cardinality(tasks_) + 1
      BY <3>1, FS_AddElement
    <3> QED
      BY <3>1, <3>2, <1>a DEF q
  <2>2. owed = 0 /\ owed' = 1
    BY <1>7 DEF EnqueuePush, owed
  <2>3. c' = c /\ someWaits' = someWaits
    BY <1>7 DEF EnqueuePush, c, Claimants, someWaits
  <2> QED
    BY <1>a, <1>b, <1>c, <2>1, <2>2, <2>3
<1>8. CASE EnqueueNotify
  <2>1. CASE someWaits
    <3>1. PICK w \in Workers : pc[w] = "waiting" /\ Goto(w, "acquire")
      BY <1>8, <2>1 DEF EnqueueNotify, someWaits
    <3>2. c' = c + 1
      BY <3>1, OneMoreClaimant DEF c
    <3>3. q' = q /\ owed = 1
      BY <1>8 DEF EnqueueNotify, q, owed
    <3>4. q' <= c + 1
      BY <1>b, <2>1, <3>3, Zenon
    <3>5. q' <= c' + owed'
      BY <1>a, <3>2, <3>4, OneClaimsForOneOwed, Zenon
    <3> QED
      BY <3>5, <1>c
  <2>2. CASE ~someWaits
    <3>1. ~someWaits'
      BY <1>8, <2>2 DEF EnqueueNotify, someWaits
    <3> QED
      BY <3>1, <1>c
  <2> QED
    BY <2>1, <2>2
<1>9. CASE DestroyNotify
  <2>1. ~someWaits'
    BY <1>9 DEF DestroyNotify, someWaits, TypeOK
  <2> QED
    BY <2>1, <1>c
<1>10. CASE ConstructorReturns \/ DestroyStop \/ DestroyJoin \/ Tick \/ UNCHANGED vars
  <2>1. /\ UNCHANGED <<pc, tasks_>>
        /\ owed' = owed
    BY <1>10 DEF ConstructorReturns, DestroyStop, DestroyJoin, Tick, vars, owed
  <2>2. Claimants' = Claimants /\ someWaits' = someWaits
    BY <2>1 DEF Claimants, someWaits
  <2> QED
    BY <1>b, <1>c, <2>1, <2>2 DEF q, c
<1> QED
  BY <1>1, <1>2, <1>3, <1>4, <1>5, <1>6, <1>7, <1>8, <1>9, <1>10
     DEF Next, WorkerStep, ClientStep

(* All the parts together are inductive ...                                 *)
LEMMA IInvStep == IInv /\ [Next]_vars => IInv'
BY TypeStep, LockStep, TaskStep, ClientStepInv, QueueStep, WindowStep,
   ConservationStep, NoEarlyStep, WorkConservingStep DEF IInv

(* ... hence invariant.                                                     *)
THEOREM Invariance == Spec => []IInv
BY InitIInv, IInvStep, PTL DEF Spec
-----------------------------------------------------------------------------
(* Every variable keeps its type: in particular runs never leaves Nat and   *)
(* mutex_ always names a worker or nobody.                                  *)
THEOREM TypeCorrect == Spec => []TypeOK
<1>1. IInv => TypeOK
  BY DEF IInv
<1> QED
  BY <1>1, Invariance, PTL

(* Tasks are neither lost nor duplicated between enqueue, top/pop and run.  *)
THEOREM Conservation == Spec => []TaskConservation
<1>1. IInv => TaskConservation
  BY DEF IInv
<1> QED
  BY <1>1, Invariance, PTL

(* No work is called before its task's start time.                          *)
THEOREM OnTime == Spec => []NoEarlyRun
<1>1. IInv => NoEarlyRun
  BY DEF IInv
<1> QED
  BY <1>1, Invariance, PTL

(* enqueue's single notify_one after the unlock never strands a task.       *)
THEOREM NoLostEnqueueWakeup == Spec => []WorkConserving
<1>1. IInv => WorkConserving
  BY DEF IInv
<1> QED
  BY <1>1, Invariance, PTL

(* The destructor returns only from a drained pool.                         *)
THEOREM DestructorDrains == Spec => []DrainedOnDestroy
<1>1. IInv => DrainedOnDestroy
  <2> SUFFICES ASSUME IInv, client = "destroyed" PROVE DrainedOnDestroy
    BY DEF DrainedOnDestroy
  <2>1. \A w \in Workers : pc[w] = "done" /\ task[w] = NoTask
    BY DEF IInv, ClientInv, TaskInv, WithTask
  <2>2. tasks_ = {}
    BY <2>1, PoolAssumption DEF PoolAssumption, IInv, QueueInv
  <2>3. Held = {}
    BY <2>1 DEF Held
  <2>4. \A t \in submitted : runs[t] = 1
    BY <2>2, <2>3 DEF IInv, TypeOK, TaskConservation
  <2> QED
    BY <2>1, <2>2, <2>4 DEF DrainedOnDestroy
<1> QED
  BY <1>1, Invariance, PTL

(* The destructor's wakeup can be lost only to a worker caught between its  *)
(* test of the predicate and its going to sleep.                            *)
THEOREM OnlyLostStop == Spec => []LostStopWindow
<1>1. IInv => LostStopWindow
  BY DEF IInv, WindowInv, LostStopWindow
<1> QED
  BY <1>1, Invariance, PTL
-----------------------------------------------------------------------------
(* The thread pool implements TaskPool: the initial states correspond, and  *)
(* every step of a thread is a step of the promise or none at all.          *)

LEMMA InitRefines == Init => Pool!Init
<1> SUFFICES ASSUME Init PROVE Pool!Init
  OBVIOUS
<1>1. Held = {} /\ tasks_ = {} /\ \A t \in Tasks : runs[t] = 0
  BY DEF Init, Held
<1>2. status = [t \in Tasks |-> "new"]
  BY <1>1 DEF status, StatusOf
<1> QED
  BY <1>2 DEF Init, phase, Pool!Init

(* EnqueuePush hands the task over.                                         *)
LEMMA PushRefines ==
  ASSUME TypeOK, TaskConservation, ClientInv, NEW t \in Tasks, EnqueuePush(t)
  PROVE  Pool!Submit(t)
<1>1. t \notin tasks_ /\ t \notin Held /\ runs[t] = 0
  BY DEF EnqueuePush, TaskConservation, TypeOK
<1>2. Held' = Held /\ runs' = runs /\ tasks_' = tasks_ \cup {t} /\ now' = now
  BY DEF EnqueuePush, Held
<1>3. status[t] = "new"
  BY <1>1 DEF status, StatusOf
<1>4. status' = [status EXCEPT ![t] = "queued"]
  BY <1>1, <1>2 DEF status, StatusOf
<1>5. phase = "open" /\ phase' = "open"
  BY DEF EnqueuePush, phase
<1> QED
  BY <1>2, <1>3, <1>4, <1>5 DEF Pool!Submit

(* Pop claims a task that no other queued task precedes.                    *)
LEMMA PopRefines ==
  ASSUME TypeOK, TaskInv, TaskConservation, NEW w \in Workers, Pop(w)
  PROVE  \E t \in Tasks : Pool!Claim(t)
<1>1. PICK p \in Top(tasks_) : /\ task' = [task EXCEPT ![w] = p]
                               /\ tasks_' = tasks_ \ {p}
  BY DEF Pop
<1>2. p \in tasks_ /\ p \in Tasks /\ \A u \in tasks_ : ~TaskComparator(p, u)
  BY <1>1 DEF Top, TypeOK
<1>3. task[w] = NoTask /\ UNCHANGED <<runs, client, now>>
  BY DEF Pop, TaskInv, WithTask
<1>4. Held' = Held \cup {p}
  BY <1>1, <1>2, <1>3, PoolAssumption DEF Held, TypeOK, PoolAssumption
<1>5. p \notin Held
  BY <1>2 DEF TaskConservation
<1>6. status[p] = "queued"
  BY <1>2 DEF status, StatusOf
<1>7. status' = [status EXCEPT ![p] = "claimed"]
  BY <1>1, <1>2, <1>3, <1>4, <1>5 DEF status, StatusOf
<1>8. ASSUME NEW u \in Tasks, status[u] = "queued" PROVE ~Pool!Precedes(u, p)
  <2>1. u \in tasks_
    BY <1>8 DEF status, StatusOf
  <2>2. ~TaskComparator(p, u)
    BY <1>2, <2>1
  <2> QED
    BY <2>2, <1>2, PoolAssumption DEF PoolAssumption, TaskComparator, Pool!Precedes
<1>9. phase' = phase
  BY <1>3 DEF phase
<1> QED
  BY <1>2, <1>3, <1>6, <1>7, <1>8, <1>9 DEF Pool!Claim

(* Run runs the task its worker claimed, in time.                           *)
LEMMA RunRefines ==
  ASSUME TypeOK, TaskInv, TaskConservation, NEW w \in Workers, Run(w)
  PROVE  \E t \in Tasks : Pool!Run(t)
<1>0. task[w] \in Tasks /\ task[w] \in Held /\ now >= StartTime[task[w]]
  BY DEF Run, TaskInv, WithTask, Held, TypeOK
<1> PICK r \in Tasks : r = task[w]
  BY <1>0
<1>1. r \in Held /\ now >= StartTime[r]
  BY <1>0
<1>2. /\ task' = [task EXCEPT ![w] = NoTask]
      /\ runs' = [runs EXCEPT ![r] = @ + 1]
      /\ UNCHANGED <<tasks_, client, now>>
  BY DEF Run
<1>3. r \notin tasks_ /\ runs[r] = 0 /\ \A v \in Workers : task[v] = r => v = w
  BY <1>1 DEF TaskConservation
<1>4. Held' = Held \ {r}
  BY <1>1, <1>2, <1>3, PoolAssumption DEF Held, TypeOK, PoolAssumption
<1>5. status[r] = "claimed"
  BY <1>1, <1>3 DEF status, StatusOf
<1>6. status' = [status EXCEPT ![r] = "done"]
  <2>1. runs'[r] = 1 /\ \A t \in Tasks \ {r} : runs'[t] = runs[t]
    BY <1>1, <1>2, <1>3 DEF TypeOK
  <2> QED
    <3>1. StatusOf(r)' = "done"
      BY <1>2, <1>3, <1>4, <2>1 DEF StatusOf
    <3>2. ASSUME NEW t \in Tasks \ {r} PROVE StatusOf(t)' = StatusOf(t)
      BY <1>2, <1>4, <2>1 DEF StatusOf
    <3> QED
      BY <3>1, <3>2 DEF status
<1>7. phase' = phase
  BY <1>2 DEF phase
<1> QED
  BY <1>1, <1>2, <1>5, <1>6, <1>7 DEF Pool!Run

(* The destructor returns when nothing is queued or claimed.                *)
LEMMA JoinRefines ==
  ASSUME TypeOK, TaskInv, QueueInv, TaskConservation, DestroyJoin
  PROVE  Pool!Finish
<1>1. \A w \in Workers : pc[w] = "done" /\ task[w] = NoTask
  BY DEF DestroyJoin, TaskInv, WithTask
<1>2. tasks_ = {} /\ Held = {}
  BY <1>1, PoolAssumption DEF PoolAssumption, QueueInv, Held
<1>3. \A t \in Tasks : status[t] \in {"new", "done"}
  BY <1>2 DEF status, StatusOf
<1>4. UNCHANGED <<status, now>>
  BY DEF DestroyJoin, status, StatusOf, Held
<1>5. phase = "closing" /\ phase' = "closed"
  BY DEF DestroyJoin, phase
<1> QED
  BY <1>3, <1>4, <1>5 DEF Pool!Finish

(* Every other step of a worker or of the client is hidden.                 *)
LEMMA HiddenSteps ==
  ASSUME UNCHANGED <<task, tasks_, runs, now>>, phase' = phase
  PROVE  UNCHANGED Pool!poolVars
BY DEF Pool!poolVars, status, StatusOf, Held

LEMMA StepRefines == IInv /\ [Next]_vars => [Pool!Next]_(Pool!poolVars)
<1> SUFFICES ASSUME IInv, [Next]_vars PROVE [Pool!Next]_(Pool!poolVars)
  OBVIOUS
<1> USE DEF IInv
<1>1. ASSUME NEW t \in Tasks, EnqueuePush(t) PROVE Pool!Next
  BY <1>1, PushRefines DEF Pool!Next
<1>2. ASSUME NEW w \in Workers, Pop(w) PROVE Pool!Next
  BY <1>2, PopRefines DEF Pool!Next
<1>3. ASSUME NEW w \in Workers, Run(w) PROVE Pool!Next
  BY <1>3, RunRefines DEF Pool!Next
<1>4. CASE DestroyJoin
  BY <1>4, JoinRefines DEF Pool!Next
<1>5. CASE DestroyStop
  <2>1. UNCHANGED <<status, now>>
    BY <1>5 DEF DestroyStop, status, StatusOf, Held
  <2>2. phase = "open" /\ phase' = "closing"
    BY <1>5 DEF DestroyStop, phase
  <2> QED
    BY <2>1, <2>2 DEF Pool!Close, Pool!Next
<1>6. CASE Tick
  <2>1. UNCHANGED <<status, phase>>
    BY <1>6 DEF Tick, status, StatusOf, Held, phase
  <2> QED
    BY <1>6, <2>1 DEF Tick, Pool!Tick, Pool!Next
<1>7. ASSUME NEW w \in Workers,
             Acquire(w) \/ Check(w) \/ Block(w) \/ Return(w) \/ Start(w)
               \/ Awake(w) \/ SpuriousWake(w) \/ SpawnWorker(w)
      PROVE  UNCHANGED Pool!poolVars
  BY <1>7, HiddenSteps DEF Acquire, Check, Block, Return, Start, Awake,
                           SpuriousWake, SpawnWorker, phase
<1>8. CASE ConstructorReturns \/ EnqueueNotify \/ DestroyNotify \/ UNCHANGED vars
  BY <1>8, HiddenSteps DEF ConstructorReturns, EnqueueNotify, DestroyNotify,
                           vars, phase
<1> QED
  BY <1>1, <1>2, <1>3, <1>4, <1>5, <1>6, <1>7, <1>8
     DEF Next, WorkerStep, ClientStep

(* The thread pool keeps the scheduler's promise: tasks are claimed by      *)
(* start time and priority, run once and on time, and drained before the    *)
(* destructor returns.                                                      *)
THEOREM Refinement == Spec => ImplementsTaskPool
BY InitRefines, Invariance, StepRefines, PTL DEF Spec, ImplementsTaskPool, Pool!Spec
=============================================================================
