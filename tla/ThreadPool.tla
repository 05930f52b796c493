----------------------------- MODULE ThreadPool -----------------------------
(***************************************************************************)
(* scheduler/: the ThreadPool behind Scheduler, with its worker threads,   *)
(* the mutex, the condition variable, the priority queue of tasks and the  *)
(* client thread that constructs, feeds and destroys it.                   *)
(*                                                                         *)
(* mutex_ is held across steps only by workers (between taking it and      *)
(* blocking or popping); enqueue's critical section touches tasks_ alone   *)
(* and is one step.  stop_ is an atomic written WITHOUT the mutex, so its  *)
(* write interleaves with a worker's test of the wait predicate.           *)
(***************************************************************************)
EXTENDS Integers, FiniteSets

CONSTANTS
  Workers,     (* the pool's threads                                        *)
  Tasks,       (* the tasks the client may add, each at most once           *)
  StartTime,   (* [Tasks -> Nat], Task::startTime()                         *)
  Priority,    (* [Tasks -> Int], Task::priority()                          *)
  Horizon,     (* bound of the clock: system_clock counts 0..Horizon        *)
  NoTask,      (* a worker holds no task                                    *)
  Free         (* nobody holds the mutex                                    *)

ASSUME PoolAssumption ==
  /\ Workers # {} /\ IsFiniteSet(Workers) /\ Free \notin Workers
  /\ IsFiniteSet(Tasks) /\ NoTask \notin Tasks
  /\ StartTime \in [Tasks -> Nat] /\ Priority \in [Tasks -> Int]
  /\ Horizon \in Nat /\ \A t \in Tasks : StartTime[t] <= Horizon

VARIABLES
  pc,          (* where each worker is in the lambda of the constructor     *)
  task,        (* newTask of each worker, NoTask when it has none           *)
  tasks_,      (* the priority queue                                        *)
  mutex_,      (* the worker that holds mutex_, or Free                     *)
  stop_,       (* the stop flag                                             *)
  client,      (* where the client thread is                                *)
  now,         (* system_clock::now()                                       *)
  runs,        (* how often each task's work was called                     *)
  submitted,   (* history: the tasks enqueued so far                        *)
  missed       (* history: workers about to block when notify_all ran       *)

vars == <<pc, task, tasks_, mutex_, stop_, client, now, runs, submitted, missed>>

WorkerPc == {"unborn", "acquire", "check", "block", "waiting",
             "decide", "start", "sleep", "run", "done"}
ClientPc == {"construct", "idle", "notify", "stopping", "join", "destroyed"}

TypeOK ==
  /\ pc \in [Workers -> WorkerPc]
  /\ task \in [Workers -> Tasks \cup {NoTask}]
  /\ tasks_ \subseteq Tasks
  /\ mutex_ \in Workers \cup {Free}
  /\ stop_ \in BOOLEAN
  /\ client \in ClientPc
  /\ now \in 0..Horizon
  /\ runs \in [Tasks -> Nat]
  /\ submitted \subseteq Tasks
  /\ missed \subseteq Workers
-----------------------------------------------------------------------------
(* TaskComparator: TRUE when a comes after b in the queue.                  *)
TaskComparator_Reversed(a, b) ==
  IF StartTime[a] # StartTime[b] THEN StartTime[a] > StartTime[b]
                                 ELSE Priority[a] < Priority[b]

TaskComparator(a, b) ==
  IF StartTime[a] # StartTime[b] THEN StartTime[a] > StartTime[b]
                                 ELSE Priority[a] > Priority[b]

(* What tasks_.top() may return: std::priority_queue keeps some element     *)
(* that the comparator puts after no other at the top.                      *)
Top(q) == {t \in q : \A u \in q : ~TaskComparator(t, u)}

Init ==
  /\ pc = [w \in Workers |-> "unborn"]
  /\ task = [w \in Workers |-> NoTask]
  /\ tasks_ = {}
  /\ mutex_ = Free
  /\ stop_ = FALSE
  /\ client = "construct"
  /\ now = 0
  /\ runs = [t \in Tasks |-> 0]
  /\ submitted = {}
  /\ missed = {}

Goto(w, label) == pc' = [pc EXCEPT ![w] = label]
-----------------------------------------------------------------------------
(* The client: constructor, enqueue, destructor.                            *)

(* threads_.emplace_back: the thread starts while the loop goes on.         *)
SpawnWorker(w) ==
  /\ client = "construct"
  /\ pc[w] = "unborn"
  /\ Goto(w, "acquire")
  /\ UNCHANGED <<task, tasks_, mutex_, stop_, client, now, runs, submitted, missed>>

ConstructorReturns ==
  /\ client = "construct"
  /\ \A w \in Workers : pc[w] # "unborn"
  /\ client' = "idle"
  /\ UNCHANGED <<pc, task, tasks_, mutex_, stop_, now, runs, submitted, missed>>

(* Scheduler::addTask -> ThreadPool::enqueue: push under the mutex ...      *)
EnqueuePush(t) ==
  /\ client = "idle"
  /\ t \notin submitted
  /\ mutex_ = Free
  /\ tasks_' = tasks_ \cup {t}
  /\ submitted' = submitted \cup {t}
  /\ client' = "notify"
  /\ UNCHANGED <<pc, task, mutex_, stop_, now, runs, missed>>

(* ... and, after releasing it, cv_.notify_one(): one waiter, if any.       *)
EnqueueNotify_Dropped ==
  /\ client = "notify"
  /\ client' = "idle"
  /\ UNCHANGED <<pc, task, tasks_, mutex_, stop_, now, runs, submitted, missed>>

EnqueueNotify ==
  /\ client = "notify"
  /\ client' = "idle"
  /\ \/ \E w \in Workers : pc[w] = "waiting" /\ Goto(w, "acquire")
     \/ (\A w \in Workers : pc[w] # "waiting") /\ UNCHANGED pc
  /\ UNCHANGED <<task, tasks_, mutex_, stop_, now, runs, submitted, missed>>

(* ~ThreadPool: stop_ = true, with no lock held ...                         *)
DestroyStop ==
  /\ client = "idle"
  /\ client' = "stopping"
  /\ stop_' = TRUE
  /\ UNCHANGED <<pc, task, tasks_, mutex_, now, runs, submitted, missed>>

(* ... cv_.notify_all(): everyone who waits NOW ...                         *)
DestroyNotifyOne ==
  /\ client = "stopping"
  /\ client' = "join"
  /\ \/ \E w \in Workers : pc[w] = "waiting" /\ Goto(w, "acquire")
     \/ (\A w \in Workers : pc[w] # "waiting") /\ UNCHANGED pc
  /\ missed' = {w \in Workers : pc[w] = "block"}
  /\ UNCHANGED <<task, tasks_, mutex_, stop_, now, runs, submitted>>

DestroyNotify ==
  /\ client = "stopping"
  /\ client' = "join"
  /\ pc' = [w \in Workers |-> IF pc[w] = "waiting" THEN "acquire" ELSE pc[w]]
  /\ missed' = {w \in Workers : pc[w] = "block"}
  /\ UNCHANGED <<task, tasks_, mutex_, stop_, now, runs, submitted>>

(* ... and the join loop, which ends when the last thread has returned.     *)
DestroyJoin ==
  /\ client = "join"
  /\ \A w \in Workers : pc[w] = "done"
  /\ client' = "destroyed"
  /\ UNCHANGED <<pc, task, tasks_, mutex_, stop_, now, runs, submitted, missed>>
-----------------------------------------------------------------------------
(* A worker: the lambda run by each thread.                                 *)

(* unique_lock: on entry to the loop, or again inside wait after a wakeup.  *)
Acquire(w) ==
  /\ pc[w] = "acquire"
  /\ mutex_ = Free
  /\ mutex_' = w
  /\ Goto(w, "check")
  /\ UNCHANGED <<task, tasks_, stop_, client, now, runs, submitted, missed>>

WaitPredicate == stop_ \/ tasks_ # {}

(* cv_.wait tests its predicate with the mutex held.                        *)
Check(w) ==
  /\ pc[w] = "check"
  /\ Goto(w, IF WaitPredicate THEN "decide" ELSE "block")
  /\ UNCHANGED <<task, tasks_, mutex_, stop_, client, now, runs, submitted, missed>>

(* The predicate was false: release the mutex and join the waiters, which   *)
(* is atomic towards the mutex but comes after the test of stop_.           *)
Block(w) ==
  /\ pc[w] = "block"
  /\ mutex_' = Free
  /\ Goto(w, "waiting")
  /\ UNCHANGED <<task, tasks_, stop_, client, now, runs, submitted, missed>>

(* A condition variable may wake a waiter nobody notified.                  *)
SpuriousWake(w) ==
  /\ pc[w] = "waiting"
  /\ Goto(w, "acquire")
  /\ UNCHANGED <<task, tasks_, mutex_, stop_, client, now, runs, submitted, missed>>

(* if (stop_ && tasks_.empty()) return;                                     *)
ShouldReturn == stop_ /\ tasks_ = {}

Return(w) ==
  /\ pc[w] = "decide"
  /\ ShouldReturn
  /\ mutex_' = Free
  /\ Goto(w, "done")
  /\ UNCHANGED <<task, tasks_, stop_, client, now, runs, submitted, missed>>

(* newTask = move(tasks_.top()); tasks_.pop(); and the end of the lock.     *)
Pop_NoPop(w) ==
  /\ pc[w] = "decide"
  /\ ~ShouldReturn
  /\ \E t \in Top(tasks_) : task' = [task EXCEPT ![w] = t]
  /\ mutex_' = Free
  /\ Goto(w, "start")
  /\ UNCHANGED <<tasks_, stop_, client, now, runs, submitted, missed>>

Pop(w) ==
  /\ pc[w] = "decide"
  /\ ~ShouldReturn
  /\ \E t \in Top(tasks_) :
       /\ task' = [task EXCEPT ![w] = t]
       /\ tasks_' = tasks_ \ {t}
  /\ mutex_' = Free
  /\ Goto(w, "start")
  /\ UNCHANGED <<stop_, client, now, runs, submitted, missed>>

(* if (now < newTask.startTime()) sleep_until(newTask.startTime());         *)
TooEarly(t) == now < StartTime[t]

Start(w) ==
  /\ pc[w] = "start"
  /\ Goto(w, IF TooEarly(task[w]) THEN "sleep" ELSE "run")
  /\ UNCHANGED <<task, tasks_, mutex_, stop_, client, now, runs, submitted, missed>>

(* sleep_until returns once the clock has reached the time it was given.    *)
Awake(w) ==
  /\ pc[w] = "sleep"
  /\ now >= StartTime[task[w]]
  /\ Goto(w, "run")
  /\ UNCHANGED <<task, tasks_, mutex_, stop_, client, now, runs, submitted, missed>>

(* newTask(); the task object dies with the iteration.                      *)
Run(w) ==
  /\ pc[w] = "run"
  /\ runs' = [runs EXCEPT ![task[w]] = @ + 1]
  /\ task' = [task EXCEPT ![w] = NoTask]
  /\ Goto(w, "acquire")
  /\ UNCHANGED <<tasks_, mutex_, stop_, client, now, submitted, missed>>
-----------------------------------------------------------------------------
(* The clock, which no thread controls.                                     *)
Tick ==
  /\ now < Horizon
  /\ now' = now + 1
  /\ UNCHANGED <<pc, task, tasks_, mutex_, stop_, client, runs, submitted, missed>>

(* Steps a thread takes once it can; SpuriousWake is not one of them.       *)
WorkerStep(w) ==
  \/ Acquire(w) \/ Check(w) \/ Block(w) \/ Return(w) \/ Pop(w)
  \/ Start(w) \/ Awake(w) \/ Run(w)

(* Steps the client takes inside a call; entering one is its own choice.    *)
ClientStep ==
  \/ \E w \in Workers : SpawnWorker(w)
  \/ ConstructorReturns
  \/ EnqueueNotify
  \/ DestroyNotify
  \/ DestroyJoin

Next ==
  \/ \E w \in Workers : WorkerStep(w) \/ SpuriousWake(w)
  \/ ClientStep
  \/ \E t \in Tasks : EnqueuePush(t)
  \/ DestroyStop
  \/ Tick

Spec == Init /\ [][Next]_vars

(* The operating system schedules every runnable thread, works return and   *)
(* the clock advances.  Nothing is assumed of spurious wakeups, nor that    *)
(* the client adds a task or destroys the pool.                             *)
Fairness ==
  /\ \A w \in Workers : WF_vars(WorkerStep(w))
  /\ WF_vars(ClientStep)
  /\ WF_vars(Tick)

FairSpec == Spec /\ Fairness
-----------------------------------------------------------------------------
Held == {task[w] : w \in Workers} \ {NoTask}

(* Every enqueued task is in exactly one place: in the queue, in the hands  *)
(* of exactly one worker, or run exactly once; a task never enqueued is in  *)
(* none.  Pop moves it under the mutex, Run drops it.                       *)
TaskConservation ==
  \A t \in Tasks :
    /\ runs[t] <= 1
    /\ \A v, w \in Workers : task[v] = t /\ task[w] = t => v = w
    /\ t \in tasks_ => t \notin Held /\ runs[t] = 0
    /\ t \in Held => runs[t] = 0
    /\ t \in submitted <=> (t \in tasks_ \/ t \in Held \/ runs[t] = 1)

(* A task's work is never called before its start time, whichever of the    *)
(* two branches (sleep or not) the worker took.                             *)
NoEarlyRun == \A t \in Tasks : runs[t] > 0 => now >= StartTime[t]

Claimants == {w \in Workers : pc[w] \in {"acquire", "check", "decide"}}

(* No lost wakeup on enqueue: while some worker sleeps in cv_.wait, there   *)
(* are at least as many workers on their way to the queue as there are      *)
(* queued tasks, counting the notify_one the client still owes.  It is why  *)
(* one notify_one per push is enough although it comes after the unlock.    *)
WorkConserving ==
  (\E w \in Workers : pc[w] = "waiting") =>
    Cardinality(tasks_) <=
      Cardinality(Claimants) + (IF client = "notify" THEN 1 ELSE 0)

(* The destructor returns only when every task ever enqueued has run, the   *)
(* queue is empty and no thread holds a task: stopping drains, it does not  *)
(* drop.                                                                    *)
DrainedOnDestroy ==
  client = "destroyed" =>
    /\ tasks_ = {}
    /\ \A w \in Workers : pc[w] = "done" /\ task[w] = NoTask
    /\ \A t \in submitted : runs[t] = 1

(* Once the destructor has notified, a worker still asleep is one that had  *)
(* tested the predicate before stop_ was set and had not yet blocked when   *)
(* notify_all ran: the only window in which the wakeup can be lost.         *)
LostStopWindow ==
  \A w \in Workers :
    client \in {"join", "destroyed"} /\ pc[w] = "waiting" => w \in missed

(* Every enqueued task is eventually run, although notifications are sent   *)
(* outside the lock and even if the destructor's notification is lost.      *)
EveryTaskRuns == \A t \in Tasks : (t \in submitted) ~> (runs[t] = 1)

(* The destructor returns unless a worker fell into the window above.       *)
DestroyedUnlessMissed ==
  (client = "stopping") ~> (client = "destroyed" \/ missed # {})

(* scheduler/src/main.cpp destroys its schedulers on return from main and   *)
(* then exits: the destructor is expected to return.  It does not always.   *)
DestructorReturns == (client = "stopping") ~> (client = "destroyed")
-----------------------------------------------------------------------------
(* The refinement mapping to TaskPool.                                      *)
StatusOf(t) ==
  IF t \in tasks_ THEN "queued"
  ELSE IF t \in Held THEN "claimed"
  ELSE IF runs[t] = 0 THEN "new" ELSE "done"

status == [t \in Tasks |-> StatusOf(t)]

phase ==
  IF client = "destroyed" THEN "closed" ELSE
  IF client \in {"stopping", "join"} THEN "closing" ELSE "open"

Pool == INSTANCE TaskPool WITH status <- status, phase <- phase, now <- now

(* The thread pool implements the promise of TaskPool: tasks are claimed in *)
(* (start time, priority) order, run once and on time, and drained.         *)
ImplementsTaskPool == Pool!Spec
=============================================================================
