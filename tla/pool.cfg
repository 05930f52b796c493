SPECIFICATION FairSpec
CONSTANTS
  w1 = w1
  w2 = w2
  w3 = w3
  t1 = t1
  t2 = t2
  t3 = t3
  NoTask = NoTask
  Free = Free
  Workers <- MCWorkers3
  Tasks <- MCTasks3
  StartTime <- MCStart3
  Priority <- MCPriority3
  Horizon = 2
INVARIANTS
  TaskConservation
  WorkConserving
  LostStopWindow
PROPERTIES
  ImplementsTaskPool
  EveryTaskRuns
  DestroyedUnlessMissed
\* The client may never destroy the pool, and a destroyed pool does nothing.
CHECK_DEADLOCK FALSE
