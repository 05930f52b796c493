SPECIFICATION FairSpec
CONSTANTS
  w1 = w1
  w2 = w2
  w3 = w3
  t1 = t1
  t2 = t2
  t3 = t3
  NoTask = NoTask
  Free = Free
  Workers <- MCWorkers2
  Tasks <- MCTasks2
  StartTime <- MCStart2
  Priority <- MCPriority2
  Horizon = 1
PROPERTY
  DestructorReturns
\* The client may never destroy the pool, and a destroyed pool does nothing.
CHECK_DEADLOCK FALSE
