SPECIFICATION FairSpec
CONSTANTS
  s1 = s1
  s2 = s2
  c1 = c1
  c2 = c2
  None = None
  Setups <- MCSetups
  FifoCap = 1
INVARIANTS
  LogsUnlessOverlapped
  ClientsPerLifetime
PROPERTIES
  EveryMessageLogged
  ChildrenFollow
\* A server that has died, or waits for clients that never come, stops.
CHECK_DEADLOCK FALSE
