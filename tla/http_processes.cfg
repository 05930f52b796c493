SPECIFICATION FairSpec
CONSTANTS
  c1 = c1
  c2 = c2
  NoConn = NoConn
  Conns <- MCConns
  OutputMax = 2
  PipeCap = 1
  SockCap = 1
INVARIANTS
  NoStrandedZombie
  OutputComplete
PROPERTIES
  EveryRequestAnswered
  ConnectionsClosed
\* A server nobody connects to again does nothing.
CHECK_DEADLOCK FALSE
