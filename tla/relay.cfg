SPECIFICATION FairSpec
CONSTANTS
  c1 = c1
  c2 = c2
  NoClient = NoClient
  Clients <- MCClients
  MaxMsgs = 2
  ReadMax = 2
  PipeCap = 1
  FifoCap = 2
INVARIANTS
  StreamIntact
  WatchesOpenFds
  HarmedOnlyByChildren
  LogInRelayOrder
PROPERTIES
  EveryMessageRelayed
  ChildrenEnd
\* A server that has died, or waits for clients that never come, stops.
CHECK_DEADLOCK FALSE
