SPECIFICATION ConnectionFairSpec
CONSTANTS
  None = None
  Requests <- MCRequests
  ChunkMax = 3
  MaxChanges = 2
INVARIANTS
  VerdictOfRequest
  RightWhenQuiet
  ContentWasRight
PROPERTY
  CompleteRequestAnswered
\* An answered connection is over.
CHECK_DEADLOCK FALSE
