SPECIFICATION FairSpec
CONSTANTS
  NoFile = NoFile
  Terminal = Terminal
  Names <- MCNames
  Cut <- MCCut
  Lines <- MCLines
  InitialKind <- MCKind
  InitialContent <- MCContent
  MaxLines = 2
  MaxTyped = 1
  MaxChanges = 1
  MaxLen = 4
  BufferCap = 1
INVARIANTS
  RunsAsWritten
  TouchedFilesStand
  EndOfInputNamesNoFile
  TokensFreedOnce
PROPERTY
  PromptReturns
\* A shell that has ended does nothing.
CHECK_DEADLOCK FALSE
