SPECIFICATION FairSpec
CONSTANTS
  w1 = w1
  w2 = w2
  w3 = w3
  w4 = w4
  Free = Free
  Main = Main
  Programs <- MCPrograms
INVARIANT
  HandedOver
PROPERTY
  MainEnds
\* A finished program does nothing.
CHECK_DEADLOCK FALSE
