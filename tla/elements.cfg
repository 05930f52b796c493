SPECIFICATION FairSpec
CONSTANTS
  p1 = p1
  p2 = p2
  k1 = k1
  k2 = k2
  Free = Free
  Producers <- MCProducers
  Consumers <- MCConsumers
  MAX = 2
  MaxProduced = 3
INVARIANTS
  Accounted
  LossIsBounded
  NoLostWakeup
PROPERTY
  EndsUnlessMissed
\* A finished program does nothing.
CHECK_DEADLOCK FALSE
