SPECIFICATION FairSpec
CONSTANTS
  p1 = p1
  p2 = p2
  k1 = k1
  k2 = k2
  k3 = k3
  cv = cv
  cv_producer = cv_producer
  cv_consumer = cv_consumer
  Free = Free
  Forever = Forever
  Programs <- MCPrograms
INVARIANTS
  NoLostWakeup
  OneWaiter
PROPERTIES
  ExchangeCompletes
  ImplementsExchange
\* The consumers of multiple_cons_work.cpp end up waiting.
CHECK_DEADLOCK FALSE
