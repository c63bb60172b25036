CONSTANTS
  Producers = {p1, p2}
  PerProducer = 3
  Capacity = 2
SPECIFICATION FairSpec
INVARIANTS TakenInOrder NoLostWakeup
PROPERTIES QueueIsDrained StopReturns
CHECK_DEADLOCK FALSE
