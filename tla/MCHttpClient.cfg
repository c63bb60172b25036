CONSTANTS
  Requests = {r1, r2, r3}
  PoolSize = 2
  Hanging = {r1}
  Throwing = {r2}
SPECIFICATION FairSpec
INVARIANTS OneCallUnlessItThrew JoinIsWoken
PROPERTIES EveryRequestAnswered DestructorReturns
CHECK_DEADLOCK FALSE
