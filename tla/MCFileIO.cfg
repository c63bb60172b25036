CONSTANTS
  Paths = {p1, p2}
  ReadOnly = {p2}
  QueueCap = 1
  MaxCalls = 3
SPECIFICATION FairSpec
INVARIANTS NewestStays
PROPERTIES ReadIsCurrent ReadReturns LoggedIsPrinted
CHECK_DEADLOCK FALSE
