CONSTANTS
  PendingRefs = {p1, p2}
  OrderIds = {o1, o2}
  NumFilters = 2
  RiskFlags = {TRUE, FALSE}
SPECIFICATION FairSpec
INVARIANTS EntryGated CloseBeforeEntry
PROPERTIES TrackedUntilFinal CloseIsRetried
