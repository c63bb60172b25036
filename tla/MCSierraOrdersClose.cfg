CONSTANTS
  OrderIds = {o1, o2}
  MaxQuantity = 2
SPECIFICATION FairSpec
PROPERTY CloseReturns
CHECK_DEADLOCK FALSE
