CONSTANTS
  OrderIds = {o1, o2, o3}
  MaxQuantity = 2
SPECIFICATION Spec
INVARIANT FilledIsWhole
 
SYMMETRY Symmetry
CHECK_DEADLOCK FALSE
