CONSTANTS
  SignalKeys = {k1, k2}
  MaxId = 4
  Clients = {c1, c2}
SPECIFICATION ContainerSpec
INVARIANTS IndexAgrees OnePlace
PROPERTY ImplementsPool
