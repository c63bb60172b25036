CONSTANTS
  MaxTime = 2
  MaxTrades = 2
  MaxSessions = 2
  SnapshotInterval = 2
  Windows <- MCWindows
SPECIFICATION Spec
INVARIANTS TradesOnlyInSessions OneOpenSession 
CHECK_DEADLOCK FALSE
