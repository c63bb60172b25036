CONSTANTS
  DstFirst = 50
  DstEnd = 145
  LastHour = 200
  Lags <- MCLags
  Week = 2
  SavedWindows <- MCWindows
SPECIFICATION ClockSpec
INVARIANTS WindowKeptInSeason WindowMovesByAnHour
PROPERTY ElapsedTimeIsReal
CHECK_DEADLOCK FALSE
