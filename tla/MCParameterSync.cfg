CONSTANTS
  Contexts = {"live", "backtest"}
  MaxVersion = 2
  MaxGroups = 1
  BadVersions = {1}
SPECIFICATION FairSpec
INVARIANTS LostOnlyWhenOvertaken
PROPERTIES BackOnlyByOvertaking StaleIsApplied ProcessReturns
CHECK_DEADLOCK FALSE
