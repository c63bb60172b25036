CONSTANTS
  SignalKeys = {"SIGNAL_1", "SIGNAL_2"}
  Strategies = {"default", "custom"}
  MaxIndex = 1
  MaxId = 4
  MaxEmit = 2
  Prices = {1, 2}
SPECIFICATION Spec
INVARIANTS NoSignalLost NoSignalTradedTwice
