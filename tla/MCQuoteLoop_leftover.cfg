\* FR-211: orders open after the kill switch.
SPECIFICATION LoopSpec
CONSTANTS
  Tokens = {"t1"}
  TickOf <- MCTickOf
  Quotes <- MCQuotes
  Recovered <- MCRecovered
  SizeOf <- MCSizeOf
  Attempts = 1
  ThresholdPct = 5
  MaxBatches = 1
  MaxFills = 1
  Capacity = 1
  MaxTotalExposure = 12
  MaxPerMarket = 8
  MaxDailyLoss = 5
  MaxDrawdown = 5
CHECK_DEADLOCK FALSE
INVARIANTS
  NothingOpenAfterShutdown
