\* Two tokens, one book event and one fill, from startup to exit.
SPECIFICATION LoopSpec
CONSTANTS
  Tokens = {"t1", "t2"}
  TickOf <- MCTickOf
  Quotes <- MCQuotes
  Recovered <- MCRecovered
  SizeOf <- MCSizeOf
  Attempts = 1
  ThresholdPct = 5
  MaxBatches = 1
  MaxFills = 1
  Capacity = 1
  MaxTotalExposure = 12
  MaxPerMarket = 8
  MaxDailyLoss = 5
  MaxDrawdown = 5
CHECK_DEADLOCK FALSE
INVARIANTS
  CancelsOwnToken
PROPERTIES
  ExitsUnlessWaiting
