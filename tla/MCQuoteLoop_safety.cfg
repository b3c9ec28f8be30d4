\* One token, two book events, startup, scanner updates and shutdown.
SPECIFICATION LoopSpec
CONSTANTS
  Tokens = {"t1"}
  TickOf <- MCTickOf
  Quotes <- MCQuotes
  Recovered <- MCRecovered
  SizeOf <- MCSizeOf
  Attempts = 1
  ThresholdPct = 5
  MaxBatches = 2
  MaxFills = 0
  Capacity = 1
  MaxTotalExposure = 12
  MaxPerMarket = 8
  MaxDailyLoss = 5
  MaxDrawdown = 5
CHECK_DEADLOCK FALSE
INVARIANTS
  LoopTypeOK
  OneMoreEvent
PROPERTIES
  ImplementsActor
  EveryEventTaken
