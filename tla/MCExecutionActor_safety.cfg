\* One token, two batches, two attempts: retries, timeouts and late cancels.
SPECIFICATION Spec
CONSTANTS
  Tokens = {"t1"}
  TickOf <- MCTickOf
  Quotes <- MCQuotes
  Recovered <- MCRecovered
  Attempts = 2
  ThresholdPct = 5
  MaxBatches = 2
INVARIANTS
  OneOrderPerIntent
  NoCrossWhenAwaited
  RejectionsBounded
CHECK_DEADLOCK FALSE
