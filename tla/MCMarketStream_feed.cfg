\* Two tokens, a lost connection and a lost delta, prices spelled in two ways, queues of
\* one place.
SPECIFICATION MCSpec
CONSTANTS
  Tokens = {"t1", "t2"}
  Books <- MCBooks
  Spellings = {"text", "number"}
  Str <- MCStr
  DeltaThreshold = 1
  BookCapacity = 1
  ResyncCapacity = 1
  MaxChanges = 2
  MaxLosses = 1
  MaxDrops = 1
  MaxWire = 1
CHECK_DEADLOCK FALSE
INVARIANTS
  TypeOK
  CrossedMeansMissed
  SubscriptionsReachSocket
PROPERTIES
  ImplementsBookFeed
  CatchesUp
