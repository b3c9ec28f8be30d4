\* Queues of one place: the reader waits for the consumer and for queues nobody empties.
SPECIFICATION Spec
CONSTANTS
  Frames <- MCFrames
  Capacity = 1
  MaxEvents = 6
  MaxLosses = 1
INVARIANTS
  FillsInOrder
CHECK_DEADLOCK FALSE
PROPERTIES
  FillsGetThrough
  ImplementsFillFeed
