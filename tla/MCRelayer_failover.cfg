\* Three orders whose calls overlap, an outage of two ticks, two starts.
SPECIFICATION Spec
CONSTANTS
  Orders = {o1, o2, o3}
  Starts = {s1, s2}
  FallbackTimeout = 2
  MaxTime = 4
SYMMETRY Interchangeable
CHECK_DEADLOCK FALSE
INVARIANTS
  PlacedTwiceOnlyUnanswered
  DeployedOnce
PROPERTIES
  FailoverNeedsOutage
