\* Two calls, three attempts each, one restart, timeouts at any attempt.
SPECIFICATION Spec
CONSTANTS
  Conditions <- MCConditions
  Attempts = 3
  MaxCalls = 2
  MaxRestarts = 1
INVARIANTS
  RedeemedOnce
PROPERTIES
  CallsEnd
CHECK_DEADLOCK FALSE
