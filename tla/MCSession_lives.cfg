\* One order over two lives, two migrations, a lost stream, two recoveries after startup.
SPECIFICATION Spec
CONSTANTS
  Orders = {"o1"}
  Versions <- MCVersions
  Closings = {"FILLED"}
  MaxStarts = 2
  MaxDrops = 1
  MaxRecoveries = 2
CHECK_DEADLOCK FALSE
INVARIANTS
  TypeOK
  RunsAccounted
  GhostsExplained
  OrphansExplained
PROPERTIES
  OnlyRecoveryIsUndone
