\* Settling and completeness of diff() over all books of 3 orders.
SPECIFICATION RoundsSpec
CONSTANTS
  QuoteLists <- MCQuotes
  Books <- MCBooks
  MaxRounds = 3
INVARIANTS
  Settles
  QuietMeansQuoted
CHECK_DEADLOCK FALSE
PROPERTIES
  OneForTheOther
