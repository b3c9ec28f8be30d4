\* Two markets, two book events, three fills, three scans.
SPECIFICATION Spec
CONSTANTS
  Tokens = {"ordinary", "negRisk"}
  Settings <- MCSettings
  Markets <- MCMarkets
  Events <- MCEvents
  Situations <- MCSituations
  MaxEvents = 2
  MaxFills = 3
  MaxScans = 3
CHECK_DEADLOCK FALSE
INVARIANTS
  AccountsBalance
  InventoryBracketsPosition
  OrdinaryMarketsAreNeverSold
  QuotesRespectBook
  QuotesStayApart
  GtdLivesInItsWindow
