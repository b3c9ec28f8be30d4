\* Two tokens, one place in the registry, pages of one market, requests of up to a tick.
SPECIFICATION Spec
CONSTANTS
  Tokens = {"t1", "t2"}
  Rates <- MCRates
  TTL = 3
  RefreshEvery = 2
  MaxRequest = 1
  Listings <- MCListings
  PageSize = 1
  MaxPages = 3
  MaxMarkets = 1
  MaxTime = 5
  MaxScans = 2
  MaxEvents = 2
CHECK_DEADLOCK FALSE
INVARIANTS
  ServedRateWasCharged
  RegistryIsBest
  RegisteredAreSubscribed
  RegisteredHaveRates
