\* Two actors trade once.
SPECIFICATION ExSpec
CONSTANTS
  OrderIds = {i1, i2}
  Prices = {1, 2}
  Quantities = {1}
  Revisions = {}
  MaxOrders = 2
  FreshIds = FALSE
  Calls = {}
  Actors = {a1, a2}
  Nobody = nobody
  Liquidity = {FALSE}
  InitialBid = 1
  InitialAsk = 2
  InitialSize = 1
  Watchers = {}
  RejectedAt = {1}
  MaxListings = 1
INVARIANTS PositionsAreExecutions
CHECK_DEADLOCK FALSE
