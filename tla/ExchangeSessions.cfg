\* Two actors, one of them a subscriber, sessions that open and close.
SPECIFICATION ExSpec
CONSTANTS
  OrderIds = {i1, i2, i3}
  Prices = {1, 2}
  Quantities = {1, 3}
  Revisions = {}
  MaxOrders = 3
  FreshIds = FALSE
  Calls = {}
  Actors = {a1, a2}
  Nobody = nobody
  Liquidity = {TRUE, FALSE}
  InitialBid = 1
  InitialAsk = 2
  InitialSize = 1
  Watchers = {a1}
  RejectedAt = {1}
  MaxListings = 2
INVARIANTS SnapshotIsCurrent RestingIsActive ClosedMeansEmpty
CHECK_DEADLOCK FALSE
