\* Ids used once; quantities may be zero, so executions may throw.
SPECIFICATION FairSpec
CONSTANTS
  OrderIds = {i1, i2, i3}
  Prices = {1, 2}
  Quantities = {0, 1, 2}
  Revisions = {}
  MaxOrders = 3
  FreshIds = TRUE
  Calls = {"limit", "market", "cancel"}
INVARIANTS AnswersToId NoEmptyLevel
PROPERTIES CallsReturn
CHECK_DEADLOCK FALSE
