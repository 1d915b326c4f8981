\* Every call, order ids reused, three orders.
SPECIFICATION Spec
CONSTANTS
  OrderIds = {i1, i2}
  Prices = {1, 2}
  Quantities = {1, 2}
  Revisions <- OneRevision
  MaxOrders = 3
  FreshIds = FALSE
  Calls = {"limit", "market", "cancel", "modify", "clear"}
SYMMETRY IdSymmetry
INVARIANTS BookInv NotCrossedBetweenCalls ExecutionsAreTold NoOrderLost VolumeNotUnderstated
PROPERTIES PriceTimePriority ImplementsPriceTimeBook
CHECK_DEADLOCK FALSE
