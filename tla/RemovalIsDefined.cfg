\* Cancelling an order that has been filled.
SPECIFICATION Spec
CONSTANTS
  OrderIds = {i1, i2}
  Prices = {1}
  Quantities = {1}
  Revisions = {}
  MaxOrders = 3
  FreshIds = FALSE
  Calls = {"limit", "market", "cancel"}
SYMMETRY IdSymmetry
INVARIANTS RemovalIsDefined
CHECK_DEADLOCK FALSE
