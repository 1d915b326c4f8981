\* Either actor, with a small and a large client order in its name, and others.
SPECIFICATION Spec
CONSTANTS
  Kinds = {"maker", "follower"}
  ClientIds = {"c1", "c2"}
  Lots <- SmallAndLarge
  OtherLots = {3}
  Prices = {1, 2}
  BidPrice = 1
  AskPrice = 2
  Capital = 4
  max_position = 2
  short_window = 1
  long_window = 2
  MidPrices = {100, 110}
INVARIANTS BooksBalance OneQuotePerSide QuoteIsKnown
PROPERTIES ReturnsWhileOpen SignalIsOfLatest OrdersReachTarget
CHECK_DEADLOCK FALSE
