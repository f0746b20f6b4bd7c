SPECIFICATION Spec
CONSTANTS
  MaxOrders = 2
  MaxDay = 2
  MaxCrashes = 1
  MaxQty = 2
  ListingLag = FALSE
  l1 = l1
  l2 = l2
  l3 = l3
  Lots = {l1, l2, l3}
  TickerOf <- TwoTickers
INVARIANT FillsAreReal
INVARIANT ExpiredIsComplete
 
INVARIANT NumberOfTwin
INVARIANT OneLiveOrder
PROPERTY ClosedStaysClosed
PROPERTY ImplementsLedger
CHECK_DEADLOCK FALSE
