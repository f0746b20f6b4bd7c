SPECIFICATION FairSpec
CONSTANTS
  MaxOrders = 2
  MaxDay = 1
  MaxCrashes = 1
  MaxQty = 2
  ListingLag = TRUE
  l1 = l1
  l2 = l2
  l3 = l3
  Lots = {l1}
  TickerOf <- OneTicker
PROPERTY ExecutionsRecorded
CHECK_DEADLOCK FALSE
