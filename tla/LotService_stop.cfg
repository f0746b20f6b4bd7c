SPECIFICATION FairSpec
CONSTANTS
  MaxLots = 1
  MaxOrders = 2
  MaxQty = 2
  MaxCrashes = 1
  LostAnswers = TRUE
  Capped = TRUE
 
PROPERTY StopEnds
CHECK_DEADLOCK FALSE
