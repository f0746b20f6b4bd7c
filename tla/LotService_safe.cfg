SPECIFICATION Spec
CONSTANTS
  MaxLots = 2
  MaxOrders = 3
  MaxQty = 2
  MaxCrashes = 1
  LostAnswers = TRUE
  Capped = FALSE
INVARIANT HoldingsTracked
INVARIANT LockCoversLive
INVARIANT HeldLotsAreOpen
PROPERTY FlatOnceBooked
CHECK_DEADLOCK FALSE
