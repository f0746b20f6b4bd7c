SPECIFICATION BrokerSpec
CONSTANTS
  Callers = {"main", "poll"}
  Cost = 2
  Burst = 2
  Timeout = 1
  Attempts = 2
  Skew = 11
  Life = 13
  PageRows = 1
  MaxPages = 2
  MaxRows = 3
  Prices = {1, 2}
  Quantities = {1, 3}
  ChunkCount = 2
  StartCash = 70
  MaxPaper = 3
INVARIANT ListingIsWhole
PROPERTY NeverBursts
PROPERTY TokenLive
INVARIANT CashCovers
PROPERTY CancelledNeverFills
CHECK_DEADLOCK FALSE
