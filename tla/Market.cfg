SPECIFICATION MarketSpec
CONSTANTS
  Proxy = "etf"
  Scanned = {"h1"}
  Minutes = 3
  ScanMinutes = {1, 2}
  Days = 2
  MaxActive = 1
  SubGate = 2
  Levels = {97, 100}
  DropPct = 3
  MaxFaults = 1
INVARIANT TrackedSubscribed
PROPERTY BarsInOrder
PROPERTY NoJoinAfterDrop
CHECK_DEADLOCK FALSE
