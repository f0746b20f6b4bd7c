SPECIFICATION LotSpec
CONSTANTS
  Par <- MCPar
  Snaps <- MCSnaps
  Equity = 30
  LastMinute = 4
  Templates <- MCTemplates
  MaxDay <- MCMaxDay
  MaxBuys = 2
  MaxLots = 2
  MaxJoins = 1
  MaxCrashes = 1
  MaxOrder = 2
INVARIANT StopKept
INVARIANT NoRungTwice
 
 
CHECK_DEADLOCK FALSE
