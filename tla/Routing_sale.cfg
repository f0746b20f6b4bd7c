SPECIFICATION FairRoute
CONSTANTS
  Domestic <- MCDomestic
  Abroad <- MCAbroad
  Shares <- MCShares
  MaxSales = 1
INVARIANT NeverOversold
PROPERTY SalesGoOut
CHECK_DEADLOCK FALSE
