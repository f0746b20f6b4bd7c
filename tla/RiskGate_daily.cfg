SPECIFICATION RiskSpec
CONSTANTS
  t1 = t1
  t2 = t2
  Tickers <- MCTickers
  Prices = {2, 3}
  Sizes = {1}
  Cash0 = 10
  MaxOpen = 1
  MaxExposure = 6
  LossLimit = 1
  LossPct = 50
  DrawPct = 20
  PeakStep = 1
  RiskDays = 2
  MaxFills = 3
  RiskCrashes = 1
SYMMETRY Symmetry
PROPERTY DailyLossStops
CHECK_DEADLOCK FALSE
