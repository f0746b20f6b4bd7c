SPECIFICATION RiskSpec
CONSTANTS
  t1 = t1
  t2 = t2
  Tickers <- MCTickers
  Prices = {1, 4}
  Sizes = {1}
  Cash0 = 10
  MaxOpen = 1
  MaxExposure = 6
  LossLimit = 1
  LossPct = 50
  DrawPct = 10
  PeakStep = 1
  RiskDays = 2
  MaxFills = 3
  RiskCrashes = 1
SYMMETRY Symmetry
INVARIANT OpenCapped
INVARIANT LossKnown
PROPERTY DrawdownSticks
CHECK_DEADLOCK FALSE
