SPECIFICATION FairSpec
CONSTANTS
  Requests = {r1, r2}
  Serial = TRUE
  MaxCrashes = 1
INVARIANT StoppedIsDurable
INVARIANT ConsumedCommandInForce
INVARIANT SettledStopSurvivesCrash
 
CHECK_DEADLOCK FALSE
