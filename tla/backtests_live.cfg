SPECIFICATION FairSpec
CONSTANTS
  Runs = {r1, r2}
  MaxId = 2
  None = None
  MaxCrashes = 1
  LockOutcomes = {TRUE}
CHECK_DEADLOCK FALSE
PROPERTIES
  EveryRunSettles
