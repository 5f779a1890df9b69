SPECIFICATION Spec
CONSTANTS
  Runs = {r1, r2}
  MaxId = 2
  None = None
  MaxCrashes = 0
  LockOutcomes = {TRUE}
SYMMETRY RunSymmetry
CHECK_DEADLOCK FALSE
PROPERTIES
  OnlyFinishedDirsGo
