SPECIFICATION Spec
CONSTANTS
  Runs = {r1, r2}
  MaxId = 2
  None = None
  MaxCrashes = 1
  LockOutcomes = {TRUE, FALSE}
SYMMETRY RunSymmetry
CHECK_DEADLOCK FALSE
INVARIANTS
  RowsAreTracked
  FatesAreHonest
PROPERTIES
  LedgerOf
