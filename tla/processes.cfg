SPECIFICATION ProcessesSpec
CONSTANTS
  Parts = {"sidecar", "owner"}
  Children = {c1, c2}
  NoChild = NoChild
  MaxRestarts = 3
  MaxTimers = 2
  Apps = {a1, a2}
  Recs = {r1, r2}
  Nobody = Nobody
CHECK_DEADLOCK FALSE
INVARIANTS
  SupervisorIsHonest
  OneOwner
PROPERTIES
  SupervisesBackend
  ProcessesSettle
