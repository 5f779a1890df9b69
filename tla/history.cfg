SPECIFICATION FairHistorySpec
CONSTANTS
  LastDay = 4
  ChunkDays = 2
  GapDays = 1
  MaxChunks = 1
  MaxAttempts = 2
  WindowDays = 3
  RetainDays = 2
  LivePage = 9
  BackPage = 9
  MaxRests = 2
  MaxCrashes = 2
CHECK_DEADLOCK FALSE
INVARIANTS
  CoverageIsTrue
PROPERTIES
  SettledStays
  EveryDayGetsItsTurn
