SPECIFICATION DeskSpec
CONSTANTS
  Stocks = {"A"}
  Roots = {"ES"}
  IconPages = {"w"}
  MaxFavorites = 2
  MaxRedirects = 1
  IconReplies <- MCIcons
  MaxRecJobs = 2
  AtOnce = 2
  MaxEdits = 1
  ChartKeys = {"k1", "k2"}
  Drawn <- MCDrawn
  Orderly = FALSE
  MaxTouches = 2
  Custom = {"w1"}
  MaxSaves = 2
  MaxLocks = 1
  PadIds = {"p1", "p2"}
  Texts = {"t", "secret"}
  MaxEntries = 1
  PadCallers = {"a", "b"}
  Floor0 = 1
  Ceiling0 = 2
  Wins = {w1, w2}
  Ids = {s1, s2}
  None = None
SYMMETRY DeskSymmetry
PROPERTIES
  OnlyClearingDeletes
CHECK_DEADLOCK FALSE
