SPECIFICATION WindowsSpec
CONSTANTS
  Parts = {"tabs", "session"}
  Wins = {w1, w2}
  Tabs = {t1, t2, t3}
  Divider = Divider
  Nil = Nil
  MaxPending = 1
  Procs = {p1}
  Sessions = {s1, s2}
  Requests = {q1, q2}
  None = None
SYMMETRY WindowsSymmetry
CHECK_DEADLOCK FALSE
INVARIANTS
  ViewsAreAccounted
  NoBlankWindow
  LockCoversEveryWindow
  SessionIsSound
