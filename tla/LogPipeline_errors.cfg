CONSTANTS
  c1 = c1
  Clients = {c1}
  LogLength = 2
  MaxSessions = 2
  LineCap = 1
  FlushMax = 2
  ChanCap = 1
  TailLimit = 1
  Errors = TRUE
SPECIFICATION Spec
INVARIANTS NoGap NoHoles NoPanic
\* Nothing is left to do once the log is stored and the viewers have gone.
CHECK_DEADLOCK FALSE
