CONSTANTS
  c1 = c1
  Clients = {c1}
  LogLength = 3
  MaxSessions = 1
  LineCap = 1
  FlushMax = 2
  ChanCap = 1
  TailLimit = 5
  Errors = FALSE
SPECIFICATION FairSpec
PROPERTIES FeedSpec LogIsStored ViewersFinish
\* Nothing is left to do once the log is stored and the viewers have gone.
CHECK_DEADLOCK FALSE
