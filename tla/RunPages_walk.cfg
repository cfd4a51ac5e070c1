CONSTANTS
  a = a
  b = b
  c = c
  NoLimit = NoLimit
  NoCursor = NoCursor
  PagedRuns = {a, b, c}
  MaxStart = 3
  Second = 2
  TextRank <- ClockBack
  RawLimits = {1, 2, NoLimit}
  DefaultLimit = 3
  MaxLimit = 3
SPECIFICATION WalkSpec
SYMMETRY AnyRun
INVARIANTS  MissedAreTiedOrMoved

