CONSTANTS
  NoTime = NoTime
  Cycle = 6
  Horizon = 30
  Schedules <- Cyclic
  Intervals = {1, 2, 3, 5, 9}
  Nows <- Asked
  Starts <- Started
  MinWindow = 2
  MaxLookback = 16
  MaxProbes = 4
  Grace = 1
SPECIFICATION FairSpec
INVARIANTS PrevRunIsLatest VerdictIsRight AlarmIsReal
PROPERTIES Answers
\* The question is answered and nothing more is asked.
CHECK_DEADLOCK FALSE
