CONSTANTS
  j1 = j1
  j2 = j2
  NoRun = NoRun
  Jobs = {j1, j2}
  Pods <- SinglePod
  PodJob <- SingleJob
  JobName <- TwoNames
  Scheduled = {j2}
  Chatty = {1}
  Evicted = {}
  Tombstones = TRUE
  MaxCrashes = 1
SPECIFICATION Spec
INVARIANTS OutcomeIsReal
\* A cluster with nothing left to do stops.
CHECK_DEADLOCK FALSE
