CONSTANTS
  j1 = j1
  j2 = j2
  NoRun = NoRun
  Jobs = {j1}
  Pods <- OnePods
  PodJob <- OneJob
  JobName <- OneName
  Scheduled = {j1}
  Chatty = {}
  Evicted = {1}
  Tombstones = FALSE
  MaxCrashes = 1
SPECIFICATION FairSpec
INVARIANTS NoInheritedRunning NoStaleIndexEntry
PROPERTIES ReopenedOnlyByInitialList DeletedJobsClose TerminalPodCloses
\* A cluster with nothing left to do stops.
CHECK_DEADLOCK FALSE
