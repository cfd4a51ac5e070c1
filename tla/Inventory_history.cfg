CONSTANTS
  x1 = x1
  r1 = r1
  None = None
  CronJobs = {x1}
  Runs = {r1}
  RunOf <- SameCronJob
  RetentionDays = 1
  LogRetentionDays = 0
  MaxDays = 2
  MaxChanges = 2
  MaxCrashes = 1
SPECIFICATION FairSpec
INVARIANTS NoGhost
PROPERTIES YoungHistorySurvives GoneIsHidden ListedIsPublished
\* With the bounds used up and no CronJob left, nothing happens.
CHECK_DEADLOCK FALSE
