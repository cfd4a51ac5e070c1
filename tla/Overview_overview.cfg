CONSTANTS
  CronJobs = {c1}
  Runs = {r1, r2}
  RunOf <- SameCronJob
  Fires <- EveryFourth
  Grace = 2
  Delay = 1
  RenderTime = 1
  Window = 2
  Retention = 3
  MaxTime = 3
  MaxEdits = 2
  Never = never
  None = none
SPECIFICATION Spec
SYMMETRY RunSymmetry
CHECK_DEADLOCK FALSE
INVARIANT RowIsCoherent
 
PROPERTY TilesKnowRows
