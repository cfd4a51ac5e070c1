------------------------------ MODULE Overview ------------------------------
(***************************************************************************)
(* What the CronJob tables, their JSON twins and the tiles above them say  *)
(* about the CronJobs of one cluster.  A page is put together from several *)
(* store calls (cronJobRowInputs and renderOverview of internal/api) while *)
(* the watcher and retention go on writing.                                *)
(*                                                                         *)
(* Time is counted in units of the grace period.  A schedule is the set of *)
(* its fire times (one given as @every has none), and IsMissed is the      *)
(* verdict of module Verdict, which is what module Schedule computes step  *)
(* by step.  Readers write nothing, so one at a time is enough.            *)
(***************************************************************************)
EXTENDS Integers, FiniteSets, Verdict

CONSTANTS
  CronJobs,     \* the CronJobs of the cluster
  Runs,         \* ids of the runs
  RunOf,        \* the CronJob of each run
  Fires,        \* fire times of the schedule
  Grace,        \* MissedGracePeriod
  Delay,        \* longest time from the start of a run to its row
  RenderTime,   \* longest time a reader takes
  Window,       \* the window of the statistics (7 days)
  Retention,    \* RETENTION_DAYS
  MaxTime,      \* bound on the clock
  MaxEdits,     \* bound on the changes of CronJobs and the revisions of runs
  Never,        \* the start of a run that has not started
  None          \* no run, no series, no table, no summary

Statuses == {"running", "succeeded", "failed"}

\* The last run in a CronJobSummary, and the counts of RunStats.
Summaries == [run : Runs, status : Statuses, started : Int]
Counts    == [total : Nat, succeeded : Nat, failed : Nat]

ASSUME OverviewAssumption ==
  /\ RunOf \in [Runs -> CronJobs] /\ IsFiniteSet(Runs)
  /\ None \notin Summaries /\ Never \notin Int
  /\ Fires \subseteq Int
  /\ Grace \in Nat /\ Delay \in Nat /\ RenderTime \in Nat
  /\ Delay + RenderTime <= Grace
  /\ Window \in Nat /\ Retention \in Nat
  /\ MaxTime \in Nat /\ MaxEdits \in Nat

VARIABLES
  clock,
  row,       \* cronjobs: "none", "live" or "deleted"
  suspended, \* cronjobs.suspended
  born,      \* (history) when the CronJob was last added
  status,    \* job_runs.status, or "none"
  started,   \* job_runs.started_at
  revised,   \* (history) runs written again since the request began
  edits,
  reader     \* the request in progress

inventory == <<row, suspended, born>>
runTable  == <<status, started>>
store     == <<inventory, runTable>>
vars == <<clock, store, revised, edits, reader>>

Idle     == [pc |-> "idle"]
Live     == {x \in CronJobs : row[x] = "live"}
RunsOf(x) == {r \in Runs : RunOf[r] = x /\ status[r] # "none"}
Over(s)  == s \in {"succeeded", "failed"}

Oldest(S) == CHOOSE f \in S : \A g \in S : f <= g

\* CronJobs that have been there for long, or not yet.
Init ==
  /\ clock = 0
  /\ row \in [CronJobs -> {"none", "live"}]
  /\ suspended = [x \in CronJobs |-> FALSE]
  /\ born = [x \in CronJobs |-> Oldest(Fires)]
  /\ status = [r \in Runs |-> "none"] /\ started = [r \in Runs |-> Never]
  /\ revised = {}
  /\ edits = 0
  /\ reader = Idle

-----------------------------------------------------------------------------
(* The clock and the writers                                               *)

\* A reader takes at most RenderTime.
Tick ==
  /\ clock < MaxTime
  /\ reader # Idle => clock - reader.since < RenderTime
  /\ clock' = clock + 1
  /\ UNCHANGED <<store, revised, edits, reader>>

\* CronJobHandler.upsert
UpsertCronJob(x, s) ==
  /\ row[x] # "live" \/ suspended[x] # s
  /\ edits < MaxEdits /\ edits' = edits + 1
  /\ row' = [row EXCEPT ![x] = "live"]
  /\ suspended' = [suspended EXCEPT ![x] = s]
  /\ born' = IF row[x] = "live" THEN born ELSE [born EXCEPT ![x] = clock]
  /\ UNCHANGED <<clock, runTable, revised, reader>>

\* markDeleted
MarkCronJobDeleted(x) ==
  /\ row[x] = "live" /\ edits < MaxEdits /\ edits' = edits + 1
  /\ row' = [row EXCEPT ![x] = "deleted"]
  /\ UNCHANGED <<clock, suspended, born, runTable, revised, reader>>

\* UpsertJobRun: a Job, scheduled or not, gets its row at most Delay after it
\* started.
RunStarts(r) ==
  /\ status[r] = "none" /\ started[r] = Never /\ row[RunOf[r]] # "none"
  /\ \E t \in (clock - Delay)..clock : started' = [started EXCEPT ![r] = t]
  /\ status' = [status EXCEPT ![r] = "running"]
  /\ UNCHANGED <<clock, inventory, revised, edits, reader>>

\* The Pod handler's terminal case: UpdateJobRunStatus
RunEnds(r) ==
  /\ status[r] = "running"
  /\ \E s \in {"succeeded", "failed"} : status' = [status EXCEPT ![r] = s]
  /\ UNCHANGED <<clock, inventory, started, revised, edits, reader>>

\* What is recorded of a run is written again.  UpsertJobRun rewrites the start
\* time and the outcome: the trigger endpoint and the watcher record the same
\* run, and the Job informer's initial list reopens a run that recovery marked
\* failed or brings back one that retention has deleted; the start is the
\* Job's own or, without one, the current time.  MarkRunFailed in OnDelete
\* rewrites the outcome of a run that has just succeeded.
RunIsRevised(r) ==
  /\ started[r] # Never
  /\ edits < MaxEdits /\ edits' = edits + 1
  /\ \E s \in Statuses, t \in (started[r] - Delay)..clock :
       /\ status' = [status EXCEPT ![r] = s]
       /\ started' = [started EXCEPT ![r] = t]
  /\ revised' = IF reader = Idle THEN revised ELSE revised \cup {r}
  /\ UNCHANGED <<clock, inventory, reader>>

\* DeleteOldData
Expired(r) == status[r] # "none" /\ started[r] + Retention < clock
DeleteOldData ==
  /\ \E r \in Runs : Expired(r)
  /\ status' = [r \in Runs |-> IF Expired(r) THEN "none" ELSE status[r]]
  /\ UNCHANGED <<clock, inventory, started, revised, edits, reader>>

Watcher ==
  \/ \E x \in CronJobs : \/ \E s \in BOOLEAN : UpsertCronJob(x, s)
                         \/ MarkCronJobDeleted(x)
  \/ \E r \in Runs : RunStarts(r) \/ RunEnds(r) \/ RunIsRevised(r)
  \/ DeleteOldData

-----------------------------------------------------------------------------
(* The verdict and the queries                                             *)

\* IsMissed of the last run lastRunForSchedule hands it, if there is one
IsMissed(paused, last, t) ==
  /\ ~paused
  /\ Silent(Fires, Grace, t, last # None, last.status = "running", last.started)

Summary(r) == [run |-> r, status |-> status[r], started |-> started[r]]

\* GetLastJobRun: any of those that started last.
LastRuns(x) == {r \in RunsOf(x) : \A q \in RunsOf(x) : started[q] <= started[r]}

\* Mutant of InWindow: runs in flight are not counted.
InWindowOver(S) == {r \in S : started[r] > clock - Window /\ Over(status[r])}
InWindow(S) == {r \in S : started[r] > clock - Window}

Tally(S) ==
  [total     |-> Cardinality(S),
   succeeded |-> Cardinality({r \in S : status[r] = "succeeded"}),
   failed    |-> Cardinality({r \in S : status[r] = "failed"})]

-----------------------------------------------------------------------------
(* The reader: a page is ClusterDetail, NamespaceDetail, NamespaceRows,   *)
(* ListCronJobs or ListCronJobsV1, of which the first goes on to the       *)
(* tiles.  Each store call is a step, and one that fails ends the request, *)
(* but for the tiles.  The sparkline, the count of running runs and the    *)
(* rankings are left out: nothing else depends on them.                    *)

StoreKeeps == UNCHANGED <<clock, store, edits>>
OnlyReads == StoreKeeps /\ UNCHANGED revised

NewRequest ==
  [pc |-> "list", since |-> clock, at |-> clock, listed |-> {}, paused |-> {},
   ids |-> {}, id |-> None, last |-> [x \in CronJobs |-> None],
   stats |-> [x \in CronJobs |-> None], missed |-> {}, tiles |-> None]

Begin ==
  /\ reader = Idle
  /\ reader' = NewRequest
  /\ OnlyReads

\* ListCronJobs
ListCronJobs ==
  /\ reader.pc = "list"
  /\ reader' = [reader EXCEPT !.pc = "ids", !.listed = Live,
                              !.paused = {x \in Live : suspended[x]}]
  /\ OnlyReads

\* GetCronJobSummaries: the CronJobs once more ...
LiveCronJobIDs ==
  /\ reader.pc = "ids"
  /\ reader' = [reader EXCEPT !.ids = Live,
                  !.pc = IF Live = {} THEN "build" ELSE "last"]
  /\ OnlyReads

\* ... then for each the last run; one that never ran is left out ...
LastRun(x) ==
  /\ reader.pc = "last" /\ x \in reader.ids
  /\ \/ /\ RunsOf(x) = {}
        /\ reader' = [reader EXCEPT !.ids = @ \ {x},
              !.pc = IF reader.ids = {x} THEN "build" ELSE "last"]
     \/ \E r \in LastRuns(x) :
          reader' = [reader EXCEPT !.pc = "stats", !.id = x,
                                   !.last[x] = Summary(r)]
  /\ OnlyReads

\* ... and GetRunStats7d.
RunStats ==
  LET x == reader.id
  IN
  /\ reader.pc = "stats"
  /\ reader' = [reader EXCEPT !.stats[x] = Tally(InWindow(RunsOf(x))),
                  !.id = None, !.ids = @ \ {x},
                  !.pc = IF reader.ids = {x} THEN "build" ELSE "last"]
  /\ OnlyReads

Missed(t) ==
  {x \in reader.listed : IsMissed(x \in reader.paused, reader.last[x], t)}

\* buildCronJobRow for each CronJob listed, all at one time.
BuildRows ==
  /\ reader.pc = "build"
  /\ reader' = [reader EXCEPT !.at = clock, !.missed = Missed(clock),
                              !.pc = "tiles"]
  /\ OnlyReads

\* Mutant of FleetRuns: suspended CronJobs do not count.
FleetRunsActive ==
  {r \in Runs : r \in RunsOf(RunOf[r]) /\ RunOf[r] \in Live
                  /\ ~suspended[RunOf[r]]}
FleetRuns == {r \in Runs : r \in RunsOf(RunOf[r]) /\ RunOf[r] \in Live}

\* renderOverview after the rows: GetFleetStats over the same window.
FleetStats ==
  /\ reader.pc = "tiles"
  /\ reader' = [reader EXCEPT !.tiles = Tally(InWindow(FleetRuns)),
                              !.pc = "done"]
  /\ OnlyReads

EndRequest == reader' = Idle /\ revised' = {} /\ StoreKeeps

Reply ==
  /\ reader.pc \in {"tiles", "done"}
  /\ EndRequest

\* A store call fails: the page goes without tiles, or there is none.
Fail ==
  /\ reader # Idle
  /\ \/ /\ reader.pc = "tiles"
        /\ reader' = [reader EXCEPT !.pc = "done"]
        /\ OnlyReads
     \/ reader.pc \notin {"build", "tiles", "done"} /\ EndRequest

-----------------------------------------------------------------------------

Next ==
  \/ Tick \/ Watcher
  \/ Begin \/ ListCronJobs \/ LiveCronJobIDs \/ RunStats \/ BuildRows
  \/ FleetStats \/ Reply \/ Fail
  \/ \E x \in CronJobs : LastRun(x)

Spec == Init /\ [][Next]_vars

-----------------------------------------------------------------------------
(* Properties *)

\* Is the last run of a row in the window of the counts?
Counted(last) == last # None /\ last.started > clock - Window

\* The counts beside a last run are taken after it, so they contain it and its
\* outcome unless it was written again in between: no row shows a failed run
\* next to a spotless record.
RowIsCoherent ==
  reader # Idle =>
    \A x \in CronJobs :
      LET last == reader.last[x]
          counts == reader.stats[x]
      IN  counts # None /\ Counted(last) /\ last.run \notin revised =>
            /\ counts.total >= 1
            /\ last.status = "succeeded" => counts.succeeded >= 1
            /\ last.status = "failed" => counts.failed >= 1

\* Does the page show a failed run of x that the tiles must count?
ShowsFailure(x) ==
  /\ Counted(reader.last[x]) /\ reader.last[x].run \notin revised
  /\ reader.last[x].status = "failed"

\* The tiles are computed after the rows they stand above, so a page never
\* says "0 failed" over a row that failed, unless its CronJob is gone by then.
TilesKnowRows ==
  [][reader # Idle /\ reader.tiles = None /\ reader' # Idle =>
       \/ reader'.tiles = None
       \/ \A x \in Live : ShowsFailure(x) => reader'.tiles.failed >= 1]_vars

\* The occurrence the verdict about x was about.
Judged(x) ==
  {f \in Fires : Due(Fires, Grace, f, reader.at, reader.last[x] # None)}

\* Occurrences are further apart than the grace period.
Sparse == \A f, g \in Fires : f < g => g - f > Grace

\* The grace period covers the way of a run to the store and of the page to its
\* reader: when a row calls its CronJob missed, no run that retention keeps has
\* started at the occurrence that was judged, whether its row was there or
\* appears while the page is put together, unless the row is written again
\* meanwhile.  (A CronJob that is added again between two calls has no summary.)
NoFalseAlarm ==
  Sparse /\ reader # Idle /\ reader.pc \in {"tiles", "done"} =>
    \A x \in reader.missed \cap Live : \A f \in Judged(x) :
      born[x] < reader.since /\ clock - f <= Retention =>
        \A r \in Runs \ revised : RunOf[r] = x => started[r] # f

\* next.go, IsMissed: the grace period "saves every newly-created one from a
\* false alarm".
NewIsNotMissed ==
  reader # Idle /\ reader.pc \in {"tiles", "done"} =>
    \A x \in reader.missed \cap Live :
      born[x] < reader.since => \E f \in Judged(x) : born[x] <= f

-----------------------------------------------------------------------------
(* The inductive invariant behind the properties above.                    *)

\* A run that started and has no row is older than retention keeps.
StoreInv ==
  /\ clock \in Nat
  /\ row \in [CronJobs -> {"none", "live", "deleted"}]
  /\ born = [x \in CronJobs |-> born[x]]
  /\ status \in [Runs -> Statuses \cup {"none"}]
  /\ started \in [Runs -> Int \cup {Never}]
  /\ \A r \in Runs :
       /\ started[r] = Never => status[r] = "none"
       /\ started[r] # Never /\ status[r] = "none"
            => started[r] + Retention < clock

\* The request in progress.
RequestOK ==
  reader \in
    [pc : {"list", "ids", "last", "stats", "build", "tiles", "done"},
     since : Nat, at : Nat, listed : SUBSET CronJobs, paused : SUBSET CronJobs,
     ids : SUBSET CronJobs, id : CronJobs \cup {None},
     last : [CronJobs -> Summaries \cup {None}],
     stats : [CronJobs -> Counts \cup {None}],
     missed : SUBSET CronJobs, tiles : Counts \cup {None}]

\* GetCronJobSummaries goes through the CronJobs one by one, and the verdicts
\* are those of one moment.
ProgressInv ==
  /\ reader.since <= clock /\ clock - reader.since <= RenderTime
  /\ reader.pc \in {"list", "ids"} => \A x \in CronJobs : reader.last[x] = None
  /\ reader.pc = "stats" => reader.id \in reader.ids
                             /\ reader.last[reader.id] # None
  /\ reader.pc \in {"build", "tiles", "done"} => reader.ids = {}
  /\ \A x \in CronJobs :
       reader.stats[x] # None => reader.last[x] # None /\ x \notin reader.ids
  /\ reader.pc \in {"tiles", "done"} =>
       /\ reader.missed = Missed(reader.at)
       /\ reader.at <= clock /\ reader.at - reader.since <= RenderTime

\* A last run that was read and not written since is still that run, with the
\* outcome it had.
LastInv(x) ==
  LET last == reader.last[x]
  IN  last # None =>
        /\ RunOf[last.run] = x
        /\ last.run \notin revised =>
             /\ started[last.run] = last.started
             /\ status[last.run] # "none" /\ Over(last.status)
                  => status[last.run] = last.status

\* May the row of r have appeared after the request began?
IsNews(r) == started[r] + Delay >= reader.since

\* Leaving aside the runs written again, a CronJob that had no run when it was
\* asked for one got those it has now later, and one that had a run got a later
\* one later.
NewsInv(x) ==
  /\ /\ reader.pc \notin {"list", "ids"} /\ x \notin reader.ids
     /\ row[x] = "live" /\ born[x] < reader.since /\ reader.last[x] = None
     => \A r \in RunsOf(x) \ revised : IsNews(r)
  /\ reader.last[x] # None =>
       \A r \in Runs \ revised :
         RunOf[r] = x /\ started[r] # Never /\ clock - started[r] <= Retention
           => started[r] <= reader.last[x].started \/ IsNews(r)

ReaderInv ==
  reader # Idle =>
    /\ RequestOK /\ ProgressInv
    /\ \A x \in CronJobs : LastInv(x) /\ NewsInv(x)

OverviewInv ==
  /\ StoreInv /\ ReaderInv
  /\ Window <= Retention => RowIsCoherent

=============================================================================
