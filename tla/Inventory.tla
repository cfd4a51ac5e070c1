----------------------------- MODULE Inventory -----------------------------
(***************************************************************************)
(* The inventory of CronJobs of one cluster: the CronJob informer and its  *)
(* handler, the start-up Reconcile goroutine (internal/watcher), the       *)
(* cronjobs table with its soft delete and the retention loop              *)
(* (internal/storage), and the Prometheus gauges that describe each        *)
(* CronJob (internal/metrics).                                             *)
(*                                                                         *)
(* Time is counted in days; a run's row has the day it started, a deleted  *)
(* CronJob's row the day it was marked.  Every store call is one step.     *)
(***************************************************************************)
EXTENDS Naturals, Sequences

CONSTANTS
  CronJobs,         \* <cluster>/<namespace>/<name> ids
  Runs,             \* ids of the runs
  RunOf,            \* the CronJob of each run
  RetentionDays,    \* RETENTION_DAYS
  LogRetentionDays, \* LOG_RETENTION_DAYS
  MaxDays,          \* bound on the clock
  MaxChanges,       \* bound on what happens to CronJobs in the cluster
  MaxCrashes,       \* bound on process restarts
  None              \* no CronJob

ASSUME InventoryAssumption ==
  /\ RunOf \in [Runs -> CronJobs]
  /\ RetentionDays \in Nat /\ LogRetentionDays \in Nat
  /\ MaxDays \in Nat /\ MaxChanges \in Nat /\ MaxCrashes \in Nat
  /\ None \notin CronJobs

VARIABLES
  exists,    \* the CronJobs in the cluster
  changes,   \* creations, deletions and updates so far
  day,       \* the clock
  up, crashes,
  synced,    \* has the CronJob informer taken its initial list?
  cache,     \* the informer's store, which the lister reads
  queue,     \* notifications about each CronJob for the handler
  row,       \* cronjobs: "none", "live" or "deleted" (deleted_at is set)
  deletedAt, \* cronjobs.deleted_at, 0 when it is NULL
  run,       \* job_runs: "none", "running" or "over"
  started,   \* job_runs.started_at
  logs,      \* the runs with log lines
  series,    \* the gauges each CronJob is published with
  ht,        \* the CronJob handler's goroutine
  rc,        \* the Reconcile goroutine
  ct,        \* the collector's pass
  rt         \* the retention goroutine

cluster  == <<exists, changes>>
process  == <<up, crashes>>
informer == <<synced, cache, queue>>
runTable == <<run, started, logs>>
vars == <<cluster, day, process, informer, row, deletedAt, runTable, series,
          ht, rc, ct, rt>>

Events   == {"add", "update", "delete"}
\* Suspension and next run; active runs and the missed alarm; what the last run
\* came to.
Gauges   == {"settings", "activity", "outcome"}
NoSeries == [x \in CronJobs |-> {}]
IdleHt   == [stage |-> "idle", id |-> None]
IdleRc   == [stage |-> "wait", live |-> {}, todo |-> {}, id |-> None]
IdleCt   == [stage |-> "idle", todo |-> {}, over |-> {}]
IdleRt   == [stage |-> "idle", before |-> 0]

\* Every variable keeps its type.
TypeOK ==
  /\ exists \subseteq CronJobs /\ changes \in 0..MaxChanges
  /\ day \in 0..MaxDays
  /\ up \in BOOLEAN /\ crashes \in 0..MaxCrashes
  /\ synced \in BOOLEAN /\ cache \subseteq CronJobs
  /\ queue \in [CronJobs -> Seq(Events)]
  /\ row \in [CronJobs -> {"none", "live", "deleted"}]
  /\ deletedAt \in [CronJobs -> 0..MaxDays]
  /\ run \in [Runs -> {"none", "running", "over"}]
  /\ started \in [Runs -> 0..MaxDays]
  /\ logs \subseteq Runs /\ series \in [CronJobs -> SUBSET Gauges]
  /\ ht \in [stage : {"idle", "upserted", "marked"}, id : CronJobs \cup {None}]
  /\ rc \in [stage : {"wait", "listed", "marking", "marked", "done"},
             live : SUBSET CronJobs, todo : SUBSET CronJobs,
             id : CronJobs \cup {None}]
  /\ ct \in [stage : {"idle", "listed", "publish"},
             todo : SUBSET CronJobs, over : SUBSET CronJobs]
  /\ rt \in [stage : {"idle", "logs", "runs"}, before : 0..MaxDays]

Init ==
  /\ exists = {} /\ changes = 0 /\ day = 0
  /\ up = FALSE /\ crashes = 0
  /\ synced = FALSE /\ cache = {} /\ queue = [x \in CronJobs |-> <<>>]
  /\ row = [x \in CronJobs |-> "none"]
  /\ deletedAt = [x \in CronJobs |-> 0]
  /\ run = [r \in Runs |-> "none"] /\ started = [r \in Runs |-> 0]
  /\ logs = {} /\ series = NoSeries
  /\ ht = IdleHt /\ rc = IdleRc /\ ct = IdleCt /\ rt = IdleRt

-----------------------------------------------------------------------------
(* The cluster, the clock and the process                                  *)

Create(x) ==
  /\ x \notin exists /\ changes < MaxChanges
  /\ exists' = exists \cup {x} /\ changes' = changes + 1
  /\ UNCHANGED <<day, process, informer, row, deletedAt, runTable, series,
                 ht, rc, ct, rt>>

Delete(x) ==
  /\ x \in exists /\ changes < MaxChanges
  /\ exists' = exists \ {x} /\ changes' = changes + 1
  /\ UNCHANGED <<day, process, informer, row, deletedAt, runTable, series,
                 ht, rc, ct, rt>>

\* The spec or the status of a CronJob changes.
Update(x) ==
  /\ synced /\ x \in exists \cap cache /\ changes < MaxChanges
  /\ changes' = changes + 1
  /\ queue' = [queue EXCEPT ![x] = Append(@, "update")]
  /\ UNCHANGED <<exists, day, process, synced, cache, row, deletedAt,
                 runTable, series, ht, rc, ct, rt>>

NextDay ==
  /\ day < MaxDays
  /\ day' = day + 1
  /\ UNCHANGED <<cluster, process, informer, row, deletedAt, runTable, series,
                 ht, rc, ct, rt>>

Start ==
  /\ ~up
  /\ up' = TRUE
  /\ UNCHANGED <<cluster, day, crashes, informer, row, deletedAt, runTable,
                 series, ht, rc, ct, rt>>

\* The tables stay; the informer, the series and the goroutines are lost.
Crash ==
  /\ up /\ crashes < MaxCrashes
  /\ up' = FALSE /\ crashes' = crashes + 1
  /\ synced' = FALSE /\ cache' = {} /\ queue' = [x \in CronJobs |-> <<>>]
  /\ series' = NoSeries
  /\ ht' = IdleHt /\ rc' = IdleRc /\ ct' = IdleCt /\ rt' = IdleRt
  /\ UNCHANGED <<cluster, day, row, deletedAt, runTable>>

-----------------------------------------------------------------------------
(* The informer: its store changes first, the handler is notified later    *)

List ==
  /\ up /\ ~synced
  /\ synced' = TRUE /\ cache' = exists
  /\ queue' = [x \in CronJobs |-> IF x \in exists THEN <<"add">> ELSE <<>>]
  /\ UNCHANGED <<cluster, day, process, row, deletedAt, runTable, series, ht,
                 rc, ct, rt>>

\* A watch event, or what a relist after a watch gap finds.
Watch(x) ==
  /\ synced
  /\ \/ /\ x \in exists \ cache
        /\ cache' = cache \cup {x}
        /\ queue' = [queue EXCEPT ![x] = Append(@, "add")]
     \/ /\ x \in cache \ exists
        /\ cache' = cache \ {x}
        /\ queue' = [queue EXCEPT ![x] = Append(@, "delete")]
  /\ UNCHANGED <<cluster, day, process, synced, row, deletedAt, runTable,
                 series, ht, rc, ct, rt>>

-----------------------------------------------------------------------------
(* The store's cronjobs table                                              *)

\* A row that was deleted is revived: its deleted_at is cleared.
UpsertCronJob(x) ==
  /\ row' = [row EXCEPT ![x] = "live"]
  /\ deletedAt' = [deletedAt EXCEPT ![x] = 0]

\* MarkCronJobDeleted: a row that is already deleted keeps its deleted_at.
MarkDeleted(x) ==
  /\ row' = IF row[x] = "live" THEN [row EXCEPT ![x] = "deleted"] ELSE row
  /\ deletedAt' = IF row[x] = "live" THEN [deletedAt EXCEPT ![x] = day]
                  ELSE deletedAt

\* ListCronJobs
LiveRows == {x \in CronJobs : row[x] = "live"}

-----------------------------------------------------------------------------
(* CronJobHandler: each callback writes the row and then the series        *)

\* OnAdd and OnUpdate: upsert ...
HandlerUpsert(x) ==
  /\ ht.stage = "idle" /\ queue[x] # <<>>
  /\ Head(queue[x]) \in {"add", "update"}
  /\ queue' = [queue EXCEPT ![x] = Tail(@)]
  /\ UpsertCronJob(x)
  /\ ht' = [stage |-> "upserted", id |-> x]
  /\ UNCHANGED <<cluster, day, process, synced, cache, runTable,
                 series, rc, ct, rt>>

\* ... and the gauges the object itself speaks of.
HandlerPublish ==
  /\ ht.stage = "upserted"
  /\ series' = [series EXCEPT ![ht.id] = @ \cup {"settings"}]
  /\ ht' = IdleHt
  /\ UNCHANGED <<cluster, day, process, informer, row, deletedAt, runTable,
                 rc, ct, rt>>

\* Mutant of HandlerDelete: a tombstone is not unpacked, and ignored.
HandlerDeleteIgnored(x) ==
  /\ ht.stage = "idle" /\ queue[x] # <<>> /\ Head(queue[x]) = "delete"
  /\ queue' = [queue EXCEPT ![x] = Tail(@)]
  /\ UNCHANGED <<cluster, day, process, synced, cache, row, deletedAt,
                 runTable, series, ht, rc, ct, rt>>

\* OnDelete (a tombstone holds the CronJob too): markDeleted ...
HandlerDelete(x) ==
  /\ ht.stage = "idle" /\ queue[x] # <<>> /\ Head(queue[x]) = "delete"
  /\ queue' = [queue EXCEPT ![x] = Tail(@)]
  /\ MarkDeleted(x)
  /\ ht' = [stage |-> "marked", id |-> x]
  /\ UNCHANGED <<cluster, day, process, synced, cache, runTable, series, rc,
                 ct, rt>>

\* ... and DeleteCronJobSeries.
HandlerDrop ==
  /\ ht.stage = "marked"
  /\ series' = [series EXCEPT ![ht.id] = {}]
  /\ ht' = IdleHt
  /\ UNCHANGED <<cluster, day, process, informer, row, deletedAt, runTable,
                 rc, ct, rt>>

Handler ==
  \/ \E x \in CronJobs : HandlerUpsert(x) \/ HandlerDelete(x)
  \/ HandlerPublish \/ HandlerDrop

-----------------------------------------------------------------------------
(* Reconcile: once per process, after the cache has synced                 *)

ReconcileList ==
  /\ rc.stage = "wait" /\ synced
  /\ rc' = [rc EXCEPT !.stage = "listed", !.live = cache]
  /\ UNCHANGED <<cluster, day, process, informer, row, deletedAt, runTable,
                 series, ht, ct, rt>>

\* Mutant of ReconcileStored: the CronJobs that are present are marked.
ReconcileInverted ==
  /\ rc.stage = "listed"
  /\ rc' = [rc EXCEPT !.stage = "marking", !.todo = LiveRows \cap rc.live]
  /\ UNCHANGED <<cluster, day, process, informer, row, deletedAt, runTable,
                 series, ht, ct, rt>>

\* ListCronJobs, less the ones the lister returned earlier.
ReconcileStored ==
  /\ rc.stage = "listed"
  /\ rc' = [rc EXCEPT !.stage = "marking", !.todo = LiveRows \ rc.live]
  /\ UNCHANGED <<cluster, day, process, informer, row, deletedAt, runTable,
                 series, ht, ct, rt>>

ReconcileMark(x) ==
  /\ rc.stage = "marking" /\ x \in rc.todo
  /\ MarkDeleted(x)
  /\ rc' = [rc EXCEPT !.stage = "marked", !.todo = @ \ {x}, !.id = x]
  /\ UNCHANGED <<cluster, day, process, informer, runTable, series, ht, ct,
                 rt>>

ReconcileDrop ==
  /\ rc.stage = "marked"
  /\ series' = [series EXCEPT ![rc.id] = {}]
  /\ rc' = [rc EXCEPT !.stage = "marking"]
  /\ UNCHANGED <<cluster, day, process, informer, row, deletedAt, runTable,
                 ht, ct, rt>>

ReconcileEnd ==
  /\ rc.stage = "marking" /\ rc.todo = {}
  /\ rc' = [IdleRc EXCEPT !.stage = "done"]
  /\ UNCHANGED <<cluster, day, process, informer, row, deletedAt, runTable,
                 series, ht, ct, rt>>

Reconcile ==
  \/ ReconcileList \/ ReconcileStored \/ ReconcileDrop \/ ReconcileEnd
  \/ \E x \in CronJobs : ReconcileMark(x)

-----------------------------------------------------------------------------
(* The state collector                                                     *)

\* One pass, at the start and on every tick: ListCronJobs ...
CollectList ==
  /\ up /\ ct.stage = "idle" /\ LiveRows # {}
  /\ ct' = [ct EXCEPT !.stage = "listed", !.todo = LiveRows]
  /\ UNCHANGED <<cluster, day, process, informer, row, deletedAt, runTable,
                 series, ht, rc, rt>>

\* GetLastJobRun; of runs that started together any may be the one.
LastRuns(x) ==
  LET runs == {r \in Runs : RunOf[r] = x /\ run[r] # "none"}
  IN  {r \in runs : \A q \in runs : started[q] <= started[r]}

\* ... GetCronJobSummaries, which lists the CronJobs again ...
CollectSummaries ==
  /\ ct.stage = "listed"
  /\ \E over \in SUBSET (ct.todo \cap LiveRows) :
       /\ \A x \in over : \E r \in LastRuns(x) : run[r] = "over"
       /\ \A x \in (ct.todo \cap LiveRows) \ over :
            LastRuns(x) = {} \/ \E r \in LastRuns(x) : run[r] = "running"
       /\ ct' = [ct EXCEPT !.stage = "publish", !.over = over]
  /\ UNCHANGED <<cluster, day, process, informer, row, deletedAt, runTable,
                 series, ht, rc, rt>>

Published(x) == LET rest == ct.todo \ {x}
                IN  IF rest = {} THEN IdleCt ELSE [ct EXCEPT !.todo = rest]

\* Mutant of CollectOne: outcomes are left to RecordCompletion.
CollectActivity(x) ==
  /\ ct.stage = "publish" /\ x \in ct.todo
  /\ series' = [series EXCEPT ![x] = @ \cup {"settings", "activity"}]
  /\ ct' = Published(x)
  /\ UNCHANGED <<cluster, day, process, informer, row, deletedAt, runTable,
                 ht, rc, rt>>

\* ... and the gauges of each CronJob; a run in flight has no outcome yet.
CollectOne(x) ==
  /\ ct.stage = "publish" /\ x \in ct.todo
  /\ series' = [series EXCEPT ![x] = @ \cup {"settings", "activity"}
                   \cup IF x \in ct.over THEN {"outcome"} ELSE {}]
  /\ ct' = Published(x)
  /\ UNCHANGED <<cluster, day, process, informer, row, deletedAt, runTable,
                 ht, rc, rt>>

-----------------------------------------------------------------------------
(* Runs, as far as they meet the inventory                                 *)

\* UpsertJobRun: the foreign key needs the CronJob's row.
StartRun(r) ==
  /\ up /\ run[r] = "none" /\ row[RunOf[r]] # "none"
  /\ run' = [run EXCEPT ![r] = "running"]
  /\ started' = [started EXCEPT ![r] = day]
  /\ UNCHANGED <<cluster, day, process, informer, row, deletedAt, logs,
                 series, ht, rc, ct, rt>>

\* BatchInsertLogLines: the foreign key needs the run's row.
LogRun(r) ==
  /\ up /\ run[r] # "none" /\ r \notin logs
  /\ logs' = logs \cup {r}
  /\ UNCHANGED <<cluster, day, process, informer, row, deletedAt, run,
                 started, series, ht, rc, ct, rt>>

\* The Pod handler's terminal case: UpdateJobRunStatus and RecordCompletion.
FinishRun(r) ==
  /\ up /\ run[r] = "running"
  /\ run' = [run EXCEPT ![r] = "over"]
  /\ series' = [series EXCEPT ![RunOf[r]] = @ \cup {"outcome"}]
  /\ UNCHANGED <<cluster, day, process, informer, row, deletedAt, started,
                 logs, ht, rc, ct, rt>>

-----------------------------------------------------------------------------
(* Retention: runRetention, hourly                                         *)

\* Is a time more than n days before the day d?
Before(time, n, d) == time + n < d

DeleteOldLogLines ==
  /\ up /\ rt.stage = "idle"
  /\ logs' = {r \in logs : ~Before(started[r], LogRetentionDays, day)}
  /\ rt' = [stage |-> "logs", before |-> 0]
  /\ UNCHANGED <<cluster, day, process, informer, row, deletedAt, run,
                 started, series, ht, rc, ct>>

\* DeleteOldData: the log lines go with their run.  The horizon is kept for
\* the purge.
DeleteOldData ==
  LET old == {r \in Runs : Before(started[r], RetentionDays, day)}
  IN
  /\ rt.stage = "logs"
  /\ run' = [r \in Runs |-> IF r \in old THEN "none" ELSE run[r]]
  /\ logs' = logs \ old
  /\ rt' = [stage |-> "runs", before |-> day]
  /\ UNCHANGED <<cluster, day, process, informer, row, deletedAt, started,
                 series, ht, rc, ct>>

\* Mutant of Purgeable: the guard on the remaining runs is missing.
PurgeableWithRuns(x) ==
  row[x] = "deleted" /\ Before(deletedAt[x], RetentionDays, rt.before)

Purgeable(x) ==
  /\ row[x] = "deleted" /\ Before(deletedAt[x], RetentionDays, rt.before)
  /\ \A r \in Runs : RunOf[r] = x => run[r] = "none"

\* PurgeDeletedCronJobs: runs, and their log lines, go with their CronJob.
PurgeDeletedCronJobs ==
  LET gone == {r \in Runs : Purgeable(RunOf[r])}
  IN
  /\ rt.stage = "runs"
  /\ row' = [x \in CronJobs |-> IF Purgeable(x) THEN "none" ELSE row[x]]
  /\ run' = [r \in Runs |-> IF r \in gone THEN "none" ELSE run[r]]
  /\ logs' = logs \ gone
  /\ rt' = IdleRt
  /\ UNCHANGED <<cluster, day, process, informer, deletedAt, started, series,
                 ht, rc, ct>>

Retention == DeleteOldLogLines \/ DeleteOldData \/ PurgeDeletedCronJobs

-----------------------------------------------------------------------------

Next ==
  \/ \E x \in CronJobs : Create(x) \/ Delete(x) \/ Update(x) \/ Watch(x)
  \/ NextDay \/ Start \/ Crash \/ List
  \/ Handler \/ Reconcile
  \/ CollectList \/ CollectSummaries \/ \E x \in CronJobs : CollectOne(x)
  \/ \E r \in Runs : StartRun(r) \/ LogRun(r) \/ FinishRun(r)
  \/ Retention

Spec == Init /\ [][Next]_vars

\* The process is restarted when it stops, the informer follows the cluster,
\* and the goroutines run.  The cluster, its runs and the clock owe nothing.
FairSpec ==
  /\ Spec
  /\ WF_vars(Start) /\ WF_vars(List) /\ WF_vars(Handler) /\ WF_vars(Reconcile)
  /\ WF_vars(CollectList) /\ WF_vars(CollectSummaries) /\ WF_vars(Retention)
  /\ \A x \in CronJobs : WF_vars(Watch(x)) /\ WF_vars(CollectOne(x))

-----------------------------------------------------------------------------
(* Properties *)

\* No run is lost before its retention period is over, and no log line before
\* the shorter of the two periods: neither the retention loop nor the cascade
\* of a purge, whose horizon was read two statements earlier, takes a younger
\* one.
YoungHistorySurvives ==
  [][\A r \in Runs :
       /\ run[r] # "none" /\ run'[r] = "none"
            => Before(started[r], RetentionDays, day)
       /\ r \in logs \ logs'
            => \/ Before(started[r], RetentionDays, day)
               \/ Before(started[r], LogRetentionDays, day)]_vars

\* A run always has its CronJob, and log lines always have their run.
HistoryIsReachable ==
  /\ \A r \in Runs : run[r] # "none" => row[RunOf[r]] # "none"
  /\ \A r \in logs : run[r] # "none"

\* The purge window does not slide: while a row stays deleted its deleted_at
\* does not change, although OnDelete and Reconcile may both mark it.
PurgeWindowFixed ==
  [][\A x \in CronJobs : row[x] = "deleted" /\ row'[x] = "deleted"
                           => deletedAt'[x] = deletedAt[x]]_vars

\* A CronJob that is gone for good leaves the listing, even when it was deleted
\* while the process was down or during a watch gap.
GoneIsHidden ==
  \A x \in CronJobs :
    <>[](x \notin exists) => <>[](row[x] # "live")

\* Once Reconcile is through, a CronJob that is listed although the informer
\* knows it is gone has its deletion on the way to the handler: nothing that was
\* deleted while the process was down, during a watch gap or while Reconcile
\* compared its two lists stays behind.
NoGhost ==
  rc.stage = "done" =>
    \A x \in LiveRows \ cache :
      queue[x] # <<>> /\ queue[x][Len(queue[x])] = "delete"

\* What the process knows of a listed CronJob is published in time, after a
\* restart too: the gauges that only the collector sets, and, once its last run
\* is over, those that are otherwise set only at the moment a run ends.
Due(x) ==
  IF ~up \/ row[x] # "live" THEN {}
  ELSE {"activity"} \cup IF LastRuns(x) # {} /\ \A r \in LastRuns(x) : run[r] = "over"
                          THEN {"outcome"} ELSE {}

ListedIsPublished ==
  \A x \in CronJobs, g \in {"activity", "outcome"} :
    g \in Due(x) ~> g \in series[x] \/ g \notin Due(x)

-----------------------------------------------------------------------------
(* The inductive invariant behind the history properties.                  *)

HistoryInv ==
  /\ row \in [CronJobs -> {"none", "live", "deleted"}]
  /\ run \in [Runs -> {"none", "running", "over"}]
  /\ logs \subseteq Runs
  /\ deletedAt \in [CronJobs -> Nat] /\ day \in Nat
  /\ ht.stage # "idle" => ht.id \in CronJobs
  /\ HistoryIsReachable

\* A goroutine that is about to touch the gauges of a CronJob has one.
AtWorkInv ==
  /\ ht.stage # "idle" => ht.id \in CronJobs
  /\ rc.stage = "marked" => rc.id \in CronJobs

\* The last notification about a CronJob is what the informer last saw of it.
NewsInv ==
  /\ ~synced => rc.stage = "wait" /\ \A x \in CronJobs : queue[x] = <<>>
  /\ \A x \in CronJobs :
       queue[x] # <<>> => (queue[x][Len(queue[x])] = "delete" <=> x \notin cache)

\* Does Reconcile still have to mark x, which was gone when it began?
IsLeft(x) ==
  \/ rc.stage = "wait"
  \/ rc.stage = "listed" /\ x \notin rc.live
  \/ rc.stage \in {"marking", "marked"} /\ x \in rc.todo

\* The CronJobs without a notification that are listed though gone are those
\* Reconcile is there for.
GhostInv ==
  \A x \in LiveRows \ cache : synced /\ queue[x] = <<>> => IsLeft(x)
=============================================================================
