# KubeCron: a TLA+ model of the recorder

KubeCron watches the CronJobs of one or more Kubernetes clusters and keeps what
Kubernetes forgets: every run with its outcome, its log and its resource use, in
SQLite, shown as HTML pages, a JSON API and Prometheus gauges. It is one Go
process with many goroutines (three informers per cluster, a streamer per
running run, samplers, a retention loop, a collector, HTTP handlers) that meet
in one database connection and a few in-memory maps, and it must cope with
events out of order, with restarts, and with a cluster that changes while it is
down. These modules model that behaviour from the source; TLC checks them on
small instances and TLAPS proves the main safety properties for all instances.

## 1. Inventory

| Component (source) | State | Operations | Correct when |
|---|---|---|---|
| Job handler (`watcher/job.go`) | rows of `job_runs` | `OnAdd`, `backfillRun`, `OnDelete` | outcomes are those of the Job's Pods; a deleted Job leaves no running row |
| Pod handler (`watcher/pod.go`) | none of its own; goroutine locals | `OnAdd`, `retryOnAdd`, `OnUpdate` | a terminal Pod closes its run, never another one |
| Run index (`watcher/run_index.go`) | Job name → run id | `Set`, `Get`, `Delete` | no entry outlives its Job |
| CronJob handler (`watcher/cronjob.go`) | rows of `cronjobs` | `OnAdd`, `OnUpdate`, `OnDelete`, `Reconcile` | what is listed is what exists |
| Controller (`watcher/controller.go`) | informer caches | `Start`, the Reconcile goroutine | initial list before watch events |
| Log streamer (`streamer/logstream.go`) | `streaming` map, line channel, batch | `Stream`, reader, flush, `Close` | the whole log is stored, no reader blocks it |
| Broadcaster (`streamer/broadcaster.go`) | subscriber channels | `Subscribe`, unsub, `Publish`, `Close` | no send on a closed channel |
| Live log (`api/handlers_sse.go`) | per request | replay, follow, done | no gap between replay and live lines |
| Trigger, suspend, resume (`api/handlers_cronjob.go`) | pre-inserted row | `Trigger`, `patchSuspend` | the pre-insert agrees with the watcher's row |
| Retention (`storage/retention.go`) | clock | three statements | only its age removes history |
| Metrics (`metrics/*.go`) | Prometheus series | collector pass, `DeleteCronJobSeries` | what is known of a listed CronJob is published |
| Schedule (`schedule/next.go`) | none | `PrevRun`, `IsMissed` | silence is reported, no false alarm |
| Run endpoints (`api/handlers_v1.go`, `handlers_runs.go`) | cursor at the client | `ListRunsV1`, `RunsList`, `RunsListMore` | a walk gives every run that stays in its place once |
| | per request | `GetLogsV1`, `DownloadLogs`, `RunDetail` | what is said of a missing log is true |
| CronJob tables (`api/handlers_cluster.go`, `html_components.go`) | per request | `cronJobRowInputs`, `buildCronJobRow`, `renderOverview` | a page does not contradict itself |
| Clusters (`cluster/*.go`) | registry, `clusters` table | `Load`, `registerCluster`, `markRemovedClusters` | what is listed is what is configured |
| Metrics probe (`sampler/metrics_probe.go`) | flag and column | `probe`, `StartProbe` | sampling where the API answers |
| Resource sampler (`sampler/resource_sampler.go`) | `active` map | `Start`, `Stop`, samples, `finalize` | the summary covers every sample, sampling ends with the Pod |
| Rate limiter (`api/rate_limiter.go`) | bucket per address | `allow` | bounded bursts, nobody held back too long |
| Request guards (`auth/`, `api/server.go`, `bearer.go`, `csrf.go`, `mode.go`) | session key; cookies in the browser | middleware per mode, login, callback, logout | each route behind its guard, logins lead where they were meant to |
| Markup, middleware, migrations, chart | none | rendering, set-up | |

How they interact: the informers call the handlers, one goroutine per informer;
the Pod handler starts streamers and samplers, each a goroutine; these, the HTTP
handlers, the retention loop and the collector share the store, whose single
connection makes every call atomic and nothing more than a call. The run index
is shared by the Job and Pod handlers, the broadcaster by streamers and viewers,
the registry by main and the handlers.

What is hard: handlers that read a row, do something else and then write it (Job
deletion against Pod events, the log size check, Reconcile against new CronJobs); Pod
events before Job events, stale Pods replayed by `retryOnAdd`, tombstones; a stop
between any two store calls and the recovery after it; three goroutines that close one
channel; a cursor over a table that changes; pages and answers put together from
several reads; a store closed under goroutines that still write; cookies shared by tabs
that log in at once and kept over restarts; windows and limits in the schedule search.
`PROJECT.json` lists each as a hazard with the properties aimed at it.

## 2. Modules

| Module | Models | Proved in | Runs |
|---|---|---|---|
| `RunRecorder` | Job and Pod handlers, run index, trigger, recovery | `RunRecorder_proofs` | `retry` `trigger` |
| `LogPipeline`, `LogFeed` | streamer, broadcaster, SSE; the abstract promise | `LogPipeline_proofs` | `log_errors` `log_live` |
| `Inventory` | CronJob handler, Reconcile, retention, collector | `Inventory_proofs` | `history` |
| `Schedule`, `Verdict` | `IsMissed` over `PrevRun`; its answer in closed form | `Schedule_proofs` | `verdict` |
| `RunPages` | the paged run history | `Pages_proofs` | `walk` |
| `Clusters` | `Manager.Load`, clusters table, metrics probe | `Clusters_proofs` | `load` |
| `RunDetails` | sampler, log body and its readers, shutdown | `RunDetails_proofs` | `details` |
| `FrontDoor`, `RateLimiter` | routes, guards, login, limiters | `FrontDoor_proofs` | `front_door` |
| `Overview` | CronJob tables, tiles and their queries | `Pages_proofs` | `overview` `newborn` |

`MC<Module>` holds the instances for TLC. Run one with
`tlc -config <cfg> MC<Module>`, check proofs with `tlapm <Module>_proofs.tla`;
`Pages_proofs` covers what the pages show, `RunPages` and `Overview`.
A definition named as a mutant in its comment is a plausible bug; replacing the
original by it makes the property listed with it in `PROJECT.json` fail, which
shows that the property can see that part of the code.

### RunRecorder

The cluster is the environment: Jobs go from active to complete, failed or gone,
Pods through their phases, each informer lists and then delivers events in its
own order, possibly skipping intermediate phases and, with `Tombstones`, losing
the object of a deletion. `runs` is `job_runs`, `index` the run index, `jt` the
Job informer's goroutine, `handler[t]` each goroutine inside `OnUpdate` (the Pod
informer's and one per `retryOnAdd`). `JobAdd`, `JobAddDone`, `BackfillStamp`,
`BackfillPods`, `JobDelete`, `JobDeleteMark`, `PodEvent`, `RetryOnAdd`,
`PodWrite` and `PodFinish` are the handlers, split where a value read earlier is
used later. `TriggerCreate` and `TriggerInsert` are the endpoint,
`Start` the recovery in `main`, `Crash` a stop at any point. A run's `exit` is
null, the sentinel of `MarkRunFailed`, zero or non-zero: all the code tells
apart. Store calls fail only on a missing parent row (`cronRow`).

### LogPipeline and LogFeed

A line is a number that grows with the order of reading, and a log that is read
again gives new numbers, so duplicates and order are visible. `pc` is the
streaming goroutine, `lineCh` its channel from the reader, `batch` what a flush
stores and then publishes, `cpc[c]` each SSE request. `skipped[c]` collects what
the code drops knowingly (full channel, tail limit, failed read), so that
`NoGap` is about what it drops unknowingly. `LogFeed` is the abstract promise to
a viewer; `FeedSpec` says that the pipeline implements it, with
`accepted <- stored`, `view <- live` and the phases of the viewer read off `cpc`. It
speaks of live lines only; the replay is the business of `NoGap`, and so is what store
calls that fail do (`NoHoles`), as `LogFeed` is promised only without them.

### Inventory

`exists` is the cluster, `cache` and `queue` the informer's store and its
notifications, `row`/`deletedAt` the `cronjobs` table, `run`/`started`/`logs` the
history that hangs off it by foreign keys, `series` the kinds of gauges
each CronJob is published with: those its object speaks of (suspension, next run: the
handler and the collector set them), those that only the collector sets (active runs,
missed) and those of the last outcome (the collector and `RecordCompletion`). The
handler (`ht`), Reconcile (`rc`), collector (`ct`) and retention (`rt`) are
separate goroutines, one store call per step; the retention horizon is read once
and used by three statements. Time is in days.

### Schedule

A cron expression is any set of fire times; the cron library is only asked for the
next one. An interval (`@every 1h`) has no fire times: `Next` is one interval after
whatever time it is given, so the walk ends on the last multiple counted from where
its window began, and the step back in the grace period lands one second earlier.
One behaviour is one call of `IsMissed`: the estimate of the cadence, the
walk with its probe limit, the widening of the window, the step back in the
grace period and the verdict. `cut` records that the probe limit ended a walk.
`Verdict` gives the answer in closed form: the occurrence judged (`Due`) and the
comparison with the last run (`Silent`). `VerdictIsRight` says that the search
computes it for cron expressions, the only ones for which it is stated (`Fixed`);
`Overview` uses it in the place of the search.

### RunPages

Rows appear with start times in any order, are written again with another start time
(the trigger endpoint and the watcher record the same run, the watcher every Job after
a restart) and expire while a client walks the pages. `TextRank` is the order of the
stored texts, here that of a zone whose clock goes back (`ClockBack`). A start time may
be as fine as `time.Now()`. A walk stays within one process, so that cursor and rows
are written in the same zone; `moved` collects the runs that came to another place
during it. Its names (`WalkInit`, `WalkNext`, `PagedRuns`, `startedAt`, ...) differ
from those of `Overview` so that one module of proofs can extend both.

### Clusters

The directory, the service account and the Metrics APIs change at any time (`Edit`); a
process starts, lists the directory, registers one file after the other, marks the
removed clusters, probes and serves, and a signal (which cancels the context, so that
store calls and probes fail from then on) or a crash may come at any step. Two files
may have one id. A probe and the two writes it makes are one step, in which the context
may end between the answer and the write: then the flag is set and the column is not.
The metrics client that cannot be built is a nil pointer in an interface; `Panic` is
what happens when it is used.

### RunDetails

One run, and everything that writes its details: the flush of the streamer (the lines,
then the size), the sampler goroutines, the Pod and Job handlers that start and stop
them, retention, and `main`. `RunRecorder` asks which outcome is recorded; here the
outcome is given by the `profile` of the run and the question is what is kept of its
output. A handler that has found its run is a list of steps (`todo`), each a store call
or a call of the streamer or sampler. A stored line is its row id, a sample the
goroutine that took it and a number, an aggregate the set it was computed over. A
terminal Pod may be delivered any number of times, so that a sampler whose run was not
found can be stopped by a later event, and two samplers of one run may be at work at
once. `proc` distinguishes the process at work, the one that has closed its store but
still runs (`Shutdown`), and none. Readers are one request at a time (`req`), which is
enough as they write nothing: the row is read in one step, the lines in the next, and
`Answer` is what would be said now. `flushed`, `removed` and `lost` are history.

### FrontDoor and RateLimiter

The tabs of one browser share the cookies in `jar`; a script has none. A request
carries the cookies as they were when it was sent, and is served when
`Handle` is taken, with anything in between: another tab's answer, the clock, a
restart with a new key or another configuration. The guards are operators in the
order of the chain (`Admitted`, `CSRFProtect`, `Handler`, `CanOperate`), each
named after the code. A login's target travels in its state, `aim` is the page
the tab really wanted and `Target` as much of it as the login link carries (`Cut`).
The route `underAuth` stands for every path under `/auth/` that no handler is
registered for: `Middleware` exempts it and the mux gives its GET to the dashboard
handler. `vetted` is what the provider and the allow-list have
confirmed under each key, as a key may come back after a restart: `Earned` speaks
about it and not about cookies.
`RateLimiter` is instantiated once for logins and once for triggers; its history
is the requests of each address let through within the last window (`recent`) and
the addresses turned away since the clock last moved (`refused`).

### Overview

A page is put together from several store calls (`ListCronJobs`,
`LiveCronJobIDs`, then `LastRun` and `RunStats` for each CronJob, `BuildRows`,
`FleetStats`) while the watcher and retention write. The writers are reduced to
what the statements may do to the tables: which outcome is right is
`RunRecorder`'s business. `IsMissed` is the verdict of `Verdict`. Time is
counted in halves of the grace period; `Delay` bounds the way of a Job to its row
and `RenderTime` the time a reader takes, together at most the grace period
(`OverviewAssumption`).

`NoFalseAlarm` says of a CronJob called missed that no run of it ever started at
the occurrence judged: not one that is there, nor one whose row appears while the
page is put together, nor one that retention has deleted. It leaves out what the
code cannot know: schedules denser than the grace period (`Sparse`), a CronJob
added since the request began (it may be listed before it is added again and have
no summary), and, for one without a run on record, occurrences older than
retention. What is said of the
statistics carries a condition on the configuration in its theorems:
`Window <= Retention`. `RETENTION_DAYS` is 90 by default and not validated
(`cmd/kubecron/main.go:38`); set below 7, retention may take a run between the
two reads that the row compares.

## 3. What the runs show

| Run | Instance | Shows |
|---|---|---|
| `retry` | one scheduled Job, two Pods (the first may be evicted), one restart, fair; 252 k states | `NoInheritedRunning`, `NoStaleIndexEntry`, `ReopenedOnlyByInitialList`, `DeletedJobsClose`, `TerminalPodCloses` |
| `trigger` | a triggered Job with a Pod and a log, a scheduled one without, tombstones, one restart; 1.3 M states | `OutcomeIsReal` with a pre-insert that is late or lost |
| `log_errors` | one viewer, two streams of two lines, channel and tail of one, failing reads and store calls; 1.9 M states | `NoGap`, `NoHoles`, `NoPanic` |
| `log_live` | one viewer, three lines, channel of one, fair | refinement of `LogFeed`, `LogIsStored`, `ViewersFinish` |
| `history` | one CronJob and run, three days, two changes, one restart, fair; 415 k states | `NoGhost`, `YoungHistorySurvives`, `GoneIsHidden`, `ListedIsPublished` |
| `verdict` | all expressions of period 6, five intervals, all last runs and moments in a horizon of 30, fair; 230 k states | `PrevRunIsLatest`, `VerdictIsRight`, `AlarmIsReal`, `Answers` |
| `walk` | three runs, four start times, half-second ticks, limits 1, 2 and none, the end of summer time; 950 k states up to the symmetry of the runs | `RepeatsAreMoved`, `MissedAreTiedOrMoved` |
| `load` | two kubeconfigs, one with the id of the fallback, three starts, two edits, fair; 570 k states | `ListedIsDeclared`, `RegisteredIsListed`, `BrokenIsKept`, `MetricsAreNoticed` |
| `details` | a run that prints two lines, and one that is sampled twice by up to two goroutines, also at once; one shutdown or crash, one restart, both retention limits, fair; 774 k states | `ExpiredIsTrue`, `SilenceIsTrue`, `NothingLeftOut`, `UsageIsFinal`, `SamplingEnds` |
| `front_door` | two tabs, two accounts, three pages (one whose address has an `&`), five configurations (no door, OIDC with a random key and operators, OIDC with token and allow-list, the same with other lists, collector), one restart between them, fair; 104 k states | `AccessIsEarned`, `OwnPostsPass`, `LandsWhereAsked`, `SomeLoginCounts`; `AtMostTwice`, `RefusedHadItsShare` of both limiters |
| `overview` | one CronJob, two runs, an occurrence every four units, grace 2, delay and rendering 1 each, windows 2 and 3, two edits in three units of time; 7.3 M states up to the symmetry of the runs | `RowIsCoherent`, `NoFalseAlarm`, `TilesKnowRows` |

One viewer is enough for the log pipeline because viewers meet only in the subscriber
map, and the proofs cover any number of them. In `details` a run prints or is sampled,
not both: the two parts share the row only, and its life is the same in both.
`UsageIsFinal` says that the summary of a run leaves out only samples of a goroutine
that still runs, whichever of two samplers ends last. In `overview` one CronJob is
enough because rows are computed one by one and the tiles are sums.

One run checks a sentence of the repository against the model and finds a
behaviour of the code that breaks it; the finding in `PROJECT.json` quotes it.

| Run | What happens |
|---|---|
| `newborn` | a CronJob added more than the grace period after its schedule's previous occurrence is shown as missed at once, and until its first run (`NewIsNotMissed`) |

### Known deviations

The models contain further behaviours that a comment, doc or test of the
repository rules out. They were met while looking for properties that hold; no
run is kept for them, and the properties above are stated so that they leave
these cases out.

| Source | What happens | What it contradicts |
|---|---|---|
| `watcher/job.go:203` | `OnDelete` marks as failed a run whose outcome was recorded after its check at line 199 | job.go:189 "if it is still 'running'" |
| `watcher/job.go:192` | a deletion delivered as a tombstone leaves the run running until a restart; hence `Tombstones = FALSE` in `retry` | job.go:189 |
| `watcher/job.go:126` | a stop inside `backfillRun` leaves a succeeded run without end or exit code | job.go:99 "Already correctly backfilled" |
| `watcher/pod.go:142` | the first failed Pod of a Job closes its run and clears the index, so a Job whose retry succeeds stays failed | README.md:23 "every execution recorded with status" |
| `watcher/cronjob.go:75` | a CronJob created while Reconcile runs, after its list of the cluster and before its list of the store, is soft-deleted until its next update | cronjob.go:65 "absent from the cluster" |
| `watcher/pod.go:192` | Jobs of equal names in two namespaces share an index entry; hence `DistinctNames` | pod.go:108 "this lookup is stable" |
| `watcher/pod.go:132` | two Pod events around the end of a stream store the log twice | pod.go:131 "prevents duplicates" |
| `watcher/pod.go:138` | a late Running event, or a deleted Job, leaves a sampler nobody stops | README.md:210 "per running pod" |
| `storage/queries.go:187` | a run reopened after a restart keeps the `finished_at` recovery gave it | docs/openapi.yaml:707 |
| `api/handlers_sse.go:110` | a line stored before the replay and published after it is shown twice | handlers_sse.go:63 "no duplicates" |
| `api/handlers_sse.go:146` | the done event overtakes the last lines of the log | handlers_sse.go:62 "no lines are missed" |
| `streamer/logstream.go:69` | the Close of an ended stream closes the viewers of the next one | handlers_sse.go:125 |
| `metrics/collector.go:99` | the collector republishes a CronJob deleted during its pass | cronjob.go:94 |
| `schedule/next.go:161` | the probe limit hides the latest fire time of a bursty schedule; hence `cut` | next.go:90 |
| `schedule/next.go:240` | a dense schedule is reported within the grace period; hence `Sparse` | next.go:173 |
| `schedule/next.go:233` | `Next` of an `@every` schedule counts from whatever time it is asked, so `PrevRun` answers a time close to now, and the step back in the grace period answers one second before it: a CronJob whose run ended moments ago is reported as missed (`GraceIsGiven` is false for intervals; hence `Fixed`) | next.go:173 "a run may still appear" |
| `schedule/next.go:231` | a dense schedule that never ran is never reported | next.go:228 |
| `schedule/next.go:242` | a CronJob that runs less often than `RETENTION_DAYS` has no run on record and is reported missed; hence the bound `clock - f <= Retention` in `NoFalseAlarm` | next.go:191 "no run has ever been seen" |
| `storage/queries.go:462` | of two runs with one start second, the one after the page's end is on no page; hence "ties" | storage/paging_test.go:117 |
| `storage/queries.go:195` | a run recorded again with another start time moves across the cursor of a walk: it comes twice or not at all; hence `moved` | storage/paging_test.go:43 "seen exactly once" |
| `storage/queries.go:446` | in the hour a zone repeats, older runs come first | queries.go:437 "newest first" |
| `api/handlers_v1.go:620` | a limit above the maximum gives the maximum, not the default | docs/openapi.yaml:158 |
| `sampler/metrics_probe.go:22` | a Metrics API that is gone is still reported | api/handlers_v1.go:151 |
| `sampler/metrics_probe.go:26` | a signal between the answer and the write: runs are sampled though `metrics_enabled` is not set; the process is about to end | api/handlers_v1.go:151 |
| `cluster/manager.go:135` | a directory that cannot be listed is taken for an absent one: the process falls back to the service account and hides every cluster of the directory | manager.go:87 "transiently unreadable" |
| `streamer/logstream.go:106` | a crash between the lines and the size of a flush: once retention has taken the lines, the run is said to have printed nothing (`flushed` counts complete flushes) | docs/openapi.yaml:857 |
| `streamer/logstream.go:99` | lines that could not be stored count in the size: the log is called expired although it was never kept; hence `StoreOpen` and `HasRow` for both calls alike | api/handlers_v1.go:532 |
| `api/handlers_v1.go:580` | a log of exactly `limit` lines is called truncated | docs/openapi.yaml:863 |
| `api/handlers_runs.go:390` | the page and the download show an empty log when the store call fails; hence `StoreOpen` in `Answers` | docs/openapi.yaml:857 |
| `cmd/kubecron/main.go:222` | the store is closed under samplers that still run, and the summary of their runs is lost (`lost`) | README.md:210 |
| `api/handlers_cluster.go:510` | a CronJob deleted between two of the calls behind a page is shown as one that never ran | schedule/next.go:191 "no run has ever been seen" |
| `auth/auth.go:360` | the page to return to is put unescaped into the login's URL and is cut at its first `&`; hence `Target` | auth.go:200 "survives the round-trip" |
| `auth/auth.go:172` | a GET under `/auth/` that has no handler of its own is answered by the dashboard handler, which looks at no path; `AccessIsEarned` counts all of `/auth/` as exempt, as the comment at auth.go:163 does | README.md:221 "all routes" |
| `auth/auth.go:213` | of two tabs that log in at once all but the last are turned away with 400; hence "one of them" | auth.go:205 |
| `cluster/manager.go:152` | a metrics client that cannot be built ends the process at its first probe (action `Panic`) | manager.go:150 "Non-fatal" |

**Bounds.** Every hazard needs at most two goroutines on one row, one restart,
and one object that comes back; the instances have one more of each where the
state space allows. Limits of the code (256 and 64 channel slots, 200 lines a
flush, 5000 of tail, 2000 probes, 400 days, 1000 runs a page) are constants with
small values, so that full, empty and just-over all occur. Counters with a bound
(`MaxCrashes`, `MaxChanges`, `MaxDays`, `MaxSessions`, `MaxStarts`, `MaxEdits`,
`MaxTime`, `MaxSamples`, `MaxRestarts`) are bounded in the guard of the action
that counts; `MaxSamplers` is at least the number of Running events, so that it
bounds nothing. The restart of `front_door` is tried where it matters: with a new
key, with the same key and other lists, and into the other mode (`Followers`);
its clock runs far enough (`Clocks`) for a session or a state cookie to expire in
`TwoDoors`, and for windows of the limiters to follow one another in `Open`; in the
other configurations it stands still.
In `overview` an occurrence lies in the past, one at the start and
one within the run, and statistics and retention end inside it too. Deadlock is
not checked where the environment stops with its bounds used up, and then the
program may; in `front_door` something can always go on, and it is checked.

**Fairness.** A goroutine that can go on does, because Go schedules it: weak
fairness on its next step. Informers deliver what they have (client-go retries
its list and watch), and the process is restarted (a Deployment). Nothing is
assumed of the cluster, of users or of the clock. An SSE handler's `select` may
always prefer its ticker, so only the ticker and the return are fair, and a
viewer need not read. In `load` main and the tickers run, and nothing says that
the process stops or starts. In `details` handlers and samplers go on, the Pod
informer delivers, and `main` returns once it has closed the store; the sampler's
ticker is not fair, so that `SamplingEnds` does not depend on it. In `front_door`
a request is served, and who is sent to the provider comes back or goes
elsewhere (`Browse` ends the wait as well).

## 4. What is proved

All theorems hold for every value of the constants under the named assumptions
of the module, and are proved by an inductive invariant: it holds initially,
every action keeps it (one lemma per action or group), and it implies the
property.

- `RunRecorder_proofs`: `TypeCorrect` (`TypeOK`) and `OutcomesAreReal`
  (`OutcomeIsReal`, given `DistinctNames`). The property alone is not inductive:
  a handler writes the outcome of a Pod it looked at steps ago, to a run it found
  by name. `OutcomeInv` adds that index entries and lookups in flight agree with
  Job names (`NamesAgree`) and that remembered terminal phases and verdicts are
  still those of the Pods (`PhasesAgree`). Without distinct names it is false
  (known deviations, `pod.go:192`).
  `RecoveryIsComplete` (`NoInheritedRunning`), `IndexIsPruned`
  (`NoStaleIndexEntry`, given `~Tombstones`) and the action property
  `OnlyListingReopens` (`ReopenedOnlyByInitialList`) rest on `TrackingInv`: before
  its initial list the Job informer has told the handlers nothing and a Job being
  backfilled is not deleted (`ListingInv`), and nobody but the Job informer or the
  trigger is the first to write a row (`FirstWriteInv`). The Pod handler, the
  cluster and the background goroutines are handled together: they only close
  existing runs and drop index entries (`Quiet`).
- `LogPipeline_proofs`: `NoPanic`, because the subscriber map holds open channels
  only (`PanicInv`); `NoGap` by `GapInv`, which adds that a flush has a batch and
  that sequences hold lines; `TypeCorrect`.
  `PipelineImplementsFeed` is the refinement: given `~Errors`, `Spec => FeedSpec`.
  Storing a batch is `LogFeed`'s `Accept`, the replay its `Join`, receiving its
  `Show`, the end of the replay of a finished run, the ticker that sees one and a
  disconnect its `Leave`; all else stutters. The mapping needs `FeedInv`: the types
  (`TypeInv`), that what a viewer gets is stored (`StoredInv`, which
  follows a line through batch and channels), and that the lines shown,
  in its channel, in the batch and still to be read follow each other in the order of
  the log (`OrderInv`). Without the hypothesis it is false: a failed
  insert is only logged, and its lines are published all the same.
- `Inventory_proofs`: `TypeCorrect`, with `AtWorkInv` (a goroutine that is about to
  touch gauges has a CronJob). `HistoryStaysReachable` by `HistoryInv` (the foreign
  keys), and from it the action properties `YoungHistorySurvives` and
  `PurgeWindowFixed`. `NoGhost`, the safety half of `GoneIsHidden`, by `NewsInv` (the
  last notification about a CronJob is what the informer last saw of it) and
  `GhostInv`: a CronJob that is listed, gone and without a notification was gone when
  Reconcile began, and Reconcile still has it to mark.
- `Schedule_proofs`: `PrevRunIsLatest`, `NoneMeansNone`, `VerdictIsRight`,
  `SilenceIsReported`, `AlarmIsReal` and, for cron expressions, `GraceIsGiven`, by
  `SearchInv`: what the walk has passed in its window is exactly what lies before its
  position (`WalkInv`), what a finished walk means (`EndInv`), and that the question
  stays the one asked (`QuestionInv`). `VerdictIsRight` (the search answers what
  `Verdict` says) is what allows `Overview` to use the closed form.
- `Pages_proofs`, the history: `RepeatsAreMoved` and `MissedAreTiedOrMoved` by
  `PagesInv`: leaving aside the runs that moved, none shown is older than the cursor
  (`CursorInv`) and everything newer is shown or tied with the end of a page
  (`CoverInv`). The proof asks only that different
  times have different texts, so it covers zones whose clock goes back.
- `Pages_proofs`, the tables: `RowIsCoherent`, the action property `TilesKnowRows`
  (both given `Window <= Retention`) and `NoFalseAlarm` by `OverviewInv`. A row is
  compared with reads made at different moments, so the invariant says what each read
  still tells of the store: a run without a row is older than retention keeps
  (`StoreInv`), a last run that was read is still that run, with the start and the
  outcome it had unless it was written again (`LastInv`), and, but for runs written
  again, a run the reader does not know of is older than the one it knows or young
  enough to have appeared since the request began (`NewsInv`); the last is what the
  grace period is compared with.
- `Clusters_proofs`: `ListedIsDeclared`, `RegisteredIsListed` and the action property
  `BrokenIsKept` by `ClustersInv`: what Load lists and registers is among what it keeps
  and, unless the context is cancelled, what it registers is listed at once
  (`LoadInv`).
- `RunDetails_proofs`: `ExpiredIsTrue`, `SilenceIsTrue`, `NothingLeftOut` and
  `UsageIsFinal` by `DetailsInv`. What is said of a missing log depends on the size in
  the row, so `FlushInv` relates a flush in progress, the lines stored and the
  complete flushes: row ids grow, and a flushed line is in the table until retention
  removes it (`BodyInv`). `RequestInv` says the same of what a request in progress has
  read. `RowInv`: without a row nothing refers to it, and every
  sample has an owner; `BackfillInv`: before the initial
  list and during a backfill no other goroutine has found the run.
- `FrontDoor_proofs`: `AccessIsEarned`, `OwnPostsPass` and `LandsWhereAsked` by
  `DoorInv`. `SessionInv`: a session cookie signed with some key belongs to a login
  that was vetted under that key and expires with it. `WireInv` and `PageInv` follow
  the cookies and tokens through requests in flight, restarts and other tabs.
  `AtMostTwice` and `RefusedHadItsShare` of both limiters by `LimitersInv`: the count
  of a bucket is the number of requests let through since it was opened, and the
  window before let through at most the limit, so that any stretch of a window's
  length touches at most two.

Only model-checked are the liveness properties (`DeletedJobsClose`,
`TerminalPodCloses`, `LogIsStored`, `ViewersFinish`, `GoneIsHidden`,
`ListedIsPublished`, `Answers`, `MetricsAreNoticed`, `SamplingEnds`,
`SomeLoginCounts`): fairness and ENABLED are outside the prover. `NoHoles` has
no proof yet. Every other property of the passing runs has a theorem.

## 5. What is not modelled

Rendering, JSON encoding, logging and headers; the rankings, sparklines, daily and
concurrency counts; the dashboard over several clusters; the values of the gauges;
migrations, which run before any concurrency; the cron parser, client-go, SQLite
and OIDC libraries, represented by what the code uses of them. Store calls are
atomic and, outside `LogPipeline` (`Errors`) and `Clusters` (a cancelled
context), fail only on foreign keys. Columns that nothing depends on (node,
resources, trigger kind) are left out. Errors that end a page walk end it.
The ticker of a live log that finds its row deleted by retention goes on waiting; no
run of `LogPipeline` lives that long.

## 6. Plan

Done: the modules of section 2, in the order of the table, and a theorem for every
safety property of the passing runs but `NoHoles`.

Next: the safety halves of the other liveness properties in the manner of
`NoGhost`, above all for `DeletedJobsClose` and `TerminalPodCloses` (a running row
whose Job is gone has a goroutine on its way to it) and `SamplingEnds`; then the
dashboard over several clusters, the rankings, and the values of the gauges, where
the collector and `RecordCompletion` write the same series.
