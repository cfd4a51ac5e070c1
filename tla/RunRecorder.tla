---------------------------- MODULE RunRecorder ----------------------------
(***************************************************************************)
(* How kubecron turns Kubernetes Job and Pod events into job_runs rows.    *)
(*                                                                         *)
(* The cluster (Jobs, Pods, the two informers) is the environment.  The    *)
(* program is the Job handler and the Pod handler of internal/watcher,     *)
(* each run by its own informer goroutine, the retryOnAdd goroutines, the  *)
(* RunIndex they share, the trigger endpoint of internal/api, the log      *)
(* streamer and resource sampler as far as the handlers drive them, and    *)
(* the restart recovery of cmd/kubecron.  A run is identified by the UID   *)
(* of its Job, so Jobs is also the set of run ids.  Every store call is    *)
(* one step (the store has a single connection); a handler is split where  *)
(* it uses what an earlier call returned.                                  *)
(***************************************************************************)
EXTENDS Naturals

CONSTANTS
  Jobs,        \* UIDs of the Job objects of one cluster
  Pods,        \* Pods of those Jobs, numbered in order of creation
  PodJob,      \* the Job that owns each Pod
  JobName,     \* metadata.name of each Job (unique only within a namespace)
  Scheduled,   \* the Jobs with a CronJob owner reference; the trigger
               \* endpoint creates the others
  Chatty,      \* the Pods that write at least one log line
  Evicted,     \* the Pods that, when they fail, report no terminated container
  Tombstones,  \* may a watch gap hide a deletion (DeletedFinalStateUnknown)?
  MaxCrashes,  \* bound on process restarts
  NoRun        \* the empty run id

ASSUME ConstantsAssumption ==
  /\ Pods \subseteq Nat \ {0}
  /\ PodJob \in [Pods -> Jobs]
  /\ Scheduled \subseteq Jobs
  /\ Chatty \subseteq Pods
  /\ Evicted \subseteq Pods
  /\ Tombstones \in BOOLEAN
  /\ MaxCrashes \in Nat
  /\ NoRun \notin Jobs
  /\ DOMAIN JobName = Jobs

Names    == {JobName[j] : j \in Jobs}
PodsOf(j) == {p \in Pods : PodJob[p] = j}

Terminal == {"Succeeded", "Failed"}
Phases   == {"none", "Pending", "Running"} \cup Terminal

\* Goroutines that execute PodHandler.OnUpdate: the Pod informer's, and one
\* retryOnAdd goroutine for each Pod that was Running in the initial list.
Informer == 0
Threads  == {Informer} \cup Pods
NoPod    == 0

VARIABLES
  jobs,      \* cluster: state of each Job
  pods,      \* cluster: phase of each Pod (its last one, once deleted)
  podGone,   \* cluster: the Pods deleted from the API server
  up,        \* is the process running?
  crashes,   \* restarts so far
  jobsListed, podsListed, \* has the informer taken its initial list?
  jobCache,  \* what the Job informer has delivered of each Job
  podList,   \* initial-list snapshot of a Pod not delivered yet
  podCache,  \* phase of each Pod as last delivered
  cronRow,   \* has the CronJob informer stored the owning cronjobs row?
  runs,      \* the job_runs table
  index,     \* RunIndex: Job name -> run id
  jt,        \* locals of the Job informer goroutine
  handler,   \* locals of the goroutines inside PodHandler.OnUpdate
  pending,   \* triggered Jobs whose pre-insert has not happened yet
  stream,    \* Streamer.streaming: the Pod whose log feeds each run
  copies,    \* how many times each Pod's log is in log_lines
  sampling   \* Sampler.active, per run

clusterVars  == <<jobs, pods, podGone>>
informerVars == <<jobsListed, podsListed, jobCache, podList, podCache>>
logVars      == <<stream, copies>>
vars == <<clusterVars, up, crashes, informerVars, cronRow, runs, index, jt,
          handler, pending, logVars, sampling>>

-----------------------------------------------------------------------------
(* Types *)

JobStates   == {"absent", "active", "complete", "failed", "gone"}
Listed      == {"listedActive", "listedComplete", "listedFailed"}
CacheStates == {"none", "present", "deleted"} \cup Listed
Finished    == {"succeeded", "failed"}
\* exit_code: NULL, the MarkRunFailed sentinel -1, or a container's code
ExitCodes   == {"null", "sentinel", "zero", "nonzero"}

\* status "none" stands for "no row".
Row == [status : {"none", "running"} \cup Finished, finished : BOOLEAN,
        exit : ExitCodes, logged : BOOLEAN]
NoRow == [status |-> "none", finished |-> FALSE, exit |-> "null",
          logged |-> FALSE]

\* Locals of a goroutine: idle, or at a stage of the handler it executes.
IdleJob   == [stage |-> "idle", job |-> NoRun, verdict |-> "failed",
              hadLogs |-> FALSE]
JobLocals == {IdleJob} \cup
             [stage : {"upserted", "stamped", "delete"}, job : Jobs,
              verdict : Finished, hadLogs : BOOLEAN]
IdlePod   == [stage |-> "idle", pod |-> NoPod, phase |-> "none",
              run |-> NoRun, wantLog |-> FALSE]
PodLocals == {IdlePod} \cup
             [stage : {"retry"}, pod : Pods, phase : {"Running"},
              run : {NoRun}, wantLog : {FALSE}] \cup
             [stage : {"found", "sized"}, pod : Pods, phase : Phases,
              run : Jobs, wantLog : BOOLEAN]
\* A stream is closed, or reads the log of a Pod: "open" before its batch is
\* inserted, "inserted" before the log size is added, "sized" after it.
Closed    == [pod |-> NoPod, stage |-> "closed"]
Streams   == {Closed} \cup
             [pod : Pods, stage : {"open", "inserted", "sized"}]

\* Every variable keeps its type.
TypeOK ==
  /\ jobs \in [Jobs -> JobStates]
  /\ pods \in [Pods -> Phases]
  /\ podGone \subseteq Pods
  /\ up \in BOOLEAN /\ crashes \in 0..MaxCrashes
  /\ jobsListed \in BOOLEAN /\ podsListed \in BOOLEAN
  /\ jobCache \in [Jobs -> CacheStates]
  /\ podList \in [Pods -> Phases]
  /\ podCache \in [Pods -> Phases]
  /\ cronRow \in BOOLEAN
  /\ runs \in [Jobs -> Row]
  /\ index \in [Names -> Jobs \cup {NoRun}]
  /\ jt \in JobLocals
  /\ handler \in [Threads -> PodLocals]
  /\ pending \subseteq Jobs
  /\ stream \in [Jobs -> Streams]
  /\ copies \in [Pods -> 0..2]
  /\ sampling \in [Jobs -> {"off", "on", "cancelled"}]

Init ==
  /\ jobs = [j \in Jobs |-> "absent"]
  /\ pods = [p \in Pods |-> "none"]
  /\ podGone = {}
  /\ up = FALSE /\ crashes = 0
  /\ jobsListed = FALSE /\ podsListed = FALSE
  /\ jobCache = [j \in Jobs |-> "none"]
  /\ podList = [p \in Pods |-> "none"]
  /\ podCache = [p \in Pods |-> "none"]
  /\ cronRow = FALSE
  /\ runs = [j \in Jobs |-> NoRow]
  /\ index = [n \in Names |-> NoRun]
  /\ jt = IdleJob
  /\ handler = [t \in Threads |-> IdlePod]
  /\ pending = {}
  /\ stream = [j \in Jobs |-> Closed]
  /\ copies = [p \in Pods |-> 0]
  /\ sampling = [j \in Jobs |-> "off"]

-----------------------------------------------------------------------------
(* The store: one job_runs statement each.  An UPDATE of a missing row     *)
(* changes nothing and reports no error.                                   *)

Exists(r) == runs[r].status # "none"

\* UpsertJobRun rewrites the status and leaves finished_at, exit_code and
\* log_size_bytes alone; without the cronjobs row the foreign key rejects it.
UpsertJobRun(r, status) ==
  IF cronRow THEN [runs EXCEPT ![r].status = status] ELSE runs

UpdateJobRunStatus(r, status, finished, exit) ==
  IF Exists(r)
  THEN [runs EXCEPT ![r] = [@ EXCEPT !.status = status,
                                     !.finished = finished, !.exit = exit]]
  ELSE runs

MarkRunFailed(r) == UpdateJobRunStatus(r, "failed", TRUE, "sentinel")

\* The streamer's AddLogSize
AddLogSize(r) == IF Exists(r) THEN [runs EXCEPT ![r].logged = TRUE] ELSE runs

-----------------------------------------------------------------------------
(* The cluster: the CronJob controller, the Job controller, the kubelet    *)
(* and the garbage collector.                                              *)

CreateJob(j) ==
  /\ j \in Scheduled /\ jobs[j] = "absent"
  /\ jobs' = [jobs EXCEPT ![j] = "active"]
  /\ UNCHANGED <<pods, podGone, up, crashes, informerVars, cronRow, runs,
                 index, jt, handler, pending, logVars, sampling>>

\* The Job controller starts the next attempt once the earlier ones failed.
CreatePod(p) ==
  /\ jobs[PodJob[p]] = "active" /\ pods[p] = "none"
  /\ \A q \in PodsOf(PodJob[p]) :
        pods[q] = (IF q < p THEN "Failed" ELSE "none")
  /\ pods' = [pods EXCEPT ![p] = "Pending"]
  /\ UNCHANGED <<jobs, podGone, up, crashes, informerVars, cronRow, runs,
                 index, jt, handler, pending, logVars, sampling>>

PodStep(p, phase) ==
  /\ p \notin podGone
  /\ \/ pods[p] = "Pending" /\ phase \in {"Running", "Failed"}
     \/ pods[p] = "Running" /\ phase \in Terminal
  /\ pods' = [pods EXCEPT ![p] = phase]
  /\ UNCHANGED <<jobs, podGone, up, crashes, informerVars, cronRow, runs,
                 index, jt, handler, pending, logVars, sampling>>

\* A Job completes when a Pod of it succeeded and fails when its attempts
\* are used up.
FinishJob(j) ==
  /\ jobs[j] = "active"
  /\ \/ /\ \E p \in PodsOf(j) : pods[p] = "Succeeded"
        /\ jobs' = [jobs EXCEPT ![j] = "complete"]
     \/ /\ \E p \in PodsOf(j) : pods[p] = "Failed"
        /\ \A p \in PodsOf(j) : pods[p] \in {"none", "Failed"}
        /\ jobs' = [jobs EXCEPT ![j] = "failed"]
  /\ UNCHANGED <<pods, podGone, up, crashes, informerVars, cronRow, runs,
                 index, jt, handler, pending, logVars, sampling>>

\* History limits and TTLs delete finished Jobs, operators delete any Job.
DeleteJob(j) ==
  /\ jobs[j] \in {"active", "complete", "failed"}
  /\ jobs' = [jobs EXCEPT ![j] = "gone"]
  /\ UNCHANGED <<pods, podGone, up, crashes, informerVars, cronRow, runs,
                 index, jt, handler, pending, logVars, sampling>>

DeletePod(p) ==
  /\ pods[p] # "none" /\ p \notin podGone
  /\ pods[p] \in Terminal \/ jobs[PodJob[p]] = "gone"
  /\ podGone' = podGone \cup {p}
  /\ UNCHANGED <<jobs, pods, up, crashes, informerVars, cronRow, runs, index,
                 jt, handler, pending, logVars, sampling>>

Cluster ==
  \/ \E j \in Jobs : CreateJob(j) \/ FinishJob(j) \/ DeleteJob(j)
  \/ \E p \in Pods : CreatePod(p) \/ DeletePod(p)
  \/ \E p \in Pods, phase \in Phases : PodStep(p, phase)

-----------------------------------------------------------------------------
(* Process start and stop (cmd/kubecron), and the informers' initial lists *)

\* Mutant of Start: recovery is forgotten.
StartWithoutRecovery ==
  /\ ~up
  /\ up' = TRUE
  /\ UNCHANGED <<clusterVars, crashes, informerVars, cronRow, runs, index, jt,
                 handler, pending, logVars, sampling>>

\* Restart recovery marks every run left 'running' as failed before any
\* informer is started.
Start ==
  /\ ~up
  /\ up' = TRUE
  /\ runs' = [r \in Jobs |-> IF runs[r].status = "running"
                             THEN MarkRunFailed(r)[r] ELSE runs[r]]
  /\ UNCHANGED <<clusterVars, crashes, informerVars, cronRow, index, jt,
                 handler, pending, logVars, sampling>>

\* A crash or a shutdown: the tables stay, everything else is lost.
Crash ==
  /\ up /\ crashes < MaxCrashes
  /\ up' = FALSE /\ crashes' = crashes + 1
  /\ jobsListed' = FALSE /\ podsListed' = FALSE
  /\ jobCache' = [j \in Jobs |-> "none"]
  /\ podList' = [p \in Pods |-> "none"]
  /\ podCache' = [p \in Pods |-> "none"]
  /\ index' = [n \in Names |-> NoRun]
  /\ jt' = IdleJob
  /\ handler' = [t \in Threads |-> IdlePod]
  /\ pending' = {}
  /\ stream' = [j \in Jobs |-> Closed]
  /\ sampling' = [j \in Jobs |-> "off"]
  /\ UNCHANGED <<clusterVars, cronRow, runs, copies>>

\* The Job and the Pod informer take their initial lists independently.
ListJobs ==
  /\ up /\ ~jobsListed
  /\ jobsListed' = TRUE
  /\ jobCache' = [j \in Jobs |-> CASE jobs[j] = "absent"   -> "none"
                                   [] jobs[j] = "gone"     -> "deleted"
                                   [] jobs[j] = "active"   -> "listedActive"
                                   [] jobs[j] = "complete" -> "listedComplete"
                                   [] OTHER                -> "listedFailed"]
  /\ UNCHANGED <<clusterVars, up, crashes, podsListed, podList, podCache,
                 cronRow, runs, index, jt, handler, pending, logVars,
                 sampling>>

ListPods ==
  /\ up /\ ~podsListed
  /\ podsListed' = TRUE
  /\ podList' = [p \in Pods |-> IF p \in podGone THEN "none" ELSE pods[p]]
  /\ podCache' = [p \in Pods |-> IF p \in podGone THEN pods[p] ELSE "none"]
  /\ UNCHANGED <<clusterVars, up, crashes, jobsListed, jobCache, cronRow,
                 runs, index, jt, handler, pending, logVars, sampling>>

\* CronJobHandler.OnAdd stores the owning CronJob; its informer is a third one.
CronSync ==
  /\ up /\ ~cronRow
  /\ cronRow' = TRUE
  /\ UNCHANGED <<clusterVars, up, crashes, informerVars, runs, index, jt,
                 handler, pending, logVars, sampling>>

-----------------------------------------------------------------------------
(* JobHandler (internal/watcher/job.go)                                    *)

\* The informer delivers its initial list before any watch event.
JobWatch == jobsListed /\ \A j \in Jobs : jobCache[j] \notin Listed

IndexSet(n, r) == [index EXCEPT ![n] = r]
IndexDelete(n) == [index EXCEPT ![n] = NoRun]

\* Streamer.Stream: a no-op while the run is being streamed.
Stream(r, p) ==
  IF stream[r].stage = "closed"
  THEN [stream EXCEPT ![r] = [pod |-> p, stage |-> "open"]] ELSE stream

\* OnAdd of a new Job, or of an unfinished Job of the initial list.
JobAdd(j) ==
  /\ jt.stage = "idle"
  /\ \/ jobCache[j] = "listedActive"
     \/ JobWatch /\ jobCache[j] = "none" /\ jobs[j] # "absent"
  /\ jobCache' = [jobCache EXCEPT ![j] = "present"]
  /\ IF j \in Scheduled
     THEN /\ runs' = UpsertJobRun(j, "running")
          /\ index' = IndexSet(JobName[j], j)
     ELSE UNCHANGED <<runs, index>>
  /\ UNCHANGED <<clusterVars, up, crashes, jobsListed, podsListed, podList,
                 podCache, cronRow, jt, handler, pending, logVars, sampling>>

\* OnAdd of a finished Job of the initial list: backfillRun up to its
\* UpsertJobRun.  A run already 'succeeded' is left as it is.
JobAddDone(j) ==
  LET verdict == IF jobCache[j] = "listedComplete" THEN "succeeded"
                 ELSE "failed"
  IN
  /\ jt.stage = "idle"
  /\ jobCache[j] \in {"listedComplete", "listedFailed"}
  /\ jobCache' = [jobCache EXCEPT ![j] = "present"]
  /\ IF j \in Scheduled /\ runs[j].status # "succeeded" /\ cronRow
     THEN /\ runs' = UpsertJobRun(j, verdict)
          /\ jt' = [stage |-> "upserted", job |-> j, verdict |-> verdict,
                    hadLogs |-> runs[j].logged]
     ELSE UNCHANGED <<runs, jt>>
  /\ UNCHANGED <<clusterVars, up, crashes, jobsListed, podsListed, podList,
                 podCache, cronRow, index, handler, pending, logVars,
                 sampling>>

\* backfillRun: a Job's CompletionTime, set only on success, is persisted.
BackfillStamp ==
  /\ jt.stage = "upserted"
  /\ runs' = IF jt.verdict = "succeeded"
             THEN UpdateJobRunStatus(jt.job, jt.verdict, TRUE, "zero")
             ELSE runs
  /\ jt' = [jt EXCEPT !.stage = "stamped"]
  /\ UNCHANGED <<clusterVars, up, crashes, informerVars, cronRow, index,
                 handler, pending, logVars, sampling>>

\* selectBestPod: the newest terminal Pod, or else the newest one.
selectBestPod(S) ==
  LET done == {p \in S : pods[p] \in Terminal}
      pool == IF done # {} THEN done ELSE S
  IN  {p \in pool : \A q \in pool : q <= p}

\* The first container status of a Pod says that the container terminated;
\* without it the exit code is taken to be 0.
Terminated(p, phase) ==
  phase = "Succeeded" \/ (phase = "Failed" /\ p \notin Evicted)
ExitCode(p, phase) ==
  IF phase = "Failed" /\ Terminated(p, phase) THEN "nonzero" ELSE "zero"

\* backfillRun: the rest, with the Pods that still exist.  A Pod that has not
\* terminated contributes exit code 0 and no finish time.
BackfillPods ==
  LET live == {p \in PodsOf(jt.job) : pods[p] # "none" /\ p \notin podGone}
  IN
  /\ jt.stage = "stamped"
  /\ \E best \in selectBestPod(live) :
       /\ runs' = UpdateJobRunStatus(jt.job, jt.verdict,
                     jt.verdict = "succeeded" \/ Terminated(best, pods[best]),
                     ExitCode(best, pods[best]))
       /\ stream' = IF jt.hadLogs THEN stream ELSE Stream(jt.job, best)
  /\ jt' = IdleJob
  /\ UNCHANGED <<clusterVars, up, crashes, informerVars, cronRow, index,
                 handler, pending, copies, sampling>>

\* backfillRun: listing the Pods failed, or found none.
BackfillNoPods ==
  /\ jt.stage = "stamped"
  /\ jt' = IdleJob
  /\ UNCHANGED <<clusterVars, up, crashes, informerVars, cronRow, runs,
                 index, handler, pending, logVars, sampling>>

\* Mutant of JobDelete: a run that is not running returns before the index is
\* cleared.
JobDeleteEarlyReturn(j) ==
  /\ jt.stage = "idle"
  /\ JobWatch /\ jobCache[j] = "present" /\ jobs[j] = "gone"
  /\ jobCache' = [jobCache EXCEPT ![j] = "deleted"]
  /\ jt' = IF runs[j].status = "running"
           THEN [IdleJob EXCEPT !.stage = "delete", !.job = j] ELSE jt
  /\ UNCHANGED <<clusterVars, up, crashes, jobsListed, podsListed, podList,
                 podCache, cronRow, runs, index, handler, pending, logVars,
                 sampling>>

\* OnDelete, up to the GetJobRun that decides whether the run is closed.
JobDelete(j) ==
  /\ jt.stage = "idle"
  /\ JobWatch /\ jobCache[j] = "present" /\ jobs[j] = "gone"
  /\ jobCache' = [jobCache EXCEPT ![j] = "deleted"]
  /\ IF runs[j].status = "running"
     THEN /\ jt' = [IdleJob EXCEPT !.stage = "delete", !.job = j]
          /\ UNCHANGED index
     ELSE /\ index' = IndexDelete(JobName[j])
          /\ UNCHANGED jt
  /\ UNCHANGED <<clusterVars, up, crashes, jobsListed, podsListed, podList,
                 podCache, cronRow, runs, handler, pending, logVars, sampling>>

\* Mutant of JobDeleteMark: the index is cleared and the run left as it is.
JobDeleteIndexOnly ==
  /\ jt.stage = "delete"
  /\ index' = IndexDelete(JobName[jt.job])
  /\ jt' = IdleJob
  /\ UNCHANGED <<clusterVars, up, crashes, informerVars, cronRow, runs,
                 handler, pending, logVars, sampling>>

\* OnDelete, MarkRunFailed: it does not look at the status again.
JobDeleteMark ==
  /\ jt.stage = "delete"
  /\ runs' = MarkRunFailed(jt.job)
  /\ index' = IndexDelete(JobName[jt.job])
  /\ jt' = IdleJob
  /\ UNCHANGED <<clusterVars, up, crashes, informerVars, cronRow, handler,
                 pending, logVars, sampling>>

\* OnDelete handed a DeletedFinalStateUnknown: not a *Job, so it returns.
JobDeleteTombstone(j) ==
  /\ Tombstones /\ jt.stage = "idle"
  /\ JobWatch /\ jobCache[j] = "present" /\ jobs[j] = "gone"
  /\ jobCache' = [jobCache EXCEPT ![j] = "deleted"]
  /\ UNCHANGED <<clusterVars, up, crashes, jobsListed, podsListed, podList,
                 podCache, cronRow, runs, index, jt, handler, pending,
                 logVars, sampling>>

JobThread ==
  \/ \E j \in Jobs : JobAdd(j) \/ JobAddDone(j) \/ JobDelete(j)
                       \/ JobDeleteTombstone(j)
  \/ BackfillStamp \/ BackfillPods \/ BackfillNoPods \/ JobDeleteMark

-----------------------------------------------------------------------------
(* PodHandler (internal/watcher/pod.go)                                    *)

\* Mutant of FindRunIDs: the fallback forgets to compare the Job name.
FindAnyRunning(n) ==
  IF index[n] # NoRun THEN {index[n]}
  ELSE {r \in Jobs : runs[r].status = "running"}

\* findRunID: the index, or else any running row with that Job name.
FindRunIDs(n) ==
  IF index[n] # NoRun THEN {index[n]}
  ELSE {r \in Jobs : runs[r].status = "running" /\ JobName[r] = n}

\* OnUpdate up to its findRunID; a Pod whose run is not found is ignored.
Lookup(t, p, phase) ==
  LET found == FindRunIDs(JobName[PodJob[p]])
  IN  IF found = {} THEN handler' = [handler EXCEPT ![t] = IdlePod]
      ELSE \E r \in found :
             handler' = [handler EXCEPT ![t] =
                           [stage |-> "found", pod |-> p, phase |-> phase,
                            run |-> r, wantLog |-> FALSE]]

\* OnAdd of a Pod of the initial list: a Running one gets a retryOnAdd
\* goroutine, a terminal one goes to OnUpdate, a Pending one is skipped.
PodAddListed(p) ==
  LET phase == podList[p]
  IN
  /\ handler[Informer].stage = "idle" /\ phase # "none"
  /\ podList' = [podList EXCEPT ![p] = "none"]
  /\ podCache' = [podCache EXCEPT ![p] = phase]
  /\ CASE phase = "Running" ->
             handler' = [handler EXCEPT ![p] =
                           [IdlePod EXCEPT !.stage = "retry", !.pod = p,
                                           !.phase = "Running"]]
       [] phase \in Terminal -> Lookup(Informer, p, phase)
       [] OTHER -> UNCHANGED handler
  /\ UNCHANGED <<clusterVars, up, crashes, jobsListed, podsListed, jobCache,
                 cronRow, runs, index, jt, pending, logVars, sampling>>

\* The watch delivers phases in order, may skip some, and repeats one when
\* another field of the Pod changes.
Follows(p, phase) ==
  LET rank == [none |-> 0, Pending |-> 1, Running |-> 2, Succeeded |-> 3,
               Failed |-> 3]
  IN  /\ podCache[p] = phase => p \notin podGone
      /\ podCache[p] = phase \/ rank[podCache[p]] < rank[phase]
      /\ phase = pods[p] \/ rank[phase] < rank[pods[p]]

\* OnAdd or OnUpdate of a watched Pod.
PodEvent(p, phase) ==
  /\ handler[Informer].stage = "idle"
  /\ podsListed /\ \A q \in Pods : podList[q] = "none"
  /\ phase \notin {"none"} /\ Follows(p, phase)
  /\ podCache' = [podCache EXCEPT ![p] = phase]
  /\ IF phase = "Pending" THEN UNCHANGED handler
     ELSE Lookup(Informer, p, phase)
  /\ UNCHANGED <<clusterVars, up, crashes, jobsListed, podsListed, jobCache,
                 podList, cronRow, runs, index, jt, pending, logVars,
                 sampling>>

\* retryOnAdd: the run is found and OnUpdate is called with the Pod as it was
\* in the initial list, or ten lookups found nothing.
RetryOnAdd(p) ==
  /\ handler[p].stage = "retry"
  /\ Lookup(p, p, "Running")
  /\ UNCHANGED <<clusterVars, up, crashes, informerVars, cronRow, runs,
                 index, jt, pending, logVars, sampling>>

\* Mutants of PodWrite: a Running Pod rewrites the status; a failed Pod is not
\* treated as terminal.
PodWriteRunning(t) ==
  LET h == handler[t]
  IN
  /\ h.stage = "found"
  /\ runs' = CASE h.phase = "Succeeded" ->
                     UpdateJobRunStatus(h.run, "succeeded", TRUE, "zero")
               [] h.phase = "Failed" ->
                     UpdateJobRunStatus(h.run, "failed", TRUE,
                                        ExitCode(h.pod, "Failed"))
               [] OTHER -> UpdateJobRunStatus(h.run, "running", FALSE, "null")
  /\ handler' = [handler EXCEPT ![t].stage = "sized",
                    ![t].wantLog = Exists(h.run) /\ ~runs[h.run].logged]
  /\ UNCHANGED <<clusterVars, up, crashes, informerVars, cronRow, index, jt,
                 pending, logVars, sampling>>
PodWriteNoFailure(t) ==
  LET h == handler[t]
  IN
  /\ h.stage = "found"
  /\ runs' = IF h.phase = "Succeeded"
             THEN UpdateJobRunStatus(h.run, "succeeded", TRUE, "zero")
             ELSE runs
  /\ handler' = [handler EXCEPT ![t].stage = "sized",
                    ![t].wantLog = Exists(h.run) /\ ~runs[h.run].logged]
  /\ UNCHANGED <<clusterVars, up, crashes, informerVars, cronRow, index, jt,
                 pending, logVars, sampling>>

\* OnUpdate, first the write (UpdateJobRunStatus for a terminal phase; for
\* Running only the node name) and then the GetJobRun that tells whether a
\* log has been captured.
PodWrite(t) ==
  LET h == handler[t]
  IN
  /\ h.stage = "found"
  /\ runs' = CASE h.phase = "Succeeded" ->
                     UpdateJobRunStatus(h.run, "succeeded", TRUE, "zero")
               [] h.phase = "Failed" ->
                     UpdateJobRunStatus(h.run, "failed", TRUE,
                                        ExitCode(h.pod, "Failed"))
               [] OTHER -> runs
  /\ handler' = [handler EXCEPT ![t].stage = "sized",
                    ![t].wantLog = Exists(h.run) /\ ~runs[h.run].logged]
  /\ UNCHANGED <<clusterVars, up, crashes, informerVars, cronRow, index, jt,
                 pending, logVars, sampling>>

\* OnUpdate, the rest: Stream; for a Running Pod Sampler.Start, if metrics are
\* enabled (a no-op while a sampler is registered); for a terminal one
\* Sampler.Stop and RunIndex.Delete.
PodFinish(t) ==
  LET h == handler[t]
  IN
  /\ h.stage = "sized"
  /\ stream' = IF h.wantLog THEN Stream(h.run, h.pod) ELSE stream
  /\ IF h.phase = "Running"
     THEN /\ \/ /\ sampling[h.run] = "off"
                /\ sampling' = [sampling EXCEPT ![h.run] = "on"]
             \/ UNCHANGED sampling
          /\ UNCHANGED index
     ELSE /\ sampling' = IF sampling[h.run] = "on"
                         THEN [sampling EXCEPT ![h.run] = "cancelled"]
                         ELSE sampling
          /\ index' = IndexDelete(JobName[PodJob[h.pod]])
  /\ handler' = [handler EXCEPT ![t] = IdlePod]
  /\ UNCHANGED <<clusterVars, up, crashes, informerVars, cronRow, runs, jt,
                 pending, copies>>

PodThread ==
  \/ \E p \in Pods : PodAddListed(p)
  \/ \E p \in Pods, phase \in Phases : PodEvent(p, phase)
  \/ PodWrite(Informer) \/ PodFinish(Informer)

RetryThread(p) == RetryOnAdd(p) \/ PodWrite(p) \/ PodFinish(p)

-----------------------------------------------------------------------------
(* The trigger endpoint, the streamer's and the sampler's goroutines       *)

\* Trigger creates a Job without owner references ...
TriggerCreate(j) ==
  /\ up /\ j \notin Scheduled /\ jobs[j] = "absent"
  /\ jobs' = [jobs EXCEPT ![j] = "active"]
  /\ pending' = pending \cup {j}
  /\ UNCHANGED <<pods, podGone, up, crashes, informerVars, cronRow, runs,
                 index, jt, handler, logVars, sampling>>

\* ... and then pre-inserts its run, unless the client has gone: the insert
\* uses the request's context.
TriggerInsert(j) ==
  /\ j \in pending
  /\ pending' = pending \ {j}
  /\ runs' = UpsertJobRun(j, "running")
  /\ UNCHANGED <<clusterVars, up, crashes, informerVars, cronRow, index, jt,
                 handler, logVars, sampling>>

TriggerLost(j) ==
  /\ j \in pending
  /\ pending' = pending \ {j}
  /\ UNCHANGED <<clusterVars, up, crashes, informerVars, cronRow, runs, index,
                 jt, handler, logVars, sampling>>

\* streamLogs flushes the log, one batch here: BatchInsertLogLines, then
\* AddLogSize.  The goroutine ends at the end of the log, on a read error, or
\* when the log cannot be opened.  (Two copies stand for "more than one".)
StreamInsert(r) ==
  LET p == stream[r].pod
  IN
  /\ stream[r].stage = "open"
  /\ p \in Chatty \ podGone /\ pods[p] # "Pending"
  /\ copies' = [copies EXCEPT ![p] = IF @ < 2 THEN @ + 1 ELSE @]
  /\ stream' = [stream EXCEPT ![r].stage = "inserted"]
  /\ UNCHANGED <<clusterVars, up, crashes, informerVars, cronRow, runs,
                 index, jt, handler, pending, sampling>>

StreamSize(r) ==
  /\ stream[r].stage = "inserted"
  /\ runs' = AddLogSize(r)
  /\ stream' = [stream EXCEPT ![r].stage = "sized"]
  /\ UNCHANGED <<clusterVars, up, crashes, informerVars, cronRow, index, jt,
                 handler, pending, copies, sampling>>

StreamEnd(r) ==
  /\ stream[r].stage \in {"open", "sized"}
  /\ stream' = [stream EXCEPT ![r] = Closed]
  /\ UNCHANGED <<clusterVars, up, crashes, informerVars, cronRow, runs,
                 index, jt, handler, pending, copies, sampling>>

\* A cancelled sampler unregisters itself and finalizes the run's usage.
SamplerExit(r) ==
  /\ sampling[r] = "cancelled"
  /\ sampling' = [sampling EXCEPT ![r] = "off"]
  /\ UNCHANGED <<clusterVars, up, crashes, informerVars, cronRow, runs,
                 index, jt, handler, pending, logVars>>

Background(r) ==
  StreamInsert(r) \/ StreamSize(r) \/ StreamEnd(r) \/ SamplerExit(r)

-----------------------------------------------------------------------------

Next ==
  \/ Cluster
  \/ Start \/ Crash \/ ListJobs \/ ListPods \/ CronSync
  \/ JobThread \/ PodThread
  \/ \E p \in Pods : RetryThread(p)
  \/ \E j \in Jobs : \/ TriggerCreate(j) \/ TriggerInsert(j) \/ TriggerLost(j)
                     \/ Background(j)

Spec == Init /\ [][Next]_vars

\* The Go scheduler runs every goroutine that can run, and the informers
\* deliver what the API server holds.  Their queues are FIFO, so repeated
\* events of a phase cannot keep a new phase waiting for ever: strong fairness
\* for those.  Nothing obliges the cluster to act.
Fairness ==
  /\ WF_vars(Start) /\ WF_vars(ListJobs) /\ WF_vars(ListPods)
  /\ WF_vars(CronSync) /\ WF_vars(JobThread)
  /\ WF_vars(\E p \in Pods : PodAddListed(p))
  /\ SF_vars(\E p \in Pods, phase \in Phases :
                podCache[p] # phase /\ PodEvent(p, phase))
  /\ WF_vars(PodWrite(Informer) \/ PodFinish(Informer))

FairSpec == Spec /\ Fairness

-----------------------------------------------------------------------------
(* Properties *)

\* Within one namespace Kubernetes keeps Job names apart.
DistinctNames == \A i, j \in Jobs : JobName[i] = JobName[j] => i = j

\* The history never invents an outcome: a run shown as succeeded has a Pod
\* that succeeded, and one with a container's non-zero exit code has a Pod
\* that failed, whatever the order in which the Job events, the Pod events,
\* retryOnAdd and restarts are processed (UpdateJobRunStatus is only ever
\* reached through a name lookup).
OutcomeIsReal ==
  \A r \in Jobs :
    /\ runs[r].status = "succeeded" =>
         \E p \in PodsOf(r) : pods[p] = "Succeeded"
    /\ runs[r].exit = "nonzero" => \E p \in PodsOf(r) : pods[p] = "Failed"

\* Once recovery has run, a scheduled run is 'running' only if this process
\* has seen its Job: no 'running' row of an earlier process survives, although
\* handlers of the new one write the same rows.
NoInheritedRunning ==
  \A r \in Scheduled :
    up /\ runs[r].status = "running" => jobCache[r] \in {"present", "deleted"}

\* RunIndex keeps no entry for a Job whose deletion has been handled, however
\* the Pod handler's own RunIndex.Delete is interleaved with it.
NoStaleIndexEntry ==
  \A j \in Jobs : jobCache[j] = "deleted" /\ jt.job # j
                     => index[JobName[j]] # j

\* A finished run goes back to 'running' only when the initial list of a new
\* process reports its Job as unfinished, never while the process lives on.
ReopenedOnlyByInitialList ==
  [][\A r \in Jobs :
       runs[r].status \in Finished /\ runs'[r].status = "running"
         => jobCache[r] = "listedActive"]_vars

\* A scheduled run does not stay 'running' once its Job is deleted: OnDelete
\* or the next restart closes it.
DeletedJobsClose ==
  \A j \in Scheduled :
    jobs[j] = "gone" ~> runs[j].status # "running"

\* A 'running' run whose Pod has terminated, and whose terminal event is still
\* to come, does not stay 'running', in the index or not.
TerminalPodCloses ==
  \A p \in Pods :
    LET r == PodJob[p]
    IN  /\ podsListed /\ runs[r].status = "running"
        /\ pods[p] \in Terminal /\ podCache[p] \notin Terminal
        ~> runs[r].status # "running"

-----------------------------------------------------------------------------
(* The inductive invariants behind the properties above.                   *)

HasPod(j, phase) == \E p \in PodsOf(j) : pods[p] = phase

\* What the program remembers of names and phases agrees with the cluster.
NamesAgree ==
  /\ \A n \in Names : index[n] # NoRun => JobName[index[n]] = n
  /\ \A t \in Threads :
       handler[t].stage \in {"found", "sized"} =>
         /\ JobName[handler[t].run] = JobName[PodJob[handler[t].pod]]
         /\ handler[t].phase \in Terminal =>
              pods[handler[t].pod] = handler[t].phase
PhasesAgree ==
  /\ \A p \in Pods : podList[p] \in Terminal => pods[p] = podList[p]
  /\ \A j \in Jobs :
       jobs[j] = "complete" \/ jobCache[j] = "listedComplete"
         => HasPod(j, "Succeeded")
  /\ jt.stage \in {"upserted", "stamped"} /\ jt.verdict = "succeeded"
       => HasPod(jt.job, "Succeeded")
OutcomeInv == NamesAgree /\ PhasesAgree /\ OutcomeIsReal

\* Before its initial list the Job informer has told the handlers nothing, it
\* only tells of Jobs that were created, and a Job being backfilled has not
\* been deleted.
ListingInv ==
  /\ ~up => ~jobsListed
  /\ ~jobsListed => /\ jt.stage = "idle"
                    /\ \A j \in Jobs : jobCache[j] = "none"
                    /\ \A n \in Names : index[n] = NoRun
  /\ \A j \in Jobs : jobs[j] = "absent" => jobCache[j] = "none"
  /\ jt.stage \in {"upserted", "stamped"} => jobCache[jt.job] = "present"

\* The first to write the row of a Job is the Job informer, or the trigger.
FirstWriteInv ==
  /\ pending \cap Scheduled = {}
  /\ \A j \in pending : jobs[j] # "absent"
  /\ \A j \in Jobs :
       /\ jobs[j] = "absent" \/ j \in pending => runs[j].status = "none"
       /\ jobsListed /\ j \in Scheduled /\ jobCache[j] = "none"
            => runs[j].status = "none"

TrackingInv ==
  /\ ListingInv /\ FirstWriteInv /\ NoInheritedRunning
  /\ ~Tombstones => NoStaleIndexEntry
=============================================================================
