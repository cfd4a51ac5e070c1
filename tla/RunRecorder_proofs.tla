------------------------- MODULE RunRecorder_proofs -------------------------
(* Proofs about RunRecorder, for every set of Jobs, Pods and names. *)
EXTENDS RunRecorder, TLAPS

-----------------------------------------------------------------------------
(* Types *)

\* Each statement of the store maps a well-typed table to a well-typed table.
LEMMA StoreTypes ==
  ASSUME NEW r \in Jobs, runs \in [Jobs -> Row], cronRow \in BOOLEAN,
         NEW st \in {"running"} \cup Finished, NEW fin \in BOOLEAN,
         NEW ex \in ExitCodes
  PROVE  /\ UpsertJobRun(r, st) \in [Jobs -> Row]
         /\ UpdateJobRunStatus(r, st, fin, ex) \in [Jobs -> Row]
         /\ MarkRunFailed(r) \in [Jobs -> Row]
         /\ AddLogSize(r) \in [Jobs -> Row]
<1>1. UpsertJobRun(r, st) \in [Jobs -> Row]
  BY DEF UpsertJobRun, Row
<1>2. ASSUME NEW s \in {"running"} \cup Finished, NEW f \in BOOLEAN,
             NEW e \in ExitCodes
      PROVE  UpdateJobRunStatus(r, s, f, e) \in [Jobs -> Row]
  BY DEF UpdateJobRunStatus, Row
<1>3. MarkRunFailed(r) \in [Jobs -> Row]
  BY <1>2 DEF MarkRunFailed, Finished, ExitCodes
<1>4. AddLogSize(r) \in [Jobs -> Row]
  BY DEF AddLogSize, Row
<1> QED
  BY <1>1, <1>2, <1>3, <1>4

\* A lookup leaves a well-typed handler.
LEMMA LookupTypes ==
  ASSUME TypeOK, NEW t \in Threads, NEW p \in Pods, NEW phase \in Phases,
         Lookup(t, p, phase)
  PROVE  handler' \in [Threads -> PodLocals]
<1>1. FindRunIDs(JobName[PodJob[p]]) \subseteq Jobs
  BY ConstantsAssumption DEF TypeOK, FindRunIDs, Names
<1>2. IdlePod \in PodLocals
  BY DEF IdlePod, PodLocals, Phases
<1>3. ASSUME NEW r \in Jobs
      PROVE  [stage |-> "found", pod |-> p, phase |-> phase, run |-> r,
              wantLog |-> FALSE] \in PodLocals
  BY DEF PodLocals
<1> QED
  BY <1>1, <1>2, <1>3 DEF TypeOK, Lookup

\* What the cluster does to Jobs and Pods keeps the types.
LEMMA ClusterTypes == TypeOK /\ Cluster => TypeOK'
<1> SUFFICES ASSUME TypeOK, Cluster PROVE TypeOK'
  OBVIOUS
<1> USE DEF TypeOK, clusterVars, informerVars, logVars
<1>1. ASSUME NEW j \in Jobs, CreateJob(j) PROVE TypeOK'
  BY <1>1 DEF CreateJob, JobStates
<1>2. ASSUME NEW j \in Jobs, FinishJob(j) PROVE TypeOK'
  BY <1>2 DEF FinishJob, JobStates
<1>3. ASSUME NEW j \in Jobs, DeleteJob(j) PROVE TypeOK'
  BY <1>3 DEF DeleteJob, JobStates
<1>4. ASSUME NEW p \in Pods, CreatePod(p) PROVE TypeOK'
  BY <1>4 DEF CreatePod, Phases
<1>5. ASSUME NEW p \in Pods, DeletePod(p) PROVE TypeOK'
  BY <1>5 DEF DeletePod
<1>6. ASSUME NEW p \in Pods, NEW phase \in Phases, PodStep(p, phase)
      PROVE  TypeOK'
  BY <1>6 DEF PodStep
<1> QED
  BY <1>1, <1>2, <1>3, <1>4, <1>5, <1>6 DEF Cluster

\* A start, a crash, the informers' initial lists and the CronJob's OnAdd keep the types.
LEMMA ProcessTypes ==
  TypeOK /\ (Start \/ Crash \/ ListJobs \/ ListPods \/ CronSync) => TypeOK'
<1> SUFFICES ASSUME TypeOK, Start \/ Crash \/ ListJobs \/ ListPods \/ CronSync
             PROVE  TypeOK'
  OBVIOUS
<1> USE DEF TypeOK, clusterVars, informerVars, logVars
<1>1. CASE Start
  <2>1. \A r \in Jobs : MarkRunFailed(r)[r] \in Row
    BY StoreTypes DEF Finished, ExitCodes
  <2> QED
    BY <1>1, <2>1 DEF Start
<1>2. CASE Crash
  <2>1. IdleJob \in JobLocals /\ IdlePod \in PodLocals /\ Closed \in Streams
    BY DEF IdleJob, JobLocals, IdlePod, PodLocals, Closed, Streams, Phases,
           Finished
  <2>2. crashes' \in 0..MaxCrashes
    BY <1>2, ConstantsAssumption DEF Crash
  <2> QED
    BY <1>2, <2>1, <2>2 DEF Crash, CacheStates, Phases
<1>3. CASE ListJobs
  BY <1>3 DEF ListJobs, CacheStates, Listed
<1>4. CASE ListPods
  BY <1>4 DEF ListPods, Phases
<1>5. CASE CronSync
  BY <1>5 DEF CronSync
<1> QED
  BY <1>1, <1>2, <1>3, <1>4, <1>5

\* Every step of the Job informer's goroutine (OnAdd, backfillRun, OnDelete) keeps the types.
LEMMA JobThreadTypes == TypeOK /\ JobThread => TypeOK'
<1> SUFFICES ASSUME TypeOK, JobThread PROVE TypeOK'
  OBVIOUS
<1>0. IdleJob \in JobLocals
  BY DEF IdleJob, JobLocals, Finished
<1>1. ASSUME NEW j \in Jobs, JobAdd(j) PROVE TypeOK'
  <2>1. runs' \in [Jobs -> Row]
    BY <1>1, StoreTypes DEF TypeOK, JobAdd, ExitCodes
  <2>2. index' \in [Names -> Jobs \cup {NoRun}]
    BY <1>1 DEF TypeOK, JobAdd, IndexSet
  <2> QED
    BY <1>1, <2>1, <2>2 DEF TypeOK, JobAdd, CacheStates, clusterVars, logVars
<1>2. ASSUME NEW j \in Jobs, JobAddDone(j) PROVE TypeOK'
  <2>1. runs' \in [Jobs -> Row]
    BY <1>2, StoreTypes DEF TypeOK, JobAddDone, ExitCodes, Finished
  <2>2. jt' \in JobLocals
    BY <1>2 DEF TypeOK, JobAddDone, JobLocals, Finished, Row
  <2> QED
    BY <1>2, <2>1, <2>2
    DEF TypeOK, JobAddDone, CacheStates, clusterVars, logVars
<1>3. ASSUME BackfillStamp PROVE TypeOK'
  <2>1. jt \in [stage : {"upserted", "stamped", "delete"}, job : Jobs,
               verdict : Finished, hadLogs : BOOLEAN]
    BY <1>3 DEF TypeOK, BackfillStamp, JobLocals, IdleJob
  <2>2. runs' \in [Jobs -> Row]
    BY <1>3, <2>1, StoreTypes DEF TypeOK, BackfillStamp, ExitCodes
  <2>3. jt' \in JobLocals
    BY <1>3, <2>1 DEF BackfillStamp, JobLocals
  <2> QED
    BY <1>3, <2>2, <2>3
    DEF TypeOK, BackfillStamp, clusterVars, informerVars, logVars
<1>4. ASSUME BackfillPods PROVE TypeOK'
  <2>1. jt.job \in Jobs /\ jt.verdict \in Finished
    BY <1>4 DEF TypeOK, BackfillPods, JobLocals, IdleJob
  <2>2. PICK best \in PodsOf(jt.job) :
          /\ runs' = UpdateJobRunStatus(jt.job, jt.verdict,
                        jt.verdict = "succeeded" \/ Terminated(best, pods[best]),
                        ExitCode(best, pods[best]))
          /\ stream' = IF jt.hadLogs THEN stream ELSE Stream(jt.job, best)
    BY <1>4 DEF BackfillPods, selectBestPod
  <2>3. runs' \in [Jobs -> Row]
    <3> DEFINE f == jt.verdict = "succeeded" \/ Terminated(best, pods[best])
               e == ExitCode(best, pods[best])
    <3>1. f \in BOOLEAN /\ e \in ExitCodes
      BY DEF ExitCode, ExitCodes
    <3> HIDE DEF f, e
    <3>2. UpdateJobRunStatus(jt.job, jt.verdict, f, e) \in [Jobs -> Row]
      BY <2>1, <3>1, StoreTypes DEF TypeOK
    <3> QED
      BY <2>2, <3>2 DEF f, e
  <2>4. stream' \in [Jobs -> Streams]
    BY <2>1, <2>2 DEF TypeOK, Stream, Streams, PodsOf
  <2> QED
    BY <1>0, <1>4, <2>3, <2>4
    DEF TypeOK, BackfillPods, clusterVars, informerVars
<1>5. ASSUME BackfillNoPods PROVE TypeOK'
  BY <1>0, <1>5 DEF TypeOK, BackfillNoPods, clusterVars, informerVars, logVars
<1>6. ASSUME NEW j \in Jobs, JobDelete(j) PROVE TypeOK'
  <2>1. jt' \in JobLocals
    BY <1>6 DEF TypeOK, JobDelete, JobLocals, IdleJob, Finished
  <2>2. index' \in [Names -> Jobs \cup {NoRun}]
    BY <1>6 DEF TypeOK, JobDelete, IndexDelete
  <2> QED
    BY <1>6, <2>1, <2>2 DEF TypeOK, JobDelete, CacheStates, clusterVars, logVars
<1>7. ASSUME JobDeleteMark PROVE TypeOK'
  <2>0. jt.job \in Jobs
    BY <1>7 DEF TypeOK, JobDeleteMark, JobLocals, IdleJob
  <2>1. runs' \in [Jobs -> Row]
    BY <1>7, <2>0, StoreTypes DEF TypeOK, JobDeleteMark, Finished, ExitCodes
  <2>2. index' \in [Names -> Jobs \cup {NoRun}]
    BY <1>7 DEF TypeOK, JobDeleteMark, IndexDelete
  <2> QED
    BY <1>0, <1>7, <2>1, <2>2
    DEF TypeOK, JobDeleteMark, clusterVars, informerVars, logVars
<1>8. ASSUME NEW j \in Jobs, JobDeleteTombstone(j) PROVE TypeOK'
  BY <1>8 DEF TypeOK, JobDeleteTombstone, CacheStates, clusterVars, logVars
<1> QED
  BY <1>1, <1>2, <1>3, <1>4, <1>5, <1>6, <1>7, <1>8 DEF JobThread

\* Past findRunID a goroutine holds a Pod and the id of a run.
LEMMA BusyHandler ==
  ASSUME TypeOK, NEW t \in Threads, handler[t].stage \in {"found", "sized"}
  PROVE  handler[t] \in [stage : {"found", "sized"}, pod : Pods,
                         phase : Phases, run : Jobs, wantLog : BOOLEAN]
<1>1. handler[t] \in PodLocals
  BY DEF TypeOK
<1>2. handler[t] # IdlePod
  BY DEF IdlePod
<1>3. handler[t] \notin [stage : {"retry"}, pod : Pods, phase : {"Running"},
                         run : {NoRun}, wantLog : {FALSE}]
  OBVIOUS
<1> QED
  BY <1>1, <1>2, <1>3 DEF PodLocals

\* One step of PodHandler.OnUpdate, taken by either goroutine that runs it, keeps the types.
LEMMA PodHandlerTypes ==
  ASSUME TypeOK, NEW t \in Threads, PodWrite(t) \/ PodFinish(t)
  PROVE  TypeOK'
<1>0. IdlePod \in PodLocals
  BY DEF PodLocals
<1>1. CASE PodWrite(t)
  <2>1. handler[t] \in [stage : {"found", "sized"}, pod : Pods,
                        phase : Phases, run : Jobs, wantLog : BOOLEAN]
    BY <1>1, BusyHandler DEF PodWrite
  <2>2. runs' \in [Jobs -> Row]
    BY <1>1, <2>1, StoreTypes
    DEF TypeOK, PodWrite, ExitCode, ExitCodes, Finished
  <2>3. handler' \in [Threads -> PodLocals]
    BY <1>1, <2>1 DEF TypeOK, PodWrite, PodLocals, Exists, Row
  <2> QED
    BY <1>1, <2>2, <2>3
    DEF TypeOK, PodWrite, clusterVars, informerVars, logVars
<1>2. CASE PodFinish(t)
  <2>1. handler[t].run \in Jobs /\ handler[t].pod \in Pods
    BY <1>2, BusyHandler DEF PodFinish
  <2>2. stream' \in [Jobs -> Streams]
    BY <1>2, <2>1 DEF TypeOK, PodFinish, Stream, Streams
  <2>3. index' \in [Names -> Jobs \cup {NoRun}]
    BY <1>2 DEF TypeOK, PodFinish, IndexDelete
  <2>4. sampling' \in [Jobs -> {"off", "on", "cancelled"}]
    BY <1>2 DEF TypeOK, PodFinish
  <2> QED
    BY <1>0, <1>2, <2>2, <2>3, <2>4
    DEF TypeOK, PodFinish, clusterVars, informerVars
<1> QED
  BY <1>1, <1>2

\* Every step of the Pod informer's goroutine and of a retryOnAdd goroutine keeps the types.
LEMMA PodThreadTypes ==
  TypeOK /\ (PodThread \/ \E p \in Pods : RetryThread(p)) => TypeOK'
<1> SUFFICES ASSUME TypeOK, PodThread \/ \E p \in Pods : RetryThread(p)
             PROVE  TypeOK'
  OBVIOUS
<1>1. ASSUME NEW p \in Pods, PodAddListed(p) PROVE TypeOK'
  <2>1. handler' \in [Threads -> PodLocals]
    <3>1. CASE podList[p] = "Running"
      <4>1. [IdlePod EXCEPT !.stage = "retry", !.pod = p, !.phase = "Running"]
              \in PodLocals
        BY DEF PodLocals, IdlePod
      <4>2. handler' = [handler EXCEPT ![p] =
                          [IdlePod EXCEPT !.stage = "retry", !.pod = p,
                                          !.phase = "Running"]]
        BY <1>1, <3>1 DEF PodAddListed, Terminal
      <4> QED
        BY <4>1, <4>2 DEF TypeOK
    <3>2. CASE podList[p] \in Terminal
      BY <1>1, <3>2, LookupTypes
      DEF TypeOK, PodAddListed, Terminal, Threads, Phases
    <3>3. CASE podList[p] \notin Terminal \cup {"Running"}
      BY <1>1, <3>3 DEF TypeOK, PodAddListed, Terminal
    <3> QED
      BY <3>1, <3>2, <3>3
  <2> QED
    BY <1>1, <2>1 DEF TypeOK, PodAddListed, Phases, clusterVars, logVars
<1>2. ASSUME NEW p \in Pods, NEW phase \in Phases, PodEvent(p, phase)
      PROVE  TypeOK'
  <2>1. handler' \in [Threads -> PodLocals]
    BY <1>2, LookupTypes DEF TypeOK, PodEvent, Threads
  <2> QED
    BY <1>2, <2>1 DEF TypeOK, PodEvent, clusterVars, logVars
<1>3. ASSUME NEW p \in Pods, RetryOnAdd(p) PROVE TypeOK'
  <2>1. handler' \in [Threads -> PodLocals]
    BY <1>3, LookupTypes DEF TypeOK, RetryOnAdd, Threads, Phases
  <2> QED
    BY <1>3, <2>1 DEF TypeOK, RetryOnAdd, clusterVars, informerVars, logVars
<1> QED
  BY <1>1, <1>2, <1>3, PodHandlerTypes DEF PodThread, RetryThread, Threads

\* The trigger endpoint, the log streamer and the sampler keep the types.
LEMMA BackgroundTypes ==
  ASSUME TypeOK, NEW j \in Jobs,
         TriggerCreate(j) \/ TriggerInsert(j) \/ TriggerLost(j) \/ Background(j)
  PROVE  TypeOK'
<1>1. CASE TriggerCreate(j)
  BY <1>1 DEF TypeOK, TriggerCreate, JobStates, informerVars, logVars
<1>2. CASE TriggerInsert(j)
  <2>1. runs' \in [Jobs -> Row]
    BY <1>2, StoreTypes DEF TypeOK, TriggerInsert, ExitCodes
  <2> QED
    BY <1>2, <2>1
    DEF TypeOK, TriggerInsert, clusterVars, informerVars, logVars
<1>7. CASE TriggerLost(j)
  BY <1>7 DEF TypeOK, TriggerLost, clusterVars, informerVars, logVars
<1>3. CASE StreamInsert(j)
  <2>1. stream' \in [Jobs -> Streams]
    BY <1>3 DEF TypeOK, StreamInsert, Streams, Closed
  <2>2. copies' \in [Pods -> 0..2]
    <3>1. copies \in [Pods -> 0..2]
      BY DEF TypeOK
    <3>2. ASSUME NEW c \in 0..2
          PROVE  (IF c < 2 THEN c + 1 ELSE c) \in 0..2
      OBVIOUS
    <3> QED
      BY <1>3, <3>1, <3>2 DEF StreamInsert
  <2> QED
    BY <1>3, <2>1, <2>2 DEF TypeOK, StreamInsert, clusterVars, informerVars
<1>4. CASE StreamSize(j)
  <2>1. stream' \in [Jobs -> Streams]
    BY <1>4 DEF TypeOK, StreamSize, Streams, Closed
  <2>2. runs' \in [Jobs -> Row]
    BY <1>4, StoreTypes DEF TypeOK, StreamSize, ExitCodes
  <2> QED
    BY <1>4, <2>1, <2>2 DEF TypeOK, StreamSize, clusterVars, informerVars
<1>5. CASE StreamEnd(j)
  BY <1>5 DEF TypeOK, StreamEnd, Streams, clusterVars, informerVars
<1>6. CASE SamplerExit(j)
  BY <1>6 DEF TypeOK, SamplerExit, clusterVars, informerVars, logVars
<1> QED
  BY <1>1, <1>2, <1>3, <1>4, <1>5, <1>6, <1>7 DEF Background

\* The empty store and the empty cluster are of the right types.
LEMMA InitTypes == Init => TypeOK
<1> SUFFICES ASSUME Init PROVE TypeOK
  OBVIOUS
<1>1. IdleJob \in JobLocals /\ IdlePod \in PodLocals /\ Closed \in Streams
      /\ NoRow \in Row
  BY DEF JobLocals, PodLocals, Streams, NoRow, Row, ExitCodes
<1>2. 0 \in 0..MaxCrashes
  BY ConstantsAssumption
<1>3. 0 \in 0..2
  OBVIOUS
<1>4. /\ jobs \in [Jobs -> JobStates] /\ jobCache \in [Jobs -> CacheStates]
      /\ pods \in [Pods -> Phases] /\ podList \in [Pods -> Phases]
      /\ podCache \in [Pods -> Phases]
  BY DEF Init, JobStates, Phases, CacheStates
<1> QED
  BY <1>1, <1>2, <1>3, <1>4 DEF Init, TypeOK

\* Type correctness: whatever the cluster does and however the goroutines of
\* the watcher interleave, every variable keeps its type; in particular a
\* handler past findRunID always works on a run id of a Job.
THEOREM TypeCorrect == Spec => []TypeOK
<1>1. TypeOK /\ [Next]_vars => TypeOK'
  <2> SUFFICES ASSUME TypeOK, [Next]_vars PROVE TypeOK'
    OBVIOUS
  <2>1. CASE Next
    BY <2>1, ClusterTypes, ProcessTypes, JobThreadTypes, PodThreadTypes,
       BackgroundTypes DEF Next
  <2>2. CASE UNCHANGED vars
    BY <2>2 DEF TypeOK, vars, clusterVars, informerVars, logVars
  <2> QED
    BY <2>1, <2>2
<1> QED
  BY InitTypes, <1>1, PTL DEF Spec

-----------------------------------------------------------------------------
(* Recorded outcomes are real *)

\* What each statement of the store may do to a row.
LEMMA UpsertEffect ==
  ASSUME runs \in [Jobs -> Row], NEW r \in Jobs, NEW st, NEW q \in Jobs
  PROVE  /\ UpsertJobRun(r, st)[q].exit = runs[q].exit
         /\ \/ UpsertJobRun(r, st)[q].status = runs[q].status
            \/ q = r /\ UpsertJobRun(r, st)[q].status = st
BY DEF UpsertJobRun, Row

\* UpdateJobRunStatus changes at most the row it names, and only if it exists.
LEMMA UpdateEffect ==
  ASSUME runs \in [Jobs -> Row], NEW r \in Jobs, NEW st, NEW fin, NEW ex,
         NEW q \in Jobs
  PROVE  \/ UpdateJobRunStatus(r, st, fin, ex)[q] = runs[q]
         \/ /\ q = r /\ runs[q].status # "none"
            /\ UpdateJobRunStatus(r, st, fin, ex)[q].status = st
            /\ UpdateJobRunStatus(r, st, fin, ex)[q].exit = ex
BY DEF UpdateJobRunStatus, Exists, Row

\* MarkRunFailed changes at most the row it names, to failed with the sentinel code.
LEMMA MarkEffect ==
  ASSUME runs \in [Jobs -> Row], NEW r \in Jobs, NEW q \in Jobs
  PROVE  \/ MarkRunFailed(r)[q] = runs[q]
         \/ /\ q = r /\ runs[q].status # "none"
            /\ MarkRunFailed(r)[q].status = "failed"
            /\ MarkRunFailed(r)[q].exit = "sentinel"
BY DEF MarkRunFailed, UpdateJobRunStatus, Exists, Row

\* AddLogSize changes neither status nor exit code.
LEMMA SizeEffect ==
  ASSUME runs \in [Jobs -> Row], NEW r \in Jobs, NEW q \in Jobs
  PROVE  /\ AddLogSize(r)[q].status = runs[q].status
         /\ AddLogSize(r)[q].exit = runs[q].exit
BY DEF AddLogSize, Row

\* The cluster never takes back the outcome of a Pod.
LEMMA ClusterOutcome ==
  TypeOK /\ OutcomeInv /\ Cluster => OutcomeInv'
<1> SUFFICES ASSUME TypeOK, OutcomeInv, Cluster PROVE OutcomeInv'
  OBVIOUS
<1>0. \A p \in Pods : pods[p] \in Terminal => pods'[p] = pods[p]
  BY DEF TypeOK, Cluster, CreateJob, FinishJob, DeleteJob, CreatePod,
         DeletePod, PodStep, Terminal
<1>1. \A j \in Jobs, phase \in Terminal : HasPod(j, phase) => HasPod(j, phase)'
  BY <1>0 DEF HasPod, PodsOf
<1>2. UNCHANGED <<runs, index, handler, podList, jobCache, jt>>
  BY DEF Cluster, CreateJob, FinishJob, DeleteJob, CreatePod, DeletePod,
         PodStep, informerVars
<1>3. \A j \in Jobs : jobs'[j] = "complete" => HasPod(j, "Succeeded")'
  <2>1. \A j \in Jobs : jobs'[j] = "complete"
                           => jobs[j] = "complete" \/ HasPod(j, "Succeeded")
    BY DEF TypeOK, Cluster, CreateJob, FinishJob, DeleteJob, CreatePod,
           DeletePod, PodStep, HasPod
  <2> QED
    BY <1>1, <2>1 DEF OutcomeInv, PhasesAgree, Terminal
<1>4. NamesAgree'
  <2> SUFFICES ASSUME NEW t \in Threads, handler[t].stage \in {"found", "sized"},
                      handler[t].phase \in Terminal
               PROVE  pods'[handler[t].pod] = handler[t].phase
    BY <1>2 DEF OutcomeInv, NamesAgree
  <2> QED
    BY <1>0, BusyHandler DEF OutcomeInv, NamesAgree
<1>5. PhasesAgree'
  <2>1. jt.stage \in {"upserted", "stamped"} => jt.job \in Jobs
    BY DEF TypeOK, JobLocals, IdleJob
  <2> QED
    BY <1>0, <1>1, <1>2, <1>3, <2>1 DEF OutcomeInv, PhasesAgree, Terminal
<1>6. OutcomeIsReal'
  BY <1>1, <1>2 DEF OutcomeInv, OutcomeIsReal, HasPod, PodsOf, Terminal
<1> QED
  BY <1>4, <1>5, <1>6 DEF OutcomeInv

\* Recovery, a crash and the initial lists keep OutcomeInv: MarkRunFailed invents no success.
LEMMA ProcessOutcome ==
  TypeOK /\ OutcomeInv /\ (Start \/ Crash \/ ListJobs \/ ListPods \/ CronSync)
    => OutcomeInv'
<1> SUFFICES ASSUME TypeOK, OutcomeInv,
                    Start \/ Crash \/ ListJobs \/ ListPods \/ CronSync
             PROVE  OutcomeInv'
  OBVIOUS
<1> USE DEF OutcomeInv, NamesAgree, PhasesAgree, OutcomeIsReal, HasPod, PodsOf,
            clusterVars, informerVars, logVars
<1>1. CASE Start
  <2>1. \A r \in Jobs : \/ runs'[r] = runs[r]
                        \/ /\ runs'[r].status = "failed"
                           /\ runs'[r].exit = "sentinel"
    BY <1>1, MarkEffect DEF TypeOK, Start
  <2> QED
    BY <1>1, <2>1 DEF Start
<1>2. CASE Crash
  BY <1>2 DEF Crash, IdleJob, IdlePod, Terminal
<1>3. CASE ListJobs
  BY <1>3 DEF ListJobs
<1>4. CASE ListPods
  BY <1>4 DEF ListPods, Terminal
<1>5. CASE CronSync
  BY <1>5 DEF CronSync
<1> QED
  BY <1>1, <1>2, <1>3, <1>4, <1>5

\* The Job informer's goroutine keeps OutcomeInv: a backfilled status is read off a finished Job.
LEMMA JobThreadOutcome ==
  TypeOK /\ OutcomeInv /\ JobThread => OutcomeInv'
<1> SUFFICES ASSUME TypeOK, OutcomeInv, JobThread PROVE OutcomeInv'
  OBVIOUS
<1> USE DEF OutcomeInv, HasPod, PodsOf, clusterVars, informerVars, logVars
<1>1. ASSUME NEW j \in Jobs, JobAdd(j) PROVE OutcomeInv'
  <2>1. \A q \in Jobs : /\ runs'[q].exit = runs[q].exit
                        /\ \/ runs'[q].status = runs[q].status
                           \/ runs'[q].status = "running"
    BY <1>1, UpsertEffect DEF TypeOK, JobAdd
  <2>2. OutcomeIsReal'
    BY <1>1, <2>1 DEF JobAdd, OutcomeIsReal
  <2>3. NamesAgree'
    BY <1>1 DEF TypeOK, JobAdd, IndexSet, NamesAgree
  <2>4. PhasesAgree'
    BY <1>1 DEF TypeOK, JobAdd, PhasesAgree
  <2> QED
    BY <2>2, <2>3, <2>4
<1>2. ASSUME NEW j \in Jobs, JobAddDone(j) PROVE OutcomeInv'
  <2>1. \A q \in Jobs : /\ runs'[q].exit = runs[q].exit
                        /\ \/ runs'[q].status = runs[q].status
                           \/ runs'[q].status = "failed"
                           \/ q = j /\ jobCache[j] = "listedComplete"
    BY <1>2, UpsertEffect DEF TypeOK, JobAddDone
  <2>2. OutcomeIsReal'
    BY <1>2, <2>1 DEF JobAddDone, OutcomeIsReal, PhasesAgree
  <2>3. NamesAgree'
    BY <1>2 DEF JobAddDone, NamesAgree
  <2>4. PhasesAgree'
    BY <1>2 DEF TypeOK, JobAddDone, PhasesAgree
  <2> QED
    BY <2>2, <2>3, <2>4
<1>3. ASSUME BackfillStamp PROVE OutcomeInv'
  <2>0. jt.job \in Jobs
    BY <1>3 DEF TypeOK, BackfillStamp, JobLocals, IdleJob
  <2>1. \A q \in Jobs :
          \/ runs'[q] = runs[q]
          \/ q = jt.job /\ jt.verdict = "succeeded" /\ runs'[q].exit = "zero"
    BY <1>3, <2>0
    DEF TypeOK, BackfillStamp, UpdateJobRunStatus, Exists, Row
  <2>2. OutcomeIsReal'
    <3>1. jt.verdict = "succeeded" => HasPod(jt.job, "Succeeded")
      BY <1>3 DEF BackfillStamp, PhasesAgree
    <3>2. UNCHANGED pods
      BY <1>3 DEF BackfillStamp
    <3> QED
      BY <2>1, <3>1, <3>2 DEF OutcomeIsReal
  <2>3. NamesAgree'
    BY <1>3 DEF BackfillStamp, NamesAgree
  <2>4. PhasesAgree'
    BY <1>3 DEF TypeOK, BackfillStamp, PhasesAgree, JobLocals, IdleJob
  <2> QED
    BY <2>2, <2>3, <2>4
<1>4. ASSUME BackfillPods PROVE OutcomeInv'
  <2>0. jt.job \in Jobs
    BY <1>4 DEF TypeOK, BackfillPods, JobLocals, IdleJob
  <2>1. PICK best \in PodsOf(jt.job) :
          runs' = UpdateJobRunStatus(jt.job, jt.verdict,
                    jt.verdict = "succeeded" \/ Terminated(best, pods[best]),
                    ExitCode(best, pods[best]))
    BY <1>4 DEF BackfillPods, selectBestPod
  <2>2. \A q \in Jobs :
          \/ runs'[q] = runs[q]
          \/ /\ q = jt.job /\ runs'[q].status = jt.verdict
             /\ runs'[q].exit = "nonzero" => pods[best] = "Failed"
    BY <2>0, <2>1, UpdateEffect DEF TypeOK, ExitCode
  <2>3. OutcomeIsReal'
    BY <1>4, <2>2 DEF BackfillPods, OutcomeIsReal, PhasesAgree
  <2>4. NamesAgree'
    BY <1>4 DEF BackfillPods, NamesAgree
  <2>5. PhasesAgree'
    BY <1>4 DEF BackfillPods, PhasesAgree, IdleJob
  <2> QED
    BY <2>3, <2>4, <2>5
<1>5. ASSUME BackfillNoPods PROVE OutcomeInv'
  BY <1>5 DEF BackfillNoPods, NamesAgree, PhasesAgree, OutcomeIsReal, IdleJob
<1>6. ASSUME NEW j \in Jobs, JobDelete(j) PROVE OutcomeInv'
  <2>1. NamesAgree'
    BY <1>6 DEF TypeOK, JobDelete, IndexDelete, NamesAgree
  <2>2. PhasesAgree'
    BY <1>6 DEF TypeOK, JobDelete, PhasesAgree, IdleJob
  <2>3. OutcomeIsReal'
    BY <1>6 DEF JobDelete, OutcomeIsReal
  <2> QED
    BY <2>1, <2>2, <2>3
<1>7. ASSUME JobDeleteMark PROVE OutcomeInv'
  <2>0. jt.job \in Jobs
    BY <1>7 DEF TypeOK, JobDeleteMark, JobLocals, IdleJob
  <2>1. \A q \in Jobs : \/ runs'[q] = runs[q]
                        \/ /\ runs'[q].status = "failed"
                           /\ runs'[q].exit = "sentinel"
    BY <1>7, <2>0, MarkEffect DEF TypeOK, JobDeleteMark
  <2>2. NamesAgree'
    BY <1>7 DEF TypeOK, JobDeleteMark, IndexDelete, NamesAgree
  <2>3. PhasesAgree'
    BY <1>7 DEF JobDeleteMark, PhasesAgree, IdleJob
  <2>4. OutcomeIsReal'
    BY <1>7, <2>1 DEF JobDeleteMark, OutcomeIsReal
  <2> QED
    BY <2>2, <2>3, <2>4
<1>8. ASSUME NEW j \in Jobs, JobDeleteTombstone(j) PROVE OutcomeInv'
  BY <1>8 DEF TypeOK, JobDeleteTombstone, NamesAgree, PhasesAgree, OutcomeIsReal
<1> QED
  BY <1>1, <1>2, <1>3, <1>4, <1>5, <1>6, <1>7, <1>8 DEF JobThread

\* A successful lookup yields a run of a Job with the Pod's Job name.
LEMMA LookupAgrees ==
  ASSUME TypeOK, OutcomeInv, NEW t \in Threads, NEW p \in Pods,
         NEW phase \in Phases, Lookup(t, p, phase),
         phase \in Terminal => pods[p] = phase,
         UNCHANGED <<pods, index>>
  PROVE  NamesAgree'
<1>1. \A r \in FindRunIDs(JobName[PodJob[p]]) :
        r \in Jobs /\ JobName[r] = JobName[PodJob[p]]
  BY ConstantsAssumption DEF TypeOK, FindRunIDs, Names, OutcomeInv, NamesAgree
<1> QED
  BY <1>1 DEF TypeOK, Lookup, OutcomeInv, NamesAgree, IdlePod

\* The Pod informer's goroutine keeps OutcomeInv: a written status is read off a finished pod.
LEMMA PodThreadOutcome ==
  ASSUME TypeOK, OutcomeInv, DistinctNames,
         PodThread \/ \E p \in Pods : RetryThread(p)
  PROVE  OutcomeInv'
<1> USE DEF OutcomeInv, HasPod, PodsOf, clusterVars, informerVars, logVars
<1>1. ASSUME NEW p \in Pods, PodAddListed(p) PROVE OutcomeInv'
  <2>1. NamesAgree'
    <3>1. CASE podList[p] \in Terminal
      BY <1>1, <3>1, LookupAgrees
      DEF TypeOK, PodAddListed, PhasesAgree, Threads, Terminal
    <3>2. CASE podList[p] = "Running"
      <4>1. handler' = [handler EXCEPT ![p] =
                          [IdlePod EXCEPT !.stage = "retry", !.pod = p,
                                          !.phase = "Running"]]
        BY <1>1, <3>2 DEF PodAddListed, Terminal
      <4>2. \A t \in Threads : \/ handler'[t] = handler[t]
                               \/ handler'[t].stage = "retry"
        BY <4>1 DEF TypeOK, IdlePod
      <4> QED
        BY <1>1, <4>2 DEF PodAddListed, NamesAgree
    <3>3. CASE podList[p] \notin Terminal \cup {"Running"}
      BY <1>1, <3>3 DEF PodAddListed, NamesAgree
    <3> QED
      BY <3>1, <3>2, <3>3
  <2>2. PhasesAgree'
    BY <1>1 DEF TypeOK, PodAddListed, PhasesAgree, Terminal
  <2>3. OutcomeIsReal'
    BY <1>1 DEF PodAddListed, OutcomeIsReal
  <2> QED
    BY <2>1, <2>2, <2>3
<1>2. ASSUME NEW p \in Pods, NEW phase \in Phases, PodEvent(p, phase)
      PROVE  OutcomeInv'
  <2>1. phase \in Terminal => pods[p] = phase
    BY <1>2 DEF TypeOK, PodEvent, Follows, Phases, Terminal
  <2>2. NamesAgree'
    <3>1. CASE phase = "Pending"
      BY <1>2, <3>1 DEF PodEvent, NamesAgree
    <3>2. CASE phase # "Pending"
      BY <1>2, <2>1, <3>2, LookupAgrees DEF PodEvent, Threads
    <3> QED
      BY <3>1, <3>2
  <2>3. PhasesAgree'
    BY <1>2 DEF PodEvent, PhasesAgree
  <2>4. OutcomeIsReal'
    BY <1>2 DEF PodEvent, OutcomeIsReal
  <2> QED
    BY <2>2, <2>3, <2>4
<1>3. ASSUME NEW p \in Pods, RetryOnAdd(p) PROVE OutcomeInv'
  <2>1. NamesAgree'
    BY <1>3, LookupAgrees DEF RetryOnAdd, Threads, Phases, Terminal
  <2> QED
    BY <1>3, <2>1 DEF RetryOnAdd, PhasesAgree, OutcomeIsReal
<1>4. ASSUME NEW t \in Threads, PodWrite(t) PROVE OutcomeInv'
  <2> DEFINE h == handler[t]
  <2>0. h \in [stage : {"found", "sized"}, pod : Pods, phase : Phases,
               run : Jobs, wantLog : BOOLEAN]
    BY <1>4, BusyHandler DEF PodWrite
  <2>1. PodJob[h.pod] = h.run
    BY <1>4, <2>0, ConstantsAssumption DEF PodWrite, NamesAgree, DistinctNames
  <2>2. \A q \in Jobs :
          \/ runs'[q] = runs[q]
          \/ /\ q = h.run /\ h.phase = "Succeeded"
             /\ runs'[q].exit = "zero"
          \/ /\ q = h.run /\ h.phase = "Failed"
             /\ runs'[q].status = "failed"
    BY <1>4, <2>0 DEF TypeOK, PodWrite, UpdateJobRunStatus, Exists, Row
  <2>3. h.phase \in Terminal => pods[h.pod] = h.phase
    BY <1>4 DEF PodWrite, NamesAgree
  <2>4. OutcomeIsReal'
    <3>1. /\ h.phase = "Succeeded" => HasPod(h.run, "Succeeded")
          /\ h.phase = "Failed" => HasPod(h.run, "Failed")
      BY <2>0, <2>1, <2>3 DEF Terminal
    <3>2. UNCHANGED pods
      BY <1>4 DEF PodWrite
    <3> HIDE DEF h
    <3> QED
      BY <2>2, <3>1, <3>2 DEF OutcomeIsReal
  <2>5. NamesAgree'
    BY <1>4, <2>0 DEF TypeOK, PodWrite, NamesAgree
  <2>6. PhasesAgree'
    BY <1>4 DEF PodWrite, PhasesAgree
  <2> QED
    BY <2>4, <2>5, <2>6
<1>5. ASSUME NEW t \in Threads, PodFinish(t) PROVE OutcomeInv'
  <2>1. NamesAgree'
    BY <1>5 DEF TypeOK, PodFinish, IndexDelete, NamesAgree, IdlePod
  <2> QED
    BY <1>5, <2>1 DEF PodFinish, PhasesAgree, OutcomeIsReal
<1> QED
  BY <1>1, <1>2, <1>3, <1>4, <1>5 DEF PodThread, RetryThread, Threads

\* The trigger endpoint, the log streamer and the sampler keep OutcomeInv.
LEMMA BackgroundOutcome ==
  ASSUME TypeOK, OutcomeInv, NEW j \in Jobs,
         TriggerCreate(j) \/ TriggerInsert(j) \/ TriggerLost(j) \/ Background(j)
  PROVE  OutcomeInv'
<1> USE DEF OutcomeInv, HasPod, PodsOf, clusterVars, informerVars, logVars
<1>1. CASE TriggerCreate(j)
  BY <1>1 DEF TypeOK, TriggerCreate, NamesAgree, PhasesAgree, OutcomeIsReal
<1>2. CASE TriggerInsert(j)
  <2>1. \A q \in Jobs : /\ runs'[q].exit = runs[q].exit
                        /\ \/ runs'[q].status = runs[q].status
                           \/ runs'[q].status = "running"
    BY <1>2, UpsertEffect DEF TypeOK, TriggerInsert
  <2> QED
    BY <1>2, <2>1 DEF TriggerInsert, NamesAgree, PhasesAgree, OutcomeIsReal
<1>3. CASE StreamInsert(j)
  BY <1>3 DEF StreamInsert, NamesAgree, PhasesAgree, OutcomeIsReal
<1>4. CASE StreamSize(j)
  <2>1. \A q \in Jobs : /\ runs'[q].exit = runs[q].exit
                        /\ runs'[q].status = runs[q].status
    BY <1>4, SizeEffect DEF TypeOK, StreamSize
  <2> QED
    BY <1>4, <2>1 DEF StreamSize, NamesAgree, PhasesAgree, OutcomeIsReal
<1>5. CASE StreamEnd(j)
  BY <1>5 DEF StreamEnd, NamesAgree, PhasesAgree, OutcomeIsReal
<1>6. CASE SamplerExit(j)
  BY <1>6 DEF SamplerExit, NamesAgree, PhasesAgree, OutcomeIsReal
<1>7. CASE TriggerLost(j)
  BY <1>7 DEF TriggerLost, NamesAgree, PhasesAgree, OutcomeIsReal
<1> QED
  BY <1>1, <1>2, <1>3, <1>4, <1>5, <1>6, <1>7 DEF Background

\* When Job names are distinct (one namespace), no interleaving of Job events,
\* Pod events, retryOnAdd goroutines, triggers, restarts and backfills ever
\* records a success no Pod had, or a container exit code no Pod returned.
THEOREM OutcomesAreReal ==
  ASSUME DistinctNames
  PROVE  Spec => []OutcomeIsReal
<1>1. Init => OutcomeInv
  BY DEF Init, OutcomeInv, NamesAgree, PhasesAgree, OutcomeIsReal, HasPod,
         PodsOf, IdleJob, IdlePod, NoRow, Terminal
<1>2. TypeOK /\ OutcomeInv /\ [Next]_vars => OutcomeInv'
  <2> SUFFICES ASSUME TypeOK, OutcomeInv, [Next]_vars PROVE OutcomeInv'
    OBVIOUS
  <2>1. CASE Next
    BY <2>1, ClusterOutcome, ProcessOutcome, JobThreadOutcome,
       PodThreadOutcome, BackgroundOutcome DEF Next
  <2>2. CASE UNCHANGED vars
    BY <2>2 DEF OutcomeInv, NamesAgree, PhasesAgree, OutcomeIsReal, HasPod,
                PodsOf, vars, clusterVars, informerVars, logVars
  <2> QED
    BY <2>1, <2>2
<1>3. OutcomeInv => OutcomeIsReal
  BY DEF OutcomeInv
<1> QED
  BY <1>1, <1>2, <1>3, TypeCorrect, PTL DEF Spec

-----------------------------------------------------------------------------
(* Recovery, the index and reopened runs *)

\* A step that tells the Job handler nothing new: at most it closes existing
\* runs and drops index entries.
Quiet ==
  /\ UNCHANGED <<up, jobsListed, jobCache, jt, pending>>
  /\ \A j \in Jobs : jobs'[j] = "absent" => jobs[j] = "absent"
  /\ \A n \in Names : index'[n] \in {index[n], NoRun}
  /\ \A q \in Jobs :
       \/ runs'[q].status = runs[q].status
       \/ runs[q].status # "none" /\ runs'[q].status \in Finished

\* Quiet steps keep TrackingInv.
LEMMA QuietTracking ==
  ASSUME TypeOK, TrackingInv, Quiet PROVE TrackingInv'
<1> USE DEF TrackingInv, Quiet
<1>1. ListingInv'
  BY ConstantsAssumption DEF ListingInv
<1>2. FirstWriteInv'
  BY DEF FirstWriteInv, TypeOK
<1>3. NoInheritedRunning'
  BY ConstantsAssumption DEF NoInheritedRunning, Finished
<1>4. (~Tombstones => NoStaleIndexEntry)'
  BY ConstantsAssumption DEF NoStaleIndexEntry, Names
<1> QED BY <1>1, <1>2, <1>3, <1>4

\* The cluster, the Pod handler and the background goroutines are quiet.
LEMMA QuietSteps ==
  ASSUME TypeOK,
         \/ Cluster \/ ListPods \/ CronSync \/ PodThread
         \/ \E p \in Pods : RetryThread(p)
         \/ \E j \in Jobs : Background(j)
         \/ UNCHANGED vars
  PROVE  Quiet
<1> USE DEF clusterVars, informerVars, logVars
<1>1. CASE Cluster
  <2>1. UNCHANGED <<up, jobsListed, jobCache, jt, pending, index, runs>>
    BY <1>1 DEF Cluster, CreateJob, FinishJob, DeleteJob, CreatePod, DeletePod,
                PodStep
  <2>2. \A j \in Jobs : jobs'[j] = "absent" => jobs[j] = "absent"
    BY <1>1 DEF TypeOK, Cluster, CreateJob, FinishJob, DeleteJob, CreatePod,
                DeletePod, PodStep
  <2> QED BY <2>1, <2>2 DEF Quiet
<1>2. CASE ListPods \/ CronSync \/ UNCHANGED vars
  BY <1>2 DEF ListPods, CronSync, vars, Quiet
<1>3. ASSUME NEW p \in Pods,
             \/ PodAddListed(p) \/ RetryOnAdd(p)
             \/ \E phase \in Phases : PodEvent(p, phase)
      PROVE  Quiet
  BY <1>3 DEF PodAddListed, RetryOnAdd, PodEvent, Quiet
<1>4. ASSUME NEW t \in Threads, PodWrite(t) PROVE Quiet
  <2>1. handler[t].run \in Jobs
    BY <1>4, BusyHandler DEF PodWrite
  <2>2. \A q \in Jobs :
          \/ runs'[q].status = runs[q].status
          \/ runs[q].status # "none" /\ runs'[q].status \in Finished
    <3>1. CASE handler[t].phase = "Succeeded"
      <4>1. \E f, e :
              runs' = UpdateJobRunStatus(handler[t].run, "succeeded", f, e)
        BY <1>4, <3>1 DEF PodWrite
      <4> QED BY <2>1, <4>1, UpdateEffect DEF TypeOK, Finished
    <3>2. CASE handler[t].phase = "Failed"
      <4>1. \E f, e :
              runs' = UpdateJobRunStatus(handler[t].run, "failed", f, e)
        BY <1>4, <3>2 DEF PodWrite
      <4> QED BY <2>1, <4>1, UpdateEffect DEF TypeOK, Finished
    <3>3. CASE handler[t].phase \notin {"Succeeded", "Failed"}
      BY <1>4, <3>3 DEF PodWrite
    <3> QED BY <3>1, <3>2, <3>3
  <2> QED BY <1>4, <2>2 DEF PodWrite, Quiet
<1>5. ASSUME NEW t \in Threads, PodFinish(t) PROVE Quiet
  <2>1. \A n \in Names : index'[n] \in {index[n], NoRun}
    BY <1>5 DEF TypeOK, PodFinish, IndexDelete
  <2> QED BY <1>5, <2>1 DEF PodFinish, Quiet
<1>6. ASSUME NEW j \in Jobs, Background(j) PROVE Quiet
  <2>1. CASE StreamSize(j)
    BY <2>1, SizeEffect DEF TypeOK, StreamSize, Quiet
  <2> QED BY <1>6, <2>1 DEF Background, StreamInsert, StreamEnd, SamplerExit, Quiet
<1> QED
  BY <1>1, <1>2, <1>3, <1>4, <1>5, <1>6 DEF PodThread, RetryThread, Threads

\* Recovery, a stop and the initial list of Jobs keep TrackingInv: no row is
\* 'running' when the list is taken.
LEMMA ProcessTracking ==
  ASSUME TypeOK, TrackingInv, Start \/ Crash \/ ListJobs PROVE TrackingInv'
<1> USE DEF TrackingInv, clusterVars, informerVars, logVars
<1>1. CASE Start
  <2>1. \A r \in Jobs : /\ runs'[r].status # "running"
                        /\ runs[r].status = "none" => runs'[r].status = "none"
    <3> SUFFICES ASSUME NEW r \in Jobs
                 PROVE  /\ runs'[r].status # "running"
                        /\ runs[r].status = "none" => runs'[r].status = "none"
      OBVIOUS
    <3>1. CASE runs[r].status = "running"
      <4>1. runs'[r] = MarkRunFailed(r)[r]
        BY <1>1, <3>1 DEF Start
      <4>2. MarkRunFailed(r)[r].status = "failed"
        BY <3>1 DEF MarkRunFailed, UpdateJobRunStatus, Exists, TypeOK, Row
      <4> QED BY <3>1, <4>1, <4>2
    <3>2. CASE runs[r].status # "running"
      BY <1>1, <3>2 DEF Start
    <3> QED BY <3>1, <3>2
  <2> QED
    BY <1>1, <2>1, ConstantsAssumption
    DEF Start, ListingInv, FirstWriteInv, NoInheritedRunning, NoStaleIndexEntry
<1>2. CASE Crash
  <2>1. \A j \in Jobs : jobCache'[j] = "none"
    BY <1>2 DEF Crash
  <2>2. ListingInv'
    BY <1>2, <2>1 DEF Crash, ListingInv, IdleJob
  <2> QED
    BY <1>2, <2>1, <2>2
    DEF Crash, FirstWriteInv, NoInheritedRunning, NoStaleIndexEntry
<1>3. CASE ListJobs
  <2>1. /\ UNCHANGED <<jobs, up, runs, index, jt, pending>>
        /\ up /\ ~jobsListed /\ jobsListed'
    BY <1>3 DEF ListJobs
  <2>2. \A j \in Jobs : jobCache'[j] = "none" <=> jobs[j] = "absent"
    BY <1>3 DEF ListJobs
  <2>3. jt.stage = "idle" /\ \A n \in Names : index[n] = NoRun
    BY <2>1 DEF ListingInv
  <2>4. \A r \in Scheduled : runs[r].status # "running"
    BY <2>1, ConstantsAssumption DEF ListingInv, NoInheritedRunning
  <2>5. ListingInv' /\ FirstWriteInv'
    BY <2>1, <2>2, <2>3 DEF ListingInv, FirstWriteInv
  <2>6. NoInheritedRunning'
    BY <2>1, <2>4 DEF NoInheritedRunning
  <2>7. NoStaleIndexEntry'
    BY <2>1, <2>3, ConstantsAssumption DEF NoStaleIndexEntry, Names
  <2> QED BY <2>5, <2>6, <2>7
<1> QED BY <1>1, <1>2, <1>3

\* Past the idle stage the Job informer's goroutine holds a Job; idle, none.
LEMMA JobGoroutine ==
  ASSUME TypeOK
  PROVE  /\ jt.stage = "idle" => jt.job = NoRun
         /\ jt.stage # "idle" => jt.job \in Jobs /\ jt.verdict \in Finished
BY DEF TypeOK, JobLocals, IdleJob

\* OnAdd, whatever status it writes, keeps TrackingInv: the Job is now present.
LEMMA AddTracking ==
  ASSUME TypeOK, TrackingInv, NEW j \in Jobs, JobAdd(j) \/ JobAddDone(j)
  PROVE  TrackingInv'
<1> USE DEF TrackingInv, clusterVars, logVars
<1>1. /\ UNCHANGED <<jobs, up, jobsListed, pending>>
      /\ jobCache' = [jobCache EXCEPT ![j] = "present"]
      /\ jt.stage = "idle" /\ (jt' = jt \/ jt'.job = j)
      /\ index' = index \/ index' = [index EXCEPT ![JobName[j]] = j]
    BY DEF JobAdd, JobAddDone, IndexSet
<1>2. jobsListed /\ jobs[j] # "absent"
  BY DEF JobAdd, JobAddDone, ListingInv, JobWatch, Listed
<1>3. /\ \A q \in Jobs : q # j => runs'[q].status = runs[q].status
      /\ j \notin Scheduled => runs' = runs
  <2>1. CASE runs' = runs
    BY <2>1
  <2>2. CASE runs' # runs
    <3>1. j \in Scheduled /\ \E st : runs' = UpsertJobRun(j, st)
      BY <2>2 DEF JobAdd, JobAddDone
    <3> QED BY <3>1 DEF UpsertJobRun, TypeOK, Row
  <2> QED BY <2>1, <2>2
<1>4. ListingInv'
  BY <1>1, <1>2 DEF ListingInv, TypeOK
<1>5. FirstWriteInv'
  BY <1>1, <1>2, <1>3 DEF FirstWriteInv, TypeOK
<1>6. NoInheritedRunning'
  BY <1>1, <1>3, ConstantsAssumption DEF NoInheritedRunning, TypeOK
<1>7. (~Tombstones => NoStaleIndexEntry)'
  <2>1. jt.job = NoRun
    BY <1>1, JobGoroutine
  <2> QED
    BY <1>1, <2>1, ConstantsAssumption DEF NoStaleIndexEntry, TypeOK, Names
<1> QED BY <1>4, <1>5, <1>6, <1>7

\* backfillRun keeps TrackingInv: it closes at most the run of a Job that the
\* informer still holds.
LEMMA BackfillTracking ==
  ASSUME TypeOK, TrackingInv, BackfillStamp \/ BackfillPods \/ BackfillNoPods
  PROVE  TrackingInv'
<1> USE DEF TrackingInv, clusterVars, informerVars, logVars
<1>1. /\ UNCHANGED <<jobs, up, jobsListed, jobCache, index, pending>>
      /\ jt.stage \in {"upserted", "stamped"}
      /\ jt' = [jt EXCEPT !.stage = "stamped"] \/ jt' = IdleJob
  BY DEF BackfillStamp, BackfillPods, BackfillNoPods
<1>2. jt.job \in Jobs /\ jt.verdict \in Finished
  BY <1>1, JobGoroutine
<1>3. \A q \in Jobs :
        \/ runs'[q].status = runs[q].status
        \/ runs[q].status # "none" /\ runs'[q].status \in Finished
  <2>1. CASE runs' = runs
    BY <2>1
  <2>2. CASE \E f, e : runs' = UpdateJobRunStatus(jt.job, jt.verdict, f, e)
    BY <1>2, <2>2, UpdateEffect DEF TypeOK
  <2> QED BY <2>1, <2>2 DEF BackfillStamp, BackfillPods, BackfillNoPods
<1>4. jt'.stage \in {"idle", "stamped"} /\ (jt'.stage = "stamped" => jt'.job = jt.job)
  BY <1>1 DEF TypeOK, JobLocals, IdleJob
<1>5. ListingInv'
  BY <1>1, <1>4 DEF ListingInv
<1>6. FirstWriteInv' /\ NoInheritedRunning'
  BY <1>1, <1>3, ConstantsAssumption
  DEF FirstWriteInv, NoInheritedRunning, Finished
<1>7. (~Tombstones => NoStaleIndexEntry)'
  <2>1. jobCache[jt.job] = "present"
    BY <1>1 DEF ListingInv
  <2> QED BY <1>1, <2>1 DEF NoStaleIndexEntry
<1> QED BY <1>5, <1>6, <1>7

\* OnDelete keeps TrackingInv: the index entry goes with the Job, at once or
\* with MarkRunFailed.
LEMMA DeleteTracking ==
  ASSUME TypeOK, TrackingInv,
         \/ \E j \in Jobs : JobDelete(j) \/ JobDeleteTombstone(j)
         \/ JobDeleteMark
  PROVE  TrackingInv'
<1> USE DEF TrackingInv, clusterVars, informerVars, logVars
<1>1. ASSUME NEW j \in Jobs, JobDelete(j) \/ JobDeleteTombstone(j)
      PROVE  TrackingInv'
  <2>1. /\ UNCHANGED <<jobs, up, jobsListed, pending, runs>>
        /\ jobsListed /\ jobCache[j] = "present" /\ jt.stage = "idle"
        /\ jobCache' = [jobCache EXCEPT ![j] = "deleted"]
    BY <1>1 DEF JobDelete, JobDeleteTombstone, JobWatch
  <2>2. jt' = jt \/ (jt'.stage = "delete" /\ jt'.job = j)
    BY <1>1 DEF JobDelete, JobDeleteTombstone, IdleJob
  <2>3. ListingInv'
    BY <2>1, <2>2 DEF ListingInv, TypeOK
  <2>4. FirstWriteInv' /\ NoInheritedRunning'
    BY <2>1, ConstantsAssumption DEF FirstWriteInv, NoInheritedRunning, TypeOK
  <2>5. ASSUME ~Tombstones PROVE NoStaleIndexEntry'
    <3>1. JobDelete(j)
      BY <1>1, <2>5 DEF JobDeleteTombstone
    <3>2. jt.job = NoRun
      BY <2>1, JobGoroutine
    <3>3. \A n \in Names : index'[n] \in {index[n], NoRun}
      BY <3>1 DEF JobDelete, IndexDelete, TypeOK
    <3>4. index'[JobName[j]] = NoRun \/ jt'.job = j
      BY <3>1 DEF JobDelete, IndexDelete, TypeOK, Names, IdleJob
    <3> QED
      BY <2>1, <2>5, <3>2, <3>3, <3>4, ConstantsAssumption
      DEF NoStaleIndexEntry, TypeOK, Names
  <2> QED BY <2>3, <2>4, <2>5, ConstantsAssumption
<1>2. ASSUME JobDeleteMark PROVE TrackingInv'
  <2>1. /\ UNCHANGED <<jobs, up, jobsListed, jobCache, pending>>
        /\ jt.stage = "delete" /\ jt' = IdleJob
        /\ runs' = MarkRunFailed(jt.job)
        /\ index' = [index EXCEPT ![JobName[jt.job]] = NoRun]
    BY <1>2 DEF JobDeleteMark, IndexDelete
  <2>2. jt.job \in Jobs
    BY <2>1, JobGoroutine
  <2>3. \A q \in Jobs :
          \/ runs'[q].status = runs[q].status
          \/ runs[q].status # "none" /\ runs'[q].status = "failed"
    BY <2>1, <2>2, MarkEffect DEF TypeOK
  <2>4. ListingInv'
    BY <2>1 DEF ListingInv, IdleJob, TypeOK
  <2>5. FirstWriteInv' /\ NoInheritedRunning'
    BY <2>1, <2>3, ConstantsAssumption DEF FirstWriteInv, NoInheritedRunning
  <2>6. (~Tombstones => NoStaleIndexEntry)'
    BY <2>1, <2>2, ConstantsAssumption DEF NoStaleIndexEntry, TypeOK, Names
  <2> QED BY <2>4, <2>5, <2>6
<1> QED BY <1>1, <1>2

\* The trigger endpoint keeps TrackingInv: it pre-inserts the row of a Job it
\* has just created, and no scheduled one.
LEMMA TriggerTracking ==
  ASSUME TypeOK, TrackingInv, NEW j \in Jobs,
         TriggerCreate(j) \/ TriggerInsert(j) \/ TriggerLost(j)
  PROVE  TrackingInv'
<1> USE DEF TrackingInv, clusterVars, informerVars, logVars
<1>1. UNCHANGED <<up, jobsListed, jobCache, index, jt>>
  BY DEF TriggerCreate, TriggerInsert, TriggerLost
<1>2. ListingInv'
  <2>1. \A q \in Jobs : jobs'[q] = "absent" => jobs[q] = "absent"
    BY DEF TriggerCreate, TriggerInsert, TriggerLost, TypeOK
  <2> QED BY <1>1, <2>1 DEF ListingInv
<1>3. FirstWriteInv' /\ NoInheritedRunning'
  <2>1. CASE TriggerCreate(j)
    BY <1>1, <2>1 DEF TriggerCreate, FirstWriteInv, NoInheritedRunning, TypeOK
  <2>2. CASE TriggerInsert(j)
    <3>1. j \notin Scheduled /\ jobs[j] # "absent"
      BY <2>2 DEF TriggerInsert, FirstWriteInv
    <3>2. \A q \in Jobs : q # j => runs'[q].status = runs[q].status
      BY <2>2, UpsertEffect DEF TriggerInsert, TypeOK
    <3> QED
      BY <1>1, <2>2, <3>1, <3>2, ConstantsAssumption
      DEF TriggerInsert, FirstWriteInv, NoInheritedRunning, TypeOK
  <2>3. CASE TriggerLost(j)
    BY <1>1, <2>3 DEF TriggerLost, FirstWriteInv, NoInheritedRunning
  <2> QED BY <2>1, <2>2, <2>3
<1>4. (~Tombstones => NoStaleIndexEntry)'
  BY <1>1 DEF NoStaleIndexEntry
<1> QED BY <1>2, <1>3, <1>4

\* TrackingInv is an invariant of the whole system.
LEMMA TrackingHolds == Spec => []TrackingInv
<1>1. Init => TrackingInv
  BY ConstantsAssumption
  DEF Init, TrackingInv, ListingInv, FirstWriteInv, NoInheritedRunning,
      NoStaleIndexEntry, IdleJob, NoRow
<1>2. TypeOK /\ TrackingInv /\ [Next]_vars => TrackingInv'
  <2> SUFFICES ASSUME TypeOK, TrackingInv, [Next]_vars PROVE TrackingInv'
    OBVIOUS
  <2>1. CASE Start \/ Crash \/ ListJobs
    BY <2>1, ProcessTracking
  <2>2. CASE JobThread
    BY <2>2, AddTracking, BackfillTracking, DeleteTracking DEF JobThread
  <2>3. CASE \E j \in Jobs : TriggerCreate(j) \/ TriggerInsert(j) \/ TriggerLost(j)
    BY <2>3, TriggerTracking
  <2>4. CASE \/ Cluster \/ ListPods \/ CronSync \/ PodThread
             \/ \E p \in Pods : RetryThread(p)
             \/ \E j \in Jobs : Background(j)
             \/ UNCHANGED vars
    BY <2>4, QuietSteps, QuietTracking
  <2> QED BY <2>1, <2>2, <2>3, <2>4 DEF Next
<1> QED BY <1>1, <1>2, TypeCorrect, PTL DEF Spec

\* Restart recovery misses nothing: for any number of Jobs, Pods and restarts,
\* a scheduled run is 'running' only if this process has seen its Job.
THEOREM RecoveryIsComplete == Spec => []NoInheritedRunning
<1>1. TrackingInv => NoInheritedRunning
  BY DEF TrackingInv
<1> QED BY <1>1, TrackingHolds, PTL

\* Unless a watch gap hides a deletion from OnDelete, RunIndex never keeps the
\* entry of a deleted Job, although both handlers write it.
THEOREM IndexIsPruned ==
  ASSUME ~Tombstones
  PROVE  Spec => []NoStaleIndexEntry
<1>1. TrackingInv => NoStaleIndexEntry
  BY DEF TrackingInv
<1> QED BY <1>1, TrackingHolds, PTL

\* While a process lives no handler, backfill or trigger reopens a finished
\* run: only the initial list of a new process does.
THEOREM OnlyListingReopens == Spec => ReopenedOnlyByInitialList
<1> DEFINE A == \A r \in Jobs :
                  runs[r].status \in Finished /\ runs'[r].status = "running"
                    => jobCache[r] = "listedActive"
<1>1. TypeOK /\ TrackingInv /\ [Next]_vars => [A]_vars
  <2> SUFFICES ASSUME TypeOK, TrackingInv, Next PROVE A
    OBVIOUS
  <2>1. ASSUME \A r \in Jobs : \/ runs'[r].status = runs[r].status
                                \/ runs'[r].status \in Finished
        PROVE  A
    BY <2>1 DEF Finished
  <2>2. CASE \/ Cluster \/ ListPods \/ CronSync \/ PodThread
             \/ \E p \in Pods : RetryThread(p)
             \/ \E j \in Jobs : Background(j)
    BY <2>1, <2>2, QuietSteps DEF Quiet
  <2>3. CASE Crash \/ ListJobs
    BY <2>1, <2>3 DEF Crash, ListJobs
  <2>4. CASE Start
    <3>1. \A r \in Jobs : runs'[r] \in {runs[r], MarkRunFailed(r)[r]}
      BY <2>4 DEF Start
    <3> QED BY <2>1, <3>1, MarkEffect DEF TypeOK, Finished
  <2>5. ASSUME NEW j \in Jobs, JobAdd(j) PROVE A
    <3>1. \A q \in Jobs : q # j => runs'[q].status = runs[q].status
      BY <2>5, UpsertEffect DEF JobAdd, TypeOK
    <3>2. runs' # runs /\ jobCache[j] # "listedActive"
            => runs[j].status = "none"
      BY <2>5 DEF JobAdd, JobWatch, TrackingInv, FirstWriteInv
    <3> QED BY <3>1, <3>2 DEF Finished
  <2>6. ASSUME NEW j \in Jobs, JobAddDone(j) PROVE A
    <3>1. runs' = runs \/ \E v \in Finished : runs' = UpsertJobRun(j, v)
      BY <2>6 DEF JobAddDone, Finished
    <3> QED BY <2>1, <3>1, UpsertEffect DEF TypeOK
  <2>7. CASE BackfillStamp \/ BackfillPods \/ BackfillNoPods
    <3>1. jt.job \in Jobs /\ jt.verdict \in Finished
      BY <2>7, JobGoroutine DEF BackfillStamp, BackfillPods, BackfillNoPods
    <3>2. \/ runs' = runs
          \/ \E f, e : runs' = UpdateJobRunStatus(jt.job, jt.verdict, f, e)
      BY <2>7 DEF BackfillStamp, BackfillPods, BackfillNoPods
    <3> QED BY <2>1, <3>1, <3>2, UpdateEffect DEF TypeOK
  <2>8. CASE \/ \E j \in Jobs : JobDelete(j) \/ JobDeleteTombstone(j)
             \/ JobDeleteMark
    <3>1. runs' = runs \/ (jt.job \in Jobs /\ runs' = MarkRunFailed(jt.job))
      BY <2>8, JobGoroutine DEF JobDelete, JobDeleteTombstone, JobDeleteMark
    <3> QED BY <2>1, <3>1, MarkEffect DEF TypeOK, Finished
  <2>9. ASSUME NEW j \in Jobs,
               TriggerCreate(j) \/ TriggerInsert(j) \/ TriggerLost(j)
        PROVE  A
    <3>1. \A q \in Jobs : q # j => runs'[q].status = runs[q].status
      BY <2>9, UpsertEffect
      DEF TriggerCreate, TriggerInsert, TriggerLost, TypeOK
    <3>2. runs' = runs \/ runs[j].status = "none"
      BY <2>9 DEF TriggerCreate, TriggerInsert, TriggerLost, TrackingInv,
                  FirstWriteInv
    <3> QED BY <3>1, <3>2 DEF Finished
  <2> QED
    BY <2>2, <2>3, <2>4, <2>5, <2>6, <2>7, <2>8, <2>9 DEF Next, JobThread
<1> QED
  BY <1>1, TypeCorrect, TrackingHolds, PTL DEF Spec, ReopenedOnlyByInitialList
=============================================================================
