---------------------------- MODULE RunDetails -----------------------------
(***************************************************************************)
(* The details kept of one run, its log body and its resource usage, and   *)
(* what the API answers about them.  Writers: the streamer's flush, the    *)
(* sampler goroutines (internal/sampler/resource_sampler.go), the Pod and  *)
(* Job handlers, retention, and main with its shutdown and recovery.       *)
(* Readers: the endpoints that show a log body, two store calls each.      *)
(*                                                                         *)
(* Store calls are atomic; between two calls of one goroutine all others   *)
(* may run.  A stored line is its row id, a sample the goroutine that took *)
(* it and its number in the order stored; an aggregate is the set of the   *)
(* samples it is taken over.                                               *)
(***************************************************************************)
EXTENDS Naturals, Sequences, FiniteSets

CONSTANTS
  Profiles,    \* kinds of run: lines it prints, Running events delivered,
               \* the Pod's last phase, whether metrics are available, and
               \* the endpoints that are asked about it
  FlushMax,    \* flushMaxLines (200)
  MaxSamples,  \* bound on the samples taken
  MaxSamplers, \* bound on the sampler goroutines of one run of the process
  MaxRestarts, \* bound on the restarts of the process
  PageLimit,   \* logLimit of the run page (5000)
  Limits       \* values of ?limit=; 0 is none

ASSUME DetailsAssumption ==
  /\ Profiles \subseteq [lines : Nat, events : Nat, metrics : BOOLEAN,
                          outcome : {"succeeded", "failed"},
                          asked : SUBSET {"logs", "page", "text"}]
  /\ FlushMax \in Nat \ {0} /\ MaxSamples \in Nat
  /\ \A p \in Profiles : p.metrics => p.events <= MaxSamplers
  /\ MaxSamplers \in Nat /\ MaxRestarts \in Nat /\ PageLimit \in Nat \ {0}
  /\ Limits \subseteq Nat

VARIABLES
  profile,   \* what kind of run it is
  proc,      \* the process: "up", "closing" (its store is closed) or "down"
  restarts,  \* restarts so far
  phase,     \* phase of the Pod
  written,   \* lines the container has written
  jobGone,   \* has the Job been deleted?
  age,       \* 0: young, 1: past the log retention, 2: past the run retention
  status,    \* job_runs.status; "none" when there is no row
  size,      \* log_size_bytes, in lines
  usage,     \* the samples avg_* and max_* were computed over; {} is NULL
  body,      \* log_lines of the run, by id
  samples,   \* resource_samples of the run
  indexed,   \* is the run in the RunIndex?
  listed,    \* has the Job informer delivered its initial list?
  seen,      \* the last Pod phase the Pod informer has delivered
  events,    \* Running events delivered
  todo,      \* what each handler goroutine still has to do
  streaming, \* where the streaming goroutine is
  taken,     \* lines it has taken from the Pod's log
  batch,     \* lines of the batch being flushed
  nextID,    \* next id of log_lines (AUTOINCREMENT)
  active,    \* Sampler.active[runID]: a goroutine, or 0
  spc,       \* where each sampler goroutine is
  cancelled, \* the sampler goroutines whose context is cancelled
  drawn,     \* samples drawn from the Metrics API
  req,       \* the request being served, or its answer
  flushed,   \* (history) ids of the present row's completed flushes
  removed,   \* (history) has retention removed lines of the run?
  lost       \* (history) has a stop of the process kept a sampler from its
             \* summary?

clusterVars  == <<profile, phase, written, jobGone, age>>
rowVars      == <<status, size, usage>>
storeVars    == <<rowVars, body, nextID, samples>>
handlerVars  == <<indexed, listed, seen, events, todo>>
streamerVars == <<streaming, taken, batch>>
samplerVars  == <<active, spc, cancelled, drawn>>
history      == <<flushed, removed, lost>>
vars == <<proc, restarts, clusterVars, storeVars, handlerVars, streamerVars,
          samplerVars, req, history>>

Handlers == {"pod", "retry", "job"}
Samplers == 1..MaxSamplers
Elements(s) == {s[i] : i \in DOMAIN s}
Last(s, n) == IF n >= Len(s) THEN s ELSE SubSeq(s, Len(s) - n + 1, Len(s))

Alive      == proc # "down"
StoreOpen  == proc = "up"
HasRow     == status # "none"
Terminated == phase \in {"succeeded", "failed"}
NoRequest  == [pc |-> "idle"]

Init ==
  /\ profile \in Profiles
  /\ proc = "up" /\ restarts = 0
  /\ phase = "pending" /\ written = 0 /\ jobGone = FALSE /\ age = 0
  /\ status = "running" /\ size = 0 /\ usage = {}
  /\ body = <<>> /\ samples = {}
  /\ indexed = TRUE /\ listed = TRUE /\ seen = "pending" /\ events = 0
  /\ todo = [h \in Handlers |-> <<>>]
  /\ streaming = "off" /\ taken = 0 /\ batch = 0 /\ nextID = 1
  /\ active = 0 /\ spc = [g \in Samplers |-> "none"]
  /\ cancelled = {} /\ drawn = 0
  /\ req = NoRequest
  /\ flushed = {} /\ removed = FALSE /\ lost = FALSE

-----------------------------------------------------------------------------
(* The cluster and the clock                                               *)

PodRuns ==
  /\ phase = "pending" /\ ~jobGone
  /\ phase' = "running"
  /\ UNCHANGED <<profile, proc, restarts, written, jobGone, age, storeVars,
                 handlerVars, streamerVars, samplerVars, req, history>>

Write ==
  /\ phase = "running" /\ written < profile.lines
  /\ written' = written + 1
  /\ UNCHANGED <<profile, proc, restarts, phase, jobGone, age, storeVars, handlerVars,
                 streamerVars, samplerVars, req, history>>

PodEnds ==
  /\ phase = "running"
  /\ phase' = profile.outcome
  /\ UNCHANGED <<profile, proc, restarts, written, jobGone, age, storeVars,
                 handlerVars, streamerVars, samplerVars, req, history>>

GrowOld ==
  /\ age < 2
  /\ age' = age + 1
  /\ UNCHANGED <<profile, proc, restarts, phase, written, jobGone, storeVars,
                 handlerVars, streamerVars, samplerVars, req, history>>

-----------------------------------------------------------------------------
(* The Pod and Job handlers.  A handler that has found its run goes        *)
(* through a list of steps, each a store call or a call of the streamer or *)
(* the sampler.                                                            *)

OnRunning  == IF profile.metrics THEN <<"check", "stream", "start">>
                                 ELSE <<"check", "stream">>
OnTerminal == <<"close", "check", "stream", "stop">>
OnBackfill == <<"check", "close", "stream">>

\* findRunID: the index first, then the running runs of the store.
Found == indexed \/ status = "running"

\* The Pod informer delivers a phase the Pod has or had; OnUpdate ignores a
\* Pod whose run it does not find.  In the initial list (seen is "none") a
\* running Pod is left to retryOnAdd, and one that waits to no one.  A Pod that
\* has terminated may be delivered again, whatever about it has changed.
PodEvent ==
  /\ proc = "up" /\ todo["pod"] = <<>>
  /\ \/ /\ phase = "pending" /\ seen = "none"
        /\ seen' = "pending" /\ UNCHANGED <<events, todo>>
     \/ /\ phase # "pending" /\ events < profile.events
        /\ seen \notin {"succeeded", "failed"}
        /\ events' = events + 1 /\ seen' = "running"
        /\ IF seen = "none"
           THEN todo' = [todo EXCEPT !["retry"] = <<"find">>]
           ELSE todo' = [todo EXCEPT !["pod"] =
                                       IF Found THEN OnRunning ELSE <<>>]
     \/ /\ Terminated
        /\ seen' = phase /\ UNCHANGED events
        /\ todo' = [todo EXCEPT !["pod"] = IF Found THEN OnTerminal ELSE <<>>]
  /\ UNCHANGED <<proc, restarts, clusterVars, storeVars, indexed, listed,
                 streamerVars, samplerVars, req, history>>

\* retryOnAdd: OnUpdate once findRunID succeeds; it gives up after 5 s.
RetryOnAdd ==
  /\ Alive /\ todo["retry"] = <<"find">>
  /\ \/ Found /\ todo' = [todo EXCEPT !["retry"] = OnRunning]
     \/ ~Found /\ todo' = [todo EXCEPT !["retry"] = <<>>]
  /\ UNCHANGED <<proc, restarts, clusterVars, storeVars, indexed, listed,
                 seen, events, streamerVars, samplerVars, req, history>>

At(h, step) == Alive /\ todo[h] # <<>> /\ Head(todo[h]) = step
Done(h)     == todo' = [todo EXCEPT ![h] = Tail(@)]

\* The steps s without "stream", which is the first of them or the second of two.
Streamless(s) == IF Head(s) = "stream" THEN Tail(s) ELSE <<Head(s)>>

\* Only stream if no logs are captured yet: GetJobRun, some time before the
\* call of Stream.
Check(h) ==
  /\ At(h, "check")
  /\ IF StoreOpen /\ size = 0 /\ (HasRow \/ h = "job")
     THEN Done(h)
     ELSE todo' = [todo EXCEPT ![h] = Streamless(Tail(@))]
  /\ UNCHANGED <<proc, restarts, clusterVars, storeVars, indexed, listed,
                 seen, events, streamerVars, samplerVars, req, history>>

\* UpdateJobRunStatus with the Pod's outcome; backfillRun upserts the row.
CloseRun(h) ==
  /\ At(h, "close")
  /\ IF StoreOpen /\ (HasRow \/ h = "job")
     THEN status' = phase ELSE UNCHANGED status
  /\ Done(h)
  /\ UNCHANGED <<proc, restarts, clusterVars, size, usage, body, nextID, samples,
                 indexed, listed, seen, events, streamerVars, samplerVars,
                 req, history>>

\* Stream: a no-op while a goroutine streams the run.
Stream(h) ==
  /\ At(h, "stream")
  /\ IF streaming = "off" THEN streaming' = "open" /\ taken' = 0
                          ELSE UNCHANGED <<streaming, taken>>
  /\ Done(h)
  /\ UNCHANGED <<proc, restarts, clusterVars, storeVars, indexed, listed,
                 seen, events, batch, samplerVars, req, history>>

\* Sampler.Start: a no-op while a goroutine is registered for the run.
Start(h) ==
  /\ At(h, "start")
  /\ IF active = 0
     THEN \E g \in Samplers :
            /\ spc[g] = "none" /\ \A f \in 1..(g - 1) : spc[f] # "none"
            /\ active' = g /\ spc' = [spc EXCEPT ![g] = "select"]
     ELSE UNCHANGED <<active, spc>>
  /\ Done(h)
  /\ UNCHANGED <<proc, restarts, clusterVars, storeVars, indexed, listed,
                 seen, events, streamerVars, cancelled, drawn, req, history>>

\* Mutant of Stop: the entry is dropped together with its cancel function.
StopForgets(h) ==
  /\ At(h, "stop")
  /\ active' = 0
  /\ indexed' = FALSE
  /\ Done(h)
  /\ UNCHANGED <<proc, restarts, clusterVars, storeVars, listed, seen, events,
                 streamerVars, spc, cancelled, drawn, req, history>>

\* Sampler.Stop cancels the registered goroutine's context; the handler then
\* drops the run from the index.
Stop(h) ==
  /\ At(h, "stop")
  /\ cancelled' = IF active # 0 THEN cancelled \cup {active} ELSE cancelled
  /\ indexed' = FALSE
  /\ Done(h)
  /\ UNCHANGED <<proc, restarts, clusterVars, storeVars, listed, seen, events,
                 streamerVars, active, spc, drawn, req, history>>

\* The Job is deleted: OnDelete fails a run that is still running.  Nothing
\* tells the sampler.
JobDeleted ==
  /\ proc = "up" /\ listed /\ ~jobGone /\ todo["job"] = <<>>
  /\ jobGone' = TRUE
  /\ status' = IF status = "running" THEN "failed" ELSE status
  /\ indexed' = FALSE
  /\ UNCHANGED <<profile, proc, restarts, phase, written, age, size, usage, body,
                 nextID, samples, listed, seen, events, todo, streamerVars,
                 samplerVars, req, history>>

\* Mutant of JobListed: the upsert replaces the whole row.
JobListedReplaces ==
  /\ proc = "up" /\ ~listed
  /\ listed' = TRUE
  /\ status' = "running" /\ indexed' = TRUE /\ size' = 0
  /\ UNCHANGED <<proc, restarts, clusterVars, usage, body, nextID, samples, seen,
                 events, todo, streamerVars, samplerVars, req, history>>

\* The initial list after a restart: OnAdd reopens the run of an unfinished
\* Job (the upsert keeps the columns it does not name), and backfillRun
\* closes that of a finished one unless it is recorded as succeeded.  A Job
\* is finished some time after its Pod.
JobListed ==
  /\ proc = "up" /\ ~listed
  /\ listed' = TRUE
  /\ \/ /\ jobGone
        /\ UNCHANGED <<status, indexed, todo>>
     \/ /\ ~jobGone
        /\ status' = "running" /\ indexed' = TRUE
        /\ UNCHANGED todo
     \/ /\ ~jobGone /\ Terminated
        /\ IF status = "succeeded"
           THEN UNCHANGED todo
           ELSE todo' = [todo EXCEPT !["job"] = OnBackfill]
        /\ UNCHANGED <<status, indexed>>
  /\ UNCHANGED <<proc, restarts, clusterVars, size, usage, body, nextID, samples,
                 seen, events, streamerVars, samplerVars, req, history>>

HandlerStep(h) ==
  \/ Check(h) \/ CloseRun(h) \/ Stream(h) \/ Start(h) \/ Stop(h)

-----------------------------------------------------------------------------
(* The streamer: flush is BatchInsertLogLines, then AddLogSize             *)

\* The log cannot be opened, or it is at its end and flushed.  (A read error in
\* the middle ends the goroutine too; what has been flushed by then is the same.)
StreamEnds ==
  /\ Alive /\ streaming = "open"
  /\ taken = 0 \/ (Terminated /\ taken = written)
  /\ streaming' = "off"
  /\ UNCHANGED <<proc, restarts, clusterVars, storeVars, handlerVars, taken,
                 batch, samplerVars, req, history>>

BeginFlush ==
  /\ Alive /\ streaming = "open"
  /\ \E n \in 1..FlushMax :
       /\ taken + n <= written
       /\ batch' = n
       /\ taken' = taken + n
  /\ streaming' = "insert"
  /\ UNCHANGED <<proc, restarts, clusterVars, storeVars, handlerVars,
                 samplerVars, req, history>>

\* One transaction, refused by the foreign key when the run is gone.
InsertLines ==
  /\ Alive /\ streaming = "insert"
  /\ IF StoreOpen /\ HasRow
     THEN /\ body' = body \o [i \in 1..batch |-> nextID + i - 1]
          /\ nextID' = nextID + batch
     ELSE UNCHANGED <<body, nextID>>
  /\ streaming' = "size"
  /\ UNCHANGED <<proc, restarts, clusterVars, rowVars, samples, handlerVars,
                 taken, batch, samplerVars, req, history>>

BatchIDs == (nextID - batch)..(nextID - 1)

AddLogSize ==
  /\ Alive /\ streaming = "size"
  /\ IF StoreOpen /\ HasRow
     THEN size' = size + batch /\ flushed' = flushed \cup BatchIDs
     ELSE UNCHANGED <<size, flushed>>
  /\ streaming' = "open" /\ batch' = 0
  /\ UNCHANGED <<proc, restarts, clusterVars, status, usage, body, nextID, samples,
                 handlerVars, taken, samplerVars, req, removed, lost>>

Streamer == StreamEnds \/ BeginFlush \/ InsertLines \/ AddLogSize

-----------------------------------------------------------------------------
(* The sampler goroutines                                                  *)

\* The ticker: a data point is read from the Metrics API.  (Once the context
\* is cancelled the read fails, and the select is entered again.)
DrawSample(g) ==
  /\ Alive /\ spc[g] = "select" /\ g \notin cancelled
  /\ drawn < MaxSamples
  /\ spc' = [spc EXCEPT ![g] = "insert"] /\ drawn' = drawn + 1
  /\ UNCHANGED <<proc, restarts, clusterVars, storeVars, handlerVars,
                 streamerVars, active, cancelled, req, history>>

\* InsertResourceSample fails without the run's row, and may fail when the
\* context has been cancelled in between.
InsertSample(g) ==
  /\ Alive /\ spc[g] = "insert"
  /\ \/ /\ StoreOpen /\ HasRow
        /\ samples' = samples \cup {<<g, Cardinality(samples) + 1>>}
     \/ (~StoreOpen \/ ~HasRow \/ g \in cancelled) /\ UNCHANGED samples
  /\ spc' = [spc EXCEPT ![g] = "select"]
  /\ UNCHANGED <<proc, restarts, clusterVars, rowVars, body, nextID,
                 handlerVars, streamerVars, active, cancelled, drawn, req, history>>

\* The goroutine returns: the entry goes first, the summary is computed after.
EndSampling(g) ==
  /\ Alive /\ spc[g] = "select" /\ g \in cancelled
  /\ active' = 0
  /\ spc' = [spc EXCEPT ![g] = "finalize"]
  /\ UNCHANGED <<proc, restarts, clusterVars, storeVars, handlerVars,
                 streamerVars, cancelled, drawn, req, history>>

\* Mutant of Finalize: it is left to the next goroutine, if there is one.
FinalizeIfLast(g) ==
  /\ Alive /\ spc[g] = "finalize"
  /\ usage' = IF StoreOpen /\ HasRow /\ active = 0 THEN samples ELSE usage
  /\ lost' = (lost \/ ~StoreOpen)
  /\ spc' = [spc EXCEPT ![g] = "done"]
  /\ UNCHANGED <<proc, restarts, clusterVars, status, size, body, nextID, samples,
                 handlerVars, streamerVars, active, cancelled, drawn, req,
                 flushed, removed>>

\* FinalizeResourceUsage: the aggregates over the samples now stored.
Finalize(g) ==
  /\ Alive /\ spc[g] = "finalize"
  /\ usage' = IF StoreOpen /\ HasRow THEN samples ELSE usage
  /\ lost' = (lost \/ ~StoreOpen)
  /\ spc' = [spc EXCEPT ![g] = "done"]
  /\ UNCHANGED <<proc, restarts, clusterVars, status, size, body, nextID, samples,
                 handlerVars, streamerVars, active, cancelled, drawn, req,
                 flushed, removed>>

Sampler(g) ==
  DrawSample(g) \/ InsertSample(g) \/ EndSampling(g) \/ Finalize(g)

-----------------------------------------------------------------------------
(* Retention                                                               *)

DeleteOldLogLines ==
  /\ proc = "up" /\ age >= 1 /\ HasRow
  /\ body' = <<>> /\ removed' = (removed \/ body # <<>>)
  /\ UNCHANGED <<proc, restarts, clusterVars, rowVars, nextID, samples,
                 handlerVars, streamerVars, samplerVars, req, flushed, lost>>

\* The row goes, and by cascade its lines and its samples.
DeleteOldData ==
  /\ proc = "up" /\ age = 2 /\ HasRow
  /\ status' = "none" /\ size' = 0 /\ usage' = {}
  /\ body' = <<>> /\ samples' = {}
  /\ removed' = (removed \/ body # <<>>) /\ flushed' = {}
  /\ UNCHANGED <<proc, restarts, clusterVars, nextID, handlerVars,
                 streamerVars, samplerVars, req, lost>>

-----------------------------------------------------------------------------
(* Readers.  The last call of a request gives its answer (Answer below).   *)

\* DownloadLogs reads the lines only; the others read the row first.
Ask(k, n) ==
  /\ proc = "up" /\ req = NoRequest
  /\ n = 0 \/ k = "logs"
  /\ req' = [pc |-> IF k = "text" THEN "last" ELSE "row", kind |-> k,
             limit |-> IF k = "page" THEN PageLimit ELSE n,
             running |-> FALSE, size |-> 0,
             flushed |-> IF k = "text" THEN flushed ELSE {}]
  /\ UNCHANGED <<proc, restarts, clusterVars, storeVars, handlerVars,
                 streamerVars, samplerVars, history>>

\* GetJobRun: an error or a missing run ends the request.  The page of a
\* running run has no lines: the live log endpoint fills its terminal.
ReadRun ==
  /\ Alive /\ req.pc = "row"
  /\ req' = IF \/ ~StoreOpen \/ ~HasRow
               \/ req.kind = "page" /\ status = "running"
            THEN NoRequest
            ELSE [req EXCEPT !.pc = "last", !.running = (status = "running"),
                             !.size = size, !.flushed = flushed]
  /\ UNCHANGED <<proc, restarts, clusterVars, storeVars, handlerVars,
                 streamerVars, samplerVars, history>>

\* Mutant of LogLinesTail: LIMIT without the descending subquery.
LogLinesHead(n) == IF n = 0 \/ n >= Len(body) THEN body ELSE SubSeq(body, 1, n)

\* GetLogLinesTail: the last lines, oldest first; all of them without a limit.
LogLinesTail(n) == IF n = 0 THEN body ELSE Last(body, n)

\* Mutant of Answer: an empty body of a finished run is called expired.
AnswerGuesses ==
  LET lines == LogLinesTail(req.limit)
  IN  [lines     |-> lines,
       expired   |-> lines = <<>> /\ ~req.running,
       truncated |-> req.limit > 0 /\ Len(lines) = req.limit,
       running   |-> req.running]

\* What the answer says if its last store call, GetLogLinesTail, is made now.
Answer ==
  LET lines == LogLinesTail(req.limit)
  IN  [lines     |-> lines,
       expired   |-> lines = <<>> /\ req.size > 0,
       truncated |-> req.limit > 0 /\ Len(lines) = req.limit,
       running   |-> req.running]

\* The answer is sent.  Once the store is closed the call fails: the log
\* endpoint says so, the page and the download show no lines.
Reply ==
  /\ Alive /\ req.pc = "last"
  /\ req' = NoRequest
  /\ UNCHANGED <<proc, restarts, clusterVars, storeVars, handlerVars,
                 streamerVars, samplerVars, history>>

-----------------------------------------------------------------------------
(* The process: shutdown, crash and restart                                *)

\* SIGTERM: informers and retention end, srv.Shutdown waits for the requests
\* (30 s at most), and the store is closed.  Streamer, sampler and handlers
\* have the background context and are not told.  (Until the close nothing
\* can happen that could not happen before the signal.)
Shutdown ==
  /\ proc = "up"
  /\ proc' = "closing"
  /\ UNCHANGED <<restarts, clusterVars, storeVars, handlerVars, streamerVars,
                 samplerVars, req, history>>

\* main returns, or the process is killed: what it held in memory is gone.
Exit ==
  /\ Alive /\ proc' = "down"
  /\ indexed' = FALSE /\ listed' = FALSE /\ seen' = "none"
  /\ todo' = [h \in Handlers |-> <<>>]
  /\ streaming' = "off" /\ taken' = 0 /\ batch' = 0
  /\ active' = 0 /\ spc' = [g \in Samplers |-> "none"] /\ cancelled' = {}
  /\ lost' = (lost \/ \E g \in Samplers : spc[g] \notin {"none", "done"})
  /\ req' = NoRequest
  /\ UNCHANGED <<restarts, clusterVars, storeVars, events, drawn, flushed,
                 removed>>

\* main: what is still running is marked as failed before informers start.
\* A Job deleted while nobody watched is simply not listed.
Restart ==
  /\ proc = "down" /\ restarts < MaxRestarts
  /\ proc' = "up" /\ restarts' = restarts + 1
  /\ status' = IF status = "running" THEN "failed" ELSE status
  /\ jobGone' \in {jobGone, TRUE}
  /\ UNCHANGED <<profile, phase, written, age, size, usage, body, nextID, samples, handlerVars,
                 streamerVars, samplerVars, req, history>>

-----------------------------------------------------------------------------

Cluster   == PodRuns \/ Write \/ PodEnds \/ GrowOld
Watch     == PodEvent \/ RetryOnAdd \/ JobDeleted \/ JobListed
Retention == DeleteOldLogLines \/ DeleteOldData
Reader    == ReadRun \/ Reply
Process   == Shutdown \/ Exit \/ Restart

Next ==
  \/ Cluster \/ Watch \/ Streamer \/ Retention \/ Reader \/ Process
  \/ \E h \in Handlers : HandlerStep(h)
  \/ \E g \in Samplers : Sampler(g)
  \/ \E k \in profile.asked, n \in Limits : Ask(k, n)

Spec == Init /\ [][Next]_vars

\* Goroutines that can go on do, informers deliver what they have, and main
\* returns once the store is closed; nothing is assumed of the cluster, of
\* readers, or of a signal.
FairSpec ==
  /\ Spec
  /\ WF_vars(PodEvent) /\ WF_vars(proc = "closing" /\ Exit)
  /\ \A h \in Handlers : WF_vars(HandlerStep(h))
  /\ \A g \in Samplers :
       WF_vars(InsertSample(g)) /\ WF_vars(EndSampling(g)) /\ WF_vars(Finalize(g))

-----------------------------------------------------------------------------
(* Properties *)

\* A request of one of these kinds is about to be answered from the store.
Answers(kinds) == req.pc = "last" /\ req.kind \in kinds /\ StoreOpen

\* What may be left of the steps of a handler.
Plans ==
  {<<>>, <<"find">>,
   <<"check", "stream", "start">>, <<"stream", "start">>, <<"start">>,
   <<"close", "check", "stream", "stop">>, <<"check", "stream", "stop">>,
   <<"stream", "stop">>, <<"stop">>,
   <<"check", "close", "stream">>, <<"close", "stream">>, <<"close">>,
   <<"check", "stream">>, <<"stream">>}

Request ==
  [pc : {"row", "last"}, kind : {"logs", "page", "text"}, limit : Nat,
   running : BOOLEAN, size : Nat, flushed : SUBSET Nat]

TypeOK ==
  /\ profile \in Profiles /\ proc \in {"up", "closing", "down"}
  /\ phase \in {"pending", "running", "succeeded", "failed"}
  /\ status \in {"none", "running", "pending", "succeeded", "failed"}
  /\ size \in Nat /\ nextID \in Nat \ {0} /\ batch \in Nat
  /\ body \in Seq(Nat) /\ flushed \in SUBSET Nat
  /\ todo \in [Handlers -> Plans]
  /\ streaming \in {"off", "open", "insert", "size"}
  /\ spc \in [Samplers -> {"none", "select", "insert", "finalize", "done"}]
  /\ {listed, indexed, removed, lost} \subseteq BOOLEAN
  /\ req \in {NoRequest} \cup Request

\* "expired" is said only of a log that was captured and has been removed:
\* flush stores the lines before it adds to the size, and the endpoint reads
\* the size before the lines.
ExpiredIsTrue == Answers({"logs"}) /\ Answer.expired => removed

\* An answer with no lines that is neither "expired" nor "running" claims that
\* the run printed nothing: then no flush of it was complete when the row was
\* read, whatever restarts, reopenings and retention have happened since.
SilenceIsTrue ==
  Answers({"logs"}) /\ Answer.lines = <<>>
    => Answer.expired \/ Answer.running \/ req.flushed = {}

\* Until retention removes lines no endpoint leaves a flushed one out, unless
\* it says that it shows the tail, and then it shows the newest.
NothingLeftOut ==
  Answers({"logs", "page", "text"}) /\ ~removed =>
    LET missing == req.flushed \ Elements(Answer.lines)
    IN  /\ missing # {} => Answer.truncated
        /\ \A l \in missing, k \in Elements(Answer.lines) : l < k

\* Unless a stop of the process has cut a sampler off, the summary leaves out
\* only samples of goroutines that still run: none of an earlier process's, and
\* none of the one the terminal event has ended, although a goroutine that
\* retryOnAdd starts later may sample before, during and after its finalize.
\* (Of that later one no event may be left to stop it; its samples join the
\* summary only if it ends, or with the finalize of a sampler after it.)
UsageIsFinal ==
  HasRow /\ ~lost =>
    \A sample \in samples \ usage : spc[sample[1]] \notin {"none", "done"}

\* The Pod's terminal event ends the sampling it finds: the goroutine then
\* registered computes the summary, or the process stops.
SamplingEnds ==
  \A g \in Samplers :
    active = g /\ "stop" \in Elements(todo["pod"]) ~> spc[g] \in {"done", "none"}

-----------------------------------------------------------------------------
(* The inductive invariant of RunDetails_proofs *)

\* backfillRun, which may insert the run's row anew, is not past its upsert.
Backfilling == todo["job"] # <<>> /\ Head(todo["job"]) # "stream"

\* Until the Job informer has listed, and while it backfills, no one has found
\* the run: nothing is streamed under a row that is about to be inserted.
Unfound ==
  /\ ~indexed /\ streaming = "off"
  /\ todo["pod"] = <<>> /\ todo["retry"] \in {<<>>, <<"find">>}
  /\ proc # "down" => status # "running"

BackfillInv ==
  /\ proc = "down" => ~listed
  /\ ~listed => todo["job"] = <<>>
  /\ ~listed \/ Backfilling => Unfound
  /\ todo["job"] \in {<<>>, OnBackfill, Tail(OnBackfill), <<"close">>, <<"stream">>}

\* Ids are given in order.
BodyInv ==
  /\ \A i \in 1..Len(body) : body[i] < nextID
  /\ \A i, j \in 1..Len(body) : i < j => body[i] < body[j]

\* Of what a flush reports, all lines are stored, unless some were removed.
Kept(ids) == removed \/ ids \subseteq Elements(body)

FlushInv ==
  /\ streaming \in {"insert", "size"} => batch > 0
  /\ streaming = "size" /\ StoreOpen /\ HasRow => batch < nextID /\ Kept(BatchIDs)
  /\ Kept(flushed)
  /\ size = 0 <=> flushed = {}

RequestInv ==
  req.pc = "last" =>
    /\ Kept(req.flushed)
    /\ req.kind # "text" => (req.size = 0 <=> req.flushed = {})

\* Without a row there is nothing that refers to it; every sample has an owner.
RowInv ==
  /\ ~HasRow => size = 0 /\ usage = {} /\ samples = {}
  /\ \A sample \in samples : sample[1] \in Samplers

DetailsInv ==
  /\ TypeOK /\ BackfillInv /\ BodyInv /\ FlushInv /\ RequestInv /\ RowInv
  /\ UsageIsFinal
=============================================================================
