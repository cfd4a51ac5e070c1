-------------------------- MODULE Inventory_proofs --------------------------
(***************************************************************************)
(* Proofs about Inventory: what the retention loop, the soft delete and    *)
(* the foreign keys together guarantee, for any set of CronJobs and runs   *)
(* and any retention periods.                                              *)
(***************************************************************************)
EXTENDS Inventory, SequenceTheorems, TLAPS

\* Every step but the retention loop's only adds rows, or marks them.
LEMMA OtherSteps ==
  ASSUME HistoryInv, [Next]_vars, ~Retention
  PROVE  /\ HistoryInv'
         /\ \A r \in Runs : run[r] # "none" => run'[r] # "none"
         /\ logs \subseteq logs'
         /\ \A x \in CronJobs : row[x] = "deleted" /\ row'[x] = "deleted"
                                  => deletedAt'[x] = deletedAt[x]
<1> USE InventoryAssumption
    DEF HistoryInv, HistoryIsReachable, cluster, process, informer, runTable
<1>1. ASSUME NEW x \in CronJobs, Create(x) \/ Delete(x) \/ Update(x) \/ Watch(x)
      PROVE  UNCHANGED <<row, run, logs, deletedAt, day, ht>>
  BY <1>1 DEF Create, Delete, Update, Watch
<1>2. CASE NextDay
  BY <1>2 DEF NextDay
<1>3. CASE Start \/ List
  BY <1>3 DEF Start, List
<1>4. CASE Crash
  BY <1>4 DEF Crash, IdleHt
<1>5. CASE Handler
  <2>1. ASSUME NEW x \in CronJobs, HandlerUpsert(x)
        PROVE  /\ row' = [row EXCEPT ![x] = "live"] /\ ht'.id = x
               /\ deletedAt' = [deletedAt EXCEPT ![x] = 0]
               /\ UNCHANGED <<run, logs, day>>
    BY <2>1 DEF HandlerUpsert, UpsertCronJob
  <2>2. ASSUME NEW x \in CronJobs, HandlerDelete(x)
        PROVE  MarkDeleted(x) /\ ht'.id = x /\ UNCHANGED <<run, logs, day>>
    BY <2>2 DEF HandlerDelete
  <2>3. CASE HandlerPublish \/ HandlerDrop
    BY <2>3 DEF HandlerPublish, HandlerDrop, IdleHt
  <2> QED
    BY <1>5, <2>1, <2>2, <2>3 DEF Handler, MarkDeleted
<1>6. CASE Reconcile
  <2>1. CASE ReconcileList \/ ReconcileStored \/ ReconcileDrop \/ ReconcileEnd
    BY <2>1 DEF ReconcileList, ReconcileStored, ReconcileDrop, ReconcileEnd
  <2>2. ASSUME NEW x \in CronJobs, ReconcileMark(x)
        PROVE  MarkDeleted(x) /\ UNCHANGED <<run, logs, day, ht>>
    BY <2>2 DEF ReconcileMark
  <2> QED
    BY <1>6, <2>1, <2>2 DEF Reconcile, MarkDeleted
<1>7. ASSUME CollectList \/ CollectSummaries \/ \E x \in CronJobs : CollectOne(x)
      PROVE  UNCHANGED <<row, run, logs, deletedAt, day, ht>>
  BY <1>7 DEF CollectList, CollectSummaries, CollectOne
<1>8. ASSUME NEW r \in Runs, StartRun(r)
      PROVE  /\ run' = [run EXCEPT ![r] = "running"] /\ row[RunOf[r]] # "none"
             /\ UNCHANGED <<row, logs, deletedAt, day, ht>>
  BY <1>8 DEF StartRun
<1>9. ASSUME NEW r \in Runs, LogRun(r)
      PROVE  /\ logs' = logs \cup {r} /\ run[r] # "none"
             /\ UNCHANGED <<row, run, deletedAt, day, ht>>
  BY <1>9 DEF LogRun
<1>10. ASSUME NEW r \in Runs, FinishRun(r)
       PROVE  /\ run' = [run EXCEPT ![r] = "over"] /\ run[r] = "running"
              /\ UNCHANGED <<row, logs, deletedAt, day, ht>>
  BY <1>10 DEF FinishRun
<1>11. CASE UNCHANGED vars
  BY <1>11 DEF vars
<1> QED
  BY <1>1, <1>2, <1>3, <1>4, <1>5, <1>6, <1>7, <1>8, <1>9, <1>10, <1>11
  DEF Next

\* The retention loop: runs and log lines go by their age only; a purge takes
\* no run, and a log line only together with its run.
LEMMA RetentionSteps ==
  ASSUME HistoryInv, Retention
  PROVE  /\ HistoryInv'
         /\ \A r \in Runs : run[r] # "none" /\ run'[r] = "none"
                              => Before(started[r], RetentionDays, day)
         /\ \A r \in logs \ logs' :
              \/ Before(started[r], RetentionDays, day)
              \/ Before(started[r], LogRetentionDays, day)
         /\ UNCHANGED deletedAt
<1> USE InventoryAssumption
    DEF HistoryInv, HistoryIsReachable, cluster, process, informer, runTable
<1>1. CASE DeleteOldLogLines
  BY <1>1 DEF DeleteOldLogLines
<1>2. CASE DeleteOldData
  BY <1>2 DEF DeleteOldData
<1>3. CASE PurgeDeletedCronJobs
  <2>1. \A r \in Runs : Purgeable(RunOf[r]) => run[r] = "none" /\ r \notin logs
    BY DEF Purgeable
  <2>2. run' = run /\ logs' = logs
    BY <1>3, <2>1 DEF PurgeDeletedCronJobs
  <2>3. /\ row' = [x \in CronJobs |-> IF Purgeable(x) THEN "none" ELSE row[x]]
        /\ UNCHANGED <<deletedAt, day, ht>>
    BY <1>3 DEF PurgeDeletedCronJobs
  <2>4. \A r \in Runs : run[r] # "none" => ~Purgeable(RunOf[r])
    BY <2>1
  <2> QED
    BY <2>2, <2>3, <2>4
<1> QED
  BY <1>1, <1>2, <1>3 DEF Retention

\* HistoryInv is inductive.
LEMMA HistoryStep == HistoryInv /\ [Next]_vars => HistoryInv'
  BY OtherSteps, RetentionSteps

\* No run without its CronJob's row and no log line without its run, whatever
\* the order of deletions, restarts, run starts and retention passes.
THEOREM HistoryStaysReachable == Spec => []HistoryIsReachable
<1>1. Init => HistoryInv
  BY DEF Init, HistoryInv, HistoryIsReachable, IdleHt
<1>2. HistoryInv => HistoryIsReachable
  BY DEF HistoryInv
<1> QED
  BY <1>1, <1>2, HistoryStep, PTL DEF Spec

\* Nothing but its age ever removes a run or its log, for any retention
\* periods: in particular the cascade of PurgeDeletedCronJobs never does.
THEOREM HistoryIsKept == Spec => YoungHistorySurvives
<1>1. Init => HistoryInv
  BY DEF Init, HistoryInv, HistoryIsReachable, IdleHt
<1>2. HistoryInv /\ [Next]_vars =>
        \A r \in Runs :
          /\ run[r] # "none" /\ run'[r] = "none"
               => Before(started[r], RetentionDays, day)
          /\ r \in logs \ logs'
               => \/ Before(started[r], RetentionDays, day)
                  \/ Before(started[r], LogRetentionDays, day)
  BY OtherSteps, RetentionSteps
<1> QED
  BY <1>1, <1>2, HistoryStep, PTL DEF Spec, YoungHistorySurvives

\* MarkCronJobDeleted is idempotent in its effect: the purge window of a
\* deleted CronJob never slides.
THEOREM PurgeWindowNeverSlides == Spec => PurgeWindowFixed
<1>1. Init => HistoryInv
  BY DEF Init, HistoryInv, HistoryIsReachable, IdleHt
<1>2. HistoryInv /\ [Next]_vars =>
        \A x \in CronJobs : row[x] = "deleted" /\ row'[x] = "deleted"
                              => deletedAt'[x] = deletedAt[x]
  BY OtherSteps, RetentionSteps
<1> QED
  BY <1>1, <1>2, HistoryStep, PTL DEF Spec, PurgeWindowFixed

-----------------------------------------------------------------------------
(* Type correctness: the handler and Reconcile always know which CronJob   *)
(* they work on (AtWorkInv), so that every series is that of a CronJob.    *)

\* Notifications stay notifications, whatever is added or taken.
LEMMA QueueTypes ==
  ASSUME queue \in [CronJobs -> Seq(Events)], NEW x \in CronJobs
  PROVE  /\ \A e \in Events :
              [queue EXCEPT ![x] = Append(@, e)] \in [CronJobs -> Seq(Events)]
         /\ queue[x] # <<>> =>
              [queue EXCEPT ![x] = Tail(@)] \in [CronJobs -> Seq(Events)]
<1>1. queue[x] \in Seq(Events)
  OBVIOUS
<1>2. \A e \in Events : Append(queue[x], e) \in Seq(Events)
  BY <1>1
<1>3. queue[x] # <<>> => Tail(queue[x]) \in Seq(Events)
  BY <1>1
<1> QED
  BY <1>2, <1>3

\* The goroutines at rest have their types.
LEMMA IdleTypes ==
  /\ IdleHt \in [stage : {"idle", "upserted", "marked"},
                 id : CronJobs \cup {None}]
  /\ IdleRc \in [stage : {"wait", "listed", "marking", "marked", "done"},
                 live : SUBSET CronJobs, todo : SUBSET CronJobs,
                 id : CronJobs \cup {None}]
  /\ IdleRt \in [stage : {"idle", "logs", "runs"}, before : 0..MaxDays]
  /\ IdleHt.stage = "idle" /\ IdleRc.stage = "wait"
  /\ [x \in CronJobs |-> <<>>] \in [CronJobs -> Seq(Events)]
BY InventoryAssumption DEF IdleHt, IdleRc, IdleRt

\* Marking a row keeps its types.
LEMMA MarkTypes ==
  ASSUME TypeOK, NEW x \in CronJobs, MarkDeleted(x)
  PROVE  /\ row' \in [CronJobs -> {"none", "live", "deleted"}]
         /\ deletedAt' \in [CronJobs -> 0..MaxDays]
BY DEF TypeOK, MarkDeleted

\* The cluster, the clock, the process and the informer.
LEMMA WorldTypes ==
  ASSUME TypeOK, AtWorkInv,
         \/ \E x \in CronJobs : Create(x) \/ Delete(x) \/ Update(x) \/ Watch(x)
         \/ NextDay \/ Start \/ Crash \/ List
  PROVE  TypeOK' /\ AtWorkInv'
<1> USE InventoryAssumption
    DEF TypeOK, AtWorkInv, cluster, process, informer, runTable
<1>1. "add" \in Events /\ "update" \in Events /\ "delete" \in Events
  BY DEF Events
<1>2. ASSUME NEW x \in CronJobs, Create(x) \/ Delete(x)
      PROVE  TypeOK' /\ AtWorkInv'
  <2>1. CASE Create(x)
    BY <2>1 DEF Create
  <2>2. CASE Delete(x)
    BY <2>2 DEF Delete
  <2> QED
    BY <1>2, <2>1, <2>2
<1>3. ASSUME NEW x \in CronJobs, Update(x) PROVE TypeOK' /\ AtWorkInv'
  BY <1>1, <1>3, QueueTypes DEF Update
<1>4. ASSUME NEW x \in CronJobs, Watch(x) PROVE TypeOK' /\ AtWorkInv'
  <2>1. \E e \in Events : queue' = [queue EXCEPT ![x] = Append(@, e)]
    BY <1>1, <1>4 DEF Watch
  <2>2. queue' \in [CronJobs -> Seq(Events)]
    BY <2>1, QueueTypes
  <2>3. cache' \subseteq CronJobs
    BY <1>4 DEF Watch
  <2> QED
    BY <1>4, <2>2, <2>3 DEF Watch
<1>5. CASE NextDay
  BY <1>5 DEF NextDay
<1>6. CASE Start
  BY <1>6 DEF Start
<1>7. CASE Crash
  <2>1. /\ ht' = IdleHt /\ rc' = IdleRc /\ rt' = IdleRt
        /\ queue' = [x \in CronJobs |-> <<>>]
    BY <1>7 DEF Crash
  <2>2. /\ ht' \in [stage : {"idle", "upserted", "marked"},
                    id : CronJobs \cup {None}]
        /\ rc' \in [stage : {"wait", "listed", "marking", "marked", "done"},
                    live : SUBSET CronJobs, todo : SUBSET CronJobs,
                    id : CronJobs \cup {None}]
        /\ rt' \in [stage : {"idle", "logs", "runs"}, before : 0..MaxDays]
        /\ queue' \in [CronJobs -> Seq(Events)]
    BY <2>1, IdleTypes
  <2>3. AtWorkInv'
    BY <2>1, IdleTypes
  <2>4. up' \in BOOLEAN /\ synced' \in BOOLEAN
    BY <1>7 DEF Crash
  <2>5. crashes' \in 0..MaxCrashes
    BY <1>7 DEF Crash
  <2>6. UNCHANGED <<cluster, day, row, deletedAt, runTable>>
        /\ cache' = {} /\ series' = NoSeries /\ ct' = IdleCt
    BY <1>7 DEF Crash
  <2>7. /\ NoSeries \in [CronJobs -> SUBSET Gauges]
        /\ IdleCt \in [stage : {"idle", "listed", "publish"},
                       todo : SUBSET CronJobs, over : SUBSET CronJobs]
    BY DEF NoSeries, IdleCt
  <2> QED
    BY <2>2, <2>3, <2>4, <2>5, <2>6, <2>7
<1>8. CASE List
  <2>1. <<"add">> \in Seq(Events) /\ <<>> \in Seq(Events)
    BY <1>1
  <2> QED
    BY <1>8, <2>1 DEF List
<1> QED
  BY <1>2, <1>3, <1>4, <1>5, <1>6, <1>7, <1>8

\* The handler, Reconcile and the collector.
LEMMA InventoryTypes ==
  ASSUME TypeOK, AtWorkInv,
         \/ Handler \/ Reconcile
         \/ CollectList \/ CollectSummaries \/ \E x \in CronJobs : CollectOne(x)
  PROVE  TypeOK' /\ AtWorkInv'
<1> USE InventoryAssumption
    DEF TypeOK, AtWorkInv, cluster, process, informer, runTable
<1>1. ASSUME NEW x \in CronJobs, HandlerUpsert(x)
      PROVE  TypeOK' /\ AtWorkInv'
  BY <1>1, QueueTypes DEF HandlerUpsert, UpsertCronJob
<1>2. ASSUME NEW x \in CronJobs, HandlerDelete(x)
      PROVE  TypeOK' /\ AtWorkInv'
  BY <1>2, QueueTypes, MarkTypes DEF HandlerDelete
<1>3. CASE HandlerPublish \/ HandlerDrop
  <2>1. ht.id \in CronJobs
    BY <1>3 DEF HandlerPublish, HandlerDrop
  <2>2. \E g \in SUBSET Gauges : series' = [series EXCEPT ![ht.id] = g]
    BY <1>3, <2>1 DEF HandlerPublish, HandlerDrop, Gauges
  <2> QED
    BY <1>3, <2>1, <2>2 DEF HandlerPublish, HandlerDrop, IdleHt
<1>4. CASE ReconcileList \/ ReconcileStored
  <2>1. CASE ReconcileList
    BY <2>1 DEF ReconcileList
  <2>2. CASE ReconcileStored
    <3> DEFINE todo == LiveRows \ rc.live
    <3>1. todo \subseteq CronJobs
      BY DEF LiveRows
    <3> HIDE DEF todo
    <3>2. rc' = [rc EXCEPT !.stage = "marking", !.todo = todo]
      BY <2>2 DEF ReconcileStored, todo
    <3> QED
      BY <2>2, <3>1, <3>2 DEF ReconcileStored
  <2> QED
    BY <1>4, <2>1, <2>2
<1>5. ASSUME NEW x \in CronJobs, ReconcileMark(x)
      PROVE  TypeOK' /\ AtWorkInv'
  BY <1>5, MarkTypes DEF ReconcileMark
<1>6. CASE ReconcileDrop \/ ReconcileEnd
  <2>1. CASE ReconcileDrop
    <3>1. series' = [series EXCEPT ![rc.id] = {}]
      BY <2>1 DEF ReconcileDrop
    <3> QED
      BY <2>1, <3>1 DEF ReconcileDrop
  <2>2. CASE ReconcileEnd
    BY <2>2 DEF ReconcileEnd, IdleRc
  <2> QED
    BY <1>6, <2>1, <2>2
<1>7. CASE CollectList \/ CollectSummaries \/ \E x \in CronJobs : CollectOne(x)
  <2>1. CASE CollectList
    BY <2>1 DEF CollectList, LiveRows
  <2>2. CASE CollectSummaries
    <3>1. PICK over \in SUBSET (ct.todo \cap LiveRows) :
            ct' = [ct EXCEPT !.stage = "publish", !.over = over]
      BY <2>2 DEF CollectSummaries
    <3>2. over \subseteq CronJobs
      BY <3>1
    <3> QED
      BY <2>2, <3>1, <3>2 DEF CollectSummaries
  <2>3. ASSUME NEW x \in CronJobs, CollectOne(x)
        PROVE  TypeOK' /\ AtWorkInv'
    <3> DEFINE new == series[x] \cup {"settings", "activity"}
                        \cup IF x \in ct.over THEN {"outcome"} ELSE {}
    <3>1. new \subseteq Gauges
      BY DEF Gauges
    <3> HIDE DEF new
    <3>2. series' = [series EXCEPT ![x] = new]
      BY <2>3 DEF CollectOne, new
    <3>3. ct' \in [stage : {"idle", "listed", "publish"},
                   todo : SUBSET CronJobs, over : SUBSET CronJobs]
      BY <2>3 DEF CollectOne, Published, IdleCt
    <3> QED
      BY <2>3, <3>1, <3>2, <3>3 DEF CollectOne
  <2> QED
    BY <1>7, <2>1, <2>2, <2>3
<1> QED
  BY <1>1, <1>2, <1>3, <1>4, <1>5, <1>6, <1>7 DEF Handler, Reconcile

\* Runs and retention.
LEMMA HistoryTypes ==
  ASSUME TypeOK, AtWorkInv,
         \/ \E r \in Runs : StartRun(r) \/ LogRun(r) \/ FinishRun(r)
         \/ Retention
  PROVE  TypeOK' /\ AtWorkInv'
<1> USE InventoryAssumption
    DEF TypeOK, AtWorkInv, cluster, process, informer, runTable
<1>1. ASSUME NEW r \in Runs, StartRun(r) PROVE TypeOK' /\ AtWorkInv'
  BY <1>1 DEF StartRun
<1>2. ASSUME NEW r \in Runs, LogRun(r) PROVE TypeOK' /\ AtWorkInv'
  BY <1>2 DEF LogRun
<1>3. ASSUME NEW r \in Runs, FinishRun(r) PROVE TypeOK' /\ AtWorkInv'
  <2>1. RunOf[r] \in CronJobs
    OBVIOUS
  <2>2. \E g \in SUBSET Gauges : series' = [series EXCEPT ![RunOf[r]] = g]
    BY <1>3, <2>1 DEF FinishRun, Gauges
  <2> QED
    BY <1>3, <2>1, <2>2 DEF FinishRun
<1>4. CASE DeleteOldLogLines \/ DeleteOldData
  BY <1>4 DEF DeleteOldLogLines, DeleteOldData
<1>5. CASE PurgeDeletedCronJobs
  BY <1>5 DEF PurgeDeletedCronJobs, IdleRt
<1> QED
  BY <1>1, <1>2, <1>3, <1>4, <1>5 DEF Retention

\* The types, with what makes them inductive.
LEMMA TypesHold == Spec => [](TypeOK /\ AtWorkInv)
<1>1. Init => TypeOK /\ AtWorkInv
  <2> SUFFICES ASSUME Init PROVE TypeOK /\ AtWorkInv
    OBVIOUS
  <2>1. /\ ht = IdleHt /\ rc = IdleRc /\ rt = IdleRt
        /\ queue = [x \in CronJobs |-> <<>>]
    BY DEF Init
  <2>2. AtWorkInv
    BY <2>1, IdleTypes DEF AtWorkInv
  <2>3. up \in BOOLEAN /\ synced \in BOOLEAN
    BY DEF Init
  <2>4. /\ exists \subseteq CronJobs /\ changes \in 0..MaxChanges
        /\ day \in 0..MaxDays /\ crashes \in 0..MaxCrashes
        /\ cache \subseteq CronJobs /\ logs \subseteq Runs
        /\ ct \in [stage : {"idle", "listed", "publish"},
                   todo : SUBSET CronJobs, over : SUBSET CronJobs]
        /\ series \in [CronJobs -> SUBSET Gauges]
    BY InventoryAssumption DEF Init, NoSeries, IdleCt
  <2>5. /\ row \in [CronJobs -> {"none", "live", "deleted"}]
        /\ deletedAt \in [CronJobs -> 0..MaxDays]
        /\ run \in [Runs -> {"none", "running", "over"}]
        /\ started \in [Runs -> 0..MaxDays]
    BY InventoryAssumption DEF Init
  <2> QED
    BY <2>1, <2>2, <2>3, <2>4, <2>5, IdleTypes DEF TypeOK
<1>2. TypeOK /\ AtWorkInv /\ [Next]_vars => TypeOK' /\ AtWorkInv'
  <2>1. ASSUME TypeOK, AtWorkInv, UNCHANGED vars PROVE TypeOK' /\ AtWorkInv'
    BY <2>1 DEF vars, cluster, process, informer, runTable, TypeOK, AtWorkInv
  <2> QED
    BY <2>1, WorldTypes, InventoryTypes, HistoryTypes DEF Next
<1> QED
  BY <1>1, <1>2, PTL DEF Spec

\* Every variable keeps its type: in particular no gauge is published, and no
\* row marked, for a goroutine that has no CronJob in hand.
THEOREM TypeCorrect == Spec => []TypeOK
  BY TypesHold, PTL

-----------------------------------------------------------------------------
(* No CronJob that is gone stays in the listing.                           *)

GhostFree == TypeOK /\ AtWorkInv /\ NewsInv /\ GhostInv

listing == <<informer, row, rc>>

\* What is appended comes last, and what remains when the first is taken ends
\* as before.
LEMMA LastOfQueue ==
  ASSUME NEW q \in Seq(Events)
  PROVE  /\ \A e \in Events : /\ Append(q, e) # <<>>
                             /\ Append(q, e)[Len(Append(q, e))] = e
         /\ q # <<>> /\ Tail(q) # <<>> => Tail(q)[Len(Tail(q))] = q[Len(q)]
         /\ q # <<>> /\ Tail(q) = <<>> => Head(q) = q[Len(q)]
<1>1. ASSUME NEW e \in Events
      PROVE  Append(q, e) # <<>> /\ Append(q, e)[Len(Append(q, e))] = e
  <2>1. Len(Append(q, e)) = Len(q) + 1 /\ Append(q, e)[Len(q) + 1] = e
    OBVIOUS
  <2> QED
    BY <2>1
<1>2. ASSUME q # <<>>
      PROVE  /\ Tail(q) # <<>> => Tail(q)[Len(Tail(q))] = q[Len(q)]
             /\ Tail(q) = <<>> => Head(q) = q[Len(q)]
  <2> DEFINE t == Tail(q)
  <2>1. /\ t \in Seq(Events) /\ Len(t) = Len(q) - 1 /\ Head(q) = q[1]
        /\ \A i \in 1..Len(t) : t[i] = q[i + 1]
    BY <1>2, HeadTailProperties
  <2>2. Len(q) \in Nat
    OBVIOUS
  <2> HIDE DEF t
  <2>3. t = <<>> => Head(q) = q[Len(q)]
    <3>1. t = <<>> => Len(t) = 0
      BY EmptySeq, Zenon
    <3>2. \A n, m \in Nat : n = m - 1 /\ n = 0 => m = 1
      OBVIOUS
    <3>3. t = <<>> => Len(q) = 1
      BY <2>1, <2>2, <3>1, <3>2, Zenon
    <3> QED
      BY <2>1, <3>3, Zenon
  <2>4. ASSUME t # <<>> PROVE t[Len(t)] = q[Len(q)]
    <3>1. Len(t) \in Nat \ {0}
      BY <2>1, <2>4, EmptySeq, Zenon
    <3>2. Len(t) \in 1..Len(t) /\ Len(t) + 1 = Len(q)
      BY <2>1, <2>2, <3>1
    <3>3. t[Len(t)] = q[Len(t) + 1]
      BY <2>1, <3>2, Zenon
    <3> QED
      BY <3>2, <3>3
  <2> QED
    BY <2>3, <2>4 DEF t
<1> QED
  BY <1>1, <1>2

\* The cluster and the informer: a CronJob that leaves the store is notified.
LEMMA InformerGhosts ==
  ASSUME GhostFree, NEW y \in CronJobs, Update(y) \/ Watch(y)
  PROVE  NewsInv' /\ GhostInv'
<1> USE DEF GhostFree, informer
<1>1. PICK e \in Events :
        /\ queue' = [queue EXCEPT ![y] = Append(@, e)]
        /\ e = "delete" <=> y \notin cache'
        /\ \A x \in CronJobs \ {y} : x \in cache' <=> x \in cache
        /\ synced /\ UNCHANGED <<synced, row, rc>>
  BY DEF Update, Watch, Events, TypeOK
<1>2. \A x \in CronJobs : queue[x] \in Seq(Events)
  BY DEF TypeOK
<1>3. /\ queue'[y] # <<>> /\ queue'[y][Len(queue'[y])] = e
      /\ \A x \in CronJobs \ {y} : queue'[x] = queue[x]
  <2>1. /\ queue'[y] = Append(queue[y], e)
        /\ \A x \in CronJobs \ {y} : queue'[x] = queue[x]
    BY <1>1 DEF TypeOK
  <2> QED
    BY <1>2, <2>1, LastOfQueue
<1>4. NewsInv'
  BY <1>1, <1>3 DEF NewsInv
<1>5. GhostInv'
  BY <1>1, <1>3 DEF GhostInv, IsLeft, LiveRows
<1> QED
  BY <1>4, <1>5

\* The process: a new informer is followed by a new Reconcile.
LEMMA RestartGhosts ==
  ASSUME GhostFree, Crash \/ List
  PROVE  NewsInv' /\ GhostInv'
<1> USE DEF GhostFree, informer
<1>1. CASE Crash
  BY <1>1 DEF Crash, NewsInv, GhostInv, IdleRc
<1>2. CASE List
  <2>1. /\ synced' = TRUE /\ cache' = exists /\ rc' = rc /\ rc.stage = "wait"
        /\ \A x \in CronJobs :
             queue'[x] = IF x \in exists THEN <<"add">> ELSE <<>>
    BY <1>2 DEF List, NewsInv
  <2>2. <<"add">> # <<>> /\ <<"add">>[Len(<<"add">>)] # "delete"
    OBVIOUS
  <2>3. NewsInv'
    BY <2>1, <2>2 DEF NewsInv
  <2> QED
    BY <2>1, <2>3 DEF GhostInv, IsLeft
<1> QED
  BY <1>1, <1>2

\* The handler: it lists a CronJob on an event that is followed by another, or
\* the CronJob is there.
LEMMA HandlerGhosts ==
  ASSUME GhostFree, NEW y \in CronJobs, HandlerUpsert(y) \/ HandlerDelete(y)
  PROVE  NewsInv' /\ GhostInv'
<1> USE DEF GhostFree, informer
<1>1. /\ queue[y] # <<>> /\ queue' = [queue EXCEPT ![y] = Tail(@)]
      /\ UNCHANGED <<synced, cache, rc>>
  BY DEF HandlerUpsert, HandlerDelete
<1>2. \A x \in CronJobs : queue[x] \in Seq(Events)
  BY DEF TypeOK
<1>3. /\ queue'[y] = Tail(queue[y])
      /\ \A x \in CronJobs \ {y} : queue'[x] = queue[x]
  BY <1>1 DEF TypeOK
<1>4. /\ queue'[y] # <<>> => queue'[y][Len(queue'[y])] = queue[y][Len(queue[y])]
      /\ queue'[y] = <<>> => Head(queue[y]) = queue[y][Len(queue[y])]
  BY <1>1, <1>2, <1>3, LastOfQueue
<1>5. NewsInv'
  BY <1>1, <1>3, <1>4 DEF NewsInv
<1>6. \A x \in CronJobs \ {y} : row'[x] = row[x]
  BY DEF HandlerUpsert, HandlerDelete, UpsertCronJob, MarkDeleted, TypeOK
<1>7. row'[y] = "live" /\ queue'[y] = <<>> => y \in cache
  <2>1. CASE HandlerUpsert(y)
    BY <1>1, <1>4, <2>1 DEF HandlerUpsert, NewsInv
  <2>2. CASE HandlerDelete(y)
    BY <2>2 DEF HandlerDelete, MarkDeleted, TypeOK
  <2> QED
    BY <2>1, <2>2
<1>8. GhostInv'
  BY <1>1, <1>3, <1>6, <1>7 DEF GhostInv, IsLeft, LiveRows
<1> QED
  BY <1>5, <1>8

\* Reconcile: it marks what was gone from the informer's list and is listed in
\* the store; whatever goes later is notified.
LEMMA ReconcileGhosts ==
  ASSUME GhostFree, Reconcile
  PROVE  NewsInv' /\ GhostInv'
<1> USE DEF GhostFree, informer
<1>1. UNCHANGED <<synced, cache, queue>>
  <2>1. ASSUME NEW y \in CronJobs, ReconcileMark(y)
        PROVE  UNCHANGED <<synced, cache, queue>>
    BY <2>1 DEF ReconcileMark
  <2> QED
    BY <2>1 DEF Reconcile, ReconcileList, ReconcileStored, ReconcileDrop,
                ReconcileEnd
<1>2. synced /\ NewsInv'
  <2>1. rc.stage = "wait" => synced
    BY DEF Reconcile, ReconcileList, ReconcileStored, ReconcileDrop,
           ReconcileEnd, ReconcileMark
  <2>2. synced
    BY <2>1 DEF NewsInv
  <2> QED
    BY <1>1, <2>2 DEF NewsInv
<1>3. CASE ReconcileList
  BY <1>1, <1>2, <1>3 DEF ReconcileList, GhostInv, IsLeft, LiveRows, TypeOK
<1>4. CASE ReconcileStored
  <2>1. /\ rc.stage = "listed" /\ row' = row
        /\ rc'.stage = "marking" /\ rc'.todo = LiveRows \ rc.live
    BY <1>4 DEF ReconcileStored, TypeOK
  <2> QED
    BY <1>1, <1>2, <2>1 DEF GhostInv, IsLeft, LiveRows
<1>5. CASE ReconcileDrop
  BY <1>1, <1>2, <1>5 DEF ReconcileDrop, GhostInv, IsLeft, LiveRows, TypeOK
<1>6. CASE ReconcileEnd
  BY <1>1, <1>2, <1>6 DEF ReconcileEnd, GhostInv, IsLeft, LiveRows, TypeOK
<1>7. ASSUME NEW y \in CronJobs, ReconcileMark(y) PROVE GhostInv'
  <2>1. /\ row'[y] # "live" /\ \A x \in CronJobs \ {y} : row'[x] = row[x]
        /\ rc.stage = "marking" /\ rc'.stage = "marked"
        /\ rc'.todo = rc.todo \ {y}
    BY <1>7 DEF ReconcileMark, MarkDeleted, TypeOK
  <2> QED
    BY <1>1, <1>2, <2>1 DEF GhostInv, IsLeft, LiveRows
<1> QED
  BY <1>2, <1>3, <1>4, <1>5, <1>6, <1>7 DEF Reconcile

\* Nobody else lists a CronJob or touches the notifications.
LEMMA OtherGhosts ==
  ASSUME GhostFree,
         \/ \E x \in CronJobs : Create(x) \/ Delete(x)
         \/ NextDay \/ Start \/ HandlerPublish \/ HandlerDrop
         \/ CollectList \/ CollectSummaries \/ \E x \in CronJobs : CollectOne(x)
         \/ \E r \in Runs : StartRun(r) \/ LogRun(r) \/ FinishRun(r)
         \/ Retention
         \/ UNCHANGED vars
  PROVE  NewsInv' /\ GhostInv'
<1>1. UNCHANGED <<informer, rc>> /\ LiveRows' \subseteq LiveRows
  <2>1. CASE Retention
    <3>1. CASE PurgeDeletedCronJobs
      BY <3>1 DEF PurgeDeletedCronJobs, LiveRows
    <3> QED
      BY <2>1, <3>1
         DEF Retention, DeleteOldLogLines, DeleteOldData, LiveRows
  <2>2. CASE ~Retention
    <3>1. UNCHANGED listing
      BY <2>2 DEF Create, Delete, NextDay, Start, HandlerPublish, HandlerDrop,
                  CollectList, CollectSummaries, CollectOne, StartRun, LogRun, FinishRun, vars,
                  listing
    <3> QED
      BY <3>1 DEF listing, LiveRows
  <2> QED
    BY <2>1, <2>2
<1> QED
  BY <1>1 DEF GhostFree, NewsInv, GhostInv, IsLeft, informer

\* After Reconcile a CronJob is listed though gone only while its deletion is on
\* the way to the handler, whatever happened while the process was down, during
\* a watch gap or between the two lists Reconcile compares.
THEOREM GhostsLeave == Spec => []NoGhost
<1>1. Init => NewsInv /\ GhostInv
  BY DEF Init, NewsInv, GhostInv, IdleRc
<1>2. TypeOK /\ AtWorkInv /\ NewsInv /\ GhostInv /\ [Next]_vars
        => NewsInv' /\ GhostInv'
  BY InformerGhosts, RestartGhosts, HandlerGhosts, ReconcileGhosts, OtherGhosts
     DEF GhostFree, Next, Handler
<1>3. TypeOK /\ NewsInv /\ GhostInv => NoGhost
  <2> SUFFICES ASSUME TypeOK, NewsInv, GhostInv, rc.stage = "done",
                      NEW x \in LiveRows \ cache
               PROVE  queue[x] # <<>> /\ queue[x][Len(queue[x])] = "delete"
    BY DEF NoGhost
  <2>1. synced /\ x \in CronJobs /\ ~IsLeft(x)
    BY DEF NewsInv, IsLeft, LiveRows
  <2> QED
    BY <2>1 DEF NewsInv, GhostInv
<1> QED
  BY <1>1, <1>2, <1>3, TypesHold, PTL DEF Spec
=============================================================================
