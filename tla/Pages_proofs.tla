---------------------------- MODULE Pages_proofs ----------------------------
(***************************************************************************)
(* Proofs about what is read from the store in several calls while it is   *)
(* written: the CronJob tables with their tiles (Overview), and the pages  *)
(* of a run history (RunPages).                                            *)
(***************************************************************************)
EXTENDS Overview, RunPages, FiniteSetTheorems, TLAPS

-----------------------------------------------------------------------------
(* The tables and the tiles                                                *)

\* A run of a set of runs is counted.
LEMMA TallyCounts ==
  ASSUME NEW S \in SUBSET Runs
  PROVE  /\ Tally(S) \in Counts
         /\ \A r \in S : /\ Tally(S).total >= 1
                         /\ status[r] = "succeeded" => Tally(S).succeeded >= 1
                         /\ status[r] = "failed" => Tally(S).failed >= 1
<1>1. ASSUME NEW T \in SUBSET S
      PROVE  /\ Cardinality(T) \in Nat
             /\ T # {} => Cardinality(T) >= 1
  <2>1. IsFiniteSet(T)
    BY OverviewAssumption, FS_Subset
  <2>2. Cardinality(T) \in Nat /\ (Cardinality(T) = 0 <=> T = {})
    BY <2>1, FS_CardinalityType, FS_EmptySet
  <2> QED
    BY <2>2
<1> DEFINE good == {r \in S : status[r] = "succeeded"}
           bad  == {r \in S : status[r] = "failed"}
<1>2. Tally(S) = [total |-> Cardinality(S), succeeded |-> Cardinality(good),
                  failed |-> Cardinality(bad)]
  BY DEF Tally
<1>3. S \in SUBSET S /\ good \in SUBSET S /\ bad \in SUBSET S
  OBVIOUS
<1>4. Tally(S) \in Counts
  BY <1>1, <1>2, <1>3 DEF Counts
<1>5. ASSUME NEW r \in S
      PROVE  /\ Tally(S).total >= 1
             /\ status[r] = "succeeded" => Tally(S).succeeded >= 1
             /\ status[r] = "failed" => Tally(S).failed >= 1
  <2>1. S # {}
    OBVIOUS
  <2>2. status[r] = "succeeded" => good # {}
    OBVIOUS
  <2>3. status[r] = "failed" => bad # {}
    OBVIOUS
  <2> HIDE DEF good, bad
  <2> QED
    BY <1>1, <1>2, <1>3, <2>1, <2>2, <2>3
<1> QED
  BY <1>4, <1>5

\* What the clock, the watcher and retention may do to what a reader has seen.
LEMMA WriterSteps ==
  ASSUME StoreInv, Tick \/ Watcher
  PROVE  /\ reader' = reader /\ clock' \in {clock, clock + 1}
         /\ clock' # clock /\ reader # Idle => clock - reader.since < RenderTime
         /\ StoreInv'
         /\ revised \subseteq revised'
         /\ \A x \in CronJobs :
              row'[x] = "live" => \/ row[x] = "live" /\ born'[x] = born[x]
                                  \/ born'[x] = clock
         /\ reader # Idle => \A r \in Runs \ revised' :
              /\ started[r] # Never => started'[r] = started[r]
              /\ started[r] = Never /\ started'[r] # Never =>
                   clock' = clock /\ started'[r] + Delay >= clock
              /\ status[r] = "none" /\ status'[r] # "none" => started[r] = Never
              /\ status'[r] # "none" /\ Over(status[r])
                   => status'[r] = status[r]
<1> USE OverviewAssumption
<1>1. CASE Tick
  BY <1>1 DEF Tick, StoreInv, store, inventory, runTable
<1>2. ASSUME NEW x \in CronJobs, NEW s \in BOOLEAN, UpsertCronJob(x, s)
      PROVE  /\ UNCHANGED <<clock, status, started, revised, reader>>
             /\ row' = [row EXCEPT ![x] = "live"]
             /\ born' = IF row[x] = "live" THEN born
                        ELSE [born EXCEPT ![x] = clock]
  BY <1>2 DEF UpsertCronJob, runTable
<1>3. ASSUME NEW x \in CronJobs, MarkCronJobDeleted(x)
      PROVE  /\ UNCHANGED <<clock, status, started, revised, reader, born>>
             /\ row' = [row EXCEPT ![x] = "deleted"]
  BY <1>3 DEF MarkCronJobDeleted, runTable
<1>4. ASSUME NEW r \in Runs, RunStarts(r)
      PROVE  /\ UNCHANGED <<clock, row, born, revised, reader>>
             /\ started[r] = Never /\ status[r] = "none"
             /\ \E t \in (clock - Delay)..clock :
                  started' = [started EXCEPT ![r] = t]
             /\ status' = [status EXCEPT ![r] = "running"]
  BY <1>4 DEF RunStarts, inventory
<1>5. ASSUME NEW r \in Runs, RunEnds(r)
      PROVE  /\ UNCHANGED <<clock, row, born, started, revised, reader>>
             /\ status[r] = "running"
             /\ \E s \in {"succeeded", "failed"} :
                  status' = [status EXCEPT ![r] = s]
  BY <1>5 DEF RunEnds, inventory
<1>6. ASSUME NEW r \in Runs, RunIsRevised(r)
      PROVE  /\ UNCHANGED <<clock, row, born, reader>>
             /\ started[r] # Never
             /\ \E s \in Statuses, t \in (started[r] - Delay)..clock :
                  /\ status' = [status EXCEPT ![r] = s]
                  /\ started' = [started EXCEPT ![r] = t]
             /\ revised' = IF reader = Idle THEN revised ELSE revised \cup {r}
  BY <1>6 DEF RunIsRevised, inventory
<1>7. CASE DeleteOldData
  <2>1. /\ UNCHANGED <<clock, row, born, started, revised, reader>>
        /\ status' = [r \in Runs |-> IF Expired(r) THEN "none" ELSE status[r]]
    BY <1>7 DEF DeleteOldData, inventory
  <2> QED
    BY <2>1 DEF StoreInv, Expired, Over
<1>8. CASE \E x \in CronJobs : \/ \E s \in BOOLEAN : UpsertCronJob(x, s)
                               \/ MarkCronJobDeleted(x)
  BY <1>2, <1>3, <1>8 DEF StoreInv
<1>9. CASE \E r \in Runs : RunStarts(r)
  <2>1. PICK r \in Runs : RunStarts(r)
    BY <1>9
  <2>2. PICK t \in (clock - Delay)..clock : started' = [started EXCEPT ![r] = t]
    BY <1>4, <2>1
  <2>3. t \in Int /\ t + Delay >= clock /\ t # Never
    BY <2>2 DEF StoreInv
  <2> QED
    BY <1>4, <2>1, <2>2, <2>3 DEF StoreInv, Statuses, Over
<1>10. CASE \E r \in Runs : RunEnds(r)
  BY <1>5, <1>10 DEF StoreInv, Statuses, Over
<1>11. CASE \E r \in Runs : RunIsRevised(r)
  <2>1. PICK r \in Runs : RunIsRevised(r)
    BY <1>11
  <2>2. PICK s \in Statuses, t \in (started[r] - Delay)..clock :
          /\ status' = [status EXCEPT ![r] = s]
          /\ started' = [started EXCEPT ![r] = t]
    BY <1>6, <2>1
  <2>3. /\ started[r] \in Int /\ clock \in Int /\ Delay \in Int
        /\ s # "none"
    BY <1>6, <2>1 DEF StoreInv, Statuses
  <2>4. t \in Int /\ t # Never
    BY <2>2, <2>3
  <2>5. StoreInv'
    BY <1>6, <2>1, <2>2, <2>3, <2>4 DEF StoreInv
  <2>6. \A q \in Runs : q # r => started'[q] = started[q] /\ status'[q] = status[q]
    BY <2>2 DEF StoreInv
  <2> QED
    BY <1>6, <2>1, <2>5, <2>6
<1> QED
  BY <1>1, <1>7, <1>8, <1>9, <1>10, <1>11 DEF Watcher

\* A request in progress is not disturbed.
LEMMA WriterKeepsReader ==
  ASSUME OverviewInv, Tick \/ Watcher
  PROVE  ReaderInv' /\ (Window <= Retention => RowIsCoherent')
<1> SUFFICES ASSUME reader # Idle
             PROVE  /\ RequestOK' /\ ProgressInv'
                    /\ \A x \in CronJobs : LastInv(x)' /\ NewsInv(x)'
                    /\ Window <= Retention => RowIsCoherent'
  <2>1. reader' = reader
    BY WriterSteps DEF OverviewInv
  <2> QED
    BY <2>1 DEF ReaderInv, RowIsCoherent
<1>1. /\ StoreInv /\ RequestOK /\ ProgressInv
      /\ \A x \in CronJobs : LastInv(x) /\ NewsInv(x)
      /\ Window <= Retention => RowIsCoherent
  BY DEF OverviewInv, ReaderInv
<1>2. /\ reader' = reader /\ clock' \in {clock, clock + 1}
      /\ clock' # clock => clock - reader.since < RenderTime
      /\ StoreInv' /\ revised \subseteq revised'
      /\ \A x \in CronJobs :
           row'[x] = "live" => \/ row[x] = "live" /\ born'[x] = born[x]
                               \/ born'[x] = clock
      /\ \A r \in Runs :
           r \notin revised' =>
             /\ started[r] # Never => started'[r] = started[r]
             /\ started[r] = Never /\ started'[r] # Never =>
                  started'[r] + Delay >= clock
             /\ status[r] = "none" /\ status'[r] # "none" => started[r] = Never
             /\ status'[r] # "none" /\ Over(status[r])
                  => status'[r] = status[r]
  BY <1>1, WriterSteps
<1>3. /\ clock \in Nat /\ clock' \in Nat /\ clock <= clock'
      /\ reader.since \in Nat /\ reader.at \in Nat /\ reader.since <= clock
      /\ RenderTime \in Nat /\ Delay \in Nat /\ Window \in Nat
      /\ \A r \in Runs : started[r] \in Int \cup {Never}
                         /\ started'[r] \in Int \cup {Never}
      /\ \A x \in CronJobs : reader.last[x] # None =>
           /\ reader.last[x].run \in Runs /\ reader.last[x].started \in Int
      /\ Never \notin Int
  BY <1>1, <1>2, OverviewAssumption
     DEF StoreInv, RequestOK, ProgressInv, Summaries
<1>4. RequestOK'
  BY <1>1, <1>2 DEF RequestOK
<1>5. ProgressInv'
  <2>1. reader'.since <= clock' /\ clock' - reader'.since <= RenderTime
    BY <1>1, <1>2, <1>3 DEF ProgressInv
  <2>2. Missed(reader.at)' = Missed(reader.at)
    BY <1>2 DEF Missed
  <2>3. reader.at <= clock => reader.at <= clock'
    BY <1>3
  <2> QED
    BY <1>1, <1>2, <2>1, <2>2, <2>3 DEF ProgressInv
<1>6. ASSUME NEW x \in CronJobs PROVE LastInv(x)'
  <2> SUFFICES ASSUME reader.last[x] # None
               PROVE  LastInv(x)'
    BY <1>2 DEF LastInv
  <2> DEFINE last == reader.last[x]
  <2>1. /\ RunOf[last.run] = x /\ last.run \in Runs
        /\ last.started \in Int
        /\ last.run \notin revised =>
             /\ started[last.run] = last.started
             /\ status[last.run] # "none" /\ Over(last.status)
                  => status[last.run] = last.status
    BY <1>1, <1>3 DEF LastInv
  <2>2. ASSUME last.run \notin revised'
        PROVE  /\ started'[last.run] = last.started
               /\ status'[last.run] # "none" /\ Over(last.status)
                    => status'[last.run] = last.status
    <3>1. /\ last.run \notin revised /\ started[last.run] = last.started
          /\ started[last.run] # Never
      BY <1>2, <1>3, <2>1, <2>2
    <3> QED
      BY <1>2, <2>1, <2>2, <3>1
  <2> QED
    BY <1>2, <2>1, <2>2 DEF LastInv
<1>7. ASSUME NEW x \in CronJobs PROVE NewsInv(x)'
  <2>1. ASSUME reader.pc \notin {"list", "ids"}, x \notin reader.ids,
               row'[x] = "live", born'[x] < reader.since,
               reader.last[x] = None,
               NEW r \in Runs \ revised', RunOf[r] = x, status'[r] # "none"
        PROVE  started'[r] + Delay >= reader.since
    <3>1. row[x] = "live" /\ born[x] < reader.since
      BY <1>2, <1>3, <2>1
    <3>2. status[r] # "none" => started[r] + Delay >= reader.since
      BY <1>1, <1>2, <2>1, <3>1 DEF NewsInv, IsNews, RunsOf
    <3>3. status[r] # "none" => started[r] # Never
      BY <1>1 DEF StoreInv
    <3>4. started'[r] # Never
      BY <1>2, <2>1 DEF StoreInv
    <3> QED
      BY <1>2, <1>3, <2>1, <3>2, <3>3, <3>4
  <2>2. ASSUME reader.last[x] # None, NEW r \in Runs \ revised',
               RunOf[r] = x, started'[r] # Never,
               clock' - started'[r] <= Retention
        PROVE  \/ started'[r] <= reader.last[x].started
               \/ started'[r] + Delay >= reader.since
    <3>1. CASE started[r] # Never
      <4>1. /\ r \notin revised /\ started'[r] = started[r]
            /\ started[r] \in Int /\ Retention \in Nat
        BY <1>2, <1>3, <2>2, <3>1, OverviewAssumption
      <4>2. clock - started[r] <= Retention
        BY <1>3, <2>2, <4>1
      <4> QED
        BY <1>1, <2>2, <3>1, <4>1, <4>2 DEF NewsInv, IsNews
    <3>2. CASE started[r] = Never
      BY <1>2, <1>3, <2>2, <3>2
    <3> QED
      BY <3>1, <3>2
  <2> QED
    BY <1>2, <2>1, <2>2 DEF NewsInv, IsNews, RunsOf
<1>8. ASSUME Window <= Retention PROVE RowIsCoherent'
  <2>1. \A x \in CronJobs : reader.last[x] # None =>
          (reader.last[x].started > clock' - Window
             => reader.last[x].started > clock - Window)
    BY <1>3
  <2> QED
    BY <1>1, <1>2, <1>8, <2>1 DEF RowIsCoherent, Counted
<1> QED
  BY <1>4, <1>5, <1>6, <1>7, <1>8

\* The store calls of a request write nothing.
LEMMA ReaderKeepsStore == ASSUME StoreInv, StoreKeeps PROVE StoreInv'
BY DEF StoreInv, StoreKeeps, store, inventory, runTable

\* What a step that reads no summary leaves of the invariant.
LEMMA SameSummaries ==
  ASSUME OverviewInv, reader # Idle, OnlyReads,
         reader'.since = reader.since, reader'.last = reader.last,
         reader'.stats = reader.stats, reader'.ids = reader.ids,
         reader.pc \in {"list", "ids"} => reader'.pc \in {"list", "ids"}
  PROVE  /\ \A x \in CronJobs : LastInv(x)' /\ NewsInv(x)'
         /\ Window <= Retention => RowIsCoherent'
<1>1. /\ \A x \in CronJobs : LastInv(x) /\ NewsInv(x)
      /\ Window <= Retention => RowIsCoherent
  BY DEF OverviewInv, ReaderInv
<1>2. UNCHANGED <<clock, row, born, status, started, revised>>
  BY DEF OnlyReads, StoreKeeps, store, inventory, runTable
<1>3. ASSUME NEW x \in CronJobs PROVE LastInv(x)'
  BY <1>1, <1>2 DEF LastInv
<1>4. ASSUME NEW x \in CronJobs PROVE NewsInv(x)'
  <2>1. RunsOf(x)' = RunsOf(x) /\ \A r : IsNews(r)' = IsNews(r)
    BY <1>2 DEF RunsOf, IsNews
  <2> QED
    BY <1>1, <1>2, <2>1 DEF NewsInv
<1>5. Window <= Retention => RowIsCoherent'
  BY <1>1, <1>2 DEF RowIsCoherent, Counted
<1> QED
  BY <1>3, <1>4, <1>5

\* A request begins, and ends, with nothing known.
LEMMA BeginStep == ASSUME OverviewInv, Begin PROVE OverviewInv'
<1>1. reader' = NewRequest /\ StoreKeeps /\ clock' = clock
  BY DEF Begin, OnlyReads, StoreKeeps
<1>2. StoreInv' /\ clock \in Nat /\ RenderTime \in Nat
  BY <1>1, ReaderKeepsStore, OverviewAssumption DEF OverviewInv, StoreInv
<1>3. /\ reader'.pc = "list" /\ reader'.since = clock /\ reader'.ids = {}
      /\ \A x \in CronJobs : reader'.last[x] = None /\ reader'.stats[x] = None
  BY <1>1 DEF NewRequest
<1>4. RequestOK'
  BY <1>1, <1>2 DEF RequestOK, NewRequest
<1>5. ProgressInv'
  BY <1>1, <1>2, <1>3 DEF ProgressInv
<1>6. \A x \in CronJobs : LastInv(x)' /\ NewsInv(x)'
  BY <1>3 DEF LastInv, NewsInv
<1>7. RowIsCoherent'
  BY <1>3 DEF RowIsCoherent
<1> QED
  BY <1>2, <1>4, <1>5, <1>6, <1>7 DEF OverviewInv, ReaderInv

LEMMA EndStep ==
  ASSUME OverviewInv, StoreKeeps, reader' = Idle
  PROVE  OverviewInv'
<1>1. StoreInv'
  BY ReaderKeepsStore DEF OverviewInv
<1>2. ReaderInv' /\ RowIsCoherent'
  BY DEF ReaderInv, RowIsCoherent, Idle
<1> QED
  BY <1>1, <1>2 DEF OverviewInv

\* The verdicts are computed at one moment, and the tiles read later.
LEMMA PageSteps ==
  ASSUME OverviewInv,
         \/ ListCronJobs \/ BuildRows \/ FleetStats
         \/ reader.pc = "tiles" /\ Fail
  PROVE  OverviewInv'
<1>1. /\ StoreInv /\ OnlyReads /\ StoreKeeps /\ clock' = clock
      /\ reader # Idle /\ RequestOK /\ ProgressInv
  BY DEF OverviewInv, ReaderInv, ListCronJobs, BuildRows, FleetStats, Fail,
         Idle, OnlyReads, StoreKeeps
<1>2. Live \subseteq CronJobs /\ clock \in Nat
  BY <1>1 DEF Live, StoreInv
<1>3. /\ RequestOK'
      /\ reader'.since = reader.since /\ reader'.last = reader.last
      /\ reader'.stats = reader.stats /\ reader'.ids = reader.ids
      /\ \/ reader.pc = "list" /\ reader'.pc = "ids"
         \/ /\ reader.pc = "build" /\ reader'.pc = "tiles"
            /\ reader'.at = clock /\ reader'.missed = Missed(clock)
            /\ reader'.listed = reader.listed /\ reader'.paused = reader.paused
         \/ /\ reader.pc = "tiles" /\ reader'.pc = "done"
            /\ reader'.at = reader.at /\ reader'.missed = reader.missed
            /\ reader'.listed = reader.listed /\ reader'.paused = reader.paused
  <2>1. CASE ListCronJobs
    <3> DEFINE paused == {x \in Live : suspended[x]}
    <3>1. reader' = [reader EXCEPT !.pc = "ids", !.listed = Live,
                                   !.paused = paused]
      BY <2>1 DEF ListCronJobs
    <3>2. paused \subseteq CronJobs /\ reader.pc = "list"
      BY <1>2, <2>1 DEF ListCronJobs
    <3> HIDE DEF paused
    <3> QED
      BY <1>1, <1>2, <3>1, <3>2 DEF RequestOK
  <2>2. CASE BuildRows
    <3>1. /\ reader.pc = "build"
          /\ reader' = [reader EXCEPT !.at = clock, !.missed = Missed(clock),
                                      !.pc = "tiles"]
      BY <2>2 DEF BuildRows
    <3>2. Missed(clock) \subseteq CronJobs
      BY <1>1 DEF Missed, RequestOK
    <3> QED
      BY <1>1, <1>2, <3>1, <3>2 DEF RequestOK
  <2>3. CASE FleetStats
    <3>1. /\ reader.pc = "tiles"
          /\ reader' = [reader EXCEPT !.tiles = Tally(InWindow(FleetRuns)),
                                      !.pc = "done"]
      BY <2>3 DEF FleetStats
    <3>2. Tally(InWindow(FleetRuns)) \in Counts
      BY TallyCounts DEF InWindow, FleetRuns
    <3> QED
      BY <1>1, <3>1, <3>2 DEF RequestOK
  <2>4. CASE reader.pc = "tiles" /\ Fail
    <3>1. reader' = [reader EXCEPT !.pc = "done"]
      BY <2>4 DEF Fail
    <3> QED
      BY <1>1, <2>4, <3>1 DEF RequestOK
  <2> QED
    BY <2>1, <2>2, <2>3, <2>4
<1>4. \A m : Missed(m)' = Missed(m) \/ reader.pc = "list"
  BY <1>3 DEF Missed
<1>5. ProgressInv'
  <2>1. /\ reader'.since <= clock' /\ clock' - reader'.since <= RenderTime
        /\ reader'.pc = "ids" => \A x \in CronJobs : reader'.last[x] = None
        /\ \A x \in CronJobs : reader'.stats[x] # None =>
             reader'.last[x] # None /\ x \notin reader'.ids
        /\ reader'.pc \in {"tiles", "done"} => reader'.ids = {}
    BY <1>1, <1>3 DEF ProgressInv
  <2>2. CASE reader.pc = "list"
    BY <1>3, <2>1, <2>2 DEF ProgressInv
  <2>3. CASE reader.pc = "build"
    <3>1. clock - reader.since <= RenderTime
      BY <1>1 DEF ProgressInv
    <3> QED
      BY <1>1, <1>2, <1>3, <1>4, <2>1, <2>3, <3>1 DEF ProgressInv
  <2>4. CASE reader.pc = "tiles"
    <3>1. /\ reader.missed = Missed(reader.at)
          /\ reader.at <= clock /\ reader.at - reader.since <= RenderTime
      BY <1>1, <2>4 DEF ProgressInv
    <3> QED
      BY <1>1, <1>3, <1>4, <2>1, <2>4, <3>1 DEF ProgressInv
  <2> QED
    BY <1>3, <2>2, <2>3, <2>4
<1>6. /\ \A x \in CronJobs : LastInv(x)' /\ NewsInv(x)'
      /\ Window <= Retention => RowIsCoherent'
  BY <1>1, <1>3, SameSummaries
<1>7. StoreInv'
  BY <1>1, ReaderKeepsStore
<1> QED
  BY <1>3, <1>5, <1>6, <1>7 DEF OverviewInv, ReaderInv

\* The CronJobs to be summarised are those there at that moment.
LEMMA IDsStep == ASSUME OverviewInv, LiveCronJobIDs PROVE OverviewInv'
<1>1. /\ StoreInv /\ OnlyReads /\ StoreKeeps /\ reader # Idle
      /\ RequestOK /\ ProgressInv /\ reader.pc = "ids"
      /\ UNCHANGED <<clock, row, born, status, started, revised>>
  BY DEF OverviewInv, ReaderInv, LiveCronJobIDs, Idle, OnlyReads, StoreKeeps, store,
         inventory, runTable
<1>2. reader' = [reader EXCEPT !.ids = Live,
                   !.pc = IF Live = {} THEN "build" ELSE "last"]
  BY DEF LiveCronJobIDs
<1>3. Live \subseteq CronJobs
  BY DEF Live
<1>4. /\ RequestOK' /\ reader'.ids = Live /\ reader'.since = reader.since
      /\ reader'.last = reader.last /\ reader'.stats = reader.stats
      /\ \/ Live = {} /\ reader'.pc = "build"
         \/ reader'.pc = "last"
  <2>1. CASE Live = {}
    <3>1. reader' = [reader EXCEPT !.ids = Live, !.pc = "build"]
      BY <1>2, <2>1
    <3> QED
      BY <1>1, <1>3, <2>1, <3>1 DEF RequestOK
  <2>2. CASE Live # {}
    <3>1. reader' = [reader EXCEPT !.ids = Live, !.pc = "last"]
      BY <1>2, <2>2
    <3> QED
      BY <1>1, <1>3, <3>1 DEF RequestOK
  <2> QED
    BY <2>1, <2>2
<1>5. \A x \in CronJobs : reader.last[x] = None /\ reader.stats[x] = None
  BY <1>1 DEF ProgressInv
<1>6. ProgressInv'
  BY <1>1, <1>4, <1>5 DEF ProgressInv
<1>7. \A x \in CronJobs : LastInv(x)'
  BY <1>4, <1>5 DEF LastInv
<1>8. \A x \in CronJobs : NewsInv(x)'
  BY <1>1, <1>4, <1>5 DEF NewsInv, Live
<1>9. RowIsCoherent'
  BY <1>4, <1>5 DEF RowIsCoherent
<1>10. StoreInv'
  BY <1>1, ReaderKeepsStore
<1> QED
  BY <1>4, <1>6, <1>7, <1>8, <1>9, <1>10 DEF OverviewInv, ReaderInv

\* The last run of a CronJob is the latest that any run of it ever was, and a
\* CronJob without one is left out.
LEMMA LastRunStep ==
  ASSUME OverviewInv, NEW x \in CronJobs, LastRun(x)
  PROVE  OverviewInv'
<1>1. /\ StoreInv /\ OnlyReads /\ StoreKeeps /\ reader # Idle
      /\ RequestOK /\ ProgressInv /\ reader.pc = "last" /\ x \in reader.ids
      /\ UNCHANGED <<clock, row, born, status, started, revised>>
      /\ \A y \in CronJobs : LastInv(y) /\ NewsInv(y)
      /\ Window <= Retention => RowIsCoherent
  <2>1. reader.pc = "last" /\ x \in reader.ids /\ OnlyReads
    BY Zenon DEF LastRun
  <2> QED
    BY <2>1 DEF OverviewInv, ReaderInv, Idle, OnlyReads, StoreKeeps, store, inventory,
                runTable
<1>2. StoreInv'
  BY <1>1, ReaderKeepsStore
<1>3. \A y \in CronJobs : RunsOf(y)' = RunsOf(y) /\ RunsOf(y) \subseteq Runs
  BY <1>1 DEF RunsOf
<1>4. CASE /\ RunsOf(x) = {}
           /\ reader' = [reader EXCEPT !.ids = @ \ {x},
                 !.pc = IF reader.ids = {x} THEN "build" ELSE "last"]
  <2>1. /\ RequestOK' /\ reader'.ids = reader.ids \ {x}
        /\ reader'.since = reader.since
        /\ reader'.last = reader.last /\ reader'.stats = reader.stats
        /\ \/ reader'.ids = {} /\ reader'.pc = "build"
           \/ reader'.pc = "last"
    <3>1. CASE reader.ids = {x}
      <4>1. reader' = [reader EXCEPT !.ids = {}, !.pc = "build"]
        BY <1>4, <3>1
      <4> QED
        BY <1>1, <3>1, <4>1 DEF RequestOK
    <3>2. CASE reader.ids # {x}
      <4>1. reader' = [reader EXCEPT !.ids = @ \ {x}, !.pc = "last"]
        BY <1>4, <3>2
      <4> QED
        BY <1>1, <4>1 DEF RequestOK
    <3> QED
      BY <3>1, <3>2
  <2>2. ProgressInv'
    BY <1>1, <2>1 DEF ProgressInv
  <2>3. \A y \in CronJobs : LastInv(y)'
    BY <1>1, <2>1 DEF LastInv
  <2>4. ASSUME NEW y \in CronJobs PROVE NewsInv(y)'
    BY <1>1, <1>3, <1>4, <2>1 DEF NewsInv, IsNews
  <2>5. Window <= Retention => RowIsCoherent'
    BY <1>1, <2>1 DEF RowIsCoherent, Counted
  <2> QED
    BY <1>2, <2>1, <2>2, <2>3, <2>4, <2>5 DEF OverviewInv, ReaderInv
<1>5. ASSUME NEW r \in LastRuns(x),
             reader' = [reader EXCEPT !.pc = "stats", !.id = x,
                                      !.last[x] = Summary(r)]
      PROVE  OverviewInv'
  <2>1. /\ r \in Runs /\ RunOf[r] = x /\ status[r] \in Statuses
        /\ started[r] \in Int /\ \A q \in RunsOf(x) : started[q] <= started[r]
    BY <1>1 DEF LastRuns, RunsOf, StoreInv
  <2>2. /\ Summary(r) \in Summaries /\ Summary(r) # None
        /\ Summary(r).run = r /\ Summary(r).status = status[r]
        /\ Summary(r).started = started[r]
    BY <2>1, OverviewAssumption DEF Summary, Summaries
  <2>3. reader.last \in [CronJobs -> Summaries \cup {None}]
    BY <1>1 DEF RequestOK
  <2>4. /\ RequestOK' /\ reader'.pc = "stats" /\ reader'.id = x
        /\ reader'.last = [reader.last EXCEPT ![x] = Summary(r)]
        /\ reader'.stats = reader.stats /\ reader'.ids = reader.ids
        /\ reader'.since = reader.since
    <3> HIDE DEF Summary, Summaries
    <3> DEFINE last == [reader.last EXCEPT ![x] = Summary(r)]
    <3>1. reader' = [reader EXCEPT !.pc = "stats", !.id = x, !.last = last]
      BY <1>1, <1>5 DEF RequestOK
    <3>2. last \in [CronJobs -> Summaries \cup {None}]
      BY <2>2, <2>3
    <3> HIDE DEF last
    <3>3. RequestOK' /\ reader'.last = last
          /\ reader'.pc = "stats" /\ reader'.id = x
          /\ reader'.stats = reader.stats /\ reader'.ids = reader.ids
          /\ reader'.since = reader.since
      BY <1>1, <3>1, <3>2 DEF RequestOK
    <3> QED
      BY <3>3 DEF last
  <2>5. /\ reader'.last[x] = Summary(r)
        /\ \A y \in CronJobs : y # x => reader'.last[y] = reader.last[y]
    BY <2>3, <2>4
  <2>6. reader.stats[x] = None
    BY <1>1 DEF ProgressInv
  <2>7. ProgressInv'
    BY <1>1, <2>2, <2>4, <2>5, <2>6 DEF ProgressInv
  <2>8. \A y \in CronJobs : LastInv(y)'
    BY <1>1, <2>1, <2>2, <2>5 DEF LastInv
  <2>9. ASSUME NEW q \in Runs, RunOf[q] = x, started[q] # Never,
               clock - started[q] <= Retention
        PROVE  started[q] <= started[r]
    <3>1. started[q] \in Int /\ clock \in Nat /\ Retention \in Nat
      BY <1>1, <2>9, OverviewAssumption DEF StoreInv
    <3>2. status[q] # "none"
      BY <1>1, <2>9, <3>1 DEF StoreInv
    <3> QED
      BY <2>1, <2>9, <3>2 DEF RunsOf
  <2>10. ASSUME NEW y \in CronJobs PROVE NewsInv(y)'
    <3>1. CASE y = x
      BY <1>1, <2>2, <2>4, <2>5, <2>9, <3>1 DEF NewsInv
    <3>2. CASE y # x
      BY <1>1, <1>3, <2>4, <2>5, <3>2 DEF NewsInv, IsNews
    <3> QED
      BY <3>1, <3>2
  <2>11. Window <= Retention => RowIsCoherent'
    BY <1>1, <2>4, <2>5, <2>6 DEF RowIsCoherent, Counted
  <2> QED
    BY <1>2, <2>4, <2>7, <2>8, <2>10, <2>11 DEF OverviewInv, ReaderInv
<1> QED
  BY <1>4, <1>5, Zenon DEF LastRun

\* A last run that is in the window is still in the store, so that the counts
\* contain it.
LEMMA CountsKnowLastRun ==
  ASSUME StoreInv, Window <= Retention, NEW x \in CronJobs, LastInv(x),
         reader.last[x] \in Summaries \cup {None}, Counted(reader.last[x]),
         reader.last[x].run \notin revised
  PROVE  LET last == reader.last[x]
         IN  /\ last.run \in InWindow(RunsOf(x))
             /\ Over(last.status) => status[last.run] = last.status
<1> DEFINE last == reader.last[x]
<1>1. /\ last # None /\ last.run \in Runs /\ last.started \in Int
      /\ last.started > clock - Window
      /\ RunOf[last.run] = x /\ started[last.run] = last.started
      /\ status[last.run] # "none" /\ Over(last.status)
           => status[last.run] = last.status
  BY DEF Counted, LastInv, Summaries
<1>2. /\ clock \in Nat /\ Window \in Nat /\ Retention \in Nat
      /\ Never \notin Int
  BY OverviewAssumption DEF StoreInv
<1>3. status[last.run] # "none"
  BY <1>1, <1>2 DEF StoreInv
<1> QED
  BY <1>1, <1>3 DEF InWindow, RunsOf

LEMMA RunStatsStep == ASSUME OverviewInv, RunStats PROVE OverviewInv'
<1> DEFINE x == reader.id
           counts == Tally(InWindow(RunsOf(x)))
<1>1. /\ StoreInv /\ OnlyReads /\ StoreKeeps /\ reader # Idle
      /\ RequestOK /\ ProgressInv /\ reader.pc = "stats"
      /\ UNCHANGED <<clock, row, born, status, started, revised>>
      /\ \A y \in CronJobs : LastInv(y) /\ NewsInv(y)
      /\ Window <= Retention => RowIsCoherent
  BY DEF OverviewInv, ReaderInv, RunStats, Idle, OnlyReads, StoreKeeps, store, inventory,
         runTable
<1>2. /\ x \in CronJobs /\ x \in reader.ids /\ reader.last[x] # None
      /\ reader.last \in [CronJobs -> Summaries \cup {None}]
      /\ reader.stats \in [CronJobs -> Counts \cup {None}]
  BY <1>1 DEF ProgressInv, RequestOK
<1>3. StoreInv'
  BY <1>1, ReaderKeepsStore
<1>4. InWindow(RunsOf(x)) \subseteq Runs /\ counts \in Counts
  BY TallyCounts DEF InWindow, RunsOf
<1>5. /\ reader'.ids = reader.ids \ {x} /\ reader'.since = reader.since
      /\ reader'.last = reader.last
      /\ reader'.stats = [reader.stats EXCEPT ![x] = counts]
      /\ \/ reader'.ids = {} /\ reader'.pc = "build"
         \/ reader'.pc = "last"
      /\ RequestOK'
  <2> DEFINE stats == [reader.stats EXCEPT ![x] = counts]
             ids == reader.ids \ {x}
             place == IF reader.ids = {x} THEN "build" ELSE "last"
  <2> HIDE DEF counts
  <2>1. reader' = [reader EXCEPT !.stats = stats, !.id = None, !.ids = ids,
                                 !.pc = place]
    BY <1>1 DEF RunStats, RequestOK, counts
  <2>2. /\ stats \in [CronJobs -> Counts \cup {None}] /\ ids \subseteq CronJobs
        /\ \/ ids = {} /\ place = "build"
           \/ place = "last"
    BY <1>1, <1>2, <1>4 DEF RequestOK
  <2> HIDE DEF stats, ids, place, x
  <2>3. /\ reader'.ids = ids /\ reader'.since = reader.since
        /\ reader'.last = reader.last /\ reader'.stats = stats
        /\ reader'.pc = place /\ RequestOK'
    BY <1>1, <2>1, <2>2 DEF RequestOK
  <2> QED
    BY <2>2, <2>3 DEF stats, ids
<1> HIDE DEF counts
<1>6. /\ reader'.stats[x] = counts
      /\ \A y \in CronJobs : y # x => reader'.stats[y] = reader.stats[y]
  BY <1>2, <1>5
<1>7. ProgressInv'
  BY <1>1, <1>2, <1>5, <1>6 DEF ProgressInv
<1>8. \A y \in CronJobs : LastInv(y)'
  BY <1>1, <1>5 DEF LastInv
<1>9. ASSUME NEW y \in CronJobs PROVE NewsInv(y)'
  <2>1. RunsOf(y)' = RunsOf(y)
    BY <1>1 DEF RunsOf
  <2>2. y = x => reader'.last[y] # None
    BY <1>2, <1>5
  <2> QED
    BY <1>1, <1>5, <2>1, <2>2 DEF NewsInv, IsNews
<1>10. ASSUME Window <= Retention PROVE RowIsCoherent'
  <2>1. ASSUME NEW y \in CronJobs, Counted(reader.last[y]),
               reader'.stats[y] # None, reader.last[y].run \notin revised
        PROVE  /\ reader'.stats[y].total >= 1
               /\ reader.last[y].status = "succeeded"
                    => reader'.stats[y].succeeded >= 1
               /\ reader.last[y].status = "failed"
                    => reader'.stats[y].failed >= 1
    <3>1. CASE y # x
      BY <1>1, <1>6, <1>10, <2>1, <3>1 DEF RowIsCoherent
    <3>2. CASE y = x
      <4>1. /\ reader.last[x].run \in InWindow(RunsOf(x))
            /\ Over(reader.last[x].status)
                 => status[reader.last[x].run] = reader.last[x].status
        BY <1>1, <1>2, <1>10, <2>1, <3>2, CountsKnowLastRun
      <4> QED
        BY <1>4, <1>6, <3>2, <4>1, TallyCounts DEF counts, Over
    <3> QED
      BY <3>1, <3>2
  <2>2. \A y : Counted(reader.last[y])' = Counted(reader.last[y])
    BY <1>1, <1>5 DEF Counted
  <2> QED
    BY <1>1, <1>5, <2>1, <2>2 DEF RowIsCoherent
<1> QED
  BY <1>3, <1>5, <1>7, <1>8, <1>9, <1>10 DEF OverviewInv, ReaderInv

LEMMA OverviewInit == ASSUME Init PROVE OverviewInv
<1>1. StoreInv
  BY OverviewAssumption DEF Init, StoreInv
<1>2. ReaderInv /\ RowIsCoherent
  BY DEF Init, ReaderInv, RowIsCoherent, Idle
<1> QED
  BY <1>1, <1>2 DEF OverviewInv

LEMMA OverviewStep == ASSUME OverviewInv, [Next]_vars PROVE OverviewInv'
<1>1. CASE Tick \/ Watcher
  BY <1>1, WriterSteps, WriterKeepsReader DEF OverviewInv
<1>2. CASE Begin
  BY <1>2, BeginStep
<1>3. CASE ListCronJobs \/ BuildRows \/ FleetStats
  BY <1>3, PageSteps
<1>4. CASE LiveCronJobIDs
  BY <1>4, IDsStep
<1>5. CASE \E x \in CronJobs : LastRun(x)
  BY <1>5, LastRunStep
<1>6. CASE RunStats
  BY <1>6, RunStatsStep
<1>7. CASE Reply
  BY <1>7, EndStep DEF Reply, EndRequest
<1>8. CASE Fail
  <2>1. CASE reader.pc = "tiles"
    BY <1>8, <2>1, PageSteps
  <2>2. CASE reader.pc # "tiles"
    BY <1>8, <2>2, EndStep DEF Fail, EndRequest
  <2> QED
    BY <2>1, <2>2
<1>9. CASE UNCHANGED vars
  <2>1. OnlyReads /\ StoreKeeps /\ reader' = reader
    BY <1>9 DEF vars, OnlyReads, StoreKeeps
  <2>2. StoreInv'
    BY <2>1, ReaderKeepsStore DEF OverviewInv
  <2>3. CASE reader = Idle
    BY <2>1, <2>3, EndStep
  <2>4. CASE reader # Idle
    <3>1. /\ \A x \in CronJobs : LastInv(x)' /\ NewsInv(x)'
          /\ Window <= Retention => RowIsCoherent'
      BY <2>1, <2>4, SameSummaries
    <3>2. RequestOK' /\ ProgressInv'
      BY <2>1, <2>4 DEF OverviewInv, ReaderInv, RequestOK, ProgressInv, Missed,
         StoreKeeps
    <3> QED
      BY <2>2, <3>1, <3>2 DEF OverviewInv, ReaderInv
  <2> QED
    BY <2>3, <2>4
<1> QED
  BY <1>1, <1>2, <1>3, <1>4, <1>5, <1>6, <1>7, <1>8, <1>9 DEF Next

\* What a page says is always what the store held when the page read it: the
\* invariant that the theorems below rest on.
THEOREM OverviewInvariant == Spec => []OverviewInv
<1> QED
  BY OverviewInit, OverviewStep, PTL DEF Spec

\* While retention keeps the window of the counts, no row shows a last run that
\* its counts do not know of, whatever the watcher writes between
\* GetLastJobRun and GetRunStats7d.
THEOREM RowsAreCoherent == Window <= Retention => (Spec => []RowIsCoherent)
<1> SUFFICES ASSUME Window <= Retention PROVE Spec => []RowIsCoherent
  OBVIOUS
<1>1. OverviewInv => RowIsCoherent
  BY DEF OverviewInv
<1> QED
  BY <1>1, OverviewInvariant, PTL

\* Then the tiles, too, know of every failed run in the rows above which they
\* stand.
THEOREM TilesKnow == Window <= Retention => (Spec => TilesKnowRows)
<1> DEFINE Known ==
      reader # Idle /\ reader.tiles = None /\ reader' # Idle =>
        \/ reader'.tiles = None
        \/ \A x \in Live : ShowsFailure(x) => reader'.tiles.failed >= 1
<1> SUFFICES ASSUME Window <= Retention PROVE Spec => TilesKnowRows
  OBVIOUS
<1>1. ASSUME OverviewInv, Next PROVE Known
  <2> SUFFICES ASSUME reader # Idle, reader.tiles = None, reader' # Idle
               PROVE  \/ reader'.tiles = None
                      \/ \A x \in Live :
                           ShowsFailure(x) => reader'.tiles.failed >= 1
    OBVIOUS
  <2>1. /\ StoreInv /\ RequestOK /\ \A x \in CronJobs : LastInv(x)
        /\ reader.last \in [CronJobs -> Summaries \cup {None}]
    BY <1>1 DEF OverviewInv, ReaderInv, RequestOK
  <2>2. CASE FleetStats
    <3>1. reader'.tiles = Tally(InWindow(FleetRuns))
      BY <2>1, <2>2 DEF FleetStats, RequestOK
    <3>2. ASSUME NEW x \in Live, ShowsFailure(x)
          PROVE  reader'.tiles.failed >= 1
      <4> DEFINE r == reader.last[x].run
      <4>1. /\ x \in CronJobs /\ Counted(reader.last[x])
            /\ r \notin revised /\ reader.last[x].status = "failed"
        BY <3>2 DEF ShowsFailure, Live
      <4>2. r \in InWindow(RunsOf(x)) /\ status[r] = "failed"
        BY <1>1, <2>1, <4>1, CountsKnowLastRun DEF Over
      <4>3. r \in InWindow(FleetRuns) /\ InWindow(FleetRuns) \subseteq Runs
        BY <3>2, <4>2 DEF InWindow, FleetRuns, RunsOf
      <4> QED
        BY <3>1, <4>2, <4>3, TallyCounts
    <3> QED
      BY <3>2
  <2>3. CASE Tick \/ Watcher
    BY <1>1, <2>3, WriterSteps DEF OverviewInv
  <2>4. CASE Begin \/ Reply
    BY <2>4 DEF Begin, Reply, EndRequest
  <2>5. CASE ListCronJobs \/ BuildRows
    BY <2>1, <2>5 DEF ListCronJobs, BuildRows, RequestOK
  <2>6. CASE LiveCronJobIDs
    BY <2>1, <2>6 DEF LiveCronJobIDs, RequestOK
  <2>7. ASSUME NEW x \in CronJobs, LastRun(x)
        PROVE  reader'.tiles = None
    <3>1. CASE reader' = [reader EXCEPT !.ids = @ \ {x},
                 !.pc = IF reader.ids = {x} THEN "build" ELSE "last"]
      BY <2>1, <3>1 DEF RequestOK
    <3>2. CASE \E r \in LastRuns(x) :
                 reader' = [reader EXCEPT !.pc = "stats", !.id = x,
                                          !.last[x] = Summary(r)]
      BY <2>1, <3>2 DEF RequestOK
    <3> QED
      BY <2>7, <3>1, <3>2, Zenon DEF LastRun
  <2>8. CASE RunStats
    BY <2>1, <2>8 DEF RunStats, RequestOK
  <2>9. CASE Fail
    BY <2>1, <2>9 DEF Fail, EndRequest, RequestOK
  <2> QED
    BY <1>1, <2>2, <2>3, <2>4, <2>5, <2>6, <2>7, <2>8, <2>9 DEF Next
<1>2. OverviewInv /\ [Next]_vars => [Known]_vars
  BY <1>1
<1> QED
  BY <1>2, OverviewInvariant, PTL DEF Spec, TilesKnowRows

\* One occurrence is judged, and it is past the grace period.
LEMMA OneIsJudged ==
  ASSUME NEW t \in Nat, NEW hasRun \in BOOLEAN,
         NEW f \in Fires, NEW g \in Fires,
         Due(Fires, Grace, f, t, hasRun), Due(Fires, Grace, g, t, hasRun)
  PROVE  f = g /\ (Sparse => t - f > Grace)
<1>1. Fires \subseteq Int /\ Grace \in Nat
  BY OverviewAssumption
<1> QED
  BY <1>1 DEF Due, Latest, Sparse

\* No CronJob is called missed for an occurrence at which a run that retention
\* keeps started: a run that could be in the store when the request began was
\* seen by it, and retention deletes no run that is younger than it keeps.
THEOREM AlarmsAreTrue == Spec => []NoFalseAlarm
<1>1. OverviewInv => NoFalseAlarm
  <2> SUFFICES ASSUME OverviewInv, Sparse,
                      reader # Idle, reader.pc \in {"tiles", "done"},
                      NEW x \in reader.missed \cap Live, NEW f \in Judged(x),
                      born[x] < reader.since, clock - f <= Retention,
                      NEW r \in Runs \ revised, RunOf[r] = x, started[r] = f
               PROVE  FALSE
    BY DEF NoFalseAlarm
  <2> DEFINE last == reader.last[x]
             t == reader.at
  <2>1. /\ StoreInv /\ RequestOK /\ ProgressInv /\ NewsInv(x)
        /\ x \in CronJobs /\ row[x] = "live"
    BY DEF OverviewInv, ReaderInv, Live
  <2>2. /\ f \in Fires /\ f \in Int /\ Due(Fires, Grace, f, t, last # None)
        /\ t \in Nat /\ reader.since \in Nat /\ t - reader.since <= RenderTime
        /\ clock \in Nat /\ Grace \in Nat /\ Delay \in Nat /\ RenderTime \in Nat
        /\ Delay + RenderTime <= Grace /\ Retention \in Nat
        /\ last \in Summaries \cup {None} /\ Never \notin Int
        /\ x \notin reader.ids /\ x \in Missed(t)
    BY <2>1, OverviewAssumption DEF Judged, RequestOK, ProgressInv, StoreInv
  <2>3. last = None \/ last.started < f
    BY <2>2, OneIsJudged DEF Missed, IsMissed, Silent
  <2>4. t - f > Grace
    BY <2>2, OneIsJudged
  <2>5. ~IsNews(r)
    BY <2>2, <2>4 DEF IsNews
  <2>6. CASE last = None
    <3>1. r \notin RunsOf(x)
      BY <2>1, <2>2, <2>5, <2>6 DEF NewsInv
    <3>2. started[r] + Retention < clock
      BY <2>1, <2>2, <3>1 DEF StoreInv, RunsOf
    <3> QED
      BY <2>2, <2>6, <3>2
  <2>7. CASE last # None
    <3>1. last.started \in Int /\ last.started < f
      BY <2>2, <2>3, <2>7 DEF Summaries
    <3> QED
      BY <2>1, <2>2, <2>5, <2>7, <3>1 DEF NewsInv
  <2> QED
    BY <2>6, <2>7
<1> QED
  BY <1>1, OverviewInvariant, PTL

-----------------------------------------------------------------------------
(* The pages of a run history                                              *)

\* The start of a walk over an empty history satisfies PagesInv.
LEMMA InitPages == WalkInit => PagesInv
BY PagesAssumption
   DEF WalkInit, PagesInv, TypeOK, CursorInv, CoverInv, RepeatsAreMoved,
       MissedAreTiedOrMoved, Times

\* A row written by UpsertJobRun is in no walk that has begun, or has moved, or
\* is as it was.
LEMMA RecordPages ==
  ASSUME PagesInv, NEW r \in PagedRuns, NEW t \in Times, Record(r, t)
  PROVE  PagesInv'
<1> USE DEF PagesInv
<1>1. /\ state' = [state EXCEPT ![r] = "stored"]
      /\ startedAt' = [startedAt EXCEPT ![r] = t]
      /\ UNCHANGED <<pc, raw, before, atStart, shown, repeated, cuts>>
  BY DEF Record, walk
<1>2. moved' \in SUBSET PagedRuns /\ moved \subseteq moved'
  BY DEF Record, TypeOK
<1>3. TypeOK'
  BY <1>1, <1>2 DEF TypeOK
<1>4. ASSUME pc # "idle", NEW q \in (shown \cup atStart) \ moved'
      PROVE  /\ startedAt'[q] = startedAt[q] /\ q \in PagedRuns \ moved
             /\ q \in Stored' => q \in Stored
  <2>1. q \in PagedRuns /\ q \notin moved /\ state[q] # "new"
    BY <1>2, <1>4 DEF TypeOK, CursorInv
  <2>2. CASE q = r
    BY <1>1, <1>4, <2>1, <2>2 DEF Record, TypeOK, Stored
  <2>3. CASE q # r
    BY <1>1, <2>1, <2>3 DEF TypeOK, Stored
  <2> QED BY <2>2, <2>3
<1>5. CursorInv'
  <2>1. \A q \in PagedRuns : state[q] # "new" => state'[q] # "new"
    BY <1>1 DEF TypeOK
  <2>2. ASSUME pc = "paging", before # NoCursor, NEW q \in shown \ moved'
        PROVE  Rank(q)' >= TextRank[before]
    BY <1>4, <2>2 DEF CursorInv, Rank
  <2> QED BY <1>1, <2>1, <2>2 DEF CursorInv
<1>6. CoverInv'
  <2>1. ASSUME pc = "paging", before # NoCursor,
               NEW q \in (atStart \cap Stored') \ moved',
               Rank(q)' > TextRank[before]
        PROVE  Covered(q)'
    BY <1>1, <1>4, <2>1 DEF CoverInv, Covered, Rank
  <2> QED BY <1>1, <2>1 DEF CoverInv
<1>7. RepeatsAreMoved'
  BY <1>1, <1>2 DEF RepeatsAreMoved
<1>8. MissedAreTiedOrMoved'
  BY <1>1, <1>4 DEF MissedAreTiedOrMoved
<1> QED BY <1>3, <1>5, <1>6, <1>7, <1>8

\* A row that expires leaves less to be covered.
LEMMA ExpirePages ==
  ASSUME PagesInv, NEW t \in Times, Expire(t)
  PROVE  PagesInv'
<1> USE DEF PagesInv
<1>1. TypeOK'
  BY DEF Expire, TypeOK, walk
<1>2. UNCHANGED <<startedAt, pc, raw, before, atStart, shown, repeated, moved,
                  cuts>>
  BY DEF Expire, walk
<1>3. /\ Stored' \subseteq Stored
      /\ \A q \in PagedRuns : state[q] # "new" => state'[q] # "new"
  BY DEF Expire, Stored, TypeOK
<1>4. CursorInv'
  BY <1>2, <1>3 DEF CursorInv, Rank, TypeOK
<1>5. CoverInv'
  BY <1>2, <1>3 DEF CoverInv, Covered, Rank
<1>6. RepeatsAreMoved' /\ MissedAreTiedOrMoved'
  BY <1>2, <1>3 DEF RepeatsAreMoved, MissedAreTiedOrMoved
<1> QED BY <1>1, <1>4, <1>5, <1>6

\* A walk begins with nothing shown.
LEMMA OpenPages ==
  ASSUME PagesInv, NEW n \in RawLimits, Open(n)
  PROVE  PagesInv'
BY DEF PagesInv, Open, TypeOK, CursorInv, CoverInv, RepeatsAreMoved,
       MissedAreTiedOrMoved, rows, Stored, Rank

\* What the next page is cut from is older than all that was shown and has not
\* moved since; what it is not cut from is covered.
LEMMA BothSidesOfCursor ==
  ASSUME PagesInv, pc = "paging"
  PROVE  /\ Older(before) \cap shown \subseteq moved
         /\ \A r \in ((atStart \cap Stored) \ moved) \ Older(before) : Covered(r)
<1> USE DEF PagesInv
<1>1. CASE before = NoCursor
  BY <1>1 DEF CursorInv, Older
<1>2. CASE before # NoCursor
  <2>1. before \in Times /\ TextRank[before] \in Int
    BY <1>2, PagesAssumption DEF TypeOK
  <2>2. \A r \in PagedRuns : startedAt[r] \in Times /\ Rank(r) \in Int
    BY PagesAssumption DEF TypeOK, Rank
  <2>3. Older(before) \cap shown \subseteq moved
    BY <1>2, <2>1, <2>2 DEF Older, CursorInv, Stored, TypeOK
  <2>4. ASSUME NEW r \in ((atStart \cap Stored) \ moved) \ Older(before)
        PROVE  Covered(r)
    <3>1. Rank(r) >= TextRank[before]
      BY <1>2, <2>1, <2>2, <2>4 DEF Older, Stored
    <3>2. CASE Rank(r) > TextRank[before]
      BY <1>2, <2>4, <3>2 DEF CoverInv
    <3>3. CASE Rank(r) = TextRank[before]
      <4>1. startedAt[r] = before
        BY <2>1, <2>2, <2>4, <3>3, PagesAssumption DEF Rank, Stored
      <4> QED BY <1>2, <4>1 DEF CursorInv, Covered
    <3> QED BY <2>1, <2>2, <2>4, <3>1, <3>2, <3>3 DEF Stored
  <2> QED BY <2>3, <2>4
<1> QED BY <1>1, <1>2

\* One request keeps PagesInv.
LEMMA FetchPages ==
  ASSUME PagesInv, NEW page \in SUBSET PagedRuns, Fetch(page)
  PROVE  PagesInv'
<1> USE DEF PagesInv
<1>1. /\ pc = "paging" /\ IsPage(page, Older(before), Limit)
      /\ page \subseteq Older(before) /\ shown' = shown \cup page
      /\ repeated' = repeated \cup (shown \cap page)
      /\ cuts \subseteq cuts'
      /\ UNCHANGED <<state, startedAt, raw, atStart, moved>>
  BY DEF Fetch, IsPage, rows
<1>2. /\ Older(before) \cap shown \subseteq moved
      /\ \A r \in ((atStart \cap Stored) \ moved) \ Older(before) : Covered(r)
  BY <1>1, BothSidesOfCursor
<1>3. RepeatsAreMoved'
  BY <1>1, <1>2 DEF RepeatsAreMoved
<1>4. \A r \in PagedRuns : Covered(r) => Covered(r)'
  BY <1>1 DEF Covered
<1>5. \A r \in PagedRuns : /\ startedAt[r] \in Times
                           /\ Rank(r) \in Int /\ Rank(r)' = Rank(r)
  BY <1>1, PagesAssumption DEF TypeOK, Rank
<1>6. /\ Older(before) \subseteq Stored /\ Stored \subseteq PagedRuns
      /\ Stored' = Stored
      /\ \A r \in Stored : state[r] # "new"
  BY <1>1 DEF Older, Stored
<1>7. shown' \cup atStart' \subseteq {r \in PagedRuns : state'[r] # "new"}
  BY <1>1, <1>6 DEF CursorInv
<1>8. CASE HasMore(page)
  <2>1. PICK oldest \in page : /\ \A p \in page : Rank(oldest) <= Rank(p)
                               /\ before' = startedAt[oldest] /\ pc' = pc
                               /\ cuts' = cuts \cup {startedAt[oldest]}
    BY <1>8 DEF Fetch, runCursor
  <2>2. /\ before' \in Times /\ before' # NoCursor
        /\ TextRank[before'] = Rank(oldest)
        /\ Rank(oldest) \in Int
    BY <1>5, <2>1, PagesAssumption DEF Rank
  <2>3. TypeOK'
    BY <1>1, <1>5, <2>1, <2>2 DEF TypeOK
  <2>4. \A r \in shown \ moved : Rank(r) >= Rank(oldest)
    <3>1. CASE before = NoCursor
      BY <1>1, <3>1 DEF CursorInv
    <3>2. CASE before # NoCursor
      <4>1. Rank(oldest) < TextRank[before] /\ TextRank[before] \in Int
        BY <1>1, <2>1, <3>2, PagesAssumption DEF Older, TypeOK
      <4>2. \A r \in shown \ moved : Rank(r) >= TextRank[before] /\ Rank(r) \in Int
        BY <1>1, <1>5, <3>2 DEF CursorInv, TypeOK
      <4> QED BY <2>2, <4>1, <4>2
    <3> QED BY <3>1, <3>2
  <2>5. CursorInv'
    <3>1. before' \in cuts'
      BY <2>1
    <3>2. \A r \in shown' \ moved' : Rank(r)' >= TextRank[before']
      BY <1>1, <1>5, <2>1, <2>2, <2>4 DEF TypeOK
    <3> QED BY <1>1, <1>7, <2>1, <2>2, <3>1, <3>2 DEF CursorInv
  <2>6. CoverInv'
    <3>1. SUFFICES ASSUME NEW r \in (atStart \cap Stored) \ moved,
                          Rank(r) > Rank(oldest)
                   PROVE  Covered(r)'
      BY <1>1, <1>5, <1>6, <2>2 DEF CoverInv
    <3>2. CASE r \in page
      BY <1>1, <3>2 DEF Covered
    <3>3. CASE r \in Older(before) \ page
      BY <1>1, <1>5, <1>6, <2>1, <3>1, <3>3 DEF IsPage
    <3>4. CASE r \notin Older(before)
      BY <1>2, <1>4, <1>6, <3>4
    <3> QED BY <3>2, <3>3, <3>4
  <2>7. MissedAreTiedOrMoved'
    BY <1>1, <2>1 DEF MissedAreTiedOrMoved
  <2> QED BY <1>3, <2>3, <2>5, <2>6, <2>7
<1>9. CASE ~HasMore(page)
  <2>1. pc' = "done" /\ before' = before /\ cuts' = cuts
    BY <1>9 DEF Fetch
  <2>2. page = Older(before)
    BY <1>1, <1>9 DEF IsPage, HasMore
  <2>3. TypeOK'
    BY <1>1, <2>1 DEF TypeOK
  <2>4. CursorInv' /\ CoverInv'
    BY <1>7, <2>1 DEF CursorInv, CoverInv
  <2>5. \A r \in (atStart \cap Stored) \ moved : Covered(r)'
    BY <1>1, <1>2, <1>4, <1>6, <2>2 DEF Covered
  <2>6. MissedAreTiedOrMoved'
    BY <1>1, <1>6, <2>5 DEF MissedAreTiedOrMoved, Covered
  <2> QED BY <1>3, <2>3, <2>4, <2>6
<1> QED BY <1>8, <1>9

\* An error ends the walk as it stands.
LEMMA FetchFailsPages == ASSUME PagesInv, FetchFails PROVE PagesInv'
BY DEF FetchFails, rows, PagesInv, TypeOK, CursorInv, CoverInv,
       RepeatsAreMoved, MissedAreTiedOrMoved, Stored, Rank

\* PagesInv is an invariant of the rows and the walk over them.
THEOREM PagesInvariant == WalkSpec => []PagesInv
<1>1. PagesInv /\ [WalkNext]_walkVars => PagesInv'
  <2> SUFFICES ASSUME PagesInv, [WalkNext]_walkVars PROVE PagesInv' OBVIOUS
  <2>1. CASE WalkNext
    BY <2>1, RecordPages, ExpirePages, OpenPages, FetchPages, FetchFailsPages
       DEF WalkNext
  <2>2. CASE UNCHANGED walkVars
    BY <2>2 DEF walkVars, rows, walk, PagesInv, TypeOK, CursorInv, CoverInv,
                Covered, Stored, Rank, RepeatsAreMoved, MissedAreTiedOrMoved
  <2> QED BY <2>1, <2>2
<1> QED BY <1>1, InitPages, PTL DEF WalkSpec

\* Only a run whose row was moved by UpsertJobRun comes on two pages of
\* ListJobRunsPaged, whatever is recorded, rewritten or expires between the
\* requests and however the zone's clock moves.
THEOREM OnlyMovedRunsRepeat == WalkSpec => []RepeatsAreMoved
BY PagesInvariant, PTL DEF PagesInv

\* A complete walk misses a run that was there and stayed in its place only
\* when a page ended at exactly its start time.
THEOREM PagesMissOnlyTiesOrMoved == WalkSpec => []MissedAreTiedOrMoved
BY PagesInvariant, PTL DEF PagesInv
=============================================================================
