------------------------------ MODULE RunPages ------------------------------
(***************************************************************************)
(* Paging through the run history of one CronJob, newest first: the v1     *)
(* endpoint and the "Load more" list (internal/api) over ListJobRunsPaged  *)
(* (internal/storage), while runs are recorded and expire.                 *)
(*                                                                         *)
(* A page is cut by a cursor, the start time of its last run.  The store   *)
(* compares the text of start times, so it sorts by TextRank, the place of *)
(* a time in the lexicographic order of the driver's layout (wall clock    *)
(* first, zone offset after it).  A time is a number of ticks, as fine as  *)
(* time.Now(): the trigger endpoint and a Job without a start time record  *)
(* that.  Recording a run again rewrites its start time: the trigger       *)
(* endpoint and the watcher record the same run, in either order, and the  *)
(* watcher records every Job again after a restart.                        *)
(***************************************************************************)
EXTENDS Integers, FiniteSets

CONSTANTS
  PagedRuns,     \* ids of the runs of the CronJob
  MaxStart,      \* bound on start times
  Second,        \* ticks in a second
  TextRank,      \* place of each time among the stored texts
  RawLimits,     \* values of the limit parameter
  DefaultLimit,  \* v1DefaultRunLimit (100)
  MaxLimit,      \* v1MaxRunLimit (1000)
  NoLimit,       \* no limit parameter, or one that is not a number
  NoCursor       \* the zero time: start at the newest run

Times == 0..MaxStart

ASSUME PagesAssumption ==
  /\ MaxStart \in Nat /\ Second \in Nat \ {0}
  /\ TextRank \in [Times -> Int]
  /\ \A s, t \in Times : TextRank[s] = TextRank[t] => s = t
  /\ RawLimits \subseteq Int \cup {NoLimit} /\ NoLimit \notin Int
  /\ DefaultLimit \in Nat \ {0} /\ MaxLimit \in Nat \ {0}
  /\ NoCursor \notin Times

VARIABLES
  state,     \* of each run's row: "new", "stored" or "expired"
  startedAt, \* job_runs.started_at
  pc,        \* the walk: "idle", "paging", "done" or "failed"
  raw,       \* its limit parameter
  before,    \* the cursor of its next page
  atStart,   \* the runs stored when it began
  shown,     \* the runs it has been given
  repeated,  \* the runs it has been given twice
  moved,     \* the runs whose row came to another place since it began
  cuts       \* the start times at which its full pages ended

rows == <<state, startedAt>>
walk == <<pc, raw, before, atStart, shown, repeated, cuts>>
walkVars == <<rows, walk, moved>>

\* Every variable keeps its type.
TypeOK ==
  /\ state \in [PagedRuns -> {"new", "stored", "expired"}]
  /\ startedAt \in [PagedRuns -> Times]
  /\ pc \in {"idle", "paging", "done", "failed"}
  /\ raw \in RawLimits \cup {NoLimit}
  /\ before \in Times \cup {NoCursor}
  /\ atStart \subseteq PagedRuns /\ shown \subseteq PagedRuns
  /\ repeated \subseteq PagedRuns /\ moved \subseteq PagedRuns
  /\ cuts \subseteq Times

WalkInit ==
  /\ state = [r \in PagedRuns |-> "new"] /\ startedAt = [r \in PagedRuns |-> 0]
  /\ pc = "idle" /\ raw = NoLimit /\ before = NoCursor
  /\ atStart = {} /\ shown = {} /\ repeated = {} /\ moved = {} /\ cuts = {}

-----------------------------------------------------------------------------
(* The rows                                                                *)

Stored  == {r \in PagedRuns : state[r] = "stored"}
Rank(r) == TextRank[startedAt[r]]

\* UpsertJobRun inserts a run or rewrites its row, the start time included.  A
\* run is recorded when its Job is seen, which may be long after it started.
Record(r, t) ==
  /\ state' = [state EXCEPT ![r] = "stored"]
  /\ startedAt' = [startedAt EXCEPT ![r] = t]
  /\ moved' = IF /\ pc # "idle"
                 /\ \/ state[r] = "expired"
                    \/ state[r] = "stored" /\ startedAt[r] # t
              THEN moved \cup {r} ELSE moved
  /\ UNCHANGED walk

\* DeleteOldData
Expire(horizon) ==
  /\ \E r \in Stored : Rank(r) < TextRank[horizon]
  /\ state' = [r \in PagedRuns |->
                 IF r \in Stored /\ Rank(r) < TextRank[horizon]
                 THEN "expired" ELSE state[r]]
  /\ UNCHANGED <<startedAt, walk, moved>>

-----------------------------------------------------------------------------
(* The pages                                                               *)

\* clampLimit
clampLimit(n, def, max) ==
  IF n = NoLimit THEN def
  ELSE IF n <= 0 THEN def
  ELSE IF n > max THEN max ELSE n
Limit == clampLimit(raw, DefaultLimit, MaxLimit)

\* Mutant of runCursor: whole seconds only.
runCursorSeconds(t) == t - (t % Second)

\* runCursor and parseRunCursor: RFC3339Nano keeps every tick.
runCursor(t) == t

\* Mutant of Older: the cursor's own run is not left out.
OlderOrSame(cursor) ==
  {r \in Stored : cursor = NoCursor \/ Rank(r) <= TextRank[cursor]}

\* The rows ListJobRunsPaged selects from: strictly older than the cursor.
Older(cursor) ==
  {r \in Stored : cursor = NoCursor \/ Rank(r) < TextRank[cursor]}

\* ORDER BY started_at DESC LIMIT n; rows of equal text come in any order.
IsPage(page, from, n) ==
  /\ page \subseteq from
  /\ \A p \in page, q \in from \ page : Rank(q) <= Rank(p)
  /\ Cardinality(page) = n \/ (page = from /\ Cardinality(page) < n)

\* A full page may be followed by another; a short one is the last.
HasMore(page) == Cardinality(page) = Limit

\* The first request of a walk has no cursor.
Open(n) ==
  /\ pc = "idle"
  /\ pc' = "paging" /\ raw' = n /\ before' = NoCursor
  /\ atStart' = Stored
  /\ UNCHANGED <<rows, shown, repeated, moved, cuts>>

\* One request: a full page names the cursor of the next.
Fetch(page) ==
  /\ pc = "paging"
  /\ IsPage(page, Older(before), Limit)
  /\ shown' = shown \cup page
  /\ repeated' = repeated \cup (shown \cap page)
  /\ IF HasMore(page)
     THEN \E oldest \in page :
            /\ \A p \in page : Rank(oldest) <= Rank(p)
            /\ before' = runCursor(startedAt[oldest])
            /\ cuts' = cuts \cup {startedAt[oldest]}
            /\ UNCHANGED pc
     ELSE pc' = "done" /\ UNCHANGED <<before, cuts>>
  /\ UNCHANGED <<rows, raw, atStart, moved>>

\* One request answered with an error: the store fails, or the CronJob is gone.
FetchFails ==
  /\ pc = "paging" /\ pc' = "failed"
  /\ UNCHANGED <<rows, raw, before, atStart, shown, repeated, moved, cuts>>

WalkNext ==
  \/ \E r \in PagedRuns, t \in Times : Record(r, t)
  \/ \E t \in Times : Expire(t)
  \/ \E n \in RawLimits : Open(n)
  \/ \E page \in SUBSET PagedRuns : Fetch(page)
  \/ FetchFails

WalkSpec == WalkInit /\ [][WalkNext]_walkVars

-----------------------------------------------------------------------------
(* Properties *)

\* Only a run whose start time was rewritten during the walk, or that expired
\* and was recorded again, comes on two pages: whatever else is inserted,
\* rewritten and deleted between the requests, no other run does.
RepeatsAreMoved == repeated \subseteq moved

\* The walk misses nothing that was there when it began, still is, and kept its
\* start time, except a run with exactly the start time at which a page ended
\* (the cursor of ListJobRunsPaged is strict): whatever is done to other runs.
MissedAreTiedOrMoved ==
  pc = "done" =>
    \A r \in (atStart \cap Stored) \ moved :
      r \in shown \/ startedAt[r] \in cuts

-----------------------------------------------------------------------------
(* The inductive invariant behind the properties above.                    *)

\* The walk has been given only runs the store has had; those that have not
\* moved are no older than its cursor, and the cursor is where a page ended.
CursorInv ==
  /\ shown \cup atStart \subseteq {r \in PagedRuns : state[r] # "new"}
  /\ pc = "idle" => shown = {}
  /\ pc = "paging" /\ before = NoCursor => shown = {}
  /\ pc = "paging" /\ before # NoCursor =>
       /\ before \in cuts
       /\ \A r \in shown \ moved : Rank(r) >= TextRank[before]

\* r has been shown, or a page ended at its start time.
Covered(r) == r \in shown \/ startedAt[r] \in cuts

\* Everything newer than the cursor is covered.
CoverInv ==
  pc = "paging" /\ before # NoCursor =>
    \A r \in (atStart \cap Stored) \ moved :
      Rank(r) > TextRank[before] => Covered(r)

PagesInv ==
  TypeOK /\ CursorInv /\ CoverInv /\ RepeatsAreMoved /\ MissedAreTiedOrMoved
=============================================================================
