------------------------------ MODULE Schedule ------------------------------
(***************************************************************************)
(* Has a CronJob missed a run?  IsMissed of internal/schedule with the two *)
(* PrevRun searches it may make.  robfig/cron only finds the next          *)
(* occurrence, so PrevRun guesses a window from the cadence, walks forward *)
(* through it and widens it until it finds an occurrence or gives up.      *)
(*                                                                         *)
(* A cron expression is the set of its fire times in its own time zone.  A *)
(* time is a whole number of units, the finest a fire time is given in, so *)
(* that "one nanosecond before a fire time" is the unit before it as far   *)
(* as fire times can tell.  An interval ("@every 1h") has no fire times of *)
(* its own: Next is one interval after whatever time it is given, in whole *)
(* seconds, so a nanosecond before a second is the second before.          *)
(***************************************************************************)
EXTENDS Integers, FiniteSets, Verdict

CONSTANTS
  Schedules,    \* the cron expressions a CronJob may have, sets of fire times
  Intervals,    \* the @every intervals it may have instead
  Nows,         \* the times at which the question is asked
  Starts,       \* the times at which the last run may have started
  MinWindow,    \* the smallest search window (one hour)
  MaxLookback,  \* maxLookback (400 days)
  MaxProbes,    \* maxProbes (2000)
  Grace,        \* MissedGracePeriod (5 minutes)
  NoTime        \* "no such time"

ASSUME ScheduleAssumption ==
  /\ \A S \in Schedules : S \subseteq Int
  /\ Intervals \subseteq Nat \ {0}
  /\ Nows \subseteq Int /\ Starts \subseteq Int
  /\ MinWindow \in Nat \ {0} /\ MaxLookback \in Nat
  /\ MinWindow <= MaxLookback
  /\ MaxProbes \in Nat \ {0} /\ Grace \in Nat
  /\ NoTime \notin Int

VARIABLES
  fires,      \* the schedule's fire times, none if it is an interval
  every,      \* the interval, or NoTime
  now,        \* the time of the question
  resolves,   \* do the expression and the time zone parse?
  suspended,  \* spec.suspend
  last,       \* start of the last recorded run, or NoTime
  running,    \* is that run still going?
  pc,         \* where IsMissed is
  second,     \* is this its second PrevRun?
  to,         \* the time this PrevRun is asked about
  window,     \* its current search window
  at,         \* walk's position
  prev,       \* the last occurrence walk has found, or NoTime
  probes,     \* occurrences walk has stepped over
  cut,        \* has a walk been cut short by maxProbes?
  missed      \* the verdict

question == <<fires, every, now, resolves, suspended, last, running>>
search   == <<to, window, at, prev, probes>>
vars     == <<question, pc, second, search, cut, missed>>

\* Every variable keeps its type.
TypeOK ==
  /\ fires \subseteq Int /\ now \in Int
  /\ every \in (Nat \ {0}) \cup {NoTime}
  /\ every # NoTime => fires = {}
  /\ resolves \in BOOLEAN /\ suspended \in BOOLEAN
  /\ last \in Int \cup {NoTime} /\ running \in BOOLEAN
  /\ pc \in {"ask", "walk", "walked", "found", "none", "done"}
  /\ second \in BOOLEAN
  /\ to \in Int /\ at \in Int /\ prev \in Int \cup {NoTime}
  /\ window \in 0..MaxLookback
  /\ probes \in 0..MaxProbes
  /\ cut \in BOOLEAN /\ missed \in BOOLEAN

Init ==
  /\ \/ fires \in Schedules /\ every = NoTime
     \/ fires = {} /\ every \in Intervals
  /\ now \in Nows
  /\ resolves \in BOOLEAN /\ suspended \in BOOLEAN
  /\ last \in {s \in Starts : s <= now} \cup {NoTime}
  /\ running \in (IF last = NoTime THEN {FALSE} ELSE BOOLEAN)
  /\ pc = "ask" /\ second = FALSE
  /\ to = now /\ window = 0 /\ at = now /\ prev = NoTime /\ probes = 0
  /\ cut = FALSE /\ missed = FALSE

-----------------------------------------------------------------------------
(* PrevRun                                                                 *)

\* The times after t that s.Next(t) knows of: the fire times, or the interval
\* counted from t.
Ahead(t) == IF every = NoTime THEN {f \in fires : f > t} ELSE {t + every}

\* s.Next(t): the first of them, if there is one.
IsNext(n, t) == n \in Ahead(t) /\ \A f \in Ahead(t) : n <= f

Clamp(w) == IF w > MaxLookback THEN MaxLookback ELSE w

FirstWindow(gap) == Clamp(IF 2 * gap < MinWindow THEN MinWindow ELSE 2 * gap)

\* walk starts at the far end of the window.
StartWalk(t, w) ==
  /\ to' = t /\ window' = w /\ at' = t - w
  /\ prev' = NoTime /\ probes' = 0
  /\ pc' = "walk"

\* The first window is twice the cadence, which estimateCadence takes from the
\* next two occurrences; it answers maxLookback when there are no two.
PrevRun(t) ==
  \/ \E first \in Ahead(t) :
       /\ IsNext(first, t)
       /\ \E next \in Ahead(first) : /\ IsNext(next, first)
                                    /\ StartWalk(t, FirstWindow(next - first))
  \/ /\ \A first \in Ahead(t) : Ahead(first) = {}
     /\ StartWalk(t, FirstWindow(MaxLookback))

\* One occurrence further, if it is not after the time asked about.
WalkStep ==
  /\ pc = "walk" /\ probes < MaxProbes
  /\ \E n \in Ahead(at) :
       /\ IsNext(n, at) /\ n <= to
       /\ prev' = n /\ at' = n
  /\ probes' = probes + 1
  /\ UNCHANGED <<question, pc, second, to, window, cut, missed>>

\* Mutant of WalkEnd: the walk ends at the first occurrence it finds.
WalkEndFirst ==
  /\ pc = "walk"
  /\ prev # NoTime \/ \A f \in Ahead(at) : f > to
  /\ pc' = "walked"
  /\ UNCHANGED <<question, second, search, cut, missed>>

\* No further occurrence, or maxProbes used up.
WalkEnd ==
  /\ pc = "walk"
  /\ probes = MaxProbes \/ \A f \in Ahead(at) : f > to
  /\ pc' = "walked"
  /\ cut' = (cut \/ \E f \in Ahead(at) : f <= to)
  /\ UNCHANGED <<question, second, search, missed>>

\* Mutant of Widen: the window is not widened.
WidenNever ==
  /\ pc = "walked" /\ prev = NoTime
  /\ IF window >= MaxLookback
     THEN pc' = "none" /\ UNCHANGED search
     ELSE StartWalk(to, window)
  /\ UNCHANGED <<question, second, cut, missed>>

Return ==
  /\ pc = "walked" /\ prev # NoTime
  /\ pc' = "found"
  /\ UNCHANGED <<question, second, search, cut, missed>>

\* Four times the window, until maxLookback has been searched.
Widen ==
  /\ pc = "walked" /\ prev = NoTime
  /\ IF window >= MaxLookback
     THEN pc' = "none" /\ UNCHANGED search
     ELSE StartWalk(to, Clamp(4 * window))
  /\ UNCHANGED <<question, second, cut, missed>>

-----------------------------------------------------------------------------
(* IsMissed                                                                *)

Answer(verdict) == pc' = "done" /\ missed' = verdict

Ask ==
  /\ pc = "ask"
  /\ IF suspended \/ ~resolves
     THEN Answer(FALSE) /\ UNCHANGED search
     ELSE PrevRun(now) /\ UNCHANGED missed
  /\ UNCHANGED <<question, second, cut>>

\* No occurrence to judge.
Unknown ==
  /\ pc = "none"
  /\ Answer(FALSE)
  /\ UNCHANGED <<question, second, search, cut>>

InGrace == ~second /\ now - prev <= Grace

\* Mutant of StepBack: a run due within the grace period ends the question.
StepBackNever ==
  /\ pc = "found" /\ InGrace
  /\ Answer(FALSE)
  /\ UNCHANGED <<question, second, search, cut>>

\* The occurrence is too recent to judge: the one before it is judged, if
\* there has been a run at all.
StepBack ==
  /\ pc = "found" /\ InGrace
  /\ IF last = NoTime
     THEN Answer(FALSE) /\ UNCHANGED <<second, search>>
     ELSE PrevRun(prev - 1) /\ second' = TRUE /\ UNCHANGED missed
  /\ UNCHANGED <<question, cut>>

\* Mutant of Judge: a run in flight does not count.
JudgeRunning ==
  /\ pc = "found" /\ ~InGrace
  /\ Answer(last = NoTime \/ last < prev)
  /\ UNCHANGED <<question, second, search, cut>>

Judge ==
  /\ pc = "found" /\ ~InGrace
  /\ Answer(last = NoTime \/ (~running /\ last < prev))
  /\ UNCHANGED <<question, second, search, cut>>

Next ==
  Ask \/ WalkStep \/ WalkEnd \/ Return \/ Widen \/ Unknown \/ StepBack \/ Judge

Spec == Init /\ [][Next]_vars

\* One sequential function call: it goes on until it returns.
FairSpec == Spec /\ WF_vars(Next)

-----------------------------------------------------------------------------
(* Properties *)

\* Is the schedule a cron expression, with fire times of its own?
Fixed == every = NoTime

InWindow == {f \in (to - window + 1)..to : f \in fires}

\* PrevRun returns the latest occurrence of a cron expression not after the time
\* asked about, be it regular or irregular, as long as the window it settles on
\* holds no more occurrences than walk may step over.
PrevRunIsLatest ==
  Fixed /\ pc = "found" /\ Cardinality(InWindow) <= MaxProbes =>
    /\ prev \in fires /\ prev <= to
    /\ \A f \in fires : f <= to => f <= prev

\* PrevRun gives up only when the expression really has no occurrence within
\* maxLookback: the guessed window never hides one.
NoneMeansNone ==
  pc = "none" => \A f \in fires : f <= to => f <= to - MaxLookback

\* An occurrence within maxLookback that is past its grace period and has no
\* run since.
Overdue(f) ==
  /\ f \in fires /\ now - f > Grace /\ now - f < MaxLookback
  /\ last = NoTime \/ (~running /\ last < f)

\* A job that ran before and has gone silent is reported whenever it is asked
\* about, also while its newest occurrence is within the grace period and the
\* search has to step back to the one before.
SilenceIsReported ==
  pc = "done" /\ ~suspended /\ resolves /\ ~cut /\ last # NoTime
    /\ (\E f \in fires : Overdue(f))
      => missed

\* The search, with its guessed windows, its second question and its limits,
\* gives the verdict of module Verdict on every cron expression: nothing else
\* decides it, unless a walk was cut short or the occurrence to judge is not
\* within maxLookback.
VerdictIsRight ==
  /\ Fixed /\ pc = "done" /\ ~cut
  /\ \A f \in fires :
       Due(fires, Grace, f, now, last # NoTime) => now - f < MaxLookback
  => (missed <=> /\ resolves /\ ~suspended
                 /\ Silent(fires, Grace, now, last # NoTime, running, last))

\* Occurrences are further apart than the grace period.
Sparse == /\ \A f, g \in fires : f < g => g - f > Grace
          /\ Fixed \/ every > Grace

\* No false alarm: no CronJob is reported that is suspended or running, and with
\* a cron expression a missed run is an occurrence past its grace period without
\* a run since.  (An expression denser than the grace period may be reported
\* within it.)
AlarmIsReal ==
  pc = "done" /\ missed =>
    /\ ~suspended /\ resolves /\ ~running
    /\ Fixed => \E f \in fires : /\ f <= now /\ (last = NoTime \/ last < f)
                                 /\ Sparse => now - f > Grace

\* next.go, MissedGracePeriod: "how long after a scheduled fire time a run may
\* still appear before the schedule counts as missed".  So a CronJob whose last
\* run started within the grace period has missed nothing, whatever was due
\* since, unless its occurrences are as close as that.  It holds of cron
\* expressions; the step back breaks it for intervals.
GraceIsGiven ==
  pc = "done" /\ missed /\ last # NoTime /\ Sparse => now - last > Grace

\* The search comes to an end.
Answers == <>(pc = "done")

-----------------------------------------------------------------------------
(* The inductive invariant behind the properties above.                    *)

\* The occurrences walk has stepped over.
Passed == {f \in (to - window + 1)..at : f \in fires}

\* Where walk stands, and what it has counted.
WalkInv ==
  pc \in {"walk", "walked", "found", "none"} =>
    /\ window > 0
    /\ to - window <= at /\ at <= to
    /\ prev = NoTime => at = to - window /\ probes = 0
    /\ prev # NoTime => prev = at /\ (Fixed => prev \in fires)
    /\ Fixed => probes = Cardinality(Passed)

\* What the end of a walk tells.
EndInv ==
  /\ pc \in {"walked", "found"} /\ (probes # MaxProbes \/ ~cut) =>
       \A f \in fires : ~(at < f /\ f <= to)
  /\ pc = "found" => prev # NoTime
  /\ pc = "none" => /\ prev = NoTime /\ window = MaxLookback
                    /\ \A f \in fires : ~(at < f /\ f <= to)

\* The second search is about the time before an occurrence within the grace
\* period, the latest one if no walk was cut short.
QuestionInv ==
  /\ last = NoTime => ~running
  /\ pc # "done" => ~missed
  /\ pc = "ask" => ~second
  /\ pc \notin {"ask", "done"} => ~suspended /\ resolves
  /\ ~second => to = now
  /\ second => /\ Fixed => to + 1 \in fires
               /\ to + 1 <= now /\ now - (to + 1) <= Grace
               /\ last # NoTime
               /\ ~cut => \A f \in fires : f <= now => f <= to + 1

SearchInv ==
  /\ TypeOK /\ WalkInv /\ EndInv /\ QuestionInv
  /\ VerdictIsRight /\ SilenceIsReported /\ AlarmIsReal
=============================================================================
