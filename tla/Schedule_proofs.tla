-------------------------- MODULE Schedule_proofs --------------------------
(***************************************************************************)
(* Proofs about Schedule, for every set of cron expressions and intervals, *)
(* every time and every choice of window, lookback, probe limit and grace  *)
(* period: what PrevRun returns, and when IsMissed raises an alarm.        *)
(***************************************************************************)
EXTENDS Schedule, FiniteSetTheorems, TLAPS

\* The fire times in a bounded stretch of time are finitely many.
LEMMA StretchFinite ==
  ASSUME NEW a \in Int, NEW b \in Int, NEW F
  PROVE  IsFiniteSet({f \in a..b : f \in F})
BY FS_Interval, FS_Subset, {f \in a..b : f \in F} \subseteq a..b

\* Next leads forward, on expressions and intervals alike, and only an expression
\* has fire times that a search can miss.
LEMMA AheadIsLater ==
  ASSUME TypeOK, NEW t \in Int
  PROVE  /\ \A f \in Ahead(t) : f \in Int /\ f > t
         /\ \A f \in fires : f > t => f \in Ahead(t)
         /\ fires # {} => Fixed
<1>1. CASE every = NoTime
  BY <1>1 DEF TypeOK, Ahead, Fixed
<1>2. CASE every # NoTime
  <2>1. every \in Nat \ {0} /\ fires = {} /\ Ahead(t) = {t + every}
    BY <1>2 DEF TypeOK, Ahead
  <2> QED BY <2>1
<1> QED BY <1>1, <1>2

\* A step to the next occurrence adds that one to the occurrences passed, and
\* counts it.
LEMMA PassOne ==
  ASSUME fires \subseteq Int, Fixed, NEW a \in Int, NEW b \in Int, a <= b + 1,
         NEW n, IsNext(n, b)
  PROVE  Cardinality({f \in a..n : f \in fires})
           = Cardinality({f \in a..b : f \in fires}) + 1
<1> DEFINE S == {f \in a..b : f \in fires}
<1>0. n \in fires /\ n > b /\ \A f \in fires : f > b => n <= f
  BY DEF IsNext, Ahead, Fixed
<1>1. {f \in a..n : f \in fires} = S \cup {n}
  BY <1>0
<1>2. n \notin S
  BY <1>0
<1>3. IsFiniteSet(S)
  BY StretchFinite
<1> QED
  BY <1>1, <1>2, <1>3, FS_AddElement

\* Nothing has been passed at the start of a walk.
LEMMA PassNone ==
  ASSUME NEW a \in Int, NEW F
  PROVE  Cardinality({f \in (a + 1)..a : f \in F}) = 0
<1>1. {f \in (a + 1)..a : f \in F} = {}
  OBVIOUS
<1> QED
  BY <1>1, FS_EmptySet

\* The first window, and every wider one, is positive and within the lookback.
LEMMA Windows ==
  /\ \A gap \in Int : FirstWindow(gap) \in 1..MaxLookback
  /\ \A w \in Nat \ {0} : Clamp(4 * w) \in 1..MaxLookback
BY ScheduleAssumption DEF FirstWindow, Clamp

\* A new walk starts with nothing found.
LEMMA WalkStarts ==
  ASSUME TypeOK, fires' = fires, every' = every, NEW t \in Int,
         NEW w \in 1..MaxLookback, StartWalk(t, w)
  PROVE  /\ to' = t /\ window' \in 1..MaxLookback /\ at' \in Int
         /\ prev' = NoTime /\ probes' = 0 /\ pc' = "walk"
         /\ WalkInv' /\ EndInv'
<1>1. /\ to' = t /\ window' = w /\ at' = t - w
      /\ prev' = NoTime /\ probes' = 0 /\ pc' = "walk"
  BY DEF StartWalk
<1>2. w \in Int /\ t - w \in Int
  BY ScheduleAssumption
<1>3. Cardinality(Passed') = 0
  <2>1. Passed' = {f \in (t - w + 1)..(t - w) : f \in fires}
    BY <1>1 DEF Passed
  <2> QED
    BY <2>1, <1>2, PassNone
<1>4. WalkInv'
  BY <1>1, <1>2, <1>3, ScheduleAssumption DEF WalkInv
<1>5. EndInv'
  BY <1>1 DEF EndInv
<1> QED
  BY <1>1, <1>2, <1>4, <1>5

\* PrevRun starts a walk about the time it is asked about.
LEMMA PrevRunStarts ==
  ASSUME TypeOK, fires' = fires, every' = every, NEW t \in Int, PrevRun(t)
  PROVE  /\ to' = t /\ window' \in 1..MaxLookback /\ at' \in Int
         /\ prev' = NoTime /\ probes' = 0 /\ pc' = "walk"
         /\ WalkInv' /\ EndInv'
<1>1. PICK w \in 1..MaxLookback : StartWalk(t, w)
  <2>1. \A first \in Ahead(t) : \A next \in Ahead(first) : next - first \in Int
    <3>1. ASSUME NEW first \in Ahead(t), NEW next \in Ahead(first)
          PROVE  next - first \in Int
      <4>1. first \in Int
        BY <3>1, AheadIsLater
      <4>2. next \in Int
        BY <3>1, <4>1, AheadIsLater
      <4> QED BY <4>1, <4>2
    <3> QED BY <3>1
  <2>2. CASE \E first \in Ahead(t) :
               \E next \in Ahead(first) : StartWalk(t, FirstWindow(next - first))
    BY <2>1, <2>2, Windows
  <2>3. CASE StartWalk(t, FirstWindow(MaxLookback))
    BY <2>3, Windows, ScheduleAssumption
  <2> QED BY <2>2, <2>3 DEF PrevRun
<1> QED
  BY <1>1, WalkStarts

\* Walking and widening keep the invariant; no verdict is reached there.
LEMMA SearchSteps ==
  ASSUME SearchInv, WalkStep \/ WalkEnd \/ Return \/ Widen
  PROVE  SearchInv'
<1> USE ScheduleAssumption DEF SearchInv, TypeOK, question, search
<1>0. (VerdictIsRight /\ SilenceIsReported /\ AlarmIsReal)'
  BY DEF VerdictIsRight, SilenceIsReported, AlarmIsReal, WalkStep, WalkEnd,
         Return, Widen, StartWalk
<1>1. CASE WalkStep
  <2>1. PICK n \in Ahead(at) : IsNext(n, at) /\ n <= to /\ prev' = n /\ at' = n
    BY <1>1 DEF WalkStep
  <2>0. n \in Int /\ n > at /\ (Fixed => n \in fires)
    BY <2>1, AheadIsLater DEF Ahead, Fixed
  <2>2. /\ pc = "walk" /\ pc' = "walk" /\ probes < MaxProbes
        /\ probes' = probes + 1
        /\ UNCHANGED <<question, second, to, window, cut, missed>>
    BY <1>1 DEF WalkStep
  <2>3. Fixed => Cardinality(Passed') = Cardinality(Passed) + 1
    <3>1. Passed' = {f \in (to - window + 1)..n : f \in fires}
      BY <2>1, <2>2 DEF Passed
    <3>2. to - window + 1 \in Int /\ to - window + 1 <= at + 1
      BY <2>2 DEF WalkInv
    <3> QED
      BY <3>1, <3>2, <2>1, PassOne DEF Passed
  <2>4. TypeOK'
    BY <2>0, <2>1, <2>2
  <2>5. WalkInv'
    BY <2>0, <2>1, <2>2, <2>3 DEF WalkInv, Fixed
  <2>6. EndInv' /\ QuestionInv'
    BY <2>2 DEF EndInv, QuestionInv, Fixed
  <2> QED
    BY <1>0, <2>4, <2>5, <2>6
<1>2. CASE WalkEnd
  <2>1. /\ pc = "walk" /\ pc' = "walked"
        /\ probes = MaxProbes \/ \A f \in Ahead(at) : f > to
        /\ cut' = (cut \/ \E f \in Ahead(at) : f <= to)
        /\ UNCHANGED <<question, second, search, missed>>
    BY <1>2 DEF WalkEnd
  <2>2. TypeOK' /\ QuestionInv'
    BY <2>1 DEF QuestionInv, Fixed
  <2>3. WalkInv'
    BY <2>1 DEF WalkInv, Passed, Fixed
  <2>4. EndInv'
    <3>1. \A f \in fires : f > at => f \in Ahead(at)
      BY AheadIsLater
    <3> QED BY <2>1, <3>1 DEF EndInv
  <2> QED
    BY <1>0, <2>2, <2>3, <2>4
<1>3. CASE Return
  <2>1. /\ pc = "walked" /\ pc' = "found" /\ prev # NoTime
        /\ UNCHANGED <<question, second, search, cut, missed>>
    BY <1>3 DEF Return
  <2> QED
    BY <1>0, <2>1 DEF WalkInv, EndInv, QuestionInv, Passed, Fixed
<1>4. CASE Widen
  <2>1. /\ pc = "walked" /\ prev = NoTime
        /\ UNCHANGED <<question, second, cut, missed>>
    BY <1>4 DEF Widen
  <2>2. CASE window >= MaxLookback
    <3>1. pc' = "none" /\ UNCHANGED search
      BY <1>4, <2>2 DEF Widen
    <3> QED
      BY <1>0, <2>1, <2>2, <3>1 DEF WalkInv, EndInv, QuestionInv, Passed, Fixed
  <2>3. CASE ~(window >= MaxLookback)
    <3>1. StartWalk(to, Clamp(4 * window))
      BY <1>4, <2>3 DEF Widen
    <3>2. Clamp(4 * window) \in 1..MaxLookback
      BY Windows, <2>1 DEF WalkInv
    <3>3. /\ to' = to /\ window' \in 1..MaxLookback /\ at' \in Int
          /\ prev' = NoTime /\ probes' = 0 /\ pc' = "walk"
          /\ WalkInv' /\ EndInv'
      BY <2>1, <3>1, <3>2, WalkStarts
    <3> QED
      BY <1>0, <2>1, <3>3 DEF QuestionInv
  <2> QED
    BY <2>2, <2>3
<1> QED
  BY <1>1, <1>2, <1>3, <1>4

\* A question that is answered at once, or that starts a search.
LEMMA AskStep ==
  ASSUME SearchInv, Ask
  PROVE  SearchInv'
<1> USE ScheduleAssumption DEF SearchInv, TypeOK, question, search
<1>1. pc = "ask" /\ UNCHANGED <<question, second, cut>>
  BY DEF Ask
<1>2. CASE suspended \/ ~resolves
  <2>1. pc' = "done" /\ missed' = FALSE /\ UNCHANGED search
    BY <1>2 DEF Ask, Answer
  <2> QED
    BY <1>1, <1>2, <2>1 DEF WalkInv, EndInv, QuestionInv, VerdictIsRight,
       SilenceIsReported, AlarmIsReal, Overdue, Passed, Fixed
<1>3. CASE ~(suspended \/ ~resolves)
  <2>1. PrevRun(now) /\ UNCHANGED missed
    BY <1>3 DEF Ask
  <2>2. /\ to' = now /\ window' \in 1..MaxLookback /\ at' \in Int
        /\ prev' = NoTime /\ probes' = 0 /\ pc' = "walk"
        /\ WalkInv' /\ EndInv'
    BY <1>1, <2>1, PrevRunStarts
  <2>3. VerdictIsRight' /\ SilenceIsReported' /\ AlarmIsReal'
    BY <2>2 DEF VerdictIsRight, SilenceIsReported, AlarmIsReal
  <2>4. QuestionInv'
    BY <1>1, <1>3, <2>1, <2>2 DEF QuestionInv
  <2>5. second' = second /\ cut' = cut /\ missed' = missed
    BY <1>1, <2>1
  <2>6. TypeOK'
    BY <1>1, <2>2, <2>5
  <2> QED
    BY <2>2, <2>3, <2>4, <2>6
<1> QED
  BY <1>2, <1>3

\* The verdict after a search that found nothing is right: there is nothing to
\* judge.
LEMMA UnknownStep ==
  ASSUME SearchInv, Unknown
  PROVE  SearchInv'
<1> USE ScheduleAssumption DEF SearchInv, TypeOK, question, search
<1>1. /\ pc = "none" /\ pc' = "done" /\ missed' = FALSE
      /\ UNCHANGED <<question, second, search, cut>>
  BY DEF Unknown, Answer
<1>2. \A f \in fires : f <= to => f <= to - MaxLookback
  BY <1>1 DEF WalkInv, EndInv
<1>3. ASSUME NEW f \in fires, Overdue(f), last # NoTime PROVE FALSE
  <2>1. f <= to
    BY <1>3 DEF Overdue, QuestionInv
  <2> QED
    BY <1>1, <1>2, <1>3, <2>1 DEF Overdue, QuestionInv
<1>4. SilenceIsReported'
  BY <1>1, <1>3 DEF SilenceIsReported, Overdue
<1>5. AlarmIsReal' /\ WalkInv' /\ EndInv' /\ QuestionInv'
  BY <1>1 DEF AlarmIsReal, WalkInv, EndInv, QuestionInv
<1>6. VerdictIsRight'
  <2>1. ASSUME ~cut, NEW f \in fires,
               Due(fires, Grace, f, now, last # NoTime), now - f < MaxLookback
        PROVE  FALSE
    <3>1. CASE ~second
      BY <1>2, <2>1, <3>1 DEF QuestionInv, Due, Latest
    <3>2. CASE second
      <4>1. /\ to + 1 \in fires /\ to + 1 <= now /\ now - (to + 1) <= Grace
            /\ \A g \in fires : g <= now => g <= to + 1
        BY <2>1, <3>2 DEF QuestionInv
      <4>2. f <= to
        BY <2>1, <4>1 DEF Due, Latest
      <4> QED
        BY <1>2, <2>1, <4>1, <4>2
    <3> QED
      BY <3>1, <3>2
  <2> QED
    BY <1>1, <2>1 DEF VerdictIsRight, Silent
<1> QED
  BY <1>1, <1>4, <1>5, <1>6

\* The newest occurrence is in its grace period: the verdict is withheld from
\* a job that never ran, and the one before is searched for otherwise.
LEMMA StepBackStep ==
  ASSUME SearchInv, StepBack
  PROVE  SearchInv'
<1> USE ScheduleAssumption DEF SearchInv, TypeOK, question, search
<1>1. /\ pc = "found" /\ InGrace /\ UNCHANGED <<question, cut>>
  BY DEF StepBack
<1>2. CASE last = NoTime
  <2>1. pc' = "done" /\ missed' = FALSE /\ UNCHANGED <<second, search>>
    BY <1>2 DEF StepBack, Answer
  <2>2. VerdictIsRight'
    <3>1. /\ Fixed => prev \in fires
          /\ prev \in Int /\ prev <= now /\ now - prev <= Grace
      BY <1>1 DEF WalkInv, EndInv, InGrace, QuestionInv
    <3>2. Fixed => \A f \in fires : ~Due(fires, Grace, f, now, last # NoTime)
      BY <1>2, <3>1 DEF Due, Latest
    <3> QED
      BY <1>1, <2>1, <3>2 DEF VerdictIsRight, Silent, Fixed
  <2> QED
    BY <1>1, <1>2, <2>1, <2>2 DEF SilenceIsReported, AlarmIsReal, WalkInv, EndInv,
       QuestionInv
<1>3. CASE last # NoTime
  <2>1. PrevRun(prev - 1) /\ second' = TRUE /\ UNCHANGED missed
    BY <1>3 DEF StepBack
  <2>2. /\ Fixed => prev \in fires
        /\ prev \in Int /\ prev <= now /\ now - prev <= Grace
    BY <1>1 DEF WalkInv, EndInv, InGrace, QuestionInv
  <2>3. /\ to' = prev - 1 /\ window' \in 1..MaxLookback /\ at' \in Int
        /\ prev' = NoTime /\ probes' = 0 /\ pc' = "walk"
        /\ WalkInv' /\ EndInv'
    BY <1>1, <2>1, <2>2, PrevRunStarts
  <2>4. VerdictIsRight' /\ SilenceIsReported' /\ AlarmIsReal'
    BY <2>3 DEF VerdictIsRight, SilenceIsReported, AlarmIsReal
  <2>5. to' + 1 = prev
    BY <2>2, <2>3
  <2>6. ~cut => \A f \in fires : f <= now => f <= prev
    BY <1>1 DEF WalkInv, EndInv, InGrace, QuestionInv
  <2>7. QuestionInv'
    BY <1>1, <1>3, <2>1, <2>2, <2>3, <2>5, <2>6 DEF QuestionInv, Fixed
  <2> QED
    BY <1>1, <2>1, <2>2, <2>3, <2>4, <2>7
<1> QED
  BY <1>2, <1>3

\* An occurrence found outside the grace period, or by the second search, is the
\* one to judge.
LEMMA FoundIsDue ==
  ASSUME SearchInv, pc = "found", ~InGrace, ~cut, NEW f \in fires
  PROVE  Due(fires, Grace, f, now, last # NoTime) <=> f = prev
<1> USE ScheduleAssumption DEF SearchInv, TypeOK, Fixed
<1>1. prev \in fires /\ prev \in Int /\ f \in Int /\ Latest(fires, prev, to)
  BY DEF WalkInv, EndInv, Latest
<1>2. CASE ~second
  BY <1>1, <1>2 DEF Due, Latest, InGrace, QuestionInv
<1>3. CASE second
  <2>1. /\ last # NoTime
        /\ Latest(fires, to + 1, now) /\ now - (to + 1) <= Grace
    BY <1>3 DEF QuestionInv, Latest
  <2>2. \A g \in fires : Latest(fires, g, now) => g = to + 1
    BY <2>1 DEF Latest
  <2>3. Due(fires, Grace, f, now, last # NoTime) <=> Latest(fires, f, to)
    <3>1. to + 1 - 1 = to
      OBVIOUS
    <3> QED
      BY <2>1, <2>2, <3>1 DEF Due, Latest
  <2> QED
    BY <1>1, <2>3 DEF Latest
<1> QED
  BY <1>2, <1>3

\* The verdict on the occurrence that was found is right.
LEMMA JudgeStep ==
  ASSUME SearchInv, Judge
  PROVE  SearchInv'
<1> USE ScheduleAssumption DEF SearchInv, TypeOK, question, search
<1>1. /\ pc = "found" /\ ~InGrace /\ pc' = "done"
      /\ missed' = (last = NoTime \/ (~running /\ last < prev))
      /\ UNCHANGED <<question, second, search, cut>>
  BY DEF Judge, Answer
<1>2. /\ Fixed => prev \in fires
      /\ prev \in Int /\ prev <= to /\ prev = at
  BY <1>1 DEF WalkInv, EndInv
<1>3. SilenceIsReported'
  <2>1. ASSUME ~cut, last # NoTime, NEW f \in fires, Overdue(f)
        PROVE  ~running /\ last < prev
    <3>1. f <= to
      BY <2>1 DEF Overdue, QuestionInv
    <3>2. f <= prev
      BY <1>1, <1>2, <2>1, <3>1 DEF EndInv
    <3> QED
      BY <1>2, <2>1, <3>2 DEF Overdue
  <2> QED
    BY <1>1, <2>1 DEF SilenceIsReported, Overdue
<1>4. AlarmIsReal'
  <2>1. Fixed /\ Sparse => now - prev > Grace
    BY <1>1, <1>2 DEF Sparse, InGrace, QuestionInv
  <2>2. ~suspended /\ resolves /\ prev <= now
    BY <1>1, <1>2 DEF QuestionInv
  <2>3. missed' => ~running /\ (last = NoTime \/ last < prev)
    BY <1>1 DEF QuestionInv
  <2> QED
    BY <1>1, <1>2, <2>1, <2>2, <2>3 DEF AlarmIsReal, Sparse, Fixed
<1>5. WalkInv' /\ EndInv' /\ QuestionInv'
  BY <1>1 DEF WalkInv, EndInv, QuestionInv, Fixed
<1>6. TypeOK'
  BY <1>1
<1>7. ~cut => \A f \in fires :
                Due(fires, Grace, f, now, last # NoTime) <=> f = prev
  BY <1>1, FoundIsDue
<1>8. VerdictIsRight'
  <2>1. ~suspended /\ resolves
    BY <1>1 DEF QuestionInv
  <2>2. Fixed /\ ~cut => (missed' <=> Silent(fires, Grace, now, last # NoTime, running, last))
    BY <1>1, <1>2, <1>7 DEF Silent, Fixed
  <2> QED
    BY <1>1, <2>1, <2>2 DEF VerdictIsRight, Fixed
<1> QED
  BY <1>3, <1>4, <1>5, <1>6, <1>8

\* SearchInv holds when the question is asked ...
LEMMA SearchInvInit == Init => SearchInv
<1> SUFFICES ASSUME Init PROVE SearchInv
  OBVIOUS
<1>1. /\ fires \subseteq Int /\ now \in Int /\ last \in Int \cup {NoTime}
      /\ every \in (Nat \ {0}) \cup {NoTime} /\ (every # NoTime => fires = {})
      /\ resolves \in BOOLEAN /\ suspended \in BOOLEAN
  BY ScheduleAssumption DEF Init
<1>2. running \in BOOLEAN /\ (last = NoTime => ~running)
  BY DEF Init
<1>3. /\ pc = "ask" /\ second = FALSE /\ to = now /\ window = 0 /\ at = now
      /\ prev = NoTime /\ probes = 0 /\ cut = FALSE /\ missed = FALSE
  BY DEF Init
<1>4. TypeOK
  <2>1. window \in 0..MaxLookback /\ probes \in 0..MaxProbes
    BY <1>3, ScheduleAssumption
  <2>2. /\ to \in Int /\ at \in Int /\ prev \in Int \cup {NoTime}
        /\ pc \in {"ask", "walk", "walked", "found", "none", "done"}
    BY <1>1, <1>3
  <2>3. second \in BOOLEAN /\ cut \in BOOLEAN /\ missed \in BOOLEAN
    BY <1>3
  <2> QED
    BY <1>1, <1>2, <2>1, <2>2, <2>3, Zenon DEF TypeOK
<1>5. QuestionInv
  BY <1>2, <1>3 DEF QuestionInv
<1> QED
  BY <1>3, <1>4, <1>5
     DEF SearchInv, WalkInv, EndInv, VerdictIsRight, SilenceIsReported,
         AlarmIsReal

\* ... and every step keeps it.
LEMMA SearchInvNext == SearchInv /\ [Next]_vars => SearchInv'
<1> SUFFICES ASSUME SearchInv, [Next]_vars PROVE SearchInv'
  OBVIOUS
<1>1. CASE UNCHANGED vars
  BY <1>1 DEF vars, question, search, SearchInv, TypeOK, WalkInv, EndInv,
     QuestionInv, VerdictIsRight, SilenceIsReported, AlarmIsReal, Overdue,
     Sparse, Passed, Fixed
<1> QED
  BY <1>1, AskStep, SearchSteps, UnknownStep, StepBackStep, JudgeStep DEF Next

\* The invariant of the search, for use in the theorems.
LEMMA SearchInvariant == Spec => []SearchInv
BY SearchInvInit, SearchInvNext, PTL DEF Spec

\* The window searched holds finitely many occurrences.
LEMMA WindowFinite == ASSUME TypeOK PROVE IsFiniteSet(InWindow)
<1>1. to - window + 1 \in Int /\ to \in Int
  BY ScheduleAssumption DEF TypeOK
<1> QED
  BY <1>1, StretchFinite DEF InWindow

\* PrevRun returns the latest occurrence of whatever cron expression, unless the
\* window it settled on holds more occurrences than maxProbes.
THEOREM PrevRunFindsLatest == Spec => []PrevRunIsLatest
<1>1. ASSUME SearchInv PROVE PrevRunIsLatest
  <2> SUFFICES ASSUME Fixed, pc = "found", Cardinality(InWindow) <= MaxProbes
               PROVE  /\ prev \in fires /\ prev <= to
                      /\ \A f \in fires : f <= to => f <= prev
    BY DEF PrevRunIsLatest
  <2> USE <1>1, ScheduleAssumption DEF SearchInv, TypeOK
  <2>1. prev = at /\ prev \in fires /\ prev <= to /\ probes = Cardinality(Passed)
    BY DEF WalkInv, EndInv
  <2>2. CASE probes # MaxProbes
    BY <2>1, <2>2 DEF EndInv
  <2>3. CASE probes = MaxProbes
    <3>1. Passed \subseteq InWindow
      BY <2>1 DEF Passed, InWindow
    <3>2. IsFiniteSet(InWindow)
      BY WindowFinite
    <3>3. Passed = InWindow
      <4>1. Cardinality(Passed) <= Cardinality(InWindow)
        BY <3>1, <3>2, FS_Subset
      <4>2. Cardinality(InWindow) \in Nat
        BY <3>2, FS_CardinalityType
      <4>3. Cardinality(InWindow) = Cardinality(Passed)
        BY <2>1, <2>3, <4>1, <4>2
      <4> QED
        BY <3>1, <3>2, <4>3, FS_Subset
    <3>4. ASSUME NEW f \in fires, f <= to, prev < f PROVE FALSE
      <4>1. f \in InWindow
        BY <2>1, <3>4 DEF InWindow, WalkInv
      <4> QED
        BY <2>1, <3>3, <3>4, <4>1 DEF Passed
    <3> QED
      BY <2>1, <3>4
  <2> QED
    BY <2>2, <2>3
<1> QED
  BY <1>1, SearchInvariant, PTL

\* PrevRun gives up only on a cron expression without an occurrence in the lookback:
\* no guess of the window hides one.
THEOREM GivingUpIsRight == Spec => []NoneMeansNone
<1>1. SearchInv => NoneMeansNone
  BY ScheduleAssumption
     DEF SearchInv, TypeOK, WalkInv, EndInv, NoneMeansNone
<1> QED
  BY <1>1, SearchInvariant, PTL

\* The search of IsMissed computes the closed form of its verdict, for every cron
\* expression and every choice of the windows and limits that cut no walk short.
\* (Of an @every interval the closed form says nothing: it has no fire times.)
THEOREM SearchIsExact == Spec => []VerdictIsRight
<1>1. SearchInv => VerdictIsRight
  BY DEF SearchInv
<1> QED
  BY <1>1, SearchInvariant, PTL

\* IsMissed reports every job of a cron expression that has gone silent, at every
\* moment, when no walk was cut short.
THEOREM SilentJobsAreReported == Spec => []SilenceIsReported
<1>1. SearchInv => SilenceIsReported
  BY DEF SearchInv
<1> QED
  BY <1>1, SearchInvariant, PTL

\* IsMissed raises no false alarm on a cron expression sparser than the grace
\* period, and none at all for a suspended or running CronJob.
THEOREM AlarmsAreReal == Spec => []AlarmIsReal
<1>1. SearchInv => AlarmIsReal
  BY DEF SearchInv
<1> QED
  BY <1>1, SearchInvariant, PTL

\* On a sparse cron expression a CronJob that ran within the grace period is not
\* reported; on an @every interval it may be.
THEOREM ExpressionsGetGrace == Spec => [](Fixed => GraceIsGiven)
<1>1. SearchInv => (Fixed => GraceIsGiven)
  BY ScheduleAssumption
     DEF SearchInv, TypeOK, AlarmIsReal, GraceIsGiven, Sparse, Fixed
<1> QED
  BY <1>1, SearchInvariant, PTL
=============================================================================
