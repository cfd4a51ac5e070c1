------------------------------ MODULE Verdict ------------------------------
(***************************************************************************)
(* What IsMissed of internal/schedule answers, in closed form: the         *)
(* occurrence it judges and the comparison with the last run.  Module      *)
(* Schedule searches for that occurrence step by step as the code does;    *)
(* module Overview, where the answer stands in the rows of a page, uses    *)
(* the closed form.  F is the set of the schedule's fire times.            *)
(***************************************************************************)
EXTENDS Integers

\* PrevRun: f is the latest occurrence not after t.
Latest(F, f, t) == f \in F /\ f <= t /\ \A g \in F : g <= t => g <= f

\* Mutant of Due: the grace period ends one unit early.
DueEarly(F, grace, f, t, hasRun) == Latest(F, f, t) /\ t - f >= grace

\* The occurrence that is judged at time t: the latest, or the one before it
\* while the latest is within the grace period and there is a run to compare.
Due(F, grace, f, t, hasRun) ==
  \/ Latest(F, f, t) /\ t - f > grace
  \/ /\ hasRun
     /\ \E g \in F : /\ Latest(F, g, t) /\ t - g <= grace
                     /\ Latest(F, f, g - 1)

\* Has the CronJob not run since the occurrence that is judged?  start and
\* running are those of its last run, if there is one.
Silent(F, grace, t, hasRun, running, start) ==
  \E f \in F : /\ Due(F, grace, f, t, hasRun)
               /\ hasRun => ~running /\ start < f
=============================================================================
