----------------------------- MODULE MCRunPages -----------------------------
(* Instances of RunPages for TLC. *)
EXTENDS RunPages, TLC

CONSTANTS a, b, c

\* A zone whose clock goes back by two ticks at 2.
ClockBack == [t \in Times |-> IF t < 2 THEN 2 * (t + 2) + 1 ELSE 2 * t]

\* Runs are told apart by nothing but their rows.
AnyRun == Permutations(PagedRuns)
=============================================================================
