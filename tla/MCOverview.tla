---------------------------- MODULE MCOverview -----------------------------
(* The constants of Overview for TLC. *)
EXTENDS Overview, TLC

\* Every fourth unit of time, with one occurrence in the past.
EveryFourth == {-4, 0, 4}

SameCronJob == [r \in Runs |-> CHOOSE x \in CronJobs : TRUE]

\* Runs of one CronJob.
RunSymmetry == Permutations(Runs)
=============================================================================
