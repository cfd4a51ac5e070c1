--------------------------- MODULE MCRunRecorder ---------------------------
(* Instances of RunRecorder for TLC. *)
EXTENDS RunRecorder, TLC

CONSTANTS j1, j2

\* One Job with two attempts, or with one.
OnePods    == {1, 2}
OneJob     == [p \in OnePods |-> j1]
SinglePod  == {1}
SingleJob  == (1 :> j1)
OneName    == (j1 :> "backup-1")

\* A second Job without a Pod.
TwoNames   == (j1 :> "backup-1" @@ j2 :> "backup-2")
=============================================================================
