--------------------------- MODULE MCLogPipeline ---------------------------
(* Instances of LogPipeline for TLC: the viewer is a model value. *)
EXTENDS LogPipeline

CONSTANT c1
=============================================================================
