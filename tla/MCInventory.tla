---------------------------- MODULE MCInventory ----------------------------
(* Instances of Inventory for TLC. *)
EXTENDS Inventory

CONSTANTS x1, r1

\* Every run belongs to the one CronJob.
SameCronJob == [r \in Runs |-> x1]
=============================================================================
