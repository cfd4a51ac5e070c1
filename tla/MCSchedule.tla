----------------------------- MODULE MCSchedule -----------------------------
(* Instances of Schedule for TLC: every pattern of fire times in a cycle,  *)
(* repeated over all the times a search can reach, and the schedule that   *)
(* never fires.                                                            *)
EXTENDS Schedule

CONSTANTS Cycle, Horizon

Patterns == SUBSET (0..(Cycle - 1))
Times    == (0 - Horizon)..(3 * Cycle)
Cyclic   == {{t \in Times : t % Cycle \in p} : p \in Patterns}
Asked    == 0..(Cycle - 1)
Started  == (0 - Cycle - Cycle)..(Cycle - 1)
=============================================================================
