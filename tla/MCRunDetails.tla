---------------------------- MODULE MCRunDetails ---------------------------
(* The constants of RunDetails for TLC. *)
EXTENDS RunDetails

\* A run that prints and one that is sampled; both at once would only add the
\* interleavings of two parts that share nothing but the row's life.
Separate ==
  {[lines |-> 2, events |-> 1, metrics |-> FALSE, outcome |-> "failed",
    asked |-> {"logs", "page", "text"}],
   [lines |-> 0, events |-> 2, metrics |-> TRUE, outcome |-> "succeeded",
    asked |-> {}]}

SomeLimits == {0, 1}
=============================================================================
