---------------------------- MODULE MCFrontDoor ----------------------------
(* Instances of FrontDoor for TLC. *)
EXTENDS FrontDoor, TLC

CONSTANTS t1, t2, alice, bob, home, runs, failed, ingress, tok

\* The list of failed runs is asked for with more than one parameter.
FirstOnly == [p \in {home, runs, failed} |-> IF p = failed THEN runs ELSE p]

\* OIDC alone, with a random key and a list of operators.
Sessions == [mode |-> "ui", oidc |-> TRUE, token |-> None, sessionKey |-> None,
             allowed |-> {}, operators |-> {alice}]

\* OIDC and a token, with a key that survives restarts and an allow-list.
TwoDoors == [mode |-> "ui", oidc |-> TRUE, token |-> tok, sessionKey |-> 100,
             allowed |-> {alice, Blank}, operators |-> {}]

\* The same with other lists.
Handover == [TwoDoors EXCEPT !.allowed = {bob}, !.operators = {bob}]

\* A collector; OIDC has no effect in its mode.
Collector == [mode |-> "server", oidc |-> TRUE, token |-> tok, sessionKey |-> 100,
              allowed |-> {}, operators |-> {}]

\* No door: the token has no effect either.
Open == [mode |-> "ui", oidc |-> FALSE, token |-> tok, sessionKey |-> None,
         allowed |-> {}, operators |-> {}]

TheConfs == {Sessions, TwoDoors, Handover, Collector, Open}

\* The clock runs far enough for sessions to expire and, where there are none,
\* for windows to follow one another; the triggers are made there.
Clocks == [cfg \in TheConfs |-> CASE cfg = Open                  -> 5
                                  [] cfg = TwoDoors             -> 1
                                  [] OTHER                       -> 0]
Clicks == [cfg \in TheConfs |-> CASE cfg = Open     -> {home, "rows", "trigger"}
                                  [] cfg = Sessions -> {home, runs, "logout", "suspend"}
                                  [] cfg = TwoDoors -> {home, failed, "rows", "suspend"}
                                  [] OTHER          -> {home, "suspend"}]

\* A restart with a new key, with the same key and other lists, and into the
\* other mode.
Then == [cfg \in TheConfs |-> CASE cfg = Sessions -> {Sessions}
                                [] cfg = TwoDoors -> {Handover, Collector}
                                [] OTHER          -> {}]
=============================================================================
