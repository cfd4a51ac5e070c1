------------------------------ MODULE LogFeed ------------------------------
(***************************************************************************)
(* What kubecron promises to a viewer about the live lines of a running    *)
(* Job's log, without the streamer, the broadcaster or the SSE handler     *)
(* that keep the promise.  The stored lines sent before the first live one *)
(* are no part of it.                                                      *)
(***************************************************************************)
EXTENDS Naturals

CONSTANTS
  Clients,   \* viewers
  Lines      \* log lines, numbered in the order in which they are read

VARIABLES
  accepted,  \* lines stored so far
  view,      \* lines shown live to each viewer
  phase      \* "away", "watching" or "left"

Init ==
  /\ accepted = {}
  /\ view = [c \in Clients |-> {}]
  /\ phase = [c \in Clients |-> "away"]

\* A batch of newer lines is stored.
Accept ==
  /\ \E batch \in SUBSET Lines :
       /\ batch # {} /\ \A new \in batch, old \in accepted : old < new
       /\ accepted' = accepted \cup batch
  /\ UNCHANGED <<view, phase>>

Join(c) ==
  /\ phase[c] = "away"
  /\ phase' = [phase EXCEPT ![c] = "watching"]
  /\ UNCHANGED <<accepted, view>>

\* A stored line newer than all the lines shown before; lines may be skipped.
Show(c) ==
  /\ phase[c] = "watching"
  /\ \E line \in accepted :
       /\ \A shown \in view[c] : shown < line
       /\ view' = [view EXCEPT ![c] = @ \cup {line}]
  /\ UNCHANGED <<accepted, phase>>

Leave(c) ==
  /\ phase[c] # "left"
  /\ phase' = [phase EXCEPT ![c] = "left"]
  /\ UNCHANGED <<accepted, view>>

Next == Accept \/ \E c \in Clients : Join(c) \/ Show(c) \/ Leave(c)

Spec == Init /\ [][Next]_<<accepted, view, phase>>
=============================================================================
