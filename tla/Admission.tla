----------------------------- MODULE Admission -----------------------------
(***************************************************************************)
(* What the HTTP server promises its clients, whichever way it serves      *)
(* them: a client waits, is served once or turned away, and is never       *)
(* served again on the same connection; no more than Limit are served at   *)
(* a time.                                                                 *)
(***************************************************************************)
EXTENDS Integers, FiniteSets

CONSTANTS
  Clients,  \* client connections
  Limit     \* how many may be served at once

VARIABLE stage  \* how far each connection has come

Stages == {"out", "waiting", "served", "over"}

\* A connection only moves forward, and no step skips the wait.
MayBecome(s) ==
  CASE s = "out"     -> {"out", "waiting"}
    [] s = "waiting" -> {"waiting", "served", "over"}
    [] s = "served"  -> {"served", "over"}
    [] s = "over"    -> {"over"}

Served(st) == {c \in Clients : st[c] = "served"}

Init == stage = [c \in Clients |-> "out"]

Next ==
  /\ \A c \in Clients : stage'[c] \in MayBecome(stage[c])
  /\ Cardinality(Served(stage') \ Served(stage)) <= 1
  /\ Cardinality(Served(stage')) <= Limit

Spec == Init /\ [][Next]_stage
=============================================================================
