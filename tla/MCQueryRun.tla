----------------------------- MODULE MCQueryRun -----------------------------
(* Small instances of query runs for TLC.                                  *)
EXTENDS QueryRun, TLC

CONSTANTS q1, q2, c1, c2

(* The streaming run is the one that is cancelled. *)
MCModeOf == [q \in Runs |-> IF q = q1 THEN "streaming" ELSE "buffered"]
MCTargetOf == [c \in Cancels |-> q1]
=============================================================================
