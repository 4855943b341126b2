---------------------------- MODULE MCHeartbeat -----------------------------
(* Heartbeat, and Hub with it, for TLC: where the connections hash to.      *)
EXTENDS Heartbeat

CONSTANTS c1, c2, c3

Spread == [c \in {c1, c2, c3} |-> IF c = c2 THEN 2 ELSE 1]
=============================================================================
