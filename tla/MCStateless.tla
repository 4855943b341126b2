---------------------------- MODULE MCStateless -----------------------------
(* Stateless for TLC: the poller and whose messages it fetches.             *)
EXTENDS Stateless

CONSTANTS u1, u2, p1

OnePoller == [p \in {p1} |-> u1]
=============================================================================
