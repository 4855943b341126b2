---------------------------- MODULE MCBroadcast -----------------------------
(* Broadcast for TLC: two WebSocket connections and a caller; one           *)
(* WebTransport session, a caller and an OnConnect that broadcasts.      *)
EXTENDS Broadcast

CONSTANTS c1, c2, b1

BothServers ==
  {[transport |-> "ws", conns |-> {c1, c2}, callers |-> {b1}, greets |-> FALSE],
   [transport |-> "wt", conns |-> {c1}, callers |-> {b1}, greets |-> TRUE]}

(* A WebSocket server whose OnConnect broadcasts.                           *)
Greeting == {[transport |-> "ws", conns |-> {c1, c2}, callers |-> {b1}, greets |-> TRUE]}
=============================================================================
