----------------------------- MODULE MCAssembly -----------------------------
(* Assembly for TLC: the sessions of the clients, the keys of failures and  *)
(* the configurations.                                                      *)
EXTENDS Assembly

CONSTANTS a, b, alice, s1, s2, s3

TwoAndOne == [s \in {s1, s2, s3} |-> IF s = s3 THEN b ELSE a]
UserIDs == [s \in {s1, s2, s3} |-> alice]

Certificates ==
  [protocol : {"websocket", "webtransport", "auto"}, strategy : {"none"},
   cert : {"env", "file", "none"}, key : {"env", "file", "none"}]
Strategies ==
  [protocol : {"auto"}, strategy : {"auto", "timeout"},
   cert : {"file"}, key : {"file"}]
Both == Certificates \cup Strategies
=============================================================================
