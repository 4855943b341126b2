----------------------------- MODULE MCWsServer -----------------------------
(* WsServer for TLC: interchangeable requests and users.                    *)
EXTENDS WsServer, TLC

Symmetry == Permutations(Conns) \cup Permutations(Users)
=============================================================================
