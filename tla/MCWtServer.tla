----------------------------- MODULE MCWtServer -----------------------------
(* WtServer for TLC: interchangeable requests.                              *)
EXTENDS WtServer, TLC

Symmetry == Permutations(Conns)
=============================================================================
