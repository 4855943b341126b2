------------------------------- MODULE MCChat -------------------------------
(* Chat for TLC: connections, users and rooms are interchangeable.          *)
EXTENDS Chat, TLC

Symmetry == Permutations(Conns) \cup Permutations(Users) \cup Permutations(Rooms)
=============================================================================
