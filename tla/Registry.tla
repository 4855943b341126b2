------------------------------ MODULE Registry ------------------------------
(***************************************************************************)
(* What the two servers and the hub promise of the connections they keep,   *)
(* whoever else comes, is bound or goes: a connection is registered once;   *)
(* until it leaves it is bound to one user at most, and stays where it is;  *)
(* once it has begun to leave it is neither registered nor bound again; and *)
(* when it is gone nothing finds it.  It leaves in one step or in several.  *)
(***************************************************************************)
CONSTANTS Conns, Users

VARIABLES
  listed,  \* the connections that Broadcast, Count and ForEach find
  index,   \* the connections that SendTo and GetByUser find under a user
  left,    \* the connections that have begun to leave, or were turned away
  gone     \* those that have left for good

Unbound(c) == \A u \in Users : c \notin index[u]

Register(c) ==
  /\ c \notin listed \cup left
  /\ listed' = listed \cup {c}
  /\ UNCHANGED <<index, left, gone>>

Bind(c, u) ==
  /\ c \notin left
  /\ \A v \in Users \ {u} : c \notin index[v]
  /\ index' = [index EXCEPT ![u] = @ \cup {c}]
  /\ UNCHANGED <<listed, left, gone>>

Leave(c) ==
  /\ c \notin gone
  /\ listed' = listed \ {c}
  /\ left' = left \cup {c}
  /\ index' \in {index, [u \in Users |-> index[u] \ {c}]}
  /\ gone' = gone \/ (gone' = gone \cup {c} /\ Unbound(c)')

Init ==
  /\ listed = {}
  /\ index = [u \in Users |-> {}]
  /\ left = {} /\ gone = {}

Next ==
  \E c \in Conns :
    \/ Register(c) \/ Leave(c)
    \/ \E u \in Users : Bind(c, u)

Spec == Init /\ [][Next]_<<listed, index, left, gone>>

(* What follows: no connection that is gone is found anywhere.              *)
GoneUnseen == \A c \in gone : c \notin listed /\ Unbound(c)
=============================================================================
