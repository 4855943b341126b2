----------------------------- MODULE MessageLog -----------------------------
(***************************************************************************)
(* What stateless mode promises: a user has a log that grows until it is    *)
(* cleared, and each poller of the user holds, at all times, a beginning of *)
(* that log.  Nothing is promised to a poller that had taken something from *)
(* a log before it was cleared: it is Lost.                                 *)
(***************************************************************************)
EXTENDS Naturals, Sequences

CONSTANTS Users, Pollers, Topics, Owner, Lost

VARIABLES
  log,  \* the messages sent to each user since its log was cleared
  got   \* the messages each poller has, or Lost

Init ==
  /\ log = [u \in Users |-> <<>>]
  /\ got = [p \in Pollers |-> <<>>]

Publish(u, t) ==
  /\ log' = [log EXCEPT ![u] = Append(@, t)]
  /\ UNCHANGED got

CatchUp(p) ==
  /\ got[p] # Lost
  /\ \E n \in Len(got[p]) + 1 .. Len(log[Owner[p]]) :
       got' = [got EXCEPT ![p] = SubSeq(log[Owner[p]], 1, n)]
  /\ UNCHANGED log

(* Pollers that hold nothing may be Lost too: an answer may be on its way.  *)
Truncate(cleared) ==
  LET readers == {p \in Pollers : Owner[p] \in cleared} IN
  /\ log' = [u \in Users |-> IF u \in cleared THEN <<>> ELSE log[u]]
  /\ \E left \in SUBSET readers :
       /\ \A p \in readers \ left : got[p] = <<>>
       /\ got' = [p \in Pollers |-> IF p \in left THEN Lost ELSE got[p]]

Next ==
  \/ \E u \in Users, t \in Topics : Publish(u, t)
  \/ \E p \in Pollers : CatchUp(p)
  \/ \E cleared \in SUBSET Users : Truncate(cleared)

Spec == Init /\ [][Next]_<<log, got>>
=============================================================================
