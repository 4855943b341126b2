------------------------------ MODULE Stateless ------------------------------
(***************************************************************************)
(* Stateless mode: MemoryStore (stateless/store.go) behind Handler and      *)
(* Server (stateless/server.go), and clients that poll it.  Every operation *)
(* of the store holds its mutex from the first statement to the last, so    *)
(* each is one step.                                                        *)
(*                                                                          *)
(* A poller is external.  It sends FetchRequest.SinceID, the ID of the last *)
(* message it has, waits for the reply, and asks again with the same ID     *)
(* when the reply is lost.  Ack is a no-op of MemoryStore and has no step.  *)
(***************************************************************************)
EXTENDS Integers, Sequences, FiniteSets

CONSTANTS
  Users,
  Pollers,
  Owner,        \* the user whose messages a poller fetches
  Topics,
  None,         \* the topic "", and "no request outstanding"
  Limits,       \* the values of FetchRequest.Limit
  BatchSize,    \* config.BatchSize
  MaxMessages   \* bound: messages stored per user at a time

ASSUME StatelessAssumption ==
  /\ Owner \in [Pollers -> Users]
  /\ None \notin Topics /\ None \notin Seq(Topics)
  /\ Limits \subseteq Int
  /\ BatchSize \in Int
  /\ MaxMessages \in Nat

VARIABLES
  messages,  \* s.messages; a user that is not a key has the empty sequence
  lastID,    \* s.lastID; a user that is not a key has 0
  request,   \* the FetchRequest a poller waits for
  reply,     \* the messages on their way to it
  cursor,    \* the ID of the last message a poller has
  received,  \* the messages it has
  stale      \* a history variable: its log was cleared after it took from it

store == <<messages, lastID>>
client == <<request, reply, cursor, received>>
vars == <<store, client, stale>>

Message == [id : Nat \ {0}, topic : Topics]
Request == [sinceID : Nat, limit : Int, topic : Topics \cup {None}]

(* The pollers that have, or are about to get, messages of a cleared log.   *)
Forget(cleared) ==
  stale' = [p \in Pollers |->
              \/ stale[p]
              \/ Owner[p] \in cleared /\ (cursor[p] > 0 \/ reply[p] \notin {None, <<>>})]

(* The first n of the messages that are at the positions kept, in order.    *)
First(msgs, kept, n) ==
  [k \in 1 .. (IF Cardinality(kept) <= n THEN Cardinality(kept) ELSE n) |->
     msgs[CHOOSE i \in kept : Cardinality({j \in kept : j <= i}) = k]]

-----------------------------------------------------------------------------
(* Mistakes in this code that the properties below exclude.                 *)

(* Store does not write the ID it took back to s.lastID.                    *)
StoreKeepsID(u, t) ==
  /\ messages' = [messages EXCEPT ![u] = Append(@, [id |-> lastID[u] + 1, topic |-> t])]
  /\ UNCHANGED lastID

(* Fetch returns the newest messages when there are too many.               *)
FetchNewest(msgs, sinceID, limit) ==
  LET newer == {i \in 1 .. Len(msgs) : msgs[i].id > sinceID}
  IN  First(msgs, {i \in newer : Cardinality({j \in newer : j >= i}) <= limit}, limit)

(* Fetch includes the message the poller has.                               *)
FetchInclusive(msgs, sinceID, limit) ==
  First(msgs, {i \in 1 .. Len(msgs) : msgs[i].id >= sinceID}, limit)

(* The limit is checked before the message is appended.                     *)
FetchStrict(msgs, sinceID, limit) ==
  First(msgs, {i \in 1 .. Len(msgs) : msgs[i].id > sinceID}, limit)

-----------------------------------------------------------------------------
(* MemoryStore.                                                             *)

Store(u, t) ==
  /\ messages' = [messages EXCEPT ![u] = Append(@, [id |-> lastID[u] + 1, topic |-> t])]
  /\ lastID' = [lastID EXCEPT ![u] = @ + 1]

(* The loop appends a message and then compares the length with the limit:  *)
(* when there is a newer message it returns at least one.                   *)
StoreFetch(msgs, sinceID, limit) ==
  First(msgs, {i \in 1 .. Len(msgs) : msgs[i].id > sinceID}, IF limit < 1 THEN 1 ELSE limit)

Clear(u) ==
  /\ messages' = [messages EXCEPT ![u] = <<>>]
  /\ lastID' = [lastID EXCEPT ![u] = 0]
  /\ Forget({u})
  /\ UNCHANGED client

ClearAll ==
  /\ messages' = [u \in Users |-> <<>>]
  /\ lastID' = [u \in Users |-> 0]
  /\ Forget(Users)
  /\ UNCHANGED client

-----------------------------------------------------------------------------
(* Server and Handler.                                                      *)

Send(u, t) ==
  /\ Len(messages[u]) < MaxMessages
  /\ Store(u, t)
  /\ UNCHANGED <<client, stale>>

EffectiveLimit(limit) == IF limit <= 0 THEN BatchSize ELSE limit

(* The handler answers the request of a poller; req.Topic is not passed on. *)
Fetch(p) ==
  /\ request[p] # None
  /\ reply[p] = None
  /\ reply' = [reply EXCEPT ![p] = StoreFetch(messages[Owner[p]], request[p].sinceID,
                                              EffectiveLimit(request[p].limit))]
  /\ UNCHANGED <<store, request, cursor, received, stale>>

-----------------------------------------------------------------------------
(* The pollers.                                                             *)

Poll(p) ==
  /\ request[p] = None
  /\ \E l \in Limits, t \in Topics \cup {None} :
       request' = [request EXCEPT ![p] = [sinceID |-> cursor[p], limit |-> l, topic |-> t]]
  /\ UNCHANGED <<store, reply, cursor, received, stale>>

Deliver(p) ==
  /\ reply[p] # None
  /\ received' = [received EXCEPT ![p] = @ \o reply[p]]
  /\ cursor' = [cursor EXCEPT ![p] = IF reply[p] = <<>> THEN @ ELSE reply[p][Len(reply[p])].id]
  /\ request' = [request EXCEPT ![p] = None]
  /\ reply' = [reply EXCEPT ![p] = None]
  /\ UNCHANGED <<store, stale>>

Lose(p) ==
  /\ request[p] # None
  /\ request' = [request EXCEPT ![p] = None]
  /\ reply' = [reply EXCEPT ![p] = None]
  /\ UNCHANGED <<store, cursor, received, stale>>

-----------------------------------------------------------------------------
Init ==
  /\ messages = [u \in Users |-> <<>>]
  /\ lastID = [u \in Users |-> 0]
  /\ request = [p \in Pollers |-> None]
  /\ reply = [p \in Pollers |-> None]
  /\ cursor = [p \in Pollers |-> 0]
  /\ received = [p \in Pollers |-> <<>>]
  /\ stale = [p \in Pollers |-> FALSE]

Next ==
  \/ \E u \in Users, t \in Topics : Send(u, t)
  \/ \E u \in Users : Clear(u)
  \/ ClearAll
  \/ \E p \in Pollers : Poll(p) \/ Fetch(p) \/ Deliver(p) \/ Lose(p)

Spec == Init /\ [][Next]_vars

(* A client polls every PollInterval, the handler answers, and of the       *)
(* replies sent again and again not all are lost.                           *)
Fairness ==
  \A p \in Pollers :
    WF_vars(Poll(p)) /\ SF_vars(Fetch(p)) /\ SF_vars(Deliver(p))

FairSpec == Spec /\ Fairness

-----------------------------------------------------------------------------
(* Properties.                                                              *)

(* Every variable holds what its Go type and its comment above allow.       *)
TypeOK ==
  /\ messages \in [Users -> Seq(Message)]
  /\ lastID \in [Users -> Nat]
  /\ request \in [Pollers -> Request \cup {None}]
  /\ reply \in [Pollers -> Seq(Message) \cup {None}]
  /\ cursor \in [Pollers -> Nat]
  /\ received \in [Pollers -> Seq(Message)]
  /\ stale \in [Pollers -> BOOLEAN]

(* The IDs in a user's log increase in the order of the calls of Store and  *)
(* none is above s.lastID, so that the next message is newer than all of    *)
(* them.  Of a log that was cleared nothing is said: see IDsMonotonic.      *)
LogShape ==
  /\ TypeOK
  /\ \A u \in Users :
       /\ \A i, j \in 1 .. Len(messages[u]) : i < j => messages[u][i].id < messages[u][j].id
       /\ \A i \in 1 .. Len(messages[u]) : messages[u][i].id <= lastID[u]

(* A poller has the first messages of its user's log: no gap, no message    *)
(* twice and none out of order, however replies are cut off by the limit    *)
(* and lost; until the log it reads is cleared.                             *)
NoGap ==
  \A p \in Pollers : ~stale[p] => received[p] = SubSeq(messages[Owner[p]], 1, cursor[p])

(* The store behind its server implements the abstract log.                 *)
TopicsOf(s) == [i \in 1 .. Len(s) |-> s[i].topic]

logs == [u \in Users |-> TopicsOf(messages[u])]
held == [p \in Pollers |-> IF stale[p] THEN None ELSE TopicsOf(received[p])]

Log == INSTANCE MessageLog WITH log <- logs, got <- held, Lost <- None

(* Store, Fetch, Clear and ClearAll together behave as MessageLog.          *)
ImplementsLog == Log!Spec

(* A message newer than the cursor of a poller of its user reaches the      *)
(* poller, whatever limit each request has, unless it is cleared first.     *)
EveryMessageArrives ==
  \A p \in Pollers : \A n \in 1 .. MaxMessages :
    (lastID[Owner[p]] >= n) ~> (cursor[p] >= n \/ lastID[Owner[p]] < n)

-----------------------------------------------------------------------------
(* What the repository says and the code does not do: TLC refutes each of   *)
(* these in the configuration that README.md gives.                         *)

(* The IDs given to a user's messages increase, also over Clear.            *)
IDsMonotonic == [][\A u \in Users : lastID'[u] >= lastID[u]]_vars

(* No poller is past the newest message, or it would never see the next.    *)
CursorNotAhead == \A p \in Pollers : cursor[p] <= lastID[Owner[p]]

(* A request for one topic gets messages of that topic.                     *)
TopicRespected ==
  \A p \in Pollers : (reply[p] # None /\ request[p].topic # None) =>
    \A i \in 1 .. Len(reply[p]) : reply[p][i].topic = request[p].topic
=============================================================================
