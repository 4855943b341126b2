-------------------------- MODULE StatelessProofs ---------------------------
(***************************************************************************)
(* Stateless mode for every set of users and pollers, every limit and every *)
(* BatchSize: what Fetch returns, the log, and what pollers have of it.     *)
(***************************************************************************)
EXTENDS Stateless, FiniteSetTheorems, TLAPS

(* The IDs of a log are its positions.                                      *)
Numbered(s) == s \in Seq(Message) /\ \A i \in 1 .. Len(s) : s[i].id = i

(* r is the part of s that follows its first n messages.                    *)
Follows(r, s, n) ==
  /\ n + Len(r) <= Len(s)
  /\ \A k \in 1 .. Len(r) : r[k] = s[n + k]

(* As long as a log is kept its IDs are its positions, s.lastID its length. *)
ByPosition ==
  /\ TypeOK
  /\ \A u \in Users :
       /\ lastID[u] = Len(messages[u])
       /\ \A i \in 1 .. Len(messages[u]) : messages[u][i].id = i

(* A request and its reply, and a poller whose log was not cleared.         *)
Pending ==
  \A p \in Pollers :
    /\ request[p] # None => request[p].sinceID = cursor[p]
    /\ reply[p] # None => request[p] # None

InStep ==
  \A p \in Pollers : ~stale[p] =>
    /\ Len(received[p]) = cursor[p]
    /\ Follows(received[p], messages[Owner[p]], 0)
    /\ reply[p] # None => Follows(reply[p], messages[Owner[p]], cursor[p])

LogInv == ByPosition /\ Pending /\ InStep

-----------------------------------------------------------------------------
(* What Fetch returns.                                                      *)

(* Where Fetch finds its k-th message among those it keeps.                 *)
At(kept, k) == CHOOSE i \in kept : Cardinality({j \in kept : j <= i}) = k

(* The messages of a log that are newer than n are those behind its n-th;   *)
(* the k-th of them is at position n + k.                                   *)
LEMMA NewerMessages ==
  ASSUME NEW s, Numbered(s), NEW n \in Nat,
         NEW kept, kept = {i \in 1 .. Len(s) : s[i].id > n}
  PROVE  /\ n > Len(s) => Cardinality(kept) = 0
         /\ n <= Len(s) => Cardinality(kept) = Len(s) - n
         /\ \A k \in 1 .. Cardinality(kept) : At(kept, k) = n + k
<1>1. Len(s) \in Nat
  BY DEF Numbered
<1>2. kept = n + 1 .. Len(s)
  BY <1>1 DEF Numbered
<1>3. Cardinality(kept) = IF n + 1 > Len(s) THEN 0 ELSE Len(s) - (n + 1) + 1
  <2>1. Cardinality(kept) = Cardinality(n + 1 .. Len(s))
    BY <1>2, Zenon
  <2>2. Cardinality(n + 1 .. Len(s)) = IF n + 1 > Len(s) THEN 0 ELSE Len(s) - (n + 1) + 1
    <3>1. n + 1 \in Int /\ Len(s) \in Int
      BY <1>1
    <3> QED BY <3>1, FS_Interval, Zenon
  <2> QED BY <2>1, <2>2
<1>4. ASSUME NEW i \in kept
      PROVE  Cardinality({j \in kept : j <= i}) = i - n
  <2>1. i \in Nat /\ n + 1 <= i /\ i <= Len(s)
    BY <1>1, <1>2
  <2>2. {j \in kept : j <= i} = n + 1 .. i
    BY <1>1, <1>2, <2>1
  <2>3. Cardinality(n + 1 .. i) = i - (n + 1) + 1
    BY <2>1, FS_Interval
  <2>4. Cardinality({j \in kept : j <= i}) = Cardinality(n + 1 .. i)
    BY <2>2, Zenon
  <2> QED BY <2>1, <2>3, <2>4
<1>5. ASSUME NEW k \in 1 .. Cardinality(kept)
      PROVE  At(kept, k) = n + k
  <2>1. n + k \in kept
    BY <1>1, <1>2, <1>3
  <2>2. \A i \in kept : Cardinality({j \in kept : j <= i}) = k <=> i = n + k
    <3>1. \A i \in kept : i \in Nat
      BY <1>1, <1>2
    <3> QED BY <1>1, <1>3, <1>4, <3>1
  <2> QED BY <2>1, <2>2 DEF At
<1> QED BY <1>1, <1>3, <1>5

(* Fetch returns the messages that follow sinceID, at least one if there is *)
(* any, and nothing to a poller that is ahead of the log.                   *)
LEMMA FetchFollows ==
  ASSUME NEW s, Numbered(s), NEW n \in Nat, NEW limit \in Int
  PROVE  LET r == StoreFetch(s, n, limit)
         IN  /\ r \in Seq(Message)
             /\ n <= Len(s) => Follows(r, s, n)
<1> DEFINE kept == {i \in 1 .. Len(s) : s[i].id > n}
           wanted == IF limit < 1 THEN 1 ELSE limit
           len == IF Cardinality(kept) <= wanted THEN Cardinality(kept) ELSE wanted
           r == StoreFetch(s, n, limit)
<1>1. Len(s) \in Nat /\ s \in Seq(Message)
  BY DEF Numbered
<1>0. kept = {i \in 1 .. Len(s) : s[i].id > n}
  OBVIOUS
<1>2. Cardinality(kept) \in Nat /\ Cardinality(kept) = IF n > Len(s) THEN 0 ELSE Len(s) - n
  <2> HIDE DEF kept
  <2>1. (n > Len(s) => Cardinality(kept) = 0) /\ (n <= Len(s) => Cardinality(kept) = Len(s) - n)
    BY <1>0, NewerMessages
  <2> QED BY <1>1, <2>1
<1>3. \A k \in 1 .. Cardinality(kept) : At(kept, k) = n + k
  <2> HIDE DEF kept
  <2>1. ASSUME NEW k \in 1 .. Cardinality(kept)
        PROVE  At(kept, k) = n + k
    BY <1>0, <2>1, NewerMessages, SMTT(30)
  <2> QED BY <2>1
<1>4. r = [k \in 1 .. len |-> s[At(kept, k)]]
  BY DEF StoreFetch, First, At
<1> HIDE DEF kept, r
<1>5. len \in Nat /\ len <= Cardinality(kept)
  BY <1>2
<1> HIDE DEF len
<1>6. r = [k \in 1 .. len |-> s[n + k]]
  BY <1>2, <1>3, <1>4, <1>5
<1>7. \A k \in 1 .. len : n + k \in 1 .. Len(s)
  BY <1>1, <1>2, <1>5
<1>8. \A k \in 1 .. len : s[n + k] \in Message
  BY <1>1, <1>7
<1>9. r \in Seq(Message) /\ Len(r) = len
  BY <1>5, <1>6, <1>8
<1>10. n <= Len(s) => Follows(r, s, n)
  BY <1>1, <1>2, <1>5, <1>6, <1>9 DEF Follows
<1> QED BY <1>9, <1>10 DEF r

-----------------------------------------------------------------------------
(* The log and the pollers.                                                 *)

(* Store numbers the next message, and what follows still follows.          *)
LEMMA AppendNumbered ==
  ASSUME NEW s, Numbered(s), NEW t \in Topics
  PROVE  LET m == [id |-> Len(s) + 1, topic |-> t]
         IN  /\ Numbered(Append(s, m))
             /\ Len(Append(s, m)) = Len(s) + 1
             /\ \A r \in Seq(Message), n \in Nat : Follows(r, s, n) => Follows(r, Append(s, m), n)
<1> DEFINE m == [id |-> Len(s) + 1, topic |-> t]
<1>1. Len(s) \in Nat /\ s \in Seq(Message)
  BY DEF Numbered
<1>2. m \in Message /\ m.id = Len(s) + 1
  BY <1>1 DEF Message
<1> HIDE DEF m
<1>3. /\ Append(s, m) \in Seq(Message) /\ Len(Append(s, m)) = Len(s) + 1
      /\ \A i \in 1 .. Len(s) : Append(s, m)[i] = s[i]
      /\ Append(s, m)[Len(s) + 1] = m
  BY <1>1, <1>2
<1>4. \A i \in 1 .. Len(s) + 1 : i \in 1 .. Len(s) \/ i = Len(s) + 1
  BY <1>1
<1>5. Numbered(Append(s, m))
  BY <1>2, <1>3, <1>4 DEF Numbered
<1>6. ASSUME NEW r \in Seq(Message), NEW n \in Nat, Follows(r, s, n)
      PROVE  Follows(r, Append(s, m), n)
  <2>1. Len(r) \in Nat /\ n + Len(r) <= Len(s)
    BY <1>6 DEF Follows
  <2>2. \A k \in 1 .. Len(r) : n + k \in 1 .. Len(s)
    BY <1>1, <2>1
  <2> QED BY <1>1, <1>3, <1>6, <2>1, <2>2 DEF Follows
<1> QED BY <1>3, <1>5, <1>6 DEF m

(* A reply is put behind what the poller has.                               *)
LEMMA DeliverFollows ==
  ASSUME NEW s, Numbered(s), NEW r \in Seq(Message), NEW q \in Seq(Message),
         Follows(r, s, 0), Follows(q, s, Len(r))
  PROVE  /\ Follows(r \o q, s, 0)
         /\ Len(r \o q) = Len(r) + Len(q)
         /\ q # <<>> => q[Len(q)].id = Len(r) + Len(q)
<1>1. Len(s) \in Nat /\ Len(r) \in Nat /\ Len(q) \in Nat /\ Len(r) + Len(q) <= Len(s)
  BY DEF Numbered, Follows
<1>2. /\ Len(r \o q) = Len(r) + Len(q)
      /\ \A k \in 1 .. Len(r) + Len(q) : (r \o q)[k] = IF k <= Len(r) THEN r[k] ELSE q[k - Len(r)]
  OBVIOUS
<1>3. ASSUME NEW k \in 1 .. Len(r) + Len(q)
      PROVE  (r \o q)[k] = s[0 + k]
  <2>1. CASE k <= Len(r)
    <3>1. k \in 1 .. Len(r)
      BY <1>1, <2>1
    <3> QED BY <1>2, <2>1, <3>1 DEF Follows
  <2>2. CASE ~(k <= Len(r))
    <3>1. k - Len(r) \in 1 .. Len(q) /\ Len(r) + (k - Len(r)) = 0 + k
      BY <1>1, <2>2
    <3>2. (r \o q)[k] = q[k - Len(r)]
      BY <1>2, <2>2
    <3>3. q[k - Len(r)] = s[Len(r) + (k - Len(r))]
      BY <3>1 DEF Follows
    <3> QED BY <3>1, <3>2, <3>3
  <2> QED BY <2>1, <2>2
<1>4. Follows(r \o q, s, 0)
  BY <1>1, <1>2, <1>3 DEF Follows
<1>5. ASSUME q # <<>>
      PROVE  q[Len(q)].id = Len(r) + Len(q)
  <2>1. Len(q) \in 1 .. Len(q) /\ Len(r) + Len(q) \in 1 .. Len(s)
    BY <1>1, <1>5
  <2>2. q[Len(q)] = s[Len(r) + Len(q)]
    BY <2>1 DEF Follows
  <2> QED BY <2>1, <2>2 DEF Numbered
<1> QED BY <1>2, <1>4, <1>5

(* ByPosition in terms of Numbered.                                         *)
LEMMA ShapeNumbered ==
  ASSUME ByPosition, NEW u \in Users
  PROVE  Numbered(messages[u]) /\ lastID[u] = Len(messages[u]) /\ Len(messages[u]) \in Nat
BY DEF ByPosition, TypeOK, Numbered

(* After Clear or ClearAll, of the users in cleared.                        *)
LEMMA ClearKeeps ==
  ASSUME LogInv, NEW cleared \in SUBSET Users, Forget(cleared), UNCHANGED client,
         messages' = [u \in Users |-> IF u \in cleared THEN <<>> ELSE messages[u]],
         lastID' = [u \in Users |-> IF u \in cleared THEN 0 ELSE lastID[u]]
  PROVE  LogInv'
<1>0. TypeOK /\ request' = request /\ reply' = reply /\ cursor' = cursor /\ received' = received
  BY DEF LogInv, ByPosition, client
<1>1. ByPosition'
  <2>1. \A u \in Users : /\ u \in cleared => messages'[u] = <<>> /\ lastID'[u] = 0
                         /\ u \notin cleared => messages'[u] = messages[u] /\ lastID'[u] = lastID[u]
    OBVIOUS
  <2>2. messages' \in [Users -> Seq(Message)] /\ lastID' \in [Users -> Nat]
    BY <1>0 DEF TypeOK
  <2>3. stale' \in [Pollers -> BOOLEAN]
    BY <1>0 DEF TypeOK, Forget
  <2>4. TypeOK'
    BY <1>0, <2>2, <2>3 DEF TypeOK
  <2> QED BY <2>1, <2>4 DEF LogInv, ByPosition
<1>2. Pending'
  BY <1>0 DEF LogInv, Pending
<1>3. ASSUME NEW p \in Pollers, ~stale'[p]
      PROVE  /\ Len(received'[p]) = cursor'[p]
             /\ Follows(received'[p], messages'[Owner[p]], 0)
             /\ reply'[p] # None => Follows(reply'[p], messages'[Owner[p]], cursor'[p])
  <2>1. ~stale[p] /\ (Owner[p] \in cleared => ~(cursor[p] > 0) /\ reply[p] \in {None, <<>>})
    BY <1>3 DEF Forget
  <2>2. /\ Len(received[p]) = cursor[p]
        /\ Follows(received[p], messages[Owner[p]], 0)
        /\ reply[p] # None => Follows(reply[p], messages[Owner[p]], cursor[p])
    BY <2>1 DEF LogInv, InStep
  <2>3. Owner[p] \in Users /\ cursor[p] \in Nat /\ received[p] \in Seq(Message)
    BY <1>0, StatelessAssumption DEF TypeOK
  <2>4. CASE Owner[p] \in cleared
    <3>1. messages'[Owner[p]] = <<>> /\ cursor[p] = 0 /\ Len(received[p]) = 0 /\ Len(<<>>) = 0
      BY <2>1, <2>2, <2>3, <2>4
    <3>2. 1 .. 0 = {}
      OBVIOUS
    <3> QED BY <1>0, <2>1, <2>4, <3>1, <3>2 DEF Follows
  <2>5. CASE Owner[p] \notin cleared
    BY <1>0, <2>2, <2>3, <2>5
  <2> QED BY <2>4, <2>5
<1>4. InStep'
  BY <1>3 DEF InStep
<1> QED BY <1>1, <1>2, <1>4 DEF LogInv

(* Every step keeps LogInv.                                                 *)
LEMMA LogStep ==
  ASSUME LogInv, [Next]_vars
  PROVE  LogInv'
<1>0. TypeOK /\ ByPosition /\ Pending /\ InStep
  BY DEF LogInv, ByPosition
<1>1. ASSUME NEW u \in Users, NEW t \in Topics, Send(u, t)
      PROVE  LogInv'
  <2> DEFINE m == [id |-> Len(messages[u]) + 1, topic |-> t]
  <2>1. Numbered(messages[u]) /\ lastID[u] = Len(messages[u]) /\ Len(messages[u]) \in Nat
    BY <1>0, ShapeNumbered
  <2>2. /\ messages' = [messages EXCEPT ![u] = Append(messages[u], m)]
        /\ lastID' = [lastID EXCEPT ![u] = Len(messages[u]) + 1]
        /\ request' = request /\ reply' = reply /\ cursor' = cursor /\ received' = received /\ stale' = stale
    BY <1>1, <2>1 DEF Send, Store, client
  <2>3. /\ Numbered(Append(messages[u], m)) /\ Len(Append(messages[u], m)) = Len(messages[u]) + 1
        /\ \A r \in Seq(Message), n \in Nat : Follows(r, messages[u], n) => Follows(r, Append(messages[u], m), n)
    BY <2>1, AppendNumbered
  <2> HIDE DEF m
  <2>4. ByPosition'
    <3>1. messages' \in [Users -> Seq(Message)] /\ lastID' \in [Users -> Nat]
      BY <1>0, <2>1, <2>2, <2>3 DEF TypeOK, Numbered
    <3>2. TypeOK'
      BY <1>0, <2>2, <3>1 DEF TypeOK
    <3>4. ASSUME NEW v \in Users
          PROVE  Numbered(messages'[v]) /\ lastID'[v] = Len(messages'[v])
      <4>1. CASE v = u
        <5>1. messages'[v] = Append(messages[u], m)
          BY <1>0, <2>2, <4>1 DEF TypeOK
        <5>2. lastID'[v] = Len(messages[u]) + 1
          BY <1>0, <2>2, <4>1 DEF TypeOK
        <5> QED BY <2>3, <5>1, <5>2, Zenon
      <4>2. CASE v # u
        <5>1. messages'[v] = messages[v]
          BY <1>0, <2>2, <4>2 DEF TypeOK
        <5>2. lastID'[v] = lastID[v]
          BY <1>0, <2>2, <4>2 DEF TypeOK
        <5>3. Numbered(messages[v]) /\ lastID[v] = Len(messages[v])
          BY <1>0, ShapeNumbered
        <5> QED BY <5>1, <5>2, <5>3, Zenon
      <4> QED BY <4>1, <4>2
    <3> QED BY <3>2, <3>4 DEF ByPosition, Numbered
  <2>5. Pending'
    BY <1>0, <2>2 DEF Pending
  <2>6. ASSUME NEW p \in Pollers, ~stale'[p]
        PROVE  /\ Len(received'[p]) = cursor'[p]
               /\ Follows(received'[p], messages'[Owner[p]], 0)
               /\ reply'[p] # None => Follows(reply'[p], messages'[Owner[p]], cursor'[p])
    <3>1. /\ Len(received[p]) = cursor[p]
          /\ Follows(received[p], messages[Owner[p]], 0)
          /\ reply[p] # None => Follows(reply[p], messages[Owner[p]], cursor[p])
      BY <1>0, <2>2, <2>6 DEF InStep
    <3>2. Owner[p] \in Users /\ cursor[p] \in Nat /\ received[p] \in Seq(Message)
            /\ (reply[p] # None => reply[p] \in Seq(Message))
      BY <1>0, StatelessAssumption DEF TypeOK
    <3>3. CASE Owner[p] = u
      <4>1. messages'[Owner[p]] = Append(messages[u], m)
        BY <1>0, <2>2, <3>3 DEF TypeOK
      <4>2. Follows(received[p], Append(messages[u], m), 0)
        BY <2>3, <3>1, <3>2, <3>3
      <4>3. reply[p] # None => Follows(reply[p], Append(messages[u], m), cursor[p])
        BY <2>3, <3>1, <3>2, <3>3
      <4> QED BY <2>2, <3>1, <4>1, <4>2, <4>3
    <3>4. CASE Owner[p] # u
      <4>1. messages'[Owner[p]] = messages[Owner[p]]
        BY <1>0, <2>2, <3>2, <3>4 DEF TypeOK
      <4> QED BY <2>2, <3>1, <4>1
    <3> QED BY <3>3, <3>4
  <2>7. InStep'
    BY <2>6 DEF InStep
  <2> QED BY <2>4, <2>5, <2>7 DEF LogInv
<1>2. ASSUME NEW u \in Users, Clear(u)
      PROVE  LogInv'
  <2>1. /\ messages' = [v \in Users |-> IF v \in {u} THEN <<>> ELSE messages[v]]
        /\ lastID' = [v \in Users |-> IF v \in {u} THEN 0 ELSE lastID[v]]
    BY <1>0, <1>2 DEF Clear, TypeOK
  <2>2. {u} \in SUBSET Users /\ Forget({u}) /\ UNCHANGED client
    BY <1>2 DEF Clear
  <2> QED BY <2>1, <2>2, ClearKeeps
<1>3. CASE ClearAll
  <2>1. /\ messages' = [v \in Users |-> IF v \in Users THEN <<>> ELSE messages[v]]
        /\ lastID' = [v \in Users |-> IF v \in Users THEN 0 ELSE lastID[v]]
    BY <1>3 DEF ClearAll
  <2>2. Users \in SUBSET Users /\ Forget(Users) /\ UNCHANGED client
    BY <1>3 DEF ClearAll
  <2> QED BY <2>1, <2>2, ClearKeeps
<1>4. ASSUME NEW p \in Pollers, Poll(p)
      PROVE  LogInv'
  <2>1. PICK l \in Limits, t \in Topics \cup {None} :
          request' = [request EXCEPT ![p] = [sinceID |-> cursor[p], limit |-> l, topic |-> t]]
    BY <1>4 DEF Poll
  <2> DEFINE q == [sinceID |-> cursor[p], limit |-> l, topic |-> t]
  <2>2. q \in Request /\ q.sinceID = cursor[p]
    BY <1>0, StatelessAssumption DEF TypeOK, Request
  <2>3. request' = [request EXCEPT ![p] = q] /\ request[p] = None
    BY <1>4, <2>1 DEF Poll
  <2> HIDE DEF q
  <2>4. messages' = messages /\ lastID' = lastID /\ reply' = reply /\ cursor' = cursor /\ received' = received /\ stale' = stale
    BY <1>4 DEF Poll, store
  <2>5. ByPosition'
    BY <1>0, <2>2, <2>3, <2>4 DEF ByPosition, TypeOK
  <2>6. Pending'
    BY <1>0, <2>2, <2>3, <2>4 DEF Pending, TypeOK
  <2>7. InStep'
    BY <1>0, <2>4 DEF InStep
  <2> QED BY <2>5, <2>6, <2>7 DEF LogInv
<1>5. ASSUME NEW p \in Pollers, Fetch(p)
      PROVE  LogInv'
  <2> DEFINE r == StoreFetch(messages[Owner[p]], request[p].sinceID, EffectiveLimit(request[p].limit))
  <2>1. /\ request[p] # None /\ reply' = [reply EXCEPT ![p] = r]
        /\ messages' = messages /\ lastID' = lastID /\ request' = request /\ cursor' = cursor
        /\ received' = received /\ stale' = stale
    BY <1>5 DEF Fetch, store
  <2>2. request[p].sinceID = cursor[p] /\ cursor[p] \in Nat /\ request[p].limit \in Int /\ Owner[p] \in Users
    BY <1>0, <2>1, StatelessAssumption DEF Pending, TypeOK, Request
  <2>3. EffectiveLimit(request[p].limit) \in Int
    BY <2>2, StatelessAssumption DEF EffectiveLimit
  <2>4. r \in Seq(Message) /\ (cursor[p] <= Len(messages[Owner[p]]) => Follows(r, messages[Owner[p]], cursor[p]))
    BY <1>0, <2>2, <2>3, ShapeNumbered, FetchFollows
  <2> HIDE DEF r
  <2>5. ByPosition'
    BY <1>0, <2>1, <2>4 DEF ByPosition, TypeOK
  <2>6. Pending'
    BY <1>0, <2>1 DEF Pending, TypeOK
  <2>7. InStep'
    <3>1. ~stale[p] => cursor[p] <= Len(messages[Owner[p]])
      BY <1>0, <2>2, ShapeNumbered DEF InStep, Follows
    <3>2. \A q \in Pollers : reply'[q] = IF q = p THEN r ELSE reply[q]
      BY <1>0, <2>1 DEF TypeOK
    <3> QED BY <1>0, <2>1, <2>4, <3>1, <3>2 DEF InStep
  <2> QED BY <2>5, <2>6, <2>7 DEF LogInv
<1>6. ASSUME NEW p \in Pollers, Deliver(p)
      PROVE  LogInv'
  <2> DEFINE r == reply[p]
             n == IF r = <<>> THEN cursor[p] ELSE r[Len(r)].id
  <2>1. /\ r # None /\ received' = [received EXCEPT ![p] = @ \o r] /\ cursor' = [cursor EXCEPT ![p] = n]
        /\ request' = [request EXCEPT ![p] = None] /\ reply' = [reply EXCEPT ![p] = None]
        /\ messages' = messages /\ lastID' = lastID /\ stale' = stale
    BY <1>6 DEF Deliver, store
  <2>2. r \in Seq(Message) /\ received[p] \in Seq(Message) /\ cursor[p] \in Nat /\ Owner[p] \in Users
    BY <1>0, <2>1, StatelessAssumption DEF TypeOK
  <2>3. n \in Nat
    <3>1. r # <<>> => Len(r) \in 1 .. Len(r)
      BY <2>2
    <3>2. r # <<>> => r[Len(r)] \in Message
      BY <2>2, <3>1
    <3> QED BY <2>2, <3>2 DEF Message
  <2>4. received[p] \o r \in Seq(Message)
    BY <2>2
  <2> HIDE DEF n, r
  <2>5. ByPosition'
    <3>1. received' \in [Pollers -> Seq(Message)] /\ cursor' \in [Pollers -> Nat]
      BY <1>0, <2>1, <2>3, <2>4 DEF TypeOK
    <3>2. request' \in [Pollers -> Request \cup {None}] /\ reply' \in [Pollers -> Seq(Message) \cup {None}]
      BY <1>0, <2>1 DEF TypeOK
    <3> QED BY <1>0, <2>1, <3>1, <3>2 DEF ByPosition, TypeOK
  <2>6. Pending'
    BY <1>0, <2>1 DEF Pending, TypeOK
  <2>7. ASSUME NEW q \in Pollers, ~stale'[q]
        PROVE  /\ Len(received'[q]) = cursor'[q]
               /\ Follows(received'[q], messages'[Owner[q]], 0)
               /\ reply'[q] # None => Follows(reply'[q], messages'[Owner[q]], cursor'[q])
    <3>1. /\ Len(received[q]) = cursor[q]
          /\ Follows(received[q], messages[Owner[q]], 0)
          /\ reply[q] # None => Follows(reply[q], messages[Owner[q]], cursor[q])
      BY <1>0, <2>1, <2>7 DEF InStep
    <3>2. CASE q # p
      BY <1>0, <2>1, <3>1, <3>2 DEF TypeOK
    <3>3. CASE q = p
      <4>1. received'[q] = received[p] \o r /\ cursor'[q] = n /\ reply'[q] = None
        BY <1>0, <2>1, <3>3 DEF TypeOK
      <4>2. Numbered(messages[Owner[p]]) /\ Follows(r, messages[Owner[p]], Len(received[p]))
              /\ Follows(received[p], messages[Owner[p]], 0) /\ cursor[p] = Len(received[p])
        BY <1>0, <2>1, <2>2, <3>1, <3>3, ShapeNumbered DEF r
      <4>3. /\ Follows(received[p] \o r, messages[Owner[p]], 0)
            /\ Len(received[p] \o r) = Len(received[p]) + Len(r)
            /\ r # <<>> => r[Len(r)].id = Len(received[p]) + Len(r)
        BY <2>2, <4>2, DeliverFollows
      <4>4. n = Len(received[p]) + Len(r)
        BY <2>2, <4>2, <4>3 DEF n
      <4> QED BY <2>1, <3>3, <4>1, <4>3, <4>4
    <3> QED BY <3>2, <3>3
  <2>8. InStep'
    BY <2>7 DEF InStep
  <2> QED BY <2>5, <2>6, <2>8 DEF LogInv
<1>7. ASSUME NEW p \in Pollers, Lose(p)
      PROVE  LogInv'
  <2>1. /\ request' = [request EXCEPT ![p] = None] /\ reply' = [reply EXCEPT ![p] = None]
        /\ messages' = messages /\ lastID' = lastID /\ cursor' = cursor /\ received' = received /\ stale' = stale
    BY <1>7 DEF Lose, store
  <2>2. ByPosition'
    BY <1>0, <2>1 DEF ByPosition, TypeOK
  <2>3. Pending'
    BY <1>0, <2>1 DEF Pending, TypeOK
  <2>4. \A q \in Pollers : reply'[q] # None => reply'[q] = reply[q]
    BY <1>0, <2>1 DEF TypeOK
  <2>5. InStep'
    BY <1>0, <2>1, <2>4 DEF InStep
  <2> QED BY <2>2, <2>3, <2>5 DEF LogInv
<1>8. CASE UNCHANGED vars
  BY <1>0, <1>8 DEF vars, store, client, LogInv, ByPosition, TypeOK, Pending, InStep
<1> QED BY <1>1, <1>2, <1>3, <1>4, <1>5, <1>6, <1>7, <1>8 DEF Next

(* The empty store.                                                         *)
LEMMA LogInit == Init => LogInv
<1> SUFFICES ASSUME Init PROVE LogInv
  OBVIOUS
<1>1. /\ messages = [u \in Users |-> <<>>] /\ lastID = [u \in Users |-> 0]
      /\ request = [p \in Pollers |-> None] /\ reply = [p \in Pollers |-> None]
      /\ cursor = [p \in Pollers |-> 0] /\ received = [p \in Pollers |-> <<>>]
  BY DEF Init
<1>2. stale \in [Pollers -> BOOLEAN]
  BY DEF Init
<1>3. ByPosition
  BY <1>1, <1>2 DEF ByPosition, TypeOK
<1>4. Pending
  BY <1>1 DEF Pending
<1>5. InStep
  BY <1>1, StatelessAssumption DEF InStep, Follows
<1> QED BY <1>3, <1>4, <1>5 DEF LogInv

(* What a poller that is in step has is the beginning of the log.           *)
LEMMA Beginning ==
  ASSUME NEW s, Numbered(s), NEW r \in Seq(Message), Follows(r, s, 0)
  PROVE  r = SubSeq(s, 1, Len(r)) /\ Len(r) \in 0 .. Len(s)
<1>1. s \in Seq(Message) /\ Len(s) \in Nat /\ Len(r) \in Nat /\ Len(r) <= Len(s)
  BY DEF Numbered, Follows
<1>2. \A k \in 1 .. Len(r) : r[k] = s[k]
  BY <1>1 DEF Follows
<1> QED BY <1>1, <1>2

(* For every set of users and pollers, every limit and batch size, and      *)
(* however replies are lost: the IDs of a log increase, and none of them is *)
(* above s.lastID.                                                          *)
THEOREM LogCorrect == Spec => []LogShape
<1>1. ASSUME LogInv
      PROVE  LogShape
  <2>1. TypeOK /\ \A u \in Users : /\ lastID[u] = Len(messages[u]) /\ Len(messages[u]) \in Nat
                                 /\ \A i \in 1 .. Len(messages[u]) : messages[u][i].id = i
    BY <1>1 DEF LogInv, ByPosition, TypeOK
  <2> QED BY <2>1 DEF LogShape
<1> QED BY <1>1, LogInit, LogStep, PTL DEF Spec

(* And a poller whose log was not cleared has its first messages, without a *)
(* gap, a repetition or a swap.                                             *)
THEOREM PollersInStep == Spec => []NoGap
<1>1. ASSUME LogInv
      PROVE  NoGap
  <2>1. ASSUME NEW p \in Pollers, ~stale[p]
        PROVE  received[p] = SubSeq(messages[Owner[p]], 1, cursor[p])
    <3>1. Owner[p] \in Users /\ received[p] \in Seq(Message)
      BY <1>1, StatelessAssumption DEF LogInv, ByPosition, TypeOK
    <3>2. Numbered(messages[Owner[p]])
      BY <1>1, <3>1, ShapeNumbered DEF LogInv
    <3>3. Len(received[p]) = cursor[p] /\ Follows(received[p], messages[Owner[p]], 0)
      BY <1>1, <2>1 DEF LogInv, InStep
    <3> QED BY <3>1, <3>2, <3>3, Beginning
  <2> QED BY <2>1 DEF NoGap
<1> QED BY <1>1, LogInit, LogStep, PTL DEF Spec

-----------------------------------------------------------------------------
(* The refinement of MessageLog.                                            *)

(* The topics of messages.                                                  *)
LEMMA TopicsType ==
  ASSUME NEW s \in Seq(Message)
  PROVE  /\ TopicsOf(s) \in Seq(Topics)
         /\ Len(TopicsOf(s)) = Len(s)
         /\ \A i \in 1 .. Len(s) : TopicsOf(s)[i] = s[i].topic
<1>1. Len(s) \in Nat /\ \A i \in 1 .. Len(s) : s[i] \in Message
  OBVIOUS
<1>2. \A m \in Message : m.topic \in Topics
  BY DEF Message
<1> QED BY <1>1, <1>2 DEF TopicsOf

(* A stored message adds its topic to those of the log.                     *)
LEMMA TopicsAppend ==
  ASSUME NEW s \in Seq(Message), NEW m \in Message
  PROVE  TopicsOf(Append(s, m)) = Append(TopicsOf(s), m.topic)
<1>1. Append(s, m) \in Seq(Message) /\ Len(Append(s, m)) = Len(s) + 1 /\ Len(s) \in Nat
  OBVIOUS
<1>2. /\ TopicsOf(Append(s, m)) \in Seq(Topics)
      /\ Len(TopicsOf(Append(s, m))) = Len(s) + 1
      /\ \A i \in 1 .. Len(s) + 1 : TopicsOf(Append(s, m))[i] = Append(s, m)[i].topic
  BY <1>1, TopicsType
<1>3. TopicsOf(s) \in Seq(Topics) /\ Len(TopicsOf(s)) = Len(s) /\ \A i \in 1 .. Len(s) : TopicsOf(s)[i] = s[i].topic
  BY TopicsType
<1>4. Append(TopicsOf(s), m.topic) \in Seq(Topics) /\ Len(Append(TopicsOf(s), m.topic)) = Len(s) + 1
  BY <1>3 DEF Message
<1>5. ASSUME NEW i \in 1 .. Len(s) + 1
      PROVE  TopicsOf(Append(s, m))[i] = Append(TopicsOf(s), m.topic)[i]
  <2>1. CASE i \in 1 .. Len(s)
    BY <1>2, <1>3, <2>1
  <2>2. CASE i = Len(s) + 1
    BY <1>2, <1>3, <2>2
  <2>3. i \in 1 .. Len(s) \/ i = Len(s) + 1
    BY <1>1
  <2> QED BY <2>1, <2>2, <2>3
<1> QED BY <1>1, <1>2, <1>4, <1>5

(* The topics of a beginning of the log are a beginning of its topics.      *)
LEMMA TopicsBeginning ==
  ASSUME NEW s, Numbered(s), NEW r \in Seq(Message), Follows(r, s, 0)
  PROVE  TopicsOf(r) = SubSeq(TopicsOf(s), 1, Len(r))
<1>1. s \in Seq(Message) /\ Len(s) \in Nat /\ Len(r) \in Nat /\ Len(r) <= Len(s)
  BY DEF Numbered, Follows
<1>2. /\ TopicsOf(s) \in Seq(Topics) /\ Len(TopicsOf(s)) = Len(s)
      /\ \A i \in 1 .. Len(s) : TopicsOf(s)[i] = s[i].topic
  BY <1>1, TopicsType
<1>3. /\ TopicsOf(r) \in Seq(Topics) /\ Len(TopicsOf(r)) = Len(r)
      /\ \A i \in 1 .. Len(r) : TopicsOf(r)[i] = r[i].topic
  BY TopicsType
<1>4. \A i \in 1 .. Len(r) : TopicsOf(r)[i] = TopicsOf(s)[i]
  BY <1>1, <1>2, <1>3 DEF Follows
<1> QED BY <1>1, <1>2, <1>3, <1>4

(* Clear and ClearAll truncate the logs; the pollers that had something, or *)
(* are about to get it, are lost.                                           *)
LEMMA ClearTruncates ==
  ASSUME LogInv, NEW cleared \in SUBSET Users, Forget(cleared), received' = received,
         messages' = [u \in Users |-> IF u \in cleared THEN <<>> ELSE messages[u]]
  PROVE  Log!Truncate(cleared)
<1> DEFINE readers == {p \in Pollers : Owner[p] \in cleared}
           left == {p \in readers : stale'[p]}
<1>0. TypeOK
  BY DEF LogInv, ByPosition
<1>1. TopicsOf(<<>>) = <<>>
  BY DEF TopicsOf
<1>2. logs' = [u \in Users |-> IF u \in cleared THEN <<>> ELSE logs[u]]
  BY <1>1 DEF logs
<1>3. \A p \in Pollers : stale'[p] <=> stale[p] \/ (Owner[p] \in cleared /\ (cursor[p] > 0 \/ reply[p] \notin {None, <<>>}))
  BY DEF Forget
<1>4. ASSUME NEW p \in readers \ left
      PROVE  held[p] = <<>>
  <2>1. ~stale[p] /\ ~(cursor[p] > 0) /\ cursor[p] \in Nat /\ received[p] \in Seq(Message)
    BY <1>0, <1>3 DEF TypeOK
  <2>2. Len(received[p]) = cursor[p]
    BY <2>1 DEF LogInv, InStep
  <2>3. received[p] = <<>>
    BY <2>1, <2>2
  <2> QED BY <1>1, <2>1, <2>3 DEF held
<1>5. ASSUME NEW p \in Pollers
      PROVE  held'[p] = IF p \in left THEN None ELSE held[p]
  <2>1. CASE p \in left
    BY <2>1 DEF held
  <2>2. CASE p \notin left
    <3>1. stale'[p] <=> stale[p]
      BY <1>3, <2>2
    <3> QED BY <2>2, <3>1 DEF held
  <2> QED BY <2>1, <2>2
<1>6. held' = [p \in Pollers |-> IF p \in left THEN None ELSE held[p]]
  <2>1. held' = [p \in Pollers |-> held'[p]]
    BY DEF held
  <2> HIDE DEF left
  <2> QED BY <1>5, <2>1
<1>7. left \in SUBSET readers
  OBVIOUS
<1>8. \E S \in SUBSET readers :
        /\ \A p \in readers \ S : held[p] = <<>>
        /\ held' = [p \in Pollers |-> IF p \in S THEN None ELSE held[p]]
  BY <1>4, <1>6, <1>7, Zenon
<1> QED BY <1>2, <1>8 DEF Log!Truncate

(* A reply that arrives brings a poller in step further along the log.      *)
LEMMA DeliverCatchesUp ==
  ASSUME LogInv, LogInv', NEW p \in Pollers, Deliver(p)
  PROVE  Log!CatchUp(p) \/ UNCHANGED <<logs, held>>
<1> DEFINE s == messages[Owner[p]]
           r == received[p] \o reply[p]
<1>0. TypeOK /\ reply[p] # None /\ messages' = messages /\ stale' = stale /\ received' = [received EXCEPT ![p] = r]
  BY DEF LogInv, ByPosition, Deliver, store
<1>a. reply[p] \in Seq(Message)
  <2>1. reply[p] \in Seq(Message) \cup {None} /\ reply[p] # None
    BY <1>0 DEF TypeOK
  <2> QED BY <2>1, Zenon
<1>b. received[p] \in Seq(Message)
  BY <1>0 DEF TypeOK
<1>c. Owner[p] \in Users
  BY StatelessAssumption
<1>d. r \in Seq(Message)
  BY <1>a, <1>b
<1>1. reply[p] \in Seq(Message) /\ received[p] \in Seq(Message) /\ Owner[p] \in Users /\ r \in Seq(Message)
  BY <1>a, <1>b, <1>c, <1>d
<1>2. logs' = logs
  BY <1>0 DEF logs
<1>3. \A q \in Pollers : received'[q] = IF q = p THEN r ELSE received[q]
  BY <1>0 DEF TypeOK
<1>4. CASE stale[p] \/ reply[p] = <<>>
  <2>0. received[p] \o <<>> = received[p]
    BY <1>b
  <2>1. stale[p] \/ r = received[p]
    BY <1>4, <2>0, Zenon
  <2>2. \A q \in Pollers : stale[q] \/ received'[q] = received[q]
    BY <1>3, <2>1
  <2>3. held' = held
    BY <1>0, <2>2 DEF held
  <2> QED BY <1>2, <2>3
<1>5. CASE ~stale[p] /\ reply[p] # <<>>
  <2>1. Numbered(s) /\ Follows(received[p], s, 0) /\ Follows(reply[p], s, Len(received[p]))
    BY <1>0, <1>1, <1>5, ShapeNumbered DEF LogInv, InStep
  <2>2. Follows(r, s, 0) /\ Len(r) = Len(received[p]) + Len(reply[p])
    BY <1>1, <2>1, DeliverFollows
  <2>3. Len(reply[p]) > 0 /\ Len(reply[p]) \in Nat /\ Len(received[p]) \in Nat /\ Len(r) <= Len(s)
    <3>1. Len(reply[p]) \in Nat /\ Len(received[p]) \in Nat
      BY <1>a, <1>b
    <3>2. Len(reply[p]) # 0
      BY <1>a, <1>5
    <3> HIDE DEF r, s
    <3>3. Len(r) \in Nat
      BY <1>d
    <3>4. 0 + Len(r) <= Len(s)
      BY <2>2, Zenon DEF Follows
    <3>5. Len(r) <= Len(s)
      BY <3>3, <3>4
    <3> QED BY <3>1, <3>2, <3>5
  <2>4. TopicsOf(r) = SubSeq(TopicsOf(s), 1, Len(r))
    BY <1>1, <2>1, <2>2, TopicsBeginning
  <2>5. s \in Seq(Message)
    BY <2>1 DEF Numbered
  <2> HIDE DEF r, s
  <2>6. logs[Owner[p]] = TopicsOf(s) /\ Len(TopicsOf(s)) = Len(s)
    BY <1>1, <2>5, TopicsType DEF logs, s
  <2>7. held[p] = TopicsOf(received[p]) /\ Len(held[p]) = Len(received[p]) /\ held[p] # None
    BY <1>1, <1>5, TopicsType, StatelessAssumption DEF held
  <2>8. Len(r) \in Len(held[p]) + 1 .. Len(logs[Owner[p]])
    <3>1. Len(s) \in Nat
      BY <2>5
    <3>2. Len(logs[Owner[p]]) = Len(s)
      BY <2>6, Zenon
    <3>3. Len(held[p]) = Len(received[p])
      BY <2>7
    <3>a. Len(r) = Len(received[p]) + Len(reply[p])
      BY <2>2
    <3>b. Len(reply[p]) \in Nat /\ Len(received[p]) \in Nat /\ Len(reply[p]) > 0
      BY <2>3
    <3>c. \A a, b \in Nat : b > 0 => a + b \in Nat /\ a + b >= a + 1
      OBVIOUS
    <3>4. Len(r) \in Nat /\ Len(r) >= Len(received[p]) + 1
      BY <3>a, <3>b, <3>c, Zenon
    <3> QED BY <2>3, <3>1, <3>2, <3>3, <3>4
  <2>9. held' = [held EXCEPT ![p] = SubSeq(logs[Owner[p]], 1, Len(r))]
    <3>1. \A q \in Pollers : held'[q] = IF q = p THEN TopicsOf(r) ELSE held[q]
      BY <1>0, <1>3, <1>5 DEF held
    <3>2. held' = [q \in Pollers |-> held'[q]] /\ held = [q \in Pollers |-> held[q]]
      BY DEF held
    <3>3. held' = [held EXCEPT ![p] = TopicsOf(r)]
      BY <3>1, <3>2
    <3> QED BY <2>4, <2>6, <3>3, Zenon
  <2> QED BY <1>2, <2>7, <2>8, <2>9 DEF Log!CatchUp
<1> QED BY <1>4, <1>5

(* Every step of the store, its server and the pollers is one of the log.   *)
LEMMA RefinementStep ==
  ASSUME LogInv, LogInv', [Next]_vars
  PROVE  [Log!Next]_<<logs, held>>
<1>0. TypeOK
  BY DEF LogInv, ByPosition
<1>1. ASSUME NEW u \in Users, NEW t \in Topics, Send(u, t)
      PROVE  Log!Publish(u, t)
  <2> DEFINE m == [id |-> lastID[u] + 1, topic |-> t]
  <2>1. messages' = [messages EXCEPT ![u] = Append(messages[u], m)] /\ held' = held
    BY <1>1 DEF Send, Store, client, held
  <2>a. lastID[u] \in Nat /\ messages[u] \in Seq(Message)
    BY <1>0 DEF TypeOK
  <2>b. lastID[u] + 1 \in Nat \ {0}
    BY <2>a
  <2>2. m \in Message /\ m.topic = t /\ messages[u] \in Seq(Message)
    BY <2>a, <2>b DEF Message
  <2> HIDE DEF m
  <2>3. TopicsOf(Append(messages[u], m)) = Append(TopicsOf(messages[u]), t)
    BY <2>2, TopicsAppend
  <2>4. \A v \in Users : messages'[v] = IF v = u THEN Append(messages[u], m) ELSE messages[v]
    BY <1>0, <2>1 DEF TypeOK
  <2>5. logs' = [logs EXCEPT ![u] = Append(logs[u], t)]
    BY <2>3, <2>4 DEF logs
  <2> QED BY <2>1, <2>5 DEF Log!Publish
<1>2. ASSUME NEW u \in Users, Clear(u)
      PROVE  Log!Truncate({u})
  <2>1. messages' = [v \in Users |-> IF v \in {u} THEN <<>> ELSE messages[v]]
    BY <1>0, <1>2 DEF Clear, TypeOK
  <2>2. {u} \in SUBSET Users /\ Forget({u}) /\ received' = received
    BY <1>2 DEF Clear, client
  <2> QED BY <2>1, <2>2, ClearTruncates
<1>3. CASE ClearAll
  <2>1. messages' = [v \in Users |-> IF v \in Users THEN <<>> ELSE messages[v]]
    BY <1>3 DEF ClearAll
  <2>2. Users \in SUBSET Users /\ Forget(Users) /\ received' = received
    BY <1>3 DEF ClearAll, client
  <2>3. Log!Truncate(Users)
    BY <2>1, <2>2, ClearTruncates
  <2> QED BY <2>3 DEF Log!Next
<1>4. ASSUME NEW p \in Pollers, Deliver(p)
      PROVE  Log!CatchUp(p) \/ UNCHANGED <<logs, held>>
  BY <1>4, DeliverCatchesUp
<1>5. ASSUME UNCHANGED vars \/ \E p \in Pollers : Poll(p) \/ Fetch(p) \/ Lose(p)
      PROVE  UNCHANGED <<logs, held>>
  <2>1. messages' = messages /\ received' = received /\ stale' = stale
    BY <1>5 DEF vars, store, client, Poll, Fetch, Lose
  <2> QED BY <2>1 DEF logs, held
<1> QED BY <1>1, <1>2, <1>3, <1>4, <1>5 DEF Next, Log!Next

(* For every set of users and pollers, every limit and batch size: Store,   *)
(* Fetch, Clear and ClearAll, with pollers that lose replies and ask again, *)
(* implement MessageLog, a log of which each poller has a beginning.        *)
THEOREM StoreImplementsLog == Spec => ImplementsLog
<1>1. Init => Log!Init
  BY StatelessAssumption DEF Init, Log!Init, logs, held, TopicsOf
<1>2. ASSUME LogInv, LogInv', [Next]_vars
      PROVE  [Log!Next]_<<logs, held>>
  BY <1>2, RefinementStep
<1> QED BY <1>1, <1>2, LogInit, LogStep, PTL DEF Spec, ImplementsLog, Log!Spec

=============================================================================
