------------------------- MODULE WsConnectionProofs -------------------------
(***************************************************************************)
(* Proofs about one WebSocket connection: the order of its messages from    *)
(* Send through the queue and the hand of writePump to the socket.  And     *)
(* about the senders that go over many connections: what a Broadcast walks  *)
(* over stays as it is while it waits for the queues.                       *)
(***************************************************************************)
EXTENDS WsConnection, TLAPS

(* accepted is wire, k messages that are in neither, and send.              *)
Split(w, k, q, all) ==
  /\ Len(all) = Len(w) + k + Len(q)
  /\ \A i \in 1 .. Len(w) : w[i] = all[i]
  /\ \A i \in 1 .. Len(q) : q[i] = all[Len(w) + k + i]

(* The message between the two is the one in the hand of writePump, and     *)
(* when it has returned, the one that its last write lost.                  *)
Order ==
  /\ pump \in {"off", "select"} => hand = None /\ Split(wire, 0, send, accepted)
  /\ pump \in {"enter", "write"} =>
       \/ hand \in {Ping, Bye} /\ Split(wire, 0, send, accepted)
       \/ /\ hand \in Messages
          /\ Split(wire, 1, send, accepted)
          /\ hand = accepted[Len(wire) + 1]
  /\ pump = "return" => Split(wire, 0, send, accepted) \/ Split(wire, 1, send, accepted)

(* writePump writes a frame.                                                *)
Holding == pump \in {"enter", "write"} => hand # None

OrderInv == TypeOK /\ Holding /\ (~raced => Order)

-----------------------------------------------------------------------------
(* How the parts of Order change.                                           *)

Queues == Seq(Messages \cup {Junk})

(* A message that is accepted goes to the end of both.                      *)
LEMMA SplitAccept ==
  ASSUME NEW w \in Queues, NEW k \in {0, 1}, NEW q \in Seq(Messages), NEW all \in Seq(Messages),
         NEW m \in Messages, Split(w, k, q, all)
  PROVE  Split(w, k, Append(q, m), Append(all, m))
<1> DEFINE q2 == Append(q, m)
           all2 == Append(all, m)
<1>1. Len(w) \in Nat /\ Len(q) \in Nat /\ Len(all) \in Nat /\ k \in Nat /\ Len(all) = Len(w) + k + Len(q)
  BY DEF Split, Queues
<1>2. /\ Len(q2) = Len(q) + 1 /\ Len(all2) = Len(all) + 1
      /\ \A i \in 1 .. Len(q) : q2[i] = q[i]
      /\ \A i \in 1 .. Len(all) : all2[i] = all[i]
      /\ q2[Len(q) + 1] = m /\ all2[Len(all) + 1] = m
  OBVIOUS
<1> HIDE DEF q2, all2
<1>3. Len(all2) = Len(w) + k + Len(q2)
  BY <1>1, <1>2
<1>4. ASSUME NEW i \in 1 .. Len(w)
      PROVE  w[i] = all2[i]
  <2>1. i \in 1 .. Len(all)
    BY <1>1
  <2> QED BY <1>2, <2>1 DEF Split
<1>5. ASSUME NEW i \in 1 .. Len(q2)
      PROVE  q2[i] = all2[Len(w) + k + i]
  <2>1. i \in 1 .. Len(q) \/ i = Len(q) + 1
    BY <1>1, <1>2
  <2>2. CASE i \in 1 .. Len(q)
    <3>1. Len(w) + k + i \in 1 .. Len(all)
      BY <1>1, <2>2
    <3>2. q[i] = all[Len(w) + k + i]
      BY <2>2 DEF Split
    <3> QED BY <1>2, <2>2, <3>1, <3>2
  <2>3. CASE i = Len(q) + 1
    <3>1. Len(w) + k + i = Len(all) + 1
      BY <1>1, <2>3
    <3> QED BY <1>2, <2>3, <3>1
  <2> QED BY <2>1, <2>2, <2>3
<1> QED BY <1>3, <1>4, <1>5 DEF Split, q2, all2

(* The message that writePump takes is the next of accepted.                *)
LEMMA SplitTake ==
  ASSUME NEW w \in Queues, NEW q \in Seq(Messages), NEW all \in Seq(Messages),
         q # <<>>, Split(w, 0, q, all)
  PROVE  Split(w, 1, Tail(q), all) /\ Head(q) \in Messages /\ Head(q) = all[Len(w) + 1]
<1> DEFINE q2 == Tail(q)
<1>1. Len(w) \in Nat /\ Len(q) \in Nat /\ Len(q) > 0 /\ Len(all) = Len(w) + 0 + Len(q)
  BY DEF Split, Queues
<1>2. Len(q2) = Len(q) - 1 /\ \A i \in 1 .. Len(q2) : q2[i] = q[i + 1]
  OBVIOUS
<1>3. Head(q) = q[1] /\ Head(q) \in Messages
  OBVIOUS
<1> HIDE DEF q2
<1>4. Len(all) = Len(w) + 1 + Len(q2)
  BY <1>1, <1>2
<1>5. q[1] = all[Len(w) + 0 + 1]
  BY <1>1 DEF Split
<1>6. ASSUME NEW i \in 1 .. Len(q2)
      PROVE  q2[i] = all[Len(w) + 1 + i]
  <2>1. i + 1 \in 1 .. Len(q) /\ Len(w) + 0 + (i + 1) = Len(w) + 1 + i
    BY <1>1, <1>2
  <2>2. q[i + 1] = all[Len(w) + 0 + (i + 1)]
    BY <2>1 DEF Split
  <2> QED BY <1>2, <2>1, <2>2
<1>7. Split(w, 1, q2, all)
  BY <1>4, <1>6 DEF Split
<1>8. Head(q) = all[Len(w) + 1]
  BY <1>1, <1>3, <1>5
<1> QED BY <1>3, <1>7, <1>8 DEF q2

(* A message that is written goes to the end of wire.                       *)
LEMMA SplitWrite ==
  ASSUME NEW w \in Queues, NEW q \in Seq(Messages), NEW all \in Seq(Messages),
         NEW m \in Messages, m = all[Len(w) + 1], Split(w, 1, q, all)
  PROVE  Split(Append(w, m), 0, q, all)
<1> DEFINE w2 == Append(w, m)
<1>1. Len(w) \in Nat /\ Len(q) \in Nat /\ Len(all) = Len(w) + 1 + Len(q)
  BY DEF Split, Queues
<1>2. Len(w2) = Len(w) + 1 /\ w2[Len(w) + 1] = m /\ \A i \in 1 .. Len(w) : w2[i] = w[i]
  BY DEF Queues
<1> HIDE DEF w2
<1>3. Len(all) = Len(w2) + 0 + Len(q)
  BY <1>1, <1>2
<1>4. ASSUME NEW i \in 1 .. Len(w2)
      PROVE  w2[i] = all[i]
  <2>1. i \in 1 .. Len(w) \/ i = Len(w) + 1
    BY <1>1, <1>2
  <2>2. CASE i \in 1 .. Len(w)
    BY <1>2, <2>2 DEF Split
  <2>3. CASE i = Len(w) + 1
    BY <1>2, <2>3
  <2> QED BY <2>1, <2>2, <2>3
<1>5. ASSUME NEW i \in 1 .. Len(q)
      PROVE  q[i] = all[Len(w2) + 0 + i]
  <2>1. Len(w2) + 0 + i = Len(w) + 1 + i
    BY <1>1, <1>2
  <2> QED BY <2>1 DEF Split
<1> QED BY <1>3, <1>4, <1>5 DEF Split, w2

(* The two ends of accepted.                                                *)
LEMMA SplitEnds ==
  ASSUME NEW w \in Queues, NEW k \in {0, 1}, NEW q \in Seq(Messages), NEW all \in Seq(Messages),
         Split(w, k, q, all)
  PROVE  /\ Len(w) + Len(q) \in Len(all) - 1 .. Len(all)
         /\ w = SubSeq(all, 1, Len(w))
         /\ q = SubSeq(all, Len(all) - Len(q) + 1, Len(all))
<1>1. Len(w) \in Nat /\ Len(q) \in Nat /\ Len(all) \in Nat /\ k \in Nat /\ Len(all) = Len(w) + k + Len(q)
  BY DEF Split, Queues
<1>2. Len(w) + Len(q) \in Len(all) - 1 .. Len(all)
  BY <1>1
<1>3. w = SubSeq(all, 1, Len(w))
  <2> DEFINE a == SubSeq(all, 1, Len(w))
  <2>1. a \in Seq(Messages) /\ Len(a) = Len(w) /\ \A i \in 1 .. Len(w) : a[i] = all[i]
    BY <1>1
  <2> HIDE DEF a
  <2>2. \A i \in 1 .. Len(w) : a[i] = w[i]
    BY <2>1 DEF Split
  <2>3. a = w
    BY <2>1, <2>2 DEF Queues
  <2> QED BY <2>3 DEF a
<1>4. q = SubSeq(all, Len(all) - Len(q) + 1, Len(all))
  <2> DEFINE n == Len(all) - Len(q) + 1
             a == SubSeq(all, n, Len(all))
  <2>1. n = Len(w) + k + 1 /\ n \in 1 .. Len(all) + 1
    BY <1>1
  <2> HIDE DEF n
  <2>2. a \in Seq(Messages) /\ Len(a) = Len(all) - n + 1 /\ \A i \in 1 .. Len(a) : a[i] = all[n + i - 1]
    BY <1>1, <2>1
  <2> HIDE DEF a
  <2>3. Len(a) = Len(q)
    BY <1>1, <2>1, <2>2
  <2>4. ASSUME NEW i \in 1 .. Len(q)
        PROVE  a[i] = q[i]
    <3>1. n + i - 1 = Len(w) + k + i
      BY <1>1, <2>1
    <3>2. a[i] = all[n + i - 1]
      BY <2>2, <2>3
    <3> QED BY <3>1, <3>2 DEF Split
  <2>5. a = q
    BY <2>2, <2>3, <2>4
  <2> QED BY <2>5 DEF a, n
<1> QED BY <1>2, <1>3, <1>4

-----------------------------------------------------------------------------
(* A step of any goroutine leaves every variable of its type.               *)
LEMMA TypeStep == TypeOK /\ Holding /\ [Next]_vars => TypeOK'
<1> SUFFICES ASSUME TypeOK, Holding, [Next]_vars
             PROVE  TypeOK'
  OBVIOUS
<1> USE DEF queue, network, closing
<1>0. Pump \in Actors /\ Reader \in Actors
  BY DEF Actors
<1>1. ASSUME NEW s \in Senders, Send(s)
      PROVE  TypeOK'
  <2>1. calls' \in 0 .. MaxSends /\ calls' \in Messages
    BY <1>1, WsConnectionAssumption DEF Send, TypeOK, Messages
  <2> QED BY <1>1, <2>1 DEF Send, TypeOK
<1>2. ASSUME NEW s \in Senders, SendAccepted(s)
      PROVE  TypeOK'
  <2>1. sending[s] \in Messages
    BY <1>2 DEF SendAccepted, TypeOK
  <2>2. send' \in Seq(Messages) /\ accepted' \in Seq(Messages) /\ Len(send') <= Cap
    <3>1. send \in Seq(Messages) /\ accepted \in Seq(Messages) /\ Len(send) < Cap
      BY <1>2 DEF SendAccepted, TypeOK
    <3>2. send' = Append(send, sending[s]) /\ accepted' = Append(accepted, sending[s])
      BY <1>2 DEF SendAccepted
    <3> QED BY <2>1, <3>1, <3>2, WsConnectionAssumption
  <2>3. sending' \in [Senders -> Messages \cup {0}]
    BY <1>2 DEF SendAccepted, TypeOK
  <2> QED BY <1>2, <2>2, <2>3 DEF SendAccepted, TypeOK
<1>3. ASSUME NEW s \in Senders, SendClosed(s) \/ SendCancelled(s)
      PROVE  TypeOK'
  BY <1>3 DEF SendClosed, SendCancelled, TypeOK
<1>4. ASSUME NEW a \in Actors, CloseFirst(a) \/ CloseAgain(a) \/ AppCloses(a) \/ CloseSocket(a)
      PROVE  TypeOK'
  BY <1>4 DEF CloseFirst, CloseAgain, AppCloses, CloseSocket, TypeOK
<1>5. ASSUME NEW a \in Actors, CloseEnters(a)
      PROVE  TypeOK'
  BY <1>5 DEF CloseEnters, EnterWrite, TypeOK
<1>6. ASSUME NEW a \in Actors, CloseFrame(a)
      PROVE  TypeOK'
  BY <1>6 DEF CloseFrame, Written, TypeOK
<1>7. CASE StartPumps \/ TickerPings \/ SeesStop
  BY <1>7 DEF StartPumps, TickerPings, SeesStop, TypeOK
<1>8. CASE TakeMessage
  <2>1. send' \in Seq(Messages) /\ Len(send') <= Cap /\ hand' \in Messages
    <3>1. send \in Seq(Messages) /\ send # <<>> /\ Len(send) <= Cap
      BY <1>8 DEF TakeMessage, TypeOK
    <3>2. send' = Tail(send) /\ hand' = Head(send)
      BY <1>8 DEF TakeMessage
    <3>3. Len(send') = Len(send) - 1 /\ Len(send) \in Nat
      BY <3>1, <3>2
    <3> QED BY <3>1, <3>2, <3>3, WsConnectionAssumption
  <2> QED BY <1>8, <2>1 DEF TakeMessage, TypeOK
<1>9. CASE SeesDone \/ WriteFails
  BY <1>0, <1>9 DEF SeesDone, WriteFails, PumpReturns, TypeOK
<1>10. CASE PumpEnters
  BY <1>10 DEF PumpEnters, EnterWrite, TypeOK
<1>11. CASE WriteSucceeds
  <2>0. hand # None
    BY <1>11 DEF WriteSucceeds, Holding
  <2>1. wire' \in Seq(Messages \cup {Junk})
    <3>1. wire' = wire \/ wire' = Append(wire, Junk) \/ (hand \in Messages /\ wire' = Append(wire, hand))
      BY <1>11, <2>0 DEF WriteSucceeds, Written, TypeOK
    <3>2. wire \in Seq(Messages \cup {Junk})
      BY DEF TypeOK
    <3> QED BY <3>1, <3>2
  <2>2. socket' \in {"open", "closeSent", "closed"}
    BY <1>11 DEF WriteSucceeds, Written, TypeOK
  <2>3. /\ pump' \in {"off", "select", "enter", "write", "return"}
        /\ hand' = None
        /\ at' \in [Actors -> {"no", "once", "enter", "frame", "shut", "out"}]
        /\ UNCHANGED <<done, once>>
    BY <1>0, <1>11 DEF WriteSucceeds, PumpReturns, TypeOK
  <2> QED BY <1>11, <2>1, <2>2, <2>3 DEF WriteSucceeds, TypeOK
<1>12. CASE ReadFails
  BY <1>0, <1>12 DEF ReadFails, TypeOK
<1>13. CASE PeerLeaves \/ Stop
  BY <1>13 DEF PeerLeaves, Stop, TypeOK
<1>14. CASE UNCHANGED vars
  BY <1>14 DEF vars, TypeOK
<1> QED BY <1>1, <1>2, <1>3, <1>4, <1>5, <1>6, <1>7, <1>8, <1>9, <1>10, <1>11, <1>12, <1>13, <1>14
        DEF Next, CloseStep, PumpStep

(* writePump takes a frame before it writes and drops it afterwards.        *)
LEMMA HoldingStep == TypeOK /\ Holding /\ [Next]_vars => Holding'
<1> SUFFICES ASSUME TypeOK, Holding, [Next]_vars
             PROVE  Holding'
  OBVIOUS
<1> USE DEF queue, network, closing
<1>1. CASE TakeMessage
  <2>1. send \in Seq(Messages) /\ send # <<>> /\ hand' = Head(send)
    BY <1>1 DEF TakeMessage, TypeOK
  <2>2. hand' \in Messages
    BY <2>1
  <2>3. None \notin Messages
    BY WsConnectionAssumption DEF Messages
  <2> QED BY <2>2, <2>3 DEF Holding
<1>2. CASE TickerPings \/ SeesStop
  <2>1. hand' \in {Ping, Bye}
    BY <1>2 DEF TickerPings, SeesStop
  <2> QED BY <2>1, WsConnectionAssumption DEF Holding
<1>3. CASE PumpEnters
  BY <1>3 DEF PumpEnters, Holding
<1>4. CASE StartPumps \/ SeesDone \/ WriteFails \/ WriteSucceeds
  BY <1>4 DEF StartPumps, SeesDone, WriteFails, WriteSucceeds, PumpReturns, Holding
<1>5. CASE UNCHANGED <<pump, hand>>
  BY <1>5 DEF Holding
<1>6. ASSUME NEW s \in Senders, Send(s) \/ SendAccepted(s) \/ SendClosed(s) \/ SendCancelled(s)
      PROVE  UNCHANGED <<pump, hand>>
  BY <1>6 DEF Send, SendAccepted, SendClosed, SendCancelled
<1>7. ASSUME NEW a \in Actors, CloseStep(a) \/ AppCloses(a)
      PROVE  UNCHANGED <<pump, hand>>
  BY <1>7 DEF CloseStep, CloseFirst, CloseEnters, CloseFrame, CloseSocket, CloseAgain, AppCloses
<1>8. ASSUME ReadFails \/ PeerLeaves \/ Stop \/ UNCHANGED vars
      PROVE  UNCHANGED <<pump, hand>>
  BY <1>8 DEF ReadFails, PeerLeaves, Stop, vars
<1> QED BY <1>1, <1>2, <1>3, <1>4, <1>5, <1>6, <1>7, <1>8 DEF Next, PumpStep

(* Every step keeps the order, up to one in which two goroutines race.      *)
LEMMA OrderStep == OrderInv /\ [Next]_vars => (~raced' => Order')
<1> SUFFICES ASSUME OrderInv, [Next]_vars, ~raced'
             PROVE  Order'
  OBVIOUS
<1> USE DEF queue, network, closing
<1>0. TypeOK /\ Holding
  BY DEF OrderInv
<1>a. wire \in Queues /\ send \in Seq(Messages) /\ accepted \in Seq(Messages)
  BY <1>0 DEF TypeOK, Queues
<1>b. {Ping, Bye} \cap Messages = {} /\ Ping # Bye
  BY WsConnectionAssumption DEF Messages
<1>1. ~raced /\ Order
  <2>1. raced' = raced \/ raced' = TRUE
    <3>1. ASSUME NEW s \in Senders, Send(s) \/ SendAccepted(s) \/ SendClosed(s) \/ SendCancelled(s)
          PROVE  raced' = raced
      BY <3>1 DEF Send, SendAccepted, SendClosed, SendCancelled
    <3>2. ASSUME NEW a \in Actors, CloseStep(a) \/ AppCloses(a)
          PROVE  raced' = raced \/ raced' = TRUE
      BY <3>2 DEF CloseStep, CloseFirst, CloseEnters, CloseFrame, CloseSocket, CloseAgain, AppCloses,
                  EnterWrite
    <3>3. PumpStep => raced' = raced \/ raced' = TRUE
      BY DEF PumpStep, StartPumps, TakeMessage, SeesStop, SeesDone, PumpEnters, WriteSucceeds,
             WriteFails, EnterWrite
    <3>4. TickerPings \/ ReadFails \/ PeerLeaves \/ Stop \/ UNCHANGED vars => raced' = raced
      BY DEF TickerPings, ReadFails, PeerLeaves, Stop, vars
    <3> QED BY <3>1, <3>2, <3>3, <3>4 DEF Next
  <2> QED BY <2>1 DEF OrderInv
<1>2. ASSUME NEW s \in Senders, SendAccepted(s)
      PROVE  Order'
  <2> DEFINE m == sending[s]
  <2>1. m \in Messages
    BY <1>0, <1>2 DEF SendAccepted, TypeOK
  <2>2. send' = Append(send, m) /\ accepted' = Append(accepted, m) /\ UNCHANGED <<wire, pump, hand>>
    BY <1>2 DEF SendAccepted
  <2> HIDE DEF m
  <2>3. ASSUME NEW k \in {0, 1}, Split(wire, k, send, accepted)
        PROVE  Split(wire', k, send', accepted')
    <3>1. Split(wire, k, Append(send, m), Append(accepted, m))
      BY <1>a, <2>1, <2>3, SplitAccept
    <3> QED BY <2>2, <3>1, Zenon
  <2>4. ASSUME Split(wire, 1, send, accepted)
        PROVE  accepted'[Len(wire) + 1] = accepted[Len(wire) + 1]
    <3>1. Len(wire) \in Nat /\ Len(send) \in Nat /\ Len(accepted) = Len(wire) + 1 + Len(send)
      BY <1>a, <2>4 DEF Split, Queues
    <3>2. Len(wire) + 1 \in 1 .. Len(accepted)
      BY <3>1
    <3> QED BY <1>a, <2>1, <2>2, <3>2
  <2>5. Split(wire, 0, send, accepted) => Split(wire', 0, send', accepted')
    BY <2>3
  <2>6. Split(wire, 1, send, accepted) => Split(wire', 1, send', accepted')
                                          /\ accepted'[Len(wire') + 1] = accepted[Len(wire) + 1]
    BY <2>2, <2>3, <2>4
  <2> QED BY <1>1, <2>2, <2>5, <2>6, Zenon DEF Order
<1>3. CASE TakeMessage
  <2>1. /\ pump = "select" /\ send # <<>> /\ hand' = Head(send) /\ send' = Tail(send)
        /\ pump' = "enter" /\ UNCHANGED <<wire, accepted>>
    BY <1>3 DEF TakeMessage
  <2>2. Split(wire, 0, send, accepted)
    BY <1>1, <2>1 DEF Order
  <2>3. Split(wire, 1, Tail(send), accepted) /\ Head(send) \in Messages /\ Head(send) = accepted[Len(wire) + 1]
    BY <1>a, <2>1, <2>2, SplitTake
  <2>4. Split(wire', 1, send', accepted')
    BY <2>1, <2>3, Zenon
  <2>5. hand' \in Messages /\ hand' = accepted'[Len(wire') + 1]
    BY <2>1, <2>3, Zenon
  <2> QED BY <2>1, <2>4, <2>5 DEF Order
<1>4. CASE WriteSucceeds
  <2>1. /\ pump = "write" /\ Written(hand) /\ UNCHANGED <<send, accepted>>
        /\ hand' = None /\ pump' = IF hand = Bye THEN "return" ELSE "select"
    BY <1>4 DEF WriteSucceeds, PumpReturns
  <2>2. CASE hand \in {Ping, Bye} /\ Split(wire, 0, send, accepted)
    <3>1. wire' = wire
      BY <2>1, <2>2 DEF Written
    <3>2. Split(wire', 0, send', accepted')
      BY <2>1, <2>2, <3>1, Zenon
    <3> QED BY <2>1, <3>2 DEF Order
  <2>3. CASE hand \in Messages /\ Split(wire, 1, send, accepted) /\ hand = accepted[Len(wire) + 1]
    <3>1. wire' = Append(wire, hand)
      BY <1>1, <1>b, <2>1, <2>3 DEF Written
    <3>2. Split(Append(wire, hand), 0, send, accepted)
      BY <1>a, <2>3, SplitWrite
    <3>3. Split(wire', 0, send', accepted')
      BY <2>1, <3>1, <3>2, Zenon
    <3> QED BY <2>1, <3>3 DEF Order
  <2> QED BY <1>1, <2>1, <2>2, <2>3 DEF Order
<1>5. CASE UNCHANGED <<wire, send, accepted>>
           /\ \/ UNCHANGED <<pump, hand>>
              \/ pump = "off" /\ pump' = "select" /\ hand' = hand
              \/ pump = "select" /\ pump' = "enter" /\ hand' \in {Ping, Bye}
              \/ pump = "enter" /\ pump' = "write" /\ hand' = hand
              \/ pump \in {"select", "write"} /\ pump' = "return"
  <2>1. /\ Split(wire, 0, send, accepted)' <=> Split(wire, 0, send, accepted)
        /\ Split(wire, 1, send, accepted)' <=> Split(wire, 1, send, accepted)
        /\ accepted'[Len(wire') + 1] = accepted[Len(wire) + 1]
    BY <1>5, Zenon
  <2> QED BY <1>1, <1>5, <2>1 DEF Order
<1>6. ASSUME NEW s \in Senders, Send(s) \/ SendClosed(s) \/ SendCancelled(s)
      PROVE  UNCHANGED <<wire, send, accepted, pump, hand>>
  BY <1>6 DEF Send, SendClosed, SendCancelled
<1>7. ASSUME NEW a \in Actors, CloseStep(a) \/ AppCloses(a)
      PROVE  UNCHANGED <<wire, send, accepted, pump, hand>>
  BY <1>7 DEF CloseStep, CloseFirst, CloseEnters, CloseFrame, CloseSocket, CloseAgain, AppCloses, Written
<1>8. ASSUME ReadFails \/ PeerLeaves \/ Stop \/ UNCHANGED vars
      PROVE  UNCHANGED <<wire, send, accepted, pump, hand>>
  BY <1>8 DEF ReadFails, PeerLeaves, Stop, vars
<1>9. ASSUME StartPumps \/ SeesStop \/ SeesDone \/ PumpEnters \/ WriteFails \/ TickerPings
      PROVE  UNCHANGED <<wire, send, accepted>>
             /\ \/ pump = "off" /\ pump' = "select" /\ hand' = hand
                \/ pump = "select" /\ pump' = "enter" /\ hand' \in {Ping, Bye}
                \/ pump = "enter" /\ pump' = "write" /\ hand' = hand
                \/ pump \in {"select", "write"} /\ pump' = "return"
  BY <1>9 DEF StartPumps, SeesStop, SeesDone, PumpEnters, WriteFails, TickerPings, PumpReturns
<1> QED BY <1>2, <1>3, <1>4, <1>5, <1>6, <1>7, <1>8, <1>9 DEF Next, PumpStep

-----------------------------------------------------------------------------
(* For every number of senders and closers and every capacity of the queue: *)
(* as long as Close and writePump do not write at the same time, the peer   *)
(* gets the accepted messages in order and without a gap, at most the last  *)
(* message taken from the queue is lost, and the rest is in the queue.      *)
THEOREM WrittenInOrder == Spec => []InOrder
<1>1. Init => OrderInv
  <2> SUFFICES ASSUME Init
               PROVE  OrderInv
    OBVIOUS
  <2>1. TypeOK
    <3>1. send \in Seq(Messages) /\ accepted \in Seq(Messages) /\ wire \in Seq(Messages \cup {Junk})
      BY DEF Init
    <3>2. Len(send) <= Cap /\ calls \in 0 .. MaxSends
      BY WsConnectionAssumption DEF Init
    <3>3. {done, stop, peerGone, raced, crashed} \subseteq BOOLEAN
      BY DEF Init
    <3>4. sending \in [Senders -> Messages \cup {0}]
      BY DEF Init
    <3> QED BY <3>1, <3>2, <3>3, <3>4 DEF Init, TypeOK
  <2>2. Order /\ Holding
    BY DEF Init, Order, Holding, Split
  <2> QED BY <2>1, <2>2 DEF OrderInv
<1>2. OrderInv /\ [Next]_vars => OrderInv'
  BY TypeStep, HoldingStep, OrderStep DEF OrderInv
<1>3. OrderInv => InOrder
  <2> SUFFICES ASSUME OrderInv
               PROVE  InOrder
    OBVIOUS
  <2>1. wire \in Queues /\ send \in Seq(Messages) /\ accepted \in Seq(Messages)
    BY DEF OrderInv, TypeOK, Queues
  <2>2. ASSUME ~raced
        PROVE  Split(wire, 0, send, accepted) \/ Split(wire, 1, send, accepted)
    BY <2>2 DEF OrderInv, Order, TypeOK
  <2>3. ASSUME NEW k \in {0, 1}, Split(wire, k, send, accepted)
        PROVE  /\ Len(wire) + Len(send) \in Len(accepted) - 1 .. Len(accepted)
               /\ wire = SubSeq(accepted, 1, Len(wire))
               /\ send = SubSeq(accepted, Len(accepted) - Len(send) + 1, Len(accepted))
    BY <2>1, <2>3, SplitEnds
  <2> QED BY <2>2, <2>3 DEF InOrder, OrderInv
<1> QED BY <1>1, <1>2, <1>3, PTL DEF Spec

-----------------------------------------------------------------------------
(* Many connections.  Broadcast has the queues of the connections and the   *)
(* lock that it holds while it sends to them; the connections, the          *)
(* goroutines that send and the variables are its own.                      *)

CONSTANTS Conns, Callers, Closer, Settings
VARIABLES setting, connections, readers, writer, pc, wr, queued, closed, lost, call, todo, sendsTo, stopAt

B == INSTANCE Broadcast WITH at <- sendsTo, stop <- stopAt

(* Who is not sending has nobody to send to and does not hold the lock; the *)
(* handler of a connection sends nothing before it is registered.           *)
WalkInv ==
  /\ B!WalkStable
  /\ \A b \in B!Goroutines : call[b] # "send" => sendsTo[b] = None /\ b \notin readers
  /\ \A c \in Conns : pc[c] \in {"idle", "register"} => call[c] = "idle"

(* No connection is registered and no call is under way at first.           *)
LEMMA WalkInvInit == B!Parameters /\ B!Init => WalkInv
BY DEF B!Parameters, B!Init, WalkInv, B!WalkStable, B!TypeOK, B!Goroutines

(* A step that leaves the registered connections, the lock and the calls    *)
(* alone, and lets no handler go back to its start.                         *)
LEMMA WalkFrame ==
  ASSUME WalkInv, B!TypeOK', UNCHANGED <<connections, readers, call, todo, sendsTo>>,
         \A c \in Conns : pc'[c] \in {"idle", "register"} => pc[c] \in {"idle", "register"}
  PROVE  WalkInv'
BY DEF WalkInv, B!WalkStable, B!Goroutines

(* What the handlers, the pumps, the peers and Stop do.                     *)
LEMMA WalkServe ==
  ASSUME B!Parameters, WalkInv, NEW c \in Conns,
         \/ B!Arrives(c) \/ B!HandlerLocks(c) \/ B!OnConnectReturns(c) \/ B!OnConnectFails(c)
         \/ B!HandlerLeaves(c) \/ B!ReadFails(c) \/ B!LoopSeesDone(c) \/ B!StreamReady(c)
         \/ B!PeerLeaves(c) \/ B!AppCloses(c) \/ B!Pump(c)
  PROVE  WalkInv'
<1>0. B!TypeOK
  BY DEF WalkInv, B!WalkStable
<1>1. ASSUME B!Arrives(c) \/ B!HandlerLeaves(c) \/ B!LoopSeesDone(c) PROVE WalkInv'
  <2>1. /\ UNCHANGED <<connections, readers, call, todo, sendsTo>>
        /\ \A d \in Conns : pc'[d] \in {"idle", "register"} => pc[d] \in {"idle", "register"}
    BY <1>0, <1>1 DEF B!Arrives, B!HandlerLeaves, B!LoopSeesDone, B!TypeOK, B!mutex, B!sends
  <2>2. B!TypeOK'
    BY <1>0, <1>1 DEF B!Arrives, B!HandlerLeaves, B!LoopSeesDone, B!TypeOK, B!mutex, B!sends, B!peers
  <2> QED BY <2>1, <2>2, WalkFrame
<1>2. ASSUME B!HandlerLocks(c) \/ B!StreamReady(c) PROVE WalkInv'
  <2>1. /\ UNCHANGED <<connections, readers, call, todo, sendsTo>> /\ pc' = pc
    BY <1>2 DEF B!HandlerLocks, B!StreamReady, B!Lock, B!mutex, B!sends
  <2>2. B!TypeOK'
    BY <1>0, <1>2 DEF B!HandlerLocks, B!StreamReady, B!Lock, B!TypeOK, B!mutex, B!sends, B!peers
  <2> QED BY <2>1, <2>2, WalkFrame
<1>3. ASSUME B!OnConnectReturns(c) \/ B!OnConnectFails(c) PROVE WalkInv'
  <2>1. /\ UNCHANGED <<connections, readers, call, todo, sendsTo>>
        /\ \A d \in Conns : pc'[d] \in {"idle", "register"} => pc[d] \in {"idle", "register"}
    BY <1>0, <1>3 DEF B!OnConnectReturns, B!OnConnectFails, B!TypeOK, B!mutex, B!sends
  <2>2. CASE B!OnConnectReturns(c)
    <3>1. B!TypeOK'
      BY <1>0, <2>2 DEF B!OnConnectReturns, B!TypeOK, B!mutex, B!sends, B!peers
    <3> QED BY <2>1, <3>1, WalkFrame
  <2>3. CASE B!OnConnectFails(c)
    <3>1. B!TypeOK'
      BY <1>0, <2>3 DEF B!OnConnectFails, B!TypeOK, B!mutex, B!sends
    <3> QED BY <2>1, <3>1, WalkFrame
  <2> QED BY <1>3, <2>2, <2>3
<1>4. ASSUME B!ReadFails(c) \/ B!PeerLeaves(c) \/ B!AppCloses(c) PROVE WalkInv'
  <2>1. /\ UNCHANGED <<connections, readers, call, todo, sendsTo>> /\ pc' = pc
    BY <1>4 DEF B!ReadFails, B!PeerLeaves, B!AppCloses, B!mutex, B!sends
  <2>2. B!TypeOK'
    BY <1>0, <1>4 DEF B!ReadFails, B!PeerLeaves, B!AppCloses, B!TypeOK, B!mutex, B!sends
  <2> QED BY <2>1, <2>2, WalkFrame
<1>5. ASSUME B!Pump(c) PROVE WalkInv'
  <2>1. /\ UNCHANGED <<setting, connections, readers, writer, call, todo, sendsTo, lost, stopAt>> /\ pc' = pc
    BY <1>5 DEF B!Pump, B!WriteSucceeds, B!WriteFails, B!PumpSeesDone, B!PumpReturns, B!mutex, B!sends, B!peers
  <2>2. wr' \in [Conns -> {"off", "wait", "run", "done"}]
    BY <1>0, <1>5 DEF B!Pump, B!WriteSucceeds, B!WriteFails, B!PumpSeesDone, B!PumpReturns, B!TypeOK
  <2>3. closed' \in [Conns -> BOOLEAN]
    <3>1. closed' = closed \/ closed' = [closed EXCEPT ![c] = closed[c] \/ setting.transport = "ws"]
      BY <1>5 DEF B!Pump, B!WriteSucceeds, B!WriteFails, B!PumpSeesDone, B!PumpReturns, B!peers
    <3>2. (closed[c] \/ setting.transport = "ws") \in BOOLEAN
      OBVIOUS
    <3> QED BY <1>0, <3>1, <3>2 DEF B!TypeOK
  <2>4. queued' \in [Conns -> 0 .. Cap]
    <3>1. queued' = queued \/ (queued[c] > 0 /\ queued' = [queued EXCEPT ![c] = @ - 1])
      BY <1>5 DEF B!Pump, B!WriteSucceeds, B!WriteFails, B!PumpSeesDone, B!PumpReturns
    <3> QED BY <1>0, <3>1 DEF B!TypeOK, B!Parameters
  <2> QED BY <1>0, <2>1, <2>2, <2>3, <2>4, WalkFrame DEF B!TypeOK
<1> QED BY <1>1, <1>2, <1>3, <1>4, <1>5

(* Registering and unregistering wait until nobody reads.                   *)
LEMMA WalkRegister ==
  ASSUME B!Parameters, WalkInv, NEW c \in Conns, B!registerConnection(c) \/ B!unregisterConnection(c)
  PROVE  WalkInv'
<1>0. B!TypeOK
  BY DEF WalkInv, B!WalkStable
<1>1. readers = {} /\ readers' = {} /\ writer' = None /\ sendsTo' = sendsTo /\ todo' = todo
  BY DEF B!registerConnection, B!unregisterConnection, B!Locked, B!Unlock, B!sends
<1>2. CASE B!registerConnection(c)
  <2>1. B!TypeOK'
    BY <1>0, <1>1, <1>2 DEF B!registerConnection, B!TypeOK, B!peers, B!Goroutines
  <2>2. /\ pc[c] = "register"
        /\ pc' = [pc EXCEPT ![c] = "onConnect"]
        /\ call' = [call EXCEPT ![c] = IF setting.greets THEN "rlock" ELSE "idle"]
    BY <1>2 DEF B!registerConnection
  <2> QED BY <1>0, <1>1, <2>1, <2>2 DEF WalkInv, B!WalkStable, B!TypeOK, B!Goroutines
<1>3. CASE B!unregisterConnection(c)
  <2>1. B!TypeOK'
    BY <1>0, <1>1, <1>3 DEF B!unregisterConnection, B!TypeOK, B!peers, B!sends
  <2>2. pc' = [pc EXCEPT ![c] = "gone"] /\ call' = call
    BY <1>3 DEF B!unregisterConnection, B!sends
  <2> QED BY <1>0, <1>1, <2>1, <2>2 DEF WalkInv, B!WalkStable, B!TypeOK, B!Goroutines
<1> QED BY <1>2, <1>3

(* A call sends to connections that were registered when it took the lock,  *)
(* and gives it back when it has nobody left.                               *)
LEMMA WalkCall ==
  ASSUME B!Parameters, WalkInv, NEW b \in B!Goroutines,
         \/ B!Call(b)
         \/ b \in Callers /\ (B!Broadcast(b) \/ B!SendTo(b))
  PROVE  WalkInv'
<1>0. B!TypeOK
  BY DEF WalkInv, B!WalkStable
<1>1. pc' = pc /\ UNCHANGED <<setting, connections, writer, wr, closed, lost, stopAt>>
  BY DEF B!Call, B!Broadcast, B!SendTo, B!BroadcastLocks, B!CallTurns, B!SendAccepted, B!SendClosed,
         B!CallReturns, B!RLock, B!mutex, B!peers
<1>2. CASE b \in Callers /\ B!Broadcast(b)
  <2>1. B!TypeOK'
    BY <1>0, <1>1, <1>2 DEF B!Broadcast, B!TypeOK, B!mutex
  <2> QED BY <1>0, <1>1, <1>2, <2>1
          DEF B!Broadcast, WalkInv, B!WalkStable, B!TypeOK, B!mutex, B!Goroutines, B!Parameters
<1>3. CASE b \in Callers /\ B!SendTo(b)
  <2>1. B!TypeOK'
    BY <1>0, <1>1, <1>3 DEF B!SendTo, B!TypeOK, B!mutex
  <2> QED BY <1>0, <1>1, <1>3, <2>1
          DEF B!SendTo, WalkInv, B!WalkStable, B!TypeOK, B!mutex, B!Goroutines, B!Parameters
<1>4. CASE B!BroadcastLocks(b)
  <2>1. B!TypeOK'
    BY <1>0, <1>1, <1>4 DEF B!BroadcastLocks, B!RLock, B!TypeOK
  <2> QED BY <1>0, <1>1, <1>4, <2>1
          DEF B!BroadcastLocks, B!RLock, WalkInv, B!WalkStable, B!TypeOK, B!Goroutines
<1>5. CASE B!CallTurns(b)
  <2>1. B!TypeOK'
    BY <1>0, <1>1, <1>5 DEF B!CallTurns, B!TypeOK, B!mutex
  <2> QED BY <1>0, <1>1, <1>5, <2>1
          DEF B!CallTurns, WalkInv, B!WalkStable, B!TypeOK, B!mutex, B!Goroutines
<1>6. CASE B!SendAccepted(b)
  <2>1. queued' \in [Conns -> 0 .. Cap]
    BY <1>0, <1>6 DEF B!SendAccepted, B!TypeOK, B!Parameters
  <2>2. B!TypeOK'
    BY <1>0, <1>1, <1>6, <2>1 DEF B!SendAccepted, B!TypeOK, B!mutex
  <2> QED BY <1>0, <1>1, <1>6, <2>2
          DEF B!SendAccepted, WalkInv, B!WalkStable, B!TypeOK, B!mutex, B!Goroutines
<1>7. CASE B!SendClosed(b)
  <2>1. B!TypeOK'
    BY <1>0, <1>1, <1>7 DEF B!SendClosed, B!TypeOK, B!mutex
  <2> QED BY <1>0, <1>1, <1>7, <2>1
          DEF B!SendClosed, WalkInv, B!WalkStable, B!TypeOK, B!mutex, B!Goroutines
<1>8. CASE B!CallReturns(b)
  <2>1. B!TypeOK'
    BY <1>0, <1>1, <1>8 DEF B!CallReturns, B!TypeOK
  <2> QED BY <1>0, <1>1, <1>8, <2>1
          DEF B!CallReturns, WalkInv, B!WalkStable, B!TypeOK, B!Goroutines
<1> QED BY <1>2, <1>3, <1>4, <1>5, <1>6, <1>7, <1>8 DEF B!Call

(* Stop closes connections and removes none.                                *)
LEMMA WalkStop ==
  ASSUME B!Parameters, WalkInv, B!Stop \/ B!Stopping
  PROVE  WalkInv'
<1>0. B!TypeOK
  BY DEF WalkInv, B!WalkStable
<1>1. UNCHANGED <<connections, readers, call, todo, sendsTo>> /\ pc' = pc
  BY DEF B!Stop, B!Stopping, B!StopLocks, B!StopCloses, B!Lock, B!Unlock, B!mutex, B!sends
<1>2. B!TypeOK'
  BY <1>0, <1>1 DEF B!Stop, B!Stopping, B!StopLocks, B!StopCloses, B!Lock, B!Unlock, B!TypeOK, B!peers, B!mutex
<1> QED BY <1>1, <1>2, WalkFrame

(* For every number of connections, callers and every capacity, on either   *)
(* server and with an OnConnect that broadcasts: while Broadcast ranges     *)
(* over s.connections under RLock, the connections it has still to send to, *)
(* and the one it is sending to, stay registered.                           *)
THEOREM WalksStable == B!Parameters => (B!Spec => []B!WalkStable)
<1> SUFFICES ASSUME B!Parameters PROVE B!Spec => []B!WalkStable
  OBVIOUS
<1>1. B!Init => WalkInv
  BY WalkInvInit
<1>2. WalkInv /\ [B!Next]_(B!vars) => WalkInv'
  <2> SUFFICES ASSUME WalkInv, [B!Next]_(B!vars) PROVE WalkInv'
    OBVIOUS
  <2>1. CASE B!Next
    <3>1. \A c \in Conns : c \in B!Goroutines
      BY DEF B!Goroutines
    <3>2. \A b \in Callers : b \in B!Goroutines
      BY DEF B!Goroutines
    <3> QED BY <2>1, <3>1, <3>2, WalkServe, WalkRegister, WalkCall, WalkStop DEF B!Next, B!Handler
  <2>2. CASE UNCHANGED B!vars
    BY <2>2 DEF WalkInv, B!WalkStable, B!TypeOK, B!Goroutines, B!vars, B!mutex, B!peers, B!sends
  <2> QED BY <2>1, <2>2
<1>3. WalkInv => B!WalkStable
  BY DEF WalkInv
<1> QED BY <1>1, <1>2, <1>3, PTL DEF B!Spec

=============================================================================
