--------------------------- MODULE WtServerProofs ---------------------------
(***************************************************************************)
(* Stop of the WebTransport server against any number of sessions: the      *)
(* order of its two steps, s.done first and the map under its lock second,  *)
(* leaves no handler inside AcceptStream on an open session.  And the       *)
(* records that Stop and SendTo rely on: the WaitGroup counts exactly the   *)
(* goroutines of the sessions, and the user index keeps no session.  The    *)
(* two maps are a Registry, and a Registry forgets what has left it.        *)
(***************************************************************************)
EXTENDS WtServer, FiniteSetTheorems, TLAPS

(* The part of TypeOK that the argument uses.                               *)
Types ==
  /\ connections \in SUBSET Conns
  /\ stop \in {"no", "signal", "wait", "over"}
  /\ pc \in [Conns -> Labels]
  /\ closed \in [Conns -> BOOLEAN]
  /\ lost \in [Conns -> BOOLEAN]

(* Stop closes s.done before anything else.                                 *)
Signalled == done <=> stop # "no"

StopInv == Types /\ Signalled /\ RegistryExact /\ NoAcceptorLeft

(* Every step keeps StopInv.                                                *)
LEMMA StopStep ==
  ASSUME StopInv, [Next]_vars
  PROVE  StopInv'
<1> USE DEF StopInv
<1>1. CASE UNCHANGED vars
  BY <1>1 DEF vars, registry, service, conn, Types, Signalled, RegistryExact, NoAcceptorLeft, Dead
<1>2. CASE StopSignals
  BY <1>2 DEF StopSignals, registry, conn, Types, Signalled, RegistryExact, NoAcceptorLeft, Dead
<1>3. CASE StopClosesConnections
  <2>1. Types' /\ Signalled' /\ RegistryExact'
    BY <1>3 DEF StopClosesConnections, registry, Types, Signalled, RegistryExact
  <2>2. \A c \in Conns : pc'[c] = "accept" => closed'[c]
    BY <1>3 DEF StopClosesConnections, RegistryExact, Registered
  <2> QED BY <2>1, <2>2 DEF NoAcceptorLeft, Dead
<1>4. CASE StopShutsDown
  <2>1. Types' /\ Signalled' /\ RegistryExact'
    BY <1>4 DEF StopShutsDown, registry, Types, Signalled, RegistryExact
  <2>2. \A c \in Conns : pc'[c] = "accept" => lost'[c]
    BY <1>4 DEF StopShutsDown
  <2> QED BY <2>1, <2>2 DEF NoAcceptorLeft, Dead
<1>5. ASSUME NEW c \in Conns, CheckLimit(c) \/ UpgradeFails(c) \/ Upgrade(c) \/ Authenticate(c)
               \/ BindAuthenticated(c) \/ Count(c) \/ CountRegistered(c)
      PROVE  StopInv'
  <2>1. Types'
    BY <1>5 DEF CheckLimit, UpgradeFails, Upgrade, Authenticate, BindAuthenticated, Count,
      CountRegistered, Goto, registry, service, conn, Types, Labels
  <2>2. Signalled'
    BY <1>5 DEF CheckLimit, UpgradeFails, Upgrade, Authenticate, BindAuthenticated, Count,
      CountRegistered, Goto, registry, service, conn, Signalled
  <2>3. RegistryExact'
    BY <1>5 DEF CheckLimit, UpgradeFails, Upgrade, Authenticate, BindAuthenticated, Count,
      CountRegistered, Goto, registry, service, conn, Types, RegistryExact, Registered
  <2>4. NoAcceptorLeft'
    BY <1>5 DEF CheckLimit, UpgradeFails, Upgrade, Authenticate, BindAuthenticated, Count,
      CountRegistered, Goto, registry, service, conn, Types, Signalled, NoAcceptorLeft, Dead
  <2> QED BY <2>1, <2>2, <2>3, <2>4
<1>6. ASSUME NEW c \in Conns, AuthFails(c) \/ OnConnectFails(c) \/ OnConnect(c)
      PROVE  StopInv'
  <2>1. Types'
    BY <1>6 DEF AuthFails, OnConnectFails, OnConnect, Goto, registry, service, Types, Labels
  <2>2. Signalled'
    BY <1>6 DEF AuthFails, OnConnectFails, OnConnect, Goto, registry, service, Signalled
  <2>3. RegistryExact'
    BY <1>6 DEF AuthFails, OnConnectFails, OnConnect, Goto, registry, service, Types, RegistryExact, Registered
  <2>4. NoAcceptorLeft'
    BY <1>6 DEF AuthFails, OnConnectFails, OnConnect, Goto, registry, service, Types, Signalled, NoAcceptorLeft, Dead
  <2> QED BY <2>1, <2>2, <2>3, <2>4
<1>7. ASSUME NEW c \in Conns, registerConnection(c) \/ unregisterConnection(c)
      PROVE  StopInv'
  <2>1. Types'
    BY <1>7 DEF registerConnection, unregisterConnection, Goto, service, conn, Types, Labels
  <2>2. Signalled'
    BY <1>7 DEF registerConnection, unregisterConnection, Goto, service, conn, Signalled
  <2>3. RegistryExact'
    BY <1>7 DEF registerConnection, unregisterConnection, Goto, service, conn, Types, RegistryExact, Registered
  <2>4. NoAcceptorLeft'
    BY <1>7 DEF registerConnection, unregisterConnection, Goto, service, conn, Types, Signalled, NoAcceptorLeft, Dead
  <2> QED BY <2>1, <2>2, <2>3, <2>4
<1>8. ASSUME NEW c \in Conns, LoopAccepts(c)
      PROVE  StopInv'
  <2>1. Types'
    BY <1>8 DEF LoopAccepts, Goto, registry, service, conn, Types, Labels
  <2>2. Signalled'
    BY <1>8 DEF LoopAccepts, Goto, registry, service, conn, Signalled
  <2>3. RegistryExact'
    BY <1>8 DEF LoopAccepts, Goto, registry, service, conn, Types, RegistryExact, Registered
  <2>4. NoAcceptorLeft'
    BY <1>8 DEF LoopAccepts, Goto, registry, service, conn, Types, Signalled, NoAcceptorLeft, Dead
  <2> QED BY <2>1, <2>2, <2>3, <2>4
<1>9. ASSUME NEW c \in Conns, LoopSeesDone(c) \/ AcceptFails(c) \/ AcceptStream(c)
               \/ unbindUser(c) \/ releaseCount(c)
      PROVE  StopInv'
  <2>1. Types'
    BY <1>9 DEF LoopSeesDone, AcceptFails, HandlerLeaves, AcceptStream, unbindUser, releaseCount,
      Goto, registry, service, conn, Types, Labels
  <2>2. Signalled'
    BY <1>9 DEF LoopSeesDone, AcceptFails, HandlerLeaves, AcceptStream, unbindUser, releaseCount,
      Goto, registry, service, conn, Signalled
  <2>3. RegistryExact'
    BY <1>9 DEF LoopSeesDone, AcceptFails, HandlerLeaves, AcceptStream, unbindUser, releaseCount,
      Goto, registry, service, conn, Types, RegistryExact, Registered
  <2>4. NoAcceptorLeft'
    BY <1>9 DEF LoopSeesDone, AcceptFails, HandlerLeaves, AcceptStream, unbindUser, releaseCount,
      Goto, registry, service, conn, Types, Signalled, NoAcceptorLeft, Dead
  <2> QED BY <2>1, <2>2, <2>3, <2>4
<1>10. ASSUME NEW c \in Conns,
              \/ Stream(c) \/ OnMessage(c) \/ ReadEnds(c)
              \/ StreamReady(c) \/ WritePumpSeesDone(c) \/ WriteFails(c)
              \/ (\E u \in Users : BindUser(c, u)) \/ BindUserInserts(c)
       PROVE  StopInv'
  <2>1. UNCHANGED <<connections, service, pc, closed, lost>>
    BY <1>10 DEF Stream, SetResponseStream, StreamSeesDone, StreamReads, OnMessageReturns,
                 ReadFails, StreamReturns, OnMessage, ReadEnds, StreamReady, WritePumpSeesDone,
                 WriteFails, BindUser, BindUserInserts, registry, conn
  <2> QED BY <2>1 DEF service, Types, Signalled, RegistryExact, NoAcceptorLeft, Dead
<1>11. ASSUME NEW c \in Conns, AppCloses(c) \/ PeerLeaves(c)
      PROVE  StopInv'
  <2>1. Types'
    BY <1>11 DEF AppCloses, PeerLeaves, registry, service, Types, Labels
  <2>2. Signalled'
    BY <1>11 DEF AppCloses, PeerLeaves, registry, service, Signalled
  <2>3. RegistryExact'
    BY <1>11 DEF AppCloses, PeerLeaves, registry, service, Types, RegistryExact, Registered
  <2>4. NoAcceptorLeft'
    BY <1>11 DEF AppCloses, PeerLeaves, registry, service, Types, Signalled, NoAcceptorLeft, Dead
  <2> QED BY <2>1, <2>2, <2>3, <2>4
<1>12. ASSUME NEW m \in ReadLocks, BroadcastLocks(m) \/ BroadcastReturns(m)
       PROVE  StopInv'
  <2>1. UNCHANGED <<connections, done, stop, pc, closed, lost>>
    BY <1>12 DEF BroadcastLocks, BroadcastReturns, registry, conn
  <2> QED BY <2>1 DEF Types, Signalled, RegistryExact, NoAcceptorLeft, Dead
<1> QED
  BY <1>1, <1>2, <1>3, <1>4, <1>5, <1>6, <1>7, <1>8, <1>9, <1>10, <1>11, <1>12
  DEF Next, Handler, Stopping

(* StopInv holds before the first request.                                  *)
LEMMA StopInit == Init => StopInv
<1> SUFFICES ASSUME Init PROVE StopInv
  OBVIOUS
<1>1. Types
  BY DEF Init, Types, Labels
<1>2. RegistryExact
  BY DEF Init, RegistryExact, Registered
<1>3. Signalled /\ NoAcceptorLeft
  BY DEF Init, Signalled, NoAcceptorLeft
<1> QED BY <1>1, <1>2, <1>3 DEF StopInv

(* For every set of sessions and users and every limit: s.connections is    *)
(* exact, and after the closing loop of Stop no handler waits for a stream  *)
(* of a session that nobody closed.                                         *)
THEOREM StopReachesAcceptors == Spec => [](RegistryExact /\ NoAcceptorLeft)
<1>1. StopInv => RegistryExact /\ NoAcceptorLeft
  BY DEF StopInv
<1> QED BY <1>1, StopInit, StopStep, PTL DEF Spec

-----------------------------------------------------------------------------
(* The WaitGroup.                                                           *)

Looping == {c \in Conns : pc[c] \in {"loop", "accept"}}
Writing == {c \in Conns : wr[c] \in {"wait", "run"}}
Streaming == {c \in Conns : stream[c] \in {"spawned", "check", "read", "message"}}

(* TypeOK but for the WaitGroup, whose sign is what is to be shown.         *)
Typed ==
  /\ connections \in SUBSET Conns
  /\ userConns \in [Users -> SUBSET Conns]
  /\ connCount \in Int
  /\ done \in BOOLEAN
  /\ stop \in {"no", "signal", "wait", "over"}
  /\ reading \in SUBSET ReadLocks
  /\ pc \in [Conns -> Labels]
  /\ wr \in [Conns -> {"off", "wait", "run", "done"}]
  /\ stream \in [Conns -> {"none", "spawned", "check", "read", "message", "done"}]
  /\ userID \in [Conns -> Users \cup {None}]
  /\ closed \in [Conns -> BOOLEAN]
  /\ lost \in [Conns -> BOOLEAN]
  /\ binding \in [Conns -> Users \cup {None}]
  /\ ready \in [Conns -> BOOLEAN]
  /\ told \in [Conns -> {"none", "connected", "rejected"}]

(* The phases before OnConnect accepts, which alone starts a writePump.     *)
Early == {"idle", "upgrade", "auth", "bind", "count", "register", "recount", "onConnect"}

StartedLate == \A c \in Conns : pc[c] \in Early => wr[c] = "off"

WaitInv ==
  /\ Typed /\ StartedLate
  /\ wg = Cardinality(Looping) + Cardinality(Writing) + Cardinality(Streaming)

(* The goroutines are finitely many, and counting them gives numbers.       *)
LEMMA GoroutinesFinite ==
  /\ IsFiniteSet(Looping) /\ IsFiniteSet(Writing) /\ IsFiniteSet(Streaming)
  /\ Cardinality(Looping) \in Nat /\ Cardinality(Writing) \in Nat /\ Cardinality(Streaming) \in Nat
<1>1. Looping \subseteq Conns /\ Writing \subseteq Conns /\ Streaming \subseteq Conns
  BY DEF Looping, Writing, Streaming
<1>2. IsFiniteSet(Looping) /\ IsFiniteSet(Writing) /\ IsFiniteSet(Streaming)
  BY <1>1, WtServerAssumption, FS_Subset
<1> QED BY <1>2, FS_CardinalityType

(* Counting a set after one goroutine came or went.                         *)
LEMMA OneMoreOrLess ==
  ASSUME NEW A, IsFiniteSet(A), NEW c
  PROVE  /\ c \notin A => Cardinality(A \cup {c}) = Cardinality(A) + 1
         /\ c \in A => Cardinality(A \ {c}) = Cardinality(A) - 1
BY FS_AddElement, FS_RemoveElement

(* The types hold at the start, and every step keeps them.                  *)
LEMMA TypedInit == Init => Typed
<1> SUFFICES ASSUME Init PROVE Typed
  OBVIOUS
<1>1. connections \in SUBSET Conns /\ connCount \in Int /\ stop \in {"no", "signal", "wait", "over"}
  BY DEF Init
<1>2. userConns \in [Users -> SUBSET Conns] /\ pc \in [Conns -> Labels]
  BY DEF Init, Labels
<1>3. /\ wr \in [Conns -> {"off", "wait", "run", "done"}]
      /\ stream \in [Conns -> {"none", "spawned", "check", "read", "message", "done"}]
      /\ told \in [Conns -> {"none", "connected", "rejected"}]
  BY DEF Init
<1>4. userID \in [Conns -> Users \cup {None}] /\ binding \in [Conns -> Users \cup {None}]
  BY DEF Init
<1>5. closed \in [Conns -> BOOLEAN] /\ lost \in [Conns -> BOOLEAN] /\ ready \in [Conns -> BOOLEAN]
  BY DEF Init
<1>6. done \in BOOLEAN /\ reading \in SUBSET ReadLocks
  BY DEF Init
<1> QED BY <1>1, <1>2, <1>3, <1>4, <1>5, <1>6 DEF Typed

(* Every step keeps the types.                                              *)
LEMMA TypedStep ==
  ASSUME Typed, [Next]_vars
  PROVE  Typed'
<1> USE DEF Typed
<1>1. CASE UNCHANGED vars
  BY <1>1 DEF vars, registry, service, conn
<1>2. CASE StopSignals
  BY <1>2 DEF StopSignals, registry, conn
<1>3. CASE StopClosesConnections
  BY <1>3 DEF StopClosesConnections, registry
<1>4. CASE StopShutsDown
  BY <1>4 DEF StopShutsDown, registry
<1>5. ASSUME NEW c \in Conns, CheckLimit(c) \/ UpgradeFails(c) \/ Upgrade(c) \/ LoopAccepts(c)
               \/ LoopSeesDone(c) \/ AcceptFails(c)
      PROVE  Typed'
  BY <1>5 DEF CheckLimit, UpgradeFails, Upgrade, LoopAccepts, LoopSeesDone, AcceptFails, HandlerLeaves,
              Goto, registry, service, conn, Labels
<1>6. ASSUME NEW c \in Conns, AuthFails(c) \/ Authenticate(c)
      PROVE  Typed'
  BY <1>6 DEF AuthFails, Authenticate, Goto, registry, service, Labels
<1>7. ASSUME NEW c \in Conns, BindAuthenticated(c) \/ unbindUser(c)
      PROVE  Typed'
  BY <1>7 DEF BindAuthenticated, unbindUser, Goto, service, conn, Labels
<1>8. ASSUME NEW c \in Conns, Count(c) \/ CountRegistered(c) \/ registerConnection(c)
               \/ unregisterConnection(c) \/ releaseCount(c)
      PROVE  Typed'
  BY <1>8 DEF Count, CountRegistered, registerConnection, unregisterConnection, releaseCount, Goto,
              service, conn, Labels
<1>9. ASSUME NEW c \in Conns, OnConnectFails(c) \/ OnConnect(c) \/ AcceptStream(c)
      PROVE  Typed'
  <2>1. CASE OnConnectFails(c)
    BY <2>1 DEF OnConnectFails, Goto, registry, service, Labels
  <2>2. CASE OnConnect(c)
    BY <2>2 DEF OnConnect, Goto, registry, service, Labels
  <2>3. CASE AcceptStream(c)
    BY <2>3 DEF AcceptStream, Goto, registry, service, conn, Labels
  <2> QED BY <1>9, <2>1, <2>2, <2>3
<1>10. ASSUME NEW c \in Conns, Stream(c) \/ OnMessage(c) \/ ReadEnds(c)
       PROVE  Typed'
  BY <1>10 DEF Stream, SetResponseStream, StreamSeesDone, StreamReads, OnMessageReturns, ReadFails,
               StreamReturns, OnMessage, ReadEnds, registry, service, conn
<1>11. ASSUME NEW c \in Conns, StreamReady(c) \/ WritePumpSeesDone(c) \/ WriteFails(c)
       PROVE  Typed'
  BY <1>11 DEF StreamReady, WritePumpSeesDone, WriteFails, registry, service, conn
<1>12. ASSUME NEW c \in Conns, NEW u \in Users, BindUser(c, u)
       PROVE  Typed'
  BY <1>12 DEF BindUser, registry, service
<1>13. ASSUME NEW c \in Conns, BindUserInserts(c)
       PROVE  Typed'
  BY <1>13 DEF BindUserInserts, service
<1>14. ASSUME NEW c \in Conns, AppCloses(c) \/ PeerLeaves(c)
       PROVE  Typed'
  BY <1>14 DEF AppCloses, PeerLeaves, registry, service
<1>15. ASSUME NEW m \in ReadLocks, BroadcastLocks(m) \/ BroadcastReturns(m)
       PROVE  Typed'
  BY <1>15 DEF BroadcastLocks, BroadcastReturns, registry, conn
<1> QED
  BY <1>1, <1>2, <1>3, <1>4, <1>5, <1>6, <1>7, <1>8, <1>9, <1>10, <1>11, <1>12, <1>13, <1>14, <1>15
  DEF Next, Handler, Stopping

(* Every step keeps the count: wg.Add where a goroutine comes, wg.Done where *)
(* it goes, and neither anywhere else.                                      *)
LEMMA WaitStep ==
  ASSUME WaitInv, [Next]_vars
  PROVE  WaitInv'
<1> USE GoroutinesFinite
<1>0. /\ Typed /\ StartedLate /\ Typed'
      /\ wg = Cardinality(Looping) + Cardinality(Writing) + Cardinality(Streaming)
  BY TypedStep DEF WaitInv
<1>a. ASSUME StartedLate', UNCHANGED <<wg, Looping, Writing, Streaming>>
      PROVE  WaitInv'
  BY <1>0, <1>a DEF WaitInv
<1>1. CASE UNCHANGED vars \/ StopSignals \/ StopClosesConnections \/ StopShutsDown
  <2>1. pc' = pc /\ wr' = wr /\ stream' = stream /\ wg' = wg
    BY <1>1 DEF vars, StopSignals, StopClosesConnections, StopShutsDown
  <2> QED BY <1>0, <1>a, <2>1 DEF StartedLate, Looping, Writing, Streaming
<1>2. ASSUME NEW c \in Conns,
             \/ CheckLimit(c) \/ UpgradeFails(c) \/ Upgrade(c) \/ AuthFails(c) \/ Authenticate(c)
             \/ BindAuthenticated(c) \/ Count(c) \/ registerConnection(c) \/ CountRegistered(c)
             \/ OnConnectFails(c) \/ LoopAccepts(c)
             \/ unregisterConnection(c) \/ unbindUser(c) \/ releaseCount(c)
      PROVE  WaitInv'
  <2>1. PICK l \in Labels :
          /\ pc' = [pc EXCEPT ![c] = l] /\ wr' = wr /\ stream' = stream /\ wg' = wg
          /\ l \in {"loop", "accept"} <=> pc[c] \in {"loop", "accept"}
          /\ l \in Early => pc[c] \in Early
    BY <1>2 DEF CheckLimit, UpgradeFails, Upgrade, AuthFails, Authenticate, BindAuthenticated, Count,
                registerConnection, CountRegistered, OnConnectFails, LoopAccepts, unregisterConnection,
                unbindUser, releaseCount, Goto, Labels, Early
  <2>2. StartedLate'
    BY <1>0, <2>1 DEF Typed, StartedLate
  <2>3. Looping' = Looping /\ Writing' = Writing /\ Streaming' = Streaming
    BY <1>0, <2>1 DEF Typed, Looping, Writing, Streaming
  <2> QED BY <1>a, <2>1, <2>2, <2>3
<1>3. ASSUME NEW c \in Conns, OnConnect(c)
      PROVE  WaitInv'
  <2>1. /\ pc[c] = "onConnect" /\ pc' = [pc EXCEPT ![c] = "loop"] /\ wr' = [wr EXCEPT ![c] = "wait"]
        /\ stream' = stream /\ wg' = wg + 2
    BY <1>3 DEF OnConnect, Goto
  <2>2. wr[c] = "off"
    BY <1>0, <2>1 DEF StartedLate, Early
  <2>3. StartedLate'
    BY <1>0, <2>1 DEF Typed, StartedLate, Early
  <2>4. /\ Looping' = Looping \cup {c} /\ c \notin Looping
        /\ Writing' = Writing \cup {c} /\ c \notin Writing
        /\ Streaming' = Streaming
    BY <1>0, <2>1, <2>2 DEF Typed, Looping, Writing, Streaming
  <2>5. Cardinality(Looping') = Cardinality(Looping) + 1 /\ Cardinality(Writing') = Cardinality(Writing) + 1
    BY <2>4, OneMoreOrLess
  <2> QED BY <1>0, <2>1, <2>3, <2>4, <2>5 DEF WaitInv
<1>4. ASSUME NEW c \in Conns, LoopSeesDone(c) \/ AcceptFails(c)
      PROVE  WaitInv'
  <2>1. /\ pc[c] \in {"loop", "accept"} /\ pc' = [pc EXCEPT ![c] = "unregister"]
        /\ wr' = wr /\ stream' = stream /\ wg' = wg - 1
    BY <1>4 DEF LoopSeesDone, AcceptFails, HandlerLeaves, Goto
  <2>2. StartedLate'
    BY <1>0, <2>1 DEF Typed, StartedLate, Early
  <2>3. Looping' = Looping \ {c} /\ c \in Looping /\ Writing' = Writing /\ Streaming' = Streaming
    BY <1>0, <2>1 DEF Typed, Looping, Writing, Streaming
  <2>4. Cardinality(Looping') = Cardinality(Looping) - 1
    BY <2>3, OneMoreOrLess
  <2> QED BY <1>0, <2>1, <2>2, <2>3, <2>4 DEF WaitInv
<1>5. ASSUME NEW c \in Conns, AcceptStream(c)
      PROVE  WaitInv'
  <2>1. /\ pc[c] = "accept" /\ stream[c] = "none" /\ pc' = [pc EXCEPT ![c] = "loop"]
        /\ wr' = wr /\ stream' = [stream EXCEPT ![c] = "spawned"] /\ wg' = wg + 1
    BY <1>5 DEF AcceptStream, Goto
  <2>2. StartedLate'
    BY <1>0, <2>1 DEF Typed, StartedLate, Early
  <2>3. /\ Looping' = Looping /\ Writing' = Writing
        /\ Streaming' = Streaming \cup {c} /\ c \notin Streaming
    BY <1>0, <2>1 DEF Typed, Looping, Writing, Streaming
  <2>4. Cardinality(Streaming') = Cardinality(Streaming) + 1
    BY <2>3, OneMoreOrLess
  <2> QED BY <1>0, <2>1, <2>2, <2>3, <2>4 DEF WaitInv
<1>6. ASSUME NEW c \in Conns, StreamSeesDone(c) \/ ReadFails(c) \/ ReadEnds(c)
      PROVE  WaitInv'
  <2>1. /\ stream[c] \in {"check", "read"} /\ pc' = pc
        /\ wr' = wr /\ stream' = [stream EXCEPT ![c] = "done"] /\ wg' = wg - 1
    BY <1>6 DEF StreamSeesDone, ReadFails, ReadEnds, StreamReturns
  <2>2. StartedLate'
    BY <1>0, <2>1 DEF StartedLate
  <2>3. /\ Looping' = Looping /\ Writing' = Writing
        /\ Streaming' = Streaming \ {c} /\ c \in Streaming
    BY <1>0, <2>1 DEF Typed, Looping, Writing, Streaming
  <2>4. Cardinality(Streaming') = Cardinality(Streaming) - 1
    BY <2>3, OneMoreOrLess
  <2> QED BY <1>0, <2>1, <2>2, <2>3, <2>4 DEF WaitInv
<1>7. ASSUME NEW c \in Conns, SetResponseStream(c) \/ StreamReads(c) \/ OnMessage(c) \/ OnMessageReturns(c)
      PROVE  WaitInv'
  <2>1. PICK l \in {"check", "read", "message"} :
          /\ stream[c] \in {"spawned", "check", "read", "message"} /\ pc' = pc
          /\ wr' = wr /\ stream' = [stream EXCEPT ![c] = l] /\ wg' = wg
    BY <1>7 DEF SetResponseStream, StreamReads, OnMessage, OnMessageReturns
  <2>2. StartedLate'
    BY <1>0, <2>1 DEF StartedLate
  <2>3. Looping' = Looping /\ Writing' = Writing /\ Streaming' = Streaming
    BY <1>0, <2>1 DEF Typed, Looping, Writing, Streaming
  <2> QED BY <1>a, <2>1, <2>2, <2>3
<1>8. ASSUME NEW c \in Conns, StreamReady(c)
      PROVE  WaitInv'
  <2>1. /\ wr[c] = "wait" /\ pc' = pc
        /\ wr' = [wr EXCEPT ![c] = "run"] /\ stream' = stream /\ wg' = wg
    BY <1>8 DEF StreamReady
  <2>2. StartedLate'
    BY <1>0, <2>1 DEF Typed, StartedLate
  <2>3. Looping' = Looping /\ Writing' = Writing /\ Streaming' = Streaming
    BY <1>0, <2>1 DEF Typed, Looping, Writing, Streaming
  <2> QED BY <1>a, <2>1, <2>2, <2>3
<1>9. ASSUME NEW c \in Conns, WritePumpSeesDone(c) \/ WriteFails(c)
      PROVE  WaitInv'
  <2>1. /\ wr[c] \in {"wait", "run"} /\ pc' = pc
        /\ wr' = [wr EXCEPT ![c] = "done"] /\ stream' = stream /\ wg' = wg - 1
    BY <1>9 DEF WritePumpSeesDone, WriteFails
  <2>2. StartedLate'
    BY <1>0, <2>1 DEF Typed, StartedLate
  <2>3. Looping' = Looping /\ Writing' = Writing \ {c} /\ c \in Writing /\ Streaming' = Streaming
    BY <1>0, <2>1 DEF Typed, Looping, Writing, Streaming
  <2>4. Cardinality(Writing') = Cardinality(Writing) - 1
    BY <2>3, OneMoreOrLess
  <2> QED BY <1>0, <2>1, <2>2, <2>3, <2>4 DEF WaitInv
<1>10. ASSUME NEW c \in Conns,
              (\E u \in Users : BindUser(c, u)) \/ BindUserInserts(c) \/ AppCloses(c) \/ PeerLeaves(c)
       PROVE  WaitInv'
  <2>1. pc' = pc /\ wr' = wr /\ stream' = stream /\ wg' = wg
    BY <1>10 DEF BindUser, BindUserInserts, AppCloses, PeerLeaves
  <2> QED BY <1>0, <1>a, <2>1 DEF StartedLate, Looping, Writing, Streaming
<1>11. ASSUME NEW m \in ReadLocks, BroadcastLocks(m) \/ BroadcastReturns(m)
       PROVE  WaitInv'
  <2>1. pc' = pc /\ wr' = wr /\ stream' = stream /\ wg' = wg
    BY <1>11 DEF BroadcastLocks, BroadcastReturns
  <2> QED BY <1>0, <1>a, <2>1 DEF StartedLate, Looping, Writing, Streaming
<1> QED
  BY <1>1, <1>2, <1>3, <1>4, <1>5, <1>6, <1>7, <1>8, <1>9, <1>10, <1>11
  DEF Next, Handler, Stream, Stopping

(* For every set of sessions: s.wg counts the handlers in their loop, the   *)
(* writePumps and the handleStreams that have not returned, and so is never *)
(* negative, which would panic.                                             *)
THEOREM WaitGroupCorrect == Spec => []WaitGroupExact
<1>1. ASSUME Init
      PROVE  WaitInv
  <2>1. Typed /\ StartedLate
    BY <1>1, TypedInit DEF Init, StartedLate
  <2>2. Looping = {} /\ Writing = {} /\ Streaming = {} /\ wg = 0
    BY <1>1 DEF Init, Looping, Writing, Streaming
  <2>3. Cardinality({}) = 0
    BY FS_EmptySet
  <2> QED BY <2>1, <2>2, <2>3 DEF WaitInv
<1>2. ASSUME WaitInv
      PROVE  WaitGroupExact
  <2>1. wg \in Nat
    BY <1>2, GoroutinesFinite DEF WaitInv
  <2>2. TypeOK
    BY <1>2, <2>1 DEF WaitInv, Typed, TypeOK
  <2> QED BY <1>2, <2>2 DEF WaitInv, WaitGroupExact, Looping, Writing, Streaming
<1> QED BY <1>1, <1>2, WaitStep, PTL DEF Spec

-----------------------------------------------------------------------------
(* The user index.                                                          *)

(* The phases in which a session may be in s.userConns.                     *)
Indexed == {"count", "register", "recount", "onConnect", "loop", "accept", "unregister", "unbind"}

(* A session is listed under its user, and a BindUser is under way in       *)
(* OnConnect only; a session that is to be bound has a user.                *)
UserInv ==
  /\ Typed
  /\ \A u \in Users : \A c \in userConns[u] : userID[c] = u /\ pc[c] \in Indexed
  /\ \A c \in Conns : binding[c] # None => binding[c] = userID[c] /\ pc[c] = "onConnect"
  /\ \A c \in Conns : pc[c] = "bind" => userID[c] # None

(* Every step keeps UserInv where OnMessage does not call BindUser and      *)
(* nobody binds a session to a second user.                                 *)
LEMMA UserStep ==
  ASSUME ~BindInOnMessage, ~Rebinds, UserInv, [Next]_vars
  PROVE  UserInv'
<1>0. Typed /\ Typed'
  BY TypedStep DEF UserInv
<1>1. CASE UNCHANGED vars \/ StopSignals \/ StopClosesConnections \/ StopShutsDown
  BY <1>0, <1>1 DEF UserInv, vars, registry, conn, StopSignals, StopClosesConnections, StopShutsDown
<1>2. ASSUME NEW c \in Conns,
             \/ CheckLimit(c) \/ UpgradeFails(c) \/ Upgrade(c) \/ AuthFails(c)
             \/ Count(c) \/ registerConnection(c) \/ CountRegistered(c)
             \/ OnConnectFails(c) \/ OnConnect(c) \/ LoopAccepts(c) \/ LoopSeesDone(c) \/ AcceptFails(c)
             \/ AcceptStream(c) \/ unregisterConnection(c) \/ releaseCount(c)
      PROVE  UserInv'
  <2>1. PICK l \in Labels :
          /\ pc' = [pc EXCEPT ![c] = l] /\ userConns' = userConns /\ userID' = userID /\ binding' = binding
          /\ pc[c] \in Indexed => l \in Indexed
          /\ l # "bind"
          /\ pc[c] = "onConnect" => binding[c] = None
    BY <1>2 DEF CheckLimit, UpgradeFails, Upgrade, AuthFails, Count, registerConnection, CountRegistered,
                OnConnectFails, OnConnect, LoopAccepts, LoopSeesDone, AcceptFails, HandlerLeaves,
                AcceptStream, unregisterConnection, releaseCount, Goto, registry, conn, Labels, Indexed
  <2> QED BY <1>0, <2>1 DEF UserInv, Typed
<1>3. ASSUME NEW c \in Conns, Authenticate(c)
      PROVE  UserInv'
  BY <1>0, <1>3 DEF UserInv, Typed, Authenticate, Goto, registry, Indexed
<1>4. ASSUME NEW c \in Conns, BindAuthenticated(c)
      PROVE  UserInv'
  BY <1>0, <1>4 DEF UserInv, Typed, BindAuthenticated, Goto, conn, Indexed
<1>5. ASSUME NEW c \in Conns, unbindUser(c)
      PROVE  UserInv'
  BY <1>0, <1>5 DEF UserInv, Typed, unbindUser, Goto, conn, Indexed
<1>6. ASSUME NEW c \in Conns,
             \/ Stream(c) \/ OnMessage(c) \/ ReadEnds(c)
             \/ StreamReady(c) \/ WritePumpSeesDone(c) \/ WriteFails(c) \/ AppCloses(c) \/ PeerLeaves(c)
      PROVE  UserInv'
  <2>1. pc' = pc /\ userConns' = userConns /\ userID' = userID /\ binding' = binding
    BY <1>6 DEF Stream, SetResponseStream, StreamSeesDone, StreamReads, OnMessageReturns, ReadFails,
                StreamReturns, OnMessage, ReadEnds, StreamReady, WritePumpSeesDone, WriteFails,
                AppCloses, PeerLeaves, registry, conn
  <2> QED BY <1>0, <2>1 DEF UserInv
<1>7. ASSUME NEW c \in Conns, NEW u \in Users, BindUser(c, u)
      PROVE  UserInv'
  BY <1>0, <1>7, WtServerAssumption DEF UserInv, Typed, BindUser, registry
<1>8. ASSUME NEW c \in Conns, BindUserInserts(c)
      PROVE  UserInv'
  BY <1>0, <1>8 DEF UserInv, Typed, BindUserInserts, Indexed
<1>9. ASSUME NEW m \in ReadLocks, BroadcastLocks(m) \/ BroadcastReturns(m)
      PROVE  UserInv'
  BY <1>0, <1>9 DEF UserInv, BroadcastLocks, BroadcastReturns, registry, conn
<1> QED
  BY <1>1, <1>2, <1>3, <1>4, <1>5, <1>6, <1>7, <1>8, <1>9
  DEF Next, Handler, Stopping

(* Nobody is bound at first.                                                *)
LEMMA UserInit == Init => UserInv
BY TypedInit DEF Init, UserInv

(* Where OnMessage does not call BindUser and the application binds no      *)
(* session to a second user, no user keeps a session that is past           *)
(* unregisterConnection, for every set of sessions and users.               *)
THEOREM IndexCorrect == ~BindInOnMessage /\ ~Rebinds => (Spec => []NothingLeftBehind)
<1> SUFFICES ASSUME ~BindInOnMessage, ~Rebinds PROVE Spec => []NothingLeftBehind
  OBVIOUS
<1>1. Init => UserInv
  BY UserInit
<1>2. UserInv /\ [Next]_vars => UserInv'
  BY UserStep
<1>3. UserInv => NothingLeftBehind
  BY DEF UserInv, NothingLeftBehind, Indexed
<1> QED BY <1>1, <1>2, <1>3, PTL DEF Spec

-----------------------------------------------------------------------------
(* The maps as a Registry.                                                  *)

regVars == <<connections, userConns, Leaving, Left>>

(* What a step of the handler that goes to label l, and leaves both maps    *)
(* alone, is for Registry.                                                  *)
LEMMA MovesRefine ==
  ASSUME UserInv, RegistryExact, NEW c \in Conns, NEW l \in Labels, Goto(c, l),
         UNCHANGED <<connections, userConns>>
  PROVE  /\ pc[c] \in {"idle", "upgrade", "auth"} /\ l = "gone" => Reg!Leave(c)
         /\ pc[c] = "release" /\ l = "gone" => UNCHANGED regVars
         /\ {pc[c], l} \cap {"unbind", "release", "gone"} = {} => UNCHANGED regVars
<1>0. Typed
  BY DEF UserInv
<1>1. ASSUME pc[c] \in {"idle", "upgrade", "auth"}, l = "gone"
      PROVE  Reg!Leave(c)
  <2>1. Leaving' = Leaving \cup {c} /\ Left' = Left \cup {c} /\ c \notin Left
    BY <1>0, <1>1 DEF Leaving, Left, Goto, Typed
  <2>2. connections' = connections \ {c}
    BY <1>1 DEF RegistryExact, Registered
  <2>3. \A u \in Users : c \notin userConns'[u]
    BY <1>1 DEF UserInv, Indexed
  <2> QED BY <2>1, <2>2, <2>3 DEF Reg!Leave, Reg!Unbound
<1>2. pc[c] = "release" /\ l = "gone" => UNCHANGED regVars
  BY <1>0 DEF regVars, Leaving, Left, Goto, Typed
<1>3. {pc[c], l} \cap {"unbind", "release", "gone"} = {} => UNCHANGED regVars
  BY <1>0 DEF regVars, Leaving, Left, Goto, Typed
<1> QED BY <1>1, <1>2, <1>3

(* Every step of the server, those of Stop included, is a step of Registry  *)
(* or none.                                                                 *)
LEMMA RegistryStep ==
  ASSUME UserInv, RegistryExact, [Next]_vars
  PROVE  [Reg!Next]_regVars
<1>0. Typed
  BY DEF UserInv
<1>1. ASSUME NEW c \in Conns,
             \/ CheckLimit(c) \/ UpgradeFails(c) \/ Upgrade(c) \/ AuthFails(c) \/ Authenticate(c) \/ Count(c)
             \/ CountRegistered(c) \/ OnConnectFails(c) \/ OnConnect(c) \/ LoopSeesDone(c) \/ LoopAccepts(c)
             \/ AcceptFails(c) \/ AcceptStream(c) \/ releaseCount(c)
      PROVE  [Reg!Next]_regVars
  <2>1. UNCHANGED <<connections, userConns>>
    BY <1>1 DEF CheckLimit, UpgradeFails, Upgrade, AuthFails, Authenticate, Count, CountRegistered,
                OnConnectFails, OnConnect, LoopSeesDone, LoopAccepts, AcceptFails, HandlerLeaves,
                AcceptStream, releaseCount, registry
  <2>2. PICK l \in Labels :
          /\ Goto(c, l)
          /\ \/ pc[c] \in {"idle", "upgrade", "auth", "release"} /\ l = "gone"
             \/ {pc[c], l} \cap {"unbind", "release", "gone"} = {}
    BY <1>1 DEF CheckLimit, UpgradeFails, Upgrade, AuthFails, Authenticate, Count, CountRegistered,
                OnConnectFails, OnConnect, LoopSeesDone, LoopAccepts, AcceptFails, HandlerLeaves,
                AcceptStream, releaseCount, Labels
  <2> QED BY <2>1, <2>2, MovesRefine DEF Reg!Next
<1>2. ASSUME NEW c \in Conns, BindAuthenticated(c) \/ BindUserInserts(c)
      PROVE  Reg!Next
  <2>1. /\ userID[c] \in Users /\ c \notin Leaving /\ UNCHANGED <<connections, Leaving, Left>>
        /\ userConns' = [userConns EXCEPT ![userID[c]] = @ \cup {c}]
    <3>1. CASE BindAuthenticated(c)
      BY <1>0, <3>1 DEF BindAuthenticated, Goto, UserInv, Typed, Leaving, Left
    <3>2. CASE BindUserInserts(c)
      <4>1. binding[c] \in Users /\ binding[c] = userID[c] /\ pc[c] = "onConnect"
        BY <1>0, <3>2 DEF BindUserInserts, UserInv, Typed
      <4>2. pc' = pc /\ connections' = connections
        BY <3>2 DEF BindUserInserts
      <4>3. userConns' = [userConns EXCEPT ![userID[c]] = @ \cup {c}]
        BY <3>2, <4>1 DEF BindUserInserts
      <4> QED BY <4>1, <4>2, <4>3 DEF Leaving, Left
    <3> QED BY <1>2, <3>1, <3>2
  <2>2. \A v \in Users \ {userID[c]} : c \notin userConns[v]
    BY DEF UserInv
  <2> QED BY <2>1, <2>2 DEF Reg!Next, Reg!Bind
<1>3. ASSUME NEW c \in Conns, registerConnection(c)
      PROVE  Reg!Next
  <2>1. c \notin connections \cup Leaving
    BY <1>3 DEF registerConnection, RegistryExact, Registered, Leaving
  <2>2. connections' = connections \cup {c} /\ UNCHANGED <<userConns, Leaving, Left>>
    BY <1>0, <1>3 DEF registerConnection, Goto, Typed, Leaving, Left
  <2> QED BY <2>1, <2>2 DEF Reg!Next, Reg!Register
<1>4. ASSUME NEW c \in Conns, unregisterConnection(c)
      PROVE  Reg!Next
  <2>1. c \notin Left /\ connections' = connections \ {c} /\ userConns' = userConns
        /\ Leaving' = Leaving \cup {c} /\ Left' = Left
    BY <1>0, <1>4 DEF unregisterConnection, Goto, Typed, Leaving, Left
  <2> QED BY <2>1 DEF Reg!Next, Reg!Leave
<1>5. ASSUME NEW c \in Conns, unbindUser(c)
      PROVE  Reg!Next
  <2>1. c \notin Left /\ c \notin connections
    BY <1>5 DEF unbindUser, RegistryExact, Registered, Left
  <2>2. connections' = connections \ {c} /\ Leaving' = Leaving \cup {c} /\ Left' = Left \cup {c}
    BY <1>0, <1>5, <2>1 DEF unbindUser, Goto, Typed, Leaving, Left
  <2>3. userConns' = [u \in Users |-> userConns[u] \ {c}]
    <3>1. \A u \in Users : (IF u = userID[c] THEN userConns[u] \ {c} ELSE userConns[u]) = userConns[u] \ {c}
      BY DEF UserInv
    <3> QED BY <1>5, <3>1 DEF unbindUser
  <2>4. \A u \in Users : c \notin userConns'[u]
    BY <2>3
  <2> QED BY <2>1, <2>2, <2>3, <2>4 DEF Reg!Next, Reg!Leave, Reg!Unbound
<1>6. ASSUME NEW c \in Conns,
             \/ Stream(c) \/ OnMessage(c) \/ ReadEnds(c) \/ StreamReady(c) \/ WritePumpSeesDone(c)
             \/ WriteFails(c) \/ (\E u \in Users : BindUser(c, u)) \/ AppCloses(c) \/ PeerLeaves(c)
      PROVE  UNCHANGED <<connections, userConns, pc>>
  BY <1>6 DEF Stream, SetResponseStream, StreamSeesDone, StreamReads, OnMessageReturns, ReadFails,
              StreamReturns, OnMessage, ReadEnds, StreamReady, WritePumpSeesDone, WriteFails,
              BindUser, AppCloses, PeerLeaves, registry
<1>7. ASSUME \/ UNCHANGED vars \/ StopSignals \/ Stopping
             \/ \E m \in ReadLocks : BroadcastLocks(m) \/ BroadcastReturns(m)
      PROVE  UNCHANGED <<connections, userConns, pc>>
  BY <1>7 DEF vars, StopSignals, Stopping, StopClosesConnections, StopShutsDown,
              BroadcastLocks, BroadcastReturns, registry
<1>8. UNCHANGED <<connections, userConns, pc>> => UNCHANGED regVars
  BY DEF regVars, Leaving, Left
<1> QED BY <1>1, <1>2, <1>3, <1>4, <1>5, <1>6, <1>7, <1>8 DEF Next, Handler

(* For every set of sessions and users, where OnMessage does not call       *)
(* BindUser and the application binds no session to a second user, the maps *)
(* of the server are a Registry.                                            *)
THEOREM ServerIsRegistry == ~BindInOnMessage /\ ~Rebinds => (Spec => ImplementsRegistry)
<1> SUFFICES ASSUME ~BindInOnMessage, ~Rebinds PROVE Spec => ImplementsRegistry
  OBVIOUS
<1>1. Init => Reg!Init
  BY DEF Init, Reg!Init, Leaving, Left
<1>2. UserInv /\ [Next]_vars => UserInv'
  BY UserStep
<1>3. StopInv => RegistryExact
  BY DEF StopInv
<1>4. UserInv /\ RegistryExact /\ [Next]_vars => [Reg!Next]_<<connections, userConns, Leaving, Left>>
  BY RegistryStep DEF regVars
<1> QED BY <1>1, <1>2, <1>3, <1>4, StopInit, StopStep, UserInit, PTL DEF Spec, ImplementsRegistry, Reg!Spec

-----------------------------------------------------------------------------
(* What Registry is worth to a caller, for any four variables that follow   *)
(* it, those of the other server and of the hub included.                   *)
VARIABLES listed, index, left, gone

R == INSTANCE Registry

DepartureInv ==
  /\ index \in [Users -> SUBSET Conns]
  /\ gone \subseteq left
  /\ R!GoneUnseen

(* A connection that is gone has begun to leave, so neither Register nor    *)
(* Bind brings it back, and another one that leaves takes only itself away. *)
LEMMA DepartureStep ==
  ASSUME DepartureInv, [R!Next]_<<listed, index, left, gone>>
  PROVE  DepartureInv'
<1> USE DEF DepartureInv, R!GoneUnseen, R!Unbound
<1>1. ASSUME NEW c \in Conns, R!Register(c)
      PROVE  DepartureInv'
  BY <1>1 DEF R!Register
<1>2. ASSUME NEW c \in Conns, NEW u \in Users, R!Bind(c, u)
      PROVE  DepartureInv'
  BY <1>2 DEF R!Bind
<1>3. ASSUME NEW c \in Conns, R!Leave(c)
      PROVE  DepartureInv'
  <2>1. index' \in [Users -> SUBSET Conns] /\ \A u \in Users : index'[u] \subseteq index[u]
    BY <1>3 DEF R!Leave
  <2>2. /\ listed' = listed \ {c} /\ left' = left \cup {c}
        /\ gone' = gone \/ (gone' = gone \cup {c} /\ \A u \in Users : c \notin index'[u])
    BY <1>3 DEF R!Leave
  <2> QED BY <2>1, <2>2
<1>4. CASE UNCHANGED <<listed, index, left, gone>>
  BY <1>4
<1> QED BY <1>1, <1>2, <1>3, <1>4 DEF R!Next

(* Nothing finds a connection that has left a Registry: not Broadcast and   *)
(* Count by the map of connections, not SendTo and GetByUser by that of the *)
(* users.                                                                   *)
THEOREM RegistryForgets == R!Spec => []R!GoneUnseen
<1>1. R!Init => DepartureInv
  BY DEF R!Init, DepartureInv, R!GoneUnseen
<1>2. DepartureInv => R!GoneUnseen
  BY DEF DepartureInv
<1> QED BY <1>1, <1>2, DepartureStep, PTL DEF R!Spec
=============================================================================
