--------------------------- MODULE WsServerProofs ---------------------------
(***************************************************************************)
(* WsServer for every set of requests and users, every limit, with and      *)
(* without an authenticator.                                                *)
(*                                                                          *)
(* LifeInv says what each phase of a connection's life implies about its    *)
(* pumps, its callbacks and the counter; it is inductive whatever Relax is. *)
(* IndexInv adds the two maps.  It needs IDs that differ, BindUser called   *)
(* from the callbacks, and no connection bound to two users: without any    *)
(* one of these it is false, as the divergences in README.md show.  From it *)
(* follows step by step that the maps are a Registry (ServerIsRegistry).    *)
(***************************************************************************)
EXTENDS WsServer, FiniteSetTheorems, TLAPS

Early == {"idle", "upgrade", "auth", "bind", "register", "onConnect"}

(* The callbacks of a connection and its readPump go together, and readPump *)
(* runs inside the phase "serve".                                           *)
Phases ==
  \A c \in Conns :
    /\ pc[c] \in Early => told[c] = "none"
    /\ rd[c] \in {"read", "closing"} => pc[c] = "serve"
    /\ rd[c] = "read" <=> told[c] = "connected"
    /\ rd[c] = "done" => closed[c]
    /\ told[c] = "rejected" => closed[c]

(* CountExact without the types.                                            *)
CountRight == connCount = Cardinality(Counted)

LifeInv == TypeOK /\ CountRight /\ Phases /\ Notified

-----------------------------------------------------------------------------
(* What a step does to the set of counted connections.                      *)

(* Counted is finite, so its cardinality is a natural number.               *)
LEMMA CountedFinite ==
  ASSUME TypeOK
  PROVE  IsFiniteSet(Counted) /\ Cardinality(Counted) \in Nat
<1>1. IsFiniteSet(Counted)
  BY ConstantsAssumption, FS_Subset DEF Counted
<1> QED BY <1>1, FS_CardinalityType

(* A connection that enters the counted phases adds one.                    *)
LEMMA CountUp ==
  ASSUME TypeOK, CountRight, NEW c \in Conns, c \notin Counted,
         Counted' = Counted \cup {c}, connCount' = connCount + 1
  PROVE  CountRight' /\ connCount' \in Nat
<1>1. Cardinality(Counted \cup {c}) = Cardinality(Counted) + 1
  BY CountedFinite, FS_AddElement
<1> QED BY <1>1, CountedFinite DEF CountRight

(* A connection that leaves the counted phases takes one away.              *)
LEMMA CountDown ==
  ASSUME TypeOK, CountRight, NEW c \in Conns, c \in Counted,
         Counted' = Counted \ {c}, connCount' = connCount - 1
  PROVE  CountRight' /\ connCount' \in Nat
<1>1. Cardinality(Counted \ {c}) = Cardinality(Counted) - 1
  BY CountedFinite, FS_RemoveElement
<1>2. IsFiniteSet(Counted \ {c}) /\ Cardinality(Counted \ {c}) \in Nat
  BY CountedFinite, FS_RemoveElement, FS_CardinalityType
<1> QED BY <1>1, <1>2, CountedFinite DEF CountRight

(* Every other step keeps the set and the counter.                          *)
LEMMA CountSame ==
  ASSUME TypeOK, CountRight, Counted' = Counted, connCount' = connCount
  PROVE  CountRight' /\ connCount' \in Nat
BY DEF CountRight, TypeOK

-----------------------------------------------------------------------------
(* Every step keeps LifeInv: one case per action.                           *)
LEMMA LifeStep ==
  ASSUME LifeInv, [Next]_vars
  PROVE  LifeInv'
<1> USE DEF LifeInv
<1>0. CASE UNCHANGED vars
  <2>1. Counted' = Counted /\ connCount' = connCount
    BY <1>0 DEF Counted, vars, registry
  <2>2. CountRight' /\ connCount' \in Nat
    BY <2>1, CountSame
  <2>3. TypeOK'
    BY <1>0, <2>2
    DEF TypeOK, Labels, vars, registry, service, conn
  <2>4. Phases'
    BY <1>0 DEF TypeOK, Phases, Early, vars, registry, service, conn
  <2>5. Notified'
    BY <1>0 DEF TypeOK, Phases, Early, Notified, vars, registry, service, conn
  <2> QED BY <2>2, <2>3, <2>4, <2>5
<1>1. CASE Start \/ StopCloses \/ StopShutsDown
  <2>1. Counted' = Counted /\ connCount' = connCount
    BY <1>1 DEF Counted, Start, StopCloses, StopShutsDown, registry
  <2>2. CountRight' /\ connCount' \in Nat
    BY <2>1, CountSame
  <2>3. TypeOK'
    BY <1>1, <2>2
    DEF TypeOK, Labels, Start, StopCloses, StopShutsDown, registry, conn
  <2>4. Phases'
    BY <1>1 DEF TypeOK, Phases, Early, Start, StopCloses, StopShutsDown, registry, conn
  <2>5. Notified'
    BY <1>1 DEF TypeOK, Phases, Early, Notified, Start, StopCloses, StopShutsDown, registry,
              conn
  <2> QED BY <2>2, <2>3, <2>4, <2>5
<1>2. ASSUME NEW c \in Conns, CheckLimit(c) \/ UpgradeFails(c)
      PROVE  LifeInv'
  <2>1. Counted' = Counted /\ connCount' = connCount
    BY <1>2 DEF TypeOK, Counted, CheckLimit, UpgradeFails, Goto, registry
  <2>2. CountRight' /\ connCount' \in Nat
    BY <2>1, CountSame
  <2>3. TypeOK'
    BY <1>2, <2>2
    DEF TypeOK, Labels, CheckLimit, UpgradeFails, Goto, registry, service, conn
  <2>4. Phases'
    BY <1>2 DEF TypeOK, Phases, Early, CheckLimit, UpgradeFails, Goto, registry, service,
      conn
  <2>5. Notified'
    BY <1>2 DEF TypeOK, Phases, Early, Notified, CheckLimit, UpgradeFails, Goto, registry,
              service, conn
  <2> QED BY <2>2, <2>3, <2>4, <2>5
<1>3. ASSUME NEW c \in Conns, Upgrade(c)
      PROVE  LifeInv'
  <2>1. c \notin Counted /\ Counted' = Counted \cup {c} /\ connCount' = connCount + 1
    BY <1>3 DEF TypeOK, Counted, Upgrade, Goto
  <2>2. \A t \in generateConnID : t \in Nat
    BY DEF generateConnID, TypeOK
  <2>3. CountRight' /\ connCount' \in Nat
    BY <2>1, CountUp
  <2>4. TypeOK'
    BY <1>3, <2>2, <2>3
    DEF TypeOK, Labels, Upgrade, Goto, service
  <2>5. Phases'
    BY <1>3 DEF TypeOK, Phases, Early, Upgrade, Goto, service
  <2>6. Notified'
    BY <1>3 DEF TypeOK, Phases, Early, Notified, Upgrade, Goto, service
  <2> QED BY <2>3, <2>4, <2>5, <2>6
<1>4. ASSUME NEW c \in Conns, AuthFails(c) \/ releaseCount(c)
      PROVE  LifeInv'
  <2>1. c \in Counted /\ Counted' = Counted \ {c} /\ connCount' = connCount - 1
    BY <1>4 DEF TypeOK, Counted, AuthFails, releaseCount, Goto
  <2>2. CountRight' /\ connCount' \in Nat
    BY <2>1, CountDown
  <2>3. TypeOK'
    BY <1>4, <2>2
    DEF TypeOK, Labels, AuthFails, releaseCount, Goto, service, conn
  <2>4. Phases'
    BY <1>4 DEF TypeOK, Phases, Early, AuthFails, releaseCount, Goto, service, conn
  <2>5. Notified'
    BY <1>4 DEF TypeOK, Phases, Early, Notified, AuthFails, releaseCount, Goto, service,
      conn
  <2> QED BY <2>2, <2>3, <2>4, <2>5
<1>5. ASSUME NEW c \in Conns,
             Authenticate(c) \/ BindAuthenticated(c) \/ registerConnection(c)
      PROVE  LifeInv'
  <2>1. Counted' = Counted /\ connCount' = connCount
    BY <1>5 DEF TypeOK, Counted, Authenticate, BindAuthenticated, registerConnection,
                Goto, registry
  <2>2. Put(connections, c) \in SUBSET Conns /\ \A u \in Users : Put(userConns[u], c) \in
    SUBSET Conns
    BY DEF Put, Delete, TypeOK
  <2>3. CountRight' /\ connCount' \in Nat
    BY <2>1, CountSame
  <2>4. TypeOK'
    BY <1>5, <2>2, <2>3
    DEF TypeOK, Labels, Authenticate, BindAuthenticated, registerConnection, Goto,
              registry, service, conn
  <2>5. Phases'
    BY <1>5 DEF TypeOK, Phases, Early, Authenticate, BindAuthenticated, registerConnection,
              Goto, registry, service, conn
  <2>6. Notified'
    BY <1>5 DEF TypeOK, Phases, Early, Notified, Authenticate, BindAuthenticated,
              registerConnection, Goto, registry, service, conn
  <2> QED BY <2>3, <2>4, <2>5, <2>6
<1>6. ASSUME NEW c \in Conns, OnConnectFails(c) \/ OnConnect(c)
      PROVE  LifeInv'
  <2>1. Counted' = Counted /\ connCount' = connCount
    BY <1>6 DEF TypeOK, Counted, OnConnectFails, OnConnect, Goto, registry
  <2>2. CountRight' /\ connCount' \in Nat
    BY <2>1, CountSame
  <2>3. TypeOK'
    <3>1. CASE OnConnectFails(c)
      BY <2>2, <3>1 DEF OnConnectFails, Goto, registry, service, TypeOK, Labels
    <3>2. CASE OnConnect(c)
      BY <2>2, <3>2 DEF OnConnect, Goto, registry, service, TypeOK, Labels
    <3> QED BY <1>6, <3>1, <3>2
  <2>4. Phases'
    BY <1>6 DEF TypeOK, Phases, Early, OnConnectFails, OnConnect, Goto, registry, service
  <2>5. Notified'
    BY <1>6 DEF TypeOK, Phases, Early, Notified, OnConnectFails, OnConnect, Goto, registry,
              service
  <2> QED BY <2>2, <2>3, <2>4, <2>5
<1>7. ASSUME NEW c \in Conns, ReadPump(c) \/ WritePump(c) \/ WriteError(c)
      PROVE  LifeInv'
  <2>1. Counted' = Counted /\ connCount' = connCount
    BY <1>7 DEF Counted, ReadPump, ReadError, ReadPumpReturns, WritePump, WritePumpWakes,
                WritePumpReturns, WriteError, registry
  <2>2. CountRight' /\ connCount' \in Nat
    BY <2>1, CountSame
  <2>3. TypeOK'
    <3>1. CASE ReadError(c)
      BY <2>2, <3>1 DEF ReadError, registry, service, TypeOK
    <3>2. CASE ReadPumpReturns(c)
      BY <2>2, <3>2 DEF ReadPumpReturns, registry, service, TypeOK
    <3>3. CASE WritePumpReturns(c)
      BY <2>2, <3>3 DEF WritePumpReturns, registry, service, TypeOK
    <3>4. CASE WritePumpWakes(c) \/ WriteError(c)
      BY <2>2, <3>4 DEF WritePumpWakes, WriteError, registry, service, conn, TypeOK
    <3> QED BY <1>7, <3>1, <3>2, <3>3, <3>4 DEF ReadPump, WritePump
  <2>4. Phases'
    BY <1>7 DEF TypeOK, Phases, Early, ReadPump, ReadError, ReadPumpReturns, WritePump,
              WritePumpWakes, WritePumpReturns, WriteError, registry, service, conn
  <2>5. Notified'
    BY <1>7 DEF TypeOK, Phases, Early, Notified, ReadPump, ReadError, ReadPumpReturns,
              WritePump, WritePumpWakes, WritePumpReturns, WriteError, registry, service,
              conn
  <2> QED BY <2>2, <2>3, <2>4, <2>5
<1>8. ASSUME NEW c \in Conns, PumpsJoined(c) \/ unregisterConnection(c) \/ unbindUser(c)
      PROVE  LifeInv'
  <2>1. Counted' = Counted /\ connCount' = connCount
    BY <1>8 DEF TypeOK, Counted, PumpsJoined, unregisterConnection, unbindUser, Goto,
      registry
  <2>2. Delete(connections, c) \in SUBSET Conns /\ \A u \in Users : Delete(userConns[u],
    c) \in SUBSET Conns
    BY DEF Delete, TypeOK
  <2>3. CountRight' /\ connCount' \in Nat
    BY <2>1, CountSame
  <2>4. TypeOK'
    BY <1>8, <2>2, <2>3
    DEF TypeOK, Labels, PumpsJoined, unregisterConnection, unbindUser, Goto, registry,
              service, conn
  <2>5. Phases'
    BY <1>8 DEF TypeOK, Phases, Early, PumpsJoined, unregisterConnection, unbindUser, Goto,
              registry, service, conn
  <2>6. Notified'
    BY <1>8 DEF TypeOK, Phases, Early, Notified, PumpsJoined, unregisterConnection,
              unbindUser, Goto, registry, service, conn
  <2> QED BY <2>3, <2>4, <2>5, <2>6
<1>9. ASSUME NEW c \in Conns,
             (\E u \in Users : BindUser(c, u)) \/ BindUserInserts(c)
               \/ AppCloses(c) \/ PeerLeaves(c)
      PROVE  LifeInv'
  <2>1. Counted' = Counted /\ connCount' = connCount
    BY <1>9 DEF Counted, BindUser, BindUserInserts, AppCloses, PeerLeaves, registry
  <2>2. \A u \in Users : Put(userConns[u], c) \in SUBSET Conns
    BY DEF Put, Delete, TypeOK
  <2>3. CountRight' /\ connCount' \in Nat
    BY <2>1, CountSame
  <2>4. TypeOK'
    <3>1. CASE \E u \in Users : BindUser(c, u)
      BY <2>3, <3>1 DEF BindUser, registry, service, TypeOK
    <3>2. CASE BindUserInserts(c)
      BY <2>2, <2>3, <3>2 DEF BindUserInserts, service, TypeOK
    <3>3. CASE AppCloses(c)
      BY <2>3, <3>3 DEF AppCloses, registry, service, TypeOK
    <3>4. CASE PeerLeaves(c)
      BY <2>3, <3>4 DEF PeerLeaves, registry, service, TypeOK
    <3> QED BY <1>9, <3>1, <3>2, <3>3, <3>4
  <2>5. Phases'
    BY <1>9 DEF TypeOK, Phases, Early, BindUser, BindUserInserts, AppCloses, PeerLeaves,
              registry, service
  <2>6. Notified'
    BY <1>9 DEF TypeOK, Phases, Early, Notified, BindUser, BindUserInserts, AppCloses,
              PeerLeaves, registry, service
  <2> QED BY <2>3, <2>4, <2>5, <2>6
<1> QED
  BY <1>0, <1>1, <1>2, <1>3, <1>4, <1>5, <1>6, <1>7, <1>8, <1>9 DEF Next, Handler

(* Before the first request nothing is counted.                             *)
LEMMA LifeInit ==
  ASSUME Init
  PROVE  LifeInv
<1>1. Counted = {} /\ Cardinality({}) = 0
  BY FS_EmptySet DEF Init, Counted
<1>2. TypeOK
  BY DEF Init, TypeOK, Labels
<1> QED BY <1>1, <1>2 DEF Init, LifeInv, CountRight, Phases, Notified

(* The registry counts every upgraded connection once, and the handler      *)
(* hears of every end, whatever the clock, the callbacks and the goroutines *)
(* of the application do.                                                   *)
THEOREM LifeCorrect == Spec => [](CountExact /\ Notified)
<1>1. LifeInv => CountExact /\ Notified
  BY DEF LifeInv, CountExact, CountRight
<1> QED BY <1>1, LifeInit, LifeStep, PTL DEF Spec

(* OnDisconnect follows an OnConnect that accepted, and nothing follows a   *)
(* rejection, whatever the surroundings do.                                 *)
THEOREM CallbacksInOrder == Spec => CallbackOrder
<1> DEFINE Order == \A c \in Conns : told'[c] # told[c] =>
                      <<told[c], told'[c]>> \in {<<"none", "connected">>, <<"none",
                        "rejected">>,
                                                 <<"connected", "disconnected">>}
<1>1. ASSUME LifeInv, [Next]_vars
      PROVE  [Order]_vars
  <2> USE <1>1 DEF LifeInv
  <2>1. ASSUME NEW c \in Conns, OnConnectFails(c) \/ OnConnect(c)
        PROVE  Order
    BY <2>1 DEF OnConnectFails, OnConnect, TypeOK, Phases, Early
  <2>2. ASSUME NEW c \in Conns, ReadError(c)
        PROVE  Order
    BY <2>2 DEF ReadError, TypeOK, Phases
  <2>3. ASSUME NEW c \in Conns,
               CheckLimit(c) \/ UpgradeFails(c) \/ Upgrade(c) \/ AuthFails(c) \/
                 Authenticate(c)
                 \/ BindAuthenticated(c) \/ registerConnection(c) \/ PumpsJoined(c)
                 \/ unregisterConnection(c) \/ unbindUser(c) \/ releaseCount(c)
        PROVE  told' = told
    BY <2>3 DEF CheckLimit, UpgradeFails, Upgrade, AuthFails, Authenticate,
      BindAuthenticated,
                registerConnection, PumpsJoined, unregisterConnection, unbindUser,
                releaseCount, conn
  <2>4. ASSUME NEW c \in Conns,
               ReadPumpReturns(c) \/ WritePump(c) \/ WriteError(c)
                 \/ (\E u \in Users : BindUser(c, u)) \/ BindUserInserts(c)
                 \/ AppCloses(c) \/ PeerLeaves(c)
        PROVE  told' = told
    BY <2>4 DEF ReadPumpReturns, WritePump, WritePumpWakes, WritePumpReturns, WriteError,
                BindUser, BindUserInserts, AppCloses, PeerLeaves, conn
  <2>5. ASSUME Start \/ StopCloses \/ StopShutsDown
        PROVE  told' = told
    BY <2>5 DEF Start, StopCloses, StopShutsDown, conn
  <2>6. CASE UNCHANGED vars
    BY <2>6
  <2>7. (told' = told) => Order
    OBVIOUS
  <2> HIDE DEF Order
  <2> QED BY <2>1, <2>2, <2>3, <2>4, <2>5, <2>6, <2>7 DEF Next, Handler, ReadPump
<1>2. Spec => []LifeInv
  BY LifeInit, LifeStep, PTL DEF Spec
<1> QED BY <1>1, <1>2, PTL DEF Spec, CallbackOrder

-----------------------------------------------------------------------------
(* The maps.                                                                *)

Disciplined == Relax \cap {"sameTick", "rebind", "async"} = {}

(* Every ID was read from the clock, and no two connections share one.      *)
IdsDistinct ==
  \A c \in Conns :
    /\ id[c] <= clock
    /\ c \in Counted => id[c] # 0
    /\ \A d \in Conns : (c # d /\ id[c] # 0) => id[d] # id[c]

(* A BindUser in progress belongs to a callback of a connection that was    *)
(* never bound to anybody else.                                             *)
Bindings ==
  \A c \in Conns :
    /\ binding[c] # None => userID[c] = binding[c] /\ pc[c] \in {"onConnect", "serve"}
    /\ binding[c] # None => pc[c] = "onConnect" \/ rd[c] \in {"read", "closing"}
    /\ pc[c] \in {"idle", "upgrade", "auth"} => userID[c] = None
    /\ pc[c] = "bind" => userID[c] # None

IndexInv ==
  LifeInv /\ IdsDistinct /\ Bindings /\ RegistryExact /\ UserIndexSound /\ UserIndexComplete

(* With different IDs, inserting and deleting touch one connection only.    *)
LEMMA OneEntry ==
  ASSUME TypeOK, IdsDistinct, NEW c \in Counted, NEW m \in SUBSET Conns
  PROVE  Put(m, c) = m \cup {c} /\ Delete(m, c) = m \ {c}
BY DEF TypeOK, IdsDistinct, Counted, Put, Delete

(* Every step keeps IndexInv: one case per action, one step per part.       *)
LEMMA IndexStep ==
  ASSUME Disciplined, IndexInv, [Next]_vars
  PROVE  IndexInv'
<1> USE DEF IndexInv
<1>0. LifeInv' /\ TypeOK /\ Phases
  BY LifeStep DEF LifeInv
<1>1. CASE UNCHANGED vars \/ Start \/ StopCloses \/ StopShutsDown
  BY <1>0, <1>1 DEF vars, Start, StopCloses, StopShutsDown, registry, service, conn,
    Counted,
                    IdsDistinct, Bindings, RegistryExact, UserIndexSound, UserIndexComplete
<1>2. ASSUME NEW c \in Conns, CheckLimit(c) \/ UpgradeFails(c)
      PROVE  IndexInv'
  <2>2. IdsDistinct'
    BY <1>0, <1>2, ConstantsAssumption DEF Disciplined, TypeOK, IdsDistinct, Counted,
      CheckLimit, UpgradeFails, Goto, registry, service, conn
  <2>3. Bindings'
    BY <1>0, <1>2 DEF Disciplined, TypeOK, Phases, Bindings, CheckLimit, UpgradeFails,
      Goto, registry, service, conn
  <2>4. RegistryExact'
    BY <1>0, <1>2 DEF TypeOK, RegistryExact, CheckLimit, UpgradeFails, Goto, registry,
      service, conn
  <2>5. UserIndexSound'
    BY <1>0, <1>2 DEF Disciplined, TypeOK, Phases, Bindings, UserIndexSound, Bindable,
      CheckLimit, UpgradeFails, Goto, registry, service, conn
  <2>6. UserIndexComplete'
    BY <1>0, <1>2 DEF Disciplined, TypeOK, Phases, Bindings, UserIndexSound,
      UserIndexComplete, Bindable, CheckLimit, UpgradeFails, Goto, registry, service, conn
  <2> QED BY <1>0, <2>2, <2>3, <2>4, <2>5, <2>6
<1>3. ASSUME NEW c \in Conns, Upgrade(c)
      PROVE  IndexInv'
  <2>2. IdsDistinct'
    BY <1>0, <1>3, ConstantsAssumption DEF Disciplined, TypeOK, IdsDistinct, Counted,
      Upgrade, generateConnID, Goto, registry, service, conn
  <2>3. Bindings'
    BY <1>0, <1>3 DEF Disciplined, TypeOK, Phases, Bindings, Upgrade, generateConnID,
      Goto, registry, service, conn
  <2>4. RegistryExact'
    BY <1>0, <1>3 DEF TypeOK, RegistryExact, Upgrade, generateConnID, Goto, registry,
      service, conn
  <2>5. UserIndexSound'
    BY <1>0, <1>3 DEF Disciplined, TypeOK, Phases, Bindings, UserIndexSound, Bindable,
      Upgrade, generateConnID, Goto, registry, service, conn
  <2>6. UserIndexComplete'
    BY <1>0, <1>3 DEF Disciplined, TypeOK, Phases, Bindings, UserIndexSound,
      UserIndexComplete, Bindable, Upgrade, generateConnID, Goto, registry, service, conn
  <2> QED BY <1>0, <2>2, <2>3, <2>4, <2>5, <2>6
<1>4. ASSUME NEW c \in Conns, AuthFails(c) \/ releaseCount(c)
      PROVE  IndexInv'
  <2>2. IdsDistinct'
    BY <1>0, <1>4, ConstantsAssumption DEF Disciplined, TypeOK, IdsDistinct, Counted,
      AuthFails, releaseCount, Goto, registry, service, conn
  <2>3. Bindings'
    BY <1>0, <1>4 DEF Disciplined, TypeOK, Phases, Bindings, AuthFails, releaseCount,
      Goto, registry, service, conn
  <2>4. RegistryExact'
    BY <1>0, <1>4 DEF TypeOK, RegistryExact, AuthFails, releaseCount, Goto, registry,
      service, conn
  <2>5. UserIndexSound'
    BY <1>0, <1>4 DEF Disciplined, TypeOK, Phases, Bindings, UserIndexSound, Bindable,
      AuthFails, releaseCount, Goto, registry, service, conn
  <2>6. UserIndexComplete'
    BY <1>0, <1>4 DEF Disciplined, TypeOK, Phases, Bindings, UserIndexSound,
      UserIndexComplete, Bindable, AuthFails, releaseCount, Goto, registry, service, conn
  <2> QED BY <1>0, <2>2, <2>3, <2>4, <2>5, <2>6
<1>5. ASSUME NEW c \in Conns, Authenticate(c)
      PROVE  IndexInv'
  <2>2. IdsDistinct'
    BY <1>0, <1>5, ConstantsAssumption DEF Disciplined, TypeOK, IdsDistinct, Counted,
      Authenticate, Goto, registry, service, conn
  <2>3. Bindings'
    BY <1>0, <1>5 DEF Disciplined, TypeOK, Phases, Bindings, Authenticate, Goto, registry,
      service, conn
  <2>4. RegistryExact'
    BY <1>0, <1>5 DEF TypeOK, RegistryExact, Authenticate, Goto, registry, service, conn
  <2>5. UserIndexSound'
    BY <1>0, <1>5 DEF Disciplined, TypeOK, Phases, Bindings, UserIndexSound, Bindable,
      Authenticate, Goto, registry, service, conn
  <2>6. UserIndexComplete'
    BY <1>0, <1>5 DEF Disciplined, TypeOK, Phases, Bindings, UserIndexSound,
      UserIndexComplete, Bindable, Authenticate, Goto, registry, service, conn
  <2> QED BY <1>0, <2>2, <2>3, <2>4, <2>5, <2>6
<1>6. ASSUME NEW c \in Conns, BindAuthenticated(c)
      PROVE  IndexInv'
  <2>1. /\ Put(connections, c) = connections \cup {c}
        /\ Delete(connections, c) = connections \ {c}
        /\ \A u \in Users : /\ Put(userConns[u], c) = userConns[u] \cup {c}
                            /\ Delete(userConns[u], c) = userConns[u] \ {c}
    BY <1>0, <1>6, OneEntry DEF TypeOK, Bindings, Counted, BindAuthenticated
  <2>2. IdsDistinct'
    BY <1>0, <1>6, ConstantsAssumption DEF Disciplined, TypeOK, IdsDistinct, Counted,
      BindAuthenticated, Goto, registry, service, conn
  <2>3. Bindings'
    BY <1>0, <1>6 DEF Disciplined, TypeOK, Phases, Bindings, BindAuthenticated, Goto,
      registry, service, conn
  <2>4. RegistryExact'
    BY <1>0, <1>6, <2>1 DEF TypeOK, RegistryExact, BindAuthenticated, Goto, registry,
      service, conn
  <2>5. UserIndexSound'
    BY <1>0, <1>6, <2>1 DEF Disciplined, TypeOK, Phases, Bindings, UserIndexSound,
      Bindable, BindAuthenticated, Goto, registry, service, conn
  <2>6. UserIndexComplete'
    BY <1>0, <1>6, <2>1 DEF Disciplined, TypeOK, Phases, Bindings, UserIndexSound,
      UserIndexComplete, Bindable, BindAuthenticated, Goto, registry, service, conn
  <2> QED BY <1>0, <2>2, <2>3, <2>4, <2>5, <2>6
<1>7. ASSUME NEW c \in Conns, registerConnection(c)
      PROVE  IndexInv'
  <2>1. /\ Put(connections, c) = connections \cup {c}
        /\ Delete(connections, c) = connections \ {c}
        /\ \A u \in Users : /\ Put(userConns[u], c) = userConns[u] \cup {c}
                            /\ Delete(userConns[u], c) = userConns[u] \ {c}
    BY <1>0, <1>7, OneEntry DEF TypeOK, Bindings, Counted, registerConnection
  <2>2. IdsDistinct'
    BY <1>0, <1>7, ConstantsAssumption DEF Disciplined, TypeOK, IdsDistinct, Counted,
      registerConnection, Goto, registry, service, conn
  <2>3. Bindings'
    BY <1>0, <1>7 DEF Disciplined, TypeOK, Phases, Bindings, registerConnection, Goto,
      registry, service, conn
  <2>4. RegistryExact'
    BY <1>0, <1>7, <2>1 DEF TypeOK, RegistryExact, registerConnection, Goto, registry,
      service, conn
  <2>5. UserIndexSound'
    BY <1>0, <1>7, <2>1 DEF Disciplined, TypeOK, Phases, Bindings, UserIndexSound,
      Bindable, registerConnection, Goto, registry, service, conn
  <2>6. UserIndexComplete'
    BY <1>0, <1>7, <2>1 DEF Disciplined, TypeOK, Phases, Bindings, UserIndexSound,
      UserIndexComplete, Bindable, registerConnection, Goto, registry, service, conn
  <2> QED BY <1>0, <2>2, <2>3, <2>4, <2>5, <2>6
<1>8. ASSUME NEW c \in Conns, OnConnectFails(c) \/ OnConnect(c)
      PROVE  IndexInv'
  <2>2. IdsDistinct'
    BY <1>0, <1>8, ConstantsAssumption DEF Disciplined, TypeOK, IdsDistinct, Counted,
      OnConnectFails, OnConnect, CallbackBusy, Goto, registry, service, conn
  <2>3. Bindings'
    BY <1>0, <1>8 DEF Disciplined, TypeOK, Phases, Bindings, OnConnectFails, OnConnect,
      CallbackBusy, Goto, registry, service, conn
  <2>4. RegistryExact'
    BY <1>0, <1>8 DEF TypeOK, RegistryExact, OnConnectFails, OnConnect, CallbackBusy,
      Goto, registry, service, conn
  <2>5. UserIndexSound'
    BY <1>0, <1>8 DEF Disciplined, TypeOK, Phases, Bindings, UserIndexSound, Bindable,
      OnConnectFails, OnConnect, CallbackBusy, Goto, registry, service, conn
  <2>6. UserIndexComplete'
    BY <1>0, <1>8 DEF Disciplined, TypeOK, Phases, Bindings, UserIndexSound,
      UserIndexComplete, Bindable, OnConnectFails, OnConnect, CallbackBusy, Goto,
      registry, service, conn
  <2> QED BY <1>0, <2>2, <2>3, <2>4, <2>5, <2>6
<1>9. ASSUME NEW c \in Conns, ReadPump(c) \/ WritePump(c) \/ WriteError(c)
      PROVE  IndexInv'
  <2>2. IdsDistinct'
    BY <1>0, <1>9, ConstantsAssumption DEF Disciplined, TypeOK, IdsDistinct, Counted,
      ReadPump, ReadError, ReadPumpReturns, CallbackBusy, WritePump,
              WritePumpWakes, WritePumpReturns, WriteError, Goto, registry, service, conn
  <2>3. Bindings'
    BY <1>0, <1>9 DEF Disciplined, TypeOK, Phases, Bindings, ReadPump, ReadError,
      ReadPumpReturns, CallbackBusy, WritePump,
              WritePumpWakes, WritePumpReturns, WriteError, Goto, registry, service, conn
  <2>4. RegistryExact'
    BY <1>0, <1>9 DEF TypeOK, RegistryExact, ReadPump, ReadError, ReadPumpReturns,
      CallbackBusy, WritePump,
              WritePumpWakes, WritePumpReturns, WriteError, Goto, registry, service, conn
  <2>5. UserIndexSound'
    BY <1>0, <1>9 DEF Disciplined, TypeOK, Phases, Bindings, UserIndexSound, Bindable,
      ReadPump, ReadError, ReadPumpReturns, CallbackBusy, WritePump,
              WritePumpWakes, WritePumpReturns, WriteError, Goto, registry, service, conn
  <2>6. UserIndexComplete'
    BY <1>0, <1>9 DEF Disciplined, TypeOK, Phases, Bindings, UserIndexSound,
      UserIndexComplete, Bindable, ReadPump, ReadError, ReadPumpReturns, CallbackBusy,
      WritePump,
              WritePumpWakes, WritePumpReturns, WriteError, Goto, registry, service, conn
  <2> QED BY <1>0, <2>2, <2>3, <2>4, <2>5, <2>6
<1>10. ASSUME NEW c \in Conns, PumpsJoined(c)
      PROVE  IndexInv'
  <2>2. IdsDistinct'
    BY <1>0, <1>10, ConstantsAssumption DEF Disciplined, TypeOK, IdsDistinct, Counted,
      PumpsJoined, Goto, registry, service, conn
  <2>3. Bindings'
    BY <1>0, <1>10 DEF Disciplined, TypeOK, Phases, Bindings, PumpsJoined, Goto, registry,
      service, conn
  <2>4. RegistryExact'
    BY <1>0, <1>10 DEF TypeOK, RegistryExact, PumpsJoined, Goto, registry, service, conn
  <2>5. UserIndexSound'
    BY <1>0, <1>10 DEF Disciplined, TypeOK, Phases, Bindings, UserIndexSound, Bindable,
      PumpsJoined, Goto, registry, service, conn
  <2>6. UserIndexComplete'
    BY <1>0, <1>10 DEF Disciplined, TypeOK, Phases, Bindings, UserIndexSound,
      UserIndexComplete, Bindable, PumpsJoined, Goto, registry, service, conn
  <2> QED BY <1>0, <2>2, <2>3, <2>4, <2>5, <2>6
<1>11. ASSUME NEW c \in Conns, unregisterConnection(c)
      PROVE  IndexInv'
  <2>1. /\ Put(connections, c) = connections \cup {c}
        /\ Delete(connections, c) = connections \ {c}
        /\ \A u \in Users : /\ Put(userConns[u], c) = userConns[u] \cup {c}
                            /\ Delete(userConns[u], c) = userConns[u] \ {c}
    BY <1>0, <1>11, OneEntry DEF TypeOK, Bindings, Counted, unregisterConnection
  <2>2. IdsDistinct'
    BY <1>0, <1>11, ConstantsAssumption DEF Disciplined, TypeOK, IdsDistinct, Counted,
      unregisterConnection, Goto, registry, service, conn
  <2>3. Bindings'
    BY <1>0, <1>11 DEF Disciplined, TypeOK, Phases, Bindings, unregisterConnection, Goto,
      registry, service, conn
  <2>4. RegistryExact'
    BY <1>0, <1>11, <2>1 DEF TypeOK, RegistryExact, unregisterConnection, Goto, registry,
      service, conn
  <2>5. UserIndexSound'
    BY <1>0, <1>11, <2>1 DEF Disciplined, TypeOK, Phases, Bindings, UserIndexSound,
      Bindable, unregisterConnection, Goto, registry, service, conn
  <2>6. UserIndexComplete'
    BY <1>0, <1>11, <2>1 DEF Disciplined, TypeOK, Phases, Bindings, UserIndexSound,
      UserIndexComplete, Bindable, unregisterConnection, Goto, registry, service, conn
  <2> QED BY <1>0, <2>2, <2>3, <2>4, <2>5, <2>6
<1>12. ASSUME NEW c \in Conns, unbindUser(c)
      PROVE  IndexInv'
  <2>1. /\ Put(connections, c) = connections \cup {c}
        /\ Delete(connections, c) = connections \ {c}
        /\ \A u \in Users : /\ Put(userConns[u], c) = userConns[u] \cup {c}
                            /\ Delete(userConns[u], c) = userConns[u] \ {c}
    BY <1>0, <1>12, OneEntry DEF TypeOK, Bindings, Counted, unbindUser
  <2>2. IdsDistinct'
    BY <1>0, <1>12, ConstantsAssumption DEF Disciplined, TypeOK, IdsDistinct, Counted,
      unbindUser, Goto, registry, service, conn
  <2>3. Bindings'
    BY <1>0, <1>12 DEF Disciplined, TypeOK, Phases, Bindings, unbindUser, Goto, registry,
      service, conn
  <2>4. RegistryExact'
    BY <1>0, <1>12, <2>1 DEF TypeOK, RegistryExact, unbindUser, Goto, registry, service,
      conn
  <2>5. UserIndexSound'
    BY <1>0, <1>12, <2>1, ConstantsAssumption DEF Disciplined, TypeOK, Phases, Bindings,
      UserIndexSound, Bindable, unbindUser, Goto, registry, service, conn
  <2>6. UserIndexComplete'
    BY <1>0, <1>12, <2>1 DEF Disciplined, TypeOK, Phases, Bindings, UserIndexSound,
      UserIndexComplete, Bindable, unbindUser, Goto, registry, service, conn
  <2> QED BY <1>0, <2>2, <2>3, <2>4, <2>5, <2>6
<1>13. ASSUME NEW c \in Conns, \E u \in Users : BindUser(c, u)
      PROVE  IndexInv'
  <2>2. IdsDistinct'
    BY <1>0, <1>13, ConstantsAssumption DEF Disciplined, TypeOK, IdsDistinct, Counted,
      BindUser, InCallback, Goto, registry, service, conn
  <2>3. Bindings'
    BY <1>0, <1>13 DEF Disciplined, TypeOK, Phases, Bindings, BindUser, InCallback, Goto,
      registry, service, conn
  <2>4. RegistryExact'
    BY <1>0, <1>13 DEF TypeOK, RegistryExact, BindUser, InCallback, Goto, registry,
      service, conn
  <2>5. UserIndexSound'
    BY <1>0, <1>13, ConstantsAssumption DEF Disciplined, TypeOK, Phases, Bindings,
      UserIndexSound, Bindable, BindUser, InCallback, Goto, registry, service, conn
  <2>6. UserIndexComplete'
    BY <1>0, <1>13 DEF Disciplined, TypeOK, Phases, Bindings, UserIndexSound,
      UserIndexComplete, Bindable, BindUser, InCallback, Goto, registry, service, conn
  <2> QED BY <1>0, <2>2, <2>3, <2>4, <2>5, <2>6
<1>14. ASSUME NEW c \in Conns, BindUserInserts(c)
      PROVE  IndexInv'
  <2>1. /\ Put(connections, c) = connections \cup {c}
        /\ Delete(connections, c) = connections \ {c}
        /\ \A u \in Users : /\ Put(userConns[u], c) = userConns[u] \cup {c}
                            /\ Delete(userConns[u], c) = userConns[u] \ {c}
    BY <1>0, <1>14, OneEntry DEF TypeOK, Bindings, Counted, BindUserInserts
  <2>2. IdsDistinct'
    BY <1>0, <1>14, ConstantsAssumption DEF Disciplined, TypeOK, IdsDistinct, Counted,
      BindUserInserts, Goto, registry, service, conn
  <2>3. Bindings'
    BY <1>0, <1>14 DEF Disciplined, TypeOK, Phases, Bindings, BindUserInserts, Goto,
      registry, service, conn
  <2>4. RegistryExact'
    BY <1>0, <1>14, <2>1 DEF TypeOK, RegistryExact, BindUserInserts, Goto, registry,
      service, conn
  <2>5. UserIndexSound'
    BY <1>0, <1>14, <2>1 DEF Disciplined, TypeOK, Phases, Bindings, UserIndexSound,
      Bindable, BindUserInserts, Goto, registry, service, conn
  <2>6. UserIndexComplete'
    BY <1>0, <1>14, <2>1 DEF Disciplined, TypeOK, Phases, Bindings, UserIndexSound,
      UserIndexComplete, Bindable, BindUserInserts, Goto, registry, service, conn
  <2> QED BY <1>0, <2>2, <2>3, <2>4, <2>5, <2>6
<1>15. ASSUME NEW c \in Conns, AppCloses(c) \/ PeerLeaves(c)
      PROVE  IndexInv'
  <2>2. IdsDistinct'
    BY <1>0, <1>15, ConstantsAssumption DEF Disciplined, TypeOK, IdsDistinct, Counted,
      AppCloses, PeerLeaves, Goto, registry, service, conn
  <2>3. Bindings'
    BY <1>0, <1>15 DEF Disciplined, TypeOK, Phases, Bindings, AppCloses, PeerLeaves, Goto,
      registry, service, conn
  <2>4. RegistryExact'
    BY <1>0, <1>15 DEF TypeOK, RegistryExact, AppCloses, PeerLeaves, Goto, registry,
      service, conn
  <2>5. UserIndexSound'
    BY <1>0, <1>15 DEF Disciplined, TypeOK, Phases, Bindings, UserIndexSound, Bindable,
      AppCloses, PeerLeaves, Goto, registry, service, conn
  <2>6. UserIndexComplete'
    BY <1>0, <1>15 DEF Disciplined, TypeOK, Phases, Bindings, UserIndexSound,
      UserIndexComplete, Bindable, AppCloses, PeerLeaves, Goto, registry, service, conn
  <2> QED BY <1>0, <2>2, <2>3, <2>4, <2>5, <2>6
<1> QED
  BY <1>1, <1>2, <1>3, <1>4, <1>5, <1>6, <1>7, <1>8, <1>9, <1>10, <1>11, <1>12, <1>13,
    <1>14, <1>15 DEF Next, Handler

(* IndexInv holds before the first request.                                 *)
LEMMA IndexInit == Init => IndexInv
<1> SUFFICES ASSUME Init PROVE IndexInv
  OBVIOUS
<1>1. LifeInv
  BY LifeInit
<1>2. IdsDistinct
  BY DEF Init, IdsDistinct, Counted
<1>3. Bindings /\ UserIndexSound /\ UserIndexComplete
  BY DEF Init, Bindings, UserIndexSound, UserIndexComplete
<1>4. RegistryExact
  BY DEF Init, RegistryExact
<1> QED BY <1>1, <1>2, <1>3, <1>4 DEF IndexInv

(* The maps are exact at all times: RegistryExact for s.connections, and    *)
(* the two halves of the user index for s.userConns, for every set of       *)
(* requests, as long as the IDs differ and BindUser is called from the      *)
(* callbacks and never with a second user.                                  *)
THEOREM IndexCorrect ==
  ASSUME Disciplined
  PROVE  Spec => [](RegistryExact /\ UserIndexExact)
<1>1. IndexInv /\ [Next]_vars => IndexInv'
  BY IndexStep
<1>2. IndexInv => RegistryExact /\ UserIndexExact
  BY DEF IndexInv, UserIndexExact
<1> QED BY <1>1, <1>2, IndexInit, PTL DEF Spec

-----------------------------------------------------------------------------
(* The maps as a Registry.                                                  *)

regVars == <<connections, userConns, Leaving, Left>>

(* A connection that BindUser or the authentication puts under a user is    *)
(* under no other and has not begun to leave.                               *)
LEMMA BindsOne ==
  ASSUME IndexInv, NEW c \in Conns, NEW u \in Users, c \in Counted, c \notin Leaving, userID[c] = u,
         userConns' = [userConns EXCEPT ![u] = Put(@, c)],
         UNCHANGED <<connections, Leaving, Left>>
  PROVE  Reg!Bind(c, u)
<1>1. TypeOK /\ IdsDistinct /\ UserIndexSound
  BY DEF IndexInv, LifeInv
<1>2. Put(userConns[u], c) = userConns[u] \cup {c}
  BY <1>1, OneEntry DEF TypeOK
<1>3. \A v \in Users \ {u} : c \notin userConns[v]
  BY <1>1 DEF UserIndexSound
<1> QED BY <1>2, <1>3 DEF Reg!Bind

(* A connection that is turned away before it is registered is in no map.   *)
LEMMA TurnsAway ==
  ASSUME IndexInv, NEW c \in Conns, pc[c] \in {"idle", "upgrade", "auth"}, Goto(c, "gone"),
         UNCHANGED <<connections, userConns>>
  PROVE  Reg!Leave(c)
<1>1. TypeOK /\ RegistryExact /\ UserIndexSound
  BY DEF IndexInv, LifeInv
<1>2. Leaving' = Leaving \cup {c} /\ Left' = Left \cup {c} /\ c \notin Left
  BY <1>1 DEF Leaving, Left, Goto, TypeOK
<1>3. connections' = connections \ {c}
  BY <1>1 DEF RegistryExact
<1>4. \A u \in Users : c \notin userConns'[u]
  BY <1>1 DEF UserIndexSound, Bindable
<1> QED BY <1>2, <1>3, <1>4 DEF Reg!Leave, Reg!Unbound

(* What the handler of a connection does to the maps.                       *)
LEMMA HandlerRefines ==
  ASSUME IndexInv, NEW c \in Conns, CheckLimit(c) \/ Handler(c)
  PROVE  [Reg!Next]_regVars
<1>0. TypeOK /\ IdsDistinct /\ RegistryExact /\ UserIndexSound /\ Bindings
  BY DEF IndexInv, LifeInv
<1>1. ASSUME NEW l, Goto(c, l), UNCHANGED <<connections, userConns>>,
             pc[c] \notin {"unbind", "release", "gone"}, l \notin {"unbind", "release", "gone"}
      PROVE  UNCHANGED regVars
  BY <1>0, <1>1 DEF regVars, Leaving, Left, Goto, TypeOK
<1>2. CASE CheckLimit(c) \/ UpgradeFails(c) \/ Upgrade(c) \/ AuthFails(c) \/ Authenticate(c)
           \/ OnConnectFails(c) \/ OnConnect(c) \/ PumpsJoined(c)
  <2>1. UNCHANGED <<connections, userConns>>
    BY <1>2 DEF CheckLimit, UpgradeFails, Upgrade, AuthFails, Authenticate, OnConnectFails, OnConnect,
                PumpsJoined, registry
  <2>2. \/ pc[c] \in {"idle", "upgrade", "auth"} /\ Goto(c, "gone")
        \/ \E l \in {"upgrade", "auth", "bind", "register", "serve", "unregister"} :
             Goto(c, l) /\ pc[c] \notin {"unbind", "release", "gone"}
    BY <1>2 DEF CheckLimit, UpgradeFails, Upgrade, AuthFails, Authenticate, OnConnectFails, OnConnect,
                PumpsJoined
  <2> QED BY <1>1, <2>1, <2>2, TurnsAway DEF Reg!Next
<1>3. CASE BindAuthenticated(c)
  <2>1. userID[c] \in Users /\ c \in Counted /\ c \notin Leaving
    BY <1>0, <1>3 DEF BindAuthenticated, TypeOK, Bindings, Counted, Leaving
  <2>2. UNCHANGED <<connections, Leaving, Left>>
    BY <1>0, <1>3 DEF BindAuthenticated, Goto, TypeOK, Leaving, Left
  <2>3. userConns' = [userConns EXCEPT ![userID[c]] = Put(@, c)]
    BY <1>3 DEF BindAuthenticated
  <2> QED BY <2>1, <2>2, <2>3, BindsOne DEF Reg!Next
<1>4. CASE registerConnection(c)
  <2>1. c \in Counted /\ c \notin connections \cup Leaving
    BY <1>0, <1>4 DEF registerConnection, RegistryExact, Counted, Leaving
  <2>2. connections' = connections \cup {c}
    BY <1>0, <1>4, <2>1, OneEntry DEF registerConnection, TypeOK
  <2>3. UNCHANGED <<userConns, Leaving, Left>>
    BY <1>0, <1>4 DEF registerConnection, Goto, TypeOK, Leaving, Left
  <2> QED BY <2>1, <2>2, <2>3 DEF Reg!Next, Reg!Register
<1>5. CASE unregisterConnection(c)
  <2>1. c \in Counted /\ c \notin Left
    BY <1>5 DEF unregisterConnection, Counted, Left
  <2>2. connections' = connections \ {c}
    BY <1>0, <1>5, <2>1, OneEntry DEF unregisterConnection, TypeOK
  <2>3. userConns' = userConns /\ Leaving' = Leaving \cup {c} /\ Left' = Left
    BY <1>0, <1>5 DEF unregisterConnection, Goto, TypeOK, Leaving, Left
  <2> QED BY <2>1, <2>2, <2>3 DEF Reg!Next, Reg!Leave
<1>6. CASE unbindUser(c)
  <2>1. c \in Counted /\ c \notin Left /\ c \in Leaving /\ c \notin connections
    BY <1>0, <1>6 DEF unbindUser, Counted, Left, Leaving, RegistryExact
  <2>2. connections' = connections \ {c} /\ Leaving' = Leaving \cup {c} /\ Left' = Left \cup {c}
    BY <1>0, <1>6, <2>1 DEF unbindUser, Goto, TypeOK, Leaving, Left
  <2>3. \A u \in Users : userConns'[u] = userConns[u] \ {c}
    <3>1. ASSUME NEW u \in Users PROVE userConns'[u] = userConns[u] \ {c}
      <4>1. CASE u = userID[c]
        <5>1. Delete(userConns[u], c) = userConns[u] \ {c}
          BY <1>0, <2>1, OneEntry DEF TypeOK
        <5>2. userID[c] # None
          BY <4>1, ConstantsAssumption
        <5> QED BY <1>0, <1>6, <4>1, <5>1, <5>2 DEF unbindUser, TypeOK
      <4>2. CASE u # userID[c]
        <5>1. c \notin userConns[u]
          BY <1>0, <4>2 DEF UserIndexSound
        <5> QED BY <1>0, <1>6, <4>2, <5>1 DEF unbindUser, TypeOK
      <4> QED BY <4>1, <4>2
    <3> QED BY <3>1
  <2>4. userConns' = [u \in Users |-> userConns[u] \ {c}]
    <3>1. userConns' \in [Users -> SUBSET Conns]
      BY <1>0, <1>6 DEF unbindUser, TypeOK, Delete
    <3> QED BY <2>3, <3>1
  <2> QED BY <2>1, <2>2, <2>3, <2>4 DEF Reg!Next, Reg!Leave, Reg!Unbound
<1>7. CASE releaseCount(c)
  BY <1>0, <1>7 DEF releaseCount, Goto, TypeOK, Leaving, Left, regVars
<1> QED BY <1>2, <1>3, <1>4, <1>5, <1>6, <1>7 DEF Handler

(* Every step of the server is a step of Registry, or none.                 *)
LEMMA RegistryStep ==
  ASSUME IndexInv, [Next]_vars
  PROVE  [Reg!Next]_regVars
<1>0. TypeOK /\ Bindings
  BY DEF IndexInv, LifeInv
<1>1. ASSUME NEW c \in Conns, BindUserInserts(c)
      PROVE  Reg!Next
  <2>1. /\ binding[c] \in Users /\ userID[c] = binding[c] /\ c \in Counted /\ c \notin Leaving
    BY <1>0, <1>1 DEF BindUserInserts, TypeOK, Bindings, Counted, Leaving
  <2>2. /\ UNCHANGED <<connections, Leaving, Left>>
        /\ userConns' = [userConns EXCEPT ![binding[c]] = Put(@, c)]
    BY <1>1 DEF BindUserInserts, Leaving, Left
  <2> QED BY <2>1, <2>2, BindsOne DEF Reg!Next
<1>2. ASSUME NEW c \in Conns,
             \/ ReadPump(c) \/ WritePump(c) \/ WriteError(c)
             \/ (\E u \in Users : BindUser(c, u)) \/ AppCloses(c) \/ PeerLeaves(c)
      PROVE  UNCHANGED <<connections, userConns, pc>>
  BY <1>2 DEF ReadPump, ReadError, ReadPumpReturns, WritePump, WritePumpWakes, WritePumpReturns, WriteError,
              BindUser, AppCloses, PeerLeaves, registry
<1>3. ASSUME UNCHANGED vars \/ Start \/ StopCloses \/ StopShutsDown
      PROVE  UNCHANGED <<connections, userConns, pc>>
  BY <1>3 DEF vars, Start, StopCloses, StopShutsDown, registry
<1>4. UNCHANGED <<connections, userConns, pc>> => UNCHANGED regVars
  BY DEF regVars, Leaving, Left
<1> QED BY <1>1, <1>2, <1>3, <1>4, HandlerRefines DEF Next

(* For every set of requests and users, with IDs that differ and BindUser   *)
(* called from the callbacks and for one user, the server is a Registry:    *)
(* what happens to a connection in s.connections and s.userConns is its own *)
(* doing, and what has left does not come back.                             *)
THEOREM ServerIsRegistry ==
  ASSUME Disciplined
  PROVE  Spec => ImplementsRegistry
<1>1. Init => Reg!Init
  BY DEF Init, Reg!Init, Leaving, Left
<1>2. IndexInv /\ [Next]_vars => IndexInv'
  BY IndexStep
<1>3. IndexInv /\ [Next]_vars => [Reg!Next]_<<connections, userConns, Leaving, Left>>
  BY RegistryStep DEF regVars
<1> QED BY <1>1, <1>2, <1>3, IndexInit, PTL DEF Spec, ImplementsRegistry, Reg!Spec
=============================================================================
