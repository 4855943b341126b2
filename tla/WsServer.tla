------------------------------ MODULE WsServer ------------------------------
(***************************************************************************)
(* The WebSocket server of ws/server.go: the life of a connection from the  *)
(* HTTP request to the last statement of HandleWebSocket, the two maps and  *)
(* the counter that the connections share, and Start and Stop.              *)
(*                                                                          *)
(* An element of Conns is one HTTP request and the Connection it becomes.   *)
(* It has three goroutines: the HTTP handler (pc), readPump (rd) and        *)
(* writePump (wr).  Every action does the work between two accesses to      *)
(* shared state: an atomic counter, a map under its mutex, a channel close. *)
(*                                                                          *)
(* Both maps are keyed by the connection ID, so a map is a set of           *)
(* connections with different IDs: inserting one removes the one that had   *)
(* the same key, deleting removes whichever has the key.                    *)
(***************************************************************************)
EXTENDS Integers, FiniteSets

CONSTANTS
  Conns,           \* the requests the server is sent
  Users,           \* the user IDs other than ""
  None,            \* the user ID "", and "no BindUser in progress"
  MaxConnections,  \* conf.MaxConnections, 0 for no limit
  AuthEnabled,     \* conf.Auth.Enabled
  Relax            \* what the surroundings may do beyond their best behaviour:
                   \* "sameTick": two readings of the clock may be equal
                   \* "rebind": a bound connection is bound to another user
                   \* "async": BindUser is called outside the callbacks
                   \* "earlyStop": Stop is called before Start

ASSUME ConstantsAssumption ==
  /\ IsFiniteSet(Conns)
  /\ None \notin Users
  /\ MaxConnections \in Nat
  /\ AuthEnabled \in BOOLEAN
  /\ Relax \subseteq {"sameTick", "rebind", "async", "earlyStop"}

VARIABLES
  connections,  \* s.connections
  userConns,    \* s.userConns
  connCount,    \* s.connCount
  server,       \* s.server: nil ("new"), serving, shut down; or Stop panicked
  done,         \* s.done is closed
  clock,        \* the latest reading of time.Now().UnixNano()
  pc,           \* where the HTTP handler of a request is
  rd,           \* where its readPump is
  wr,           \* where its writePump is
  id,           \* conn.id
  userID,       \* conn.userID
  closed,       \* conn.done is closed and the socket with it
  peerGone,     \* reading the socket fails: peer closed, network, PongWait
  binding,      \* the user of a BindUser between SetUserID and its lock
  told          \* the last event the StatefulHandler was told of

registry == <<connections, userConns, connCount>>
service == <<server, done>>
conn == <<id, userID, closed, peerGone, binding, told>>
vars == <<registry, service, clock, pc, rd, wr, conn>>

-----------------------------------------------------------------------------
(* The maps.                                                                *)

Delete(m, c) == {d \in m : id[d] # id[c]}

Put(m, c) == Delete(m, c) \cup {c}

Goto(c, label) == pc' = [pc EXCEPT ![c] = label]

-----------------------------------------------------------------------------
(* Mistakes in this code that the properties below exclude.  None is part   *)
(* of the specification.                                                    *)

(* The deferred unregisterConnection comes after the OnConnect that fails.  *)
OnConnectFailsUndeferred(c) ==
  /\ pc[c] = "onConnect"
  /\ told' = [told EXCEPT ![c] = "rejected"]
  /\ closed' = [closed EXCEPT ![c] = TRUE]
  /\ Goto(c, "gone")
  /\ UNCHANGED <<registry, service, clock, rd, wr, id, userID, peerGone, binding>>

(* A rejected connection gets its pumps all the same.                       *)
OnConnectFailsServes(c) ==
  /\ pc[c] = "onConnect"
  /\ told' = [told EXCEPT ![c] = "rejected"]
  /\ closed' = [closed EXCEPT ![c] = TRUE]
  /\ rd' = [rd EXCEPT ![c] = "read"]
  /\ wr' = [wr EXCEPT ![c] = "run"]
  /\ Goto(c, "serve")
  /\ UNCHANGED <<registry, service, clock, id, userID, peerGone, binding>>

(* The ID has the resolution of a coarse clock.                             *)
generateConnIDCoarse == {clock, clock + 1}

(* readPump returns without OnDisconnect.                                   *)
ReadErrorSilent(c) ==
  /\ rd[c] = "read"
  /\ closed[c] \/ peerGone[c]
  /\ rd' = [rd EXCEPT ![c] = "closing"]
  /\ UNCHANGED <<registry, service, clock, pc, wr, conn>>

(* readPump has no deferred Close.                                          *)
ReadPumpReturnsOpen(c) ==
  /\ rd[c] = "closing"
  /\ rd' = [rd EXCEPT ![c] = "done"]
  /\ UNCHANGED <<registry, service, clock, pc, wr, conn>>

(* writePump does not listen to s.done.                                     *)
WritePumpIgnoresStop(c) ==
  /\ wr[c] = "run"
  /\ closed[c]
  /\ wr' = [wr EXCEPT ![c] = "closing"]
  /\ UNCHANGED <<registry, service, clock, pc, rd, conn>>

(* unregisterConnection drops the user, not the one connection.             *)
unbindUserAll(c) ==
  /\ pc[c] = "unbind"
  /\ userConns' = [u \in Users |-> IF u = userID[c] THEN {} ELSE userConns[u]]
  /\ Goto(c, "release")
  /\ UNCHANGED <<connections, connCount, service, clock, rd, wr, conn>>

-----------------------------------------------------------------------------
(* HandleWebSocket, up to the callback.                                     *)

AtLimit == MaxConnections > 0 /\ connCount >= MaxConnections

(* Shutdown closes the listener; a request whose TCP connection was         *)
(* accepted before may still be served.                                     *)
CheckLimit(c) ==
  /\ pc[c] = "idle"
  /\ server \in {"listening", "shut"}
  /\ Goto(c, IF AtLimit THEN "gone" ELSE "upgrade")
  /\ UNCHANGED <<registry, service, clock, rd, wr, conn>>

UpgradeFails(c) ==
  /\ pc[c] = "upgrade"
  /\ Goto(c, "gone")
  /\ UNCHANGED <<registry, service, clock, rd, wr, conn>>

(* generateConnID is a reading of a clock that never goes back.             *)
generateConnID == IF "sameTick" \in Relax THEN {clock, clock + 1} ELSE {clock + 1}

Upgrade(c) ==
  /\ pc[c] = "upgrade"
  /\ \E t \in generateConnID : clock' = t /\ id' = [id EXCEPT ![c] = t]
  /\ connCount' = connCount + 1
  /\ Goto(c, IF AuthEnabled THEN "auth" ELSE "register")
  /\ UNCHANGED <<connections, userConns, service, rd, wr,
                 userID, closed, peerGone, binding, told>>

(* The connection is not in any map yet: nobody sees it between the Close   *)
(* and the decrement.                                                       *)
AuthFails(c) ==
  /\ pc[c] = "auth"
  /\ closed' = [closed EXCEPT ![c] = TRUE]
  /\ connCount' = connCount - 1
  /\ Goto(c, "gone")
  /\ UNCHANGED <<connections, userConns, service, clock, rd, wr,
                 id, userID, peerGone, binding, told>>

Authenticate(c) ==
  /\ pc[c] = "auth"
  /\ \E u \in Users \cup {None} :
       /\ userID' = [userID EXCEPT ![c] = u]
       /\ Goto(c, IF u = None THEN "register" ELSE "bind")
  /\ UNCHANGED <<registry, service, clock, rd, wr,
                 id, closed, peerGone, binding, told>>

BindAuthenticated(c) ==
  /\ pc[c] = "bind"
  /\ userConns' = [userConns EXCEPT ![userID[c]] = Put(@, c)]
  /\ Goto(c, "register")
  /\ UNCHANGED <<connections, connCount, service, clock, rd, wr, conn>>

registerConnection(c) ==
  /\ pc[c] = "register"
  /\ connections' = Put(connections, c)
  /\ Goto(c, "onConnect")
  /\ UNCHANGED <<userConns, connCount, service, clock, rd, wr, conn>>

-----------------------------------------------------------------------------
(* The callbacks and the pumps.                                             *)

(* A callback of the connection is inside BindUser.                         *)
CallbackBusy(c) == binding[c] # None /\ "async" \notin Relax

OnConnectFails(c) ==
  /\ pc[c] = "onConnect"
  /\ ~CallbackBusy(c)
  /\ told' = [told EXCEPT ![c] = "rejected"]
  /\ closed' = [closed EXCEPT ![c] = TRUE]
  /\ Goto(c, "unregister")
  /\ UNCHANGED <<registry, service, clock, rd, wr,
                 id, userID, peerGone, binding>>

OnConnect(c) ==
  /\ pc[c] = "onConnect"
  /\ ~CallbackBusy(c)
  /\ told' = [told EXCEPT ![c] = "connected"]
  /\ rd' = [rd EXCEPT ![c] = "read"]
  /\ wr' = [wr EXCEPT ![c] = "run"]
  /\ Goto(c, "serve")
  /\ UNCHANGED <<registry, service, clock, id, userID, closed, peerGone, binding>>

(* ReadMessage returns an error and readPump calls OnDisconnect.            *)
ReadError(c) ==
  /\ rd[c] = "read"
  /\ closed[c] \/ peerGone[c]
  /\ ~CallbackBusy(c)
  /\ told' = [told EXCEPT ![c] = "disconnected"]
  /\ rd' = [rd EXCEPT ![c] = "closing"]
  /\ UNCHANGED <<registry, service, clock, pc, wr,
                 id, userID, closed, peerGone, binding>>

(* OnDisconnect returns, and the deferred Close of readPump runs.           *)
ReadPumpReturns(c) ==
  /\ rd[c] = "closing"
  /\ ~CallbackBusy(c)
  /\ closed' = [closed EXCEPT ![c] = TRUE]
  /\ rd' = [rd EXCEPT ![c] = "done"]
  /\ UNCHANGED <<registry, service, clock, pc, wr,
                 id, userID, peerGone, binding, told>>

(* The select of writePump takes the case of s.done or of conn.Done().      *)
WritePumpWakes(c) ==
  /\ wr[c] = "run"
  /\ done \/ closed[c]
  /\ wr' = [wr EXCEPT ![c] = "closing"]
  /\ UNCHANGED <<registry, service, clock, pc, rd, conn>>

(* Writing a message or a ping fails: the peer is gone or WriteTimeout.     *)
WriteError(c) ==
  /\ wr[c] = "run"
  /\ wr' = [wr EXCEPT ![c] = "closing"]
  /\ UNCHANGED <<registry, service, clock, pc, rd, conn>>

(* The deferred Close of writePump.                                         *)
WritePumpReturns(c) ==
  /\ wr[c] = "closing"
  /\ closed' = [closed EXCEPT ![c] = TRUE]
  /\ wr' = [wr EXCEPT ![c] = "done"]
  /\ UNCHANGED <<registry, service, clock, pc, rd,
                 id, userID, peerGone, binding, told>>

PumpsJoined(c) ==
  /\ pc[c] = "serve"
  /\ rd[c] = "done" /\ wr[c] = "done"
  /\ Goto(c, "unregister")
  /\ UNCHANGED <<registry, service, clock, rd, wr, conn>>

-----------------------------------------------------------------------------
(* The deferred unregisterConnection: two critical sections and an atomic.  *)

unregisterConnection(c) ==
  /\ pc[c] = "unregister"
  /\ connections' = Delete(connections, c)
  /\ Goto(c, "unbind")
  /\ UNCHANGED <<userConns, connCount, service, clock, rd, wr, conn>>

unbindUser(c) ==
  /\ pc[c] = "unbind"
  /\ userConns' = IF userID[c] = None THEN userConns
                  ELSE [userConns EXCEPT ![userID[c]] = Delete(@, c)]
  /\ Goto(c, "release")
  /\ UNCHANGED <<connections, connCount, service, clock, rd, wr, conn>>

releaseCount(c) ==
  /\ pc[c] = "release"
  /\ connCount' = connCount - 1
  /\ Goto(c, "gone")
  /\ UNCHANGED <<connections, userConns, service, clock, rd, wr, conn>>

-----------------------------------------------------------------------------
(* The application: BindUser and Close on a connection it can reach.        *)

InCallback(c) ==
  \/ pc[c] = "onConnect"
  \/ rd[c] \in {"read", "closing"}

(* The authenticator is handed the connection; without one, registering it  *)
(* publishes it.                                                            *)
Reachable(c) ==
  \/ pc[c] \in {"onConnect", "serve", "unregister", "unbind", "release"}
  \/ AuthEnabled /\ pc[c] \in {"auth", "bind", "register"}

BindUser(c, u) ==
  /\ binding[c] = None
  /\ InCallback(c) \/ ("async" \in Relax /\ told[c] # "none")
  /\ "rebind" \in Relax \/ userID[c] \in {None, u}
  /\ userID' = [userID EXCEPT ![c] = u]
  /\ binding' = [binding EXCEPT ![c] = u]
  /\ UNCHANGED <<registry, service, clock, pc, rd, wr, id, closed, peerGone, told>>

BindUserInserts(c) ==
  /\ binding[c] # None
  /\ userConns' = [userConns EXCEPT ![binding[c]] = Put(@, c)]
  /\ binding' = [binding EXCEPT ![c] = None]
  /\ UNCHANGED <<connections, connCount, service, clock, pc, rd, wr,
                 id, userID, closed, peerGone, told>>

AppCloses(c) ==
  /\ Reachable(c)
  /\ closed' = [closed EXCEPT ![c] = TRUE]
  /\ UNCHANGED <<registry, service, clock, pc, rd, wr,
                 id, userID, peerGone, binding, told>>

PeerLeaves(c) ==
  /\ pc[c] \notin {"idle", "gone"}
  /\ peerGone' = [peerGone EXCEPT ![c] = TRUE]
  /\ UNCHANGED <<registry, service, clock, pc, rd, wr,
                 id, userID, closed, binding, told>>

-----------------------------------------------------------------------------
(* Start and Stop.                                                          *)

Start ==
  /\ server = "new"
  /\ server' = "listening"
  /\ UNCHANGED <<registry, done, clock, pc, rd, wr, conn>>

StopCloses ==
  /\ ~done
  /\ server = "listening" \/ "earlyStop" \in Relax
  /\ done' = TRUE
  /\ UNCHANGED <<registry, server, clock, pc, rd, wr, conn>>

(* Shutdown of a nil http.Server panics; Shutdown does not wait for the     *)
(* connections that were upgraded.                                          *)
StopShutsDown ==
  /\ done
  /\ server \in {"new", "listening"}
  /\ server' = IF server = "new" THEN "panicked" ELSE "shut"
  /\ UNCHANGED <<registry, done, clock, pc, rd, wr, conn>>

-----------------------------------------------------------------------------
Init ==
  /\ connections = {}
  /\ userConns = [u \in Users |-> {}]
  /\ connCount = 0
  /\ server = "new"
  /\ done = FALSE
  /\ clock = 0
  /\ pc = [c \in Conns |-> "idle"]
  /\ rd = [c \in Conns |-> "off"]
  /\ wr = [c \in Conns |-> "off"]
  /\ id = [c \in Conns |-> 0]
  /\ userID = [c \in Conns |-> None]
  /\ closed = [c \in Conns |-> FALSE]
  /\ peerGone = [c \in Conns |-> FALSE]
  /\ binding = [c \in Conns |-> None]
  /\ told = [c \in Conns |-> "none"]

(* One request at a time: the steps of its goroutines that always come.     *)
Handler(c) ==
  \/ UpgradeFails(c) \/ Upgrade(c)
  \/ AuthFails(c) \/ Authenticate(c) \/ BindAuthenticated(c)
  \/ registerConnection(c)
  \/ OnConnectFails(c) \/ OnConnect(c)
  \/ PumpsJoined(c)
  \/ unregisterConnection(c) \/ unbindUser(c) \/ releaseCount(c)

ReadPump(c) == ReadError(c) \/ ReadPumpReturns(c)

WritePump(c) == WritePumpWakes(c) \/ WritePumpReturns(c)

Next ==
  /\ server # "panicked"
  /\ \/ Start \/ StopCloses \/ StopShutsDown
     \/ \E c \in Conns :
          \/ CheckLimit(c) \/ Handler(c)
          \/ ReadPump(c) \/ WritePump(c) \/ WriteError(c)
          \/ \E u \in Users : BindUser(c, u)
          \/ BindUserInserts(c) \/ AppCloses(c) \/ PeerLeaves(c)

Spec == Init /\ [][Next]_vars

(* A goroutine that is not blocked runs, a BindUser that started gets the   *)
(* lock, and Stop goes on to Shutdown.  The steps that end a callback take  *)
(* strong fairness: a callback may call BindUser any number of times, and   *)
(* it returns.  Nothing makes a request, a peer, the application or Stop    *)
(* happen.                                                                  *)
Fairness ==
  /\ WF_vars(server # "panicked" /\ StopShutsDown)
  /\ \A c \in Conns :
       /\ SF_vars(server # "panicked" /\ Handler(c))
       /\ SF_vars(server # "panicked" /\ ReadPump(c))
       /\ WF_vars(server # "panicked" /\ WritePump(c))
       /\ WF_vars(server # "panicked" /\ BindUserInserts(c))

FairSpec == Spec /\ Fairness

-----------------------------------------------------------------------------
(* Properties.                                                              *)

Labels == {"idle", "upgrade", "auth", "bind", "register", "onConnect", "serve",
           "unregister", "unbind", "release", "gone"}

(* Every variable holds what its Go type and its comment above allow.       *)
TypeOK ==
  /\ connections \in SUBSET Conns
  /\ userConns \in [Users -> SUBSET Conns]
  /\ connCount \in Nat
  /\ server \in {"new", "listening", "shut", "panicked"}
  /\ done \in BOOLEAN
  /\ clock \in Nat
  /\ pc \in [Conns -> Labels]
  /\ rd \in [Conns -> {"off", "read", "closing", "done"}]
  /\ wr \in [Conns -> {"off", "run", "closing", "done"}]
  /\ id \in [Conns -> Nat]
  /\ userID \in [Conns -> Users \cup {None}]
  /\ closed \in [Conns -> BOOLEAN]
  /\ peerGone \in [Conns -> BOOLEAN]
  /\ binding \in [Conns -> Users \cup {None}]
  /\ told \in [Conns -> {"none", "connected", "rejected", "disconnected"}]

(* The connections that passed connCount.Add(1) and not yet connCount.Add(-1). *)
Counted == {c \in Conns : pc[c] \in {"auth", "bind", "register", "onConnect",
                                     "serve", "unregister", "unbind", "release"}}

(* connCount is the number of upgraded connections whose handler has not    *)
(* returned: every path out of HandleWebSocket after the Add(1), the failed *)
(* authentication and the rejecting OnConnect included, undoes it once.     *)
CountExact == TypeOK /\ connCount = Cardinality(Counted)

(* s.connections holds exactly the connections between registerConnection   *)
(* and unregisterConnection: nobody else's registration or departure        *)
(* removes one, and none stays behind.                                      *)
RegistryExact ==
  connections = {c \in Conns : pc[c] \in {"onConnect", "serve", "unregister"}}

(* The phases in which a bound connection is in s.userConns.                *)
Bindable == {"register", "onConnect", "serve", "unregister", "unbind"}

(* SendTo and GetConnection go through s.userConns: each connection listed  *)
(* under a user says it belongs to that user and is not past                *)
(* unregisterConnection, so no map keeps a connection that is gone.         *)
UserIndexSound ==
  \A u \in Users : \A c \in userConns[u] : userID[c] = u /\ pc[c] \in Bindable

(* A connection bound to a user, whether by authentication or by BindUser,  *)
(* is listed under that user until unregisterConnection, whatever other     *)
(* connections of the user do.                                              *)
UserIndexComplete ==
  \A c \in Conns :
    (userID[c] # None /\ binding[c] = None /\ pc[c] \in Bindable)
      => c \in userConns[userID[c]]

(* SendTo reaches the connections of the user, all of them and no others.   *)
UserIndexExact == UserIndexSound /\ UserIndexComplete

(* The handler hears of the end of every connection it accepted before the  *)
(* connection leaves the maps, and of no connection it rejected.            *)
Notified ==
  \A c \in Conns :
    pc[c] \in {"unregister", "unbind", "release", "gone"}
      => /\ told[c] # "connected"
         /\ told[c] # "none" => closed[c]

(* The callbacks of one connection come in order: OnDisconnect only after   *)
(* an OnConnect that accepted, and nothing after a rejection.               *)
CallbackOrder ==
  [][\A c \in Conns : told'[c] # told[c] =>
        <<told[c], told'[c]>> \in {<<"none", "connected">>, <<"none", "rejected">>,
                                  <<"connected", "disconnected">>}]_vars

(* The handler of a registered connection whose peer is gone, or that       *)
(* anybody closed, reaches its end: neither pump waits for the other.       *)
DeadConnectionEnds ==
  \A c \in Conns : (pc[c] # "idle" /\ (peerGone[c] \/ closed[c])) ~> pc[c] = "gone"

(* After Stop every connection is closed and its handler returns, also the  *)
(* ones whose request was being upgraded or authenticated when Stop ran.    *)
StopDrains ==
  \A c \in Conns : (done /\ pc[c] # "idle") ~> pc[c] = "gone"

(* The connections whose removal has begun, and those that s.connections    *)
(* and s.userConns have been cleared of.                                    *)
Leaving == {c \in Conns : pc[c] \in {"unbind", "release", "gone"}}
Left == {c \in Conns : pc[c] \in {"release", "gone"}}

Reg == INSTANCE Registry WITH
  listed <- connections, index <- userConns, left <- Leaving, gone <- Left

(* The maps of the server, changed by the handlers of all connections, by   *)
(* BindUser and by the failures on the way, behave as Registry: no step of  *)
(* one connection moves another, and none that leaves comes back.           *)
ImplementsRegistry == Reg!Spec

-----------------------------------------------------------------------------
(* What the repository says and the code does not do: TLC refutes each of   *)
(* these in the configuration that README.md gives.                         *)

(* What unregisterConnection removes is gone for good: no user keeps a      *)
(* connection whose handler went past it.                                   *)
NothingLeftBehind ==
  \A u \in Users : \A c \in userConns[u] : pc[c] \notin {"release", "gone"}

(* The limit: never more connections than conf.MaxConnections.              *)
LimitRespected == MaxConnections > 0 => connCount <= MaxConnections

(* Stop returns without a panic.                                            *)
NeverPanics == server # "panicked"
=============================================================================
