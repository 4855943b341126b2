------------------------------ MODULE WtServer ------------------------------
(***************************************************************************)
(* The WebTransport server of wt/server.go: the handler of a session, its   *)
(* writePump and its handleStream, the maps, the counter, the WaitGroup,    *)
(* and Stop.                                                                *)
(*                                                                          *)
(* An element of Conns is one request and the session it becomes.  IDs are  *)
(* taken to differ (WsServer shows what happens when they do not), so a map *)
(* is a set of connections.  A client opens at most one stream per session: *)
(* a second one differs only in that SetResponseStream ignores it.          *)
(***************************************************************************)
EXTENDS Integers, FiniteSets

CONSTANTS
  Conns,            \* the requests the server is sent
  Users,            \* the user IDs other than ""
  None,             \* the user ID "", and "no BindUser in progress"
  MaxConnections,   \* conf.MaxConnections, 0 for no limit
  AuthEnabled,      \* conf.Auth.Enabled
  BindInOnMessage,  \* the application's OnMessage calls BindUser
  Rebinds,          \* the application binds a session to a second user
  ReadLocks         \* the locks that the application's broadcasts take

ASSUME WtServerAssumption ==
  /\ IsFiniteSet(Conns)
  /\ None \notin Users
  /\ MaxConnections \in Nat
  /\ {AuthEnabled, BindInOnMessage, Rebinds} \subseteq BOOLEAN
  /\ ReadLocks \subseteq {"connectionsMu", "userConnsMu"}

VARIABLES
  connections,  \* s.connections
  userConns,    \* s.userConns
  connCount,    \* s.connCount
  wg,           \* the counter of s.wg
  done,         \* s.done is closed
  stop,         \* how far Stop is
  reading,      \* the locks that Broadcast and BroadcastTo hold for reading
  pc,           \* where the HTTP handler of a request is
  wr,           \* where its writePump is
  stream,       \* where its handleStream is
  userID,       \* conn.userID
  closed,       \* conn.done is closed and the session with it
  lost,         \* the session ended otherwise: the peer, or wtServer.Close
  binding,      \* the user of a BindUser between SetUserID and its lock
  ready,        \* conn.streamReady is closed
  told          \* the last event the StatefulHandler was told of

registry == <<connections, userConns, connCount>>
service == <<done, stop, reading>>
conn == <<userID, closed, lost, binding, ready, told>>
vars == <<registry, wg, service, pc, wr, stream, conn>>

Goto(c, label) == pc' = [pc EXCEPT ![c] = label]

(* AcceptStream, Read and Write on the session fail.                        *)
Dead(c) == closed[c] \/ lost[c]

(* Lock of the RWMutex m gets through: no walk holds it for reading.        *)
Locks(m) == m \notin reading

-----------------------------------------------------------------------------
(* Mistakes in this code that the properties below exclude.                 *)

(* The loop goes to AcceptStream without a look at s.done.                  *)
LoopAcceptsBlind(c) ==
  /\ pc[c] = "loop"
  /\ ~closed[c]
  /\ Goto(c, "accept")
  /\ UNCHANGED <<registry, wg, service, wr, stream, conn>>

(* The rejected connection is not unregistered.                             *)
OnConnectFailsUndeferred(c) ==
  /\ pc[c] = "onConnect"
  /\ told' = [told EXCEPT ![c] = "rejected"]
  /\ closed' = [closed EXCEPT ![c] = TRUE]
  /\ Goto(c, "gone")
  /\ UNCHANGED <<registry, wg, service, wr, stream, userID, lost, binding, ready>>

(* unregisterConnection forgets s.userConns.                                *)
unbindUserSkipped(c) ==
  /\ pc[c] = "unbind"
  /\ Goto(c, "release")
  /\ UNCHANGED <<registry, wg, service, wr, stream, conn>>

(* writePump returns without wg.Done.                                       *)
WritePumpReturnsUncounted(c) ==
  /\ wr[c] \in {"wait", "run"}
  /\ done \/ closed[c]
  /\ wr' = [wr EXCEPT ![c] = "done"]
  /\ UNCHANGED <<registry, wg, service, pc, stream, conn>>

(* writePump waits for the stream only.                                     *)
WritePumpDeaf(c) ==
  /\ wr[c] = "run"
  /\ done \/ closed[c]
  /\ wr' = [wr EXCEPT ![c] = "done"]
  /\ wg' = wg - 1
  /\ UNCHANGED <<registry, service, pc, stream, conn>>

-----------------------------------------------------------------------------
(* handleWebTransport, up to the callback.                                  *)

AtLimit == MaxConnections > 0 /\ connCount >= MaxConnections

CheckLimit(c) ==
  /\ pc[c] = "idle"
  /\ stop # "over"
  /\ Goto(c, IF AtLimit THEN "gone" ELSE "upgrade")
  /\ UNCHANGED <<registry, wg, service, wr, stream, conn>>

UpgradeFails(c) ==
  /\ pc[c] = "upgrade"
  /\ Goto(c, "gone")
  /\ UNCHANGED <<registry, wg, service, wr, stream, conn>>

Upgrade(c) ==
  /\ pc[c] = "upgrade"
  /\ stop # "over"
  /\ Goto(c, IF AuthEnabled THEN "auth" ELSE "count")
  /\ UNCHANGED <<registry, wg, service, wr, stream, conn>>

(* The session is closed and the Connection dropped.                        *)
AuthFails(c) ==
  /\ pc[c] = "auth"
  /\ lost' = [lost EXCEPT ![c] = TRUE]
  /\ Goto(c, "gone")
  /\ UNCHANGED <<registry, wg, service, wr, stream, userID, closed, binding, ready, told>>

Authenticate(c) ==
  /\ pc[c] = "auth"
  /\ \E u \in Users \cup {None} :
       /\ userID' = [userID EXCEPT ![c] = u]
       /\ Goto(c, IF u = None THEN "count" ELSE "bind")
  /\ UNCHANGED <<registry, wg, service, wr, stream, closed, lost, binding, ready, told>>

BindAuthenticated(c) ==
  /\ pc[c] = "bind"
  /\ Locks("userConnsMu")
  /\ userConns' = [userConns EXCEPT ![userID[c]] = @ \cup {c}]
  /\ Goto(c, "count")
  /\ UNCHANGED <<connections, connCount, wg, service, wr, stream, conn>>

Count(c) ==
  /\ pc[c] = "count"
  /\ connCount' = connCount + 1
  /\ Goto(c, "register")
  /\ UNCHANGED <<connections, userConns, wg, service, wr, stream, conn>>

(* registerConnection: the map under its lock, then the counter again.      *)
registerConnection(c) ==
  /\ pc[c] = "register"
  /\ Locks("connectionsMu")
  /\ connections' = connections \cup {c}
  /\ Goto(c, "recount")
  /\ UNCHANGED <<userConns, connCount, wg, service, wr, stream, conn>>

CountRegistered(c) ==
  /\ pc[c] = "recount"
  /\ connCount' = connCount + 1
  /\ Goto(c, "onConnect")
  /\ UNCHANGED <<connections, userConns, wg, service, wr, stream, conn>>

OnConnectFails(c) ==
  /\ pc[c] = "onConnect"
  /\ binding[c] = None
  /\ told' = [told EXCEPT ![c] = "rejected"]
  /\ closed' = [closed EXCEPT ![c] = TRUE]
  /\ Goto(c, "unregister")
  /\ UNCHANGED <<registry, wg, service, wr, stream, userID, lost, binding, ready>>

(* OnConnect accepts, wg.Add for the handler and for the writePump it       *)
(* starts.                                                                  *)
OnConnect(c) ==
  /\ pc[c] = "onConnect"
  /\ binding[c] = None
  /\ told' = [told EXCEPT ![c] = "connected"]
  /\ wg' = wg + 2
  /\ wr' = [wr EXCEPT ![c] = "wait"]
  /\ Goto(c, "loop")
  /\ UNCHANGED <<registry, service, stream, userID, closed, lost, binding, ready>>

-----------------------------------------------------------------------------
(* The read loop: a look at the done channels, then AcceptStream, which     *)
(* only the session's end interrupts.                                       *)

(* The deferred wg.Done runs before the deferred unregisterConnection.      *)
HandlerLeaves(c) ==
  /\ wg' = wg - 1
  /\ Goto(c, "unregister")
  /\ UNCHANGED <<registry, service, wr, stream, conn>>

LoopSeesDone(c) ==
  /\ pc[c] = "loop"
  /\ done \/ closed[c]
  /\ HandlerLeaves(c)

LoopAccepts(c) ==
  /\ pc[c] = "loop"
  /\ ~done /\ ~closed[c]
  /\ Goto(c, "accept")
  /\ UNCHANGED <<registry, wg, service, wr, stream, conn>>

AcceptFails(c) ==
  /\ pc[c] = "accept"
  /\ Dead(c)
  /\ HandlerLeaves(c)

AcceptStream(c) ==
  /\ pc[c] = "accept"
  /\ stream[c] = "none"
  /\ stream' = [stream EXCEPT ![c] = "spawned"]
  /\ wg' = wg + 1
  /\ Goto(c, "loop")
  /\ UNCHANGED <<registry, service, wr, conn>>

unregisterConnection(c) ==
  /\ pc[c] = "unregister"
  /\ Locks("connectionsMu")
  /\ connections' = connections \ {c}
  /\ Goto(c, "unbind")
  /\ UNCHANGED <<userConns, connCount, wg, service, wr, stream, conn>>

unbindUser(c) ==
  /\ pc[c] = "unbind"
  /\ userID[c] = None \/ Locks("userConnsMu")
  /\ userConns' = [u \in Users |-> IF u = userID[c] THEN userConns[u] \ {c} ELSE userConns[u]]
  /\ Goto(c, "release")
  /\ UNCHANGED <<connections, connCount, wg, service, wr, stream, conn>>

releaseCount(c) ==
  /\ pc[c] = "release"
  /\ connCount' = connCount - 1
  /\ Goto(c, "gone")
  /\ UNCHANGED <<connections, userConns, wg, service, wr, stream, conn>>

-----------------------------------------------------------------------------
(* handleStream and writePump.                                              *)

SetResponseStream(c) ==
  /\ stream[c] = "spawned"
  /\ ready' = [ready EXCEPT ![c] = TRUE]
  /\ stream' = [stream EXCEPT ![c] = "check"]
  /\ UNCHANGED <<registry, wg, service, pc, wr, userID, closed, lost, binding, told>>

StreamReturns(c) ==
  /\ stream' = [stream EXCEPT ![c] = "done"]
  /\ wg' = wg - 1
  /\ UNCHANGED <<registry, service, pc, wr, conn>>

StreamSeesDone(c) ==
  /\ stream[c] = "check"
  /\ done \/ closed[c]
  /\ StreamReturns(c)

StreamReads(c) ==
  /\ stream[c] = "check"
  /\ ~done /\ ~closed[c]
  /\ stream' = [stream EXCEPT ![c] = "read"]
  /\ UNCHANGED <<registry, wg, service, pc, wr, conn>>

OnMessage(c) ==
  /\ stream[c] = "read"
  /\ ~Dead(c)
  /\ stream' = [stream EXCEPT ![c] = "message"]
  /\ UNCHANGED <<registry, wg, service, pc, wr, conn>>

OnMessageReturns(c) ==
  /\ stream[c] = "message"
  /\ binding[c] = None
  /\ stream' = [stream EXCEPT ![c] = "check"]
  /\ UNCHANGED <<registry, wg, service, pc, wr, conn>>

ReadFails(c) ==
  /\ stream[c] = "read"
  /\ Dead(c)
  /\ StreamReturns(c)

(* IdleTimeout passed, or the client ended the stream.                      *)
ReadEnds(c) ==
  /\ stream[c] = "read"
  /\ StreamReturns(c)

StreamReady(c) ==
  /\ wr[c] = "wait"
  /\ ready[c]
  /\ wr' = [wr EXCEPT ![c] = "run"]
  /\ UNCHANGED <<registry, wg, service, pc, stream, conn>>

WritePumpSeesDone(c) ==
  /\ wr[c] \in {"wait", "run"}
  /\ done \/ closed[c]
  /\ wr' = [wr EXCEPT ![c] = "done"]
  /\ wg' = wg - 1
  /\ UNCHANGED <<registry, service, pc, stream, conn>>

(* writePump returns; nothing closes the connection.                        *)
WriteFails(c) ==
  /\ wr[c] = "run"
  /\ wr' = [wr EXCEPT ![c] = "done"]
  /\ wg' = wg - 1
  /\ UNCHANGED <<registry, service, pc, stream, conn>>

-----------------------------------------------------------------------------
(* The application and the peer.  Broadcast and BroadcastTo keep their lock *)
(* through every Send, for as long as Broadcast.tla says.                   *)

BroadcastLocks(m) ==
  /\ m \in ReadLocks \ reading
  /\ reading' = reading \cup {m}
  /\ UNCHANGED <<registry, wg, done, stop, pc, wr, stream, conn>>

BroadcastReturns(m) ==
  /\ m \in reading
  /\ reading' = reading \ {m}
  /\ UNCHANGED <<registry, wg, done, stop, pc, wr, stream, conn>>

BindUser(c, u) ==
  /\ binding[c] = None
  /\ pc[c] = "onConnect" \/ (BindInOnMessage /\ stream[c] = "message")
  /\ Rebinds \/ userID[c] \in {None, u}
  /\ userID' = [userID EXCEPT ![c] = u]
  /\ binding' = [binding EXCEPT ![c] = u]
  /\ UNCHANGED <<registry, wg, service, pc, wr, stream, closed, lost, ready, told>>

BindUserInserts(c) ==
  /\ binding[c] # None
  /\ Locks("userConnsMu")
  /\ userConns' = [userConns EXCEPT ![binding[c]] = @ \cup {c}]
  /\ binding' = [binding EXCEPT ![c] = None]
  /\ UNCHANGED <<connections, connCount, wg, service, pc, wr, stream,
                 userID, closed, lost, ready, told>>

(* The connection was given to the authenticator, to OnConnect, or is       *)
(* found in a map.                                                          *)
AppCloses(c) ==
  /\ \/ c \in connections \/ told[c] # "none"
     \/ AuthEnabled /\ pc[c] \in {"auth", "bind", "count", "register"}
  /\ closed' = [closed EXCEPT ![c] = TRUE]
  /\ UNCHANGED <<registry, wg, service, pc, wr, stream, userID, lost, binding, ready, told>>

PeerLeaves(c) ==
  /\ pc[c] \notin {"idle", "upgrade"}
  /\ lost' = [lost EXCEPT ![c] = TRUE]
  /\ UNCHANGED <<registry, wg, service, pc, wr, stream, userID, closed, binding, ready, told>>

-----------------------------------------------------------------------------
(* Stop.                                                                    *)

StopSignals ==
  /\ stop = "no"
  /\ done' = TRUE
  /\ stop' = "signal"
  /\ UNCHANGED <<registry, wg, reading, pc, wr, stream, conn>>

StopClosesConnections ==
  /\ stop = "signal"
  /\ Locks("connectionsMu")
  /\ closed' = [c \in Conns |-> closed[c] \/ c \in connections]
  /\ stop' = "wait"
  /\ UNCHANGED <<registry, wg, done, reading, pc, wr, stream, userID, lost, binding, ready, told>>

(* s.wg.Wait returned, or five seconds passed; wtServer.Close ends every    *)
(* session that is left.                                                    *)
StopShutsDown ==
  /\ stop = "wait"
  /\ lost' = [c \in Conns |-> pc[c] \notin {"idle", "upgrade"} \/ lost[c]]
  /\ stop' = "over"
  /\ UNCHANGED <<registry, wg, done, reading, pc, wr, stream, userID, closed, binding, ready, told>>

-----------------------------------------------------------------------------
Init ==
  /\ connections = {}
  /\ userConns = [u \in Users |-> {}]
  /\ connCount = 0
  /\ wg = 0
  /\ done = FALSE
  /\ stop = "no"
  /\ reading = {}
  /\ pc = [c \in Conns |-> "idle"]
  /\ wr = [c \in Conns |-> "off"]
  /\ stream = [c \in Conns |-> "none"]
  /\ userID = [c \in Conns |-> None]
  /\ closed = [c \in Conns |-> FALSE]
  /\ lost = [c \in Conns |-> FALSE]
  /\ binding = [c \in Conns |-> None]
  /\ ready = [c \in Conns |-> FALSE]
  /\ told = [c \in Conns |-> "none"]

Handler(c) ==
  \/ UpgradeFails(c) \/ Upgrade(c) \/ AuthFails(c) \/ Authenticate(c) \/ BindAuthenticated(c)
  \/ Count(c) \/ registerConnection(c) \/ CountRegistered(c)
  \/ OnConnectFails(c) \/ OnConnect(c)
  \/ LoopSeesDone(c) \/ LoopAccepts(c) \/ AcceptFails(c)
  \/ unregisterConnection(c) \/ unbindUser(c) \/ releaseCount(c)

Stream(c) ==
  \/ SetResponseStream(c) \/ StreamSeesDone(c) \/ StreamReads(c)
  \/ OnMessageReturns(c) \/ ReadFails(c)

Stopping == StopClosesConnections \/ StopShutsDown

Next ==
  \/ StopSignals \/ Stopping
  \/ \E m \in ReadLocks : BroadcastLocks(m) \/ BroadcastReturns(m)
  \/ \E c \in Conns :
       \/ CheckLimit(c) \/ Handler(c) \/ AcceptStream(c)
       \/ Stream(c) \/ OnMessage(c) \/ ReadEnds(c)
       \/ StreamReady(c) \/ WritePumpSeesDone(c) \/ WriteFails(c)
       \/ \E u \in Users : BindUser(c, u)
       \/ BindUserInserts(c) \/ AppCloses(c) \/ PeerLeaves(c)

Spec == Init /\ [][Next]_vars

(* A goroutine that is not blocked runs, and Stop goes on.  Strong fairness *)
(* where a lock may be taken and freed any number of times (sync.RWMutex    *)
(* lets a waiting writer go before new readers), and where a callback may   *)
(* call BindUser any number of times and then returns.  Nothing makes a     *)
(* request, a peer, a message or the application happen, or a broadcast     *)
(* return.                                                                  *)
Fairness ==
  /\ SF_vars(Stopping)
  /\ \A c \in Conns :
       /\ SF_vars(Handler(c))
       /\ SF_vars(Stream(c))
       /\ WF_vars(WritePumpSeesDone(c))
       /\ SF_vars(BindUserInserts(c))

FairSpec == Spec /\ Fairness

-----------------------------------------------------------------------------
(* Properties.                                                              *)

Labels == {"idle", "upgrade", "auth", "bind", "count", "register", "recount", "onConnect",
           "loop", "accept", "unregister", "unbind", "release", "gone"}

(* Every variable holds what its Go type and its comment above allow; a     *)
(* negative s.wg would panic.                                               *)
TypeOK ==
  /\ connections \in SUBSET Conns
  /\ userConns \in [Users -> SUBSET Conns]
  /\ connCount \in Int
  /\ wg \in Nat
  /\ done \in BOOLEAN
  /\ stop \in {"no", "signal", "wait", "over"}
  /\ reading \in SUBSET ReadLocks
  /\ pc \in [Conns -> Labels]
  /\ wr \in [Conns -> {"off", "wait", "run", "done"}]
  /\ stream \in [Conns -> {"none", "spawned", "check", "read", "message", "done"}]
  /\ userID \in [Conns -> Users \cup {None}]
  /\ closed \in [Conns -> BOOLEAN]
  /\ lost \in [Conns -> BOOLEAN]
  /\ binding \in [Conns -> Users \cup {None}]
  /\ ready \in [Conns -> BOOLEAN]
  /\ told \in [Conns -> {"none", "connected", "rejected"}]

Registered == {"recount", "onConnect", "loop", "accept", "unregister"}

(* s.connections holds exactly the connections between registerConnection   *)
(* and unregisterConnection, on every path out of the handler.              *)
RegistryExact == connections = {c \in Conns : pc[c] \in Registered}

(* No user keeps a connection whose handler went past unregisterConnection. *)
NothingLeftBehind ==
  \A u \in Users : \A c \in userConns[u] : pc[c] \notin {"release", "gone"}

(* The sessions whose removal has begun, and those that the maps have been  *)
(* cleared of.                                                              *)
Leaving == {c \in Conns : pc[c] \in {"unbind", "release", "gone"}}
Left == {c \in Conns : pc[c] \in {"release", "gone"}}

Reg == INSTANCE Registry WITH
  listed <- connections, index <- userConns, left <- Leaving, gone <- Left

(* The maps of the server behave as Registry, Stop included, which closes   *)
(* sessions and leaves it to their handlers to remove them.                 *)
ImplementsRegistry == Reg!Spec

(* s.wg counts the handlers in their loop, the writePumps and the           *)
(* handleStreams that have not returned: Stop waits for these, and wg.Done  *)
(* is called once for each.                                                 *)
WaitGroupExact ==
  /\ TypeOK
  /\ wg = Cardinality({c \in Conns : pc[c] \in {"loop", "accept"}})
            + Cardinality({c \in Conns : wr[c] \in {"wait", "run"}})
            + Cardinality({c \in Conns : stream[c] \in {"spawned", "check", "read", "message"}})

(* Once Stop has gone through the connections, no handler is left inside    *)
(* AcceptStream on a session that nobody closed: a handler that saw s.done  *)
(* open is in the map when Stop gets the lock, and one that registers later *)
(* sees s.done closed.                                                      *)
NoAcceptorLeft ==
  \A c \in Conns : (stop \in {"wait", "over"} /\ pc[c] = "accept") => Dead(c)

(* After Stop every handler, writePump and handleStream returns, unless a   *)
(* Broadcast or a BroadcastTo keeps one of the two locks for ever, which    *)
(* they can (Broadcast!StopReturns): Stop itself waits for connectionsMu,   *)
(* and a handler for both.                                                  *)
StopDrains ==
  (\A m \in ReadLocks : []<>(m \notin reading)) =>
    \A c \in Conns :
      (done /\ pc[c] # "idle")
        ~> /\ pc[c] = "gone"
           /\ wr[c] \in {"off", "done"}
           /\ stream[c] \in {"none", "done"}

-----------------------------------------------------------------------------
(* What the repository says and the code does not do: TLC refutes each of   *)
(* these in the configuration that README.md gives.                         *)

(* ConnectionCount is the number of connections being served.               *)
CountExact ==
  (\A c \in Conns : pc[c] \in {"idle", "onConnect", "loop", "accept", "gone"})
    => connCount = Cardinality(connections)

(* The handler is told of the end of a connection it accepted.              *)
DisconnectTold == \A c \in Conns : pc[c] = "gone" => told[c] # "connected"

(* Done() is closed when the connection has ended.                          *)
DoneAfterEnd == \A c \in Conns : (pc[c] = "gone" /\ told[c] = "connected") => closed[c]

(* Stop closes all connections: none that still has a goroutine reading     *)
(* stays open.                                                              *)
StopClosesAll ==
  \A c \in Conns : (stop = "wait" /\ stream[c] = "read") => Dead(c)
=============================================================================
