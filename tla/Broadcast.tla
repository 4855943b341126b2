------------------------------ MODULE Broadcast ------------------------------
(***************************************************************************)
(* Who waits for whom when messages are sent to many connections.           *)
(* Broadcast holds connectionsMu.RLock while it sends; a Send waits while   *)
(* the queue of its connection is full; writePump empties the queue;        *)
(* registering and unregistering wait for connectionsMu.Lock; and a Lock    *)
(* that waits keeps new readers out, as sync.RWMutex does.  SendTo copies   *)
(* the connections of a user first and sends without a lock.                *)
(*                                                                          *)
(* ws/server.go and wt/server.go have the same code for the lock, Broadcast *)
(* and SendTo.  They differ in when writePump starts, in who closes the     *)
(* connection, and in Stop: setting says which of the two is meant.         *)
(* BroadcastTo does with userConnsMu what Broadcast does with connectionsMu.*)
(***************************************************************************)
EXTENDS Naturals, FiniteSets

CONSTANTS
  Conns,               \* the connections
  Callers,             \* goroutines of the application that send
  Closer,              \* the goroutine that runs Stop
  None,
  Cap,                 \* the capacity of conn.send, 256
  Settings             \* which server it is and who uses it: see setting

Parameters ==
  /\ Cap \in Nat \ {0}
  /\ Settings \subseteq [transport : {"ws", "wt"}, conns : SUBSET Conns,
                        callers : SUBSET Callers, greets : BOOLEAN]
  /\ Callers \cap Conns = {}
  /\ Closer \notin Conns /\ None \notin Conns \cup Callers \cup {Closer}

ASSUME BroadcastAssumption == Parameters

VARIABLES
  setting,      \* never changes: the server's transport, the connections
                \* that come, the callers, and whether the application's
                \* OnConnect calls Broadcast
  connections,  \* s.connections
  readers,      \* who holds connectionsMu.RLock
  writer,       \* who has called connectionsMu.Lock and waits for readers
  pc,           \* where the handler of a connection is
  wr,           \* where its writePump is
  queued,       \* len(conn.send)
  closed,       \* conn.done is closed
  lost,         \* the peer is gone
  call,         \* where a call of Broadcast or SendTo is
  todo,         \* the connections it has not come to
  at,           \* the connection whose Send it is in
  stop          \* where Stop is

mutex == <<readers, writer>>
peers == <<closed, lost>>
sends == <<call, todo, at>>
vars == <<setting, connections, mutex, pc, wr, queued, peers, sends, stop>>

Goroutines == Callers \cup Conns

-----------------------------------------------------------------------------
(* Mistakes in this code that the properties below exclude.                 *)

(* unregisterConnection deletes without the lock.                           *)
unregisterUnlocked(c) ==
  /\ pc[c] = "unregister"
  /\ connections' = connections \ {c}
  /\ pc' = [pc EXCEPT ![c] = "gone"]
  /\ UNCHANGED <<setting, mutex, wr, queued, peers, sends, stop>>

(* The write error is logged and writePump returns without Close.           *)
WriteFailsOpen(c) ==
  /\ wr[c] = "run" /\ queued[c] > 0
  /\ queued' = [queued EXCEPT ![c] = @ - 1]
  /\ wr' = [wr EXCEPT ![c] = "done"]
  /\ UNCHANGED <<setting, connections, mutex, pc, peers, sends, stop>>

(* Broadcast returns without RUnlock.                                       *)
CallKeepsLock(b) ==
  /\ call[b] = "send" /\ at[b] = None /\ todo[b] = {}
  /\ call' = [call EXCEPT ![b] = "idle"]
  /\ UNCHANGED <<setting, connections, mutex, pc, wr, queued, peers, todo, at, stop>>

(* Send waits for room only, not for conn.done.                             *)
SendClosedNever(b) == b \in {} /\ UNCHANGED vars

-----------------------------------------------------------------------------
(* sync.RWMutex.                                                            *)

RLock(b) == writer = None /\ readers' = readers \cup {b} /\ UNCHANGED writer

Lock(a) == writer = None /\ writer' = a /\ UNCHANGED readers

Locked(a) == writer = a /\ readers = {}

Unlock == writer' = None /\ UNCHANGED readers

-----------------------------------------------------------------------------
(* The handler of a connection.                                             *)

Arrives(c) ==
  /\ c \in setting.conns
  /\ pc[c] = "idle"
  /\ pc' = [pc EXCEPT ![c] = "register"]
  /\ UNCHANGED <<setting, connections, mutex, wr, queued, peers, sends, stop>>

HandlerLocks(c) ==
  /\ pc[c] \in {"register", "unregister"}
  /\ Lock(c)
  /\ UNCHANGED <<setting, connections, pc, wr, queued, peers, sends, stop>>

registerConnection(c) ==
  /\ pc[c] = "register"
  /\ Locked(c)
  /\ connections' = connections \cup {c}
  /\ Unlock
  /\ pc' = [pc EXCEPT ![c] = "onConnect"]
  /\ call' = [call EXCEPT ![c] = IF setting.greets THEN "rlock" ELSE "idle"]
  /\ UNCHANGED <<setting, wr, queued, peers, todo, at, stop>>

OnConnectReturns(c) ==
  /\ pc[c] = "onConnect" /\ call[c] = "idle"
  /\ pc' = [pc EXCEPT ![c] = "serve"]
  /\ wr' = [wr EXCEPT ![c] = IF setting.transport = "ws" THEN "run" ELSE "wait"]
  /\ UNCHANGED <<setting, connections, mutex, queued, peers, sends, stop>>

OnConnectFails(c) ==
  /\ pc[c] = "onConnect" /\ call[c] = "idle"
  /\ closed' = [closed EXCEPT ![c] = TRUE]
  /\ pc' = [pc EXCEPT ![c] = "unregister"]
  /\ UNCHANGED <<setting, connections, mutex, wr, queued, lost, sends, stop>>

(* ws: readPump fails and its deferred Close runs.                          *)
ReadFails(c) ==
  /\ setting.transport = "ws"
  /\ pc[c] = "serve" /\ lost[c] /\ ~closed[c]
  /\ closed' = [closed EXCEPT ![c] = TRUE]
  /\ UNCHANGED <<setting, connections, mutex, pc, wr, queued, lost, sends, stop>>

(* ws: both pumps have returned.  wt: AcceptStream fails; nothing closes.   *)
HandlerLeaves(c) ==
  /\ pc[c] = "serve"
  /\ \/ setting.transport = "ws" /\ wr[c] = "done" /\ closed[c]
     \/ setting.transport = "wt" /\ (closed[c] \/ lost[c])
  /\ pc' = [pc EXCEPT ![c] = "unregister"]
  /\ UNCHANGED <<setting, connections, mutex, wr, queued, peers, sends, stop>>

(* wt: the handler comes to the top of its loop, and not to AcceptStream.   *)
LoopSeesDone(c) ==
  /\ setting.transport = "wt"
  /\ pc[c] = "serve" /\ stop # "no"
  /\ pc' = [pc EXCEPT ![c] = "unregister"]
  /\ UNCHANGED <<setting, connections, mutex, wr, queued, peers, sends, stop>>

unregisterConnection(c) ==
  /\ pc[c] = "unregister"
  /\ Locked(c)
  /\ connections' = connections \ {c}
  /\ Unlock
  /\ pc' = [pc EXCEPT ![c] = "gone"]
  /\ UNCHANGED <<setting, wr, queued, peers, sends, stop>>

-----------------------------------------------------------------------------
(* writePump.                                                               *)

(* wt: the client opened its stream.                                        *)
StreamReady(c) ==
  /\ wr[c] = "wait"
  /\ wr' = [wr EXCEPT ![c] = "run"]
  /\ UNCHANGED <<setting, connections, mutex, pc, queued, peers, sends, stop>>

WriteSucceeds(c) ==
  /\ wr[c] = "run" /\ queued[c] > 0
  /\ queued' = [queued EXCEPT ![c] = @ - 1]
  /\ UNCHANGED <<setting, connections, mutex, pc, wr, peers, sends, stop>>

(* In ws the deferred Close of writePump runs; wt has none.                 *)
PumpReturns(c) ==
  /\ wr' = [wr EXCEPT ![c] = "done"]
  /\ closed' = [closed EXCEPT ![c] = @ \/ setting.transport = "ws"]
  /\ UNCHANGED <<setting, connections, mutex, pc, lost, sends, stop>>

WriteFails(c) ==
  /\ wr[c] = "run" /\ queued[c] > 0
  /\ queued' = [queued EXCEPT ![c] = @ - 1]
  /\ PumpReturns(c)

PumpSeesDone(c) ==
  /\ wr[c] \in {"wait", "run"}
  /\ closed[c] \/ stop # "no"
  /\ PumpReturns(c)
  /\ UNCHANGED queued

-----------------------------------------------------------------------------
(* Broadcast and SendTo.  The context of their Send is never cancelled.     *)

Broadcast(b) ==
  /\ b \in setting.callers /\ call[b] = "idle"
  /\ call' = [call EXCEPT ![b] = "rlock"]
  /\ UNCHANGED <<setting, connections, mutex, pc, wr, queued, peers, todo, at, stop>>

BroadcastLocks(b) ==
  /\ call[b] = "rlock"
  /\ RLock(b)
  /\ call' = [call EXCEPT ![b] = "send"]
  /\ todo' = [todo EXCEPT ![b] = connections]
  /\ UNCHANGED <<setting, connections, pc, wr, queued, peers, at, stop>>

(* The connections of a user, copied under userConnsMu.  The authenticator  *)
(* lists a connection there before it is registered, and it is taken off    *)
(* the list after it was unregistered.                                      *)
SendTo(b) ==
  /\ b \in setting.callers /\ call[b] = "idle"
  /\ \E conns \in SUBSET {c \in Conns : pc[c] # "idle"} : todo' = [todo EXCEPT ![b] = conns]
  /\ call' = [call EXCEPT ![b] = "send"]
  /\ UNCHANGED <<setting, connections, mutex, pc, wr, queued, peers, at, stop>>

CallTurns(b) ==
  /\ call[b] = "send" /\ at[b] = None
  /\ \E c \in todo[b] :
       /\ at' = [at EXCEPT ![b] = c]
       /\ todo' = [todo EXCEPT ![b] = @ \ {c}]
  /\ UNCHANGED <<setting, connections, mutex, pc, wr, queued, peers, call, stop>>

SendAccepted(b) ==
  /\ at[b] # None
  /\ queued[at[b]] < Cap
  /\ queued' = [queued EXCEPT ![at[b]] = @ + 1]
  /\ at' = [at EXCEPT ![b] = None]
  /\ UNCHANGED <<setting, connections, mutex, pc, wr, peers, call, todo, stop>>

SendClosed(b) ==
  /\ at[b] # None
  /\ closed[at[b]]
  /\ at' = [at EXCEPT ![b] = None]
  /\ UNCHANGED <<setting, connections, mutex, pc, wr, queued, peers, call, todo, stop>>

CallReturns(b) ==
  /\ call[b] = "send" /\ at[b] = None /\ todo[b] = {}
  /\ call' = [call EXCEPT ![b] = "idle"]
  /\ readers' = readers \ {b}
  /\ UNCHANGED <<setting, connections, writer, pc, wr, queued, peers, todo, at, stop>>

-----------------------------------------------------------------------------
(* The peer, the application, and Stop.                                     *)

PeerLeaves(c) ==
  /\ pc[c] # "idle" /\ ~lost[c]
  /\ lost' = [lost EXCEPT ![c] = TRUE]
  /\ UNCHANGED <<setting, connections, mutex, pc, wr, queued, closed, sends, stop>>

AppCloses(c) ==
  /\ c \in connections /\ ~closed[c]
  /\ closed' = [closed EXCEPT ![c] = TRUE]
  /\ UNCHANGED <<setting, connections, mutex, pc, wr, queued, lost, sends, stop>>

(* s.done is closed.  In ws what is left of Stop takes at most 5 seconds.   *)
Stop ==
  /\ stop = "no"
  /\ stop' = IF setting.transport = "wt" THEN "lock" ELSE "over"
  /\ UNCHANGED <<setting, connections, mutex, pc, wr, queued, peers, sends>>

StopLocks ==
  /\ stop = "lock"
  /\ Lock(Closer)
  /\ UNCHANGED <<setting, connections, pc, wr, queued, peers, sends, stop>>

StopCloses ==
  /\ stop = "lock"
  /\ Locked(Closer)
  /\ closed' = [c \in Conns |-> closed[c] \/ c \in connections]
  /\ Unlock
  /\ stop' = "over"
  /\ UNCHANGED <<setting, connections, pc, wr, queued, lost, sends>>

-----------------------------------------------------------------------------
Init ==
  /\ setting \in Settings
  /\ connections = {}
  /\ readers = {} /\ writer = None
  /\ pc = [c \in Conns |-> "idle"]
  /\ wr = [c \in Conns |-> "off"]
  /\ queued = [c \in Conns |-> 0]
  /\ closed = [c \in Conns |-> FALSE]
  /\ lost = [c \in Conns |-> FALSE]
  /\ call = [b \in Goroutines |-> "idle"]
  /\ todo = [b \in Goroutines |-> {}]
  /\ at = [b \in Goroutines |-> None]
  /\ stop = "no"

Call(b) ==
  BroadcastLocks(b) \/ CallTurns(b) \/ SendAccepted(b) \/ SendClosed(b) \/ CallReturns(b)

Handler(c) ==
  \/ HandlerLocks(c) \/ registerConnection(c)
  \/ Call(c) \/ OnConnectReturns(c) \/ OnConnectFails(c)
  \/ HandlerLeaves(c) \/ unregisterConnection(c)

Pump(c) == WriteSucceeds(c) \/ WriteFails(c) \/ PumpSeesDone(c)

Stopping == StopLocks \/ StopCloses

Next ==
  \/ \E c \in Conns :
       \/ Arrives(c) \/ Handler(c) \/ ReadFails(c) \/ LoopSeesDone(c)
       \/ StreamReady(c) \/ Pump(c)
       \/ PeerLeaves(c) \/ AppCloses(c)
  \/ \E b \in Callers : Broadcast(b) \/ SendTo(b) \/ Call(b)
  \/ Stop \/ Stopping

Spec == Init /\ [][Next]_vars

(* A goroutine that can go on does; RWMutex and a channel serve those who   *)
(* wait in turn, hence the strong fairness; a write ends by its deadline.   *)
(* No peer, caller, application or Stop has to do anything, and no client   *)
(* has to open a stream.                                                    *)
Fairness ==
  /\ \A c \in Conns : SF_vars(Handler(c)) /\ WF_vars(ReadFails(c)) /\ WF_vars(Pump(c))
  /\ \A b \in Callers : SF_vars(Call(b))
  /\ SF_vars(Stopping)

FairSpec == Spec /\ Fairness

-----------------------------------------------------------------------------
(* Properties.                                                              *)

(* Every variable holds what its Go type and its comment above allow; no    *)
(* queue is over its capacity.                                              *)
TypeOK ==
  /\ setting \in Settings
  /\ connections \subseteq Conns
  /\ readers \subseteq Goroutines
  /\ writer \in Conns \cup {Closer, None}
  /\ pc \in [Conns -> {"idle", "register", "onConnect", "serve", "unregister", "gone"}]
  /\ wr \in [Conns -> {"off", "wait", "run", "done"}]
  /\ queued \in [Conns -> 0 .. Cap]
  /\ closed \in [Conns -> BOOLEAN] /\ lost \in [Conns -> BOOLEAN]
  /\ call \in [Goroutines -> {"idle", "rlock", "send"}]
  /\ todo \in [Goroutines -> SUBSET Conns]
  /\ at \in [Goroutines -> Conns \cup {None}]
  /\ stop \in {"no", "lock", "over"}

(* While Broadcast ranges over s.connections nobody deletes from the map    *)
(* under it: what it still has to send to stays registered.                 *)
WalkStable ==
  /\ TypeOK
  /\ \A b \in readers : todo[b] \subseteq connections /\ at[b] \in connections \cup {None}

(* Its Send waits for room in the queue of a WebTransport session that is   *)
(* full, that nobody closed, and whose writePump has not started, waits for *)
(* the client's stream or has returned.                                     *)
Unserved(b) ==
  /\ setting.transport = "wt"
  /\ at[b] # None
  /\ wr[at[b]] # "run" /\ queued[at[b]] = Cap /\ ~closed[at[b]]

(* A goroutine waits so while it holds connectionsMu.RLock.                 *)
LockHeld == \E b \in readers : Unserved(b)

(* A call of Broadcast or SendTo comes back, also when a peer stops         *)
(* reading, a connection leaves or is being registered; on the WebTransport *)
(* server unless it, or the holder of the lock it needs, waits for an       *)
(* unserved session for ever.                                               *)
CallsReturn ==
  \A b \in Callers : (call[b] # "idle") ~> (call[b] = "idle" \/ []Unserved(b) \/ []LockHeld)

(* A connection that is to be registered or unregistered is, whoever is     *)
(* sending: a slow peer does not lock the others out of the server, an      *)
(* unserved session that holds a Broadcast up for ever apart.               *)
HandlersProceed ==
  \A c \in Conns :
    (pc[c] \in {"register", "unregister"}) ~> (pc[c] \in {"onConnect", "gone"} \/ []LockHeld)

(* Stop gets through the connections unless a Broadcast waits for an        *)
(* unserved session for ever: once the stream opens or the application      *)
(* closes that session, Stop goes on.                                       *)
StopProceeds == (stop = "lock") ~> (stop = "over" \/ []LockHeld)

-----------------------------------------------------------------------------
(* What the repository says and the code does not do: TLC refutes each of   *)
(* these in the configuration that README.md gives.                         *)

(* Stop gets through the connections.                                       *)
StopReturns == (stop = "lock") ~> (stop = "over")
=============================================================================
