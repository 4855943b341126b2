------------------------------- MODULE Hybrid -------------------------------
(***************************************************************************)
(* The registry of the hybrid server (hybrid/server.go), kept by the        *)
(* callbacks of hybridWsHandler and hybridWtHandler.                        *)
(*                                                                          *)
(* The two servers below it call those callbacks as WsServer and WtServer   *)
(* have it: OnConnect once per connection; after an OnConnect that accepted *)
(* the WebSocket server calls OnDisconnect once, from the goroutine that    *)
(* called OnMessage (WsServer!CallbackOrder), and the WebTransport server   *)
(* never does.  The IDs of connections are taken to differ.                 *)
(*                                                                          *)
(* Before that they authenticate the request, each if its own configuration *)
(* says so and with the authenticator that NewServer passed on.             *)
(*                                                                          *)
(* s.connCount is a plain int64: connCount++ reads it and writes it, and    *)
(* nothing keeps another goroutine out in between.                          *)
(***************************************************************************)
EXTENDS Integers, FiniteSets, Authenticator

CONSTANTS
  WsConns,     \* the connections of the WebSocket server
  WtConns,     \* the connections of the WebTransport server
  Requests,    \* what the requests of the clients carry
  Settings     \* the configurations: given is the authenticator passed to
               \* NewServer, enabled is conf.Auth.Enabled, ws and wt that of
               \* conf.Ws and conf.Wt, source is conf.Auth.WtTokenSource

ASSUME HybridAssumption ==
  /\ IsFiniteSet(WsConns) /\ IsFiniteSet(WtConns)
  /\ WsConns \cap WtConns = {}
  /\ Requests \subseteq Carried
  /\ Settings \subseteq [given : {"nil", "jwt", "envoy"}, enabled : BOOLEAN,
                         ws : BOOLEAN, wt : BOOLEAN, source : {"query", "header", "cookie"}]

Conns == WsConns \cup WtConns

VARIABLES
  setting,      \* the configuration
  connections,  \* s.connections
  userConns,    \* s.userConns
  connCount,    \* s.connCount
  read,         \* what the goroutine of a connection read of it; 0 when not in use
  stats,        \* s.fallback.stats: connections per protocol
  pc,           \* where the callback of a connection is
  userID,       \* conn.userID
  binding,      \* the user of a BindUser between SetUserID and its lock
  standsFor,    \* history: the user that its request stands for, if it is asked
  rebound       \* history: the connections that BindUser took from one user to another

registry == <<connections, userConns>>
count == <<connCount, read>>
conn == <<userID, binding, setting, standsFor, rebound>>
vars == <<registry, count, stats, pc, conn>>

Goto(c, label) == pc' = [pc EXCEPT ![c] = label]

-----------------------------------------------------------------------------
(* Mistakes in this code that the properties below exclude.                 *)

(* UnregisterConnection deletes from s.connections only.                    *)
unbindUserSkipped(c) ==
  /\ pc[c] = "unbind"
  /\ Goto(c, "dec")
  /\ UNCHANGED <<registry, count, stats, conn>>

(* OnConnect does not register the connection.                              *)
OnConnectUnlisted(c) ==
  /\ pc[c] = "idle"
  /\ Goto(c, "inc")
  /\ UNCHANGED <<registry, count, stats, conn>>

-----------------------------------------------------------------------------
(* The request: what NewServer chose, asked by the server of the protocol.  *)

authenticator ==
  IF setting.given # "nil" THEN setting.given
  ELSE IF setting.enabled THEN "hybrid" ELSE "noop"

ProtocolOf(c) == IF c \in WsConns THEN "ws" ELSE "wt"

(* The authentication is asked for by the server of a connection.           *)
AuthEnabled(c) == setting[ProtocolOf(c)]

Request(c, req) ==
  LET user == IF AuthEnabled(c)
              THEN Authenticate(authenticator, ProtocolOf(c), req, setting.source) ELSE None IN
  /\ pc[c] = "request"
  /\ standsFor' = [standsFor EXCEPT ![c] =
       IF AuthEnabled(c) THEN UserOf(ProtocolOf(c), req, setting.source) ELSE None]
  /\ IF user = Error
     THEN Goto(c, "refused") /\ UNCHANGED userID
     ELSE Goto(c, "idle") /\ userID' = [userID EXCEPT ![c] = user]
  /\ UNCHANGED <<registry, count, stats, binding, setting, rebound>>

-----------------------------------------------------------------------------
(* OnConnect: RegisterConnection, RecordConnection, the application.        *)

RegisterConnection(c) ==
  /\ pc[c] = "idle"
  /\ connections' = connections \cup {c}
  /\ Goto(c, "inc")
  /\ UNCHANGED <<userConns, count, stats, conn>>

IncrementReads(c) ==
  /\ pc[c] = "inc"
  /\ read' = [read EXCEPT ![c] = connCount]
  /\ Goto(c, "incStore")
  /\ UNCHANGED <<registry, connCount, stats, conn>>

IncrementWrites(c) ==
  /\ pc[c] = "incStore"
  /\ connCount' = read[c] + 1
  /\ read' = [read EXCEPT ![c] = 0]
  /\ Goto(c, "record")
  /\ UNCHANGED <<registry, stats, conn>>

RecordConnection(c) ==
  /\ pc[c] = "record"
  /\ stats' = IF c \in WsConns THEN [stats EXCEPT !.ws = @ + 1] ELSE [stats EXCEPT !.wt = @ + 1]
  /\ Goto(c, "accept")
  /\ UNCHANGED <<registry, count, conn>>

OnConnectAccepts(c) ==
  /\ pc[c] = "accept" /\ binding[c] = None
  /\ Goto(c, "open")
  /\ UNCHANGED <<registry, count, stats, conn>>

(* The error goes back to the server, which calls nothing more.             *)
OnConnectRejects(c) ==
  /\ pc[c] = "accept" /\ binding[c] = None
  /\ Goto(c, "rejected")
  /\ UNCHANGED <<registry, count, stats, conn>>

-----------------------------------------------------------------------------
(* BindUser, called by the application in OnConnect or OnMessage, for any   *)
(* user and however often.                                                  *)

BindUser(c, u) ==
  /\ pc[c] \in {"accept", "open"}
  /\ binding[c] = None
  /\ userID' = [userID EXCEPT ![c] = u]
  /\ binding' = [binding EXCEPT ![c] = u]
  /\ rebound' = IF userID[c] \in {None, u} THEN rebound ELSE rebound \cup {c}
  /\ UNCHANGED <<registry, count, stats, pc, setting, standsFor>>

BindUserInserts(c) ==
  /\ binding[c] # None
  /\ userConns' = [userConns EXCEPT ![binding[c]] = @ \cup {c}]
  /\ binding' = [binding EXCEPT ![c] = None]
  /\ UNCHANGED <<connections, count, stats, pc, userID, setting, standsFor, rebound>>

-----------------------------------------------------------------------------
(* OnDisconnect: UnregisterConnection, then the application.                *)

UnregisterConnection(c) ==
  /\ c \in WsConns
  /\ pc[c] = "open" /\ binding[c] = None
  /\ connections' = connections \ {c}
  /\ Goto(c, "unbind")
  /\ UNCHANGED <<userConns, count, stats, conn>>

unbindUser(c) ==
  /\ pc[c] = "unbind"
  /\ userConns' = [u \in Users |-> IF u = userID[c] THEN userConns[u] \ {c} ELSE userConns[u]]
  /\ Goto(c, "dec")
  /\ UNCHANGED <<connections, count, stats, conn>>

DecrementReads(c) ==
  /\ pc[c] = "dec"
  /\ read' = [read EXCEPT ![c] = connCount]
  /\ Goto(c, "decStore")
  /\ UNCHANGED <<registry, connCount, stats, conn>>

DecrementWrites(c) ==
  /\ pc[c] = "decStore"
  /\ connCount' = read[c] - 1
  /\ read' = [read EXCEPT ![c] = 0]
  /\ Goto(c, "inform")
  /\ UNCHANGED <<registry, stats, conn>>

OnDisconnect(c) ==
  /\ pc[c] = "inform"
  /\ Goto(c, "gone")
  /\ UNCHANGED <<registry, count, stats, conn>>

(* A WebTransport session ends; no callback is called.                      *)
SessionEnds(c) ==
  /\ c \in WtConns
  /\ pc[c] = "open" /\ binding[c] = None
  /\ Goto(c, "gone")
  /\ UNCHANGED <<registry, count, stats, conn>>

-----------------------------------------------------------------------------
Init ==
  /\ setting \in Settings
  /\ connections = {}
  /\ userConns = [u \in Users |-> {}]
  /\ connCount = 0
  /\ read = [c \in Conns |-> 0]
  /\ stats = [ws |-> 0, wt |-> 0]
  /\ pc = [c \in Conns |-> "request"]
  /\ userID = [c \in Conns |-> None]
  /\ binding = [c \in Conns |-> None]
  /\ standsFor = [c \in Conns |-> None]
  /\ rebound = {}

Next ==
  \E c \in Conns :
    \/ \E req \in Requests : Request(c, req)
    \/ \E u \in Users : BindUser(c, u)
    \/ RegisterConnection(c) \/ IncrementReads(c) \/ IncrementWrites(c)
    \/ RecordConnection(c) \/ OnConnectAccepts(c) \/ OnConnectRejects(c)
    \/ BindUserInserts(c)
    \/ UnregisterConnection(c) \/ unbindUser(c)
    \/ DecrementReads(c) \/ DecrementWrites(c) \/ OnDisconnect(c)
    \/ SessionEnds(c)

Spec == Init /\ [][Next]_vars

-----------------------------------------------------------------------------
(* Properties.                                                              *)

Listed == {"inc", "incStore", "record", "accept", "open"}
Leaving == {"dec", "decStore", "inform", "gone"}

(* Every variable holds what its Go type and its comment above allow; lost  *)
(* updates move connCount by at most one per callback.                      *)
TypeOK ==
  /\ connections \subseteq Conns
  /\ userConns \in [Users -> SUBSET Conns]
  /\ connCount \in -Cardinality(WsConns) .. Cardinality(Conns)
  /\ read \in [Conns -> -Cardinality(WsConns) .. Cardinality(Conns)]
  /\ stats \in [ws : Nat, wt : Nat]
  /\ pc \in [Conns -> Listed \cup Leaving \cup {"request", "refused", "idle", "rejected", "unbind"}]
  /\ userID \in [Conns -> Users \cup {None}]
  /\ binding \in [Conns -> Users \cup {None}]
  /\ standsFor \in [Conns -> Users \cup {None}]
  /\ rebound \subseteq Conns

(* Broadcast and ForEachConnection reach every connection from the moment   *)
(* the application may see it in OnConnect until its OnDisconnect.          *)
ServedListed == {c \in Conns : pc[c] \in Listed} \subseteq connections

(* A WebSocket connection whose OnDisconnect reached the application is not *)
(* in s.connections nor under its user, and under no user at all unless     *)
(* BindUser took it from one user to another; but for such a connection,    *)
(* one listed under a user says that it belongs to it.                      *)
WsRemoved ==
  /\ TypeOK
  /\ \A c \in WsConns : pc[c] \in Leaving =>
       c \notin connections /\ \A u \in Users : c \in userConns[u] => c \in rebound /\ u # userID[c]
  /\ \A u \in Users : \A c \in userConns[u] : c \in rebound \/ userID[c] = u

(* With the authenticator of NewServer, on a server that authenticates, the *)
(* application sees connections of requests that stand for a user only, and *)
(* their user is the one of the header or of the first claim that names     *)
(* one, until the application itself binds the connection to another.       *)
AuthenticatedUser ==
  \A c \in Conns :
    (setting.given = "nil" /\ setting.enabled /\ AuthEnabled(c) /\ pc[c] \notin {"request", "refused"})
      => standsFor[c] # None /\ (c \in rebound \/ userID[c] = standsFor[c])

-----------------------------------------------------------------------------
(* What the repository says and the code does not do: TLC refutes each of   *)
(* these in the configuration that README.md gives.                         *)

(* ConnectionCount is the number of connections when no callback runs.      *)
CountExact ==
  (\A c \in Conns : pc[c] \in {"request", "refused", "idle", "open", "gone"})
    => connCount = Cardinality({c \in Conns : pc[c] = "open"})

(* A connection that OnConnect rejected is not kept.                        *)
RejectedNotListed == \A c \in Conns : pc[c] = "rejected" => c \notin connections

(* SendTo and GetConnection find the connections of an authenticated user.  *)
AuthenticatedFound ==
  \A c \in Conns :
    (pc[c] = "open" /\ userID[c] # None /\ binding[c] = None) => c \in userConns[userID[c]]

(* UnregisterConnection unregisters the connection: SendTo and BroadcastTo  *)
(* reach it no more.                                                        *)
Unregistered ==
  \A c \in WsConns : pc[c] \in Leaving => \A u \in Users : c \notin userConns[u]

(* A hybrid server with authentication serves the users it knows.           *)
AuthApplied ==
  \A c \in Conns : (setting.enabled /\ pc[c] \notin {"request", "refused"}) => userID[c] # None
=============================================================================
