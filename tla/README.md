# A TLA+ model of go-wst

go-wst is a Go library for WebSocket and WebTransport servers: it keeps
connections, binds them to users, sends to one connection, to a user or to
everybody, and calls an application back. These modules model its core: what
the goroutines of a connection do to the state the server shares between
connections, and what they wait for; and, around that core, the life of a hybrid server from
`NewServer` to `Stop`, authentication, the heartbeat and the chat handler of the
examples.

Paths below are relative to the repository (`src/` in `PROJECT.json`).

## The system

| part | state | operations | what makes it correct |
|---|---|---|---|
| `ws/server.go` | `connections` and `userConns` behind two locks, `connCount`, `done`, `server` | one handler goroutine per request (limit check, upgrade, authenticate, register, `OnConnect`, pumps, unregister), `BindUser`, `Start`, `Stop`, `Broadcast`, `SendTo`, `BroadcastTo` | counter and indexes agree with the connections being served; the callbacks come in order; a dead connection leaves; `Stop` ends everybody |
| `ws/connection.go` | `send` (a channel of 256), `done`, `once`, the socket | `Send`, `Close`, `CloseWithError`, `WriteMessage` | messages of a sender stay in order; nobody waits for ever; one writer on the socket |
| `wt/server.go`, `wt/connection.go` | as `ws/server.go`, and a `WaitGroup`, streams and the response stream | handler that accepts streams, a goroutine per stream, `writePump`, `BindUser`, `Stop`, `Broadcast`, `SendTo` | as above; the `WaitGroup` balances; `Stop` reaches every session |
| `stateless/` | per user: messages and the last ID | `Store`, `Fetch`, `Clear`, `ClearAll`, `Send`; `Ack` does nothing | a poller with a cursor reads every message once and in order |
| `stateful/hub.go` | shards, each with a lock, `connections`, `userConns` | `Register`, `Unregister`, `BindUser`; walks over the shards: `GetByUser`, `Count`, `Stats`, `ForEach` | shards agree with the connections; a walk that is not atomic still returns something sound |
| `stateful/heartbeat.go` | the last activity of each connection | a walk of the hub per tick that closes who is idle, `UpdateActivity` | idle connections are closed, active ones never |
| `hybrid/server.go` | a registry of its own above both servers, a plain `connCount`, a `ServiceGroup`, `once` | `NewServer`, `Start`, `Stop`; callbacks of both inner servers, `BindUser`, `handleNegotiate` | the registry agrees with what the inner servers serve; `Stop` stops both |
| `hybrid/authenticator.go` | none | three authenticators: a header of Envoy, a JWT, either by protocol | a connection carries the user its request stands for, or is refused |
| `hybrid/fallback.go` | failures per client, statistics | `SelectProtocol`, `ShouldFallback`, `RecordFallback`, `RecordConnection`, `ResetFallbackCount`, `CleanupStaleClients` | a client that keeps failing is sent to WebSocket |
| `wt/config.go` | paths of certificate and key, temporary files | `SetUp`, `Cleanup` | the files are there while the server needs them and gone afterwards |
| `example/internal/chat` | `rooms`, `userToRoom`, the `roomId` of a connection | `OnConnect`, join, message, leave, `OnDisconnect`, `broadcastToRoom` | the two maps agree, hold connected clients only, and the notices tell who is there |
| `internal/buffer`, `internal/protocol` | a pool; none | see "Not modelled" | |

Interaction. The hybrid server owns a `ws.Server` and a `wt.Server` and gives
each a handler that keeps the hybrid registry before it calls the application.
Each server calls the application from its own goroutines; the application
calls back into the server (`BindUser`, `Broadcast`, `SendTo`, `Close`) from
callbacks and from goroutines of its own. Shared state is behind one lock per
map, so an operation that touches two maps, or a map and the user ID of a
connection, is several steps; the models have a step wherever the code drops a
lock, waits on a channel or calls out.

The hard behaviours are those interleavings, the waiting of senders for full
queues while a lock is held, the races of `Stop` with handlers, exits in the
middle of a handler, and lost replies. `PROJECT.json` lists each hazard at its
line with the properties that are about it.

## Modules

Each module starts with the mistakes its properties exclude (variants of single
actions, used by no specification), then has one action per step of the code;
`map` in `PROJECT.json` gives the lines of each definition.

| module | models | run with |
|---|---|---|
| `WsServer` | the WebSocket server: handler, pumps, indexes, counter, `Start`, `Stop` | `MCWsServer` (symmetry) or itself |
| `WsConnection` | one WebSocket connection: senders, queue, `writePump`, `readPump`, `Close`, the socket | itself |
| `WtServer` | the WebTransport server: handler, stream goroutine, `writePump`, `WaitGroup`, `Stop` | `MCWtServer`, itself |
| `Broadcast` | who waits for whom in `Broadcast` and `SendTo`, for both servers | `MCBroadcast` |
| `Registry` | abstract: connections that are registered, bound to a user, leave and are forgotten | by `WsServer`, `WtServer` and `Hub` |
| `MessageLog` | abstract: logs that grow until they are cleared, and readers that follow them | by `Stateless` |
| `Stateless` | store, server, pollers and an unreliable network | `MCStateless` |
| `Hub` | the sharded hub and the walks over it | by `Heartbeat` |
| `Heartbeat` | the hub, alone or with a `HeartbeatManager` that walks it; extends `Hub` | `MCHeartbeat` |
| `Authenticator` | the authenticators, as operators on a request | by `Hybrid` |
| `Hybrid` | authentication and the registry of the hybrid server; extends `Authenticator` | `MCHybrid` |
| `Fallback` | the choice of a protocol and the failures behind it | by `Assembly` |
| `Assembly` | `NewServer`, the certificate files, `Start`, the negotiations, `Stop`; extends `Fallback` | `MCAssembly` |
| `Chat` | the chat handler of the examples | `MCChat` |
| `WsServerProofs`, `WtServerProofs`, `StatelessProofs`, `HybridProofs`, `AssemblyProofs`, `ChatProofs` | theorems about the module of that name (`WtServerProofs` also about `Registry`) | `tlapm` |
| `WsConnectionProofs` | theorems about `WsConnection` and `Broadcast` | `tlapm` |
| `HubProofs` | theorems about `Hub` and `Heartbeat` | `tlapm` |

How state and actions correspond to the code:

- **WsServer.** `pc[c]` is the line the handler of request `c` is at:
  `CheckLimit`, `Upgrade` (which also counts), `Authenticate` and
  `BindAuthenticated`, `registerConnection`, `OnConnect`, then the two pumps
  (`ReadError`, `ReadPumpReturns`, `WritePumpWakes`, `WriteError`,
  `WritePumpReturns`), `PumpsJoined`, and the three steps of
  `unregisterConnection`. `UpgradeFails`, `AuthFails` and `OnConnectFails` are
  the early returns, with the deferred calls each of them runs. `told` records
  the callbacks the application has seen. `BindUser` is two steps, as in the
  code: the user ID is set before the lock is taken. `Relax` says which
  liberties the surroundings take: two clock readings in one nanosecond, a
  second user for a connection, `BindUser` from a goroutine that nothing ties
  to the connection, `Stop` before `Start`. With `Relax = {}` the application
  does none of it.
- **Registry.** What both servers and the hub promise of the connections they keep:
  a connection is registered once, bound to one user at most, never moved by a
  step of another, neither registered nor bound again once it has begun to leave,
  and found nowhere when it is gone. In the servers a connection leaves in several
  steps, map by map: `left` is mapped to the connections that have begun, `gone`
  to those that both maps have been cleared of, or that were turned away before
  they came into one. In the hub `Unregister` is one step and both are mapped to
  the unregistered connections; the union over the shards stands for the maps.
- **WsConnection.** A message is the number of its call of `Send`. A `Send` waits
  in `select` for room, for `done` or for its context. `writePump` takes one message, enters `WriteMessage` of the
  websocket library and leaves it with success or an error. `Close` runs once:
  it closes `done`, writes a close frame and closes the socket; the others wait
  for it in `once.Do`. The library panics when it sees two writers; it may
  also not see them, and then the socket gets junk: both are outcomes of
  `EnterWrite`.
- **WtServer.** The model starts with a server that has been started. A session
  has one handler (`LoopSeesDone`, `LoopAccepts`, `AcceptStream`,
  `AcceptFails`), one stream goroutine and one `writePump`, which waits for
  the response stream first. `reading` is the set of locks that a `Broadcast`
  (`connectionsMu`) or a `BroadcastTo` (`userConnsMu`) holds through its calls of
  `Send`; every step that takes one of the locks for writing waits for it, that of
  `Stop` included. `StopClosesConnections` is the loop of `Stop`
  under its lock in one step: nobody can register or unregister during it and
  `closed` never goes back. `ReadLocks` says which of the two an application
  broadcasts with, `Rebinds` whether it binds a session to a second user,
  `BindInOnMessage` whether it binds from the stream goroutine.
- **Broadcast.** `readers` and `writer` are `connectionsMu`: a `Lock` that waits
  keeps new `RLock`s out, as `sync.RWMutex` documents. `setting` never changes
  and chooses the differences between the two servers: in `ws` the `writePump`
  starts after `OnConnect` and closes the connection when a write fails; in `wt`
  it waits for a stream, a failed write closes nothing, and `Stop` closes
  connections under the lock. `SendTo` copies the connections under
  `userConnsMu` and holds no lock while it sends; among them may be one that is
  authenticated and not registered yet, or unregistered and not yet taken out of
  the index. `BroadcastTo` does with
  `userConnsMu` what `Broadcast` does with `connectionsMu`, and has no actions of
  its own.
- **Stateless.** `Poll`, `Deliver` and `Lose` are the client and the network,
  which are outside the library. A poller asks with the ID of its last message.
  `stale` records, for the properties, that a log was cleared after the poller
  took from it; `MessageLog` promises nothing to such a poller.
- **Hub.** `ShardOf` is any function from connections to shards. A walk is one
  step per shard. `always` and `ever` record, for the properties, which
  connections were there throughout a walk and at some time in it.
- **Heartbeat.** `managed` never changes: with it `FALSE` the module is `Hub`,
  with it `TRUE` a manager walks the hub while connections come, go and report
  activity. `ForEach` calls the function of `checkConnections` with the `RLock` of
  the shard, so `held` keeps `Register` and `Unregister` of that shard waiting;
  `UpdateActivity` takes no lock of the hub and comes between the look at a
  connection (`Check`) and its `Close`. `Close` is a call and a return
  (`CloseTimedOut`, `CloseReturns`) with the lock held in between, for as long as
  it takes. `now` is read once, at the start of a walk. After `Cancel` the
  `select` of `Start` may still choose a tick; that `Start` returns is that no
  walk need begin any more.
- **Authenticator.** A request has the header of Envoy, a place where its token
  is, whether the JWT library accepts the token, and a claim per field. The loop
  over the five fields is a recursive function; `UserOf` is the reference, by the
  least field that names somebody. A number becomes the decimal notation of its
  integral part, in the code by a conversion to `int64` (a division), in the
  reference as the integer that the number is not below and whose successor it is
  below. Left out: `json.Number`, which the parser as called never
  produces, and numbers outside `int64`. `NoOpAuthenticator` yields the user ID
  "", as no authentication does.
- **Hybrid.** `Request` is what either server does before its `OnConnect`: it
  asks the authenticator that `NewServer` passed on, if its own configuration
  says so. The order of the callbacks is what `WsServer` and `WtServer` show
  of them: one `OnConnect`; after an accepting one, one `OnDisconnect` from the
  WebSocket server and none from the WebTransport server. `connCount++` is a
  read and a write. `BindUser` takes any user at any time of the service, as in the
  code; `rebound` records the connections that it took from one user to another.
- **Fallback.** `KeyOf` is the key a failure is recorded under. In the code
  `RecordFallback` takes any key and `FallbackHandler` passes the user ID.
  `ShouldFallback` with the strategy "timeout" waits, and the count is increased
  in a second critical section. Neither `handleNegotiate` nor `FallbackHandler`
  is installed by `hybrid.Server.Start`; the module models an application that
  installs them.
- **Assembly.** `stage` is how far `NewServer` is: `resolveCertFile`,
  `resolveKeyFile`, `LoadX509KeyPair`. An error in them leaves a hybrid server
  without WebTransport, and `conf`, which is passed by value, takes the list of
  temporary files with it. The `ServiceGroup` of go-zero is external: its `Stop`
  works once and stops the services that are in it, and the process calls it as
  well when it is told to end. The application calls `Start` and `Stop` in any
  order. `Serve` is the `Start` of a service up to where it listens; `WsStop` and
  `WtStop` are the `Stop` of the services, whose inside is in `WsServer` and
  `WtServer`.
- **Chat.** `pc` of a connection is where its callback is: the section under
  `h.mu`, then the reply, the copy that `broadcastToRoom` takes, and one send at
  a time. A message reaches the client unless the connection is over; the queue
  between them keeps its order, so it is left out. `roster` is what a client
  believes from the notices it gets; it starts anew with the reply to a join.
  `Relax` says what clients do beyond their best behaviour.

## Runs

| run | what it shows | instance |
|---|---|---|
| `ws_safety` | counter and both indexes exact, callbacks in order, the maps a `Registry`, with failed authentication, rejecting `OnConnect`, failing pumps, `Close` and `Stop` at any time | two requests and two users, limit 1 |
| `ws_liveness` | a dead connection ends; `Stop` drains | one request, authentication, an application that binds when and to whom it likes |
| `ws_limit` | a counterexample: the limit is exceeded | two requests, limit 1 |
| `wsconn_queue` | what is written is what was accepted, in order and without gaps; `Send` and `Close` return; an accepted message is written or the connection closes | two senders, three messages, a queue of two, an application that closes |
| `wt_safety` | the maps a `Registry`, the `WaitGroup` balances, no open session accepts streams after `Stop` went over the connections, with broadcasts holding `connectionsMu` in between | two sessions, limit 1 |
| `wt_liveness` | `Stop` ends handler, stream goroutine and `writePump`, unless a broadcast keeps a lock for ever | one session, two users, authentication, `BindUser` from streams and to a second user, broadcasts with both locks |
| `broadcast_wait` | what a `Broadcast` still has to send to stays registered; calls return, handlers and `Stop` get the lock, unless a `Broadcast` waits for ever for a WebTransport session whose full queue no `writePump` serves and which nobody closes | two WebSocket connections and a caller; one WebTransport session, a caller and an `OnConnect` that broadcasts; queues of one |
| `stateless_log` | a poller reads everything in order; the store implements `MessageLog`, `Clear` and `ClearAll` included | two users, three messages each, limits 0 and 2 |
| `hub_safety` | shards exact and together a `Registry`; walks sound; a connection that is idle is closed, unless the `Close` of another never returns, and one that never was is not | two shards; three connections, two users and a walker, or two connections, the manager and times 0 to 3 |
| `hybrid_safety` | what is served is listed; WebSocket connections are removed, but for the entry of a user they were bound away from; with the authenticator of `NewServer` a connection carries the user of its header or token until the application binds it to another | two WebSocket connections, a WebTransport session, two users |
| `assembly_life` | the certificate files last from `NewServer` to the `Stop` of the WebTransport server and are then removed; the failures of a client are bounded, and the statistics cover the counts | every source of certificate and key for every protocol; the strategies "auto" and "timeout"; three sessions of two clients, two retries |
| `chat_rooms` | rooms hold connected clients under their own names; both maps agree; no client of one room believes in a member that has left | three connections, two users, two rooms |

The type invariant of a module is a conjunct of one of its properties, so that
a run checks it and a theorem states it along with something that matters
(`CountExact`, `WaitGroupExact`, `WalkSound`, `InOrder` and so on).

`DeadConnectionEnds`, `StopDrains` and the other leads-to properties are about
goroutines that end each other: the read pump ends the write pump through
`Close` and `done`, the write pump ends the read pump through the socket.

### Divergences

`ws_limit` refutes "Maximum concurrent connections" (`ws/config.go:31`). The
other places where the code does not do what its comments say are definitions
at the end of the modules. To see the counterexample, check the definition with
the configuration named here and the change given:

| definition | configuration, change | the code | the comment |
|---|---|---|---|
| `WsServer!RegistryExact` | `WsServer_safety`, `Relax = {"sameTick"}` | two upgrades in one nanosecond share an ID and one hides the other (`ws/server.go:439`) | "generates a unique connection ID" (`ws/server.go:437`) |
| `WsServer!NothingLeftBehind` | `WsServer_safety`, `Relax = {"rebind"}` or `{"async"}` | a connection stays in the index of its first user, or of a user bound after the cleanup (`ws/server.go:305`, `322`) | "unregisters a connection" (`ws/server.go:298`) |
| `WsServer!NeverPanics` | `WsServer_safety`, `Relax = {"earlyStop"}` | `Stop` before `Start` uses a nil server (`ws/server.go:152`) | "Stop stops the WebSocket server" (`ws/server.go:146`) |
| `WsConnection!SingleWriter` | `WsConnection_queue` | `Close` writes its frame while `writePump` writes (`ws/connection.go:122`) | "This is called by the server's write pump" (`ws/connection.go:154`) |
| `WtServer!CountExact` | `WtServer_safety` | a session is counted twice and released once (`wt/server.go:214`, `375`, `395`) | "returns the current connection count" (`wt/server.go:498`) |
| `WtServer!DisconnectTold` | `WtServer_safety` | nothing calls `OnDisconnect` (`wt/server.go:245-250`) | "called when a connection is closed" (`internal/protocol/connection.go:72`) |
| `WtServer!DoneAfterEnd` | `WtServer_safety` | the handler returns without `Close` (`wt/server.go:249`) | "a channel that's closed when connection is closed" (`internal/protocol/connection.go:36`) |
| `WtServer!StopClosesAll` | `WtServer_safety` | a handler that sees `s.done` unregisters before `Stop` locks, and its session stays open (`wt/server.go:333-340`) | "Close all connections" (`wt/server.go:335`) |
| `WtServer!NothingLeftBehind` | `WtServer_safety`, `BindInOnMessage = TRUE` | a `BindUser` on a stream goroutine after the cleanup (`wt/server.go:402`) | "unregisters a connection" (`wt/server.go:378`) |
| `WtServer!NothingLeftBehind` | `WtServer_safety`, `Rebinds = TRUE`, `Users = {u1, u2}` | a session that is bound to a second user stays in the index of the first (`wt/server.go:399-408`, `385`) | the same |
| `Broadcast!StopReturns` | `Broadcast_wait` | a blocked `Broadcast` keeps the lock `Stop` needs to close the connection it waits for (`wt/server.go:336`, `412`); `Stop` does not come to `Cleanup` (`361`) either | "stops the WebTransport server gracefully" (`wt/server.go:330`) |
| `Broadcast!CallsReturn` | `Broadcast_wait`, `Settings <- Greeting` | `OnConnect` broadcasts into its own full queue before its `writePump` starts (`ws/server.go:210`) | "sends a message to all connections" (`ws/server.go:330`) |
| `Stateless!CursorNotAhead` | `Stateless_log` | `Clear` restarts the IDs, and an old cursor is ahead of the log (`stateless/store.go:79`) | "monotonically increasing" (`internal/protocol/connection.go:78`) |
| `Stateless!IDsMonotonic` | `Stateless_log`, as a `PROPERTY` | after `Clear` the IDs of a user begin with 1 again (`stateless/store.go:79`, `87`) | the same |
| `Stateless!TopicRespected` | `Stateless_log` | `Fetch` does not use the topic (`stateless/server.go:40`) | "Filter by topic (optional)" (`internal/protocol/connection.go:90`) |
| `Hub!NothingLeftBehind` | `Hub_safety`, `Relax = {"rebind"}` or `{"late"}` | as in the WebSocket server (`stateful/hub.go:71`, `84`) | "Unregister removes a connection from the hub" (`stateful/hub.go:65`) |
| `Hub!TotalUsersBounded` | `Hub_safety` | a user in two shards is counted twice (`stateful/hub.go:183`) | `TotalUsers` (`stateful/hub.go:159`) |
| `Hybrid!CountExact` | `Hybrid_safety` | the plain counter loses updates (`hybrid/server.go:242`) | "returns the current connection count" (`hybrid/server.go:365`) |
| `Hybrid!RejectedNotListed` | `Hybrid_safety` | a connection the application rejected stays listed (`hybrid/server.go:398`) | "Return error to reject the connection" (`internal/protocol/connection.go:66`) |
| `Hybrid!Unregistered` | `Hybrid_safety` | `BindUser` to a second user leaves the connection in the index of the first, and `UnregisterConnection` clears the last (`hybrid/server.go:266`, `251`) | "UnregisterConnection unregisters a connection" (`hybrid/server.go:245`) |
| `Hybrid!AuthenticatedFound` | `Hybrid_safety` | authentication does not fill the index that `SendTo` reads (`hybrid/server.go:311`) | "sends a message to a specific user" (`hybrid/server.go:309`) |
| `Fallback!FailuresBounded` | `Assembly_life`, `KeyOf <- UserIDs` | failures are recorded under the user ID and looked up under the client ID (`hybrid/fallback.go:215`, `81`) | "If client has failed WebTransport too many times, use WebSocket directly" (`hybrid/fallback.go:84`) |
| `Fallback!ToldIsServed` | `Assembly_life` | `Protocol: webtransport` tells clients to use a server that may be missing (`hybrid/fallback.go:61`) | "SelectProtocol selects the best protocol for a client" (`hybrid/fallback.go:49`) |
| `Heartbeat!ClosedStillIdle` | `Hub_safety`, as a `PROPERTY` | activity between the look and the `Close` does not save a connection (`stateful/heartbeat.go:49`, `51`) | "checks all connections for heartbeat timeout" (`stateful/heartbeat.go:42`) |
| `Heartbeat!SilentClosed` | `Hub_safety`, as a `PROPERTY` | a connection without "lastActivity" is never closed, and `Register` does not set it (`stateful/heartbeat.go:48`) | the same |
| `Hybrid!AuthApplied` | `Hybrid_safety`, `Settings <- Defaults` | the inner servers look at their own `Auth.Enabled`, which is off by default (`ws/server.go:181`) | "Enabled enable authentication" (`hybrid/config.go:39`) |
| `Hybrid!AuthApplied` | `Hybrid_safety`, `Settings <- ByToken` | `JWTAuthenticator` accepts an empty "sub" (`hybrid/authenticator.go:201`) | the same |
| `Assembly!FilesKnown` | `Assembly_life` | when the key or the pair is bad the certificate file stays on the disk and its name is lost (`wt/config.go:89`, `hybrid/server.go:148`) | "temp files to clean up on stop" (`wt/config.go:46`) |
| `Assembly!StopStops` | `Assembly_life`, as a `PROPERTY` | a `Stop` before `Start` uses up `once` and the group; what `Start` starts then is not stopped (`hybrid/server.go:173`) | "Stop stops the hybrid server" (`hybrid/server.go:171`) |
| `Assembly!StopSafe` | `Assembly_life` | `Stop` while the `Start` of the WebSocket server has not set `s.server` (`ws/server.go:152`) | "Stop stops the WebSocket server" (`ws/server.go:146`) |
| `Chat!MembersConnected` | `Chat_rooms`, `Relax = {"hop"}`, `{"twin"}` or `{"blank"}` | a join without a leave, a second connection of a user or an empty name leaves a connection in a room after its end (`example/internal/chat/handler.go:76`, `84`, `120`) | "Handler handles chat connections with room management" (`example/internal/chat/handler.go:21`) |
| `Chat!SpeakersAreMembers` | `Chat_rooms`, `Relax = {"speak"}` | `handleLeave` keeps the "roomId" of the connection (`example/internal/chat/handler.go:163`) | "you are not in a room" (`example/internal/chat/handler.go:145`) |
| `Chat!RosterSoundEverywhere` | `Chat_rooms` | notices do not carry the room, and one of a room that was left goes for the new one (`example/internal/chat/handler.go:184`) | `RoomID` (`example/internal/chat/handler.go:17`) |

### Bounds

- Two requests or sessions (three connections in `Hub`, to have two in one
  shard and one in another; three in `Chat`, so that a user comes back on another
  connection while somebody watches): every shared structure is a map keyed by
  connection, or a counter, so an interference between connections shows with
  two. The liveness runs of the servers have one, because a handler waits for
  nothing that another handler holds except in `Broadcast`, whose WebSocket setting
  has two. The hang of the WebTransport setting needs one session.
- A limit of one connection, so that the limit is reached; queues of one in
  place of 256, so that they are full, and of two where their order matters
  (`wsconn_queue`).
- Three messages with replies of at most two, so that a reply is cut off and the
  next begins in the middle of the log; limit 0, which the store answers with
  one message. One poller: pollers share nothing that one of them changes.
- A timeout of one and a clock that stops at three (`MaxClock`), so that a
  connection times out, and one that reports in time does so twice.
- The requests of `Hybrid` have a claim in two of the five fields, each absent,
  a string, "", 0, 1/2 or something else; a token where it is looked for, somewhere
  else, or nowhere; verified or not. Its settings are those of `NewServer` with
  `Auth.Enabled`, and an authenticator of the application: of headers on both
  servers, or of tokens on the WebTransport server alone.
- `Assembly` has every protocol and source of certificate and key without
  negotiation failures, and the two strategies that differ with files given.
- `MaxSends`, `MaxMessages` and `MaxFallbacks` bound what would run for ever;
  each is in the guard of the action that counts. `MaxEntries` stands for the
  10000 of `CleanupStaleClients`.
- Each request is served once, so most models end; `CHECK_DEADLOCK FALSE` is
  given where they do. `Stateless` goes on for ever and
  has deadlock checked. What must not wait for ever in the others is stated as
  liveness.

### Fairness

The Go scheduler runs every goroutine that can run. So a goroutine's steps are
weakly fair when they stay enabled until they are taken, and strongly fair where
it competes for a lock, a `select` case or room in a queue: a waiting `Lock`
keeps new readers out, a `sync.Mutex` hands itself to a waiter that starves, a
channel serves its waiters in order, and `select` chooses among ready cases at
random. `SF` on the handler and the read pump also says that the callbacks of the
application return; nothing is assumed about an application that calls
`BindUser`, `Close` or `Stop`, or about a peer that leaves. Writes return because
each sets a deadline (`WriteTimeout`); the close frame has that of the last write. In `Heartbeat` the ticker
fires again while the context lives and the manager walks; connections need do
nothing, and a `Close` need not return.

The `Stop` of the WebTransport server is not bounded by its five seconds: before
that wait it takes `connectionsMu` (`wt/server.go:336`), which a `Broadcast` can
hold for ever (`Broadcast!StopReturns`). So in `WtServer` nothing is assumed about
the return of a broadcast, and `StopDrains` has as its hypothesis that each lock is
free of them again and again; `StopProceeds` of `Broadcast` says that a `Broadcast`
which waits for an unserved session for ever is the only thing that can hold
`Stop` up. In `Assembly` the `Stop` of either service comes to its end, because
that is the WebTransport server inside a hybrid server: it is a private field
(`hybrid/server.go:37`) that nothing hands out, so nobody can call its
`Broadcast` or `BroadcastTo`; `hybrid.Server.Broadcast` goes over a map and a lock
of its own (`hybrid/server.go:279-289`). `connectionsMu` of the inner server is
taken by its handlers and by `Stop` only, for a moment each. An application that
uses a WebTransport server on its own has no such guarantee, and its key files
may stay.

In `Stateless` a poller keeps asking and a
network that loses replies does not lose all of them.

## Proofs

TLC's runs are small instances; the theorems hold for every number of
connections, users, sessions, shards, walkers, messages and rooms, and for every
value of the bounds.

| theorem | states | from |
|---|---|---|
| `WsServerProofs!LifeCorrect` | `CountExact` (with `TypeOK`), `Notified`, for every `Relax` | `LifeInv` |
| `WsServerProofs!CallbacksInOrder` | `CallbackOrder`, for every `Relax` | `LifeInv` |
| `WsServerProofs!IndexCorrect` | `RegistryExact`, `UserIndexExact`, for a disciplined application | `IndexInv` |
| `WsServerProofs!ServerIsRegistry` | `ImplementsRegistry`: the refinement of `Registry`, for a disciplined application | `IndexInv`, step by step |
| `WsConnectionProofs!WrittenInOrder` | `InOrder` | `OrderInv` |
| `WsConnectionProofs!WalksStable` | `WalkStable` of `Broadcast`, for both servers | `WalkInv` |
| `WtServerProofs!StopReachesAcceptors` | `RegistryExact`, `NoAcceptorLeft` | `StopInv` |
| `WtServerProofs!WaitGroupCorrect` | `WaitGroupExact` | `WaitInv` |
| `WtServerProofs!IndexCorrect` | `NothingLeftBehind`, for an application that binds in `OnConnect` and to one user | `UserInv` |
| `WtServerProofs!ServerIsRegistry` | `ImplementsRegistry`, for an application that binds in `OnConnect` and to one user | `StopInv`, `UserInv`, step by step |
| `WtServerProofs!RegistryForgets` | `GoneUnseen` of whatever implements `Registry` | `DepartureInv` |
| `HubProofs!WalksSound` | `WalkSound` (with `TypeOK`), for every `Relax` | `WalkInv`, `UsersBounded` |
| `HubProofs!IndexCorrect` | `IndexExact`, for `Relax = {}` | `WalkInv`, `IndexInv` |
| `HubProofs!HubIsRegistry` | `ImplementsRegistry`, for `Relax = {}` | `IndexInv`, step by step |
| `HubProofs!ManagedHubIsHub`, `ManagedHubCorrect` | `HeartbeatSpec` implies the `Spec` of `Hub`, and so what is shown of it | step by step |
| `HubProofs!ManagerClosesIdle` | `SteadyStaysOpen` | `BeatInv` |
| `StatelessProofs!LogCorrect`, `PollersInStep` | `LogShape`, `NoGap` | `LogInv` |
| `StatelessProofs!StoreImplementsLog` | `ImplementsLog`: the refinement of `MessageLog` | `LogInv`, step by step |
| `HybridProofs!RegistryCorrect` | `ServedListed`, `WsRemoved`, for any use of `BindUser` | `HybridInv` |
| `HybridProofs!UsersAuthentic` | `AuthenticatedUser`, for any use of `BindUser` | `HybridInv`, `HybridFindsUser` |
| `AssemblyProofs!FilesCorrect` | `FilesLast` | `FilesInv` |
| `AssemblyProofs!FailuresCorrect` | `FailuresBounded`, where the key of a failure is the ClientID or there is none | `FailuresInv` |
| `AssemblyProofs!StatsCorrect` | `StatsCoverCounts` | `StatsInv` |
| `ChatProofs!RoomsConnected`, `MapsAgree`, `RosterCorrect` | `MembersConnected`, `IndexAgrees`, `RosterSound`, for `Relax \subseteq {"speak"}` | `IndexInv`, `RosterInv` |

The assumptions are the named `ASSUME`s of the modules: finite sets of
connections and sessions, `None` and its like outside the sets they stand beside,
the types of constants. Where a theorem has a hypothesis, it is what the
divergences above show to be necessary: no second user, no `BindUser` after the
end, a clock that moves on (`WsServer`, `Hub`, `WtServer`); failures under the key
they are looked up with (`FailuresCorrect`); one connection, one room and a name
at a time (`Chat`). The runs check the properties under these hypotheses (`Chat` with `Relax = {}`).

- `LifeInv` adds to the three properties what ties `told`, `closed` and the
  two pumps to the place of the handler: `CountExact` is preserved by an early
  return because the handler is counted exactly in the phases listed by
  `Counted`, and `Notified` because the read pump calls `OnDisconnect` before the
  handler can pass `PumpsJoined`.
- `IndexInv` of `WsServerProofs` adds that connections in service have different
  IDs, none above the clock, without which deleting by ID deletes somebody else;
  and that a `BindUser` in progress belongs to a handler that is inside a
  callback, without which the second step of `BindUser` could come after the
  cleanup.
- `OrderInv` says where the one message is that is neither on the wire nor in the
  queue: `InOrder` allows it at any time, but only one that is in the hand of
  `writePump`, and is the next of the accepted, may be written. `Split` cuts the
  accepted messages in three; the lemmas `SplitAccept`, `SplitTake` and
  `SplitWrite` move the cuts.
- `WalkInv` of `WsConnectionProofs` adds to `WalkStable` that a goroutine which is
  not in the middle of a call has no target and no read lock, and that a handler
  calls nothing before it is registered: so whoever gets the write lock finds no
  reader, and a reader that begins takes what is registered then. That the
  callers are no connections (`Callers \cap Conns = {}`) is among the assumptions,
  since a goroutine of the application is not a handler. `Broadcast` is
  instantiated there, with variables of its own; its assumption is the hypothesis
  `B!Parameters`.
- The refinements of `Registry`. `Register` is `registerConnection`, `Bind` the
  insertion of `BindUser` or of an authenticated user, `Leave` each step of
  `unregisterConnection` and each early return; what only reads, waits or calls
  out leaves the four variables alone. `IndexInv`, or `UserInv` with
  `RegistryExact`, supplies what the steps themselves do not say: that
  `delete` by ID removes this connection and no other, that the user whose entry is cleared
  is the only one that has the connection, and that a `BindUser` in progress
  comes to its end before the connection leaves. In the hub the step is in one
  shard, and `Together` says what it is in the union of them; that the entry
  which `Unregister` clears is the only one in any shard is `Sound`. `RegistryForgets`
  then needs only that what is gone has begun to leave.
- `StopInv` adds that `s.done` is closed from the first step of `Stop` on, and
  `RegistryExact`: a handler that looked at `s.done` before it was closed is in
  the map when `Stop` has the lock, and one that looks afterwards leaves.
- `WaitInv` adds that no `writePump` of a session runs before its handler is in
  the loop, so that the `Add` for it is for a goroutine that was not counted; each
  step moves at most one session in or out of each of the three sets.
- `UserInv` is the `BindUser` argument of `IndexInv` for sessions: one in progress
  is inside `OnConnect`, so the cleanup comes after it, and of the user that the
  session has.
- `WalkInv` says, for a walk that has come to shard `next`, that what it found
  was there at some time, and that what was there throughout and belongs to a
  shard before `next` was found. It needs that a connection is only ever in
  its own shard.
- `BeatInv` adds that the time of a walk is not ahead of the clock and that the
  connection the manager is about to close was idle when it was looked at: the
  comparison with the time at which the walk began only makes the manager late.
- `LogInv` strengthens `LogShape` to `ByPosition` (between two clears the ID of a
  message is its position in the log, since `Clear` resets both) and adds what is
  under way: a reply follows, message by message, on what
  the poller has, and the cursor is the number of messages it has. So the lemma
  `NewerMessages` (the k-th message newer than n is at n + k) gives what `Fetch`
  returns from any log, and appending a reply keeps the poller at a beginning of
  the log. The refinement maps `Send` to `Publish`, `Deliver` to `CatchUp` or a
  stutter, both clears to `Truncate`, and everything else to a stutter.
- `HybridInv` bounds the plain counter by what was written: it is at most the
  number of callbacks that have stored an increment and at least minus those
  that have stored a decrement, and so is what any goroutine read of it. For the
  user index it adds that a `BindUser` in progress is inside a callback and has
  set the user ID, so that what `UnregisterConnection` clears is the entry of the
  last user, and that an entry under any other is of a connection in `rebound`. `LoopUnrolled` and `LoopFindsFirst` show that the loop over the five fields
  finds the user of the reference `UserOf`, and `Truncates` that the conversion of a
  number is its whole part; only a `BindUser` of a connection in `rebound` can
  change that user.
- `FilesInv` follows `NewServer` from file to file and says that the group stops
  its services once.
- `FailuresInv` adds that a failure is counted or its session has yet to record
  it. A session is sent to WebTransport only below `MaxRetries`, so of the
  sessions under way at the last count each can add one.
- `StatsInv` takes the failures behind the counts one by one: `Counted` is the set
  of pairs of a key and a number up to its count, so that the sum over all keys is
  a cardinality and no induction over the keys is needed. A failure that is
  counted is one new pair (`CountedGrows`) and one more session before its second
  critical section; a reset or a cleanup only takes pairs away.
- `IndexInv` of `ChatProofs` adds that connected clients have different names;
  `RosterInv` that for everyone a client wrongly believes in, the callback that
  will tell it has not come to it yet.

Only model-checked: everything about liveness (the prover has no fairness and no
`ENABLED`), that is `DeadConnectionEnds`, `StopDrains`, `SendReturns`,
`AcceptedIsWritten`, `CloseReturns`, `CallsReturn`, `HandlersProceed`,
`StopProceeds`, `EveryMessageArrives`, `IdleClosed` and `FilesRemoved`. Every
invariant, action property and refinement of the passing runs is also a theorem.

## Not modelled

- `internal/buffer`: a `sync.Pool`. A buffer belongs to one goroutine between
  `Get` and `Put`, and no caller looks at its size.
- `internal/protocol/codec.go`: JSON. Metadata of connections: a map behind a
  lock, of which `Heartbeat` and `Chat` model the entries that are used. Logging,
  slow-message warnings, metrics, HTTP routing, TLS.
- The inside of `BroadcastTo`, whose waiting is that of `Broadcast` with the other
  lock (`WtServer` has it as a holder of `userConnsMu`).
- The walks of the hybrid server. Its `Broadcast` and `BroadcastTo` hold
  `connectionsMu` and `userConnsMu` of the hybrid server through every `Send`
  (`hybrid/server.go:279-308`), and only `SendTo` goes over a copy. So what
  `Broadcast` shows of the servers is there as well: one connection with a full
  queue that nobody serves holds up `RegisterConnection` and `UnregisterConnection`
  of all. `Stop` of the hybrid server takes neither lock and is not held up.
- `nextPowerOf2` and the hash of `getShard`: any function from connections to
  shards does for what is shown. `AtomicCounter` of the hub, which nothing uses.
- `example/notification` keeps nothing of its own: it passes requests to the
  store of `Stateless`. `example/authhook` is a test program. The `main` of the
  other examples loads a configuration and starts a server.
- The memory model of Go, except for the counter of `Hybrid`: a read or a write
  of a field is one step.

## Plan

1. Done: the models of `WsServer`, `WsConnection`, `Stateless` with
   `MessageLog`, `WtServer`, `Hub`, `Broadcast`, `Heartbeat`, `Authenticator`,
   `Hybrid`, `Fallback`, `Assembly` and `Chat`, the refinements of `MessageLog`
   and of `Registry`, and the proofs listed above.
2. Open: `BroadcastTo` with `userConnsMu`, if the code comes to do there anything
   that `Broadcast` does not do; the registry of the hybrid server as a
   `Registry`, once it removes what the application rejects and what leaves the
   WebTransport server (`RejectedNotListed`), which today it does not.
