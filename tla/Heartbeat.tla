----------------------------- MODULE Heartbeat ------------------------------
(***************************************************************************)
(* HeartbeatManager (stateful/heartbeat.go) on top of Hub: a goroutine      *)
(* that, tick after tick, walks the hub with ForEach and closes the         *)
(* connections whose last activity is too long ago.  ForEach calls the      *)
(* function with the shard's RLock held, so nothing enters or leaves a      *)
(* shard while the manager is in it; UpdateActivity takes no hub lock and   *)
(* runs at any time, also between the manager's look at a connection and    *)
(* its Close.                                                               *)
(*                                                                          *)
(* A hub without a manager is Hub itself.  With one, the users bound to a   *)
(* connection and the walks of other goroutines are left out: the manager   *)
(* reads neither, and readers of a shard do not keep each other out.        *)
(***************************************************************************)
EXTENDS Hub

CONSTANTS
  Manager,  \* the goroutine of HeartbeatManager.Start, one of the Walkers
  Watched,  \* the connections that come to a hub with a manager
  Timeout,  \* m.timeout
  MaxClock  \* bound: the time

ASSUME HeartbeatAssumption ==
  /\ Manager \in Walkers
  /\ Watched \subseteq Conns
  /\ Timeout \in Nat /\ MaxClock \in Nat

VARIABLES
  managed,       \* never changes: the application starts a HeartbeatManager
  clock,         \* time.Now()
  lastActivity,  \* the metadata "lastActivity" of a connection, or None
  closed,        \* conn.Close was called
  now,           \* the manager's now
  held,          \* the shard whose RLock the manager holds, or None
  unseen,        \* the connections of that shard it has not come to
  doomed,        \* the connection it has found timed out and is about to close
  closing,       \* the connection whose Close it is in
  running,       \* ctx is not cancelled
  wasIdle        \* history: it once was without activity for over Timeout

time == <<clock, lastActivity, wasIdle>>
manager == <<now, held, unseen, doomed, closing>>
beat == <<time, manager, closed, running>>
allVars == <<managed, vars, beat>>

-----------------------------------------------------------------------------
(* Mistakes in this code that the properties below exclude.                 *)

(* The comparison is off by one.                                            *)
TimedOutEarly(t, c) == lastActivity[c] # None /\ t - lastActivity[c] >= Timeout

(* Start checks when it begins, and the ticker never fires.                 *)
checkConnectionsOnce ==
  /\ clock = 0
  /\ WalkStarts(Manager, All)
  /\ now' = clock
  /\ UNCHANGED <<time, held, unseen, doomed, closing, closed, running>>

-----------------------------------------------------------------------------
(* now.Sub(lastActivity) > m.timeout, for a connection that has metadata    *)
(* with its last activity.                                                  *)
TimedOut(t, c) == lastActivity[c] # None /\ t - lastActivity[c] > Timeout

(* Without activity for longer than the timeout: what TimedOut should tell. *)
Idle(t, c) == lastActivity[c] # None /\ lastActivity[c] + Timeout < t

(* The clock, and what the connection's own goroutine does.                 *)

Tick ==
  /\ clock < MaxClock
  /\ clock' = clock + 1
  /\ wasIdle' = [c \in Conns |-> wasIdle[c] \/ Idle(clock + 1, c)]
  /\ UNCHANGED <<vars, lastActivity, manager, closed, running>>

UpdateActivity(c) ==
  /\ life[c] = "in" /\ lastActivity[c] # clock
  /\ lastActivity' = [lastActivity EXCEPT ![c] = clock]
  /\ UNCHANGED <<vars, clock, wasIdle, manager, closed, running>>

(* Register and Unregister wait for the lock of the shard they change.      *)
HubStep(c) ==
  /\ ShardOf[c] # held
  /\ Register(c) \/ Unregister(c)
  /\ UNCHANGED beat

-----------------------------------------------------------------------------
(* checkConnections.  The select of Start may take a tick that is there     *)
(* also after ctx is cancelled.                                             *)

checkConnections ==
  /\ WalkStarts(Manager, All)
  /\ now' = clock
  /\ UNCHANGED <<time, held, unseen, doomed, closing, closed, running>>

EnterShard ==
  /\ what[Manager] # None /\ held = None /\ next[Manager] \in Shards
  /\ held' = next[Manager]
  /\ unseen' = connections[next[Manager]]
  /\ UNCHANGED <<vars, time, now, doomed, closing, closed, running>>

(* It looks at the metadata of one connection.                              *)
Check(c) ==
  /\ held # None /\ doomed = None /\ closing = None /\ c \in unseen
  /\ unseen' = unseen \ {c}
  /\ doomed' = IF TimedOut(now, c) THEN c ELSE None
  /\ UNCHANGED <<vars, time, now, held, closing, closed, running>>

(* Close takes as long as it takes, with the RLock of the shard held.       *)
CloseTimedOut ==
  /\ doomed # None
  /\ closed' = [closed EXCEPT ![doomed] = TRUE]
  /\ doomed' = None
  /\ closing' = doomed
  /\ UNCHANGED <<vars, time, now, held, unseen, running>>

CloseReturns ==
  /\ closing # None
  /\ closing' = None
  /\ UNCHANGED <<vars, time, now, held, unseen, doomed, closed, running>>

LeaveShard ==
  /\ held # None /\ unseen = {} /\ doomed = None /\ closing = None
  /\ held' = None
  /\ WalkShard(Manager)
  /\ UNCHANGED <<time, now, unseen, doomed, closing, closed, running>>

checkReturns ==
  /\ WalkEnds(Manager)
  /\ UNCHANGED <<time, manager, closed, running>>

(* Start returns when it is back in its select and sees it.                 *)
Cancel ==
  /\ running
  /\ running' = FALSE
  /\ UNCHANGED <<vars, time, manager, closed>>

-----------------------------------------------------------------------------
HeartbeatInit ==
  /\ Init
  /\ managed \in BOOLEAN
  /\ clock = 0
  /\ lastActivity = [c \in Conns |-> None]
  /\ wasIdle = [c \in Conns |-> FALSE]
  /\ closed = [c \in Conns |-> FALSE]
  /\ now = 0 /\ held = None /\ unseen = {} /\ doomed = None /\ closing = None
  /\ running = managed

Walk == EnterShard \/ (\E c \in Conns : Check(c)) \/ CloseTimedOut \/ LeaveShard \/ checkReturns

HeartbeatNext ==
  /\ \/ ~managed /\ Next /\ UNCHANGED beat
     \/ managed /\ \/ Tick \/ (\E c \in Watched : UpdateActivity(c) \/ HubStep(c))
                   \/ checkConnections \/ Walk \/ CloseReturns \/ Cancel
  /\ UNCHANGED managed

(* The ticker fires again and again, time goes on, and the manager walks.   *)
(* Nothing is assumed about the connections, about their Close (it may take *)
(* for ever) or about Cancel, nor that a tick is taken after a Cancel.      *)
HeartbeatSpec ==
  /\ HeartbeatInit /\ [][HeartbeatNext]_allVars
  /\ WF_<<vars, beat>>(running /\ checkConnections) /\ WF_<<vars, beat>>(Walk)

-----------------------------------------------------------------------------
(* Properties.                                                              *)

(* The manager closes no connection that reported activity within every     *)
(* Timeout, in whatever order ticks, walks and reports come; nor one that   *)
(* has never reported any.                                                  *)
SteadyStaysOpen == \A c \in Conns : closed[c] => wasIdle[c]

(* A registered connection that has been idle for too long is closed,       *)
(* unless it reports activity, leaves, the manager is stopped, or the Close *)
(* of a connection that it came to before never returns.                    *)
IdleClosed ==
  \A c \in Conns :
    (life[c] = "in" /\ Idle(clock, c))
      ~> (closed[c] \/ life[c] = "out" \/ ~Idle(clock, c) \/ ~running \/ [](closing # None))

-----------------------------------------------------------------------------
(* What the repository says and the code does not do: TLC refutes each of   *)
(* these in the configuration that README.md gives.                         *)

(* A connection that is closed for its silence has not just been active.    *)
ClosedStillIdle == [][\A c \in Conns : closed'[c] /\ ~closed[c] => Idle(clock, c)]_allVars

(* All connections are checked, those that have never reported included.    *)
SilentClosed ==
  \A c \in Conns :
    (life[c] = "in" /\ clock = MaxClock)
      ~> (closed[c] \/ life[c] = "out" \/ lastActivity[c] # None \/ ~running \/ [](closing # None))
=============================================================================
