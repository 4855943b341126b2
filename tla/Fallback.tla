------------------------------ MODULE Fallback ------------------------------
(***************************************************************************)
(* The FallbackManager of hybrid/fallback.go: which protocol a client is    *)
(* told to use, and the record of failures that decides it.                 *)
(*                                                                          *)
(* A session is one run of a client through SelectProtocol, a connection    *)
(* and its end; a client may have several at a time.  The key of a failure  *)
(* is the ClientID where the application calls RecordFallback itself, and   *)
(* conn.UserID() where FallbackHandler does.  The configuration and the     *)
(* servers of the manager are given to it by Assembly.                      *)
(***************************************************************************)
EXTENDS Naturals, FiniteSets, Functions

CONSTANTS
  Clients,      \* ClientHello.ClientID
  Sessions,
  ClientOf,     \* the client of a session
  KeyOf,        \* the key its failure is recorded under; None for none
  None,
  SupportsWT,   \* the clients whose ClientHello has SupportsWT
  MaxRetries,   \* conf.MaxRetries
  MaxEntries,   \* 10000 in CleanupStaleClients
  MaxFallbacks  \* bound: fallbacks recorded in the statistics

ASSUME FallbackAssumption ==
  /\ IsFiniteSet(Sessions)
  /\ ClientOf \in [Sessions -> Clients]
  /\ SupportsWT \subseteq Clients
  /\ {MaxRetries, MaxEntries, MaxFallbacks} \subseteq Nat

Keys == {KeyOf[s] : s \in Sessions} \cup Clients

VARIABLES
  conf,           \* m.conf: protocol, strategy and what Assembly reads of it
  wtServer,       \* m.wtServer is not nil
  fallbackCount,  \* m.fallbackCount; a key that is not in the map has 0
  fallbackToWS,   \* m.stats.FallbackToWS, and WebTransportFailed with it
  pc,             \* where a session is
  failures        \* history: the WebTransport failures of each client to fall
                  \* back from since its count was last reset

server == <<conf, wtServer>>
manager == <<fallbackCount, fallbackToWS>>
fallbackVars == <<manager, pc, failures>>

Goto(s, label) == pc' = [pc EXCEPT ![s] = label]

-----------------------------------------------------------------------------
(* Mistakes in this code that the properties below exclude.                 *)

(* The comparison with MaxRetries is off by one.                            *)
selectAutoProtocolLate(c) ==
  IF c \in SupportsWT /\ fallbackCount[c] <= MaxRetries /\ wtServer
  THEN "webtransport" ELSE "websocket"

(* Statistics are kept of the first fallback of a client only.              *)
RecordStatsFirst(s) ==
  /\ pc[s] = "stats"
  /\ fallbackToWS' = IF fallbackCount[KeyOf[s]] > 1 THEN fallbackToWS ELSE fallbackToWS + 1
  /\ Goto(s, "idle")
  /\ UNCHANGED <<server, fallbackCount, failures>>

-----------------------------------------------------------------------------
(* SelectProtocol.                                                          *)

selectAutoProtocol(c) ==
  IF c \in SupportsWT /\ fallbackCount[c] < MaxRetries /\ wtServer
  THEN "webtransport" ELSE "websocket"

SelectProtocol(c) ==
  CASE conf.protocol = "websocket" -> "websocket"
    [] conf.protocol = "webtransport" -> IF c \in SupportsWT THEN "webtransport" ELSE "websocket"
    [] conf.protocol = "auto" -> selectAutoProtocol(c)

Negotiate(s) ==
  /\ pc[s] = "idle"
  /\ Goto(s, SelectProtocol(ClientOf[s]))
  /\ UNCHANGED <<server, manager, failures>>

-----------------------------------------------------------------------------
(* The end of a session: normal, or a failure that is recorded.             *)

Ends(s) ==
  /\ pc[s] \in {"websocket", "webtransport"}
  /\ Goto(s, "idle")
  /\ UNCHANGED <<server, manager, failures>>

(* ShouldFallback, asked with an error and a context that may be over; with *)
(* the strategy "timeout" it answers after FallbackTimeout.  An application *)
(* that records a failure itself asks first; FallbackHandler does not.      *)
ShouldFallback(over) == conf.strategy # "none" /\ ~over

WebTransportFails(s, over) ==
  /\ pc[s] = "webtransport"
  /\ fallbackToWS < MaxFallbacks
  /\ IF KeyOf[s] # None /\ (KeyOf[s] \in Clients => ShouldFallback(over))
     THEN /\ failures' = [failures EXCEPT ![ClientOf[s]] = @ + 1]
          /\ Goto(s, IF KeyOf[s] \in Clients /\ conf.strategy = "timeout" THEN "waiting" ELSE "failed")
     ELSE Goto(s, "idle") /\ UNCHANGED failures
  /\ UNCHANGED <<server, manager>>

FallbackTimeout(s) ==
  /\ pc[s] = "waiting"
  /\ Goto(s, "failed")
  /\ UNCHANGED <<server, manager, failures>>

RecordFallback(s) ==
  /\ pc[s] = "failed"
  /\ fallbackCount' = [fallbackCount EXCEPT ![KeyOf[s]] = @ + 1]
  /\ Goto(s, "stats")
  /\ UNCHANGED <<server, fallbackToWS, failures>>

RecordStats(s) ==
  /\ pc[s] = "stats"
  /\ fallbackToWS' = fallbackToWS + 1
  /\ Goto(s, "idle")
  /\ UNCHANGED <<server, fallbackCount, failures>>

ResetFallbackCount(c) ==
  /\ fallbackCount' = [fallbackCount EXCEPT ![c] = 0]
  /\ failures' = [failures EXCEPT ![c] = 0]
  /\ UNCHANGED <<server, fallbackToWS, pc>>

(* A key is in the map once its count is not 0.                             *)
CleanupStaleClients ==
  /\ Cardinality({k \in Keys : fallbackCount[k] > 0}) > MaxEntries
  /\ fallbackCount' = [k \in Keys |-> 0]
  /\ failures' = [c \in Clients |-> 0]
  /\ UNCHANGED <<server, fallbackToWS, pc>>

-----------------------------------------------------------------------------
FallbackInit ==
  /\ fallbackCount = [k \in Keys |-> 0]
  /\ fallbackToWS = 0
  /\ pc = [s \in Sessions |-> "idle"]
  /\ failures = [c \in Clients |-> 0]

FallbackNext ==
  \/ \E s \in Sessions :
       \/ Negotiate(s) \/ Ends(s)
       \/ (\E over \in BOOLEAN : WebTransportFails(s, over)) \/ FallbackTimeout(s)
       \/ RecordFallback(s) \/ RecordStats(s)
  \/ \E c \in Clients : ResetFallbackCount(c)
  \/ CleanupStaleClients

FallbackTypeOK ==
  /\ conf.protocol \in {"websocket", "webtransport", "auto"}
  /\ conf.strategy \in {"none", "auto", "timeout", "error"}
  /\ wtServer \in BOOLEAN
  /\ fallbackCount \in [Keys -> Nat]
  /\ fallbackToWS \in Nat
  /\ pc \in [Sessions -> {"idle", "websocket", "webtransport", "waiting", "failed", "stats"}]
  /\ failures \in [Clients -> Nat]

-----------------------------------------------------------------------------
(* Properties.                                                              *)

SessionsOf(c) == {s \in Sessions : ClientOf[s] = c}

(* In mode auto a client is sent to WebTransport until it failed MaxRetries *)
(* times and to WebSocket from then on; sessions that were under way when   *)
(* the last failure was recorded may fail too, and no others.               *)
FailuresBounded ==
  /\ FallbackTypeOK
  /\ conf.protocol = "auto" => \A c \in Range(ClientOf) :
       failures[c] + Cardinality({s \in SessionsOf(c) : pc[s] = "webtransport"})
         <= MaxRetries + Cardinality(SessionsOf(c)) - 1

(* The failures that fallbackCount counts, one by one: as many as its sum.  *)
Counted == UNION {{k} \X (1 .. fallbackCount[k]) : k \in Keys}

(* The counts that decide are in the statistics, or about to be, though     *)
(* RecordFallback writes the two under two locks one after the other and    *)
(* resets and cleanups come in between.                                     *)
StatsCoverCounts ==
  Cardinality(Counted) <= fallbackToWS + Cardinality({s \in Sessions : pc[s] = "stats"})

-----------------------------------------------------------------------------
(* What the repository says and the code does not do: TLC refutes this in   *)
(* the configuration that README.md gives.                                  *)

(* A client is told to use WebTransport where it is served.                 *)
ToldIsServed == \A s \in Sessions : pc[s] = "webtransport" => wtServer
=============================================================================
