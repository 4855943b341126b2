--------------------------- MODULE AssemblyProofs ---------------------------
(***************************************************************************)
(* The life of a hybrid server for every configuration, every number of     *)
(* clients and sessions, and every MaxRetries.                              *)
(***************************************************************************)
EXTENDS Assembly, FiniteSetTheorems, TLAPS

(* Where the files are while NewServer works, and who is in the group.      *)
GroupOrder ==
  /\ stopping \subseteq added
  /\ stopping # {} => ended
  /\ stage # "built" => added = {} /\ ~ended /\ ~wtServer

FilesMade ==
  /\ stage \in {"new", "cert"} => files = {} /\ tempFiles = {}
  /\ stage = "key" => files = FromEnv \ {"key"} /\ tempFiles = FromEnv \ {"key"} /\ conf.cert # "none"
  /\ stage = "load" => files = FromEnv /\ tempFiles = FromEnv

FilesInv ==
  /\ conf \in Confs
  /\ stage \in {"new", "cert", "key", "load", "built"}
  /\ wtServer \in BOOLEAN
  /\ GroupOrder /\ FilesMade /\ FilesLast

Pending(c) == {s \in SessionsOf(c) : pc[s] \in {"waiting", "failed"}}
Trying(c) == {s \in SessionsOf(c) : pc[s] = "webtransport"}

(* A failure is counted, or about to be.                                    *)
Counting ==
  \A c \in Range(ClientOf) : failures[c] <= fallbackCount[c] + Cardinality(Pending(c))

Bounded ==
  conf.protocol = "auto" => \A c \in Range(ClientOf) :
    failures[c] + Cardinality(Trying(c)) <= MaxRetries + Cardinality(SessionsOf(c)) - 1

(* Only a failure that has a key is recorded.                               *)
Keyed == \A s \in Sessions : pc[s] \in {"waiting", "failed"} => KeyOf[s] # None

FailuresInv == conf \in Confs /\ FallbackTypeOK /\ Keyed /\ Counting /\ Bounded

-----------------------------------------------------------------------------
(* The files.                                                               *)

(* A negotiation and what follows it leave the servers alone.               *)
LEMMA FallbackLeavesServer ==
  ASSUME FallbackNext
  PROVE  conf' = conf /\ wtServer' = wtServer
BY DEF FallbackNext, Negotiate, Ends, WebTransportFails, FallbackTimeout, RecordFallback,
       RecordStats, ResetFallbackCount, CleanupStaleClients, server

(* FilesInv holds at the start and is kept by every step.                   *)
LEMMA FilesInvInit == Init => FilesInv
BY DEF Init, FilesInv, GroupOrder, FilesMade, FilesLast

(* Every step keeps it.                                                     *)
LEMMA FilesInvNext == FilesInv /\ [Next]_vars => FilesInv'
<1> SUFFICES ASSUME FilesInv, [Next]_vars PROVE FilesInv'
  OBVIOUS
<1> USE DEF FilesInv
<1>0. conf.cert \in {"env", "file", "none"} /\ conf.key \in {"env", "file", "none"}
  BY ConfsAssumption
<1>1. CASE NewServer
  BY <1>1 DEF NewServer, GroupOrder, FilesMade, FilesLast, FromEnv, server, disk, group
<1>2. ASSUME WtFails, stage # "built" PROVE FilesInv'
  BY <1>2 DEF WtFails, GroupOrder, FilesMade, FilesLast, FromEnv, server, disk, group
<1>3. CASE resolveCertFile
  <2>1. CASE WtFails
    BY <1>2, <1>3, <2>1 DEF resolveCertFile, Resolve
  <2>2. CASE ~WtFails
    BY <1>0, <1>3, <2>2
    DEF resolveCertFile, Resolve, GroupOrder, FilesMade, FilesLast, FromEnv, server, disk, group
  <2> QED BY <2>1, <2>2
<1>4. CASE resolveKeyFile
  <2>1. CASE WtFails
    BY <1>2, <1>4, <2>1 DEF resolveKeyFile, Resolve
  <2>2. CASE ~WtFails
    BY <1>0, <1>4, <2>2
    DEF resolveKeyFile, Resolve, GroupOrder, FilesMade, FilesLast, FromEnv, server, disk, group
  <2> QED BY <2>1, <2>2
<1>5. ASSUME NEW ok \in BOOLEAN, LoadX509KeyPair(ok) PROVE FilesInv'
  <2>1. CASE ok
    BY <1>5, <2>1
    DEF LoadX509KeyPair, GroupOrder, FilesMade, FilesLast, FromEnv, disk, group
  <2>2. CASE ~ok
    BY <1>2, <1>5, <2>2 DEF LoadX509KeyPair
  <2> QED BY <2>1, <2>2
<1>6. CASE Start
  BY <1>6 DEF Start, GroupOrder, FilesMade, FilesLast, FromEnv, server, disk
<1>7. CASE Stop
  BY <1>7 DEF Stop, GroupStops, GroupOrder, FilesMade, FilesLast, FromEnv, server, disk
<1>8. CASE Shutdown
  BY <1>8 DEF Shutdown, GroupStops, GroupOrder, FilesMade, FilesLast, FromEnv, server, disk
<1>9. ASSUME NEW x \in Services, Serve(x) \/ ServeFails(x) PROVE FilesInv'
  BY <1>9 DEF Serve, ServeFails, GroupOrder, FilesMade, FilesLast, FromEnv, server, disk
<1>10. CASE WsStop
  BY <1>10 DEF WsStop, GroupOrder, FilesMade, FilesLast, FromEnv, server, disk
<1>11. CASE WtStop
  BY <1>11 DEF WtStop, Cleanup, GroupOrder, FilesMade, FilesLast, FromEnv, server
<1>12. CASE stage = "built" /\ FallbackNext /\ UNCHANGED <<stage, disk, group>>
  BY <1>12, FallbackLeavesServer DEF GroupOrder, FilesMade, FilesLast, FromEnv, disk, group
<1>13. CASE UNCHANGED vars
  BY <1>13 DEF vars, GroupOrder, FilesMade, FilesLast, FromEnv, server, disk, group
<1> QED
  BY <1>1, <1>3, <1>4, <1>5, <1>6, <1>7, <1>8, <1>9, <1>10, <1>11, <1>12, <1>13 DEF Next

(* Whatever the configuration, and whenever Stop comes, the certificate and *)
(* the key that wt.NewServer wrote to temporary files are on the disk, and  *)
(* in the list of those to remove, until the Stop of the server.            *)
THEOREM FilesCorrect == Spec => []FilesLast
<1>1. FilesInv => FilesLast
  BY DEF FilesInv
<1> QED BY <1>1, FilesInvInit, FilesInvNext, PTL DEF Spec

-----------------------------------------------------------------------------
(* The failures.                                                            *)

(* A failure is recorded under the client that SelectProtocol asks about,   *)
(* or not at all.                                                           *)
KeysMatch == \A s \in Sessions : KeyOf[s] \in {ClientOf[s], None}

(* Counting a set to which an element was added, or from which one was      *)
(* taken.                                                                   *)
LEMMA ElementCounted ==
  ASSUME NEW A, IsFiniteSet(A)
  PROVE  /\ Cardinality(A) \in Nat
         /\ \A x : x \notin A => Cardinality(A \cup {x}) = Cardinality(A) + 1
         /\ \A x \in A : Cardinality(A \ {x}) = Cardinality(A) - 1
<1>1. Cardinality(A) \in Nat
  BY FS_CardinalityType
<1>2. ASSUME NEW x, x \notin A PROVE Cardinality(A \cup {x}) = Cardinality(A) + 1
  BY <1>2, FS_AddElement
<1>3. ASSUME NEW x \in A PROVE Cardinality(A \ {x}) = Cardinality(A) - 1
  BY <1>3, FS_RemoveElement
<1> QED BY <1>1, <1>2, <1>3

(* The sessions of a client are finitely many, and so are those that try    *)
(* and those that have failed; a session in neither state leaves room.      *)
LEMMA SessionsFinite ==
  ASSUME NEW c
  PROVE  /\ IsFiniteSet(SessionsOf(c)) /\ IsFiniteSet(Pending(c)) /\ IsFiniteSet(Trying(c))
         /\ \A s \in SessionsOf(c) : s \notin Pending(c) /\ s \notin Trying(c)
              => Cardinality(Pending(c)) + Cardinality(Trying(c)) <= Cardinality(SessionsOf(c)) - 1
<1>1. IsFiniteSet(SessionsOf(c))
  BY FallbackAssumption, FS_Subset DEF SessionsOf
<1>2. IsFiniteSet(Pending(c)) /\ IsFiniteSet(Trying(c))
  <2>1. Pending(c) \subseteq SessionsOf(c) /\ Trying(c) \subseteq SessionsOf(c)
    BY DEF Pending, Trying
  <2> QED BY <1>1, <2>1, FS_Subset
<1>3. ASSUME NEW s \in SessionsOf(c), s \notin Pending(c), s \notin Trying(c)
      PROVE  Cardinality(Pending(c)) + Cardinality(Trying(c)) <= Cardinality(SessionsOf(c)) - 1
  <2> DEFINE Both == Pending(c) \cup Trying(c)
  <2>1. Pending(c) \cap Trying(c) = {}
    BY DEF Pending, Trying
  <2>2. IsFiniteSet(Both) /\ Cardinality(Both) = Cardinality(Pending(c)) + Cardinality(Trying(c))
    <3>1. IsFiniteSet(Both) /\ Cardinality(Both)
            = Cardinality(Pending(c)) + Cardinality(Trying(c)) - Cardinality(Pending(c) \cap Trying(c))
      BY <1>2, FS_Union
    <3>2. Cardinality(Pending(c) \cap Trying(c)) = 0
      BY <2>1, FS_EmptySet, Zenon
    <3>3. Cardinality(Pending(c)) \in Nat /\ Cardinality(Trying(c)) \in Nat
      BY <1>2, FS_CardinalityType
    <3> HIDE DEF Both
    <3> QED BY <2>1, <3>1, <3>2, <3>3
  <2>3. Both \subseteq SessionsOf(c) \ {s}
    BY <1>3 DEF Pending, Trying
  <2>4. IsFiniteSet(SessionsOf(c) \ {s})
          /\ Cardinality(SessionsOf(c) \ {s}) = Cardinality(SessionsOf(c)) - 1
    BY <1>1, ElementCounted, FS_RemoveElement
  <2>5. Cardinality(Both) <= Cardinality(SessionsOf(c) \ {s})
    BY <2>3, <2>4, FS_Subset
  <2> HIDE DEF Both
  <2> QED BY <2>2, <2>4, <2>5
<1> QED BY <1>1, <1>2, <1>3

(* A step of session s to label l: what becomes of the two sets of client c. *)
LEMMA Moves ==
  ASSUME FallbackTypeOK, NEW s \in Sessions, NEW l, Goto(s, l), NEW c
  PROVE  /\ c # ClientOf[s] => Pending(c)' = Pending(c) /\ Trying(c)' = Trying(c)
         /\ c = ClientOf[s] =>
              /\ Pending(c)' = IF l \in {"waiting", "failed"} THEN Pending(c) \cup {s} ELSE Pending(c) \ {s}
              /\ Trying(c)' = IF l = "webtransport" THEN Trying(c) \cup {s} ELSE Trying(c) \ {s}
              /\ s \in Pending(c) <=> pc[s] \in {"waiting", "failed"}
              /\ s \in Trying(c) <=> pc[s] = "webtransport"
BY DEF FallbackTypeOK, Goto, Pending, Trying, SessionsOf

(* The clients of sessions are clients, and keys.                           *)
LEMMA ClientTypes ==
  /\ Range(ClientOf) \subseteq Clients
  /\ Clients \subseteq Keys
  /\ \A s \in Sessions : ClientOf[s] \in Range(ClientOf) /\ KeyOf[s] \in Keys
  /\ MaxRetries \in Nat
BY FallbackAssumption DEF Range, Keys

(* Everything but the negotiations leaves the failures alone.               *)
LEMMA FailuresFrame ==
  ASSUME FailuresInv, conf' = conf, wtServer' \in BOOLEAN, UNCHANGED fallbackVars
  PROVE  FailuresInv'
<1>1. pc' = pc /\ failures' = failures /\ fallbackCount' = fallbackCount /\ fallbackToWS' = fallbackToWS
  BY DEF fallbackVars, manager
<1>2. \A c : Pending(c)' = Pending(c) /\ Trying(c)' = Trying(c)
  BY <1>1 DEF Pending, Trying, SessionsOf
<1> QED BY <1>1, <1>2 DEF FailuresInv, FallbackTypeOK, Keyed, Counting, Bounded

(* What the two sets of a client count after a session has moved.           *)
LEMMA MovesCounted ==
  ASSUME FallbackTypeOK, NEW s \in Sessions, NEW l, Goto(s, l), NEW c
  PROVE  LET P == Cardinality(Pending(c))
             T == Cardinality(Trying(c))
             pend == {"waiting", "failed"}
         IN /\ P \in Nat /\ T \in Nat
            /\ c # ClientOf[s] => Cardinality(Pending(c)') = P /\ Cardinality(Trying(c)') = T
            /\ c = ClientOf[s] =>
                 /\ Cardinality(Pending(c)') =
                      CASE pc[s] \in pend /\ l \notin pend -> P - 1
                        [] pc[s] \notin pend /\ l \in pend -> P + 1
                        [] OTHER -> P
                 /\ Cardinality(Trying(c)') =
                      CASE pc[s] = "webtransport" /\ l # "webtransport" -> T - 1
                        [] pc[s] # "webtransport" /\ l = "webtransport" -> T + 1
                        [] OTHER -> T
<1> DEFINE P == Pending(c)
           T == Trying(c)
<1>1. IsFiniteSet(P) /\ IsFiniteSet(T)
  BY SessionsFinite
<1>2. Cardinality(P) \in Nat /\ Cardinality(T) \in Nat
  BY <1>1, FS_CardinalityType
<1>3. (s \in P => P \cup {s} = P) /\ (s \notin P => P \ {s} = P)
      /\ (s \in T => T \cup {s} = T) /\ (s \notin T => T \ {s} = T)
  OBVIOUS
<1>4. /\ s \notin P => Cardinality(P \cup {s}) = Cardinality(P) + 1
      /\ s \in P => Cardinality(P \ {s}) = Cardinality(P) - 1
  BY <1>1, ElementCounted
<1>5. /\ s \notin T => Cardinality(T \cup {s}) = Cardinality(T) + 1
      /\ s \in T => Cardinality(T \ {s}) = Cardinality(T) - 1
  BY <1>1, ElementCounted
<1>6. CASE c # ClientOf[s]
  BY <1>2, <1>6, Moves
<1>7. CASE c = ClientOf[s]
  <2>1. Cardinality(Pending(c)') =
          CASE pc[s] \in {"waiting", "failed"} /\ l \notin {"waiting", "failed"} -> Cardinality(P) - 1
            [] pc[s] \notin {"waiting", "failed"} /\ l \in {"waiting", "failed"} -> Cardinality(P) + 1
            [] OTHER -> Cardinality(P)
    <3> HIDE DEF P
    <3>1. (s \in P <=> pc[s] \in {"waiting", "failed"})
          /\ Pending(c)' = IF l \in {"waiting", "failed"} THEN P \cup {s} ELSE P \ {s}
      BY <1>7, Moves DEF P
    <3> QED BY <1>3, <1>4, <3>1
  <2>2. Cardinality(Trying(c)') =
          CASE pc[s] = "webtransport" /\ l # "webtransport" -> Cardinality(T) - 1
            [] pc[s] # "webtransport" /\ l = "webtransport" -> Cardinality(T) + 1
            [] OTHER -> Cardinality(T)
    <3> HIDE DEF T
    <3>1. (s \in T <=> pc[s] = "webtransport")
          /\ Trying(c)' = IF l = "webtransport" THEN T \cup {s} ELSE T \ {s}
      BY <1>7, Moves DEF T
    <3> QED BY <1>3, <1>5, <3>1
  <2> QED BY <1>2, <1>7, <2>1, <2>2
<1> QED BY <1>6, <1>7

(* The part of the invariant that is about one client.                      *)
ClientInv(c) ==
  /\ failures[c] <= fallbackCount[c] + Cardinality(Pending(c))
  /\ conf.protocol = "auto" =>
       failures[c] + Cardinality(Trying(c)) <= MaxRetries + Cardinality(SessionsOf(c)) - 1

(* FailuresInv, client by client.                                           *)
LEMMA ByClient ==
  FailuresInv <=> /\ conf \in Confs /\ FallbackTypeOK /\ Keyed
                  /\ \A c \in Range(ClientOf) : ClientInv(c)
BY DEF FailuresInv, Counting, Bounded, ClientInv

(* The negotiations keep FailuresInv.                                       *)
LEMMA FailuresStep ==
  ASSUME KeysMatch, FailuresInv, FallbackNext
  PROVE  FailuresInv'
<1> USE ClientTypes
<1>0. /\ conf \in Confs /\ FallbackTypeOK /\ Keyed /\ conf' = conf /\ wtServer' = wtServer
      /\ \A c \in Range(ClientOf) : ClientInv(c)
  BY ByClient, FallbackLeavesServer
<1>a. \A c : Cardinality(SessionsOf(c)) \in Nat /\ Cardinality(Pending(c)) \in Nat /\ Cardinality(Trying(c)) \in Nat
  BY SessionsFinite, FS_CardinalityType
<1>b. SUFFICES FallbackTypeOK' /\ Keyed' /\ \A c \in Range(ClientOf) : ClientInv(c)'
  BY <1>0 DEF FailuresInv, Counting, Bounded, ClientInv
<1>1. ASSUME NEW s \in Sessions, Negotiate(s) PROVE FallbackTypeOK' /\ Keyed' /\ \A c \in Range(ClientOf) : ClientInv(c)'
  <2> DEFINE l == SelectProtocol(ClientOf[s])
  <2>1. /\ pc[s] = "idle" /\ Goto(s, l) /\ l \in {"websocket", "webtransport"}
        /\ fallbackCount' = fallbackCount /\ fallbackToWS' = fallbackToWS /\ failures' = failures
    BY <1>0, <1>1 DEF Negotiate, manager, server, SelectProtocol, selectAutoProtocol, FallbackTypeOK
  <2>2. conf.protocol = "auto" /\ l = "webtransport" => fallbackCount[ClientOf[s]] < MaxRetries
    BY DEF SelectProtocol, selectAutoProtocol
  <2> HIDE DEF l
  <2>3. FallbackTypeOK' /\ Keyed'
    BY <1>0, <2>1 DEF FallbackTypeOK, Keyed, Goto
  <2>4. ASSUME NEW c \in Range(ClientOf) PROVE ClientInv(c)'
    <3>1. failures[c] \in Nat /\ fallbackCount[c] \in Nat
      BY <1>0 DEF FallbackTypeOK
    <3>2. CASE c # ClientOf[s] \/ l = "websocket"
      <4>1. Cardinality(Pending(c)') = Cardinality(Pending(c)) /\ Cardinality(Trying(c)') = Cardinality(Trying(c))
        BY <1>0, <2>1, <3>2, MovesCounted
      <4> QED BY <1>0, <2>1, <4>1 DEF ClientInv, SessionsOf
    <3>3. CASE c = ClientOf[s] /\ l = "webtransport"
      <4>1. Cardinality(Pending(c)') = Cardinality(Pending(c)) /\ Cardinality(Trying(c)') = Cardinality(Trying(c)) + 1
        BY <1>0, <2>1, <3>3, MovesCounted
      <4>2. Cardinality(Pending(c)) + Cardinality(Trying(c)) <= Cardinality(SessionsOf(c)) - 1
        BY <2>1, <3>3, SessionsFinite DEF Pending, Trying, SessionsOf
      <4>3. failures[c] <= fallbackCount[c] + Cardinality(Pending(c))
        BY <1>0 DEF ClientInv
      <4>4. conf.protocol = "auto" => fallbackCount[c] < MaxRetries
        BY <2>2, <3>3
      <4>5. SessionsOf(c)' = SessionsOf(c)
        BY DEF SessionsOf
      <4>6. conf.protocol = "auto" => failures[c] + (Cardinality(Trying(c)) + 1) <= MaxRetries + Cardinality(SessionsOf(c)) - 1
        BY <1>a, <3>1, <4>2, <4>3, <4>4
      <4> QED BY <1>0, <2>1, <4>1, <4>3, <4>5, <4>6 DEF ClientInv
    <3> QED BY <2>1, <3>2, <3>3
  <2> QED BY <2>3, <2>4
<1>2. ASSUME NEW s \in Sessions, Ends(s) \/ FallbackTimeout(s) \/ RecordStats(s)
      PROVE FallbackTypeOK' /\ Keyed' /\ \A c \in Range(ClientOf) : ClientInv(c)'
  <2>1. PICK l \in {"idle", "failed"} :
          /\ Goto(s, l) /\ fallbackCount' = fallbackCount /\ failures' = failures
          /\ fallbackToWS' \in Nat
          /\ IF l = "idle" THEN pc[s] \in {"websocket", "webtransport", "stats"} ELSE pc[s] = "waiting"
    <3>1. fallbackToWS \in Nat /\ fallbackToWS + 1 \in Nat
      BY <1>0 DEF FallbackTypeOK
    <3> QED BY <1>2, <3>1 DEF Ends, FallbackTimeout, RecordStats, manager
  <2>2. FallbackTypeOK' /\ Keyed'
    BY <1>0, <2>1 DEF FallbackTypeOK, Keyed, Goto
  <2>3. ASSUME NEW c \in Range(ClientOf) PROVE ClientInv(c)'
    <3>1. failures[c] \in Nat /\ fallbackCount[c] \in Nat
      BY <1>0 DEF FallbackTypeOK
    <3>2. Cardinality(Pending(c)') = Cardinality(Pending(c))
          /\ Cardinality(Trying(c)') \in {Cardinality(Trying(c)), Cardinality(Trying(c)) - 1}
      BY <1>0, <2>1, MovesCounted
    <3>3. SessionsOf(c)' = SessionsOf(c)
      BY DEF SessionsOf
    <3> QED BY <1>0, <1>a, <2>1, <3>1, <3>2, <3>3 DEF ClientInv
  <2> QED BY <2>2, <2>3
<1>3. ASSUME NEW s \in Sessions, NEW over \in BOOLEAN, WebTransportFails(s, over)
      PROVE FallbackTypeOK' /\ Keyed' /\ \A c \in Range(ClientOf) : ClientInv(c)'
  <2>1. PICK l \in {"idle", "waiting", "failed"} :
          /\ pc[s] = "webtransport" /\ Goto(s, l) /\ fallbackCount' = fallbackCount /\ fallbackToWS' = fallbackToWS
          /\ IF l = "idle" THEN failures' = failures
             ELSE KeyOf[s] # None /\ failures' = [failures EXCEPT ![ClientOf[s]] = @ + 1]
    BY <1>3 DEF WebTransportFails, manager
  <2>2. FallbackTypeOK' /\ Keyed'
    <3>1. failures' \in [Clients -> Nat]
      BY <1>0, <2>1 DEF FallbackTypeOK
    <3> QED BY <1>0, <2>1, <3>1 DEF FallbackTypeOK, Keyed, Goto
  <2>3. ASSUME NEW c \in Range(ClientOf) PROVE ClientInv(c)'
    <3>1. failures[c] \in Nat /\ fallbackCount[c] \in Nat /\ failures \in [Clients -> Nat]
      BY <1>0 DEF FallbackTypeOK
    <3>2. SessionsOf(c)' = SessionsOf(c)
      BY DEF SessionsOf
    <3>3. CASE c # ClientOf[s]
      <4>1. Cardinality(Pending(c)') = Cardinality(Pending(c)) /\ Cardinality(Trying(c)') = Cardinality(Trying(c))
        BY <1>0, <2>1, <3>3, MovesCounted
      <4>2. failures'[c] = failures[c]
        BY <2>1, <3>1, <3>3
      <4> QED BY <1>0, <2>1, <3>2, <4>1, <4>2 DEF ClientInv
    <3>4. CASE c = ClientOf[s]
      <4>1. /\ Cardinality(Pending(c)') = IF l = "idle" THEN Cardinality(Pending(c)) ELSE Cardinality(Pending(c)) + 1
            /\ Cardinality(Trying(c)') = Cardinality(Trying(c)) - 1
        BY <1>0, <2>1, <3>4, MovesCounted
      <4>2. failures'[c] = IF l = "idle" THEN failures[c] ELSE failures[c] + 1
        BY <2>1, <3>1, <3>4
      <4> QED BY <1>0, <1>a, <2>1, <3>1, <3>2, <4>1, <4>2 DEF ClientInv
    <3> QED BY <3>3, <3>4
  <2> QED BY <2>2, <2>3
<1>4. ASSUME NEW s \in Sessions, RecordFallback(s)
      PROVE FallbackTypeOK' /\ Keyed' /\ \A c \in Range(ClientOf) : ClientInv(c)'
  <2>1. /\ pc[s] = "failed" /\ Goto(s, "stats") /\ failures' = failures /\ fallbackToWS' = fallbackToWS
        /\ fallbackCount' = [fallbackCount EXCEPT ![KeyOf[s]] = @ + 1]
    BY <1>4 DEF RecordFallback
  <2>2. FallbackTypeOK' /\ Keyed'
    <3>1. fallbackCount' \in [Keys -> Nat]
      BY <1>0, <2>1 DEF FallbackTypeOK
    <3> QED BY <1>0, <2>1, <3>1 DEF FallbackTypeOK, Keyed, Goto
  <2>3. KeyOf[s] = ClientOf[s]
    BY <1>0, <2>1 DEF Keyed, KeysMatch
  <2>4. ASSUME NEW c \in Range(ClientOf) PROVE ClientInv(c)'
    <3>1. failures[c] \in Nat /\ fallbackCount[c] \in Nat /\ fallbackCount \in [Keys -> Nat]
      BY <1>0 DEF FallbackTypeOK
    <3>2. SessionsOf(c)' = SessionsOf(c)
      BY DEF SessionsOf
    <3>3. /\ Cardinality(Pending(c)') = IF c = ClientOf[s] THEN Cardinality(Pending(c)) - 1 ELSE Cardinality(Pending(c))
          /\ Cardinality(Trying(c)') = Cardinality(Trying(c))
      BY <1>0, <2>1, MovesCounted
    <3>4. fallbackCount'[c] = IF c = ClientOf[s] THEN fallbackCount[c] + 1 ELSE fallbackCount[c]
      BY <2>1, <2>3, <3>1
    <3> QED BY <1>0, <1>a, <2>1, <3>1, <3>2, <3>3, <3>4 DEF ClientInv
  <2> QED BY <2>2, <2>4
<1>5. ASSUME CleanupStaleClients \/ \E d \in Clients : ResetFallbackCount(d)
      PROVE FallbackTypeOK' /\ Keyed' /\ \A c \in Range(ClientOf) : ClientInv(c)'
  <2> DEFINE Zeroed(c) == failures'[c] = 0 /\ fallbackCount'[c] = 0
             Kept(c) == failures'[c] = failures[c] /\ fallbackCount'[c] = fallbackCount[c]
  <2>1. /\ pc' = pc /\ fallbackToWS' = fallbackToWS
        /\ fallbackCount' \in [Keys -> Nat] /\ failures' \in [Clients -> Nat]
        /\ \A c \in Clients : Zeroed(c) \/ Kept(c)
    <3>0. fallbackCount \in [Keys -> Nat] /\ failures \in [Clients -> Nat]
      BY <1>0 DEF FallbackTypeOK
    <3>1. CASE CleanupStaleClients
      <4>1. /\ pc' = pc /\ fallbackToWS' = fallbackToWS
            /\ fallbackCount' = [k \in Keys |-> 0] /\ failures' = [c \in Clients |-> 0]
        BY <3>1 DEF CleanupStaleClients
      <4>2. fallbackCount' \in [Keys -> Nat] /\ failures' \in [Clients -> Nat]
        BY <4>1
      <4>3. \A c \in Clients : Zeroed(c)
        BY <4>1
      <4> HIDE DEF Zeroed, Kept
      <4> QED BY <4>1, <4>2, <4>3
    <3>2. CASE \E d \in Clients : ResetFallbackCount(d)
      <4>1. PICK d \in Clients :
              /\ pc' = pc /\ fallbackToWS' = fallbackToWS
              /\ fallbackCount' = [fallbackCount EXCEPT ![d] = 0] /\ failures' = [failures EXCEPT ![d] = 0]
        BY <3>2 DEF ResetFallbackCount
      <4>2. fallbackCount' \in [Keys -> Nat] /\ failures' \in [Clients -> Nat]
        BY <3>0, <4>1
      <4>3. \A c \in Clients : Zeroed(c) \/ Kept(c)
        BY <3>0, <4>1
      <4> HIDE DEF Zeroed, Kept
      <4> QED BY <4>1, <4>2, <4>3
    <3> HIDE DEF Zeroed, Kept
    <3> QED BY <1>5, <3>1, <3>2
  <2>2. FallbackTypeOK' /\ Keyed'
    BY <1>0, <2>1 DEF FallbackTypeOK, Keyed
  <2>3. ASSUME NEW c \in Range(ClientOf) PROVE ClientInv(c)'
    <3>1. failures[c] \in Nat /\ fallbackCount[c] \in Nat
      BY <1>0 DEF FallbackTypeOK
    <3>2. SessionsOf(c)' = SessionsOf(c) /\ Pending(c)' = Pending(c) /\ Trying(c)' = Trying(c)
      BY <2>1 DEF SessionsOf, Pending, Trying
    <3> QED BY <1>0, <1>a, <2>1, <3>1, <3>2 DEF ClientInv
  <2> QED BY <2>2, <2>3
<1> QED BY <1>1, <1>2, <1>3, <1>4, <1>5 DEF FallbackNext

(* FailuresInv holds when NewServer has returned.                           *)
LEMMA FailuresInvInit == Init => FailuresInv
<1> SUFFICES ASSUME Init PROVE FailuresInv
  OBVIOUS
<1>1. conf \in Confs /\ FallbackTypeOK /\ Keyed
  BY ConfsAssumption DEF Init, FallbackInit, FallbackTypeOK, Keyed
<1>2. ASSUME NEW c \in Range(ClientOf) PROVE ClientInv(c)
  <2>1. PICK s \in Sessions : ClientOf[s] = c
    BY FallbackAssumption DEF Range
  <2>2. /\ Pending(c) = {} /\ Trying(c) = {} /\ s \in SessionsOf(c)
        /\ failures[c] = 0 /\ fallbackCount[c] = 0
    BY <2>1, ClientTypes DEF Init, FallbackInit, Pending, Trying, SessionsOf
  <2>3. Cardinality({}) = 0
    BY FS_EmptySet
  <2>4. Cardinality(SessionsOf(c)) \in Nat /\ 0 <= Cardinality(SessionsOf(c)) - 1
    BY <2>2, <2>3, SessionsFinite, FS_CardinalityType
  <2> QED BY <2>2, <2>3, <2>4, ClientTypes DEF ClientInv
<1> QED BY <1>1, <1>2, ByClient

(* Every step of the manager and of the servers keeps FailuresInv.          *)
LEMMA FailuresInvNext == KeysMatch /\ FailuresInv /\ [Next]_vars => FailuresInv'
<1> SUFFICES ASSUME KeysMatch, FailuresInv, [Next]_vars PROVE FailuresInv'
  OBVIOUS
<1>1. CASE FallbackNext
  BY <1>1, FailuresStep
<1>2. CASE ~FallbackNext
  <2>1. conf' = conf /\ wtServer' \in BOOLEAN /\ UNCHANGED fallbackVars
    <3>1. wtServer \in BOOLEAN
      BY DEF FailuresInv, FallbackTypeOK
    <3> QED
      BY <1>2, <3>1
      DEF Next, vars, server, NewServer, WtFails, Resolve, resolveCertFile, resolveKeyFile, LoadX509KeyPair,
          Start, Stop, Shutdown, Serve, ServeFails, WsStop, WtStop
  <2> QED BY <2>1, FailuresFrame
<1> QED BY <1>1, <1>2

(* However many sessions of a client are under way, and whichever order     *)
(* their failures are recorded in, a client in mode auto fails at most      *)
(* MaxRetries times and once more for each session but one that was told to *)
(* use WebTransport before.                                                 *)
THEOREM FailuresCorrect == KeysMatch => (Spec => []FailuresBounded)
<1>1. FailuresInv => FailuresBounded
  BY DEF FailuresInv, FailuresBounded, Bounded, Trying
<1> SUFFICES ASSUME KeysMatch PROVE Spec => []FailuresBounded
  OBVIOUS
<1>2. FailuresInv /\ [Next]_vars => FailuresInv'
  BY FailuresInvNext
<1> QED BY <1>1, <1>2, FailuresInvInit, PTL DEF Spec

-----------------------------------------------------------------------------
(* The statistics.                                                          *)

AtStats == {s \in Sessions : pc[s] = "stats"}

(* The counts are finitely many, and no more than the statistics have or    *)
(* are about to have.                                                       *)
StatsInv ==
  /\ conf \in Confs
  /\ fallbackCount \in [Keys -> Nat]
  /\ fallbackToWS \in Nat
  /\ pc \in [Sessions -> {"idle", "websocket", "webtransport", "waiting", "failed", "stats"}]
  /\ IsFiniteSet(Counted)
  /\ Cardinality(Counted) <= fallbackToWS + Cardinality(AtStats)

(* A failure that is counted under a key is one more than all before it.    *)
LEMMA CountedGrows ==
  ASSUME fallbackCount \in [Keys -> Nat], NEW k \in Keys,
         fallbackCount' = [fallbackCount EXCEPT ![k] = @ + 1]
  PROVE  /\ Counted' = Counted \cup {<<k, fallbackCount[k] + 1>>}
         /\ <<k, fallbackCount[k] + 1>> \notin Counted
<1> DEFINE n == fallbackCount[k] + 1
<1>1. /\ fallbackCount[k] \in Nat /\ fallbackCount'[k] = n
      /\ \A j \in Keys : j # k => fallbackCount'[j] = fallbackCount[j]
  OBVIOUS
<1>2. (1 .. n) = (1 .. fallbackCount[k]) \cup {n}
  BY <1>1
<1>3. ASSUME NEW x PROVE x \in Counted' <=> x \in Counted \cup {<<k, n>>}
  <2>1. x \in Counted' <=> \E j \in Keys : x \in {j} \X (1 .. fallbackCount'[j])
    BY DEF Counted
  <2>2. x \in Counted <=> \E j \in Keys : x \in {j} \X (1 .. fallbackCount[j])
    BY DEF Counted
  <2>3. x \in {k} \X (1 .. fallbackCount'[k]) <=> x \in {k} \X (1 .. fallbackCount[k]) \/ x = <<k, n>>
    BY <1>1, <1>2
  <2> HIDE DEF n
  <2> QED BY <1>1, <2>1, <2>2, <2>3
<1>4. <<k, n>> \notin Counted
  BY <1>1 DEF Counted
<1> QED BY <1>3, <1>4

(* A step of a session changes AtStats by that session.                     *)
LEMMA StatsMoves ==
  ASSUME StatsInv, NEW s \in Sessions, NEW l, Goto(s, l)
  PROVE  /\ AtStats' = IF l = "stats" THEN AtStats \cup {s} ELSE AtStats \ {s}
         /\ s \in AtStats <=> pc[s] = "stats"
         /\ IsFiniteSet(AtStats)
<1>1. IsFiniteSet(AtStats)
  BY FallbackAssumption, FS_Subset DEF AtStats
<1> QED BY <1>1 DEF StatsInv, Goto, AtStats

(* Every step of a negotiation keeps StatsInv.                              *)
LEMMA StatsStep ==
  ASSUME StatsInv, FallbackNext
  PROVE  StatsInv'
<1> USE ClientTypes
<1>0. /\ conf \in Confs /\ conf' = conf
      /\ fallbackCount \in [Keys -> Nat] /\ fallbackToWS \in Nat
      /\ pc \in [Sessions -> {"idle", "websocket", "webtransport", "waiting", "failed", "stats"}]
      /\ IsFiniteSet(Counted) /\ IsFiniteSet(AtStats)
      /\ Cardinality(Counted) \in Nat /\ Cardinality(AtStats) \in Nat
      /\ Cardinality(Counted) <= fallbackToWS + Cardinality(AtStats)
  BY FallbackAssumption, FallbackLeavesServer, FS_Subset, FS_CardinalityType DEF StatsInv, AtStats
<1>1. ASSUME NEW s \in Sessions, NEW l \in {"idle", "websocket", "webtransport", "waiting", "failed"},
             pc[s] # "stats", Goto(s, l), UNCHANGED manager
      PROVE  StatsInv'
  <2>1. AtStats' = AtStats
    BY <1>1, StatsMoves
  <2>2. Counted' = Counted /\ fallbackCount' = fallbackCount /\ fallbackToWS' = fallbackToWS
    BY <1>1 DEF manager, Counted
  <2>3. pc' \in [Sessions -> {"idle", "websocket", "webtransport", "waiting", "failed", "stats"}]
    BY <1>0, <1>1 DEF Goto
  <2> QED BY <1>0, <2>1, <2>2, <2>3 DEF StatsInv
<1>2. ASSUME NEW s \in Sessions, Negotiate(s) \/ Ends(s) \/ FallbackTimeout(s)
                                  \/ \E over \in BOOLEAN : WebTransportFails(s, over)
      PROVE  StatsInv'
  <2>1. CASE Negotiate(s)
    <3>1. SelectProtocol(ClientOf[s]) \in {"websocket", "webtransport"}
      BY <1>0, ConfsAssumption DEF SelectProtocol, selectAutoProtocol
    <3> QED BY <1>1, <2>1, <3>1 DEF Negotiate
  <2>2. CASE Ends(s)
    BY <1>1, <2>2 DEF Ends
  <2>3. CASE FallbackTimeout(s)
    BY <1>1, <2>3 DEF FallbackTimeout
  <2>4. ASSUME NEW over \in BOOLEAN, WebTransportFails(s, over) PROVE StatsInv'
    <3>1. /\ pc[s] = "webtransport" /\ UNCHANGED manager
          /\ \E l \in {"idle", "waiting", "failed"} : Goto(s, l)
      BY <2>4 DEF WebTransportFails
    <3> QED BY <1>1, <3>1
  <2> QED BY <1>2, <2>1, <2>2, <2>3, <2>4
<1>3. ASSUME NEW s \in Sessions, RecordFallback(s) PROVE StatsInv'
  <2> DEFINE k == KeyOf[s]
             pair == <<k, fallbackCount[k] + 1>>
  <2>1. /\ pc[s] = "failed" /\ Goto(s, "stats") /\ fallbackToWS' = fallbackToWS /\ k \in Keys
        /\ fallbackCount' = [fallbackCount EXCEPT ![k] = @ + 1]
    BY <1>3 DEF RecordFallback
  <2>2. Counted' = Counted \cup {pair} /\ pair \notin Counted
    BY <1>0, <2>1, CountedGrows
  <2>3. AtStats' = AtStats \cup {s} /\ s \notin AtStats
    BY <2>1, StatsMoves
  <2>4. IsFiniteSet(Counted') /\ Cardinality(Counted') = Cardinality(Counted) + 1
    <3> HIDE DEF pair
    <3>1. IsFiniteSet(Counted \cup {pair}) /\ Cardinality(Counted \cup {pair}) = Cardinality(Counted) + 1
      BY <1>0, <2>2, FS_AddElement
    <3> QED BY <2>2, <3>1, Zenon
  <2>5. Cardinality(AtStats') = Cardinality(AtStats) + 1
    <3>1. Cardinality(AtStats \cup {s}) = Cardinality(AtStats) + 1
      BY <1>0, <2>3, FS_AddElement
    <3> QED BY <2>3, <3>1, Zenon
  <2>6. /\ fallbackCount' \in [Keys -> Nat]
        /\ pc' \in [Sessions -> {"idle", "websocket", "webtransport", "waiting", "failed", "stats"}]
    BY <1>0, <2>1 DEF Goto
  <2> QED BY <1>0, <2>1, <2>4, <2>5, <2>6 DEF StatsInv
<1>4. ASSUME NEW s \in Sessions, RecordStats(s) PROVE StatsInv'
  <2>1. /\ pc[s] = "stats" /\ Goto(s, "idle") /\ fallbackToWS' = fallbackToWS + 1
        /\ fallbackCount' = fallbackCount
    BY <1>4 DEF RecordStats
  <2>2. AtStats' = AtStats \ {s} /\ s \in AtStats
    BY <2>1, StatsMoves
  <2>3. Cardinality(AtStats') = Cardinality(AtStats) - 1
    <3>1. Cardinality(AtStats \ {s}) = Cardinality(AtStats) - 1
      BY <1>0, <2>2, FS_RemoveElement
    <3> QED BY <2>2, <3>1, Zenon
  <2>4. Counted' = Counted
    BY <2>1 DEF Counted
  <2>5. pc' \in [Sessions -> {"idle", "websocket", "webtransport", "waiting", "failed", "stats"}]
    BY <1>0, <2>1 DEF Goto
  <2> QED BY <1>0, <2>1, <2>3, <2>4, <2>5 DEF StatsInv
<1>5. ASSUME CleanupStaleClients \/ \E c \in Clients : ResetFallbackCount(c)
      PROVE  StatsInv'
  <2>1. /\ pc' = pc /\ fallbackToWS' = fallbackToWS /\ fallbackCount' \in [Keys -> Nat]
        /\ \A k \in Keys : fallbackCount'[k] \in {0, fallbackCount[k]}
    <3>1. CASE CleanupStaleClients
      BY <3>1 DEF CleanupStaleClients
    <3>2. CASE \E c \in Clients : ResetFallbackCount(c)
      <4>1. PICK c \in Clients :
              /\ pc' = pc /\ fallbackToWS' = fallbackToWS
              /\ fallbackCount' = [fallbackCount EXCEPT ![c] = 0]
        BY <3>2 DEF ResetFallbackCount
      <4> QED BY <1>0, <4>1
    <3> QED BY <1>5, <3>1, <3>2
  <2>2. Counted' \subseteq Counted
    <3> SUFFICES ASSUME NEW k \in Keys, NEW x \in {k} \X (1 .. fallbackCount'[k])
                 PROVE  x \in {k} \X (1 .. fallbackCount[k])
      BY DEF Counted
    <3>1. fallbackCount'[k] = 0 \/ fallbackCount'[k] = fallbackCount[k]
      BY <2>1
    <3> QED BY <3>1
  <2>3. IsFiniteSet(Counted') /\ Cardinality(Counted') \in Nat /\ Cardinality(Counted') <= Cardinality(Counted)
    BY <1>0, <2>2, FS_Subset, FS_CardinalityType
  <2>4. AtStats' = AtStats
    BY <2>1 DEF AtStats
  <2> QED BY <1>0, <2>1, <2>3, <2>4 DEF StatsInv
<1> QED BY <1>2, <1>3, <1>4, <1>5 DEF FallbackNext

(* Whatever keys the failures are recorded under, and whoever resets the    *)
(* counts between the two locks of RecordFallback, the statistics have      *)
(* every failure that the counts have, or its RecordFallback is about to    *)
(* add it.                                                                  *)
THEOREM StatsCorrect == Spec => []StatsCoverCounts
<1>1. Init => StatsInv
  <2> SUFFICES ASSUME Init PROVE StatsInv
    OBVIOUS
  <2>1. Counted = {} /\ AtStats = {}
    BY DEF Init, FallbackInit, Counted, AtStats
  <2>2. IsFiniteSet({}) /\ Cardinality({}) = 0
    BY FS_EmptySet
  <2> QED BY <2>1, <2>2 DEF Init, FallbackInit, StatsInv
<1>2. StatsInv /\ [Next]_vars => StatsInv'
  <2> SUFFICES ASSUME StatsInv, [Next]_vars PROVE StatsInv'
    OBVIOUS
  <2>1. CASE FallbackNext
    BY <2>1, StatsStep
  <2>2. CASE ~FallbackNext
    <3>1. conf' = conf /\ UNCHANGED fallbackVars
      BY <2>2
      DEF Next, vars, server, NewServer, WtFails, Resolve, resolveCertFile, resolveKeyFile, LoadX509KeyPair,
          Start, Stop, Shutdown, Serve, ServeFails, WsStop, WtStop
    <3>2. fallbackCount' = fallbackCount /\ fallbackToWS' = fallbackToWS /\ pc' = pc
      BY <3>1 DEF fallbackVars, manager
    <3>3. Counted' = Counted /\ AtStats' = AtStats
      BY <3>2 DEF Counted, AtStats
    <3> QED BY <3>1, <3>2, <3>3 DEF StatsInv
  <2> QED BY <2>1, <2>2
<1>3. StatsInv => StatsCoverCounts
  BY DEF StatsInv, StatsCoverCounts, AtStats
<1> QED BY <1>1, <1>2, <1>3, PTL DEF Spec

=============================================================================
