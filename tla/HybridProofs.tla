---------------------------- MODULE HybridProofs ----------------------------
(***************************************************************************)
(* Proofs about the hybrid server: the user that an authenticator finds in  *)
(* a request, and the registry that the callbacks of both servers keep.     *)
(***************************************************************************)
EXTENDS Hybrid, FiniteSetTheorems, TLAPS

-----------------------------------------------------------------------------
(* The authenticators.                                                      *)

(* The loop of authenticateJWT, unrolled: it has five fields to look at.    *)
LEMMA LoopUnrolled ==
  ASSUME NEW claims
  PROVE  firstClaim(claims) =
           IF ClaimedID(claims[Field[1]]) # Error THEN ClaimedID(claims[Field[1]])
           ELSE IF ClaimedID(claims[Field[2]]) # Error THEN ClaimedID(claims[Field[2]])
           ELSE IF ClaimedID(claims[Field[3]]) # Error THEN ClaimedID(claims[Field[3]])
           ELSE IF ClaimedID(claims[Field[4]]) # Error THEN ClaimedID(claims[Field[4]])
           ELSE IF ClaimedID(claims[Field[5]]) # Error THEN ClaimedID(claims[Field[5]])
           ELSE Error
<1> DEFINE C(i) == ClaimedID(claims[Field[i]])
           Step(f) == [i \in 1 .. 6 |-> IF i = 6 THEN Error ELSE IF C(i) # Error THEN C(i) ELSE f[i + 1]]
           loop == CHOOSE f : f = Step(f)
           v5 == IF C(5) # Error THEN C(5) ELSE Error
           v4 == IF C(4) # Error THEN C(4) ELSE v5
           v3 == IF C(3) # Error THEN C(3) ELSE v4
           v2 == IF C(2) # Error THEN C(2) ELSE v3
           v1 == IF C(1) # Error THEN C(1) ELSE v2
           g == [i \in 1 .. 6 |-> IF i = 1 THEN v1 ELSE IF i = 2 THEN v2 ELSE IF i = 3 THEN v3
                                  ELSE IF i = 4 THEN v4 ELSE IF i = 5 THEN v5 ELSE Error]
<1>1. firstClaim(claims) = loop[1]
  BY DEF firstClaim
<1> HIDE DEF C
<1>2. ASSUME NEW i \in 1 .. 6
      PROVE  g[i] = IF i = 6 THEN Error ELSE IF C(i) # Error THEN C(i) ELSE g[i + 1]
  <2>1. i = 1 \/ i = 2 \/ i = 3 \/ i = 4 \/ i = 5 \/ i = 6
    OBVIOUS
  <2> QED BY <2>1
<1>3. g = Step(g)
  BY <1>2
<1>4. loop = Step(loop)
  <2> HIDE DEF g, Step
  <2> QED BY <1>3, Zenon
<1> HIDE DEF loop
<1>5. \A i \in 1 .. 6 : loop[i] = IF i = 6 THEN Error ELSE IF C(i) # Error THEN C(i) ELSE loop[i + 1]
  BY <1>4
<1>6. loop[6] = Error
  BY <1>5
<1>7. loop[5] = v5
  BY <1>5, <1>6
<1>8. loop[4] = v4
  BY <1>5, <1>7
<1>9. loop[3] = v3
  BY <1>5, <1>8
<1>10. loop[2] = v2
  BY <1>5, <1>9
<1>11. loop[1] = v1
  BY <1>5, <1>10
<1> QED BY <1>1, <1>11 DEF C

(* The conversion to int64 takes the whole part of a number.                *)
LEMMA Truncates ==
  ASSUME NEW h \in Nat, h \div 2 \in DOMAIN Decimal
  PROVE  WholePart(h) = h \div 2
<1> DEFINE n == h \div 2
           P(m) == 2 * m <= h /\ h < 2 * (m + 1)
<1>1. n \in Nat /\ P(n)
  OBVIOUS
<1>2. \A m \in Nat : P(m) => m = n
  BY <1>1
<1>3. n \in DOMAIN Decimal /\ DOMAIN Decimal \subseteq Nat
  BY AuthenticatorAssumption
<1> HIDE DEF n, P
<1>4. (CHOOSE m \in DOMAIN Decimal : P(m)) = n
  BY <1>1, <1>2, <1>3
<1> QED BY <1>4 DEF WholePart, P, n

(* A claim yields an ID exactly when it names a user, and then that ID.     *)
LEMMA ClaimNames ==
  ASSUME NEW claim \in Claim
  PROVE  /\ Names(claim) <=> ClaimedID(claim) # Error
         /\ Names(claim) => /\ ClaimedID(claim) \in Users
                            /\ ClaimedID(claim) = IF claim.kind = "string" THEN claim.text
                                                  ELSE Decimal[WholePart(claim.halves)]
<1>1. CASE claim \in [kind : {"string"}, text : Users \cup {None}]
  BY <1>1, AuthenticatorAssumption DEF Names, ClaimedID
<1>2. CASE claim \in [kind : {"number"}, halves : {h \in Nat : h \div 2 \in DOMAIN Decimal}]
  <2>1. claim.kind = "number" /\ claim.halves \div 2 \in DOMAIN Decimal
    BY <1>2
  <2>2. Decimal[claim.halves \div 2] \in Users
    BY <2>1, AuthenticatorAssumption
  <2>3. WholePart(claim.halves) = claim.halves \div 2
    BY <1>2, <2>1, Truncates
  <2> QED BY <2>1, <2>2, <2>3, AuthenticatorAssumption DEF Names, ClaimedID
<1>3. CASE claim \in [kind : {"absent", "other"}]
  BY <1>3 DEF Names, ClaimedID
<1> QED BY <1>1, <1>2, <1>3 DEF Claim

(* The loop finds the user of the first claim that names one.               *)
LEMMA LoopFindsFirst ==
  ASSUME NEW claims \in [{Field[i] : i \in 1 .. 5} -> Claim]
  PROVE  LET named == {i \in 1 .. 5 : Names(claims[Field[i]])}
             first == claims[Field[CHOOSE i \in named : \A j \in named : i <= j]]
         IN  IF named = {} THEN firstClaim(claims) = Error
             ELSE /\ firstClaim(claims) \in Users
                  /\ firstClaim(claims) = IF first.kind = "string" THEN first.text
                                          ELSE Decimal[WholePart(first.halves)]
<1> DEFINE C(i) == claims[Field[i]]
           named == {i \in 1 .. 5 : Names(C(i))}
           least == CHOOSE i \in named : \A j \in named : i <= j
<1>1. \A i \in 1 .. 5 : C(i) \in Claim
  OBVIOUS
<1>2. firstClaim(claims) =
           IF ClaimedID(C(1)) # Error THEN ClaimedID(C(1))
           ELSE IF ClaimedID(C(2)) # Error THEN ClaimedID(C(2))
           ELSE IF ClaimedID(C(3)) # Error THEN ClaimedID(C(3))
           ELSE IF ClaimedID(C(4)) # Error THEN ClaimedID(C(4))
           ELSE IF ClaimedID(C(5)) # Error THEN ClaimedID(C(5))
           ELSE Error
  BY LoopUnrolled
<1> HIDE DEF C
<1>3. \A i \in 1 .. 5 : Names(C(i)) <=> ClaimedID(C(i)) # Error
  BY <1>1, ClaimNames
<1>4. CASE named = {}
  <2>1. \A i \in 1 .. 5 : ClaimedID(C(i)) = Error
    BY <1>3, <1>4
  <2>2. firstClaim(claims) = Error
    BY <1>2, <2>1
  <2> QED BY <1>4, <2>2 DEF C
<1>5. CASE named # {}
  <2>1. \E i \in named : \A j \in named : i <= j
    <3>1. PICK i \in 1 .. 5 : Names(C(i))
      BY <1>5
    <3>2. i = 1 \/ i = 2 \/ i = 3 \/ i = 4 \/ i = 5
      OBVIOUS
    <3> QED BY <3>1, <3>2
  <2>2. least \in named /\ \A j \in named : least <= j
    <3> HIDE DEF named
    <3> QED BY <2>1, Zenon
  <2> HIDE DEF least
  <2>3. least \in 1 .. 5 /\ ClaimedID(C(least)) # Error /\ Names(C(least))
    BY <1>3, <2>2
  <2>4. \A j \in 1 .. 5 : j < least => ClaimedID(C(j)) = Error
    BY <1>3, <2>2, <2>3
  <2>5. least = 1 \/ least = 2 \/ least = 3 \/ least = 4 \/ least = 5
    BY <2>3
  <2>6. firstClaim(claims) = ClaimedID(C(least))
    BY <1>2, <2>3, <2>4, <2>5
  <2>7. /\ ClaimedID(C(least)) \in Users
        /\ ClaimedID(C(least)) = IF C(least).kind = "string" THEN C(least).text
                                 ELSE Decimal[WholePart(C(least).halves)]
    BY <1>1, <2>3, ClaimNames
  <2> QED BY <1>5, <2>6, <2>7 DEF C, least
<1> QED BY <1>4, <1>5 DEF C

(* The hybrid authenticator lets a request in exactly when it stands for a  *)
(* user, and as that user.                                                  *)
LEMMA HybridFindsUser ==
  ASSUME NEW protocol, NEW source, NEW req \in Carried
  PROVE  HybridAuthenticate(protocol, req, source)
           = IF UserOf(protocol, req, source) = None THEN Error ELSE UserOf(protocol, req, source)
<1>1. req.claims \in [{Field[i] : i \in 1 .. 5} -> Claim] /\ req.envoy \in Users \cup {None}
  BY DEF Carried
<1>2. CASE protocol = "ws"
  BY <1>1, <1>2 DEF HybridAuthenticate, authenticateFromEnvoy, UserOf
<1>3. CASE protocol # "ws"
  <2> DEFINE named == {i \in 1 .. 5 : Names(req.claims[Field[i]])}
             first == req.claims[Field[CHOOSE i \in named : \A j \in named : i <= j]]
             found == IF first.kind = "string" THEN first.text ELSE Decimal[WholePart(first.halves)]
  <2>1. IF named = {} THEN firstClaim(req.claims) = Error
        ELSE firstClaim(req.claims) \in Users /\ firstClaim(req.claims) = found
    BY <1>1, LoopFindsFirst
  <2>2. HybridAuthenticate(protocol, req, source)
          = IF req.where = source /\ req.verified THEN firstClaim(req.claims) ELSE Error
    BY <1>3 DEF HybridAuthenticate, authenticateJWT, HasToken
  <2>3. UserOf(protocol, req, source)
          = IF req.where # source \/ ~req.verified \/ named = {} THEN None ELSE found
    BY <1>3 DEF UserOf
  <2> HIDE DEF named, found
  <2> QED BY <2>1, <2>2, <2>3, AuthenticatorAssumption
<1> QED BY <1>2, <1>3

(* What a request stands for, and what each authenticator answers.          *)
LEMMA AnswerTypes ==
  ASSUME NEW protocol, NEW source, NEW req \in Carried,
         NEW auth \in {"hybrid", "jwt", "envoy", "noop"}
  PROVE  /\ UserOf(protocol, req, source) \in Users \cup {None}
         /\ Authenticate(auth, protocol, req, source) \in Users \cup {None, Error}
<1>1. req.claims \in [{Field[i] : i \in 1 .. 5} -> Claim] /\ req.envoy \in Users \cup {None}
  BY DEF Carried
<1>2. UserOf(protocol, req, source) \in Users \cup {None}
  <2>1. CASE protocol = "ws"
    BY <1>1, <2>1 DEF UserOf
  <2>2. CASE protocol # "ws"
    <3> DEFINE named == {i \in 1 .. 5 : Names(req.claims[Field[i]])}
               first == req.claims[Field[CHOOSE i \in named : \A j \in named : i <= j]]
               found == IF first.kind = "string" THEN first.text ELSE Decimal[WholePart(first.halves)]
    <3>1. named = {} \/ found \in Users
      BY <1>1, LoopFindsFirst
    <3>2. UserOf(protocol, req, source)
            = IF req.where # source \/ ~req.verified \/ named = {} THEN None ELSE found
      BY <2>2 DEF UserOf
    <3> HIDE DEF named, found
    <3> QED BY <3>1, <3>2
  <2> QED BY <2>1, <2>2
<1>3. CASE auth = "hybrid"
  <2>1. Authenticate(auth, protocol, req, source) = HybridAuthenticate(protocol, req, source)
    BY <1>3 DEF Authenticate
  <2> QED BY <1>2, <2>1, HybridFindsUser
<1>4. CASE auth = "jwt"
  <2>1. Authenticate(auth, protocol, req, source) = JWTAuthenticate(req, source)
    BY <1>4 DEF Authenticate
  <2>2. req.claims["sub"] \in Claim
    <3>1. Field[1] = "sub" /\ 1 \in 1 .. 5
      BY DEF Field
    <3>2. "sub" \in {Field[i] : i \in 1 .. 5}
      BY <3>1
    <3> QED BY <1>1, <3>2
  <2>3. req.claims["sub"].kind = "string" => req.claims["sub"].text \in Users \cup {None}
    BY <2>2 DEF Claim
  <2> QED BY <1>2, <2>1, <2>3 DEF JWTAuthenticate
<1>5. CASE auth = "envoy"
  <2>1. Authenticate(auth, protocol, req, source) = EnvoyAuthenticate(req)
    BY <1>5 DEF Authenticate
  <2> QED BY <1>1, <1>2, <2>1 DEF EnvoyAuthenticate, authenticateFromEnvoy
<1>6. CASE auth = "noop"
  BY <1>2, <1>6 DEF Authenticate, NoOpAuthenticate
<1> QED BY <1>3, <1>4, <1>5, <1>6

-----------------------------------------------------------------------------
(* The registry.                                                            *)

Labels == Listed \cup Leaving \cup {"request", "refused", "idle", "rejected", "unbind"}

(* The connections whose goroutine has written connCount + 1, connCount - 1. *)
Up == {c \in Conns : pc[c] \notin {"request", "refused", "idle", "inc", "incStore"}}
Down == {c \in WsConns : pc[c] \in {"inform", "gone"}}

(* All variables but the counter.                                           *)
Typed ==
  /\ setting \in Settings
  /\ connections \subseteq Conns
  /\ userConns \in [Users -> SUBSET Conns]
  /\ stats \in [ws : Nat, wt : Nat]
  /\ pc \in [Conns -> Labels]
  /\ userID \in [Conns -> Users \cup {None}]
  /\ binding \in [Conns -> Users \cup {None}]
  /\ standsFor \in [Conns -> Users \cup {None}]
  /\ rebound \subseteq Conns

(* However many updates are lost, the counter, and what a goroutine read of *)
(* it, is no more than the increments and no less than minus the decrements *)
(* that were written.                                                       *)
Between(n) == n \in Int /\ -Cardinality(Down) <= n /\ n <= Cardinality(Up)

Counted ==
  /\ read \in [Conns -> Int]
  /\ Between(connCount)
  /\ \A c \in Conns : Between(read[c])
  /\ \A c \in Conns : pc[c] \in {"unbind", "dec", "decStore", "inform"} => c \in WsConns

(* A connection is in s.connections for as long as it is served, and is in  *)
(* the index after a BindUser that has finished: under its own user, and    *)
(* under another only if BindUser took it from one to the other.            *)
Kept ==
  /\ ServedListed
  /\ \A c \in WsConns : pc[c] \in Leaving \cup {"unbind"} => c \notin connections
  /\ \A c \in WsConns : pc[c] \in Leaving =>
       \A u \in Users : c \in userConns[u] => c \in rebound /\ u # userID[c]
  /\ \A u \in Users : \A c \in userConns[u] : (c \in rebound \/ userID[c] = u) /\ pc[c] # "request"
  /\ \A c \in Conns : binding[c] # None => binding[c] = userID[c] /\ pc[c] \in {"accept", "open"}

HybridInv == Typed /\ Counted /\ Kept /\ AuthenticatedUser

(* The invariant has what the properties say.                               *)
LEMMA InvImplies == HybridInv => TypeOK /\ ServedListed /\ WsRemoved /\ AuthenticatedUser
<1> SUFFICES ASSUME HybridInv
             PROVE  TypeOK /\ ServedListed /\ WsRemoved /\ AuthenticatedUser
  OBVIOUS
<1>1. IsFiniteSet(WsConns) /\ IsFiniteSet(Conns) /\ Up \subseteq Conns /\ Down \subseteq WsConns
  BY HybridAssumption, FS_Union DEF Conns, Up, Down
<1>2. /\ Cardinality(WsConns) \in Nat /\ Cardinality(Conns) \in Nat
      /\ Cardinality(Up) \in Nat /\ Cardinality(Down) \in Nat
      /\ Cardinality(Up) <= Cardinality(Conns) /\ Cardinality(Down) <= Cardinality(WsConns)
  BY <1>1, FS_Subset, FS_CardinalityType
<1>3. ASSUME NEW n, Between(n)
      PROVE  n \in -Cardinality(WsConns) .. Cardinality(Conns)
  BY <1>2, <1>3 DEF Between
<1>4. connCount \in -Cardinality(WsConns) .. Cardinality(Conns)
  BY <1>3 DEF HybridInv, Counted
<1>5. read \in [Conns -> -Cardinality(WsConns) .. Cardinality(Conns)]
  <2>1. \A c \in Conns : read[c] \in -Cardinality(WsConns) .. Cardinality(Conns)
    BY <1>3 DEF HybridInv, Counted
  <2> QED BY <2>1 DEF HybridInv, Counted
<1>6. TypeOK
  BY <1>4, <1>5 DEF HybridInv, Typed, TypeOK, Labels
<1>7. WsRemoved
  BY <1>6 DEF HybridInv, Kept, WsRemoved
<1> QED BY <1>6, <1>7 DEF HybridInv, Kept

(* It holds before the first request.                                       *)
LEMMA HybridInit == Init => HybridInv
<1> SUFFICES ASSUME Init
             PROVE  HybridInv
  OBVIOUS
<1>1. Typed
  BY DEF Init, Typed, Labels
<1>2. Up = {} /\ Down = {}
  BY DEF Init, Up, Down, Conns
<1>3. Cardinality(Up) = 0 /\ Cardinality(Down) = 0
  BY <1>2, FS_EmptySet, Zenon
<1>4. Between(0)
  BY <1>3 DEF Between
<1>5. Counted
  <2>1. connCount = 0 /\ read \in [Conns -> Int] /\ \A c \in Conns : read[c] = 0
    BY DEF Init
  <2>2. \A c \in Conns : pc[c] = "request"
    BY DEF Init
  <2>3. Between(connCount) /\ \A c \in Conns : Between(read[c])
    BY <1>4, <2>1, Zenon
  <2> QED BY <2>1, <2>2, <2>3 DEF Counted
<1>6. Kept
  BY DEF Init, Kept, ServedListed, Listed, Leaving, Conns
<1>7. AuthenticatedUser
  BY DEF Init, AuthenticatedUser
<1> QED BY <1>1, <1>5, <1>6, <1>7 DEF HybridInv

(* A request that is let in has the user that its authenticator answered.   *)
LEMMA RequestAnswer ==
  ASSUME Typed, NEW c \in Conns, NEW req \in Requests, Request(c, req)
  PROVE  /\ standsFor' = [standsFor EXCEPT ![c] =
              IF AuthEnabled(c) THEN UserOf(ProtocolOf(c), req, setting.source) ELSE None]
         /\ UserOf(ProtocolOf(c), req, setting.source) \in Users \cup {None}
         /\ \/ pc' = [pc EXCEPT ![c] = "refused"] /\ userID' = userID
            \/ \E user \in Users \cup {None} :
                 /\ pc' = [pc EXCEPT ![c] = "idle"]
                 /\ userID' = [userID EXCEPT ![c] = user]
                 /\ (setting.given = "nil" /\ setting.enabled /\ AuthEnabled(c)) =>
                      /\ user # None
                      /\ user = UserOf(ProtocolOf(c), req, setting.source)
<1> DEFINE stands == UserOf(ProtocolOf(c), req, setting.source)
           answer == Authenticate(authenticator, ProtocolOf(c), req, setting.source)
           user == IF AuthEnabled(c) THEN answer ELSE None
<1>1. req \in Carried
  BY HybridAssumption
<1>2. authenticator \in {"hybrid", "jwt", "envoy", "noop"}
  BY HybridAssumption DEF Typed, authenticator
<1>3. stands \in Users \cup {None} /\ answer \in Users \cup {None, Error}
  BY <1>1, <1>2, AnswerTypes
<1>4. (setting.given = "nil" /\ setting.enabled) =>
        answer = IF stands = None THEN Error ELSE stands
  <2>1. SUFFICES ASSUME setting.given = "nil", setting.enabled
                 PROVE  answer = IF stands = None THEN Error ELSE stands
    OBVIOUS
  <2>2. authenticator = "hybrid"
    BY <2>1 DEF authenticator
  <2>3. answer = HybridAuthenticate(ProtocolOf(c), req, setting.source)
    BY <2>2 DEF Authenticate
  <2> QED BY <1>1, <2>3, HybridFindsUser
<1>5. /\ standsFor' = [standsFor EXCEPT ![c] = IF AuthEnabled(c) THEN stands ELSE None]
      /\ IF user = Error THEN pc' = [pc EXCEPT ![c] = "refused"] /\ userID' = userID
         ELSE pc' = [pc EXCEPT ![c] = "idle"] /\ userID' = [userID EXCEPT ![c] = user]
  BY DEF Request, Goto
<1> HIDE DEF stands, answer
<1>6. CASE user = Error
  BY <1>3, <1>5, <1>6 DEF stands
<1>7. CASE user # Error
  <2>1. user \in Users \cup {None}
    BY <1>3, <1>7
  <2>2. (setting.given = "nil" /\ setting.enabled /\ AuthEnabled(c)) => user # None /\ user = stands
    BY <1>3, <1>4, <1>7, AuthenticatorAssumption
  <2> HIDE DEF user
  <2> QED BY <1>3, <1>5, <1>7, <2>1, <2>2 DEF stands
<1> QED BY <1>6, <1>7

(* Every step keeps the types.                                              *)
LEMMA TypedStep == HybridInv /\ [Next]_vars => Typed'
<1> SUFFICES ASSUME HybridInv, [Next]_vars
             PROVE  Typed'
  OBVIOUS
<1> USE DEF registry, count, conn, Goto, Labels, Listed, Leaving
<1>0. Typed
  BY DEF HybridInv
<1>1. ASSUME NEW c \in Conns, NEW req \in Requests, Request(c, req)
      PROVE  Typed'
  <2>1. UNCHANGED <<setting, connections, userConns, stats, binding, rebound>>
    BY <1>1 DEF Request
  <2>2. standsFor' \in [Conns -> Users \cup {None}]
    BY <1>0, <1>1, RequestAnswer DEF Typed
  <2>3. pc' \in [Conns -> Labels] /\ userID' \in [Conns -> Users \cup {None}]
    BY <1>0, <1>1, RequestAnswer DEF Typed
  <2> QED BY <1>0, <2>1, <2>2, <2>3 DEF Typed
<1>2. ASSUME NEW c \in Conns, NEW u \in Users, BindUser(c, u)
      PROVE  Typed'
  BY <1>0, <1>2 DEF BindUser, Typed
<1>3. ASSUME NEW c \in Conns, RegisterConnection(c) \/ UnregisterConnection(c)
      PROVE  Typed'
  BY <1>0, <1>3 DEF RegisterConnection, UnregisterConnection, Typed
<1>4. ASSUME NEW c \in Conns, \/ IncrementReads(c) \/ IncrementWrites(c)
                              \/ DecrementReads(c) \/ DecrementWrites(c)
      PROVE  Typed'
  BY <1>0, <1>4 DEF IncrementReads, IncrementWrites, DecrementReads, DecrementWrites, Typed
<1>5. ASSUME NEW c \in Conns, RecordConnection(c)
      PROVE  Typed'
  BY <1>0, <1>5 DEF RecordConnection, Typed
<1>6. ASSUME NEW c \in Conns, \/ OnConnectAccepts(c) \/ OnConnectRejects(c)
                              \/ OnDisconnect(c) \/ SessionEnds(c)
      PROVE  Typed'
  BY <1>0, <1>6 DEF OnConnectAccepts, OnConnectRejects, OnDisconnect, SessionEnds, Typed
<1>7. ASSUME NEW c \in Conns, BindUserInserts(c)
      PROVE  Typed'
  <2>1. binding[c] \in Users
    BY <1>0, <1>7 DEF BindUserInserts, Typed
  <2> QED BY <1>0, <1>7, <2>1 DEF BindUserInserts, Typed
<1>8. ASSUME NEW c \in Conns, unbindUser(c)
      PROVE  Typed'
  BY <1>0, <1>8 DEF unbindUser, Typed
<1>9. CASE UNCHANGED vars
  BY <1>0, <1>9 DEF vars, Typed
<1> QED BY <1>1, <1>2, <1>3, <1>4, <1>5, <1>6, <1>7, <1>8, <1>9 DEF Next

(* A counter stays within the bounds when they widen.                       *)
LEMMA StillBetween ==
  ASSUME Up \subseteq Up', Down \subseteq Down', NEW n, Between(n)
  PROVE  n \in Int /\ -Cardinality(Down') <= n /\ n <= Cardinality(Up')
<1>1. IsFiniteSet(WsConns) /\ IsFiniteSet(Conns) /\ Up' \subseteq Conns /\ Down' \subseteq WsConns
  BY HybridAssumption, FS_Union DEF Conns, Up, Down
<1>2. IsFiniteSet(Up') /\ IsFiniteSet(Down')
  BY <1>1, FS_Subset
<1>3. IsFiniteSet(Up) /\ IsFiniteSet(Down)
      /\ Cardinality(Up) <= Cardinality(Up') /\ Cardinality(Down) <= Cardinality(Down')
  BY <1>2, FS_Subset
<1>4. Cardinality(Up) \in Nat /\ Cardinality(Up') \in Nat
      /\ Cardinality(Down) \in Nat /\ Cardinality(Down') \in Nat
  BY <1>2, <1>3, FS_CardinalityType
<1> QED BY <1>3, <1>4 DEF Between

(* Every read and write of connCount stays within the bounds.               *)
LEMMA CountedStep == HybridInv /\ [Next]_vars => Counted'
<1> SUFFICES ASSUME HybridInv, [Next]_vars
             PROVE  Counted'
  OBVIOUS
<1> USE DEF registry, count, conn, Goto
<1>0. Typed /\ Counted
  BY DEF HybridInv
<1>a. IsFiniteSet(Up) /\ IsFiniteSet(Down) /\ Cardinality(Up) \in Nat /\ Cardinality(Down) \in Nat
  <2>1. IsFiniteSet(WsConns) /\ IsFiniteSet(Conns) /\ Up \subseteq Conns /\ Down \subseteq WsConns
    BY HybridAssumption, FS_Union DEF Conns, Up, Down
  <2> QED BY <2>1, FS_Subset, FS_CardinalityType
<1>b. WsConns \subseteq Conns
  BY DEF Conns
<1>1. ASSUME UNCHANGED count, Up \subseteq Up', Down \subseteq Down',
             \A c \in Conns : pc'[c] \in {"unbind", "dec", "decStore", "inform"} => c \in WsConns
      PROVE  Counted'
  <2>1. Between(connCount)' /\ \A c \in Conns : Between(read[c])'
    BY <1>0, <1>1, StillBetween DEF Counted, Between
  <2> QED BY <1>0, <1>1, <2>1 DEF Counted
<1>2. ASSUME NEW c \in Conns, IncrementReads(c) \/ DecrementReads(c)
      PROVE  Counted'
  <2>1. Up' = Up /\ Down' = Down
    BY <1>0, <1>2, <1>b DEF IncrementReads, DecrementReads, Up, Down, Typed
  <2>2. read' = [read EXCEPT ![c] = connCount] /\ connCount' = connCount
    BY <1>2 DEF IncrementReads, DecrementReads
  <2>3. read' \in [Conns -> Int] /\ \A d \in Conns : read'[d] = connCount \/ read'[d] = read[d]
    BY <1>0, <2>2 DEF Counted, Between
  <2>4. Between(connCount)' /\ \A d \in Conns : Between(read[d])'
    BY <1>0, <2>1, <2>2, <2>3, StillBetween DEF Counted, Between
  <2>5. \A d \in Conns : pc'[d] \in {"unbind", "dec", "decStore", "inform"} => d \in WsConns
    BY <1>0, <1>2 DEF IncrementReads, DecrementReads, Typed, Counted
  <2> QED BY <2>3, <2>4, <2>5 DEF Counted
<1>3. ASSUME NEW c \in Conns, IncrementWrites(c)
      PROVE  Counted'
  <2>1. Up' = Up \cup {c} /\ c \notin Up /\ Down' = Down
    BY <1>0, <1>3, <1>b DEF IncrementWrites, Up, Down, Typed
  <2>2. Cardinality(Up') = Cardinality(Up) + 1
    <3>1. Cardinality(Up \cup {c}) = Cardinality(Up) + 1
      BY <1>a, <2>1, FS_AddElement
    <3> QED BY <2>1, <3>1, Zenon
  <2>3. connCount' = read[c] + 1 /\ read' = [read EXCEPT ![c] = 0]
    BY <1>3 DEF IncrementWrites
  <2>4. read' \in [Conns -> Int] /\ \A d \in Conns : read'[d] = 0 \/ read'[d] = read[d]
    BY <1>0, <2>3 DEF Counted
  <2>5. Cardinality(Down') = Cardinality(Down)
    BY <2>1, Zenon
  <2>6. Between(connCount)'
    BY <1>0, <1>a, <2>2, <2>3, <2>5 DEF Counted, Between
  <2>7. \A d \in Conns : Between(read[d])'
    BY <1>0, <1>a, <2>2, <2>4, <2>5 DEF Counted, Between
  <2>8. \A d \in Conns : pc'[d] \in {"unbind", "dec", "decStore", "inform"} => d \in WsConns
    BY <1>0, <1>3 DEF IncrementWrites, Typed, Counted
  <2> QED BY <2>4, <2>6, <2>7, <2>8 DEF Counted
<1>4. ASSUME NEW c \in Conns, DecrementWrites(c)
      PROVE  Counted'
  <2>1. Down' = Down \cup {c} /\ c \notin Down /\ Up' = Up
    BY <1>0, <1>4, <1>b DEF DecrementWrites, Up, Down, Typed, Counted
  <2>2. Cardinality(Down') = Cardinality(Down) + 1
    <3>1. Cardinality(Down \cup {c}) = Cardinality(Down) + 1
      BY <1>a, <2>1, FS_AddElement
    <3> QED BY <2>1, <3>1, Zenon
  <2>3. connCount' = read[c] - 1 /\ read' = [read EXCEPT ![c] = 0]
    BY <1>4 DEF DecrementWrites
  <2>4. read' \in [Conns -> Int] /\ \A d \in Conns : read'[d] = 0 \/ read'[d] = read[d]
    BY <1>0, <2>3 DEF Counted
  <2>5. Cardinality(Up') = Cardinality(Up)
    BY <2>1, Zenon
  <2>6. Between(connCount)'
    BY <1>0, <1>a, <2>2, <2>3, <2>5 DEF Counted, Between
  <2>7. \A d \in Conns : Between(read[d])'
    BY <1>0, <1>a, <2>2, <2>4, <2>5 DEF Counted, Between
  <2>8. \A d \in Conns : pc'[d] \in {"unbind", "dec", "decStore", "inform"} => d \in WsConns
    BY <1>0, <1>4 DEF DecrementWrites, Typed, Counted
  <2> QED BY <2>4, <2>6, <2>7, <2>8 DEF Counted
<1>5. ASSUME NEW c \in Conns, NEW req \in Requests, Request(c, req)
      PROVE  Counted'
  <2>1. pc[c] = "request" /\ UNCHANGED count
        /\ (pc' = [pc EXCEPT ![c] = "refused"] \/ pc' = [pc EXCEPT ![c] = "idle"])
    BY <1>5 DEF Request
  <2>2. Up \subseteq Up' /\ Down \subseteq Down'
    BY <1>0, <1>b, <2>1 DEF Up, Down, Typed
  <2> QED BY <1>0, <1>1, <2>1, <2>2 DEF Typed, Counted
<1>6. ASSUME NEW c \in Conns, \/ \E u \in Users : BindUser(c, u)
                              \/ BindUserInserts(c)
      PROVE  Counted'
  <2>1. UNCHANGED <<count, pc>>
    BY <1>6 DEF BindUser, BindUserInserts
  <2>2. Up' = Up /\ Down' = Down
    BY <2>1 DEF Up, Down
  <2> QED BY <1>0, <1>1, <2>1, <2>2 DEF Counted
<1>7. ASSUME NEW c \in Conns, RegisterConnection(c) \/ RecordConnection(c) \/ OnConnectAccepts(c)
                              \/ OnConnectRejects(c)
      PROVE  Counted'
  <2>1. UNCHANGED count /\ Up \subseteq Up' /\ Down \subseteq Down'
    BY <1>0, <1>7, <1>b DEF RegisterConnection, RecordConnection, OnConnectAccepts, OnConnectRejects,
                            Up, Down, Typed
  <2> QED BY <1>0, <1>1, <1>7, <2>1 DEF RegisterConnection, RecordConnection, OnConnectAccepts,
                                        OnConnectRejects, Typed, Counted
<1>8. ASSUME NEW c \in Conns, UnregisterConnection(c) \/ unbindUser(c) \/ OnDisconnect(c) \/ SessionEnds(c)
      PROVE  Counted'
  <2>1. UNCHANGED count /\ Up \subseteq Up' /\ Down \subseteq Down'
    BY <1>0, <1>8, <1>b DEF UnregisterConnection, unbindUser, OnDisconnect, SessionEnds, Up, Down, Typed
  <2> QED BY <1>0, <1>1, <1>8, <2>1 DEF UnregisterConnection, unbindUser, OnDisconnect, SessionEnds,
                                        Typed, Counted
<1>9. CASE UNCHANGED vars
  <2>1. UNCHANGED <<count, pc>>
    BY <1>9 DEF vars
  <2>2. Up' = Up /\ Down' = Down
    BY <2>1 DEF Up, Down
  <2> QED BY <1>0, <1>1, <2>1, <2>2 DEF Counted
<1> QED BY <1>2, <1>3, <1>4, <1>5, <1>6, <1>7, <1>8, <1>9 DEF Next

(* Every callback keeps the two maps in order.                              *)
LEMMA KeptStep == HybridInv /\ [Next]_vars => Kept'
<1> SUFFICES ASSUME HybridInv, [Next]_vars
             PROVE  Kept'
  OBVIOUS
<1> USE DEF registry, count, conn, Goto, Listed, Leaving, Kept, ServedListed
<1>0. Typed /\ Kept /\ None \notin Users /\ WsConns \subseteq Conns /\ WsConns \cap WtConns = {}
  BY AuthenticatorAssumption, HybridAssumption DEF HybridInv, Conns
<1>1. ASSUME NEW c \in Conns, NEW req \in Requests, Request(c, req)
      PROVE  Kept'
  <2>1. /\ pc[c] = "request"
        /\ pc' = [pc EXCEPT ![c] = "refused"] \/ pc' = [pc EXCEPT ![c] = "idle"]
        /\ \A d \in Conns \ {c} : userID'[d] = userID[d]
        /\ UNCHANGED <<connections, userConns, binding, rebound>>
    BY <1>0, <1>1, RequestAnswer DEF Request, Typed
  <2> QED BY <1>0, <2>1 DEF Typed
<1>2. ASSUME NEW c \in Conns, NEW u \in Users, BindUser(c, u)
      PROVE  Kept'
  BY <1>0, <1>2 DEF BindUser, Typed
<1>3. ASSUME NEW c \in Conns, RegisterConnection(c)
      PROVE  Kept'
  BY <1>0, <1>3 DEF RegisterConnection, Typed
<1>4. ASSUME NEW c \in Conns, UnregisterConnection(c)
      PROVE  Kept'
  BY <1>0, <1>4 DEF UnregisterConnection, Typed
<1>5. ASSUME NEW c \in Conns, \/ IncrementReads(c) \/ IncrementWrites(c)
                              \/ DecrementReads(c) \/ DecrementWrites(c) \/ RecordConnection(c)
      PROVE  Kept'
  BY <1>0, <1>5 DEF IncrementReads, IncrementWrites, DecrementReads, DecrementWrites,
                    RecordConnection, Typed
<1>6. ASSUME NEW c \in Conns, \/ OnConnectAccepts(c) \/ OnConnectRejects(c)
                              \/ OnDisconnect(c) \/ SessionEnds(c)
      PROVE  Kept'
  BY <1>0, <1>6 DEF OnConnectAccepts, OnConnectRejects, OnDisconnect, SessionEnds, Typed
<1>7. ASSUME NEW c \in Conns, BindUserInserts(c)
      PROVE  Kept'
  BY <1>0, <1>7 DEF BindUserInserts, Typed
<1>8. ASSUME NEW c \in Conns, unbindUser(c)
      PROVE  Kept'
  BY <1>0, <1>8 DEF unbindUser, Typed
<1>9. CASE UNCHANGED vars
  BY <1>0, <1>9 DEF vars
<1> QED BY <1>1, <1>2, <1>3, <1>4, <1>5, <1>6, <1>7, <1>8, <1>9 DEF Next

(* Only a BindUser to another user follows the request and changes it.      *)
LEMMA AuthStep == HybridInv /\ [Next]_vars => AuthenticatedUser'
<1> SUFFICES ASSUME HybridInv, [Next]_vars, setting'.given = "nil", setting'.enabled,
                    NEW d \in Conns, AuthEnabled(d)', pc'[d] \notin {"request", "refused"}
             PROVE  standsFor'[d] # None /\ (d \in rebound' \/ userID'[d] = standsFor'[d])
  BY DEF AuthenticatedUser
<1> USE DEF registry, count, conn, Goto
<1>0. Typed /\ AuthenticatedUser
  BY DEF HybridInv
<1>1. setting' = setting
  BY DEF Next, vars, Request, BindUser, RegisterConnection, IncrementReads, IncrementWrites,
         RecordConnection, OnConnectAccepts, OnConnectRejects, BindUserInserts, UnregisterConnection,
         unbindUser, DecrementReads, DecrementWrites, OnDisconnect, SessionEnds
<1>2. setting.given = "nil" /\ setting.enabled /\ AuthEnabled(d)
  BY <1>1 DEF AuthEnabled, ProtocolOf
<1>3. pc[d] \notin {"request", "refused"} => standsFor[d] # None /\ (d \in rebound \/ userID[d] = standsFor[d])
  BY <1>0, <1>2 DEF AuthenticatedUser
<1>4. ASSUME NEW c \in Conns, NEW req \in Requests, Request(c, req)
      PROVE  standsFor'[d] # None /\ (d \in rebound' \/ userID'[d] = standsFor'[d])
  <2>1. CASE c = d
    BY <1>0, <1>2, <1>4, <2>1, RequestAnswer DEF Typed
  <2>2. CASE c # d
    <3>1. pc'[d] = pc[d] /\ standsFor'[d] = standsFor[d] /\ userID'[d] = userID[d] /\ rebound' = rebound
      BY <1>0, <1>4, <2>2, RequestAnswer DEF Typed, Request
    <3> QED BY <1>3, <3>1
  <2> QED BY <2>1, <2>2
<1>5. ASSUME NEW c \in Conns, NEW u \in Users, BindUser(c, u)
      PROVE  standsFor'[d] # None /\ (d \in rebound' \/ userID'[d] = standsFor'[d])
  BY <1>0, <1>3, <1>5 DEF BindUser, Typed
<1>6. ASSUME NEW c \in Conns, BindUserInserts(c)
      PROVE  standsFor'[d] # None /\ (d \in rebound' \/ userID'[d] = standsFor'[d])
  BY <1>3, <1>6 DEF BindUserInserts
<1>7. ASSUME NEW c \in Conns,
             \/ RegisterConnection(c) \/ IncrementReads(c) \/ IncrementWrites(c)
             \/ RecordConnection(c) \/ OnConnectAccepts(c) \/ OnConnectRejects(c)
             \/ UnregisterConnection(c) \/ unbindUser(c)
             \/ DecrementReads(c) \/ DecrementWrites(c) \/ OnDisconnect(c) \/ SessionEnds(c)
      PROVE  standsFor'[d] # None /\ (d \in rebound' \/ userID'[d] = standsFor'[d])
  <2>1. UNCHANGED <<standsFor, userID, rebound>> /\ pc[d] \notin {"request", "refused"}
    BY <1>0, <1>7 DEF RegisterConnection, IncrementReads, IncrementWrites, RecordConnection,
         OnConnectAccepts, OnConnectRejects, UnregisterConnection, unbindUser,
         DecrementReads, DecrementWrites, OnDisconnect, SessionEnds, Typed
  <2> QED BY <1>3, <2>1
<1>8. CASE UNCHANGED vars
  BY <1>3, <1>8 DEF vars
<1> QED BY <1>4, <1>5, <1>6, <1>7, <1>8 DEF Next

(* Every step keeps the invariant.                                          *)
LEMMA HybridStep == HybridInv /\ [Next]_vars => HybridInv'
BY TypedStep, CountedStep, KeptStep, AuthStep DEF HybridInv

-----------------------------------------------------------------------------
(* For every number of connections: Broadcast and ForEachConnection reach a *)
(* connection from its OnConnect to its OnDisconnect, and one that reached  *)
(* OnDisconnect on the WebSocket server is not in s.connections nor under   *)
(* its user, nor under any user if BindUser never took it from one to       *)
(* another (connCount is off by at most one per callback).                  *)
THEOREM RegistryCorrect == Spec => [](ServedListed /\ WsRemoved)
<1> QED BY HybridInit, HybridStep, InvImplies, PTL DEF Spec

(* For every set of requests and claims: with the authenticator of          *)
(* NewServer, on a server that authenticates, the application sees only     *)
(* connections of requests that stand for a user, and under that user until *)
(* it binds one to another itself.                                          *)
THEOREM UsersAuthentic == Spec => []AuthenticatedUser
<1> QED BY HybridInit, HybridStep, InvImplies, PTL DEF Spec

=============================================================================
