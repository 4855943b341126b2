----------------------------- MODULE HubProofs ------------------------------
(***************************************************************************)
(* Hub for every number of shards, every placement of the connections and   *)
(* any number of walkers.                                                   *)
(*                                                                          *)
(* WalkSound rests on Placement: an ID leads to one shard, so a connection  *)
(* that is there all the time is in the shard where the walk looks for it.  *)
(* The shards together are one Registry.  A hub with a HeartbeatManager is  *)
(* a hub, and the manager closes only what was idle, for every Timeout.     *)
(***************************************************************************)
EXTENDS Heartbeat, FiniteSetTheorems, TLAPS

(* TypeOK without the bound on the sum that Stats computes.                 *)
Types ==
  /\ connections \in [Shards -> SUBSET Conns]
  /\ userConns \in [Shards -> [Users -> SUBSET Conns]]
  /\ userID \in [Conns -> Users \cup {None}]
  /\ binding \in [Conns -> Users \cup {None}]
  /\ life \in [Conns -> {"new", "in", "out"}]
  /\ what \in [Walkers -> Users \cup {All, None}]
  /\ next \in [Walkers -> 1 .. N + 1]
  /\ found \in [Walkers -> SUBSET Conns]
  /\ always \in [Walkers -> SUBSET Conns]
  /\ ever \in [Walkers -> SUBSET Conns]

(* Every entry is in the shard its ID leads to.                             *)
Placement ==
  \A s \in Shards :
    /\ \A c \in connections[s] : ShardOf[c] = s
    /\ \A u \in Users : \A c \in userConns[s][u] : ShardOf[c] = s

(* What a walk under way has seen and what is still there.                  *)
Walks ==
  \A r \in Walkers : what[r] # None =>
    /\ found[r] \subseteq ever[r]
    /\ Members(what[r]) \subseteq ever[r]
    /\ always[r] \subseteq Members(what[r])
    /\ \A c \in always[r] : ShardOf[c] < next[r] => c \in found[r]

WalkInv == Types /\ Placement /\ Walks

-----------------------------------------------------------------------------
(* The connections a walk is about are connections.                         *)
LEMMA MembersType ==
  ASSUME Types, NEW w \in Users \cup {All}
  PROVE  Members(w) \subseteq Conns
BY DEF Types, Members, MembersIn, Shards

(* A connection among the members of a walk is in the shard of its ID.      *)
LEMMA MemberShard ==
  ASSUME Types, Placement, NEW w \in Users \cup {All}, NEW c \in Members(w)
  PROVE  c \in ShardMembers(ShardOf[c], w)
BY DEF Types, Placement, Members, MembersIn, ShardMembers

(* A shard's share of the members.                                          *)
LEMMA ShardShare ==
  ASSUME NEW w, NEW s \in Shards
  PROVE  ShardMembers(s, w) \subseteq Members(w)
BY DEF Members, MembersIn, ShardMembers

(* A step that changes the shards and records it keeps what the walks know. *)
LEMMA ObserveKeepsWalks ==
  ASSUME WalkInv, Observe, Types'
  PROVE  Walks'
<1> SUFFICES ASSUME NEW r \in Walkers, what[r]' # None
             PROVE  (/\ found[r] \subseteq ever[r]
                     /\ Members(what[r]) \subseteq ever[r]
                     /\ always[r] \subseteq Members(what[r])
                     /\ \A c \in always[r] : ShardOf[c] < next[r] => c \in found[r])'
  BY DEF Walks
<1>1. what' = what /\ next' = next /\ found' = found
  BY DEF Observe, position
<1>2. Members(what[r])' = MembersIn(what[r], connections', userConns')
  BY <1>1 DEF Members
<1>3. /\ always'[r] = always[r] \cap MembersIn(what[r], connections', userConns')
      /\ ever'[r] = ever[r] \cup MembersIn(what[r], connections', userConns')
  BY <1>1 DEF Observe
<1> QED BY <1>1, <1>2, <1>3 DEF WalkInv, Walks

(* Every step keeps WalkInv, whatever Relax allows.                         *)
LEMMA WalkStep ==
  ASSUME WalkInv, [Next]_vars
  PROVE  WalkInv'
<1> USE DEF WalkInv
<1>1. ASSUME NEW c \in Conns, Register(c) \/ Unregister(c) \/ BindUserInserts(c)
      PROVE  WalkInv'
  <2>0. ShardOf[c] \in Shards
    BY HubAssumption
  <2>1. /\ Observe
        /\ connections' \in [Shards -> SUBSET Conns]
        /\ userConns' \in [Shards -> [Users -> SUBSET Conns]]
    <3>1. CASE Register(c)
      BY <2>0, <3>1 DEF Register, Types
    <3>2. CASE Unregister(c)
      <4>1. connections' \in [Shards -> SUBSET Conns]
        BY <2>0, <3>2 DEF Unregister, Types
      <4>2. userID[c] # None => userID[c] \in Users
        BY DEF Types
      <4>3. userConns' \in [Shards -> [Users -> SUBSET Conns]]
        BY <2>0, <3>2, <4>2 DEF Unregister, Types
      <4> QED BY <3>2, <4>1, <4>3 DEF Unregister
    <3>3. CASE BindUserInserts(c)
      <4>1. binding[c] \in Users
        BY <3>3 DEF BindUserInserts, Types
      <4>2. userConns' \in [Shards -> [Users -> SUBSET Conns]]
        BY <2>0, <3>3, <4>1 DEF BindUserInserts, Types
      <4> QED BY <3>3, <4>2 DEF BindUserInserts, Types
    <3> QED BY <1>1, <3>1, <3>2, <3>3
  <2>2. /\ userID' \in [Conns -> Users \cup {None}]
        /\ binding' \in [Conns -> Users \cup {None}]
        /\ life' \in [Conns -> {"new", "in", "out"}]
    BY <1>1 DEF Register, Unregister, BindUserInserts, Types
  <2>3. \A r \in Walkers : MembersIn(what[r], connections', userConns') \subseteq Conns \/ what[r] = None
    BY <2>1 DEF Types, MembersIn
  <2>4. Types'
    BY <2>1, <2>2, <2>3 DEF Types, Observe, position
  <2>5. Placement'
    <3>1. CASE Register(c)
      BY <2>0, <3>1 DEF Register, Types, Placement
    <3>2. CASE Unregister(c)
      BY <2>0, <3>2 DEF Unregister, Types, Placement
    <3>3. CASE BindUserInserts(c)
      <4>1. binding[c] \in Users
        BY <3>3 DEF BindUserInserts, Types
      <4> QED BY <2>0, <3>3, <4>1 DEF BindUserInserts, Types, Placement
    <3> QED BY <1>1, <3>1, <3>2, <3>3
  <2> QED BY <2>1, <2>4, <2>5, ObserveKeepsWalks
<1>2. ASSUME NEW c \in Conns, NEW u \in Users, BindUser(c, u)
      PROVE  WalkInv'
  BY <1>2 DEF BindUser, hub, position, history, Types, Placement, Walks, Members
<1>3. ASSUME NEW r \in Walkers, NEW w \in Users \cup {All}, WalkStarts(r, w)
      PROVE  WalkInv'
  <2>1. Members(w) \subseteq Conns
    BY MembersType
  <2>2. Types'
    BY <1>3, <2>1, HubAssumption DEF WalkStarts, hub, calls, Types
  <2>3. Placement'
    BY <1>3 DEF WalkStarts, hub, Placement
  <2>4. \A v : Members(v)' = Members(v)
    BY <1>3 DEF WalkStarts, hub, Members
  <2>5. \A c \in Conns : ~(ShardOf[c] < 1)
    BY HubAssumption DEF Shards
  <2>6. Walks'
    BY <1>3, <2>1, <2>4, <2>5 DEF WalkStarts, Types, Walks
  <2> QED BY <2>2, <2>3, <2>6
<1>4. ASSUME NEW r \in Walkers, WalkShard(r)
      PROVE  WalkInv'
  <2>1. what[r] \in Users \cup {All} /\ next[r] \in Shards
    BY <1>4 DEF WalkShard, Types
  <2>2. ShardMembers(next[r], what[r]) \subseteq Members(what[r])
    BY <2>1, ShardShare
  <2>3. Members(what[r]) \subseteq Conns
    BY <2>1, MembersType
  <2>4. Types'
    BY <1>4, <2>2, <2>3, HubAssumption DEF WalkShard, Shards, hub, calls, history, Types
  <2>5. Placement'
    BY <1>4 DEF WalkShard, hub, Placement
  <2>6. \A v : Members(v)' = Members(v)
    BY <1>4 DEF WalkShard, hub, Members
  <2>7. \A c \in always[r] : ShardOf[c] = next[r] => c \in ShardMembers(next[r], what[r])
    BY <1>4, <2>1, MemberShard DEF WalkShard, Walks
  <2>8. \A c \in Conns : ShardOf[c] < next[r] + 1 => ShardOf[c] < next[r] \/ ShardOf[c] = next[r]
    BY <2>1, HubAssumption DEF Shards
  <2>9. Walks'
    BY <1>4, <2>2, <2>6, <2>7, <2>8 DEF WalkShard, history, Types, Walks
  <2> QED BY <2>4, <2>5, <2>9
<1>5. ASSUME NEW r \in Walkers, WalkEnds(r) \/ ForEachStops(r)
      PROVE  WalkInv'
  <2>1. \A v : Members(v)' = Members(v)
    BY <1>5 DEF WalkEnds, ForEachStops, hub, Members
  <2>2. Types' /\ Placement'
    BY <1>5 DEF WalkEnds, ForEachStops, hub, calls, history, Types, Placement
  <2>3. /\ what' = [what EXCEPT ![r] = None]
        /\ next' = next /\ found' = found /\ always' = always /\ ever' = ever
    BY <1>5 DEF WalkEnds, ForEachStops, history
  <2>4. Walks'
    BY <2>1, <2>3 DEF Types, Walks
  <2> QED BY <2>2, <2>4
<1>6. CASE UNCHANGED vars
  <2>1. \A v : Members(v)' = Members(v)
    BY <1>6 DEF vars, hub, Members
  <2> QED BY <1>6, <2>1 DEF vars, hub, calls, position, history, Types, Placement, Walks
<1> QED BY <1>1, <1>2, <1>3, <1>4, <1>5, <1>6 DEF Next

-----------------------------------------------------------------------------
(* The maps, when nobody binds a connection to a second user or unregisters *)
(* it while BindUser runs.                                                  *)

(* An entry under a user is a registered connection bound to the user.      *)
Sound ==
  \A s \in Shards, u \in Users : \A c \in userConns[s][u] :
    life[c] = "in" /\ ShardOf[c] = s /\ userID[c] = u

(* A BindUser under way is about a registered connection.                   *)
Bindings ==
  \A c \in Conns :
    /\ binding[c] # None => life[c] = "in" /\ userID[c] = binding[c]
    /\ life[c] = "new" => userID[c] = None

IndexInv == Types /\ IndexExact /\ Sound /\ Bindings

(* Every step keeps IndexInv.                                               *)
LEMMA IndexStep ==
  ASSUME Relax = {}, IndexInv, [Next]_vars, Types'
  PROVE  IndexInv'
<1> USE DEF IndexInv
<1>1. ASSUME NEW c \in Conns, Register(c)
      PROVE  IndexInv'
  <2>1. Sound' /\ Bindings'
    BY <1>1 DEF Register, Types, Sound, Bindings
  <2>2. IndexExact'
    BY <1>1, HubAssumption DEF Register, Types, Sound, Bindings, IndexExact
  <2> QED BY <2>1, <2>2
<1>2. ASSUME NEW c \in Conns, Unregister(c)
      PROVE  IndexInv'
  <2>1. ShardOf[c] \in Shards /\ binding[c] = None
    BY <1>2, HubAssumption DEF Unregister
  <2>2. \A s \in Shards, u \in Users : userConns'[s][u] = userConns[s][u] \ {c}
    BY <1>2, <2>1, HubAssumption DEF Unregister, Types, Sound
  <2>3. Sound' /\ Bindings'
    BY <1>2, <2>1, <2>2 DEF Unregister, Types, Sound, Bindings
  <2>4. IndexExact'
    BY <1>2, <2>1, <2>2 DEF Unregister, Types, IndexExact
  <2> QED BY <2>3, <2>4
<1>3. ASSUME NEW c \in Conns, NEW u \in Users, BindUser(c, u)
      PROVE  IndexInv'
  <2>1. Sound' /\ Bindings'
    BY <1>3, HubAssumption DEF BindUser, hub, Types, Sound, Bindings
  <2>2. IndexExact'
    BY <1>3, HubAssumption DEF BindUser, hub, Types, IndexExact
  <2> QED BY <2>1, <2>2
<1>4. ASSUME NEW c \in Conns, BindUserInserts(c)
      PROVE  IndexInv'
  <2>1. ShardOf[c] \in Shards /\ binding[c] \in Users
    BY <1>4, HubAssumption DEF BindUserInserts, Types
  <2>2. \A s \in Shards, u \in Users :
          userConns'[s][u] = IF s = ShardOf[c] /\ u = binding[c] THEN userConns[s][u] \cup {c}
                             ELSE userConns[s][u]
    BY <1>4, <2>1 DEF BindUserInserts, Types
  <2>3. Sound' /\ Bindings'
    BY <1>4, <2>1, <2>2 DEF BindUserInserts, Types, Sound, Bindings
  <2>4. IndexExact'
    BY <1>4, <2>1, <2>2 DEF BindUserInserts, Types, Sound, Bindings, IndexExact
  <2> QED BY <2>3, <2>4
<1>5. ASSUME \/ UNCHANGED vars
             \/ \E r \in Walkers : \/ \E w \in Users \cup {All} : WalkStarts(r, w)
                                   \/ WalkShard(r) \/ WalkEnds(r) \/ ForEachStops(r)
      PROVE  IndexInv'
  <2>1. UNCHANGED <<hub, calls>>
    BY <1>5 DEF vars, WalkStarts, WalkShard, WalkEnds, ForEachStops
  <2> QED BY <2>1 DEF hub, calls, Sound, Bindings, IndexExact
<1> QED BY <1>1, <1>2, <1>3, <1>4, <1>5 DEF Next

(* An empty hub satisfies both invariants.                                  *)
LEMMA HubInit == Init => WalkInv /\ IndexInv
<1> SUFFICES ASSUME Init PROVE WalkInv /\ IndexInv
  OBVIOUS
<1>1. WalkInv
  BY HubAssumption DEF Init, WalkInv, Types, Placement, Walks
<1>2. Sound /\ Bindings /\ IndexExact
  BY HubAssumption DEF Init, Sound, Bindings, IndexExact
<1> QED BY <1>1, <1>2 DEF WalkInv, IndexInv

(* For every number of shards and every placement, the maps of each shard   *)
(* hold the registered connections and the bindings and nothing else, as    *)
(* long as callers bind a connection to one user and unregister it last.    *)
THEOREM IndexCorrect ==
  ASSUME Relax = {}
  PROVE  Spec => []IndexExact
<1>1. ASSUME WalkInv /\ IndexInv, [Next]_vars
      PROVE  WalkInv' /\ IndexInv'
  BY <1>1, WalkStep, IndexStep DEF WalkInv
<1>2. IndexInv => IndexExact
  BY DEF IndexInv
<1> QED BY <1>1, <1>2, HubInit, PTL DEF Spec

-----------------------------------------------------------------------------
(* The shards as one Registry.                                              *)

(* Where a connection is among all shards, from where it is in one.         *)
LEMMA Together ==
  ASSUME Types
  PROVE  /\ \A d : d \in Members(All) <=> \E s \in Shards : d \in connections[s]
         /\ \A u \in Users : \A d : d \in Members(u) <=> \E s \in Shards : d \in userConns[s][u]
BY HubAssumption DEF Members, MembersIn

(* Each step of the hub is one of Registry or none: Register, the insertion *)
(* of BindUser and Unregister change one shard and so the whole; the rest   *)
(* only looks.                                                              *)
LEMMA RegistryStep ==
  ASSUME Relax = {}, IndexInv, Types', [Next]_vars
  PROVE  [Reg!Next]_<<Members(All), byUser, Departed, Departed>>
<1>0. Types /\ (\A c \in Conns : ShardOf[c] \in Shards)
  BY HubAssumption DEF IndexInv
<1>1. /\ \A d : d \in Members(All) <=> \E s \in Shards : d \in connections[s]
      /\ \A u \in Users : \A d : d \in Members(u) <=> \E s \in Shards : d \in userConns[s][u]
  BY <1>0, Together
<1>2. /\ \A d : d \in Members(All)' <=> \E s \in Shards : d \in connections'[s]
      /\ \A u \in Users : \A d : d \in Members(u)' <=> \E s \in Shards : d \in userConns'[s][u]
  BY HubAssumption DEF Members, MembersIn
<1>3. ASSUME NEW c \in Conns, Register(c)
      PROVE  Reg!Next
  <2>1. /\ connections' = [connections EXCEPT ![ShardOf[c]] = @ \cup {c}]
        /\ userConns' = userConns /\ life[c] = "new" /\ life' = [life EXCEPT ![c] = "in"]
    BY <1>3 DEF Register
  <2>2. c \notin Members(All) /\ c \notin Departed
    BY <1>1, <2>1 DEF IndexInv, IndexExact, Departed
  <2>3. Members(All)' = Members(All) \cup {c}
    BY <1>0, <1>1, <1>2, <2>1 DEF Types
  <2>4. byUser' = byUser
    <3>1. \A u \in Users : Members(u)' = Members(u)
      BY <1>1, <1>2, <2>1
    <3> QED BY <3>1 DEF byUser
  <2>5. Departed' = Departed
    BY <1>0, <2>1 DEF Departed, Types
  <2> QED BY <2>2, <2>3, <2>4, <2>5 DEF Reg!Next, Reg!Register
<1>4. ASSUME NEW c \in Conns, Unregister(c)
      PROVE  Reg!Next
  <2>1. /\ connections' = [connections EXCEPT ![ShardOf[c]] = @ \ {c}]
        /\ life[c] = "in" /\ life' = [life EXCEPT ![c] = "out"]
    BY <1>4 DEF Unregister
  <2>2. \A s \in Shards, u \in Users : userConns'[s][u] = userConns[s][u] \ {c}
    <3>1. userID[c] \in Users \cup {None}
      BY <1>0 DEF Types
    <3> QED BY <1>0, <1>4, <3>1, HubAssumption DEF Unregister, Types, Sound, IndexInv
  <2>3. Members(All)' = Members(All) \ {c}
    <3>1. \A s \in Shards : connections[s] = {d \in Conns : life[d] = "in" /\ ShardOf[d] = s}
      BY DEF IndexInv, IndexExact
    <3>2. \A s \in Shards : connections'[s] = connections[s] \ {c}
      BY <1>0, <2>1, <3>1 DEF Types
    <3> QED BY <1>1, <1>2, <3>2
  <2>4. \A u \in Users : Members(u)' = Members(u) \ {c}
    BY <1>1, <1>2, <2>2
  <2>5. byUser' = [u \in Users |-> byUser[u] \ {c}] /\ \A u \in Users : c \notin byUser'[u]
    BY <2>4 DEF byUser
  <2>6. Departed' = Departed \cup {c} /\ c \notin Departed
    BY <1>0, <2>1 DEF Departed, Types
  <2> QED BY <2>3, <2>5, <2>6 DEF Reg!Next, Reg!Leave, Reg!Unbound
<1>5. ASSUME NEW c \in Conns, BindUserInserts(c)
      PROVE  Reg!Next
  <2>1. /\ binding[c] \in Users /\ life[c] = "in" /\ userID[c] = binding[c]
        /\ connections' = connections /\ life' = life
        /\ userConns' = [userConns EXCEPT ![ShardOf[c]][binding[c]] = @ \cup {c}]
    BY <1>0, <1>5 DEF BindUserInserts, Types, IndexInv, Bindings
  <2>2. Members(All)' = Members(All) /\ Departed' = Departed /\ c \notin Departed
    BY <1>1, <1>2, <2>1 DEF Departed
  <2>3. \A v \in Users \ {binding[c]} : c \notin Members(v)
    BY <1>1, <2>1 DEF IndexInv, Sound
  <2>4. \A s \in Shards, u \in Users :
          \A d : d \in userConns'[s][u] <=> d \in userConns[s][u] \/ (d = c /\ s = ShardOf[c] /\ u = binding[c])
    BY <1>0, <2>1 DEF Types
  <2>5. \A u \in Users : Members(u)' = IF u = binding[c] THEN Members(u) \cup {c} ELSE Members(u)
    <3>1. ASSUME NEW u \in Users, NEW d
          PROVE  d \in Members(u)' <=> d \in Members(u) \/ (d = c /\ u = binding[c])
      <4>1. d \in Members(u)' <=> \E s \in Shards : d \in userConns'[s][u]
        BY <1>2
      <4>2. d \in Members(u) <=> \E s \in Shards : d \in userConns[s][u]
        BY <1>1
      <4> QED BY <1>0, <2>4, <4>1, <4>2
    <3> QED BY <3>1
  <2>6. byUser' = [byUser EXCEPT ![binding[c]] = @ \cup {c}]
    BY <2>1, <2>5 DEF byUser
  <2>7. \A v \in Users \ {binding[c]} : c \notin byUser[v]
    BY <2>3 DEF byUser
  <2> QED BY <2>1, <2>2, <2>6, <2>7 DEF Reg!Next, Reg!Bind
<1>6. ASSUME \/ UNCHANGED vars \/ \E c \in Conns, u \in Users : BindUser(c, u)
             \/ \E r \in Walkers : \/ \E w \in Users \cup {All} : WalkStarts(r, w)
                                   \/ WalkShard(r) \/ WalkEnds(r) \/ ForEachStops(r)
      PROVE  UNCHANGED <<Members(All), byUser, Departed, Departed>>
  <2>1. connections' = connections /\ userConns' = userConns /\ life' = life
    BY <1>6 DEF vars, hub, calls, BindUser, WalkStarts, WalkShard, WalkEnds, ForEachStops
  <2>2. Members(All)' = Members(All) /\ \A u \in Users : Members(u)' = Members(u)
    BY <1>1, <1>2, <2>1
  <2> QED BY <2>1, <2>2 DEF byUser, Departed
<1> QED BY <1>3, <1>4, <1>5, <1>6 DEF Next

(* For every number of shards and every placement, callers that bind a      *)
(* connection to one user and unregister it last cannot tell the hub from   *)
(* one Registry, though it is spread over the shards and walked over by     *)
(* others.                                                                  *)
THEOREM HubIsRegistry ==
  ASSUME Relax = {}
  PROVE  Spec => ImplementsRegistry
<1>1. Init => Reg!Init
  <2> SUFFICES ASSUME Init PROVE Reg!Init
    OBVIOUS
  <2>1. Members(All) = {} /\ \A u \in Users : Members(u) = {}
    BY HubAssumption DEF Init, Members, MembersIn
  <2>2. Departed = {}
    BY DEF Init, Departed
  <2> QED BY <2>1, <2>2 DEF Reg!Init, byUser
<1>2. IndexInv /\ Types' /\ [Next]_vars => [Reg!Next]_<<Members(All), byUser, Departed, Departed>>
  BY RegistryStep
<1>3. WalkInv => Types
  BY DEF WalkInv
<1>4. WalkInv /\ IndexInv /\ [Next]_vars => WalkInv' /\ IndexInv'
  BY WalkStep, IndexStep DEF WalkInv
<1> QED BY <1>1, <1>2, <1>3, <1>4, HubInit, PTL DEF Spec, ImplementsRegistry, Reg!Spec

-----------------------------------------------------------------------------
(* The sum that Stats computes: each shard adds at most the number of users. *)

K == Cardinality(Users)

UsersBounded == users \in [Walkers -> Nat] /\ \A r \in Walkers : users[r] <= (next[r] - 1) * K

(* The arithmetic of the sum.                                               *)
LEMMA Products ==
  ASSUME NEW k \in Nat, NEW a \in Nat, NEW b \in Nat
  PROVE  /\ a * k \in Nat
         /\ a * k + k = (a + 1) * k
         /\ a <= b => a * k <= b * k
<1>1. a * k \in Nat
  OBVIOUS
<1>2. a * k + k = (a + 1) * k
  OBVIOUS
<1>3. a <= b => a * k <= b * k
  OBVIOUS
<1> QED BY <1>1, <1>2, <1>3

(* The users with a connection in a shard are users.                        *)
LEMMA ShardUsers ==
  ASSUME NEW s
  PROVE  LET n == Cardinality({u \in Users : userConns[s][u] # {}}) IN n \in Nat /\ n <= K /\ K \in Nat
<1> DEFINE S == {u \in Users : userConns[s][u] # {}}
<1>1. S \subseteq Users /\ IsFiniteSet(Users)
  BY HubAssumption
<1> HIDE DEF S
<1>2. IsFiniteSet(S) /\ Cardinality(S) <= Cardinality(Users)
  BY <1>1, FS_Subset
<1>3. Cardinality(S) \in Nat /\ Cardinality(Users) \in Nat
  BY <1>1, <1>2, FS_CardinalityType
<1> QED BY <1>2, <1>3 DEF S, K

(* Every step keeps the bound.                                              *)
LEMMA UsersStep ==
  ASSUME Types, UsersBounded, [Next]_vars
  PROVE  UsersBounded'
<1> USE DEF UsersBounded
<1>1. K \in Nat
  BY ShardUsers
<1>2. ASSUME users' = users, next' = next
      PROVE  UsersBounded'
  BY <1>2
<1>3. ASSUME NEW r \in Walkers, NEW w \in Users \cup {All}, WalkStarts(r, w)
      PROVE  UsersBounded'
  <2>1. users' = [users EXCEPT ![r] = 0] /\ next' = [next EXCEPT ![r] = 1]
    BY <1>3 DEF WalkStarts
  <2>2. 0 <= (1 - 1) * K
    BY <1>1
  <2> QED BY <2>1, <2>2 DEF Types
<1>4. ASSUME NEW r \in Walkers, WalkShard(r)
      PROVE  UsersBounded'
  <2> DEFINE n == Cardinality({u \in Users : userConns[next[r]][u] # {}})
  <2>1. users' = [users EXCEPT ![r] = @ + n] /\ next' = [next EXCEPT ![r] = @ + 1]
    BY <1>4 DEF WalkShard
  <2>2. n \in Nat /\ n <= K
    BY ShardUsers
  <2> HIDE DEF n
  <2>3. next[r] \in Nat /\ next[r] - 1 \in Nat /\ users[r] \in Nat /\ users[r] <= (next[r] - 1) * K
    BY HubAssumption DEF Types
  <2>4. (next[r] - 1) * K \in Nat /\ (next[r] - 1) * K + K = ((next[r] - 1) + 1) * K
    BY <1>1, <2>3, Products
  <2>5. (next[r] - 1) + 1 = (next[r] + 1) - 1
    BY <2>3
  <2>6. users[r] + n <= ((next[r] + 1) - 1) * K
    BY <1>1, <2>2, <2>3, <2>4, <2>5
  <2> QED BY <2>1, <2>2, <2>3, <2>6 DEF Types
<1> QED
  BY <1>2, <1>3, <1>4
  DEF Next, vars, Register, Unregister, BindUserInserts, BindUser, WalkEnds, ForEachStops, Observe, position

(* The walks of Count, GetByUser and Stats are sound under every            *)
(* interleaving of registrations, bindings and departures, for every number *)
(* of shards and whatever Relax allows; TotalUsers of Stats, which counts a *)
(* user once in each shard, stays within N times the number of users.       *)
THEOREM WalksSound == Spec => []WalkSound
<1>0. K \in Nat
  BY HubAssumption, FS_CardinalityType DEF K
<1>1. ASSUME Init
      PROVE  WalkInv /\ UsersBounded
  <2>1. WalkInv
    BY <1>1, HubInit
  <2>2. 0 <= (1 - 1) * K
    BY <1>0
  <2>3. UsersBounded
    BY <1>1, <2>2 DEF Init, UsersBounded
  <2> QED BY <2>1, <2>3
<1>2. ASSUME WalkInv /\ UsersBounded, [Next]_vars
      PROVE  WalkInv' /\ UsersBounded'
  BY <1>2, WalkStep, UsersStep DEF WalkInv
<1>3. ASSUME WalkInv /\ UsersBounded
      PROVE  WalkSound
  <2>1. ASSUME NEW r \in Walkers
        PROVE  users[r] \in 0 .. N * K
    <3>1. next[r] - 1 \in Nat /\ next[r] - 1 <= N /\ N \in Nat
      BY <1>3, HubAssumption DEF WalkInv, Types
    <3>2. (next[r] - 1) * K <= N * K /\ N * K \in Nat /\ (next[r] - 1) * K \in Nat
      BY <1>0, <3>1, Products
    <3> QED BY <1>3, <3>2 DEF UsersBounded
  <2>2. users \in [Walkers -> 0 .. N * K]
    BY <1>3, <2>1 DEF UsersBounded
  <2>3. TypeOK
    BY <1>3, <2>2 DEF WalkInv, Types, TypeOK, K
  <2> QED BY <1>3, <2>3, HubAssumption DEF WalkInv, Types, Walks, WalkSound, Shards
<1> QED BY <1>1, <1>2, <1>3, PTL DEF Spec

-----------------------------------------------------------------------------
(* The manager.                                                             *)

(* What the manager does to the hub is a walk, and what it lets happen are  *)
(* steps of the hub.                                                        *)
LEMMA ManagerStep == [HeartbeatNext]_allVars => [Next]_vars
<1> SUFFICES ASSUME [HeartbeatNext]_allVars PROVE [Next]_vars
  OBVIOUS
<1> USE HeartbeatAssumption
<1>1. CASE Tick \/ (\E c \in Watched : UpdateActivity(c)) \/ EnterShard
           \/ (\E c \in Conns : Check(c)) \/ CloseTimedOut \/ CloseReturns \/ Cancel
  BY <1>1 DEF Tick, UpdateActivity, EnterShard, Check, CloseTimedOut, CloseReturns, Cancel
<1>2. ASSUME NEW c \in Watched, HubStep(c)
      PROVE  Next
  BY <1>2 DEF HubStep, Next
<1>3. CASE checkConnections \/ LeaveShard \/ checkReturns
  BY <1>3 DEF checkConnections, LeaveShard, checkReturns, Next
<1>4. CASE UNCHANGED allVars
  BY <1>4 DEF allVars
<1> QED BY <1>1, <1>2, <1>3, <1>4 DEF HeartbeatNext, Walk

(* A hub with a HeartbeatManager is a hub: what is shown of every walk and  *)
(* of the maps holds while the manager walks, too.                          *)
THEOREM ManagedHubIsHub == HeartbeatSpec => Spec
<1>1. HeartbeatInit => Init
  BY DEF HeartbeatInit
<1> QED BY <1>1, ManagerStep, PTL DEF HeartbeatSpec, Spec

(* Under the same discipline of the callers, a hub with a manager keeps its *)
(* maps exact and its walks sound, and is a Registry.                       *)
COROLLARY ManagedHubCorrect ==
  ASSUME Relax = {}
  PROVE  HeartbeatSpec => [](IndexExact /\ WalkSound) /\ ImplementsRegistry
BY ManagedHubIsHub, IndexCorrect, WalksSound, HubIsRegistry, PTL

(* What the manager knows is old but not wrong: a connection that is idle   *)
(* now has been recorded as such, and the manager's now is not ahead.       *)
BeatTypes ==
  /\ clock \in Nat /\ now \in Nat
  /\ lastActivity \in [Conns -> Nat \cup {None}]
  /\ wasIdle \in [Conns -> BOOLEAN] /\ closed \in [Conns -> BOOLEAN]
  /\ doomed \in Conns \cup {None}

BeatInv ==
  /\ BeatTypes
  /\ now <= clock
  /\ \A c \in Conns : Idle(clock, c) => wasIdle[c]
  /\ doomed # None => wasIdle[doomed]
  /\ SteadyStaysOpen

(* Every step keeps BeatInv.                                                *)
LEMMA BeatStep ==
  ASSUME BeatInv, [HeartbeatNext]_allVars
  PROVE  BeatInv'
<1> USE HeartbeatAssumption DEF BeatInv, BeatTypes, SteadyStaysOpen
<1>1. CASE Tick
  <2>1. /\ clock' = clock + 1 /\ now' = now /\ lastActivity' = lastActivity /\ doomed' = doomed /\ closed' = closed
        /\ wasIdle' = [c \in Conns |-> wasIdle[c] \/ Idle(clock + 1, c)]
    BY <1>1 DEF Tick, manager
  <2>2. BeatTypes' /\ (now <= clock)'
    BY <2>1 DEF Idle
  <2>3. \A c \in Conns : wasIdle[c] => wasIdle'[c]
    BY <2>1
  <2>4. \A c \in Conns : Idle(clock, c)' => wasIdle'[c]
    BY <2>1 DEF Idle
  <2> QED BY <2>1, <2>2, <2>3, <2>4
<1>2. ASSUME NEW c \in Watched, UpdateActivity(c)
      PROVE  BeatInv'
  <2>1. /\ clock' = clock /\ now' = now /\ doomed' = doomed /\ closed' = closed /\ wasIdle' = wasIdle
        /\ lastActivity' = [lastActivity EXCEPT ![c] = clock]
    BY <1>2 DEF UpdateActivity, manager
  <2>2. ~(clock + Timeout < clock)
    OBVIOUS
  <2>3. \A d \in Conns : Idle(clock, d)' => Idle(clock, d)
    BY <2>1, <2>2 DEF Idle
  <2>4. BeatTypes'
    BY <2>1
  <2> QED BY <2>1, <2>3, <2>4
<1>3. CASE checkConnections
  BY <1>3 DEF checkConnections, time, Idle
<1>4. ASSUME NEW c \in Conns, Check(c)
      PROVE  BeatInv'
  <2>1. /\ clock' = clock /\ now' = now /\ closed' = closed /\ wasIdle' = wasIdle
        /\ lastActivity' = lastActivity /\ doomed' = IF TimedOut(now, c) THEN c ELSE None
    BY <1>4 DEF Check, time
  <2>2. TimedOut(now, c) => Idle(clock, c)
    BY DEF TimedOut, Idle
  <2> QED BY <2>1, <2>2 DEF Idle
<1>5. CASE CloseTimedOut
  BY <1>5 DEF CloseTimedOut, time, Idle
<1>6. CASE UNCHANGED beat \/ EnterShard \/ LeaveShard \/ checkReturns \/ CloseReturns \/ Cancel
           \/ \E c \in Watched : HubStep(c)
  <2>1. UNCHANGED <<clock, now, closed, wasIdle, lastActivity, doomed>>
    BY <1>6 DEF beat, time, manager, EnterShard, LeaveShard, checkReturns, CloseReturns, Cancel, HubStep
  <2> QED BY <2>1 DEF Idle
<1> QED BY <1>1, <1>2, <1>3, <1>4, <1>5, <1>6 DEF HeartbeatNext, Walk, allVars

(* For every Timeout and every order of ticks, reports and walks, the       *)
(* HeartbeatManager closes no connection that reported activity within      *)
(* every Timeout, nor one that has never reported any.                      *)
THEOREM ManagerClosesIdle == HeartbeatSpec => []SteadyStaysOpen
<1>1. HeartbeatInit => BeatInv
  BY HeartbeatAssumption DEF HeartbeatInit, BeatInv, BeatTypes, SteadyStaysOpen, Idle
<1>2. BeatInv => SteadyStaysOpen
  BY DEF BeatInv
<1> QED BY <1>1, <1>2, BeatStep, PTL DEF HeartbeatSpec

=============================================================================
