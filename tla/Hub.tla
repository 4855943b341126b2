-------------------------------- MODULE Hub ---------------------------------
(***************************************************************************)
(* The connection hub of stateful/hub.go: two maps per shard under the      *)
(* shard's lock, the operations that change one shard, and the ones that    *)
(* walk over all shards with one lock at a time (Count, GetByUser, ForEach, *)
(* Stats).  A walk is not one step: connections come and go while it is     *)
(* between two shards.                                                      *)
(***************************************************************************)
EXTENDS Integers, FiniteSets

CONSTANTS
  Conns,    \* the connections, each with an ID of its own
  Users,    \* the user IDs other than ""
  None,     \* the user ID "", and "no BindUser in progress"
  N,        \* len(h.shards)
  ShardOf,  \* getShard(conn.ID())
  Walkers,  \* the goroutines that walk over the hub
  All,      \* what Count, ForEach and Stats walk over: all connections
  Relax     \* what callers may do beyond their best behaviour:
            \* "rebind": bind a connection to a second user
            \* "late": BindUser still runs when Unregister is called

Shards == 1 .. N

ASSUME HubAssumption ==
  /\ N \in Nat \ {0}
  /\ ShardOf \in [Conns -> Shards]
  /\ IsFiniteSet(Users)
  /\ None \notin Users
  /\ All \notin Users /\ All # None
  /\ Relax \subseteq {"rebind", "late"}

VARIABLES
  connections,  \* shard.connections
  userConns,    \* shard.userConns
  userID,       \* conn.userID
  binding,      \* the user of a BindUser between SetUserID and the lock
  life,         \* a connection is registered once and unregistered once
  what,         \* what a walker walks over: All or a user; None outside
  next,         \* the shard it locks next
  found,        \* the connections it has found
  users,        \* the sum of len(shard.userConns) it has computed
  always,       \* history: the connections that were there all the time
  ever          \* history: the connections that were there at some time

hub == <<connections, userConns>>
calls == <<userID, binding, life>>
position == <<what, next, found, users>>
history == <<always, ever>>
vars == <<hub, calls, position, history>>

(* The connections a walk over w is about.                                  *)
MembersIn(w, conns, uconns) ==
  IF w = All THEN UNION {conns[s] : s \in Shards} ELSE UNION {uconns[s][w] : s \in Shards}

Members(w) == MembersIn(w, connections, userConns)

(* The history of the walks under way, after a step of another goroutine.   *)
Observe ==
  /\ always' = [r \in Walkers |->
                  IF what[r] = None THEN always[r] ELSE always[r] \cap MembersIn(what[r], connections', userConns')]
  /\ ever' = [r \in Walkers |->
                IF what[r] = None THEN ever[r] ELSE ever[r] \cup MembersIn(what[r], connections', userConns')]
  /\ UNCHANGED position

-----------------------------------------------------------------------------
(* Mistakes in this code that the properties below exclude.                 *)

(* Unregister deletes the user's whole entry of the shard.                  *)
UnregisterUser(c) ==
  /\ life[c] = "in"
  /\ binding[c] = None \/ "late" \in Relax
  /\ life' = [life EXCEPT ![c] = "out"]
  /\ connections' = [connections EXCEPT ![ShardOf[c]] = @ \ {c}]
  /\ userConns' = IF userID[c] = None THEN userConns
                  ELSE [userConns EXCEPT ![ShardOf[c]][userID[c]] = {}]
  /\ UNCHANGED <<userID, binding>>
  /\ Observe

(* A walk starts at the second shard.                                       *)
WalkStartsLate(r, w) ==
  /\ what[r] = None
  /\ what' = [what EXCEPT ![r] = w]
  /\ next' = [next EXCEPT ![r] = 2]
  /\ found' = [found EXCEPT ![r] = {}]
  /\ users' = [users EXCEPT ![r] = 0]
  /\ always' = [always EXCEPT ![r] = Members(w)]
  /\ ever' = [ever EXCEPT ![r] = Members(w)]
  /\ UNCHANGED <<hub, calls>>

-----------------------------------------------------------------------------
(* The operations on one shard.                                             *)

Register(c) ==
  /\ life[c] = "new"
  /\ life' = [life EXCEPT ![c] = "in"]
  /\ connections' = [connections EXCEPT ![ShardOf[c]] = @ \cup {c}]
  /\ UNCHANGED <<userConns, userID, binding>>
  /\ Observe

Unregister(c) ==
  /\ life[c] = "in"
  /\ binding[c] = None \/ "late" \in Relax
  /\ life' = [life EXCEPT ![c] = "out"]
  /\ connections' = [connections EXCEPT ![ShardOf[c]] = @ \ {c}]
  /\ userConns' = IF userID[c] = None THEN userConns
                  ELSE [userConns EXCEPT ![ShardOf[c]][userID[c]] = @ \ {c}]
  /\ UNCHANGED <<userID, binding>>
  /\ Observe

(* BindUser: SetUserID, then the shard under its lock.                      *)
BindUser(c, u) ==
  /\ life[c] = "in"
  /\ binding[c] = None
  /\ "rebind" \in Relax \/ userID[c] \in {None, u}
  /\ userID' = [userID EXCEPT ![c] = u]
  /\ binding' = [binding EXCEPT ![c] = u]
  /\ UNCHANGED <<hub, life, position, history>>

BindUserInserts(c) ==
  /\ binding[c] # None
  /\ userConns' = [userConns EXCEPT ![ShardOf[c]][binding[c]] = @ \cup {c}]
  /\ binding' = [binding EXCEPT ![c] = None]
  /\ UNCHANGED <<connections, userID, life>>
  /\ Observe

-----------------------------------------------------------------------------
(* The walks.  len(shard.userConns) counts the users with a connection in   *)
(* the shard: an empty inner map is deleted.                                *)

ShardMembers(s, w) == IF w = All THEN connections[s] ELSE userConns[s][w]

WalkStarts(r, w) ==
  /\ what[r] = None
  /\ what' = [what EXCEPT ![r] = w]
  /\ next' = [next EXCEPT ![r] = 1]
  /\ found' = [found EXCEPT ![r] = {}]
  /\ users' = [users EXCEPT ![r] = 0]
  /\ always' = [always EXCEPT ![r] = Members(w)]
  /\ ever' = [ever EXCEPT ![r] = Members(w)]
  /\ UNCHANGED <<hub, calls>>

WalkShard(r) ==
  /\ what[r] # None
  /\ next[r] \in Shards
  /\ found' = [found EXCEPT ![r] = @ \cup ShardMembers(next[r], what[r])]
  /\ users' = [users EXCEPT ![r] = @ + Cardinality({u \in Users : userConns[next[r]][u] # {}})]
  /\ next' = [next EXCEPT ![r] = @ + 1]
  /\ UNCHANGED <<hub, calls, what, history>>

WalkEnds(r) ==
  /\ what[r] # None
  /\ next[r] = N + 1
  /\ what' = [what EXCEPT ![r] = None]
  /\ UNCHANGED <<hub, calls, next, found, users, history>>

(* The function given to ForEach returns false.                             *)
ForEachStops(r) ==
  /\ what[r] = All
  /\ next[r] > 1
  /\ what' = [what EXCEPT ![r] = None]
  /\ UNCHANGED <<hub, calls, next, found, users, history>>

-----------------------------------------------------------------------------
Init ==
  /\ connections = [s \in Shards |-> {}]
  /\ userConns = [s \in Shards |-> [u \in Users |-> {}]]
  /\ userID = [c \in Conns |-> None]
  /\ binding = [c \in Conns |-> None]
  /\ life = [c \in Conns |-> "new"]
  /\ what = [r \in Walkers |-> None]
  /\ next = [r \in Walkers |-> 1]
  /\ found = [r \in Walkers |-> {}]
  /\ users = [r \in Walkers |-> 0]
  /\ always = [r \in Walkers |-> {}]
  /\ ever = [r \in Walkers |-> {}]

Next ==
  \/ \E c \in Conns :
       \/ Register(c) \/ Unregister(c) \/ BindUserInserts(c)
       \/ \E u \in Users : BindUser(c, u)
  \/ \E r \in Walkers :
       \/ \E w \in Users \cup {All} : WalkStarts(r, w)
       \/ WalkShard(r) \/ WalkEnds(r) \/ ForEachStops(r)

Spec == Init /\ [][Next]_vars

-----------------------------------------------------------------------------
(* Properties.                                                              *)

(* Every variable holds what its Go type and its comment above allow.       *)
TypeOK ==
  /\ connections \in [Shards -> SUBSET Conns]
  /\ userConns \in [Shards -> [Users -> SUBSET Conns]]
  /\ userID \in [Conns -> Users \cup {None}]
  /\ binding \in [Conns -> Users \cup {None}]
  /\ life \in [Conns -> {"new", "in", "out"}]
  /\ what \in [Walkers -> Users \cup {All, None}]
  /\ next \in [Walkers -> 1 .. N + 1]
  /\ found \in [Walkers -> SUBSET Conns]
  /\ users \in [Walkers -> 0 .. N * Cardinality(Users)]
  /\ always \in [Walkers -> SUBSET Conns]
  /\ ever \in [Walkers -> SUBSET Conns]

(* The maps of a shard hold exactly the registered connections whose ID     *)
(* leads to it, and under each user the ones bound to the user; none after  *)
(* Unregister.                                                              *)
IndexExact ==
  \A s \in Shards :
    /\ connections[s] = {c \in Conns : life[c] = "in" /\ ShardOf[c] = s}
    /\ \A u \in Users : \A c \in Conns :
         binding[c] = None =>
           (c \in userConns[s][u] <=> life[c] = "in" /\ ShardOf[c] = s /\ userID[c] = u)

(* A finished walk of Count, GetByUser or Stats found every connection that *)
(* was there all the time, and nothing that was not there at some time,     *)
(* though registrations and departures ran between its shards.              *)
WalkSound ==
  /\ TypeOK
  /\ \A r \in Walkers : what[r] # None =>
       /\ found[r] \subseteq ever[r]
       /\ next[r] = N + 1 => always[r] \subseteq found[r]

byUser == [u \in Users |-> Members(u)]
Departed == {c \in Conns : life[c] = "out"}

Reg == INSTANCE Registry WITH
  listed <- Members(All), index <- byUser, left <- Departed, gone <- Departed

(* The shards together behave as one Registry: callers of Register,         *)
(* Unregister and BindUser do not see that there are several.               *)
ImplementsRegistry == Reg!Spec

-----------------------------------------------------------------------------
(* What the repository says and the code does not do: TLC refutes each of   *)
(* these in the configuration that README.md gives.                         *)

(* What Unregister removes is gone for good.                                *)
NothingLeftBehind ==
  \A s \in Shards : \A u \in Users : \A c \in userConns[s][u] : life[c] # "out"

(* TotalUsers of a finished Stats is no more than the users there are.      *)
TotalUsersBounded ==
  \A r \in Walkers : (what[r] = All /\ next[r] = N + 1) => users[r] <= Cardinality(Users)
=============================================================================
