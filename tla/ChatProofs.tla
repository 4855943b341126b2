----------------------------- MODULE ChatProofs ------------------------------
(***************************************************************************)
(* The chat handler for every set of connections, users and rooms, for      *)
(* clients that join under a name nobody else uses, leave a room before     *)
(* they join another, and give neither an empty name nor an empty room.     *)
(* Without any one of these the theorems are false, as the divergences in   *)
(* README.md show; a client may speak where it is not (Relax = {"speak"}).  *)
(***************************************************************************)
EXTENDS Chat, TLAPS

(* The types; a callback that is not over has something to tell.            *)
TypeInv == TypeOK /\ \A c \in Conns : pc[c] # "idle" => notice[c] \in Notice

(* What the discipline of the clients gives: connected clients have         *)
(* different names, and "" is neither a member nor a room.                  *)
Named ==
  /\ \A c, d \in Conns :
       (life[c] = "open" /\ life[d] = "open" /\ userID[c] = userID[d] /\ userID[c] # Blank) => c = d
  /\ \A c \in Conns : roomId[c] # Blank => userID[c] # Blank /\ life[c] # "new"
  /\ \A n \in Names : userToRoom[n] # None => n # Blank /\ userToRoom[n] # Blank

(* The two maps, without the types.                                         *)
Agree ==
  \A r \in RoomIDs, n \in Names :
    /\ rooms[r][n] # None <=> userToRoom[n] = r
    /\ rooms[r][n] # None => roomId[rooms[r][n]] = r

IndexInv == TypeInv /\ Named /\ MembersConnected /\ Agree

(* Who announces a join is in the room, and notices of a room go to those who *)
(* have been in it.                                                         *)
Announced ==
  /\ \A c \in Conns :
       /\ pc[c] = "reply" => notice[c].type = "join"
       /\ (pc[c] # "idle" /\ notice[c].type = "join") => rooms[notice[c].room][notice[c].user] = c
       /\ pc[c] = "send" => \A d \in copy[c] : notice[c].room \in visited[d]
  /\ \A r \in RoomIDs, n \in Names : rooms[r][n] # None => r \in visited[rooms[r][n]]

(* A notice that n has left room r is on its way to c.                      *)
LeaveTold(c, r, n) ==
  \E d \in Conns :
    /\ notice[d] = [type |-> "leave", user |-> n, room |-> r]
    /\ pc[d] = "copy" \/ (pc[d] = "send" /\ c \in copy[d])

(* A client that has only been in one room, and has seen the reply to its   *)
(* join, believes in nobody who has left without a notice on its way to it. *)
RosterTold ==
  \A c \in Conns, r \in RoomIDs, n \in Names :
    (c \in Members(r) /\ visited[c] = {r} /\ pc[c] # "reply" /\ n \in roster[c])
      => rooms[r][n] # None \/ LeaveTold(c, r, n)

RosterInv == Announced /\ RosterTold

-----------------------------------------------------------------------------
(* The clients that the theorems are about.                                 *)
Disciplined == Relax \subseteq {"speak"}

(* The names of connections, and the members of rooms, are never None.      *)
LEMMA Distinguished ==
  None \notin Conns /\ None \notin RoomIDs /\ Blank \in Names /\ Blank \in RoomIDs
BY ChatAssumption DEF Names, RoomIDs

(* What a callback says is a notice.                                        *)
LEMMA NoticeType ==
  ASSUME NEW t \in {"join", "leave", "message"}, NEW n \in Names, NEW r \in RoomIDs
  PROVE  [type |-> t, user |-> n, room |-> r] \in Notice
BY DEF Notice

(* Names are names, and members are connections.                            *)
LEMMA NameType ==
  ASSUME TypeOK, NEW c \in Conns, NEW n \in Names
  PROVE  Name(c, n) \in Names
BY DEF Name, TypeOK

(* The members of a room are connections.                                   *)
LEMMA MembersType ==
  ASSUME TypeOK, NEW r \in RoomIDs
  PROVE  Members(r) \in SUBSET Conns
BY DEF Members, TypeOK

(* Every step keeps the types.                                              *)
LEMMA TypeStep ==
  ASSUME TypeInv, [Next]_vars
  PROVE  TypeInv'
<1> USE DEF TypeInv, TypeOK
<1>1. CASE UNCHANGED vars
  BY <1>1 DEF vars, handler, conn, sending, client
<1>2. ASSUME NEW c \in Conns, NEW n \in Names, OnConnect(c, n)
      PROVE  TypeInv'
  BY <1>2 DEF OnConnect, handler, sending, client
<1>3. ASSUME NEW c \in Conns, NEW n \in Names, NEW r \in RoomIDs, handleJoin(c, r, n)
      PROVE  TypeInv'
  <2>1. Name(c, n) \in Names /\ [type |-> "join", user |-> Name(c, n), room |-> r] \in Notice
    BY NameType, NoticeType
  <2> QED BY <1>3, <2>1 DEF handleJoin, Goto
<1>4. ASSUME NEW c \in Conns, NEW n \in Names, handleMessage(c, n)
      PROVE  TypeInv'
  <2>1. [type |-> "message", user |-> Name(c, n), room |-> roomId[c]] \in Notice
    BY NameType, NoticeType
  <2> QED BY <1>4, <2>1 DEF handleMessage, Announce, Goto, handler, conn, client
<1>5. ASSUME NEW c \in Conns, NEW n \in Names, handleLeave(c, n)
      PROVE  TypeInv'
  <2>1. Name(c, n) \in Names /\ [type |-> "leave", user |-> Name(c, n), room |-> roomId[c]] \in Notice
    BY NameType, NoticeType
  <2> QED BY <1>5, <2>1 DEF handleLeave, DeleteMember, Announce, Goto, conn, client
<1>6. ASSUME NEW c \in Conns, JoinReply(c) \/ CallbackReturns(c)
      PROVE  TypeInv'
  <2>1. CASE JoinReply(c)
    BY <2>1 DEF JoinReply, Goto, handler, conn
  <2>2. CASE CallbackReturns(c)
    BY <2>2 DEF CallbackReturns, Goto, handler, conn, client
  <2> QED BY <1>6, <2>1, <2>2
<1>7. ASSUME NEW c \in Conns, broadcastToRoom(c)
      PROVE  TypeInv'
  <2>1. Members(notice[c].room) \in SUBSET Conns
    BY <1>7, MembersType DEF broadcastToRoom, Notice
  <2> QED BY <1>7, <2>1 DEF broadcastToRoom, Goto, handler, conn, client
<1>8. ASSUME NEW c \in Conns, OnDisconnect(c)
      PROVE  TypeInv'
  <2>1. CASE userID[c] = Blank \/ userToRoom[userID[c]] = None
    BY <1>8, <2>1 DEF OnDisconnect, handler, client
  <2>2. CASE ~(userID[c] = Blank \/ userToRoom[userID[c]] = None)
    <3>1. /\ userToRoom[userID[c]] \in RoomIDs
          /\ [type |-> "leave", user |-> userID[c], room |-> userToRoom[userID[c]]] \in Notice
      BY <2>2, NoticeType
    <3>2. /\ DeleteMember(userToRoom[userID[c]], userID[c])
          /\ userToRoom' = [userToRoom EXCEPT ![userID[c]] = None]
          /\ life' = [life EXCEPT ![c] = "over"]
          /\ UNCHANGED <<userID, roomId, copy, roster, visited>>
      BY <1>8, <2>2 DEF OnDisconnect, client
    <3>3. CASE UNCHANGED <<notice, pc>>
      BY <3>1, <3>2, <3>3 DEF DeleteMember
    <3>4. CASE Announce(c, "leave", userID[c], userToRoom[userID[c]])
      BY <3>1, <3>2, <3>4 DEF Announce, Goto, DeleteMember
    <3> QED BY <1>8, <2>2, <3>3, <3>4 DEF OnDisconnect
  <2> QED BY <2>1, <2>2
<1>9. ASSUME NEW c \in Conns, NEW d \in Conns, Send(c, d)
      PROVE  TypeInv'
  <2>1. notice[c].user \in Names
    BY <1>9 DEF Send, Notice
  <2> QED BY <1>9, <2>1 DEF Send, handler, conn
<1> QED BY <1>1, <1>2, <1>3, <1>4, <1>5, <1>6, <1>7, <1>8, <1>9 DEF Next

-----------------------------------------------------------------------------
(* The rooms.                                                               *)

(* The steps that tell somebody change neither map and no connection.       *)
LEMMA TellingStep ==
  ASSUME NEW c \in Conns,
         \/ \E n \in Names : handleMessage(c, n)
         \/ JoinReply(c) \/ broadcastToRoom(c) \/ CallbackReturns(c)
         \/ \E d \in Conns : Send(c, d)
  PROVE  UNCHANGED <<handler, conn>>
BY DEF handleMessage, JoinReply, broadcastToRoom, CallbackReturns, Send

(* OnDisconnect of a connection that is in no room, and of one that is.     *)
LEMMA DisconnectOutside ==
  ASSUME NEW c \in Conns, OnDisconnect(c), userID[c] = Blank \/ userToRoom[userID[c]] = None
  PROVE  /\ life[c] = "open" /\ life' = [life EXCEPT ![c] = "over"]
         /\ UNCHANGED <<handler, userID, roomId, sending, client>>
BY DEF OnDisconnect, sending

(* OnDisconnect of a connection whose user the index has in a room.         *)
LEMMA DisconnectInside ==
  ASSUME NEW c \in Conns, OnDisconnect(c), userID[c] # Blank, userToRoom[userID[c]] # None
  PROVE  /\ life[c] = "open" /\ life' = [life EXCEPT ![c] = "over"]
         /\ DeleteMember(userToRoom[userID[c]], userID[c])
         /\ userToRoom' = [userToRoom EXCEPT ![userID[c]] = None]
         /\ \/ userToRoom[userID[c]] = Blank /\ UNCHANGED <<notice, pc>>
            \/ Announce(c, "leave", userID[c], userToRoom[userID[c]])
         /\ UNCHANGED <<userID, roomId, copy, client>>
BY DEF OnDisconnect

(* In a room a user has one connection, the one that is open under its name.*)
LEMMA OwnRoom ==
  ASSUME IndexInv, NEW c \in Conns, life[c] = "open", userID[c] # Blank,
         NEW r \in RoomIDs, rooms[r][userID[c]] # None
  PROVE  rooms[r][userID[c]] = c /\ roomId[c] = r /\ userToRoom[userID[c]] = r
BY DEF IndexInv, TypeInv, TypeOK, Named, MembersConnected, Agree

(* Every step keeps IndexInv.                                               *)
LEMMA IndexStep ==
  ASSUME Disciplined, IndexInv, [Next]_vars
  PROVE  IndexInv'
<1>0. TypeInv'
  BY TypeStep DEF IndexInv
<1>1. CASE UNCHANGED <<handler, conn>>
  BY <1>0, <1>1 DEF IndexInv, Named, MembersConnected, Agree, handler, conn
<1>2. ASSUME NEW c \in Conns, NEW n \in Names, OnConnect(c, n)
      PROVE  IndexInv'
  <2> USE <1>2 DEF OnConnect, Disciplined, IndexInv, TypeInv, TypeOK, handler
  <2>1. Named'
    BY DEF Named, MembersConnected
  <2>2. MembersConnected' /\ Agree'
    BY DEF MembersConnected, Agree
  <2> QED BY <1>0, <2>1, <2>2
<1>3. ASSUME NEW c \in Conns, NEW n \in Names, NEW r \in RoomIDs, handleJoin(c, r, n)
      PROVE  IndexInv'
  <2> DEFINE name == Name(c, n)
  <2>1. /\ name \in Names \ {Blank} /\ r # Blank
        /\ ~IsMember(c)
        /\ \A d \in Conns \ {c} : life[d] = "open" => userID[d] # name
        /\ userID[c] \in {Blank, name}
    BY <1>3, NameType DEF handleJoin, Disciplined, IndexInv, TypeInv, Name
  <2>2. \A q \in RoomIDs : rooms[q][name] = None
    BY <2>1 DEF IndexInv, TypeInv, TypeOK, MembersConnected, IsMember, Members
  <2>3. /\ life[c] = "open" /\ UNCHANGED life
        /\ userID' = [userID EXCEPT ![c] = name]
        /\ roomId' = [roomId EXCEPT ![c] = r]
        /\ rooms' = [rooms EXCEPT ![r][name] = c]
        /\ userToRoom' = [userToRoom EXCEPT ![name] = r]
    BY <1>3 DEF handleJoin
  <2>4. \A q \in RoomIDs, m \in Names : rooms[q][m] # c
    BY <2>1, Distinguished DEF IsMember, Members
  <2> HIDE DEF name
  <2>5. Named'
    BY <2>1, <2>3 DEF Named, IndexInv, TypeInv, TypeOK
  <2>6. MembersConnected'
    BY <2>1, <2>3, <2>4 DEF MembersConnected, IndexInv, TypeInv, TypeOK
  <2>7. Agree'
    BY <2>1, <2>2, <2>3, <2>4, Distinguished DEF Agree, IndexInv, TypeInv, TypeOK
  <2> QED BY <1>0, <2>5, <2>6, <2>7 DEF IndexInv
<1>4. ASSUME NEW c \in Conns, NEW n \in Names, handleLeave(c, n)
      PROVE  IndexInv'
  <2>1. Name(c, n) = userID[c] /\ userID[c] \in Names \ {Blank} /\ roomId[c] \in RoomIDs /\ life[c] = "open"
    BY <1>4 DEF handleLeave, Name, IndexInv, TypeInv, TypeOK, Named
  <2>2. /\ rooms' = [rooms EXCEPT ![roomId[c]][userID[c]] = None]
        /\ userToRoom' = [userToRoom EXCEPT ![userID[c]] = None]
        /\ UNCHANGED <<userID, roomId, life>>
    BY <1>4, <2>1 DEF handleLeave, DeleteMember, conn
  <2>3. \A r \in RoomIDs : rooms[r][userID[c]] # None => r = roomId[c]
    BY <2>1, OwnRoom
  <2>4. Named' /\ MembersConnected'
    BY <2>1, <2>2 DEF Named, MembersConnected, IndexInv, TypeInv, TypeOK
  <2>5. Agree'
    BY <2>1, <2>2, <2>3, Distinguished DEF Agree, IndexInv, TypeInv, TypeOK
  <2> QED BY <1>0, <2>4, <2>5 DEF IndexInv
<1>5. ASSUME NEW c \in Conns, OnDisconnect(c)
      PROVE  IndexInv'
  <2>1. CASE userID[c] = Blank \/ userToRoom[userID[c]] = None
    <3>1. \A r \in RoomIDs, n \in Names : rooms[r][n] # c
      BY <2>1, Distinguished DEF IndexInv, TypeInv, TypeOK, Named, MembersConnected, Agree
    <3>2. life' = [life EXCEPT ![c] = "over"] /\ UNCHANGED <<rooms, userToRoom, userID, roomId>>
      BY <1>5, <2>1, DisconnectOutside DEF handler
    <3>3. Named'
      BY <3>2 DEF IndexInv, TypeInv, TypeOK, Named
    <3>4. MembersConnected' /\ Agree'
      BY <3>1, <3>2 DEF IndexInv, TypeInv, TypeOK, MembersConnected, Agree
    <3> QED BY <1>0, <3>3, <3>4 DEF IndexInv
  <2>2. CASE userID[c] # Blank /\ userToRoom[userID[c]] # None
    <3> DEFINE r == userToRoom[userID[c]]
    <3>1. /\ r \in RoomIDs /\ userID[c] \in Names
          /\ rooms' = [rooms EXCEPT ![r][userID[c]] = None]
          /\ userToRoom' = [userToRoom EXCEPT ![userID[c]] = None]
          /\ life' = [life EXCEPT ![c] = "over"]
          /\ UNCHANGED <<userID, roomId>>
      BY <1>5, <2>2, DisconnectInside DEF IndexInv, TypeInv, TypeOK, DeleteMember
    <3>2. \A q \in RoomIDs : rooms[q][userID[c]] # None => q = r
      BY <3>1 DEF IndexInv, Agree
    <3> HIDE DEF r
    <3>3. Named'
      BY <3>1 DEF IndexInv, TypeInv, TypeOK, Named
    <3>4. MembersConnected'
      BY <3>1, <3>2 DEF IndexInv, TypeInv, TypeOK, MembersConnected
    <3>5. Agree'
      BY <3>1, <3>2, Distinguished DEF IndexInv, TypeInv, TypeOK, Agree
    <3> QED BY <1>0, <3>3, <3>4, <3>5 DEF IndexInv
  <2> QED BY <2>1, <2>2
<1> QED BY <1>1, <1>2, <1>3, <1>4, <1>5, TellingStep DEF Next, vars

-----------------------------------------------------------------------------
(* The notices.                                                             *)

(* A connection is a member where a map has it.                             *)
LEMMA MemberDef ==
  ASSUME NEW r \in RoomIDs, NEW c \in Conns
  PROVE  c \in Members(r) <=> \E n \in Names : rooms[r][n] = c
BY Distinguished DEF Members

(* Members are those of the map.                                            *)
LEMMA MembersSame ==
  ASSUME UNCHANGED rooms, NEW r
  PROVE  Members(r)' = Members(r)
BY DEF Members

(* Steps outside rooms, notices and rosters do not matter.                  *)
LEMMA RosterSame ==
  ASSUME RosterInv, UNCHANGED <<rooms, sending, client>>
  PROVE  RosterInv'
<1>1. Announced'
  BY DEF RosterInv, Announced, sending, client
<1>2. \A c, r, n : LeaveTold(c, r, n)' <=> LeaveTold(c, r, n)
  BY DEF LeaveTold, sending
<1>3. \A r : Members(r)' = Members(r)
  BY MembersSame
<1>4. RosterTold'
  BY <1>2, <1>3 DEF RosterInv, RosterTold, sending, client
<1> QED BY <1>1, <1>4 DEF RosterInv

(* A user who is taken out of a room is announced to it, and nobody else    *)
(* disappears: that keeps RosterInv.                                        *)
LEMMA LeavingStep ==
  ASSUME IndexInv, RosterInv, NEW c \in Conns, NEW r \in RoomIDs, pc[c] = "idle",
         life[c] = "open", userID[c] \in Names \ {Blank},
         rooms' = [rooms EXCEPT ![r][userID[c]] = None],
         Announce(c, "leave", userID[c], r),
         UNCHANGED <<copy, client>>
  PROVE  RosterInv'
<1> DEFINE u == userID[c]
<1> USE DEF IndexInv, TypeInv, TypeOK, RosterInv, client
<1>0. [type |-> "leave", user |-> u, room |-> r] \in Notice
  BY NoticeType
<1>1. /\ rooms' = [rooms EXCEPT ![r][u] = None] /\ u \in Names
      /\ notice' = [notice EXCEPT ![c] = [type |-> "leave", user |-> u, room |-> r]]
      /\ pc' = [pc EXCEPT ![c] = "copy"]
  BY DEF Announce, Goto
<1>2. \A d \in Conns : (pc[d] # "idle" /\ notice[d].type = "join") => notice[d].user # u
  <2> SUFFICES ASSUME NEW d \in Conns, pc[d] # "idle", notice[d].type = "join", notice[d].user = u
               PROVE  FALSE
    OBVIOUS
  <2>1. notice[d].room \in RoomIDs /\ rooms[notice[d].room][u] = d
    BY DEF Notice, Announced
  <2> QED BY <2>1, OwnRoom, Distinguished
<1> HIDE DEF u
<1>3. Announced'
  <2>1. ASSUME NEW d \in Conns
        PROVE  /\ pc'[d] = "reply" => notice'[d].type = "join"
               /\ (pc'[d] # "idle" /\ notice'[d].type = "join")
                    => rooms'[notice'[d].room][notice'[d].user] = d
               /\ pc'[d] = "send" => \A e \in copy'[d] : notice'[d].room \in visited'[e]
    <3>1. CASE d = c
      BY <1>1, <3>1
    <3>2. CASE d # c
      <4>1. notice'[d] = notice[d] /\ pc'[d] = pc[d]
        BY <1>1, <3>2
      <4>2. pc[d] # "idle" => notice[d].room \in RoomIDs /\ notice[d].user \in Names
        BY DEF Notice
      <4> QED BY <1>1, <1>2, <4>1, <4>2 DEF Announced
    <3> QED BY <3>1, <3>2
  <2>2. \A q \in RoomIDs, n \in Names : rooms'[q][n] # None => q \in visited'[rooms'[q][n]]
    BY <1>1 DEF Announced
  <2> QED BY <2>1, <2>2 DEF Announced
<1>4. RosterTold'
  <2> SUFFICES ASSUME NEW d \in Conns, NEW q \in RoomIDs, NEW n \in Names,
                      d \in Members(q)', visited[d] = {q}, pc'[d] # "reply", n \in roster[d],
                      rooms'[q][n] = None
               PROVE  LeaveTold(d, q, n)'
    BY DEF RosterTold
  <2>1. CASE q = r /\ n = u
    BY <1>1, <2>1 DEF LeaveTold
  <2>2. CASE ~(q = r /\ n = u)
    <3>1. rooms[q][n] = None
      BY <1>1, <2>2
    <3>2. d \in Members(q)
      <4>1. PICK m \in Names : rooms'[q][m] = d
        BY Distinguished DEF Members
      <4>2. rooms[q][m] = d
        BY <1>1, <4>1, Distinguished
      <4> QED BY <4>2, MemberDef
    <3>3. pc[d] # "reply"
      BY <1>1
    <3>4. LeaveTold(d, q, n)
      BY <3>1, <3>2, <3>3 DEF RosterTold
    <3> QED BY <1>1, <3>4 DEF LeaveTold
  <2> QED BY <2>1, <2>2
<1> QED BY <1>3, <1>4

(* Every step keeps RosterInv.                                              *)
LEMMA RosterStep ==
  ASSUME Disciplined, IndexInv, IndexInv', RosterInv, [Next]_vars
  PROVE  RosterInv'
<1> USE DEF IndexInv, TypeInv, TypeOK, RosterInv
<1>1. CASE UNCHANGED vars
  BY <1>1, RosterSame DEF vars, handler
<1>2. ASSUME NEW c \in Conns, NEW n \in Names, OnConnect(c, n)
      PROVE  RosterInv'
  BY <1>2, RosterSame DEF OnConnect, handler
<1>3. ASSUME NEW c \in Conns, NEW m \in Names, NEW r \in RoomIDs, handleJoin(c, r, m)
      PROVE  RosterInv'
  <2> DEFINE name == Name(c, m)
  <2>1. /\ rooms' = [rooms EXCEPT ![r][name] = c]
        /\ notice' = [notice EXCEPT ![c] = [type |-> "join", user |-> name, room |-> r]]
        /\ pc[c] = "idle" /\ pc' = [pc EXCEPT ![c] = "reply"]
        /\ visited' = [visited EXCEPT ![c] = @ \cup {r}]
        /\ UNCHANGED <<copy, roster>>
    BY <1>3 DEF handleJoin, Goto
  <2>2. name \in Names
    BY NameType
  <2>3. \A q \in RoomIDs : rooms[q][name] = None
    BY <1>3 DEF handleJoin, Disciplined, MembersConnected, IsMember, Members
  <2> HIDE DEF name
  <2>4. Announced'
    <3>1. ASSUME NEW d \in Conns
          PROVE  /\ pc'[d] = "reply" => notice'[d].type = "join"
                 /\ (pc'[d] # "idle" /\ notice'[d].type = "join")
                      => rooms'[notice'[d].room][notice'[d].user] = d
                 /\ pc'[d] = "send" => \A e \in copy'[d] : notice'[d].room \in visited'[e]
      <4>1. CASE d = c
        BY <2>1, <2>2, <4>1
      <4>2. CASE d # c
        <5>1. notice'[d] = notice[d] /\ pc'[d] = pc[d]
          BY <2>1, <4>2
        <5>2. pc[d] # "idle" => notice[d].room \in RoomIDs /\ notice[d].user \in Names
          BY DEF Notice
        <5> QED BY <2>1, <2>2, <2>3, <5>1, <5>2, Distinguished DEF Announced
      <4> QED BY <4>1, <4>2
    <3>2. \A q \in RoomIDs, n \in Names : rooms'[q][n] # None => q \in visited'[rooms'[q][n]]
      BY <2>1, <2>2 DEF Announced
    <3> QED BY <3>1, <3>2 DEF Announced
  <2>5. RosterTold'
    <3> SUFFICES ASSUME NEW d \in Conns, NEW q \in RoomIDs, NEW n \in Names,
                        d \in Members(q)', visited'[d] = {q}, pc'[d] # "reply", n \in roster[d],
                        rooms'[q][n] = None
                 PROVE  LeaveTold(d, q, n)'
      BY <2>1 DEF RosterTold
    <3>1. d # c
      BY <2>1
    <3>2. rooms[q][n] = None /\ visited[d] = {q} /\ pc[d] # "reply"
      BY <2>1, <2>2, <2>3, <3>1
    <3>3. d \in Members(q)
      <4>1. PICK k \in Names : rooms'[q][k] = d
        BY Distinguished DEF Members
      <4>2. rooms[q][k] = d
        BY <2>1, <2>2, <3>1, <4>1
      <4> QED BY <4>2, MemberDef
    <3>4. LeaveTold(d, q, n)
      BY <3>2, <3>3 DEF RosterTold
    <3> QED BY <2>1, <3>4 DEF LeaveTold
  <2> QED BY <2>4, <2>5
<1>4. ASSUME NEW c \in Conns, NEW m \in Names, handleMessage(c, m)
      PROVE  RosterInv'
  <2>1. /\ notice' = [notice EXCEPT ![c] = [type |-> "message", user |-> Name(c, m), room |-> roomId[c]]]
        /\ pc[c] = "idle" /\ pc' = [pc EXCEPT ![c] = "copy"]
        /\ UNCHANGED <<rooms, copy, roster, visited>>
    BY <1>4 DEF handleMessage, Announce, Goto, handler, client
  <2>2. Announced'
    BY <2>1 DEF Announced
  <2>3. RosterTold'
    <3>1. \A d, q, n : LeaveTold(d, q, n) => LeaveTold(d, q, n)'
      BY <2>1 DEF LeaveTold
    <3> QED BY <2>1, <3>1, MembersSame DEF RosterTold
  <2> QED BY <2>2, <2>3
<1>5. ASSUME NEW c \in Conns, NEW n \in Names, handleLeave(c, n)
      PROVE  RosterInv'
  <2>1. Name(c, n) = userID[c] /\ userID[c] \in Names \ {Blank} /\ roomId[c] \in RoomIDs
    BY <1>5 DEF handleLeave, Name, Named
  <2>2. /\ pc[c] = "idle" /\ life[c] = "open"
        /\ rooms' = [rooms EXCEPT ![roomId[c]][userID[c]] = None]
        /\ Announce(c, "leave", userID[c], roomId[c])
        /\ UNCHANGED <<copy, client>>
    BY <1>5, <2>1 DEF handleLeave, DeleteMember
  <2> QED BY <2>1, <2>2, LeavingStep
<1>6. ASSUME NEW c \in Conns, JoinReply(c)
      PROVE  RosterInv'
  <2>1. /\ pc[c] = "reply" /\ pc' = [pc EXCEPT ![c] = "copy"]
        /\ roster' = [roster EXCEPT ![c] = {}]
        /\ UNCHANGED <<rooms, notice, copy, visited>>
    BY <1>6 DEF JoinReply, Goto, handler
  <2>2. Announced'
    BY <2>1 DEF Announced
  <2>3. RosterTold'
    <3>1. \A d, q, n : LeaveTold(d, q, n) => LeaveTold(d, q, n)'
      BY <2>1 DEF LeaveTold
    <3> QED BY <2>1, <3>1, MembersSame DEF RosterTold
  <2> QED BY <2>2, <2>3
<1>7. ASSUME NEW c \in Conns, OnDisconnect(c)
      PROVE  RosterInv'
  <2>1. CASE userID[c] = Blank \/ userToRoom[userID[c]] = None
    BY <1>7, <2>1, DisconnectOutside, RosterSame DEF handler
  <2>2. CASE userID[c] # Blank /\ userToRoom[userID[c]] # None
    <3>1. /\ userToRoom[userID[c]] \in RoomIDs \ {Blank} /\ userID[c] \in Names \ {Blank}
          /\ pc[c] = "idle"
      BY <1>7, <2>2 DEF Named, OnDisconnect
    <3>2. Announce(c, "leave", userID[c], userToRoom[userID[c]])
      BY <1>7, <2>2, <3>1, DisconnectInside
    <3> QED BY <1>7, <2>2, <3>1, <3>2, DisconnectInside, LeavingStep DEF DeleteMember
  <2> QED BY <2>1, <2>2
<1>8. ASSUME NEW c \in Conns, broadcastToRoom(c)
      PROVE  RosterInv'
  <2>1. /\ pc[c] = "copy" /\ pc' = [pc EXCEPT ![c] = "send"]
        /\ copy' = [copy EXCEPT ![c] = Members(notice[c].room)]
        /\ notice[c].room \in RoomIDs
        /\ UNCHANGED <<rooms, notice, roster, visited>>
    BY <1>8 DEF broadcastToRoom, Goto, handler, client, Notice
  <2>2. \A d \in Members(notice[c].room) : d \in Conns /\ notice[c].room \in visited[d]
    <3> SUFFICES ASSUME NEW d \in Members(notice[c].room)
                 PROVE  d \in Conns /\ notice[c].room \in visited[d]
      OBVIOUS
    <3>1. d \in Conns
      BY <2>1, MembersType
    <3>2. PICK n \in Names : rooms[notice[c].room][n] = d
      BY <2>1, <3>1, MemberDef
    <3>3. \A q \in RoomIDs, k \in Names : rooms[q][k] # None => q \in visited[rooms[q][k]]
      BY DEF Announced
    <3>4. d # None
      BY <3>1, Distinguished
    <3> QED BY <2>1, <3>1, <3>2, <3>3, <3>4
  <2>3. Announced'
    BY <2>1, <2>2 DEF Announced
  <2>4. RosterTold'
    <3> SUFFICES ASSUME NEW d \in Conns, NEW q \in RoomIDs, NEW n \in Names,
                        d \in Members(q), visited[d] = {q}, pc'[d] # "reply", n \in roster[d],
                        rooms[q][n] = None
                 PROVE  LeaveTold(d, q, n)'
      BY <2>1, MembersSame DEF RosterTold
    <3>1. LeaveTold(d, q, n)
      BY <2>1 DEF RosterTold
    <3> QED BY <2>1, <3>1 DEF LeaveTold
  <2> QED BY <2>3, <2>4
<1>9. ASSUME NEW c \in Conns, NEW e \in Conns, Send(c, e)
      PROVE  RosterInv'
  <2>1. /\ pc[c] = "send" /\ e \in copy[c]
        /\ copy' = [copy EXCEPT ![c] = @ \ {e}]
        /\ UNCHANGED <<rooms, life, notice, pc, visited>>
    BY <1>9 DEF Send, handler, conn
  <2>2. Announced'
    BY <2>1 DEF Announced
  <2>3. RosterTold'
    <3> SUFFICES ASSUME NEW d \in Conns, NEW q \in RoomIDs, NEW n \in Names,
                        d \in Members(q), visited[d] = {q}, pc[d] # "reply", n \in roster'[d],
                        rooms[q][n] = None
                 PROVE  LeaveTold(d, q, n)'
      BY <2>1, MembersSame DEF RosterTold
    <3>1. life[d] = "open"
      BY MemberDef, Distinguished DEF MembersConnected
    <3>2. CASE n \in roster[d]
      <4>0. LeaveTold(d, q, n)
        BY <3>2 DEF RosterTold
      <4>1. PICK w \in Conns :
              /\ notice[w] = [type |-> "leave", user |-> n, room |-> q]
              /\ pc[w] = "copy" \/ (pc[w] = "send" /\ d \in copy[w])
        BY <4>0 DEF LeaveTold
      <4>2. w # c \/ d # e
        BY <1>9, <2>1, <3>1, <4>1 DEF Send
      <4>3. pc[w] = "send" => d \in copy'[w]
        BY <2>1, <4>1, <4>2
      <4> QED BY <2>1, <4>1, <4>3 DEF LeaveTold
    <3>3. CASE n \notin roster[d]
      <4>1. d = e /\ notice[c].type = "join" /\ notice[c].user = n
        BY <1>9, <3>3 DEF Send
      <4>2. notice[c].room = q
        BY <2>1, <4>1 DEF Announced
      <4>3. rooms[q][n] = c
        BY <2>1, <4>1, <4>2 DEF Announced
      <4> QED BY <4>3, Distinguished
    <3> QED BY <3>2, <3>3
  <2> QED BY <2>2, <2>3
<1>10. ASSUME NEW c \in Conns, CallbackReturns(c)
       PROVE  RosterInv'
  <2>1. /\ pc[c] = "send" /\ copy[c] = {} /\ pc' = [pc EXCEPT ![c] = "idle"]
        /\ notice' = [notice EXCEPT ![c] = None]
        /\ UNCHANGED <<rooms, copy, roster, visited>>
    BY <1>10 DEF CallbackReturns, Goto, handler, client
  <2>2. Announced'
    BY <2>1 DEF Announced
  <2>3. RosterTold'
    <3> SUFFICES ASSUME NEW d \in Conns, NEW q \in RoomIDs, NEW n \in Names,
                        d \in Members(q), visited[d] = {q}, pc'[d] # "reply", n \in roster[d],
                        rooms[q][n] = None
                 PROVE  LeaveTold(d, q, n)'
      BY <2>1, MembersSame DEF RosterTold
    <3>1. LeaveTold(d, q, n)
      BY <2>1 DEF RosterTold
    <3>2. PICK w \in Conns :
            /\ notice[w] = [type |-> "leave", user |-> n, room |-> q]
            /\ pc[w] = "copy" \/ (pc[w] = "send" /\ d \in copy[w])
      BY <3>1 DEF LeaveTold
    <3>3. w # c
      BY <2>1, <3>2
    <3> QED BY <2>1, <3>2, <3>3 DEF LeaveTold
  <2> QED BY <2>2, <2>3
<1> QED BY <1>1, <1>2, <1>3, <1>4, <1>5, <1>6, <1>7, <1>8, <1>9, <1>10 DEF Next

-----------------------------------------------------------------------------
(* The theorems.                                                            *)

(* The invariants hold of NewHandler and after every step.                  *)
LEMMA ChatInvariant ==
  ASSUME Disciplined
  PROVE  Spec => [](IndexInv /\ RosterInv)
<1>1. Init => IndexInv /\ RosterInv
  BY Distinguished DEF Init, IndexInv, TypeInv, TypeOK, Named, MembersConnected, Agree,
    RosterInv, Announced, RosterTold
<1>2. IndexInv /\ RosterInv /\ [Next]_vars => (IndexInv /\ RosterInv)'
  BY IndexStep, RosterStep
<1> QED BY <1>1, <1>2, PTL DEF Spec

(* Rooms hold connected clients only, each under its own name, however      *)
(* joins, leaves, reconnections and disconnections interleave.              *)
THEOREM RoomsConnected == Disciplined => (Spec => []MembersConnected)
<1> SUFFICES ASSUME Disciplined PROVE Spec => []MembersConnected
  OBVIOUS
<1>1. IndexInv /\ RosterInv => MembersConnected
  BY DEF IndexInv
<1> QED BY <1>1, ChatInvariant, PTL

(* h.rooms, h.userToRoom and the "roomId" of the connections agree after    *)
(* every step.                                                              *)
THEOREM MapsAgree == Disciplined => (Spec => []IndexAgrees)
<1> SUFFICES ASSUME Disciplined PROVE Spec => []IndexAgrees
  OBVIOUS
<1>1. IndexInv /\ RosterInv => IndexAgrees
  BY DEF IndexInv, TypeInv, Agree, IndexAgrees
<1> QED BY <1>1, ChatInvariant, PTL

(* Whatever way the notices of a room take to a client that has only been   *)
(* in that room, it is left with nobody who is gone.                        *)
THEOREM RosterCorrect == Disciplined => (Spec => []RosterSound)
<1> SUFFICES ASSUME Disciplined PROVE Spec => []RosterSound
  OBVIOUS
<1>1. IndexInv /\ RosterInv => RosterSound
  <2> SUFFICES ASSUME IndexInv, RosterInv, \A c \in Conns : pc[c] = "idle",
                      NEW c \in Conns, NEW r \in RoomIDs, c \in Members(r), visited[c] = {r},
                      NEW n \in roster[c]
               PROVE  rooms[r][n] # None
    BY DEF RosterSound
  <2>1. n \in Names
    BY DEF IndexInv, TypeInv, TypeOK
  <2> QED BY <2>1 DEF RosterInv, RosterTold, LeaveTold
<1> QED BY <1>1, ChatInvariant, PTL
=============================================================================
