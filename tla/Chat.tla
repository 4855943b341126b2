-------------------------------- MODULE Chat ---------------------------------
(***************************************************************************)
(* The chat handler of example/internal/chat/handler.go: rooms, who is in   *)
(* which, and the notices sent to their members.                            *)
(*                                                                          *)
(* The callbacks of one connection are called one after the other, as       *)
(* WsServer shows of the WebSocket server; those of different connections   *)
(* interleave.  Between the section under h.mu and the copy that            *)
(* broadcastToRoom takes, and between two of its sends, the lock is free.   *)
(* A Send enters the queue of its connection, which the client reads in     *)
(* order, or fails because the connection is over.                          *)
(***************************************************************************)
EXTENDS Naturals, FiniteSets

CONSTANTS
  Conns,  \* the connections
  Users,  \* the user IDs other than ""
  Rooms,  \* the room IDs other than ""
  Blank,  \* the string ""
  None,   \* no such key in a map; nothing to broadcast
  Relax   \* what clients may do beyond their best behaviour:
          \* "twin": a user has two connections at a time
          \* "hop": join a room without leaving the last one
          \* "blank": join as user "" or the room ""
          \* "speak": send to the room after leaving it

ASSUME ChatAssumption ==
  /\ Blank \notin Users \cup Rooms
  /\ None \notin Conns \cup Rooms \cup {Blank}
  /\ Relax \subseteq {"twin", "hop", "blank", "speak"}

Names == Users \cup {Blank}
RoomIDs == Rooms \cup {Blank}
Notice == [type : {"join", "leave", "message"}, user : Names, room : RoomIDs]

VARIABLES
  rooms,       \* h.rooms; a room without members is not in the map
  userToRoom,  \* h.userToRoom
  userID,      \* conn.userID
  roomId,      \* the metadata "roomId" of a connection; "" when not set
  life,        \* "new", "open" after OnConnect, "over" from OnDisconnect on
  notice,      \* what the goroutine of a connection is to broadcast
  pc,          \* where it is
  copy,        \* the connections broadcastToRoom has still to send to
  roster,      \* client: the users it thinks are with it, from the notices
  visited      \* history: the rooms it has joined

handler == <<rooms, userToRoom>>
conn == <<userID, roomId, life>>
sending == <<notice, pc, copy>>
client == <<roster, visited>>
vars == <<handler, conn, sending, client>>

Members(r) == {rooms[r][n] : n \in Names} \ {None}
IsMember(c) == \E r \in RoomIDs : c \in Members(r)

(* The user of a message: the connection's, or the one that it carries.     *)
Name(c, n) == IF userID[c] = Blank THEN n ELSE userID[c]

Goto(c, label) == pc' = [pc EXCEPT ![c] = label]

(* broadcastToRoom is called next.                                          *)
Announce(c, type, n, r) ==
  /\ notice' = [notice EXCEPT ![c] = [type |-> type, user |-> n, room |-> r]]
  /\ Goto(c, "copy")

(* A user is deleted from a room, and a room that is empty from h.rooms.    *)
DeleteMember(r, n) == rooms' = [rooms EXCEPT ![r][n] = None]

-----------------------------------------------------------------------------
(* Mistakes in this code that the properties below exclude.                 *)

(* handleLeave deletes the user from the room only.                         *)
handleLeaveKeepsUser(c, n) ==
  /\ life[c] = "open" /\ pc[c] = "idle" /\ roomId[c] # Blank
  /\ DeleteMember(roomId[c], Name(c, n))
  /\ Announce(c, "leave", Name(c, n), roomId[c])
  /\ UNCHANGED <<userToRoom, conn, copy, client>>

(* OnDisconnect only tells the others.                                      *)
OnDisconnectKeeps(c) ==
  /\ life[c] = "open" /\ pc[c] = "idle"
  /\ life' = [life EXCEPT ![c] = "over"]
  /\ IF userID[c] = Blank \/ userToRoom[userID[c]] = None
     THEN UNCHANGED <<handler, notice, pc>>
     ELSE /\ Announce(c, "leave", userID[c], userToRoom[userID[c]])
          /\ UNCHANGED handler
  /\ UNCHANGED <<userID, roomId, copy, client>>

(* OnDisconnect does not tell the others.                                   *)
OnDisconnectSilent(c) ==
  /\ life[c] = "open" /\ pc[c] = "idle"
  /\ life' = [life EXCEPT ![c] = "over"]
  /\ IF userID[c] = Blank \/ userToRoom[userID[c]] = None
     THEN UNCHANGED handler
     ELSE /\ DeleteMember(userToRoom[userID[c]], userID[c])
          /\ userToRoom' = [userToRoom EXCEPT ![userID[c]] = None]
  /\ UNCHANGED <<userID, roomId, sending, client>>

-----------------------------------------------------------------------------
(* OnConnect: the user is "" unless the server authenticates.               *)

OnConnect(c, n) ==
  /\ life[c] = "new"
  /\ n = Blank \/ "twin" \in Relax \/ \A d \in Conns : life[d] = "open" => userID[d] # n
  /\ life' = [life EXCEPT ![c] = "open"]
  /\ userID' = [userID EXCEPT ![c] = n]
  /\ UNCHANGED <<handler, roomId, sending, client>>

-----------------------------------------------------------------------------
(* OnMessage.  A "message" or "leave" of a connection without a room        *)
(* changes nothing, and so does an unknown type or bad JSON.                *)

handleJoin(c, r, n) ==
  LET name == Name(c, n) IN
  /\ life[c] = "open" /\ pc[c] = "idle"
  /\ "blank" \in Relax \/ (name # Blank /\ r # Blank)
  /\ "hop" \in Relax \/ ~IsMember(c)
  /\ "twin" \in Relax \/ \A d \in Conns \ {c} : life[d] = "open" => userID[d] # name
  /\ userID' = [userID EXCEPT ![c] = name]
  /\ roomId' = [roomId EXCEPT ![c] = r]
  /\ rooms' = [rooms EXCEPT ![r][name] = c]
  /\ userToRoom' = [userToRoom EXCEPT ![name] = r]
  /\ notice' = [notice EXCEPT ![c] = [type |-> "join", user |-> name, room |-> r]]
  /\ Goto(c, "reply")
  /\ visited' = [visited EXCEPT ![c] = @ \cup {r}]
  /\ UNCHANGED <<life, copy, roster>>

(* The "joined" reply is queued; the client starts its roster anew.         *)
JoinReply(c) ==
  /\ pc[c] = "reply"
  /\ roster' = [roster EXCEPT ![c] = {}]
  /\ Goto(c, "copy")
  /\ UNCHANGED <<handler, conn, notice, copy, visited>>

handleMessage(c, n) ==
  /\ life[c] = "open" /\ pc[c] = "idle" /\ roomId[c] # Blank
  /\ "speak" \in Relax \/ IsMember(c)
  /\ Announce(c, "message", Name(c, n), roomId[c])
  /\ UNCHANGED <<handler, conn, copy, client>>

(* The "roomId" of the connection stays.                                    *)
handleLeave(c, n) ==
  /\ life[c] = "open" /\ pc[c] = "idle" /\ roomId[c] # Blank
  /\ DeleteMember(roomId[c], Name(c, n))
  /\ userToRoom' = [userToRoom EXCEPT ![Name(c, n)] = None]
  /\ Announce(c, "leave", Name(c, n), roomId[c])
  /\ UNCHANGED <<conn, copy, client>>

-----------------------------------------------------------------------------
(* OnDisconnect: the user is taken out of the room h.userToRoom knows, and  *)
(* that room is told unless its ID is "".                                   *)
OnDisconnect(c) ==
  /\ life[c] = "open" /\ pc[c] = "idle"
  /\ life' = [life EXCEPT ![c] = "over"]
  /\ IF userID[c] = Blank \/ userToRoom[userID[c]] = None
     THEN UNCHANGED <<handler, notice, pc>>
     ELSE LET r == userToRoom[userID[c]] IN
          /\ DeleteMember(r, userID[c])
          /\ userToRoom' = [userToRoom EXCEPT ![userID[c]] = None]
          /\ IF r = Blank THEN UNCHANGED <<notice, pc>> ELSE Announce(c, "leave", userID[c], r)
  /\ UNCHANGED <<userID, roomId, copy, client>>

-----------------------------------------------------------------------------
(* broadcastToRoom: the connections are copied under h.mu.RLock, then sent  *)
(* to.  A notice carries the user and not the room.                         *)

broadcastToRoom(c) ==
  /\ pc[c] = "copy"
  /\ copy' = [copy EXCEPT ![c] = Members(notice[c].room)]
  /\ Goto(c, "send")
  /\ UNCHANGED <<handler, conn, notice, client>>

Send(c, d) ==
  /\ pc[c] = "send" /\ d \in copy[c]
  /\ copy' = [copy EXCEPT ![c] = @ \ {d}]
  /\ roster' = IF life[d] = "over" \/ notice[c].type = "message" THEN roster
               ELSE [roster EXCEPT ![d] = IF notice[c].type = "join" THEN @ \cup {notice[c].user}
                                          ELSE @ \ {notice[c].user}]
  /\ UNCHANGED <<handler, conn, notice, pc, visited>>

CallbackReturns(c) ==
  /\ pc[c] = "send" /\ copy[c] = {}
  /\ notice' = [notice EXCEPT ![c] = None]
  /\ Goto(c, "idle")
  /\ UNCHANGED <<handler, conn, copy, client>>

-----------------------------------------------------------------------------
Init ==
  /\ rooms = [r \in RoomIDs |-> [n \in Names |-> None]]
  /\ userToRoom = [n \in Names |-> None]
  /\ userID = [c \in Conns |-> Blank]
  /\ roomId = [c \in Conns |-> Blank]
  /\ life = [c \in Conns |-> "new"]
  /\ notice = [c \in Conns |-> None]
  /\ pc = [c \in Conns |-> "idle"]
  /\ copy = [c \in Conns |-> {}]
  /\ roster = [c \in Conns |-> {}]
  /\ visited = [c \in Conns |-> {}]

Next ==
  \E c \in Conns :
    \/ \E n \in Names :
         \/ OnConnect(c, n) \/ (\E r \in RoomIDs : handleJoin(c, r, n))
         \/ handleMessage(c, n) \/ handleLeave(c, n)
    \/ JoinReply(c) \/ OnDisconnect(c)
    \/ broadcastToRoom(c) \/ (\E d \in Conns : Send(c, d)) \/ CallbackReturns(c)

Spec == Init /\ [][Next]_vars

-----------------------------------------------------------------------------
(* Properties.                                                              *)

(* Every variable holds what its Go type and its comment above allow.       *)
TypeOK ==
  /\ rooms \in [RoomIDs -> [Names -> Conns \cup {None}]]
  /\ userToRoom \in [Names -> RoomIDs \cup {None}]
  /\ userID \in [Conns -> Names] /\ roomId \in [Conns -> RoomIDs]
  /\ life \in [Conns -> {"new", "open", "over"}]
  /\ notice \in [Conns -> Notice \cup {None}]
  /\ pc \in [Conns -> {"idle", "reply", "copy", "send"}]
  /\ copy \in [Conns -> SUBSET Conns]
  /\ roster \in [Conns -> SUBSET Names] /\ visited \in [Conns -> SUBSET RoomIDs]

(* A room holds connected clients only, each under its own user: after      *)
(* OnDisconnect a connection is in no room, in whatever order it joined,    *)
(* left and was replaced by another connection of its user.                 *)
MembersConnected ==
  \A r \in RoomIDs, n \in Names :
    rooms[r][n] # None => life[rooms[r][n]] = "open" /\ userID[rooms[r][n]] = n

(* h.rooms and h.userToRoom say the same, and a member's messages go to the *)
(* room it is in: the lock is free between the steps of a callback, and     *)
(* handleLeave and OnDisconnect look the room up in different places.       *)
IndexAgrees ==
  /\ TypeOK
  /\ \A r \in RoomIDs, n \in Names :
       /\ rooms[r][n] # None <=> userToRoom[n] = r
       /\ rooms[r][n] # None => roomId[rooms[r][n]] = r

(* When all notices are delivered, a client that has only been in one room  *)
(* thinks nobody is there who has left, though the notices of different     *)
(* connections overtake each other.                                         *)
RosterSound ==
  (\A c \in Conns : pc[c] = "idle") =>
    \A c \in Conns : \A r \in RoomIDs :
      (c \in Members(r) /\ visited[c] = {r}) => \A n \in roster[c] : rooms[r][n] # None

-----------------------------------------------------------------------------
(* What the repository says and the code does not do: TLC refutes each of   *)
(* these in the configuration that README.md gives.                         *)

(* The same, for clients that go from room to room.                         *)
RosterSoundEverywhere ==
  (\A c \in Conns : pc[c] = "idle") =>
    \A c \in Conns : IsMember(c) => \A n \in roster[c] : userToRoom[n] # None

(* Who sends to a room is in it.                                            *)
SpeakersAreMembers ==
  \A c \in Conns : (pc[c] = "copy" /\ notice[c].type = "message") => c \in Members(notice[c].room)
=============================================================================
