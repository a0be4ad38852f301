--------------------------- MODULE ChatServerRooms ---------------------------
(***************************************************************************)
(* One session per user, and every user in one room: the room lists of     *)
(* ChatServer partition its users, for every set of connections, users,    *)
(* room names and descriptors.                                             *)
(*                                                                         *)
(* A thread touches the nodes and the record of one user only, the user of *)
(* its session, and no two threads share one.  So the invariant is stated  *)
(* thread by thread (UserNodes, RoomsKnown), and a step preserves it for   *)
(* its own thread by what its handler does and for the others because it   *)
(* leaves them alone.                                                      *)
(***************************************************************************)
EXTENDS ChatServerProofs

\* The nodes of the user of connection c: none in limbo, otherwise one, in the list of
\* the existing room the user's record names.
UserNodes(c) ==
    session[c] # NULL =>
        IF pc[c] \in Limbo
        THEN \A r \in RoomIDs : members[r][session[c]] = 0
        ELSE /\ roomID[session[c]] \in RoomIDs
             /\ rooms[roomID[session[c]]] # NULL
             /\ \A r \in RoomIDs :
                    members[r][session[c]] = IF r = roomID[session[c]] THEN 1 ELSE 0

\* The room a thread is about to enter exists.
RoomsKnown(c) ==
    /\ pc[c] \in {"join_remove", "join_add"} /\ newRoom[c] # NULL => rooms[newRoom[c]] # NULL
    /\ pc[c] = "login_room" => roomID[session[c]] = DEFAULT_ROOM

\* The inductive strengthening of OneSessionPerUser and UsersInOneRoom.
IInv ==
    /\ OneSessionPerUser
    /\ rooms[DEFAULT_ROOM] # NULL
    /\ \A c \in Clients : UserNodes(c) /\ RoomsKnown(c)
    /\ \A n \in Names : (\A c \in Clients : session[c] # n)
                            => \A r \in RoomIDs : members[r][n] = 0

-----------------------------------------------------------------------------
(* What a step leaves alone. *)

\* A step creates one room, of a number and a name no room has, or leaves room_list alone.
LEMMA RoomMove ==
    ASSUME TypeInv, NEW c \in Clients, Step(c)
    PROVE  \/ rooms' = rooms
           \/ \E r \in RoomIDs, x \in RoomNames :
                  /\ rooms[r] = NULL /\ \A q \in RoomIDs : rooms[q] # x
                  /\ rooms' = [rooms EXCEPT ![r] = x]
<1>a. TypeOK /\ LocalOK(c)
  BY DEF TypeInv
<1>1. ASSUME JoinInsert(c)
      PROVE  \/ rooms' = rooms
             \/ \E r \in RoomIDs, x \in RoomNames :
                    /\ rooms[r] = NULL /\ \A q \in RoomIDs : rooms[q] # x
                    /\ rooms' = [rooms EXCEPT ![r] = x]
  <2>1. newRoom[c] \in RoomIDs /\ pkt[c].arg \in RoomNames
    BY <1>a, <1>1 DEF JoinInsert, Running, TypeOK, LocalOK, JoinSteps
  <2>2. rooms' = insertRoom(newRoom[c], pkt[c].arg)
    BY <1>1 DEF JoinInsert
  <2> QED BY <2>1, <2>2 DEF insertRoom
<1>2. ASSUME ~JoinInsert(c) PROVE rooms' = rooms
  BY <1>2 DEF Step, Request, Handler, Announce, Reply, Login, Invite, Join, Accept,
       Vanish, ReadReply, Leave, Chat, Exit, ExitNotLoggedIn, Reset, LoginSock,
       LoginRoom, LoginAck, LoginNotice, JoinID, JoinLoad, JoinStore, JoinFind,
       JoinRemove, JoinAdd, JoinAck, JoinLeft, JoinJoined, LeaveAdd, LeaveLeft, LeaveAck,
       LeaveJoined, InviteSend, ExitNotice, ExitClose, ExitRoom, ExitActive
<1> QED BY <1>1, <1>2

\* Rooms stay: a step adds a room or leaves room_list alone.
LEMMA RoomsStay ==
    ASSUME TypeInv, NEW c \in Clients, Step(c)
    PROVE  \A r \in RoomIDs : rooms[r] # NULL => rooms'[r] = rooms[r]
BY RoomMove DEF TypeInv, TypeOK

\* A thread moves no user but the one of its session.
OthersStay(c) ==
    \A n \in Names : n # session[c] => /\ roomID'[n] = roomID[n]
                                      /\ \A r \in RoomIDs : members'[r][n] = members[r][n]

\* No step writes the nodes or the room of a user other than the one of its session.
LEMMA ThreadsMoveTheirUser ==
    ASSUME TypeInv, NEW c \in Clients, Step(c)
    PROVE  OthersStay(c)
<1>a. TypeOK /\ LocalOK(c)
  BY DEF TypeInv
<1> USE DEF TypeOK, OthersStay
<1>1. ASSUME NEW n \in Names, Login(c, n) PROVE OthersStay(c)
  BY <1>a, <1>1 DEF Login
<1>2. ASSUME NEW n \in Names, Invite(c, n) PROVE OthersStay(c)
  BY <1>a, <1>2 DEF Invite, users
<1>3. ASSUME NEW x \in RoomNames, Join(c, x) PROVE OthersStay(c)
  BY <1>a, <1>3 DEF Join, users
<1>4. ASSUME Accept(c) PROVE OthersStay(c)
  BY <1>a, <1>4 DEF Accept, users
<1>5. ASSUME Vanish(c) PROVE OthersStay(c)
  BY <1>a, <1>5 DEF Vanish, users
<1>6. ASSUME ReadReply(c) PROVE OthersStay(c)
  BY <1>a, <1>6 DEF ReadReply, users
<1>7. ASSUME Leave(c) PROVE OthersStay(c)
  <2>1. CASE UNCHANGED members
    BY <1>a, <1>7, <2>1 DEF Leave
  <2>2. CASE /\ RoomExists(Packet(c, NULL).room) /\ InList(Packet(c, NULL).room, Packet(c, NULL).user)
             /\ members' = removeUser(Packet(c, NULL).room, Packet(c, NULL).user)
    <3>1. Packet(c, NULL).user = session[c] /\ session[c] \in Names /\ Packet(c, NULL).room \in RoomIDs
      BY <2>2, NullFacts DEF Packet, RoomExists, InList
    <3>2. members' = removeUser(Packet(c, NULL).room, session[c])
      BY <2>2, <3>1
    <3>3. roomID' = roomID
      BY <1>7 DEF Leave
    <3>4. \A n \in Names, q \in RoomIDs : n # session[c] => members'[q][n] = members[q][n]
      BY <1>a, <3>1, <3>2, ListsTouchOne
    <3> QED BY <3>3, <3>4
  <2>3. UNCHANGED members \/ (/\ RoomExists(Packet(c, NULL).room) /\ InList(Packet(c, NULL).room, Packet(c, NULL).user)
             /\ members' = removeUser(Packet(c, NULL).room, Packet(c, NULL).user))
    BY <1>7 DEF Leave
  <2> QED BY <2>1, <2>2, <2>3
<1>8. ASSUME Chat(c) PROVE OthersStay(c)
  BY <1>a, <1>8 DEF Chat, users
<1>9. ASSUME Exit(c) PROVE OthersStay(c)
  BY <1>a, <1>9 DEF Exit, users
<1>10. ASSUME ExitNotLoggedIn(c) PROVE OthersStay(c)
  BY <1>a, <1>10 DEF ExitNotLoggedIn, users
<1>11. ASSUME Reset(c) PROVE OthersStay(c)
  BY <1>a, <1>11 DEF Reset, users
<1>12. ASSUME LoginSock(c) PROVE OthersStay(c)
  BY <1>a, <1>12 DEF LoginSock, Running, LocalOK, LoginSteps
<1>13. ASSUME LoginRoom(c) PROVE OthersStay(c)
  BY <1>a, <1>13 DEF LoginRoom, Running, LocalOK, LoginSteps, insertNode
<1>14. ASSUME LoginAck(c) PROVE OthersStay(c)
  BY <1>a, <1>14 DEF LoginAck, Reply, users
<1>15. ASSUME LoginNotice(c) PROVE OthersStay(c)
  BY <1>a, <1>15 DEF LoginNotice, Announce, users
<1>16. ASSUME JoinID(c) PROVE OthersStay(c)
  BY <1>a, <1>16 DEF JoinID, users
<1>17. ASSUME JoinLoad(c) PROVE OthersStay(c)
  BY <1>a, <1>17 DEF JoinLoad, users
<1>18. ASSUME JoinStore(c) PROVE OthersStay(c)
  BY <1>a, <1>18 DEF JoinStore, users
<1>19. ASSUME JoinInsert(c) PROVE OthersStay(c)
  BY <1>a, <1>19 DEF JoinInsert, users
<1>20. ASSUME JoinFind(c) PROVE OthersStay(c)
  BY <1>a, <1>20 DEF JoinFind, users
<1>21. ASSUME JoinRemove(c) PROVE OthersStay(c)
  <2>1. roomID' = roomID
    BY <1>21 DEF JoinRemove
  <2>2. CASE UNCHANGED members
    BY <1>a, <2>1, <2>2
  <2>3. CASE /\ RoomExists(pkt[c].room) /\ InList(pkt[c].room, pkt[c].user)
             /\ members' = removeUser(pkt[c].room, pkt[c].user)
    <3>1. pkt[c].user = session[c] /\ session[c] \in Names /\ pkt[c].room \in RoomIDs
      BY <1>a, <1>21, <2>3, NullFacts
      DEF JoinRemove, Running, LocalOK, JoinSteps, RoomExists, InList
    <3>2. \A n \in Names, q \in RoomIDs : n # session[c] => members'[q][n] = members[q][n]
      BY <1>a, <2>3, <3>1, ListsTouchOne
    <3> QED BY <2>1, <3>2
  <2>4. UNCHANGED members \/ (/\ RoomExists(pkt[c].room) /\ InList(pkt[c].room, pkt[c].user)
                               /\ members' = removeUser(pkt[c].room, pkt[c].user))
    BY <1>21 DEF JoinRemove
  <2> QED BY <2>2, <2>3, <2>4
<1>22. ASSUME JoinAdd(c) PROVE OthersStay(c)
  <2>1. pkt[c].user = session[c] /\ session[c] \in Names
    BY <1>a, <1>22 DEF JoinAdd, Running, LocalOK, UserSteps
  <2>2. CASE newRoom[c] = NULL
    BY <1>a, <1>22, <2>2 DEF JoinAdd
  <2>3. CASE newRoom[c] # NULL
    <3>1. newRoom[c] \in RoomIDs
      BY <1>a, <2>3
    <3>2. members' = insertUser(newRoom[c], session[c])
          /\ roomID' = [roomID EXCEPT ![session[c]] = newRoom[c]]
      BY <1>22, <2>1, <2>3 DEF JoinAdd
    <3>3. \A n \in Names, q \in RoomIDs : n # session[c] => members'[q][n] = members[q][n]
      BY <1>a, <2>1, <3>1, <3>2, ListsTouchOne
    <3> QED BY <1>a, <3>2, <3>3
  <2> QED BY <2>2, <2>3
<1>23. ASSUME JoinAck(c) PROVE OthersStay(c)
  BY <1>a, <1>23 DEF JoinAck, Reply, users
<1>24. ASSUME JoinLeft(c) PROVE OthersStay(c)
  BY <1>a, <1>24 DEF JoinLeft, Announce, users
<1>25. ASSUME JoinJoined(c) PROVE OthersStay(c)
  BY <1>a, <1>25 DEF JoinJoined, Announce, users
<1>26. ASSUME LeaveAdd(c) PROVE OthersStay(c)
  BY <1>a, <1>26 DEF LeaveAdd, Running, LocalOK, UserSteps, insertUser
<1>27. ASSUME LeaveLeft(c) PROVE OthersStay(c)
  BY <1>a, <1>27 DEF LeaveLeft, Announce, users
<1>28. ASSUME LeaveAck(c) PROVE OthersStay(c)
  BY <1>a, <1>28 DEF LeaveAck, Reply, users
<1>29. ASSUME LeaveJoined(c) PROVE OthersStay(c)
  BY <1>a, <1>29 DEF LeaveJoined, Announce, users
<1>30. ASSUME InviteSend(c) PROVE OthersStay(c)
  BY <1>a, <1>30 DEF InviteSend, users
<1>31. ASSUME ExitNotice(c) PROVE OthersStay(c)
  BY <1>a, <1>31 DEF ExitNotice, Announce, users
<1>32. ASSUME ExitClose(c) PROVE OthersStay(c)
  BY <1>a, <1>32 DEF ExitClose, users
<1>33. ASSUME ExitRoom(c) PROVE OthersStay(c)
  BY <1>a, <1>33 DEF ExitRoom, Running, LocalOK, UserSteps, removeUser, removeNode, InList
<1>34. ASSUME ExitActive(c) PROVE OthersStay(c)
  BY <1>a, <1>34 DEF ExitActive
<1> QED
  BY <1>1, <1>2, <1>3, <1>4, <1>5, <1>6, <1>7, <1>8, <1>9, <1>10, <1>11, <1>12, <1>13,
       <1>14, <1>15, <1>16, <1>17, <1>18, <1>19, <1>20, <1>21, <1>22, <1>23, <1>24,
       <1>25, <1>26, <1>27, <1>28, <1>29, <1>30, <1>31, <1>32, <1>33, <1>34
  DEF Step, Request, Handler

\* Nothing happens to the user of c or his nodes.
Unmoving(c) ==
    /\ session'[c] = session[c] /\ members' = members /\ roomID' = roomID /\ active' = active
    /\ pc'[c] \in Limbo <=> pc[c] \in Limbo

\* The steps that move a user, or take a session's last step.
Moving(c) ==
    \/ \E n \in Names : Login(c, n)
    \/ LoginSock(c) \/ LoginRoom(c) \/ JoinRemove(c) \/ JoinAdd(c)
    \/ Leave(c) \/ LeaveAdd(c) \/ ExitRoom(c) \/ ExitActive(c)

\* Every step but the nine of Moving leaves the user of its session where he is.
LEMMA MovesAreFew ==
    ASSUME TypeInv, NEW c \in Clients, Step(c)
    PROVE  Unmoving(c) \/ Moving(c)
<1>a. pc \in [Clients -> Labels]
  BY DEF TypeInv, TypeOK
<1> USE <1>a DEF Unmoving, Goto, Running, Limbo, users
<1>1. ASSUME NEW n \in Names, Invite(c, n) PROVE Unmoving(c)
  BY <1>1 DEF Invite, Ready
<1>2. ASSUME NEW x \in RoomNames, Join(c, x) PROVE Unmoving(c)
  BY <1>2 DEF Join, Ready
<1>3. ASSUME Accept(c) PROVE Unmoving(c)
  BY <1>3 DEF Accept
<1>4. ASSUME Vanish(c) PROVE Unmoving(c)
  BY <1>4 DEF Vanish
<1>5. ASSUME ReadReply(c) PROVE Unmoving(c)
  BY <1>5 DEF ReadReply
<1>6. ASSUME Chat(c) PROVE Unmoving(c)
  BY <1>6 DEF Chat, Ready
<1>7. ASSUME Exit(c) PROVE Unmoving(c)
  BY <1>7 DEF Exit, Ready, exit_client
<1>8. ASSUME ExitNotLoggedIn(c) PROVE Unmoving(c)
  BY <1>8 DEF ExitNotLoggedIn, Ready
<1>9. ASSUME Reset(c) PROVE Unmoving(c)
  BY <1>9 DEF Reset, exit_client
<1>10. ASSUME LoginAck(c) PROVE Unmoving(c)
  BY <1>10 DEF LoginAck, Reply
<1>11. ASSUME LoginNotice(c) PROVE Unmoving(c)
  BY <1>11 DEF LoginNotice, Announce, Return
<1>12. ASSUME JoinID(c) PROVE Unmoving(c)
  BY <1>12 DEF JoinID
<1>13. ASSUME JoinLoad(c) PROVE Unmoving(c)
  BY <1>13 DEF JoinLoad
<1>14. ASSUME JoinStore(c) PROVE Unmoving(c)
  BY <1>14 DEF JoinStore
<1>15. ASSUME JoinInsert(c) PROVE Unmoving(c)
  BY <1>15 DEF JoinInsert
<1>16. ASSUME JoinFind(c) PROVE Unmoving(c)
  BY <1>16 DEF JoinFind
<1>17. ASSUME JoinAck(c) PROVE Unmoving(c)
  BY <1>17 DEF JoinAck, Reply
<1>18. ASSUME JoinLeft(c) PROVE Unmoving(c)
  BY <1>18 DEF JoinLeft, Announce
<1>19. ASSUME JoinJoined(c) PROVE Unmoving(c)
  BY <1>19 DEF JoinJoined, Announce, Return
<1>20. ASSUME LeaveLeft(c) PROVE Unmoving(c)
  BY <1>20 DEF LeaveLeft, Announce
<1>21. ASSUME LeaveAck(c) PROVE Unmoving(c)
  BY <1>21 DEF LeaveAck, Reply
<1>22. ASSUME LeaveJoined(c) PROVE Unmoving(c)
  BY <1>22 DEF LeaveJoined, Announce, Return
<1>23. ASSUME InviteSend(c) PROVE Unmoving(c)
  BY <1>23 DEF InviteSend, Return
<1>24. ASSUME ExitNotice(c) PROVE Unmoving(c)
  BY <1>24 DEF ExitNotice, Announce
<1>25. ASSUME ExitClose(c) PROVE Unmoving(c)
  BY <1>25 DEF ExitClose
<1> QED
  BY <1>1, <1>2, <1>3, <1>4, <1>5, <1>6, <1>7, <1>8, <1>9, <1>10, <1>11, <1>12,
     <1>13, <1>14, <1>15, <1>16, <1>17, <1>18, <1>19, <1>20, <1>21, <1>22,
     <1>23, <1>24, <1>25 DEF Step, Request, Handler, Moving

-----------------------------------------------------------------------------
(* What a step does to its own user. *)

\* A handler that takes the user out of the room his record names leaves no node.
LEMMA TakenOut ==
    ASSUME TypeInv, NEW c \in Clients, session[c] \in Names, NEW r \in RoomIDs,
           UserNodes(c), pc[c] \notin Limbo, members[r][session[c]] > 0 \/ r = roomID[session[c]],
           members' = removeUser(r, session[c]), session'[c] = session[c]
    PROVE  \A q \in RoomIDs : members'[q][session'[c]] = 0
<1>1. TypeOK /\ NULL \notin Names
  BY NullFacts DEF TypeInv
<1>2. \A q \in RoomIDs : members[q][session[c]] = IF q = roomID[session[c]] THEN 1 ELSE 0
  BY <1>1 DEF UserNodes
<1>3. r = roomID[session[c]]
  BY <1>2
<1>4. TAKE q \in RoomIDs
<1>5. removeUser(r, session[c])[q][session[c]]
        = IF q = r /\ members[q][session[c]] > 0 THEN members[q][session[c]] - 1
          ELSE members[q][session[c]]
  BY <1>1, ListsTouchOne
<1> QED BY <1>2, <1>3, <1>5

\* A handler that puts a user without nodes into an existing room leaves one node.
LEMMA PutIn ==
    ASSUME TypeInv, NEW c \in Clients, session[c] \in Names, NEW r \in RoomIDs,
           UserNodes(c), pc[c] \in Limbo, pc'[c] \notin Limbo, rooms[r] # NULL,
           members' = insertUser(r, session[c]) \/ members' = insertNode(r, session[c]),
           roomID'[session[c]] = r,
           session'[c] = session[c], rooms' = rooms
    PROVE  UserNodes(c)'
<1>1. TypeOK /\ NULL \notin Names
  BY NullFacts DEF TypeInv
<1>2. \A q \in RoomIDs : members[q][session[c]] = 0
  BY <1>1 DEF UserNodes
<1>3. \A q \in RoomIDs : members'[q][session[c]] = IF q = r THEN 1 ELSE 0
  <2> TAKE q \in RoomIDs
  <2>1. /\ insertNode(r, session[c])[q][session[c]] = members[q][session[c]] + (IF q = r THEN 1 ELSE 0)
        /\ insertUser(r, session[c])[q][session[c]]
             = IF q = r /\ members[q][session[c]] = 0 THEN 1 ELSE members[q][session[c]]
    BY <1>1, ListsTouchOne
  <2> QED BY <1>2, <2>1
<1> QED BY <1>3 DEF UserNodes

\* A handler leaves the nodes of its own user as the thread's new label wants them.
LEMMA OwnNodes ==
    ASSUME TypeInv, IInv, NEW c \in Clients, Step(c)
    PROVE  UserNodes(c)'
<1>a. TypeOK /\ LocalOK(c) /\ UserNodes(c) /\ RoomsKnown(c)
  BY DEF TypeInv, IInv
<1>b. DEFAULT_ROOM \in RoomIDs /\ NULL \notin RoomIDs /\ NULL \notin Names
  BY NullFacts
<1>1. CASE Unmoving(c)
  <2>1. \A r \in RoomIDs : rooms[r] # NULL => rooms'[r] # NULL
    BY RoomsStay
  <2> QED BY <1>a, <1>1, <2>1 DEF Unmoving, UserNodes
<1>2. ASSUME NEW n \in Names, Login(c, n) PROVE UserNodes(c)'
  <2>1. CASE Online(n)
    BY <1>a, <1>2, <2>1 DEF Login, UserNodes
  <2>2. CASE ~Online(n)
    <3>1. \A d \in Clients : session[d] # n
      BY <2>2 DEF IInv, OneSessionPerUser
    <3>2. \A r \in RoomIDs : members[r][n] = 0
      BY <3>1 DEF IInv
    <3>3. session'[c] = n /\ pc'[c] \in Limbo /\ members' = members
      BY <1>a, <1>2, <2>2 DEF Login, Goto, Limbo, TypeOK
    <3> QED BY <3>2, <3>3 DEF UserNodes
  <2> QED BY <2>1, <2>2
<1>3. ASSUME LoginSock(c) PROVE UserNodes(c)'
  <2>1. pc[c] \in Limbo /\ pc'[c] \in Limbo /\ members' = members /\ session' = session
    BY <1>a, <1>3 DEF LoginSock, Running, Goto, Limbo, TypeOK
  <2> QED BY <1>a, <2>1 DEF UserNodes
<1>4. ASSUME LoginRoom(c) PROVE UserNodes(c)'
  <2>1. session[c] \in Names /\ pkt[c].arg = session[c] /\ pc[c] \in Limbo
    BY <1>a, <1>4 DEF LoginRoom, Running, LocalOK, LoginSteps, Limbo
  <2>2. /\ members' = insertNode(DEFAULT_ROOM, session[c])
        /\ roomID' = roomID /\ session'[c] = session[c] /\ rooms' = rooms
        /\ pc'[c] \notin Limbo
    BY <1>a, <1>4, <2>1 DEF LoginRoom, Goto, Limbo, TypeOK
  <2>3. roomID[session[c]] = DEFAULT_ROOM /\ rooms[DEFAULT_ROOM] # NULL
    BY <1>a, <1>4 DEF RoomsKnown, LoginRoom, Running, IInv
  <2> QED BY <1>a, <1>b, <2>1, <2>2, <2>3, PutIn
<1>5. ASSUME JoinAdd(c) PROVE UserNodes(c)'
  <2>1. CASE newRoom[c] = NULL
    BY <1>a, <1>5, <2>1 DEF JoinAdd, UserNodes
  <2>2. CASE newRoom[c] # NULL
    <3>1. session[c] \in Names /\ pkt[c].user = session[c] /\ pc[c] \in Limbo
      BY <1>a, <1>5 DEF JoinAdd, Running, LocalOK, UserSteps, Limbo
    <3>2. newRoom[c] \in RoomIDs
      BY <1>a, <2>2 DEF TypeOK
    <3>3. rooms[newRoom[c]] # NULL
      BY <1>a, <1>5, <2>2 DEF RoomsKnown, JoinAdd, Running
    <3>4. /\ members' = insertUser(newRoom[c], session[c])
          /\ roomID'[session[c]] = newRoom[c]
          /\ session'[c] = session[c] /\ rooms' = rooms
          /\ pc'[c] \notin Limbo
      BY <1>a, <1>5, <2>2, <3>1 DEF JoinAdd, Goto, Limbo, TypeOK
    <3> QED BY <1>a, <3>1, <3>2, <3>3, <3>4, PutIn
  <2> QED BY <2>1, <2>2
<1>6. ASSUME LeaveAdd(c) PROVE UserNodes(c)'
  <2>1. session[c] \in Names /\ pkt[c].user = session[c] /\ pc[c] \in Limbo
    BY <1>a, <1>6 DEF LeaveAdd, Running, LocalOK, UserSteps, Limbo
  <2>2. /\ members' = insertUser(DEFAULT_ROOM, session[c])
        /\ roomID'[session[c]] = DEFAULT_ROOM
        /\ session'[c] = session[c] /\ rooms' = rooms
        /\ pc'[c] \notin Limbo
    BY <1>a, <1>6, <2>1 DEF LeaveAdd, Goto, Limbo, TypeOK
  <2>3. rooms[DEFAULT_ROOM] # NULL
    BY DEF IInv
  <2> QED BY <1>a, <1>b, <2>1, <2>2, <2>3, PutIn
<1>7. ASSUME JoinRemove(c), ~Unmoving(c) PROVE UserNodes(c)'
  <2>1. /\ RoomExists(pkt[c].room) /\ InList(pkt[c].room, pkt[c].user)
        /\ members' = removeUser(pkt[c].room, pkt[c].user)
        /\ pc'[c] = "join_add" /\ pc[c] = "join_remove"
    BY <1>7, <1>a DEF JoinRemove, Unmoving, Running, Goto, Return, Limbo, TypeOK, locals
  <2>2. pkt[c].user = session[c] /\ session[c] \in Names /\ pkt[c].room \in RoomIDs
    BY <1>a, <1>b, <2>1 DEF LocalOK, JoinSteps, RoomExists, InList
  <2>3. members[pkt[c].room][session[c]] > 0 /\ session'[c] = session[c]
    BY <1>7, <2>1, <2>2 DEF InList, JoinRemove
  <2>4. \A q \in RoomIDs : members'[q][session'[c]] = 0
    BY <1>a, <2>1, <2>2, <2>3, TakenOut DEF Limbo
  <2> QED BY <2>1, <2>4 DEF UserNodes, Limbo
<1>8. ASSUME Leave(c), ~Unmoving(c) PROVE UserNodes(c)'
  <2> DEFINE p == Packet(c, NULL)
  <2>1. /\ RoomExists(p.room) /\ InList(p.room, p.user) /\ members' = removeUser(p.room, p.user)
        /\ pc'[c] = "leave_add" /\ pc[c] = "recv" /\ session'[c] = session[c]
    BY <1>8, <1>a DEF Leave, Unmoving, Ready, Running, Goto, TypeOK
  <2>2. p.user = session[c] /\ session[c] \in Names /\ p.room \in RoomIDs
    BY <1>b, <2>1 DEF RoomExists, InList, Packet
  <2>3. members[p.room][session[c]] > 0
    BY <2>1, <2>2 DEF InList
  <2> HIDE DEF p
  <2>4. \A q \in RoomIDs : members'[q][session'[c]] = 0
    BY <1>a, <2>1, <2>2, <2>3, TakenOut DEF Limbo
  <2> QED BY <2>1, <2>4 DEF UserNodes, Limbo
<1>9. ASSUME ExitRoom(c) PROVE UserNodes(c)'
  <2>1. /\ session[c] \in Names /\ pkt[c].user = session[c] /\ pc[c] = "exit_room"
    BY <1>a, <1>9 DEF ExitRoom, Running, LocalOK, UserSteps
  <2>2. /\ members' = removeUser(roomID[session[c]], session[c])
        /\ session'[c] = session[c] /\ pc'[c] = "exit_active"
    BY <1>a, <1>9, <2>1 DEF ExitRoom, Goto, TypeOK
  <2>3. roomID[session[c]] \in RoomIDs
    BY <1>a, <1>b, <2>1 DEF UserNodes, Limbo
  <2>4. \A q \in RoomIDs : members'[q][session'[c]] = 0
    BY <1>a, <2>1, <2>2, <2>3, TakenOut DEF Limbo
  <2> QED BY <2>2, <2>4 DEF UserNodes, Limbo
<1>10. ASSUME ExitActive(c) PROVE UserNodes(c)'
  <2>1. session'[c] = NULL
    BY <1>a, <1>10 DEF ExitActive, TypeOK
  <2> QED BY <2>1 DEF UserNodes
<1> QED
  BY <1>1, <1>2, <1>3, <1>4, <1>5, <1>6, <1>7, <1>8, <1>9, <1>10, MovesAreFew DEF Moving

\* The room a thread goes on to enter exists.
LEMMA OwnRooms ==
    ASSUME TypeInv, IInv, NEW c \in Clients, Step(c)
    PROVE  RoomsKnown(c)'
<1>a. TypeOK /\ LocalOK(c) /\ RoomsKnown(c)
  BY DEF TypeInv, IInv
<1>b. \A r \in RoomIDs : rooms[r] # NULL => rooms'[r] # NULL
  BY RoomsStay
<1>c. NULL \notin RoomNames
  BY NullFacts
<1>1. ASSUME LoginSock(c) PROVE RoomsKnown(c)'
  <2>1. session[c] \in Names /\ pkt[c].arg = session[c] /\ session'[c] = session[c]
    BY <1>a, <1>1 DEF LoginSock, Running, LocalOK, LoginSteps
  <2>2. pc'[c] = "login_room" /\ roomID'[session[c]] = DEFAULT_ROOM
    BY <1>a, <1>1, <2>1 DEF LoginSock, Goto, TypeOK
  <2> QED BY <2>1, <2>2 DEF RoomsKnown
<1>2. ASSUME JoinFind(c) PROVE RoomsKnown(c)'
  <2>1. newRoom'[c] = Rget_ID(pkt[c].arg) /\ rooms' = rooms /\ pc'[c] = "join_remove"
    BY <1>a, <1>2 DEF JoinFind, Goto, TypeOK, Rget_roomFNAME
  <2>2. pkt[c].arg \in RoomNames
    BY <1>a, <1>2 DEF JoinFind, Running, LocalOK, JoinSteps
  <2>3. Rget_ID(pkt[c].arg) # NULL => rooms[Rget_ID(pkt[c].arg)] = pkt[c].arg
    BY LookupByName
  <2> QED BY <1>c, <2>1, <2>2, <2>3 DEF RoomsKnown
<1>3. ASSUME JoinRemove(c) PROVE RoomsKnown(c)'
  <2>1. newRoom'[c] \in {newRoom[c], NULL} /\ rooms' = rooms /\ pc'[c] \in {"recv", "join_add", "join_remove"}
        /\ pc[c] = "join_remove"
    BY <1>a, <1>3 DEF JoinRemove, Running, Return, Goto, Fault, locals, TypeOK
  <2> QED BY <1>a, <2>1 DEF RoomsKnown
<1>4. ASSUME pc'[c] = pc[c], newRoom'[c] = newRoom[c], session'[c] = session[c], roomID' = roomID
      PROVE  RoomsKnown(c)'
  BY <1>a, <1>b, <1>4 DEF RoomsKnown, TypeOK
<1>5. ASSUME pc'[c] \notin {"login_room", "join_remove", "join_add"} PROVE RoomsKnown(c)'
  BY <1>5 DEF RoomsKnown
<1> DEFINE Arrival == \/ LoginSock(c) \/ JoinFind(c) \/ JoinRemove(c)
                      \/ pc'[c] \notin {"login_room", "join_remove", "join_add"}
                      \/ /\ pc'[c] = pc[c] /\ newRoom'[c] = newRoom[c]
                         /\ session'[c] = session[c] /\ roomID' = roomID
<1>6. Arrival
  <2>a. pc \in [Clients -> Labels]
    BY <1>a DEF TypeOK
  <2> USE <2>a DEF Goto, Running, users, locals
  <2>1. ASSUME NEW n \in Names, Login(c, n) PROVE Arrival
    BY <2>1 DEF Login
  <2>2. ASSUME NEW n \in Names, Invite(c, n) PROVE Arrival
    BY <2>2 DEF Invite
  <2>3. ASSUME NEW x \in RoomNames, Join(c, x) PROVE Arrival
    BY <2>3 DEF Join
  <2>4. ASSUME Accept(c) PROVE Arrival
    BY <2>4 DEF Accept
  <2>5. ASSUME Vanish(c) PROVE Arrival
    BY <2>5 DEF Vanish
  <2>6. ASSUME ReadReply(c) PROVE Arrival
    BY <2>6 DEF ReadReply
  <2>7. ASSUME Leave(c) PROVE Arrival
    BY <2>7 DEF Leave
  <2>8. ASSUME Chat(c) PROVE Arrival
    BY <2>8 DEF Chat
  <2>9. ASSUME Exit(c) PROVE Arrival
    BY <2>9 DEF Exit, exit_client
  <2>10. ASSUME ExitNotLoggedIn(c) PROVE Arrival
    BY <2>10 DEF ExitNotLoggedIn
  <2>11. ASSUME Reset(c) PROVE Arrival
    BY <2>11 DEF Reset, exit_client
  <2>12. ASSUME LoginRoom(c) PROVE Arrival
    BY <2>12 DEF LoginRoom
  <2>13. ASSUME LoginAck(c) PROVE Arrival
    BY <2>13 DEF LoginAck, Reply
  <2>14. ASSUME LoginNotice(c) PROVE Arrival
    BY <2>14 DEF LoginNotice, Announce, Return
  <2>15. ASSUME JoinID(c) PROVE Arrival
    BY <2>15 DEF JoinID
  <2>16. ASSUME JoinLoad(c) PROVE Arrival
    BY <2>16 DEF JoinLoad
  <2>17. ASSUME JoinStore(c) PROVE Arrival
    BY <2>17 DEF JoinStore
  <2>18. ASSUME JoinInsert(c) PROVE Arrival
    BY <2>18 DEF JoinInsert
  <2>19. ASSUME JoinAdd(c) PROVE Arrival
    BY <2>19 DEF JoinAdd, Fault
  <2>20. ASSUME JoinAck(c) PROVE Arrival
    BY <2>20 DEF JoinAck, Reply
  <2>21. ASSUME JoinLeft(c) PROVE Arrival
    BY <2>21 DEF JoinLeft, Announce
  <2>22. ASSUME JoinJoined(c) PROVE Arrival
    BY <2>22 DEF JoinJoined, Announce, Return
  <2>23. ASSUME LeaveAdd(c) PROVE Arrival
    BY <2>23 DEF LeaveAdd
  <2>24. ASSUME LeaveLeft(c) PROVE Arrival
    BY <2>24 DEF LeaveLeft, Announce
  <2>25. ASSUME LeaveAck(c) PROVE Arrival
    BY <2>25 DEF LeaveAck, Reply
  <2>26. ASSUME LeaveJoined(c) PROVE Arrival
    BY <2>26 DEF LeaveJoined, Announce, Return
  <2>27. ASSUME InviteSend(c) PROVE Arrival
    BY <2>27 DEF InviteSend, Return
  <2>28. ASSUME ExitNotice(c) PROVE Arrival
    BY <2>28 DEF ExitNotice, Announce
  <2>29. ASSUME ExitClose(c) PROVE Arrival
    BY <2>29 DEF ExitClose
  <2>30. ASSUME ExitRoom(c) PROVE Arrival
    BY <2>30 DEF ExitRoom
  <2>31. ASSUME ExitActive(c) PROVE Arrival
    BY <2>31 DEF ExitActive
  <2> QED
    BY <2>1, <2>2, <2>3, <2>4, <2>5, <2>6, <2>7, <2>8, <2>9, <2>10, <2>11,
       <2>12, <2>13, <2>14, <2>15, <2>16, <2>17, <2>18, <2>19, <2>20, <2>21,
       <2>22, <2>23, <2>24, <2>25, <2>26, <2>27, <2>28, <2>29, <2>30, <2>31 DEF Step, Request, Handler
<1> QED BY <1>1, <1>2, <1>3, <1>4, <1>5, <1>6

-----------------------------------------------------------------------------
(* The invariant. *)

\* Initially nobody is in a session or a list, and the lobby exists.
LEMMA RoomsInit == Init => IInv
<1> SUFFICES ASSUME Init PROVE IInv
  OBVIOUS
<1>1. OneSessionPerUser
  BY NullFacts DEF Init, OneSessionPerUser, Online, LoggedIn
<1>2. rooms[DEFAULT_ROOM] # NULL
  BY NullFacts, ConstantsAssumption DEF Init
<1>3. \A c \in Clients : UserNodes(c) /\ RoomsKnown(c)
  BY DEF Init, UserNodes, RoomsKnown
<1>4. \A n \in Names, r \in RoomIDs : members[r][n] = 0
  BY DEF Init
<1> QED BY <1>1, <1>2, <1>3, <1>4 DEF IInv

\* A session begins with a login of a user who is not in the active list, and ends when the
\* user is taken off it.
LEMMA SessionSteps ==
    ASSUME TypeInv, NEW c \in Clients, Step(c)
    PROVE  \/ session'[c] = session[c] /\ active' = active
           \/ /\ session[c] = NULL /\ session'[c] \in Names /\ session'[c] \notin active
              /\ active' = active \cup {session'[c]}
           \/ /\ session[c] \in Names /\ session'[c] = NULL /\ pc[c] \in Limbo
              /\ active' = active \ {session[c]}
<1> DEFINE Kept  == session'[c] = session[c] /\ active' = active
           Begun == /\ session[c] = NULL /\ session'[c] \in Names /\ session'[c] \notin active
                    /\ active' = active \cup {session'[c]}
           Ended == /\ session[c] \in Names /\ session'[c] = NULL /\ pc[c] \in Limbo
                    /\ active' = active \ {session[c]}
<1>a. session \in [Clients -> Names \cup {NULL}] /\ LocalOK(c)
  BY DEF TypeInv, TypeOK
<1>1. ASSUME NEW n \in Names, Login(c, n) PROVE Kept \/ Begun
  BY <1>a, <1>1 DEF Login, LoggedIn, Online
<1>2. ASSUME ExitActive(c) PROVE Ended
  BY <1>a, <1>2 DEF ExitActive, Running, LocalOK, UserSteps, Limbo
<1>3. ASSUME Moving(c), ~ExitActive(c), \A n \in Names : ~Login(c, n) PROVE Kept
  BY <1>3 DEF Moving, LoginSock, LoginRoom, JoinRemove, JoinAdd, Leave, LeaveAdd, ExitRoom
<1> QED BY <1>1, <1>2, <1>3, MovesAreFew DEF Unmoving

\* A step keeps the active list and the sessions in agreement.
LEMMA SessionsStep ==
    ASSUME TypeInv, IInv, NEW c \in Clients, Step(c)
    PROVE  OneSessionPerUser'
<1>a. /\ \A n \in Names : n \in active <=> \E d \in Clients : session[d] = n
      /\ \A d, e \in Clients : session[d] = session[e] /\ session[d] # NULL => d = e
  BY DEF IInv, OneSessionPerUser, Online, LoggedIn
<1>b. \A d \in Clients : d # c => session'[d] = session[d]
  BY ThreadsOwnTheirLocals DEF OthersKeep, TypeInv
<1>c. \A d \in Clients : session[d] \in Names \cup {NULL}
  BY DEF TypeInv, TypeOK
<1>d. NULL \notin Names
  BY NullFacts
<1> SUFFICES /\ \A n \in Names : n \in active' <=> \E d \in Clients : session'[d] = n
             /\ \A d, e \in Clients : session'[d] = session'[e] /\ session'[d] # NULL => d = e
  BY DEF OneSessionPerUser, Online, LoggedIn
<1>1. CASE session'[c] = session[c] /\ active' = active
  BY <1>a, <1>b, <1>1
<1>2. CASE /\ session[c] = NULL /\ session'[c] \in Names /\ session'[c] \notin active
           /\ active' = active \cup {session'[c]}
  BY <1>a, <1>b, <1>c, <1>d, <1>2
<1>3. CASE /\ session[c] \in Names /\ session'[c] = NULL
           /\ active' = active \ {session[c]}
  BY <1>a, <1>b, <1>c, <1>d, <1>3
<1> QED BY <1>1, <1>2, <1>3, SessionSteps

\* A step keeps IInv: its own thread by OwnNodes and OwnRooms, the others untouched.
LEMMA RoomsStep == TypeInv /\ IInv /\ [Next]_vars => IInv'
<1> SUFFICES ASSUME TypeInv, IInv, [Next]_vars PROVE IInv'
  OBVIOUS
<1>1. ASSUME NEW c \in Clients, Step(c) PROVE IInv'
  <2>a. TypeOK /\ NULL \notin Names /\ DEFAULT_ROOM \in RoomIDs
    BY NullFacts DEF TypeInv
  <2>b. OthersKeep(c) /\ OthersStay(c) /\ \A r \in RoomIDs : rooms[r] # NULL => rooms'[r] # NULL
    BY <1>1, <2>a, ThreadsOwnTheirLocals, ThreadsMoveTheirUser, RoomsStay
  <2>1. OneSessionPerUser'
    BY <1>1, SessionsStep
  <2>2. rooms'[DEFAULT_ROOM] # NULL
    BY <2>a, <2>b DEF IInv
  <2>3. UserNodes(c)' /\ RoomsKnown(c)'
    BY <1>1, OwnNodes, OwnRooms
  <2>4. ASSUME NEW d \in Clients, d # c PROVE UserNodes(d)' /\ RoomsKnown(d)'
    <3>1. /\ pc'[d] = pc[d] /\ session'[d] = session[d] /\ newRoom'[d] = newRoom[d]
          /\ UserNodes(d) /\ RoomsKnown(d) /\ LocalOK(d)
      BY <2>b, <2>4 DEF OthersKeep, IInv, TypeInv
    <3>2. session[d] \in Names => /\ roomID'[session[d]] = roomID[session[d]]
                                  /\ \A r \in RoomIDs : members'[r][session[d]] = members[r][session[d]]
      <4>1. session[d] \in Names => session[d] # session[c]
        BY <2>a, <2>4 DEF IInv, OneSessionPerUser, LoggedIn
      <4> QED BY <2>b, <4>1 DEF OthersStay
    <3>3. UserNodes(d)'
      BY <2>a, <2>b, <3>1, <3>2 DEF UserNodes, TypeOK
    <3>4. pc[d] = "login_room" => session[d] \in Names
      BY <3>1 DEF LocalOK, LoginSteps
    <3>5. newRoom[d] # NULL => newRoom[d] \in RoomIDs
      BY <2>a DEF TypeOK
    <3>6. RoomsKnown(d)'
      BY <2>b, <3>1, <3>2, <3>4, <3>5 DEF RoomsKnown
    <3> QED BY <3>3, <3>6
  <2>5. ASSUME NEW n \in Names, \A d \in Clients : session'[d] # n, NEW r \in RoomIDs
        PROVE  members'[r][n] = 0
    <3>1. CASE n # session[c]
      <4>1. \A d \in Clients : session[d] # n
        BY <2>b, <2>5, <3>1 DEF OthersKeep
      <4> QED BY <2>b, <3>1, <4>1 DEF IInv, OthersStay
    <3>2. CASE n = session[c]
      <4>1. pc[c] \in Limbo /\ session'[c] = NULL
        BY <1>1, <2>5, <3>2, <2>a, SessionSteps
      <4>2. ExitActive(c)
        BY <1>1, <2>5, <3>2, <2>a, MovesAreFew
        DEF Moving, Unmoving, Login, LoggedIn, LoginSock, LoginRoom, JoinRemove, JoinAdd,
            Leave, LeaveAdd, ExitRoom
      <4>3. members' = members
        BY <4>2 DEF ExitActive
      <4> QED BY <2>a, <3>2, <4>1, <4>3 DEF IInv, UserNodes
    <3> QED BY <3>1, <3>2
  <2> QED BY <2>1, <2>2, <2>3, <2>4, <2>5 DEF IInv
<1>2. CASE UNCHANGED vars
  BY <1>2 DEF IInv, OneSessionPerUser, Online, LoggedIn, UserNodes, RoomsKnown, vars, conns,
              locals, client, users
<1> QED BY <1>1, <1>2 DEF Next

\* IInv is an invariant: it is what login, join, leave and exit preserve together.
THEOREM RoomsCorrect == Spec => [](TypeInv /\ IInv)
<1>1. Init => TypeInv /\ IInv
  BY TypeInit, RoomsInit
<1>2. TypeInv /\ IInv /\ [Next]_vars => (TypeInv /\ IInv)'
  BY TypeStep, RoomsStep
<1> QED BY <1>1, <1>2, PTL DEF Spec

\* One session per user: the active list has exactly the users of the live sessions,
\* and no two connections share one, however logins, exits and resets interleave.
THEOREM SessionsCorrect == Spec => []OneSessionPerUser
<1>1. IInv => OneSessionPerUser
  BY DEF IInv
<1> QED BY <1>1, RoomsCorrect, PTL

\* The thread by thread invariant says that the room lists partition the users.
LEMMA OneRoomEach == TypeInv /\ IInv => UsersInOneRoom
<1> SUFFICES ASSUME TypeInv, IInv PROVE UsersInOneRoom
  OBVIOUS
<1>a. TypeOK /\ NULL \notin Names /\ NULL \notin RoomIDs
  BY NullFacts DEF TypeInv
<1>1. ASSUME NEW r \in RoomIDs, NEW n \in Names
      PROVE  members[r][n] = IF \E c \in Clients : session[c] = n /\ Settled(c) /\ roomID[n] = r
                             THEN 1 ELSE 0
  <2>1. CASE \A c \in Clients : session[c] # n
    BY <2>1 DEF IInv
  <2>2. ASSUME NEW c \in Clients, session[c] = n
        PROVE  members[r][n] = IF \E d \in Clients : session[d] = n /\ Settled(d) /\ roomID[n] = r
                               THEN 1 ELSE 0
    <3>1. \A d \in Clients : session[d] = n => d = c
      BY <1>a, <2>2 DEF IInv, OneSessionPerUser, LoggedIn
    <3>2. UserNodes(c)
      BY DEF IInv
    <3> QED BY <1>a, <2>2, <3>1, <3>2 DEF UserNodes, Settled, LoggedIn
  <2> QED BY <2>1, <2>2
<1>2. ASSUME NEW c \in Clients, Settled(c) PROVE RoomExists(roomID[session[c]])
  BY <1>2 DEF IInv, UserNodes, Settled, LoggedIn, RoomExists
<1> QED BY <1>1, <1>2 DEF UsersInOneRoom

\* Rooms partition the users: whatever the handlers of any number of clients do to the room
\* lists one call at a time, every settled user has one node, in the room of his record.
THEOREM PartitionCorrect == Spec => []UsersInOneRoom
BY OneRoomEach, RoomsCorrect, PTL

\* No two rooms share a name: a creator whose lookup is out of date is refused by
\* insertRoom, whatever number it has drawn.
THEOREM RoomsDistinct == Spec => []RoomNamesUnique
<1>a. NULL \notin RoomNames
  BY NullFacts
<1>1. Init => RoomNamesUnique
  BY DEF Init, RoomNamesUnique
<1>2. ASSUME TypeInv, RoomNamesUnique, [Next]_vars PROVE RoomNamesUnique'
  <2>1. CASE UNCHANGED vars
    BY <1>2, <2>1 DEF vars, RoomNamesUnique
  <2>2. ASSUME NEW c \in Clients, Step(c) PROVE RoomNamesUnique'
    <3>1. TypeOK
      BY <1>2 DEF TypeInv
    <3>2. CASE rooms' = rooms
      BY <1>2, <3>2 DEF RoomNamesUnique
    <3>3. ASSUME NEW r \in RoomIDs, NEW x \in RoomNames, \A q \in RoomIDs : rooms[q] # x,
                 rooms' = [rooms EXCEPT ![r] = x]
          PROVE  RoomNamesUnique'
      BY <1>2, <3>1, <3>3 DEF RoomNamesUnique, TypeOK
    <3> QED BY <1>2, <2>2, <3>2, <3>3, RoomMove
  <2> QED BY <1>2, <2>1, <2>2 DEF Next
<1>3. Spec => []TypeInv
  BY RoomsCorrect, PTL
<1> QED BY <1>1, <1>2, <1>3, PTL DEF Spec

=============================================================================
