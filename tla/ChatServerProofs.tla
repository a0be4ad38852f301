-------------------------- MODULE ChatServerProofs --------------------------
(***************************************************************************)
(* Type correctness of ChatServer, for every set of connections, users,    *)
(* room names and descriptors: no packet, record, list or counter ever     *)
(* holds a value its users cannot handle.                                  *)
(***************************************************************************)
EXTENDS ChatServer, TLAPS

LoginSteps == {"login_sock", "login_room", "login_ack", "login_notice"}
JoinSteps  == {"join_id", "join_load", "join_store", "join_insert", "join_find",
               "join_remove", "join_add", "join_ack", "join_left", "join_joined"}
\* The steps that act on the user named by the packet, after finding it.
UserSteps  == {"join_add", "join_ack", "join_left", "join_joined",
               "leave_add", "leave_left", "leave_ack", "leave_joined",
               "exit_notice", "exit_close", "exit_room", "exit_active"}

\* What the locals of a thread hold while it handles a request.
LocalOK(c) ==
    /\ pc[c] = "new" => session[c] = NULL
    /\ pc[c] # "new" => fd[c] \in Fds
    /\ pc[c] \in LoginSteps => session[c] \in Names /\ pkt[c].arg = session[c]
    /\ pc[c] \in JoinSteps => /\ session[c] \in Names /\ pkt[c].arg \in RoomNames
                              /\ pkt[c].user \in {session[c], NULL}
    /\ pc[c] \in UserSteps => session[c] \in Names /\ pkt[c].user = session[c]
    /\ pc[c] = "invite_send" => pkt[c].arg \in Names /\ session[c] \in Names
    /\ pc[c] \in {"join_load", "join_store", "join_insert",
                  "join_ack", "join_left", "join_joined"} => newRoom[c] # NULL
    /\ pc[c] = "join_store" => load[c] # NULL
    /\ load[c] # NULL => load[c] > DEFAULT_ROOM

\* The inductive strengthening of TypeOK.
TypeInv ==
    /\ TypeOK
    /\ numRooms > DEFAULT_ROOM
    /\ \A c \in Clients : LocalOK(c)


-----------------------------------------------------------------------------
(* Facts about the operators. *)

\* The default room is a room number, and NULL is none of the values it is compared with.
LEMMA NullFacts ==
    /\ DEFAULT_ROOM \in RoomIDs /\ DEFAULT_ROOM \in Nat
    /\ NULL \notin Clients /\ NULL \notin Names /\ NULL \notin RoomNames
    /\ NULL \notin RoomIDs /\ NULL \notin Fds /\ NULL \notin Nat
<1>1. DEFAULT_ROOM \in RoomIDs /\ DEFAULT_ROOM \in Nat
  BY ConstantsAssumption DEF DEFAULT_ROOM, RoomIDs
<1>2. RoomIDs \subseteq Nat /\ Fds \subseteq Nat
  BY ConstantsAssumption DEF DEFAULT_ROOM, RoomIDs
<1> QED BY <1>1, <1>2, NullAssumption

\* The list functions keep node counts, for any room and any user.
LEMMA ListTypes ==
    ASSUME TypeOK, NEW r, NEW n
    PROVE  /\ insertNode(r, n) \in [RoomIDs -> [Names -> Nat]]
           /\ insertUser(r, n) \in [RoomIDs -> [Names -> Nat]]
           /\ removeUser(r, n) \in [RoomIDs -> [Names -> Nat]]
<1>1. members \in [RoomIDs -> [Names -> Nat]]
  BY DEF TypeOK
<1>2. CASE r \in RoomIDs /\ n \in Names
  <2>1. members[r] \in [Names -> Nat] /\ members[r][n] \in Nat
    BY <1>1, <1>2
  <2>2. removeNode(r, n) \in [RoomIDs -> [Names -> Nat]] \/ members[r][n] = 0
    BY <1>1, <1>2, <2>1 DEF removeNode
  <2> QED BY <1>1, <1>2, <2>1, <2>2 DEF insertNode, insertUser, removeUser, InList
<1>3. CASE r \in RoomIDs /\ n \notin Names
  <2>1. members[r] \in [Names -> Nat]
    BY <1>1, <1>3
  <2> QED BY <1>1, <1>3, <2>1 DEF insertNode, insertUser, removeUser, InList
<1>4. CASE r \notin RoomIDs
  BY <1>1, <1>4 DEF insertNode, insertUser, removeUser, removeNode, InList
<1> QED BY <1>2, <1>3, <1>4

\* The list functions touch the node of one user in one room.
LEMMA ListsTouchOne ==
    ASSUME TypeOK, NEW r \in RoomIDs, NEW n \in Names, NEW q \in RoomIDs, NEW m \in Names
    PROVE  /\ insertNode(r, n)[q][m] = members[q][m] + (IF q = r /\ m = n THEN 1 ELSE 0)
           /\ insertUser(r, n)[q][m] = IF q = r /\ m = n /\ members[q][m] = 0
                                         THEN 1 ELSE members[q][m]
           /\ removeUser(r, n)[q][m] = IF q = r /\ m = n /\ members[q][m] > 0
                                         THEN members[q][m] - 1 ELSE members[q][m]
<1>1. members \in [RoomIDs -> [Names -> Nat]] /\ members[q][m] \in Nat
  BY DEF TypeOK
<1>2. insertNode(r, n)[q][m] = members[q][m] + (IF q = r /\ m = n THEN 1 ELSE 0)
  BY <1>1 DEF insertNode
<1>3. insertUser(r, n)[q][m] = IF q = r /\ m = n /\ members[q][m] = 0
                                THEN 1 ELSE members[q][m]
  BY <1>1 DEF insertUser
<1>4. removeUser(r, n)[q][m] = IF q = r /\ m = n /\ members[q][m] > 0
                                THEN members[q][m] - 1 ELSE members[q][m]
  BY <1>1 DEF removeUser, removeNode, InList
<1> QED BY <1>2, <1>3, <1>4

\* A room lookup by name yields NULL or the ID of a room of that name.
LEMMA LookupByName ==
    ASSUME NEW x
    PROVE  Rget_ID(x) = NULL \/ (Rget_ID(x) \in RoomIDs /\ rooms[Rget_ID(x)] = x)
BY DEF Rget_ID

\* Whoever is told something is a connection, whatever room is named.
LEMMA ListenersType ==
    ASSUME TypeOK, NEW r, NEW not
    PROVE  Listeners(r, not) \in SUBSET Clients
BY DEF TypeOK, Listeners

\* Packets are well formed.
LEMMA PacketType ==
    ASSUME TypeOK, NEW c \in Clients, NEW x \in Names \cup RoomNames \cup {NULL}
    PROVE  /\ Packet(c, x) \in Packets
           /\ NoPkt \in Packets /\ [NoPkt EXCEPT !.arg = x] \in Packets
BY DEF TypeOK, Packet, Packets, NoPkt

\* Inserting a room keeps every room that exists.
LEMMA RoomsGrow ==
    ASSUME TypeOK, NEW r \in RoomIDs, NEW x \in RoomNames
    PROVE  /\ insertRoom(r, x) \in [RoomIDs -> RoomNames \cup {NULL}]
           /\ \A q \in RoomIDs : rooms[q] # NULL => insertRoom(r, x)[q] = rooms[q]
BY DEF TypeOK, insertRoom

-----------------------------------------------------------------------------
(* Types. *)

\* Initially the strengthened types hold.
LEMMA TypeInit == Init => TypeInv
BY NullFacts, ConstantsAssumption
   DEF Init, TypeInv, TypeOK, LocalOK, NoPkt, NoSend, Packets, Sends, Faults, Labels,
       DEFAULT_ROOM, RoomIDs, LoginSteps, JoinSteps, UserSteps

\* A thread changes no locals but its own.
OthersKeep(c) ==
    \A d \in Clients : d # c => /\ pc'[d] = pc[d] /\ fd'[d] = fd[d] /\ pkt'[d] = pkt[d]
                                /\ newRoom'[d] = newRoom[d] /\ load'[d] = load[d]
                                /\ session'[d] = session[d]

\* No step writes a local of another thread, whichever handler it belongs to.
LEMMA ThreadsOwnTheirLocals ==
    ASSUME TypeOK, NEW c \in Clients, Step(c)
    PROVE  OthersKeep(c)
<1> USE DEF TypeOK, OthersKeep, Running, Goto, Quiet, NoFault, conns, locals, client, users
<1>1. ASSUME NEW n \in Names, Login(c, n) PROVE OthersKeep(c)
  BY <1>1 DEF Login, Ready, LoggedIn, Fault
<1>2. ASSUME NEW n \in Names, Invite(c, n) PROVE OthersKeep(c)
  BY <1>2 DEF Invite, Ready, LoggedIn
<1>3. ASSUME NEW x \in RoomNames, Join(c, x) PROVE OthersKeep(c)
  BY <1>3 DEF Join, Ready, LoggedIn
<1>4. ASSUME Accept(c) PROVE OthersKeep(c)
  BY <1>4 DEF Accept
<1>5. ASSUME Vanish(c) PROVE OthersKeep(c)
  BY <1>5 DEF Vanish
<1>6. ASSUME ReadReply(c) PROVE OthersKeep(c)
  BY <1>6 DEF ReadReply
<1>7. ASSUME Leave(c) PROVE OthersKeep(c)
  BY <1>7 DEF Leave, Ready, LoggedIn
<1>8. ASSUME Chat(c) PROVE OthersKeep(c)
  BY <1>8 DEF Chat, Ready, LoggedIn, send_message
<1>9. ASSUME Exit(c) PROVE OthersKeep(c)
  BY <1>9 DEF Exit, Ready, LoggedIn, exit_client
<1>10. ASSUME ExitNotLoggedIn(c) PROVE OthersKeep(c)
  BY <1>10 DEF ExitNotLoggedIn, Ready, LoggedIn
<1>11. ASSUME Reset(c) PROVE OthersKeep(c)
  BY <1>11 DEF Reset, LoggedIn, exit_client
<1>12. ASSUME LoginSock(c) PROVE OthersKeep(c)
  BY <1>12 DEF LoginSock
<1>13. ASSUME LoginRoom(c) PROVE OthersKeep(c)
  BY <1>13 DEF LoginRoom
<1>14. ASSUME LoginAck(c) PROVE OthersKeep(c)
  BY <1>14 DEF LoginAck, Reply
<1>15. ASSUME LoginNotice(c) PROVE OthersKeep(c)
  BY <1>15 DEF LoginNotice, Announce, send_message, Return
<1>16. ASSUME JoinID(c) PROVE OthersKeep(c)
  BY <1>16 DEF JoinID
<1>17. ASSUME JoinLoad(c) PROVE OthersKeep(c)
  BY <1>17 DEF JoinLoad
<1>18. ASSUME JoinStore(c) PROVE OthersKeep(c)
  BY <1>18 DEF JoinStore
<1>19. ASSUME JoinInsert(c) PROVE OthersKeep(c)
  BY <1>19 DEF JoinInsert
<1>20. ASSUME JoinFind(c) PROVE OthersKeep(c)
  BY <1>20 DEF JoinFind
<1>21. ASSUME JoinRemove(c) PROVE OthersKeep(c)
  BY <1>21 DEF JoinRemove, Return, Fault
<1>22. ASSUME JoinAdd(c) PROVE OthersKeep(c)
  BY <1>22 DEF JoinAdd, Fault
<1>23. ASSUME JoinAck(c) PROVE OthersKeep(c)
  BY <1>23 DEF JoinAck, Reply
<1>24. ASSUME JoinLeft(c) PROVE OthersKeep(c)
  BY <1>24 DEF JoinLeft, Announce, send_message
<1>25. ASSUME JoinJoined(c) PROVE OthersKeep(c)
  BY <1>25 DEF JoinJoined, Announce, send_message, Return
<1>26. ASSUME LeaveAdd(c) PROVE OthersKeep(c)
  BY <1>26 DEF LeaveAdd
<1>27. ASSUME LeaveLeft(c) PROVE OthersKeep(c)
  BY <1>27 DEF LeaveLeft, Announce, send_message
<1>28. ASSUME LeaveAck(c) PROVE OthersKeep(c)
  BY <1>28 DEF LeaveAck, Reply
<1>29. ASSUME LeaveJoined(c) PROVE OthersKeep(c)
  BY <1>29 DEF LeaveJoined, Announce, send_message, Return
<1>30. ASSUME InviteSend(c) PROVE OthersKeep(c)
  BY <1>30 DEF InviteSend, Return
<1>31. ASSUME ExitNotice(c) PROVE OthersKeep(c)
  BY <1>31 DEF ExitNotice, Announce, send_message
<1>32. ASSUME ExitClose(c) PROVE OthersKeep(c)
  BY <1>32 DEF ExitClose
<1>33. ASSUME ExitRoom(c) PROVE OthersKeep(c)
  BY <1>33 DEF ExitRoom
<1>34. ASSUME ExitActive(c) PROVE OthersKeep(c)
  BY <1>34 DEF ExitActive
<1> QED
  BY <1>1, <1>2, <1>3, <1>4, <1>5, <1>6, <1>7, <1>8, <1>9, <1>10, <1>11, <1>12, <1>13,
       <1>14, <1>15, <1>16, <1>17, <1>18, <1>19, <1>20, <1>21, <1>22, <1>23, <1>24,
       <1>25, <1>26, <1>27, <1>28, <1>29, <1>30, <1>31, <1>32, <1>33, <1>34
  DEF Step, Request, Handler

\* Every step keeps threads at one of the labels ...
LEMMA PcStep ==
    ASSUME TypeOK, NEW c \in Clients, Step(c)
    PROVE  pc' \in [Clients -> Labels]
<1>a. pc \in [Clients -> Labels]
  BY DEF TypeOK
<1> USE DEF Goto, Labels
<1>1. ASSUME NEW n \in Names, Login(c, n) PROVE pc' \in [Clients -> Labels]
  BY <1>a, <1>1 DEF Login
<1>2. ASSUME NEW n \in Names, Invite(c, n) PROVE pc' \in [Clients -> Labels]
  BY <1>a, <1>2 DEF Invite
<1>3. ASSUME NEW x \in RoomNames, Join(c, x) PROVE pc' \in [Clients -> Labels]
  BY <1>a, <1>3 DEF Join
<1>4. ASSUME Accept(c) PROVE pc' \in [Clients -> Labels]
  BY <1>a, <1>4 DEF Accept
<1>5. ASSUME Vanish(c) PROVE pc' \in [Clients -> Labels]
  BY <1>a, <1>5 DEF Vanish
<1>6. ASSUME ReadReply(c) PROVE pc' \in [Clients -> Labels]
  BY <1>a, <1>6 DEF ReadReply
<1>7. ASSUME Leave(c) PROVE pc' \in [Clients -> Labels]
  BY <1>a, <1>7 DEF Leave
<1>8. ASSUME Chat(c) PROVE pc' \in [Clients -> Labels]
  BY <1>a, <1>8 DEF Chat
<1>9. ASSUME Exit(c) PROVE pc' \in [Clients -> Labels]
  BY <1>a, <1>9 DEF Exit, exit_client
<1>10. ASSUME ExitNotLoggedIn(c) PROVE pc' \in [Clients -> Labels]
  BY <1>a, <1>10 DEF ExitNotLoggedIn
<1>11. ASSUME Reset(c) PROVE pc' \in [Clients -> Labels]
  BY <1>a, <1>11 DEF Reset, exit_client
<1>12. ASSUME LoginSock(c) PROVE pc' \in [Clients -> Labels]
  BY <1>a, <1>12 DEF LoginSock
<1>13. ASSUME LoginRoom(c) PROVE pc' \in [Clients -> Labels]
  BY <1>a, <1>13 DEF LoginRoom
<1>14. ASSUME LoginAck(c) PROVE pc' \in [Clients -> Labels]
  BY <1>a, <1>14 DEF LoginAck, Reply
<1>15. ASSUME LoginNotice(c) PROVE pc' \in [Clients -> Labels]
  BY <1>a, <1>15 DEF LoginNotice, Announce, Return
<1>16. ASSUME JoinID(c) PROVE pc' \in [Clients -> Labels]
  BY <1>a, <1>16 DEF JoinID
<1>17. ASSUME JoinLoad(c) PROVE pc' \in [Clients -> Labels]
  BY <1>a, <1>17 DEF JoinLoad
<1>18. ASSUME JoinStore(c) PROVE pc' \in [Clients -> Labels]
  BY <1>a, <1>18 DEF JoinStore
<1>19. ASSUME JoinInsert(c) PROVE pc' \in [Clients -> Labels]
  BY <1>a, <1>19 DEF JoinInsert
<1>20. ASSUME JoinFind(c) PROVE pc' \in [Clients -> Labels]
  BY <1>a, <1>20 DEF JoinFind
<1>21. ASSUME JoinRemove(c) PROVE pc' \in [Clients -> Labels]
  BY <1>a, <1>21 DEF JoinRemove, Return
<1>22. ASSUME JoinAdd(c) PROVE pc' \in [Clients -> Labels]
  BY <1>a, <1>22 DEF JoinAdd
<1>23. ASSUME JoinAck(c) PROVE pc' \in [Clients -> Labels]
  BY <1>a, <1>23 DEF JoinAck, Reply
<1>24. ASSUME JoinLeft(c) PROVE pc' \in [Clients -> Labels]
  BY <1>a, <1>24 DEF JoinLeft, Announce
<1>25. ASSUME JoinJoined(c) PROVE pc' \in [Clients -> Labels]
  BY <1>a, <1>25 DEF JoinJoined, Announce, Return
<1>26. ASSUME LeaveAdd(c) PROVE pc' \in [Clients -> Labels]
  BY <1>a, <1>26 DEF LeaveAdd
<1>27. ASSUME LeaveLeft(c) PROVE pc' \in [Clients -> Labels]
  BY <1>a, <1>27 DEF LeaveLeft, Announce
<1>28. ASSUME LeaveAck(c) PROVE pc' \in [Clients -> Labels]
  BY <1>a, <1>28 DEF LeaveAck, Reply
<1>29. ASSUME LeaveJoined(c) PROVE pc' \in [Clients -> Labels]
  BY <1>a, <1>29 DEF LeaveJoined, Announce, Return
<1>30. ASSUME InviteSend(c) PROVE pc' \in [Clients -> Labels]
  BY <1>a, <1>30 DEF InviteSend, Return
<1>31. ASSUME ExitNotice(c) PROVE pc' \in [Clients -> Labels]
  BY <1>a, <1>31 DEF ExitNotice, Announce
<1>32. ASSUME ExitClose(c) PROVE pc' \in [Clients -> Labels]
  BY <1>a, <1>32 DEF ExitClose
<1>33. ASSUME ExitRoom(c) PROVE pc' \in [Clients -> Labels]
  BY <1>a, <1>33 DEF ExitRoom
<1>34. ASSUME ExitActive(c) PROVE pc' \in [Clients -> Labels]
  BY <1>a, <1>34 DEF ExitActive
<1> QED
  BY <1>1, <1>2, <1>3, <1>4, <1>5, <1>6, <1>7, <1>8, <1>9, <1>10, <1>11, <1>12, <1>13,
       <1>14, <1>15, <1>16, <1>17, <1>18, <1>19, <1>20, <1>21, <1>22, <1>23, <1>24,
       <1>25, <1>26, <1>27, <1>28, <1>29, <1>30, <1>31, <1>32, <1>33, <1>34
  DEF Step, Request, Handler

\* ... and their packets well formed.
LEMMA PktStep ==
    ASSUME TypeOK, NEW c \in Clients, Step(c)
    PROVE  pkt' \in [Clients -> Packets]
<1>a. pkt \in [Clients -> Packets]
  BY DEF TypeOK
<1>b. NoPkt \in Packets /\ Packet(c, NULL) \in Packets
  BY PacketType
<1> USE DEF locals
<1>1. ASSUME NEW n \in Names, Login(c, n) PROVE pkt' \in [Clients -> Packets]
  <2>1. [NoPkt EXCEPT !.arg = n] \in Packets
    BY PacketType
  <2> QED BY <1>a, <1>1, <2>1 DEF Login
<1>2. ASSUME NEW n \in Names, Invite(c, n) PROVE pkt' \in [Clients -> Packets]
  <2>1. Packet(c, n) \in Packets
    BY PacketType
  <2> QED BY <1>a, <1>2, <2>1 DEF Invite
<1>3. ASSUME NEW x \in RoomNames, Join(c, x) PROVE pkt' \in [Clients -> Packets]
  <2>1. Packet(c, x) \in Packets
    BY PacketType
  <2> QED BY <1>a, <1>3, <2>1 DEF Join
<1>4. ASSUME Accept(c) PROVE pkt' \in [Clients -> Packets]
  BY <1>a, <1>4 DEF Accept
<1>5. ASSUME Vanish(c) PROVE pkt' \in [Clients -> Packets]
  BY <1>a, <1>5 DEF Vanish
<1>6. ASSUME ReadReply(c) PROVE pkt' \in [Clients -> Packets]
  BY <1>a, <1>6 DEF ReadReply
<1>7. ASSUME Leave(c) PROVE pkt' \in [Clients -> Packets]
  BY <1>a, <1>b, <1>7 DEF Leave
<1>8. ASSUME Chat(c) PROVE pkt' \in [Clients -> Packets]
  BY <1>a, <1>8 DEF Chat
<1>9. ASSUME Exit(c) PROVE pkt' \in [Clients -> Packets]
  BY <1>a, <1>b, <1>9 DEF Exit, exit_client
<1>10. ASSUME ExitNotLoggedIn(c) PROVE pkt' \in [Clients -> Packets]
  BY <1>a, <1>10 DEF ExitNotLoggedIn
<1>11. ASSUME Reset(c) PROVE pkt' \in [Clients -> Packets]
  BY <1>a, <1>b, <1>11 DEF Reset, exit_client
<1>12. ASSUME LoginSock(c) PROVE pkt' \in [Clients -> Packets]
  BY <1>a, <1>12 DEF LoginSock
<1>13. ASSUME LoginRoom(c) PROVE pkt' \in [Clients -> Packets]
  BY <1>a, <1>13 DEF LoginRoom
<1>14. ASSUME LoginAck(c) PROVE pkt' \in [Clients -> Packets]
  BY <1>a, <1>14 DEF LoginAck, Reply
<1>15. ASSUME LoginNotice(c) PROVE pkt' \in [Clients -> Packets]
  BY <1>a, <1>b, <1>15 DEF LoginNotice, Announce, Return
<1>16. ASSUME JoinID(c) PROVE pkt' \in [Clients -> Packets]
  BY <1>a, <1>16 DEF JoinID
<1>17. ASSUME JoinLoad(c) PROVE pkt' \in [Clients -> Packets]
  BY <1>a, <1>17 DEF JoinLoad
<1>18. ASSUME JoinStore(c) PROVE pkt' \in [Clients -> Packets]
  BY <1>a, <1>18 DEF JoinStore
<1>19. ASSUME JoinInsert(c) PROVE pkt' \in [Clients -> Packets]
  BY <1>a, <1>19 DEF JoinInsert
<1>20. ASSUME JoinFind(c) PROVE pkt' \in [Clients -> Packets]
  BY <1>a, <1>20 DEF JoinFind
<1>21. ASSUME JoinRemove(c) PROVE pkt' \in [Clients -> Packets]
  BY <1>a, <1>b, <1>21 DEF JoinRemove, Return
<1>22. ASSUME JoinAdd(c) PROVE pkt' \in [Clients -> Packets]
  BY <1>a, <1>22 DEF JoinAdd
<1>23. ASSUME JoinAck(c) PROVE pkt' \in [Clients -> Packets]
  BY <1>a, <1>23 DEF JoinAck, Reply
<1>24. ASSUME JoinLeft(c) PROVE pkt' \in [Clients -> Packets]
  BY <1>a, <1>24 DEF JoinLeft, Announce
<1>25. ASSUME JoinJoined(c) PROVE pkt' \in [Clients -> Packets]
  BY <1>a, <1>b, <1>25 DEF JoinJoined, Announce, Return
<1>26. ASSUME LeaveAdd(c) PROVE pkt' \in [Clients -> Packets]
  BY <1>a, <1>26 DEF LeaveAdd
<1>27. ASSUME LeaveLeft(c) PROVE pkt' \in [Clients -> Packets]
  BY <1>a, <1>27 DEF LeaveLeft, Announce
<1>28. ASSUME LeaveAck(c) PROVE pkt' \in [Clients -> Packets]
  BY <1>a, <1>28 DEF LeaveAck, Reply
<1>29. ASSUME LeaveJoined(c) PROVE pkt' \in [Clients -> Packets]
  BY <1>a, <1>b, <1>29 DEF LeaveJoined, Announce, Return
<1>30. ASSUME InviteSend(c) PROVE pkt' \in [Clients -> Packets]
  BY <1>a, <1>b, <1>30 DEF InviteSend, Return
<1>31. ASSUME ExitNotice(c) PROVE pkt' \in [Clients -> Packets]
  BY <1>a, <1>31 DEF ExitNotice, Announce
<1>32. ASSUME ExitClose(c) PROVE pkt' \in [Clients -> Packets]
  BY <1>a, <1>32 DEF ExitClose
<1>33. ASSUME ExitRoom(c) PROVE pkt' \in [Clients -> Packets]
  BY <1>a, <1>33 DEF ExitRoom
<1>34. ASSUME ExitActive(c) PROVE pkt' \in [Clients -> Packets]
  BY <1>a, <1>b, <1>34 DEF ExitActive
<1> QED
  BY <1>1, <1>2, <1>3, <1>4, <1>5, <1>6, <1>7, <1>8, <1>9, <1>10, <1>11, <1>12, <1>13,
       <1>14, <1>15, <1>16, <1>17, <1>18, <1>19, <1>20, <1>21, <1>22, <1>23, <1>24,
       <1>25, <1>26, <1>27, <1>28, <1>29, <1>30, <1>31, <1>32, <1>33, <1>34
  DEF Step, Request, Handler

\* Every step keeps the types.
LEMMA TypeOKStep ==
    ASSUME TypeInv, NEW c \in Clients, Step(c)
    PROVE  TypeOK'
<1>a. TypeOK /\ numRooms \in Nat /\ numRooms > DEFAULT_ROOM /\ LocalOK(c)
  BY DEF TypeInv, TypeOK
<1>b. pc' \in [Clients -> Labels] /\ pkt' \in [Clients -> Packets]
  BY <1>a, PcStep, PktStep
<1> USE <1>a, <1>b, NullFacts
<1> USE DEF TypeOK, Faults, NoSend, Sends, 
            Running, Goto, Quiet, NoFault, conns, locals, client, users
<1>1. ASSUME NEW n \in Names, Login(c, n) PROVE TypeOK'
  <2>1. CASE Online(n)
    BY <1>1, <2>1 DEF Login, Fault
  <2>2. CASE ~Online(n)
    <3>1. active' = active \cup {n} /\ session' = [session EXCEPT ![c] = n]
      BY <1>1, <2>2 DEF Login
    <3>2. active' \subseteq Names
      BY <3>1
    <3>3. session' \in [Clients -> Names \cup {NULL}]
      BY <3>1
    <3> QED BY <1>1, <2>2, <3>2, <3>3 DEF Login
  <2> QED BY <2>1, <2>2
<1>2. ASSUME NEW n \in Names, Invite(c, n) PROVE TypeOK'
  BY <1>2 DEF Invite, Ready, LoggedIn
<1>3. ASSUME NEW x \in RoomNames, Join(c, x) PROVE TypeOK'
  BY <1>3 DEF Join, Ready, LoggedIn
<1>4. ASSUME Accept(c) PROVE TypeOK'
  BY <1>4 DEF Accept
<1>5. ASSUME Vanish(c) PROVE TypeOK'
  BY <1>5 DEF Vanish
<1>6. ASSUME ReadReply(c) PROVE TypeOK'
  BY <1>6 DEF ReadReply
<1>7. ASSUME Leave(c) PROVE TypeOK'
  <2>1. members' \in [RoomIDs -> [Names -> Nat]]
    BY <1>7, ListTypes DEF Leave
  <2> QED BY <1>7, <2>1 DEF Leave
<1>8. ASSUME Chat(c) PROVE TypeOK'
  BY ListenersType, <1>8 DEF Chat, Ready, LoggedIn, send_message
<1>9. ASSUME Exit(c) PROVE TypeOK'
  BY <1>9 DEF Exit
<1>10. ASSUME ExitNotLoggedIn(c) PROVE TypeOK'
  BY <1>10 DEF ExitNotLoggedIn, Ready, LoggedIn
<1>11. ASSUME Reset(c) PROVE TypeOK'
  BY <1>11 DEF Reset
<1>12. ASSUME LoginSock(c) PROVE TypeOK'
  BY <1>12 DEF LoginSock, LocalOK, LoginSteps
<1>13. ASSUME LoginRoom(c) PROVE TypeOK'
  BY ListTypes, <1>13 DEF LoginRoom, LocalOK, LoginSteps
<1>14. ASSUME LoginAck(c) PROVE TypeOK'
  BY <1>14 DEF LoginAck, Reply, LocalOK
<1>15. ASSUME LoginNotice(c) PROVE TypeOK'
  BY ListenersType, <1>15 DEF LoginNotice, Announce, send_message, Return
<1>16. ASSUME JoinID(c) PROVE TypeOK'
  BY ConstantsAssumption, <1>16 DEF JoinID, RoomIDs, DEFAULT_ROOM
<1>17. ASSUME JoinLoad(c) PROVE TypeOK'
  BY <1>17 DEF JoinLoad
<1>18. ASSUME JoinStore(c) PROVE TypeOK'
  BY <1>18 DEF JoinStore, LocalOK
<1>19. ASSUME JoinInsert(c) PROVE TypeOK'
  BY RoomsGrow, <1>19 DEF JoinInsert, LocalOK, JoinSteps, UserSteps
<1>20. ASSUME JoinFind(c) PROVE TypeOK'
  BY LookupByName, <1>20 DEF JoinFind, Rget_roomFNAME
<1>21. ASSUME JoinRemove(c) PROVE TypeOK'
  <2>2. members' \in [RoomIDs -> [Names -> Nat]]
    BY <1>21, ListTypes DEF JoinRemove
  <2>3. newRoom' \in [Clients -> RoomIDs \cup {NULL}] /\ load' = load
    BY <1>21 DEF JoinRemove, Return
  <2>4. fault' \in Faults
    BY <1>21 DEF JoinRemove, Fault
  <2> QED BY <1>21, <2>2, <2>3, <2>4 DEF JoinRemove
<1>22. ASSUME JoinAdd(c) PROVE TypeOK'
  <2>1. CASE newRoom[c] = NULL
    BY <1>22, <2>1 DEF JoinAdd, Fault
  <2>2. CASE newRoom[c] # NULL
    <3>1. members' \in [RoomIDs -> [Names -> Nat]]
      BY <1>22, <2>2, ListTypes DEF JoinAdd
    <3>2. roomID' \in [Names -> RoomIDs \cup {NULL}]
      BY <1>22, <2>2 DEF JoinAdd
    <3> QED BY <1>22, <2>2, <3>1, <3>2 DEF JoinAdd
  <2> QED BY <2>1, <2>2
<1>23. ASSUME JoinAck(c) PROVE TypeOK'
  BY <1>23 DEF JoinAck, Reply, LocalOK, JoinSteps, UserSteps
<1>24. ASSUME JoinLeft(c) PROVE TypeOK'
  BY ListenersType, <1>24 DEF JoinLeft, Announce, send_message, Packets
<1>25. ASSUME JoinJoined(c) PROVE TypeOK'
  BY ListenersType, <1>25 DEF JoinJoined, Announce, send_message, Return, LocalOK, UserSteps
<1>26. ASSUME LeaveAdd(c) PROVE TypeOK'
  BY ListTypes, <1>26 DEF LeaveAdd, LocalOK, UserSteps
<1>27. ASSUME LeaveLeft(c) PROVE TypeOK'
  BY ListenersType, <1>27 DEF LeaveLeft, Announce, send_message, Packets
<1>28. ASSUME LeaveAck(c) PROVE TypeOK'
  BY <1>28 DEF LeaveAck, Reply
<1>29. ASSUME LeaveJoined(c) PROVE TypeOK'
  BY ListenersType, <1>29 DEF LeaveJoined, Announce, send_message, Return
<1>30. ASSUME InviteSend(c) PROVE TypeOK'
  BY <1>30 DEF InviteSend, Return, LocalOK
<1>31. ASSUME ExitNotice(c) PROVE TypeOK'
  BY ListenersType, <1>31 DEF ExitNotice, Announce, send_message, LocalOK, UserSteps
<1>32. ASSUME ExitClose(c) PROVE TypeOK'
  BY <1>32 DEF ExitClose, LocalOK, UserSteps
<1>33. ASSUME ExitRoom(c) PROVE TypeOK'
  BY ListTypes, <1>33 DEF ExitRoom
<1>34. ASSUME ExitActive(c) PROVE TypeOK'
  BY <1>34 DEF ExitActive
<1> QED
  BY <1>1, <1>2, <1>3, <1>4, <1>5, <1>6, <1>7, <1>8, <1>9, <1>10, <1>11, <1>12, <1>13,
       <1>14, <1>15, <1>16, <1>17, <1>18, <1>19, <1>20, <1>21, <1>22, <1>23, <1>24,
       <1>25, <1>26, <1>27, <1>28, <1>29, <1>30, <1>31, <1>32, <1>33, <1>34
  DEF Step, Request, Handler

\* Every step keeps what the locals of its thread and the counter are known to hold.
LEMMA LocalStep ==
    ASSUME TypeInv, NEW c \in Clients, Step(c)
    PROVE  numRooms' > DEFAULT_ROOM /\ LocalOK(c)'
<1>a. TypeOK /\ numRooms \in Nat /\ numRooms > DEFAULT_ROOM /\ LocalOK(c)
  BY DEF TypeInv, TypeOK
<1> USE <1>a, NullFacts
<1> USE DEF TypeOK, LocalOK, LoginSteps, JoinSteps, UserSteps, NoPkt, 
            Running, Goto, Quiet, NoFault, conns, locals, client, users
<1>1. ASSUME NEW n \in Names, Login(c, n) PROVE (numRooms' > DEFAULT_ROOM /\ LocalOK(c)')
  BY <1>1 DEF Login, Ready, LoggedIn, Fault, Online
<1>2. ASSUME NEW n \in Names, Invite(c, n) PROVE (numRooms' > DEFAULT_ROOM /\ LocalOK(c)')
  BY <1>2 DEF Invite, Ready, LoggedIn, Packet, Online
<1>3. ASSUME NEW x \in RoomNames, Join(c, x) PROVE (numRooms' > DEFAULT_ROOM /\ LocalOK(c)')
  BY <1>3 DEF Join, Ready, LoggedIn, Packet
<1>4. ASSUME Accept(c) PROVE (numRooms' > DEFAULT_ROOM /\ LocalOK(c)')
  BY <1>4 DEF Accept
<1>5. ASSUME Vanish(c) PROVE (numRooms' > DEFAULT_ROOM /\ LocalOK(c)')
  BY <1>5 DEF Vanish
<1>6. ASSUME ReadReply(c) PROVE (numRooms' > DEFAULT_ROOM /\ LocalOK(c)')
  BY <1>6 DEF ReadReply
<1>7. ASSUME Leave(c) PROVE (numRooms' > DEFAULT_ROOM /\ LocalOK(c)')
  BY <1>7 DEF Leave, Ready, LoggedIn, Packet, InList
<1>8. ASSUME Chat(c) PROVE (numRooms' > DEFAULT_ROOM /\ LocalOK(c)')
  BY <1>8 DEF Chat, Ready, LoggedIn, send_message
<1>9. ASSUME Exit(c) PROVE (numRooms' > DEFAULT_ROOM /\ LocalOK(c)')
  BY <1>9 DEF Exit, Ready, LoggedIn, exit_client, Packet, Online
<1>10. ASSUME ExitNotLoggedIn(c) PROVE (numRooms' > DEFAULT_ROOM /\ LocalOK(c)')
  BY <1>10 DEF ExitNotLoggedIn, Ready, LoggedIn
<1>11. ASSUME Reset(c) PROVE (numRooms' > DEFAULT_ROOM /\ LocalOK(c)')
  BY <1>11 DEF Reset, LoggedIn, exit_client, Online
<1>12. ASSUME LoginSock(c) PROVE (numRooms' > DEFAULT_ROOM /\ LocalOK(c)')
  BY <1>12 DEF LoginSock
<1>13. ASSUME LoginRoom(c) PROVE (numRooms' > DEFAULT_ROOM /\ LocalOK(c)')
  BY <1>13 DEF LoginRoom
<1>14. ASSUME LoginAck(c) PROVE (numRooms' > DEFAULT_ROOM /\ LocalOK(c)')
  BY <1>14 DEF LoginAck, Reply
<1>15. ASSUME LoginNotice(c) PROVE (numRooms' > DEFAULT_ROOM /\ LocalOK(c)')
  BY <1>15 DEF LoginNotice, Announce, send_message, Return
<1>16. ASSUME JoinID(c) PROVE (numRooms' > DEFAULT_ROOM /\ LocalOK(c)')
  BY <1>16 DEF JoinID
<1>17. ASSUME JoinLoad(c) PROVE (numRooms' > DEFAULT_ROOM /\ LocalOK(c)')
  BY <1>17 DEF JoinLoad
<1>18. ASSUME JoinStore(c) PROVE (numRooms' > DEFAULT_ROOM /\ LocalOK(c)')
  BY <1>18 DEF JoinStore
<1>19. ASSUME JoinInsert(c) PROVE (numRooms' > DEFAULT_ROOM /\ LocalOK(c)')
  BY <1>19 DEF JoinInsert
<1>20. ASSUME JoinFind(c) PROVE (numRooms' > DEFAULT_ROOM /\ LocalOK(c)')
  BY <1>20 DEF JoinFind
<1>21. ASSUME JoinRemove(c) PROVE (numRooms' > DEFAULT_ROOM /\ LocalOK(c)')
  BY <1>21 DEF JoinRemove, Return, Fault, InList
<1>22. ASSUME JoinAdd(c) PROVE (numRooms' > DEFAULT_ROOM /\ LocalOK(c)')
  BY <1>22 DEF JoinAdd, Fault
<1>23. ASSUME JoinAck(c) PROVE (numRooms' > DEFAULT_ROOM /\ LocalOK(c)')
  BY <1>23 DEF JoinAck, Reply
<1>24. ASSUME JoinLeft(c) PROVE (numRooms' > DEFAULT_ROOM /\ LocalOK(c)')
  BY <1>24 DEF JoinLeft, Announce, send_message
<1>25. ASSUME JoinJoined(c) PROVE (numRooms' > DEFAULT_ROOM /\ LocalOK(c)')
  BY <1>25 DEF JoinJoined, Announce, send_message, Return
<1>26. ASSUME LeaveAdd(c) PROVE (numRooms' > DEFAULT_ROOM /\ LocalOK(c)')
  BY <1>26 DEF LeaveAdd
<1>27. ASSUME LeaveLeft(c) PROVE (numRooms' > DEFAULT_ROOM /\ LocalOK(c)')
  BY <1>27 DEF LeaveLeft, Announce, send_message
<1>28. ASSUME LeaveAck(c) PROVE (numRooms' > DEFAULT_ROOM /\ LocalOK(c)')
  BY <1>28 DEF LeaveAck, Reply
<1>29. ASSUME LeaveJoined(c) PROVE (numRooms' > DEFAULT_ROOM /\ LocalOK(c)')
  BY <1>29 DEF LeaveJoined, Announce, send_message, Return
<1>30. ASSUME InviteSend(c) PROVE (numRooms' > DEFAULT_ROOM /\ LocalOK(c)')
  BY <1>30 DEF InviteSend, Return
<1>31. ASSUME ExitNotice(c) PROVE (numRooms' > DEFAULT_ROOM /\ LocalOK(c)')
  BY <1>31 DEF ExitNotice, Announce, send_message
<1>32. ASSUME ExitClose(c) PROVE (numRooms' > DEFAULT_ROOM /\ LocalOK(c)')
  BY <1>32 DEF ExitClose
<1>33. ASSUME ExitRoom(c) PROVE (numRooms' > DEFAULT_ROOM /\ LocalOK(c)')
  BY <1>33 DEF ExitRoom
<1>34. ASSUME ExitActive(c) PROVE (numRooms' > DEFAULT_ROOM /\ LocalOK(c)')
  BY <1>34 DEF ExitActive
<1> QED
  BY <1>1, <1>2, <1>3, <1>4, <1>5, <1>6, <1>7, <1>8, <1>9, <1>10, <1>11, <1>12, <1>13,
       <1>14, <1>15, <1>16, <1>17, <1>18, <1>19, <1>20, <1>21, <1>22, <1>23, <1>24,
       <1>25, <1>26, <1>27, <1>28, <1>29, <1>30, <1>31, <1>32, <1>33, <1>34
  DEF Step, Request, Handler

\* Every step of every thread keeps the strengthened types.
LEMMA TypeStep == TypeInv /\ [Next]_vars => TypeInv'
<1> SUFFICES ASSUME TypeInv, [Next]_vars PROVE TypeInv'
  OBVIOUS
<1>1. ASSUME NEW c \in Clients, Step(c) PROVE TypeInv'
  <2>1. TypeOK' /\ numRooms' > DEFAULT_ROOM /\ LocalOK(c)'
    BY <1>1, TypeOKStep, LocalStep
  <2>2. ASSUME NEW d \in Clients, d # c PROVE LocalOK(d)'
    BY <1>1, <2>2, ThreadsOwnTheirLocals DEF OthersKeep, TypeInv, LocalOK
  <2> QED BY <2>1, <2>2 DEF TypeInv
<1>2. CASE UNCHANGED vars
  BY <1>2 DEF TypeInv, TypeOK, LocalOK, vars, conns, locals, client, users
<1> QED BY <1>1, <1>2 DEF Next

\* Type correctness: at every step of every interleaving the lists, records, counters
\* and packets hold what their declarations say (TypeOK).
THEOREM TypeCorrect == Spec => []TypeOK
<1>1. Spec => []TypeInv
  BY TypeInit, TypeStep, PTL DEF Spec
<1> QED
  BY <1>1, PTL DEF TypeInv

=============================================================================
