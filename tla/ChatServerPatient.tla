------------------------- MODULE ChatServerPatient -------------------------
(***************************************************************************)
(* The room core with clients that wait: nobody vanishes, and every reply  *)
(* is read before the next command is sent.  Then a packet tells the truth *)
(* about its user, for every set of connections, users and descriptors,    *)
(* and memory is safe but for the two insertions whose refusal is ignored. *)
(***************************************************************************)
EXTENDS ChatServerMessages

Patient == MaxBehind = 0 /\ ~Crashes

EarlyJoin == JoinSteps \ UserSteps

\* join works with the truth about its user.
Truthful(c) ==
    pc[c] \in EarlyJoin => pkt[c].user = session[c] /\ pkt[c].room = roomID[session[c]]

PInv ==
    /\ gone = {}
    /\ EndedSessionIsRemoved
    /\ SpeakerIsMember
    /\ \A c \in Clients : Truthful(c)

-----------------------------------------------------------------------------
(* What waiting gives. *)

\* A client that may send a command knows its room, and the server has it online.
LEMMA ReadyKnows ==
    ASSUME Patient, TypeInv, IInv, MInv, NEW c \in Clients, Ready(c), LoggedIn(c),
           NEW x
    PROVE  /\ Packet(c, x).user = session[c] /\ Packet(c, x).room = roomID[session[c]]
           /\ view[c] = roomID[session[c]] /\ view[c] # NULL
           /\ Online(session[c]) /\ session[c] \in Names
           /\ members[view[c]][session[c]] > 0
<1>a. /\ told[c] \in Seq(RoomIDs) /\ session[c] \in Names
      /\ roomID[session[c]] \in RoomIDs /\ NULL \notin RoomIDs /\ pc[c] = "recv"
      /\ members[roomID[session[c]]][session[c]] = 1
  BY NullFacts DEF TypeInv, TypeOK, IInv, UserNodes, LoggedIn, Ready, Running, Limbo
<1>1. told[c] = <<>>
  <2>1. Len(told[c]) = 0
    BY <1>a, LenProperties DEF Ready, Patient
  <2>2. told[c] # <<>> => Len(told[c]) \in Nat \ {0}
    BY <1>a, EmptySeq, Zenon
  <2> QED BY <2>1, <2>2
<1>2. view[c] = roomID[session[c]]
  BY <1>a, <1>1 DEF MInv, Knows, Answered, Learned
<1>3. session[c] \in active
  BY <1>a DEF IInv, OneSessionPerUser, Online
<1> QED BY <1>a, <1>2, <1>3 DEF Packet, Online

\* No step makes a client vanish, so none sees a reset.
LEMMA NobodyGone ==
    ASSUME Patient, gone = {}, NEW c \in Clients, Step(c)
    PROVE  gone' = {} /\ ~Reset(c) /\ ~Vanish(c)
BY DEF Patient, Reset, Vanish, Step, Request, Handler, conns, Announce, Reply, Login, Invite, Join,
       Accept, ReadReply, Leave, Chat, Exit, ExitNotLoggedIn, LoginSock, LoginRoom,
       LoginAck, LoginNotice, JoinID, JoinLoad, JoinStore, JoinInsert, JoinFind, JoinRemove,
       JoinAdd, JoinAck, JoinLeft, JoinJoined, LeaveAdd, LeaveLeft, LeaveAck, LeaveJoined,
       InviteSend, ExitNotice, ExitClose, ExitRoom, ExitActive

\* A step does not end the thread of a session, nor lie about its user.
LEMMA OwnTruth ==
    ASSUME Patient, TypeInv, IInv, MInv, PInv, NEW c \in Clients, Step(c)
    PROVE  (pc'[c] = "done" => session'[c] = NULL) /\ Truthful(c)'
<1> DEFINE Goal == (pc'[c] = "done" => session'[c] = NULL) /\ Truthful(c)'
<1>a. /\ pc \in [Clients -> Labels] /\ session \in [Clients -> Names \cup {NULL}]
      /\ pkt \in [Clients -> Packets] /\ Truthful(c)
      /\ pc[c] = "done" => session[c] = NULL
      /\ roomID \in [Names -> RoomIDs \cup {NULL}]
  BY DEF TypeInv, TypeOK, PInv, EndedSessionIsRemoved, LoggedIn
<1> USE <1>a DEF Truthful, EarlyJoin, JoinSteps, UserSteps, Goto, Running, Ready, Return,
                 conns, locals, client, users
<1>1. ASSUME NEW n \in Names, Login(c, n) \/ Invite(c, n) PROVE Goal
  BY <1>1 DEF Login, Invite
<1>2. ASSUME NEW x \in RoomNames, Join(c, x) PROVE Goal
  <2>1. Ready(c) /\ LoggedIn(c)
    BY <1>2 DEF Join
  <2>2. Packet(c, x).user = session[c] /\ Packet(c, x).room = roomID[session[c]]
    BY <2>1, ReadyKnows
  <2>3. /\ pkt'[c] = Packet(c, x) /\ session' = session /\ roomID' = roomID
        /\ pc'[c] \in {"join_id", "join_find"}
    BY <1>2 DEF Join
  <2> QED BY <2>2, <2>3
<1>3. ASSUME Accept(c) \/ ReadReply(c) \/ Chat(c) PROVE Goal
  <2>1. /\ session' = session /\ roomID' = roomID /\ pkt' = pkt
        /\ pc' = pc \/ pc'[c] = "recv"
    BY <1>3 DEF Accept, ReadReply, Chat
  <2> QED BY <2>1
<1>14. ASSUME Leave(c) PROVE Goal
  <2>1. pc'[c] \in {"recv", "leave_add"}
    BY <1>14 DEF Leave
  <2> QED BY <2>1
<1>4. ASSUME Exit(c) PROVE Goal
  <2>1. Ready(c) /\ LoggedIn(c)
    BY <1>4 DEF Exit
  <2>2. Online(Packet(c, NULL).user)
    BY <2>1, ReadyKnows
  <2> QED BY <1>4, <2>2 DEF Exit, exit_client
<1>5. ASSUME ExitNotLoggedIn(c) PROVE Goal
  BY <1>5 DEF ExitNotLoggedIn, LoggedIn
<1>6. ASSUME LoginSock(c) \/ LoginRoom(c) \/ LoginAck(c) \/ LoginNotice(c) PROVE Goal
  BY <1>6 DEF LoginSock, LoginRoom, LoginAck, LoginNotice, Announce, Reply
<1>7. ASSUME JoinID(c) \/ JoinLoad(c) \/ JoinStore(c) \/ JoinInsert(c) \/ JoinFind(c) PROVE Goal
  <2>1. /\ session' = session /\ roomID' = roomID /\ pkt' = pkt
        /\ pc[c] \in EarlyJoin /\ pc'[c] \in EarlyJoin
    BY <1>7 DEF JoinID, JoinLoad, JoinStore, JoinInsert, JoinFind
  <2> QED BY <2>1
<1>8. ASSUME JoinRemove(c) PROVE Goal
  <2>1. /\ session' = session /\ roomID' = roomID
        /\ UNCHANGED <<pc, pkt>> \/ pc'[c] \in {"recv", "join_add"}
    BY <1>8 DEF JoinRemove
  <2> QED BY <2>1
<1>9. ASSUME JoinAdd(c) \/ JoinAck(c) \/ JoinLeft(c) \/ JoinJoined(c) PROVE Goal
  BY <1>9 DEF JoinAdd, JoinAck, JoinLeft, JoinJoined, Announce, Reply
<1>10. ASSUME LeaveAdd(c) \/ LeaveLeft(c) \/ LeaveAck(c) \/ LeaveJoined(c) PROVE Goal
  BY <1>10 DEF LeaveAdd, LeaveLeft, LeaveAck, LeaveJoined, Announce, Reply
<1>11. ASSUME InviteSend(c) \/ ExitNotice(c) \/ ExitClose(c) \/ ExitRoom(c) \/ ExitActive(c)
       PROVE  Goal
  BY <1>11 DEF InviteSend, ExitNotice, ExitClose, ExitRoom, ExitActive, Announce
<1>12. ~Reset(c) /\ ~Vanish(c)
  BY NobodyGone DEF PInv
<1> HIDE DEF Goal
<1>13. Goal
  BY <1>1, <1>2, <1>3, <1>4, <1>5, <1>6, <1>7, <1>8, <1>9, <1>10, <1>11, <1>12, <1>14
  DEF Step, Request, Handler
<1> QED BY <1>13 DEF Goal

\* Who speaks is a member of the room he speaks in.
LEMMA SpeakerStep ==
    ASSUME Patient, TypeInv, IInv, MInv, NEW c \in Clients, Step(c)
    PROVE  SpeakerIsMember'
<1>1. CASE sent' = NoSend
  BY <1>1 DEF SpeakerIsMember, NoSend
<1>2. CASE InviteSend(c)
  BY <1>2 DEF SpeakerIsMember, InviteSend
<1>3. CASE Chat(c)
  <2>1. Ready(c) /\ LoggedIn(c) /\ sent'.re = view[c] /\ sent'.by = c
    BY <1>3 DEF Chat, send_message
  <2>2. members[view[c]][session[c]] > 0
    BY <2>1, ReadyKnows
  <2>3. members' = members /\ session' = session
    BY <1>3 DEF Chat, users
  <2> QED BY <2>1, <2>2, <2>3 DEF SpeakerIsMember
<1>4. CASE ~Chat(c) /\ sent'.kind = "notice"
  BY <1>4 DEF SpeakerIsMember
<1>5. sent' = NoSend \/ InviteSend(c) \/ Chat(c) \/ sent'.kind = "notice"
  BY DEF Step, Request, Handler, Quiet, Reply, Login, Invite, Join, Accept, Vanish, ReadReply,
       Leave, Exit, ExitNotLoggedIn, Reset, LoginSock, LoginRoom, LoginAck, LoginNotice, JoinID,
       JoinLoad, JoinStore, JoinInsert, JoinFind, JoinRemove, JoinAdd, JoinAck, JoinLeft,
       JoinJoined, LeaveAdd, LeaveLeft, LeaveAck, LeaveJoined, ExitNotice, ExitClose, ExitRoom,
       ExitActive, Announce, send_message
<1> QED BY <1>1, <1>2, <1>3, <1>4, <1>5

\* A step keeps PInv.
LEMMA PatientStep ==
    ASSUME Patient
    PROVE  TypeInv /\ IInv /\ MInv /\ PInv /\ [Next]_vars => PInv'
<1> SUFFICES ASSUME TypeInv, IInv, MInv, PInv, [Next]_vars PROVE PInv'
  OBVIOUS
<1>1. ASSUME NEW c \in Clients, Step(c) PROVE PInv'
  <2>1. gone' = {} /\ SpeakerIsMember'
    BY <1>1, NobodyGone, SpeakerStep DEF PInv
  <2>2. (pc'[c] = "done" => session'[c] = NULL) /\ Truthful(c)'
    BY <1>1, OwnTruth
  <2>3. ASSUME NEW d \in Clients \ {c}
        PROVE  (pc'[d] = "done" => session'[d] = NULL) /\ Truthful(d)'
    <3>1. pc'[d] = pc[d] /\ pkt'[d] = pkt[d] /\ session'[d] = session[d]
      BY <1>1, ThreadsOwnTheirLocals DEF OthersKeep, TypeInv
    <3>2. session[d] \in Names => roomID'[session[d]] = roomID[session[d]]
      <4>1. session[d] \in Names => session[d] # session[c]
        BY NullFacts DEF IInv, OneSessionPerUser, LoggedIn
      <4> QED BY <1>1, <4>1, ThreadsMoveTheirUser DEF OthersStay
    <3>3. pc[d] \in EarlyJoin => session[d] \in Names
      BY DEF TypeInv, LocalOK, EarlyJoin
    <3> QED BY <3>1, <3>2, <3>3 DEF PInv, EndedSessionIsRemoved, LoggedIn, Truthful
  <2>4. EndedSessionIsRemoved'
    BY <2>2, <2>3 DEF EndedSessionIsRemoved, LoggedIn
  <2> QED BY <2>1, <2>2, <2>3, <2>4 DEF PInv
<1>2. CASE UNCHANGED vars
  BY <1>2 DEF vars, conns, locals, users, PInv, EndedSessionIsRemoved, LoggedIn, SpeakerIsMember,
              Truthful
<1> QED BY <1>1, <1>2 DEF Next

\* Initially no thread runs.
LEMMA PatientInit == Init => PInv
BY DEF Init, PInv, EndedSessionIsRemoved, SpeakerIsMember, NoSend, Truthful, EarlyJoin, JoinSteps

\* Patient clients are told the truth about themselves and tell it.
LEMMA PatientCorrect ==
    ASSUME Patient
    PROVE  Spec => [](TypeInv /\ IInv /\ MInv /\ PInv)
<1>1. Init => TypeInv /\ IInv /\ MInv /\ PInv
  BY TypeInit, RoomsInit, MessagesInit, PatientInit
<1>2. TypeInv /\ IInv /\ MInv /\ PInv /\ [Next]_vars => (TypeInv /\ IInv /\ MInv /\ PInv)'
  BY TypeStep, RoomsStep, MessagesStep, PatientStep
<1> QED BY <1>1, <1>2, PTL DEF Spec

\* Whoever speaks in a room is a member of it: send_message trusts the room of the packet, and
\* with clients that wait for their replies the packet is right.
THEOREM SpeakersAreMembers ==
    ASSUME Patient
    PROVE  Spec => []SpeakerIsMember
<1>1. PInv => SpeakerIsMember
  BY DEF PInv
<1> QED BY <1>1, PatientCorrect, PTL

\* A thread ends only when its user is off the lists: with clients that wait and leave by
\* EXIT, exit_client always finds the user its packet names.
THEOREM EndedSessionsAreRemoved ==
    ASSUME Patient
    PROVE  Spec => []EndedSessionIsRemoved
<1>1. PInv => EndedSessionIsRemoved
  BY DEF PInv
<1> QED BY <1>1, PatientCorrect, PTL

-----------------------------------------------------------------------------
(* Refused rooms. *)

\* There is a room besides the lobby that is not the one the thread of c wants.
Another(c) == \E r \in RoomIDs : rooms[r] \notin {NULL, LobbyName, pkt[c].arg}

\* What join has found out about the wanted room by the time it gets to a label.
Finds(c) ==
    /\ pc[c] \in {"join_id", "join_load", "join_store", "join_insert"} => pkt[c].arg # LobbyName
    /\ pc[c] \in {"join_load", "join_store", "join_insert"} => newRoom[c] > DEFAULT_ROOM
    /\ pc[c] = "join_find" => Another(c) \/ \E r \in RoomIDs : rooms[r] = pkt[c].arg
    /\ pc[c] \in {"join_remove", "join_add"} => Another(c) \/ newRoom[c] # NULL

SInv ==
    /\ OnlyRefusalsFault
    /\ \A r \in RoomIDs : rooms[r] = LobbyName <=> r = DEFAULT_ROOM
    /\ \A c \in Clients : Finds(c)

\* A creator leaves a room of the wanted name behind, his own or that of a creator who came
\* first, unless the number he was given belongs to another new room.
LEMMA RoomIsThere ==
    ASSUME TypeInv, SInv, NEW c \in Clients, JoinInsert(c)
    PROVE  Another(c)' \/ \E r \in RoomIDs : rooms'[r] = pkt[c].arg
<1>1. /\ pkt[c].arg \in RoomNames \ {LobbyName} /\ newRoom[c] \in RoomIDs
      /\ newRoom[c] # DEFAULT_ROOM /\ rooms' = insertRoom(newRoom[c], pkt[c].arg)
      /\ rooms \in [RoomIDs -> RoomNames \cup {NULL}] /\ pkt' = pkt
  BY NullFacts DEF JoinInsert, Running, SInv, Finds, TypeInv, TypeOK, LocalOK, JoinSteps, locals
<1>2. CASE rooms[newRoom[c]] = NULL /\ \A r \in RoomIDs : rooms[r] # pkt[c].arg
  BY <1>1, <1>2 DEF insertRoom
<1>3. CASE \E r \in RoomIDs : rooms[r] = pkt[c].arg
  BY <1>1, <1>3 DEF insertRoom
<1>4. CASE rooms[newRoom[c]] # NULL
  <2>1. rooms[newRoom[c]] \notin {NULL, LobbyName} /\ rooms' = rooms
    BY <1>1, <1>4 DEF SInv, insertRoom
  <2> QED BY <1>1, <2>1 DEF Another
<1> QED BY <1>2, <1>3, <1>4

\* Another room stays another room.
LEMMA AnotherStays ==
    ASSUME TypeInv, NEW c \in Clients, Step(c), NEW d \in Clients, Another(d), pkt'[d].arg = pkt[d].arg
    PROVE  Another(d)'
<1>1. PICK r \in RoomIDs : rooms[r] \notin {NULL, LobbyName, pkt[d].arg}
  BY DEF Another
<1>2. rooms'[r] = rooms[r]
  BY <1>1, RoomsStay
<1> QED BY <1>1, <1>2 DEF Another

\* join finds its room, or another is in the way.
LEMMA OwnFinds ==
    ASSUME TypeInv, SInv, NEW c \in Clients, Step(c)
    PROVE  Finds(c)'
<1>a. /\ pc \in [Clients -> Labels] /\ pkt \in [Clients -> Packets] /\ Finds(c) /\ LocalOK(c)
      /\ newRoom \in [Clients -> RoomIDs \cup {NULL}] /\ numRooms > DEFAULT_ROOM
      /\ NULL \notin RoomIDs
  BY NullFacts DEF TypeInv, TypeOK, SInv
<1>b. \A x : IF Rget_ID(x) = NULL THEN \A r \in RoomIDs : rooms[r] # x
             ELSE Rget_ID(x) \in RoomIDs /\ rooms[Rget_ID(x)] = x
  BY <1>a DEF Rget_ID
<1> USE <1>a DEF Finds, Goto, Running, Ready, Return, conns, locals
<1>1. ASSUME NEW n \in Names, Login(c, n) \/ Invite(c, n) PROVE Finds(c)'
  BY <1>1 DEF Login, Invite
<1>2. ASSUME NEW x \in RoomNames, Join(c, x) PROVE Finds(c)'
  <2>1. pkt'[c] = Packet(c, x) /\ Packet(c, x).arg = x /\ rooms' = rooms
    BY <1>2 DEF Join, Packet
  <2>2. CASE Rget_ID(x) = NULL
    <3>1. x # LobbyName
      BY <1>b, <2>2, NullFacts DEF SInv
    <3>2. pc'[c] = "join_id"
      BY <1>2, <2>2 DEF Join
    <3> QED BY <2>1, <3>1, <3>2
  <2>3. CASE Rget_ID(x) # NULL
    <3>1. pc'[c] = "join_find"
      BY <1>2, <2>3 DEF Join
    <3> QED BY <1>b, <2>1, <2>3, <3>1
  <2> QED BY <2>2, <2>3
<1>3. ASSUME Accept(c) \/ Vanish(c) \/ ReadReply(c) \/ Chat(c) \/ ExitNotLoggedIn(c)
      PROVE  Finds(c)'
  <2>1. /\ UNCHANGED <<pkt, newRoom, rooms>>
        /\ pc'[c] \in {pc[c], "recv", "done"}
    BY <1>3 DEF Accept, Vanish, ReadReply, Chat, ExitNotLoggedIn
  <2>2. Another(c) => Another(c)'
    BY <2>1 DEF Another
  <2> QED BY <2>1, <2>2
<1>4. ASSUME Leave(c) PROVE Finds(c)'
  BY <1>4 DEF Leave
<1>5. ASSUME Exit(c) \/ Reset(c) PROVE Finds(c)'
  BY <1>5 DEF Exit, Reset, exit_client
<1>6. ASSUME LoginSock(c) \/ LoginRoom(c) \/ LoginAck(c) \/ LoginNotice(c) PROVE Finds(c)'
  BY <1>6 DEF LoginSock, LoginRoom, LoginAck, LoginNotice, Announce, Reply
<1>7. ASSUME JoinID(c) \/ JoinLoad(c) \/ JoinStore(c) PROVE Finds(c)'
  BY <1>7 DEF JoinID, JoinLoad, JoinStore
<1>8. ASSUME JoinInsert(c) PROVE Finds(c)'
  <2>1. pc'[c] = "join_find" /\ pkt' = pkt
    BY <1>8 DEF JoinInsert
  <2>2. Another(c)' \/ \E r \in RoomIDs : rooms'[r] = pkt'[c].arg
    BY <1>8, <2>1, RoomIsThere
  <2> QED BY <2>1, <2>2
<1>9. ASSUME JoinFind(c) PROVE Finds(c)'
  <2>1. pc'[c] = "join_remove" /\ newRoom'[c] = Rget_ID(pkt[c].arg) /\ pkt' = pkt
    BY <1>9 DEF JoinFind, Rget_roomFNAME
  <2>2. Another(c) \/ \E r \in RoomIDs : rooms[r] = pkt[c].arg
    BY <1>9 DEF JoinFind
  <2>3. Another(c) => Another(c)'
    BY <2>1, AnotherStays
  <2> QED BY <1>b, <2>1, <2>2, <2>3
<1>10. ASSUME JoinRemove(c) PROVE Finds(c)'
  <2>1. /\ pc[c] = "join_remove"
        /\ \/ pkt'[c].arg = pkt[c].arg /\ newRoom'[c] = newRoom[c] /\ pc'[c] \in {"join_remove", "join_add"}
           \/ pc'[c] = "recv"
    BY <1>10 DEF JoinRemove
  <2>2. Another(c) /\ pkt'[c].arg = pkt[c].arg => Another(c)'
    BY AnotherStays
  <2> QED BY <2>1, <2>2
<1>11. ASSUME JoinAdd(c) \/ JoinAck(c) \/ JoinLeft(c) \/ JoinJoined(c) PROVE Finds(c)'
  <2>1. /\ pkt'[c].arg = pkt[c].arg /\ newRoom'[c] = newRoom[c] /\ pc[c] = "join_add" /\ pc'[c] = "join_add"
        \/ pc'[c] \in {"join_ack", "join_left", "join_joined", "recv"}
    BY <1>11 DEF JoinAdd, JoinAck, JoinLeft, JoinJoined, Announce, Reply
  <2>2. Another(c) /\ pkt'[c].arg = pkt[c].arg => Another(c)'
    BY AnotherStays
  <2> QED BY <2>1, <2>2
<1>12. ASSUME LeaveAdd(c) \/ LeaveLeft(c) \/ LeaveAck(c) \/ LeaveJoined(c) PROVE Finds(c)'
  BY <1>12 DEF LeaveAdd, LeaveLeft, LeaveAck, LeaveJoined, Announce, Reply
<1>13. ASSUME InviteSend(c) \/ ExitNotice(c) \/ ExitClose(c) \/ ExitRoom(c) \/ ExitActive(c)
       PROVE  Finds(c)'
  BY <1>13 DEF InviteSend, ExitNotice, ExitClose, ExitRoom, ExitActive, Announce
<1> QED
  BY <1>1, <1>2, <1>3, <1>4, <1>5, <1>6, <1>7, <1>8, <1>9, <1>10, <1>11, <1>12, <1>13
  DEF Step, Request, Handler

\* The three places where a step could fault.
LEMMA FaultStep ==
    ASSUME Patient, TypeInv, IInv, MInv, PInv, SInv, NEW c \in Clients, Step(c)
    PROVE  OnlyRefusalsFault'
<1>a. fault = "none"
  BY DEF Step, Request, Handler, Reply, Announce, Running, Ready, Login, Invite, Join, Accept, Vanish,
       ReadReply, Leave, Chat, Exit, ExitNotLoggedIn, Reset, LoginSock, LoginRoom, LoginAck,
       LoginNotice, JoinID, JoinLoad, JoinStore, JoinInsert, JoinFind, JoinRemove, JoinAdd, JoinAck,
       JoinLeft, JoinJoined, LeaveAdd, LeaveLeft, LeaveAck, LeaveJoined, InviteSend, ExitNotice,
       ExitClose, ExitRoom, ExitActive
<1>1. ASSUME NEW n \in Names, Login(c, n) PROVE OnlyRefusalsFault'
  BY <1>1, <1>a DEF Login, NoFault, Fault, OnlyRefusalsFault
<1>2. ASSUME JoinRemove(c) PROVE fault' = "none"
  <2>1. /\ pc[c] = "join_remove" /\ session[c] \in Names
        /\ pkt[c].user = session[c] /\ pkt[c].room = roomID[session[c]]
    BY <1>2
    DEF JoinRemove, Running, PInv, Truthful, EarlyJoin, JoinSteps, UserSteps, TypeInv, LocalOK
  <2>2. members[roomID[session[c]]][session[c]] = 1 /\ roomID[session[c]] \in RoomIDs
    BY <2>1, NullFacts DEF IInv, UserNodes, Limbo
  <2>3. InList(pkt[c].room, pkt[c].user)
    BY <2>1, <2>2 DEF InList
  <2> QED BY <1>a, <1>2, <2>3 DEF JoinRemove, NoFault
<1>3. ASSUME JoinAdd(c) PROVE OnlyRefusalsFault'
  <2>1. CASE newRoom[c] # NULL
    BY <1>a, <1>3, <2>1 DEF JoinAdd, NoFault, OnlyRefusalsFault
  <2>2. CASE newRoom[c] = NULL
    <3>1. fault' = "joinRoomNull" /\ pc'[c] = "join_add" /\ UNCHANGED <<pkt, newRoom, rooms>>
      BY <1>3, <2>2 DEF JoinAdd, Running, Fault, locals
    <3>2. Another(c)
      BY <1>3, <2>2 DEF JoinAdd, Running, SInv, Finds
    <3> QED BY <2>2, <3>1, <3>2 DEF OnlyRefusalsFault, Another
  <2> QED BY <2>1, <2>2
<1>4. ASSUME \A n \in Names : ~Login(c, n), ~JoinRemove(c), ~JoinAdd(c) PROVE fault' = fault
  BY <1>4 DEF Step, Request, Handler, NoFault, Reply, Announce, Invite, Join, Accept, Vanish,
       ReadReply, Leave, Chat, Exit, ExitNotLoggedIn, Reset, LoginSock, LoginRoom, LoginAck,
       LoginNotice, JoinID, JoinLoad, JoinStore, JoinInsert, JoinFind, JoinAck, JoinLeft,
       JoinJoined, LeaveAdd, LeaveLeft, LeaveAck, LeaveJoined, InviteSend, ExitNotice, ExitClose,
       ExitRoom, ExitActive
<1> QED BY <1>a, <1>1, <1>2, <1>3, <1>4 DEF OnlyRefusalsFault

\* A step keeps SInv.
LEMMA RefusalStep ==
    ASSUME Patient
    PROVE  TypeInv /\ IInv /\ MInv /\ PInv /\ SInv /\ [Next]_vars => SInv'
<1> SUFFICES ASSUME TypeInv, IInv, MInv, PInv, SInv, [Next]_vars PROVE SInv'
  OBVIOUS
<1>1. ASSUME NEW c \in Clients, Step(c) PROVE SInv'
  <2>1. OnlyRefusalsFault' /\ Finds(c)'
    BY <1>1, FaultStep, OwnFinds
  <2>2. \A r \in RoomIDs : rooms'[r] = LobbyName <=> r = DEFAULT_ROOM
    <3>1. CASE rooms' = rooms
      BY <3>1 DEF SInv
    <3>2. ASSUME NEW q \in RoomIDs, NEW x \in RoomNames, rooms[q] = NULL,
                 \A r \in RoomIDs : rooms[r] # x, rooms' = [rooms EXCEPT ![q] = x]
          PROVE  \A r \in RoomIDs : rooms'[r] = LobbyName <=> r = DEFAULT_ROOM
      <4>1. rooms \in [RoomIDs -> RoomNames \cup {NULL}] /\ rooms[DEFAULT_ROOM] = LobbyName
        BY NullFacts DEF SInv, TypeInv, TypeOK
      <4>2. x # LobbyName /\ q # DEFAULT_ROOM
        BY <3>2, <4>1, NullFacts, ConstantsAssumption
      <4> QED BY <3>2, <4>1, <4>2 DEF SInv
    <3> QED BY <1>1, <3>1, <3>2, RoomMove
  <2>3. ASSUME NEW d \in Clients \ {c} PROVE Finds(d)'
    <3>1. pc'[d] = pc[d] /\ pkt'[d] = pkt[d] /\ newRoom'[d] = newRoom[d] /\ Finds(d) /\ LocalOK(d)
      BY <1>1, ThreadsOwnTheirLocals DEF OthersKeep, TypeInv, SInv
    <3>2. \A r \in RoomIDs : rooms[r] # NULL => rooms'[r] = rooms[r]
      BY <1>1, RoomsStay
    <3>3. pc[d] = "join_find" => pkt[d].arg # NULL
      BY <3>1, NullFacts DEF LocalOK, JoinSteps
    <3>4. Another(d) => Another(d)'
      BY <1>1, <3>1, AnotherStays
    <3> QED BY <3>1, <3>2, <3>3, <3>4 DEF Finds
  <2> QED BY <2>1, <2>2, <2>3 DEF SInv
<1>2. CASE UNCHANGED vars
  BY <1>2 DEF vars, locals, SInv, Finds, Another, OnlyRefusalsFault
<1> QED BY <1>1, <1>2 DEF Next

\* With clients that wait for their replies memory is safe in the room core but for two
\* insertions whose refusal is ignored, a second login and a second room of one number:
\* join finds its user in the room the packet names, and the room it wants although any
\* number of clients create it at once.
THEOREM PatientClientsFault ==
    ASSUME Patient
    PROVE  Spec => []OnlyRefusalsFault
<1> DEFINE All == TypeInv /\ IInv /\ MInv /\ PInv /\ SInv
<1>1. Init => All
  <2>1. Init => SInv
    BY NullAssumption, NullFacts, ConstantsAssumption DEF Init, SInv, Finds, OnlyRefusalsFault
  <2> QED BY <2>1, TypeInit, RoomsInit, MessagesInit, PatientInit
<1>2. All /\ [Next]_vars => All'
  BY TypeStep, RoomsStep, MessagesStep, PatientStep, RefusalStep
<1>3. All => OnlyRefusalsFault
  BY DEF SInv
<1> HIDE DEF All
<1> QED BY <1>1, <1>2, <1>3, PTL DEF Spec

=============================================================================
