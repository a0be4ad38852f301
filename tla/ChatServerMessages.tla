------------------------- MODULE ChatServerMessages -------------------------
(***************************************************************************)
(* Whom packets reach, and what clients learn from their replies, for      *)
(* every set of connections, users, room names and descriptors.            *)
(*                                                                         *)
(* Added to the invariants of ChatServerRooms: the descriptors of threads  *)
(* and of users' records belong to the connections they are thought to     *)
(* belong to (SocketsOK), outside the windows that the properties name;    *)
(* and the replies to a client say where its user is as soon as its        *)
(* handler has sent them (Knows).                                          *)
(***************************************************************************)
EXTENDS ChatServerRooms, SequenceTheorems

\* The descriptor of c is open, and its own.
Live(c) == pc[c] \notin {"new", "exit_room", "exit_active"} /\ (pc[c] = "done" => LoggedIn(c))

\* login has stored the descriptor in the record of c's user.
Stored(c) == LoggedIn(c) /\ pc[c] # "login_sock"

SocketsOK ==
    /\ \A c \in Clients : Live(c) => peer[fd[c]] = c
    /\ \A f \in Fds, c \in Clients : peer[f] = c => fd[c] = f /\ pc[c] # "new"
    /\ \A c \in Clients : Stored(c) => sock[session[c]] = fd[c]

\* The room c will know of when it has read its replies.
Learned(c) == IF told[c] = <<>> THEN view[c] ELSE told[c][Len(told[c])]

\* The labels at which the last reply of login, join or leave is up to date.
Answered == {"recv", "login_notice", "join_id", "join_load", "join_store", "join_insert",
             "join_find", "join_remove", "join_left", "join_joined", "leave_joined", "invite_send"}

\* The client of c has been told where its user is, or is about to be.
Knows(c) ==
    /\ LoggedIn(c) /\ pc[c] \in Answered => roomID[session[c]] = Learned(c)
    /\ pc[c] \in {"login_ack", "leave_left", "leave_ack"} => roomID[session[c]] = DEFAULT_ROOM
    /\ pc[c] = "join_ack" => roomID[session[c]] = newRoom[c]

-----------------------------------------------------------------------------
(* Sockets. *)

\* A step that neither opens nor closes a descriptor nor stores one in a record.
SocketsStay(c) ==
    /\ UNCHANGED <<peer, fd, sock>>
    /\ Live(c)' => Live(c)
    /\ Stored(c)' => Stored(c) /\ session'[c] = session[c]
    /\ pc[c] # "new" => pc'[c] # "new"

\* Four steps do.
LEMMA SocketSteps ==
    ASSUME TypeInv, NEW c \in Clients, Step(c)
    PROVE  SocketsStay(c) \/ Accept(c) \/ LoginSock(c) \/ ExitClose(c) \/ ExitNotLoggedIn(c)
<1>a. /\ pc \in [Clients -> Labels] /\ session \in [Clients -> Names \cup {NULL}]
      /\ LocalOK(c)
  BY DEF TypeInv, TypeOK
<1> USE <1>a DEF SocketsStay, Live, Stored, LoggedIn, Goto, Running, Ready, Return,
                 conns, locals, client, users
<1>1. ASSUME NEW n \in Names, Login(c, n) \/ Invite(c, n) PROVE SocketsStay(c)
  BY <1>1 DEF Login, Invite
<1>2. ASSUME NEW x \in RoomNames, Join(c, x) PROVE SocketsStay(c)
  BY <1>2 DEF Join
<1>3. ASSUME Vanish(c) \/ ReadReply(c) \/ Leave(c) \/ Chat(c) PROVE SocketsStay(c)
  BY <1>3 DEF Vanish, ReadReply, Leave, Chat
<1>4. ASSUME Exit(c) \/ Reset(c) PROVE SocketsStay(c)
  BY <1>4 DEF Exit, Reset, exit_client
<1>5. ASSUME LoginRoom(c) \/ LoginAck(c) \/ LoginNotice(c) PROVE SocketsStay(c)
  BY <1>5 DEF LoginRoom, LoginAck, LoginNotice, Announce, Reply
<1>6. ASSUME JoinID(c) \/ JoinLoad(c) \/ JoinStore(c) \/ JoinInsert(c) \/ JoinFind(c)
      PROVE  SocketsStay(c)
  BY <1>6 DEF JoinID, JoinLoad, JoinStore, JoinInsert, JoinFind
<1>7. ASSUME JoinRemove(c) \/ JoinAdd(c) PROVE SocketsStay(c)
  BY <1>7 DEF JoinRemove, JoinAdd
<1>8. ASSUME JoinAck(c) \/ JoinLeft(c) \/ JoinJoined(c) PROVE SocketsStay(c)
  BY <1>8 DEF JoinAck, JoinLeft, JoinJoined, Announce, Reply
<1>9. ASSUME LeaveAdd(c) \/ LeaveLeft(c) \/ LeaveAck(c) \/ LeaveJoined(c)
      PROVE  SocketsStay(c)
  BY <1>9 DEF LeaveAdd, LeaveLeft, LeaveAck, LeaveJoined, Announce, Reply
<1>10. ASSUME InviteSend(c) \/ ExitNotice(c) PROVE SocketsStay(c)
  BY <1>10 DEF InviteSend, ExitNotice, Announce
<1>11. ASSUME ExitRoom(c) \/ ExitActive(c) PROVE SocketsStay(c)
  BY <1>11 DEF ExitRoom, ExitActive
<1> QED
  BY <1>1, <1>2, <1>3, <1>4, <1>5, <1>6, <1>7, <1>8, <1>9, <1>10, <1>11
  DEF Step, Request, Handler

\* Descriptors stay with their connections.
LEMMA SocketsKept ==
    ASSUME TypeInv, IInv, SocketsOK, NEW c \in Clients, Step(c)
    PROVE  SocketsOK'
<1>0. /\ TypeOK /\ OthersKeep(c) /\ NULL \notin Clients
      /\ peer \in [Fds -> Clients \cup {NULL}] /\ fd \in [Clients -> Fds \cup {NULL}]
      /\ sock \in [Names -> Fds] /\ session \in [Clients -> Names \cup {NULL}]
      /\ pc \in [Clients -> Labels]
      /\ \A d \in Clients : pc[d] # "new" => fd[d] \in Fds
  BY ThreadsOwnTheirLocals, NullFacts DEF TypeInv, TypeOK, LocalOK
<1>1. \A d \in Clients \ {c} : /\ Live(d)' <=> Live(d)
                               /\ Stored(d)' <=> Stored(d)
                               /\ pc'[d] = pc[d] /\ fd'[d] = fd[d] /\ session'[d] = session[d]
  BY <1>0 DEF OthersKeep, Live, Stored, LoggedIn
<1>2. CASE SocketsStay(c)
  BY <1>0, <1>1, <1>2 DEF SocketsStay, SocketsOK
<1>3. CASE Accept(c)
  <2>1. PICK f \in Fds : peer[f] = NULL /\ peer' = [peer EXCEPT ![f] = c] /\ fd' = [fd EXCEPT ![c] = f]
    BY <1>3 DEF Accept, LowestFree
  <2>2. pc[c] = "new" /\ pc'[c] = "recv" /\ session[c] = NULL /\ session' = session /\ sock' = sock
    BY <1>0, <1>3 DEF Accept, Running, Goto, users, TypeInv, LocalOK
  <2>3. \A g \in Fds : peer[g] # c
    BY <2>2 DEF SocketsOK
  <2>4. \A d \in Clients : Live(d)' => peer'[fd'[d]] = d
    BY <1>0, <1>1, <2>1 DEF SocketsOK, Live
  <2>5. \A g \in Fds, d \in Clients : peer'[g] = d => fd'[d] = g /\ pc'[d] # "new"
    BY <1>0, <1>1, <2>1, <2>2, <2>3 DEF SocketsOK
  <2>6. \A d \in Clients : Stored(d)' => sock'[session'[d]] = fd'[d]
    BY <1>0, <1>1, <2>2 DEF SocketsOK, Stored, LoggedIn
  <2> QED BY <2>4, <2>5, <2>6 DEF SocketsOK
<1>4. CASE LoginSock(c)
  <2>1. /\ pc[c] = "login_sock" /\ pc'[c] = "login_room" /\ session[c] \in Names
        /\ sock' = [sock EXCEPT ![session[c]] = fd[c]]
        /\ UNCHANGED <<peer, fd, session>>
    BY <1>0, <1>4 DEF LoginSock, Running, Goto, conns, TypeInv, LocalOK, LoginSteps
  <2>2. \A d \in Clients \ {c} : LoggedIn(d) => session[d] # session[c]
    BY DEF IInv, OneSessionPerUser
  <2>3. Live(c)
    BY <2>1 DEF Live
  <2>4. \A d \in Clients : Stored(d)' => sock'[session'[d]] = fd'[d]
    BY <1>0, <1>1, <2>1, <2>2 DEF SocketsOK, Stored, LoggedIn
  <2> QED BY <1>0, <1>1, <2>1, <2>3, <2>4 DEF SocketsOK
<1>5. CASE ExitClose(c) \/ ExitNotLoggedIn(c)
  <2>1. /\ Live(c) /\ ~Live(c)' /\ pc'[c] # "new" /\ fd[c] \in Fds
        /\ peer' = [peer EXCEPT ![fd[c]] = NULL] /\ UNCHANGED <<fd, session, sock>>
        /\ Stored(c)' => Stored(c)
    BY <1>0, <1>5 DEF ExitClose, ExitNotLoggedIn, Running, Ready, Goto, users, Live, Stored, LoggedIn
  <2>2. peer[fd[c]] = c
    BY <2>1 DEF SocketsOK
  <2> QED BY <1>0, <1>1, <2>1, <2>2 DEF SocketsOK, Live
<1> QED BY <1>2, <1>3, <1>4, <1>5, SocketSteps

-----------------------------------------------------------------------------
(* What clients learn. *)

\* A client's replies and view are touched by its own thread and itself only.
LEMMA RepliesAreOwn ==
    ASSUME TypeInv, NEW c \in Clients, Step(c)
    PROVE  /\ \A d \in Clients \ {c} : told'[d] = told[d] /\ view'[d] = view[d]
           /\ UNCHANGED client \/ ReadReply(c) \/ LoginAck(c) \/ JoinAck(c) \/ LeaveAck(c)
<1>a. told \in [Clients -> Seq(RoomIDs)] /\ view \in [Clients -> RoomIDs \cup {NULL}]
  BY DEF TypeInv, TypeOK
<1>1. UNCHANGED client \/ ReadReply(c) \/ LoginAck(c) \/ JoinAck(c) \/ LeaveAck(c)
  BY DEF client, Step, Request, Handler, Announce, Login, Invite, Join, Accept,
       Vanish, Leave, Chat, Exit, ExitNotLoggedIn, Reset, LoginSock,
       LoginRoom, LoginNotice, JoinID, JoinLoad, JoinStore, JoinInsert, JoinFind,
       JoinRemove, JoinAdd, JoinLeft, JoinJoined, LeaveAdd, LeaveLeft,
       LeaveJoined, InviteSend, ExitNotice, ExitClose, ExitRoom, ExitActive
<1> QED BY <1>a, <1>1 DEF client, ReadReply, LoginAck, JoinAck, LeaveAck, Reply

Last(s) == s[Len(s)]

\* Reading from a sequence leaves its last element.
LEMMA LastOfTail ==
    ASSUME NEW S, NEW s \in Seq(S), s # <<>>, Len(s) # 1
    PROVE  Tail(s) # <<>> /\ Last(Tail(s)) = Last(s)
<1>0. Len(s) \in Nat \ {0}
  BY EmptySeq, Zenon
<1>1. Len(s) \in Nat /\ Len(s) > 1
  <2>1. \A k \in Nat \ {0} : k # 1 => k \in Nat /\ k > 1
    OBVIOUS
  <2> QED BY <1>0, <2>1, Zenon
<1>2. Len(Tail(s)) = Len(s) - 1 /\ \A i \in 1 .. Len(Tail(s)) : Tail(s)[i] = s[i + 1]
  BY HeadTailProperties
<1>3. \A i \in 1 .. Len(s) - 1 : Tail(s)[i] = s[i + 1]
  BY <1>2
<1>4. Len(s) - 1 \in 1 .. Len(s) - 1 /\ Len(s) - 1 + 1 = Len(s)
  BY <1>1
<1>5. Tail(s)[Len(s) - 1] = s[Len(s)]
  BY <1>3, <1>4
<1>6. Tail(s) # <<>>
  <2>1. Len(Tail(s)) # Len(<<>>)
    BY <1>1, <1>2, EmptySeq
  <2> QED BY <2>1
<1> QED BY <1>2, <1>5, <1>6 DEF Last

\* Reading a reply does not change what will have been learned; sending one does.
LEMMA Learning ==
    ASSUME TypeInv, NEW c \in Clients
    PROVE  /\ ReadReply(c) => Learned(c)' = Learned(c)
           /\ \A r \in RoomIDs : told' = [told EXCEPT ![c] = Append(@, r)] => Learned(c)' = r
<1>a. /\ told \in [Clients -> Seq(RoomIDs)] /\ told[c] \in Seq(RoomIDs)
      /\ view \in [Clients -> RoomIDs \cup {NULL}]
  BY DEF TypeInv, TypeOK
<1>1. ASSUME ReadReply(c) PROVE Learned(c)' = Learned(c)
  <2>1. told[c] # <<>> /\ told'[c] = Tail(told[c]) /\ view'[c] = Head(told[c])
    BY <1>a, <1>1 DEF ReadReply
  <2>2. CASE Len(told[c]) = 1
    <3>1. Tail(told[c]) = <<>> /\ Head(told[c]) = told[c][Len(told[c])]
      BY <1>a, <2>1, <2>2
    <3> QED BY <2>1, <3>1 DEF Learned
  <2>3. CASE Len(told[c]) # 1
    <3>1. Tail(told[c]) # <<>> /\ Last(Tail(told[c])) = Last(told[c])
      BY <1>a, <2>1, <2>3, LastOfTail DEF Last
    <3> QED BY <2>1, <3>1 DEF Learned, Last
  <2> QED BY <2>2, <2>3
<1>2. ASSUME NEW r \in RoomIDs, told' = [told EXCEPT ![c] = Append(@, r)] PROVE Learned(c)' = r
  <2>1. told'[c] = Append(told[c], r)
    BY <1>a, <1>2
  <2>2. /\ Append(told[c], r) # <<>> /\ Len(Append(told[c], r)) = Len(told[c]) + 1
        /\ Append(told[c], r)[Len(told[c]) + 1] = r
    BY <1>a
  <2> QED BY <2>1, <2>2 DEF Learned
<1> QED BY <1>1, <1>2

\* A handler tells its own client what it has done to its user.
LEMMA OwnKnowledge ==
    ASSUME TypeInv, IInv, NEW c \in Clients, Knows(c), Step(c)
    PROVE  Knows(c)'
<1>a. /\ pc \in [Clients -> Labels] /\ session \in [Clients -> Names \cup {NULL}]
      /\ pkt \in [Clients -> Packets] /\ newRoom \in [Clients -> RoomIDs \cup {NULL}]
      /\ roomID \in [Names -> RoomIDs \cup {NULL}]
      /\ LocalOK(c) /\ RoomsKnown(c) /\ NULL \notin Names /\ DEFAULT_ROOM \in RoomIDs
  BY NullFacts DEF TypeInv, TypeOK, IInv
<1>b. UNCHANGED client => Learned(c)' = Learned(c)
  BY DEF Learned, client
<1> USE <1>a, <1>b DEF Knows, LoggedIn, Answered, Goto, Running, Ready, Return, locals, users
<1>1. ASSUME NEW n \in Names, Login(c, n) \/ Invite(c, n) PROVE Knows(c)'
  BY <1>1 DEF Login, Invite
<1>2. ASSUME NEW x \in RoomNames, Join(c, x) PROVE Knows(c)'
  BY <1>2 DEF Join
<1>3. ASSUME Accept(c) \/ Vanish(c) \/ Leave(c) \/ Chat(c) \/ ExitNotLoggedIn(c)
      PROVE  Knows(c)'
  BY <1>3 DEF Accept, Vanish, Leave, Chat, ExitNotLoggedIn, LocalOK
<1>4. ASSUME ReadReply(c) PROVE Knows(c)'
  BY <1>4, Learning DEF ReadReply
<1>5. ASSUME Exit(c) \/ Reset(c) PROVE Knows(c)'
  BY <1>5 DEF Exit, Reset, exit_client
<1>6. ASSUME LoginSock(c) \/ LoginRoom(c) PROVE Knows(c)'
  BY <1>6 DEF LoginSock, LoginRoom, LocalOK, LoginSteps, RoomsKnown
<1>7. ASSUME LoginAck(c) \/ JoinAck(c) \/ LeaveAck(c) PROVE Knows(c)'
  <2>1. PICK r \in RoomIDs :
            /\ r = roomID[session[c]] /\ told' = [told EXCEPT ![c] = Append(@, r)]
            /\ pc'[c] \in {"login_notice", "join_left", "leave_joined"}
            /\ UNCHANGED <<session, roomID>>
    BY <1>7 DEF LoginAck, JoinAck, LeaveAck, Reply, LocalOK, JoinSteps, UserSteps
  <2>2. Learned(c)' = r
    BY <2>1, Learning
  <2> QED BY <2>1, <2>2
<1>8. ASSUME \/ LoginNotice(c) \/ JoinLeft(c) \/ JoinJoined(c)
             \/ LeaveLeft(c) \/ LeaveJoined(c) \/ ExitNotice(c)
      PROVE  Knows(c)'
  BY <1>8 DEF LoginNotice, JoinLeft, JoinJoined, LeaveLeft, LeaveJoined, ExitNotice, Announce
<1>9. ASSUME JoinID(c) \/ JoinLoad(c) \/ JoinStore(c) \/ JoinInsert(c) \/ JoinFind(c)
      PROVE  Knows(c)'
  BY <1>9 DEF JoinID, JoinLoad, JoinStore, JoinInsert, JoinFind
<1>10. ASSUME JoinRemove(c) PROVE Knows(c)'
  BY <1>10 DEF JoinRemove
<1>11. ASSUME JoinAdd(c) \/ LeaveAdd(c) PROVE Knows(c)'
  BY <1>11 DEF JoinAdd, LeaveAdd, LocalOK, UserSteps
<1>12. ASSUME InviteSend(c) \/ ExitClose(c) \/ ExitRoom(c) \/ ExitActive(c)
       PROVE  Knows(c)'
  BY <1>12 DEF InviteSend, ExitClose, ExitRoom, ExitActive
<1> QED
  BY <1>1, <1>2, <1>3, <1>4, <1>5, <1>6, <1>7, <1>8, <1>9, <1>10, <1>11, <1>12
  DEF Step, Request, Handler

\* Nobody else changes it.
LEMMA OthersKnow ==
    ASSUME TypeInv, IInv, NEW c \in Clients, Step(c), NEW d \in Clients \ {c}, Knows(d)
    PROVE  Knows(d)'
<1>1. /\ pc'[d] = pc[d] /\ session'[d] = session[d] /\ newRoom'[d] = newRoom[d]
      /\ told'[d] = told[d] /\ view'[d] = view[d]
  BY ThreadsOwnTheirLocals, RepliesAreOwn DEF OthersKeep, TypeInv
<1>2. LoggedIn(d) => roomID'[session[d]] = roomID[session[d]]
  <2>1. LoggedIn(d) => session[d] \in Names /\ session[d] # session[c]
    BY DEF IInv, OneSessionPerUser, TypeInv, TypeOK, LoggedIn
  <2> QED BY <2>1, ThreadsMoveTheirUser DEF OthersStay
<1>3. pc[d] \in {"login_ack", "leave_left", "leave_ack", "join_ack"} => LoggedIn(d)
  BY NullFacts DEF TypeInv, LocalOK, LoginSteps, UserSteps, LoggedIn
<1> QED BY <1>1, <1>2, <1>3 DEF Knows, Learned, LoggedIn

-----------------------------------------------------------------------------
(* Whom packets reach. *)

\* The room a thread announces a departure to exists: its packet's current room.
KnownRoom(c) ==
    pc[c] \in {"join_add", "join_ack", "join_left", "leave_add", "leave_left"}
        => pkt[c].room \in RoomIDs

\* join and leave have looked the room up before they get there.
LEMMA OwnKnownRoom ==
    ASSUME TypeInv, NEW c \in Clients, KnownRoom(c), Step(c)
    PROVE  KnownRoom(c)'
<1>a. pc \in [Clients -> Labels] /\ pkt \in [Clients -> Packets]
  BY DEF TypeInv, TypeOK
<1> USE <1>a DEF KnownRoom, Goto, Running, Ready, Return, conns, locals
<1>1. ASSUME NEW n \in Names, Login(c, n) \/ Invite(c, n) PROVE KnownRoom(c)'
  BY <1>1 DEF Login, Invite
<1>2. ASSUME NEW x \in RoomNames, Join(c, x) PROVE KnownRoom(c)'
  BY <1>2 DEF Join
<1>3. ASSUME Accept(c) \/ Vanish(c) \/ ReadReply(c) \/ Chat(c) \/ ExitNotLoggedIn(c)
      PROVE  KnownRoom(c)'
  BY <1>3 DEF Accept, Vanish, ReadReply, Chat, ExitNotLoggedIn
<1>4. ASSUME Leave(c) PROVE KnownRoom(c)'
  BY <1>4 DEF Leave, RoomExists
<1>5. ASSUME Exit(c) \/ Reset(c) PROVE KnownRoom(c)'
  BY <1>5 DEF Exit, Reset, exit_client
<1>6. ASSUME LoginSock(c) \/ LoginRoom(c) \/ LoginAck(c) \/ LoginNotice(c)
      PROVE  KnownRoom(c)'
  BY <1>6 DEF LoginSock, LoginRoom, LoginAck, LoginNotice, Announce, Reply
<1>7. ASSUME JoinID(c) \/ JoinLoad(c) \/ JoinStore(c) \/ JoinInsert(c) \/ JoinFind(c)
      PROVE  KnownRoom(c)'
  BY <1>7 DEF JoinID, JoinLoad, JoinStore, JoinInsert, JoinFind
<1>8. ASSUME JoinRemove(c) PROVE KnownRoom(c)'
  BY <1>8 DEF JoinRemove, RoomExists
<1>9. ASSUME JoinAdd(c) \/ JoinAck(c) \/ JoinLeft(c) \/ JoinJoined(c) PROVE KnownRoom(c)'
  BY <1>9 DEF JoinAdd, JoinAck, JoinLeft, JoinJoined, Announce, Reply
<1>10. ASSUME LeaveAdd(c) \/ LeaveLeft(c) \/ LeaveAck(c) \/ LeaveJoined(c)
       PROVE  KnownRoom(c)'
  BY <1>10 DEF LeaveAdd, LeaveLeft, LeaveAck, LeaveJoined, Announce, Reply
<1>11. ASSUME InviteSend(c) \/ ExitNotice(c) \/ ExitClose(c) \/ ExitRoom(c) \/ ExitActive(c)
       PROVE  KnownRoom(c)'
  BY <1>11 DEF InviteSend, ExitNotice, ExitClose, ExitRoom, ExitActive, Announce
<1> QED
  BY <1>1, <1>2, <1>3, <1>4, <1>5, <1>6, <1>7, <1>8, <1>9, <1>10, <1>11
  DEF Step, Request, Handler

\* In any state, a settled user has a descriptor, stored in the user's record and, until it
\* is closed, his connection's; and a user in a room's list is settled there.
LEMMA Reachable ==
    ASSUME TypeInv, IInv, SocketsOK
    PROVE  /\ \A d \in Clients : Settled(d) =>
                  /\ session[d] \in Names /\ fd[d] # NULL /\ sock[session[d]] = fd[d]
                  /\ pc[d] # "exit_room" => Live(d) /\ peer[fd[d]] = d
           /\ \A r \in RoomIDs, n \in Names : members[r][n] > 0 =>
                  \E e \in Clients : session[e] = n /\ Settled(e) /\ roomID[n] = r
<1>a. /\ NULL \notin Names /\ NULL \notin Fds /\ UsersInOneRoom
      /\ session \in [Clients -> Names \cup {NULL}] /\ \A c \in Clients : LocalOK(c)
  BY NullFacts, OneRoomEach DEF TypeInv, TypeOK
<1>1. ASSUME NEW d \in Clients, Settled(d)
      PROVE  /\ session[d] \in Names /\ fd[d] # NULL /\ sock[session[d]] = fd[d]
             /\ pc[d] # "exit_room" => Live(d) /\ peer[fd[d]] = d
  BY <1>a, <1>1 DEF Settled, Limbo, LoggedIn, LocalOK, SocketsOK, Stored, Live
<1>2. ASSUME NEW r \in RoomIDs, NEW n \in Names, members[r][n] > 0
      PROVE  \E e \in Clients : session[e] = n /\ Settled(e) /\ roomID[n] = r
  BY <1>a, <1>2 DEF UsersInOneRoom
<1> QED BY <1>1, <1>2

\* A packet for a room reaches every member but the one whose descriptor is excepted ...
LEMMA MembersListen ==
    ASSUME TypeInv, IInv, SocketsOK, NEW r \in RoomIDs, NEW not, NEW d \in Clients,
           Settled(d), pc[d] # "exit_room", roomID[session[d]] = r
    PROVE  d \in Listeners(r, not) <=> not # fd[d]
<1>1. session[d] \in Names /\ sock[session[d]] = fd[d] /\ peer[fd[d]] = d /\ d # NULL
  BY Reachable, NullFacts
<1>2. members[r][session[d]] > 0
  <2>1. members[r][session[d]] = 1
    BY <1>1, OneRoomEach DEF UsersInOneRoom
  <2> QED BY <2>1
<1>3. not # fd[d] => d \in Listeners(r, not)
  BY <1>1, <1>2 DEF Listeners
<1>4. ASSUME d \in Listeners(r, not) PROVE not # fd[d]
  <2>1. PICK n \in Names : sock[n] # not /\ peer[sock[n]] = d
    BY <1>4 DEF Listeners
  <2>2. sock[n] = fd[d]
    BY <2>1 DEF SocketsOK, TypeInv, TypeOK
  <2> QED BY <2>1, <2>2
<1> QED BY <1>3, <1>4

\* ... and otherwise only the next owner of a descriptor that a leaving member has closed.
LEMMA OnlyMembersListen ==
    ASSUME TypeInv, IInv, SocketsOK, NEW r \in RoomIDs, NEW not, NEW d \in Listeners(r, not)
    PROVE  \/ Settled(d) /\ roomID[session[d]] = r
           \/ \E e \in Clients : /\ pc[e] = "exit_room" /\ fd[e] = fd[d]
                                 /\ roomID[session[e]] = r
<1>1. PICK n \in Names : members[r][n] > 0 /\ peer[sock[n]] = d
  BY DEF Listeners
<1>2. PICK e \in Clients : session[e] = n /\ Settled(e) /\ roomID[n] = r
  BY <1>1, Reachable
<1>3. sock[n] = fd[e] /\ d \in Clients
  BY <1>2, Reachable, ListenersType DEF TypeInv
<1>4. fd[d] = fd[e]
  BY <1>1, <1>3 DEF SocketsOK, TypeInv, TypeOK
<1> QED BY <1>1, <1>2, <1>3, <1>4, Reachable

\* A thread that speaks to a room moves nobody.
Speaking(c) ==
    /\ UNCHANGED <<fd, session, roomID>>
    /\ {pc[c], pc'[c]} \cap (Limbo \cup {"exit_room"}) = {}
    /\ \E r \in RoomIDs :
         \/ sent' = [kind |-> "notice", by |-> c, re |-> r, to |-> Listeners(r, NULL)]
         \/ /\ sent' = [kind |-> "chat", by |-> c, re |-> r, to |-> Listeners(r, fd[c])]
            /\ Live(c)

\* Every step is silent, speaks to a room, or sends an invitation.
LEMMA Senders ==
    ASSUME TypeInv, IInv, NEW c \in Clients, KnownRoom(c), Step(c)
    PROVE  sent' = NoSend \/ Speaking(c) \/ InviteSend(c)
<1>a. /\ pc \in [Clients -> Labels] /\ DEFAULT_ROOM \in RoomIDs /\ LocalOK(c)
      /\ view \in [Clients -> RoomIDs \cup {NULL}] /\ newRoom \in [Clients -> RoomIDs \cup {NULL}]
      /\ NULL \notin Names /\ UserNodes(c)
  BY NullFacts DEF TypeInv, TypeOK, IInv
<1> DEFINE Notice(r) == sent' = [kind |-> "notice", by |-> c, re |-> r, to |-> Listeners(r, NULL)]
<1>1. ASSUME LoginNotice(c) \/ LeaveJoined(c) PROVE Speaking(c)
  <2>1. Notice(DEFAULT_ROOM)
    BY <1>1 DEF LoginNotice, LeaveJoined, Announce, send_message
  <2> QED BY <1>a, <1>1, <2>1
          DEF Speaking, LoginNotice, LeaveJoined, Announce, Running, Return, Goto, conns, users, Limbo
<1>2. ASSUME JoinLeft(c) \/ LeaveLeft(c) PROVE Speaking(c)
  <2>1. Notice(pkt[c].room) /\ pkt[c].room \in RoomIDs
    BY <1>2 DEF JoinLeft, LeaveLeft, Announce, send_message, Running, KnownRoom
  <2> QED BY <1>a, <1>2, <2>1
          DEF Speaking, JoinLeft, LeaveLeft, Announce, Running, Goto, conns, users, Limbo
<1>3. ASSUME JoinJoined(c) PROVE Speaking(c)
  <2>1. Notice(newRoom[c]) /\ newRoom[c] \in RoomIDs
    BY <1>a, <1>3 DEF JoinJoined, Announce, send_message, Running, LocalOK
  <2> QED BY <1>a, <1>3, <2>1
          DEF Speaking, JoinJoined, Announce, Running, Return, Goto, conns, users, Limbo
<1>4. ASSUME ExitNotice(c) PROVE Speaking(c)
  <2>1. Notice(roomID[session[c]]) /\ roomID[session[c]] \in RoomIDs
    BY <1>a, <1>4 DEF ExitNotice, Announce, send_message, Running, LocalOK, UserSteps, UserNodes, Limbo
  <2> QED BY <1>a, <1>4, <2>1
          DEF Speaking, ExitNotice, Announce, Running, Goto, conns, users, Limbo
<1>5. ASSUME Chat(c) PROVE Speaking(c)
  <2>1. /\ sent' = [kind |-> "chat", by |-> c, re |-> view[c], to |-> Listeners(view[c], fd[c])]
        /\ view[c] \in RoomIDs /\ Live(c)
    BY <1>a, <1>5 DEF Chat, send_message, Ready, Running, Live
  <2> QED BY <1>a, <1>5, <2>1 DEF Speaking, Chat, Ready, Running, conns, users, Limbo
<1>6. ASSUME Step(c), ~InviteSend(c), ~LoginNotice(c), ~LeaveJoined(c), ~JoinLeft(c), ~LeaveLeft(c),
             ~JoinJoined(c), ~ExitNotice(c), ~Chat(c)
      PROVE  sent' = NoSend
  BY <1>6 DEF Step, Request, Handler, Quiet, Reply, Login, Invite, Join, Accept, Vanish, ReadReply,
       Leave, Exit, ExitNotLoggedIn, Reset, LoginSock, LoginRoom, LoginAck, JoinID,
       JoinLoad, JoinStore, JoinInsert, JoinFind, JoinRemove, JoinAdd, JoinAck, LeaveAdd, LeaveAck,
       ExitClose, ExitRoom, ExitActive
<1> QED BY <1>1, <1>2, <1>3, <1>4, <1>5, <1>6

\* What a step sends to a room reaches whom it should.
LEMMA RoomReached ==
    ASSUME TypeInv, IInv, SocketsOK, NEW c \in Clients, KnownRoom(c), Step(c)
    PROVE  RoomMessageReach'
<1>a. /\ pc \in [Clients -> Labels] /\ OthersKeep(c)
  BY ThreadsOwnTheirLocals DEF TypeInv, TypeOK
<1>1. CASE sent' = NoSend
  BY <1>1 DEF RoomMessageReach, NoSend
<1>2. CASE InviteSend(c)
  BY <1>2 DEF RoomMessageReach, InviteSend
<1>3. CASE Speaking(c)
  <2>1. \A d \in Clients : /\ Settled(d)' <=> Settled(d)
                           /\ pc'[d] = "exit_room" <=> pc[d] = "exit_room"
                           /\ session'[d] = session[d] /\ fd'[d] = fd[d]
                           /\ roomID'[session'[d]] = roomID[session[d]]
    BY <1>a, <1>3 DEF Speaking, Settled, LoggedIn, OthersKeep
  <2>2. PICK r \in RoomIDs :
            \/ sent' = [kind |-> "notice", by |-> c, re |-> r, to |-> Listeners(r, NULL)]
            \/ /\ sent' = [kind |-> "chat", by |-> c, re |-> r, to |-> Listeners(r, fd[c])]
               /\ Live(c)
    BY <1>3 DEF Speaking
  <2>3. \A f : Listeners(r, f) \subseteq Clients
    BY ListenersType DEF TypeInv
  <2>4. CASE sent' = [kind |-> "notice", by |-> c, re |-> r, to |-> Listeners(r, NULL)]
    <3>1. ASSUME NEW d \in Clients, Settled(d), pc[d] # "exit_room", roomID[session[d]] = r
          PROVE  d \in Listeners(r, NULL)
      BY <3>1, MembersListen, Reachable
    <3>2. ASSUME NEW d \in Listeners(r, NULL)
          PROVE  \/ Settled(d) /\ roomID[session[d]] = r
                 \/ \E e \in Clients : /\ pc[e] = "exit_room" /\ fd[e] = fd[d]
                                       /\ roomID[session[e]] = r
      BY OnlyMembersListen
    <3> QED BY <2>1, <2>3, <2>4, <3>1, <3>2 DEF RoomMessageReach
  <2>5. CASE /\ sent' = [kind |-> "chat", by |-> c, re |-> r, to |-> Listeners(r, fd[c])]
             /\ Live(c)
    <3>1. ASSUME NEW d \in Clients, Settled(d), pc[d] # "exit_room", roomID[session[d]] = r
          PROVE  d \in Listeners(r, fd[c]) <=> d # c
      <4>1. fd[c] # fd[d] <=> d # c
        BY <2>5, <3>1, Reachable DEF SocketsOK
      <4>2. d \in Listeners(r, fd[c]) <=> fd[c] # fd[d]
        BY <3>1, MembersListen
      <4> QED BY <4>1, <4>2
    <3>2. ASSUME NEW d \in Listeners(r, fd[c])
          PROVE  \/ Settled(d) /\ roomID[session[d]] = r
                 \/ \E e \in Clients : /\ pc[e] = "exit_room" /\ fd[e] = fd[d]
                                       /\ roomID[session[e]] = r
      BY OnlyMembersListen
    <3> QED BY <2>1, <2>3, <2>5, <3>1, <3>2 DEF RoomMessageReach
  <2> QED BY <2>2, <2>4, <2>5
<1> QED BY <1>1, <1>2, <1>3, Senders

\* An invitation reaches the invitee.
LEMMA InviteeReached ==
    ASSUME TypeInv, IInv, SocketsOK, NEW c \in Clients, KnownRoom(c), Step(c)
    PROVE  InvitationReach'
<1>1. CASE sent' = NoSend
  BY <1>1 DEF InvitationReach, NoSend
<1>2. CASE Speaking(c)
  BY <1>2 DEF InvitationReach, Speaking
<1>3. CASE InviteSend(c)
  <2>a. /\ pc \in [Clients -> Labels] /\ OthersKeep(c) /\ pc[c] = "invite_send" /\ pkt[c].arg \in Names
        /\ session' = session /\ NULL \notin Names /\ NULL \notin Clients
        /\ \A d \in Clients : LocalOK(d)
    BY <1>3, ThreadsOwnTheirLocals, NullFacts DEF TypeInv, TypeOK, InviteSend, Running, LocalOK
  <2>1. ASSUME NEW d \in Clients, session'[d] = pkt[c].arg,
               pc'[d] \notin {"login_sock", "exit_room", "exit_active"}
        PROVE  {peer[sock[pkt[c].arg]]} \ {NULL} = {d}
    <3>1. pc[d] \notin {"login_sock", "exit_room", "exit_active"} /\ session[d] = pkt[c].arg
      BY <2>a, <2>1 DEF OthersKeep
    <3>2. Stored(d) /\ Live(d)
      BY <2>a, <3>1 DEF Stored, Live, LoggedIn, LocalOK
    <3>3. peer[sock[pkt[c].arg]] = d
      BY <3>1, <3>2 DEF SocketsOK
    <3> QED BY <2>a, <3>3
  <2>2. sent' = [kind |-> "invite", by |-> c, re |-> pkt[c].arg,
                 to |-> {peer[sock[pkt[c].arg]]} \ {NULL}]
    BY <1>3 DEF InviteSend
  <2> QED BY <2>1, <2>2 DEF InvitationReach
<1> QED BY <1>1, <1>2, <1>3, Senders

-----------------------------------------------------------------------------
(* The invariant. *)

MInv ==
    /\ SocketsOK
    /\ \A c \in Clients : Knows(c) /\ KnownRoom(c)
    /\ RoomMessageReach
    /\ InvitationReach

\* Initially no descriptor is open and nobody is told anything.
LEMMA MessagesInit == Init => MInv
BY NullFacts DEF Init, MInv, SocketsOK, Live, Stored, LoggedIn, Knows, KnownRoom,
                 RoomMessageReach, InvitationReach, NoSend

\* A step keeps it.
LEMMA MessagesStep == TypeInv /\ IInv /\ MInv /\ [Next]_vars => MInv'
<1> SUFFICES ASSUME TypeInv, IInv, MInv, [Next]_vars PROVE MInv'
  OBVIOUS
<1>1. ASSUME NEW c \in Clients, Step(c) PROVE MInv'
  <2>1. SocketsOK /\ \A d \in Clients : Knows(d) /\ KnownRoom(d)
    BY DEF MInv
  <2>2. SocketsOK' /\ RoomMessageReach' /\ InvitationReach'
    BY <1>1, <2>1, SocketsKept, RoomReached, InviteeReached
  <2>3. Knows(c)' /\ KnownRoom(c)'
    BY <1>1, <2>1, OwnKnowledge, OwnKnownRoom
  <2>4. ASSUME NEW d \in Clients \ {c} PROVE Knows(d)' /\ KnownRoom(d)'
    <3>1. pc'[d] = pc[d] /\ pkt'[d] = pkt[d]
      BY <1>1, ThreadsOwnTheirLocals DEF OthersKeep, TypeInv
    <3>2. KnownRoom(d)'
      BY <2>1, <3>1 DEF KnownRoom
    <3> QED BY <1>1, <2>1, <3>2, OthersKnow
  <2> QED BY <2>2, <2>3, <2>4 DEF MInv
<1>2. CASE UNCHANGED vars
  BY <1>2 DEF vars, conns, locals, client, users, MInv, SocketsOK, Live, Stored, LoggedIn, Knows,
              Learned, KnownRoom, RoomMessageReach, InvitationReach, Settled
<1> QED BY <1>1, <1>2 DEF Next

\* The strengthened invariant.
LEMMA MessagesCorrect == Spec => []MInv
<1>1. Init => TypeInv /\ IInv /\ MInv
  BY TypeInit, RoomsInit, MessagesInit
<1>2. TypeInv /\ IInv /\ MInv /\ [Next]_vars => (TypeInv /\ IInv /\ MInv)'
  BY TypeStep, RoomsStep, MessagesStep
<1> QED BY <1>1, <1>2, PTL DEF Spec

\* A client that reads its replies learns the room the server has its user in, whatever the
\* other threads do between the reply and the reading.
THEOREM ClientsLearn == Spec => []ClientLearnsItsRoom
<1>1. MInv => ClientLearnsItsRoom
  BY DEF MInv, Knows, Answered, Learned, ClientLearnsItsRoom
<1> QED BY <1>1, MessagesCorrect, PTL

\* What is said in a room reaches all of it, and leaves it only through the descriptor of
\* a member between close and the removal from the room.
THEOREM MessagesReach == Spec => []RoomMessageReach
<1>1. MInv => RoomMessageReach
  BY DEF MInv
<1> QED BY <1>1, MessagesCorrect, PTL

\* An invitation reaches the invitee and nobody else, while the invitee's descriptor is stored
\* and open.
THEOREM InvitationsReach == Spec => []InvitationReach
<1>1. MInv => InvitationReach
  BY DEF MInv
<1> QED BY <1>1, MessagesCorrect, PTL

=============================================================================
