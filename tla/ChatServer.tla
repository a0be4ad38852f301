----------------------------- MODULE ChatServer -----------------------------
(***************************************************************************)
(* The session and room core of the chat server (src/server): one thread   *)
(* per connection (client_receive), the list of active users, the rooms    *)
(* with their user lists, the user records those lists share, and the      *)
(* process's table of socket descriptors.                                  *)
(*                                                                         *)
(* A step is one access of a thread to shared state: one call of a list    *)
(* function, one write of a shared record, one send or one broadcast.  The *)
(* first access of a handler is taken together with the recv before it.    *)
(* A list call is atomic here: what happens inside one is not modelled.    *)
(*                                                                         *)
(* The model stops at the first step the code survives only by chance (a   *)
(* NULL pointer followed, a record freed while lists still point at it):   *)
(* `fault' names it and no action is enabled afterwards.                   *)
(*                                                                         *)
(* A definition named X_Something just above X is a mutant of X, a bug the *)
(* properties must notice; no behaviour of Spec uses it.                   *)
(***************************************************************************)
EXTENDS Integers, Sequences, FiniteSets

CONSTANTS
    Clients,      \* connections; each is accepted at most once
    Names,        \* registered usernames (Users.bin); registering is not modelled here
    RoomNames,    \* names a room can have
    LobbyName,    \* DEFAULT_ROOM_NAME
    Fds,          \* socket descriptors the process can hand out
    MaxRoomID,    \* bound on numRooms: no room is created beyond it
    MaxBehind,    \* replies a client may have unread when it sends a command
    DoubleLogin,  \* whether somebody may log in as a user who is online
    Crashes,      \* whether a client may vanish without EXIT
    NULL          \* NULL pointer, empty username, room number no room has

DEFAULT_ROOM == 1000
RoomIDs == DEFAULT_ROOM .. MaxRoomID

ASSUME ConstantsAssumption ==
    /\ LobbyName \in RoomNames
    /\ Fds \subseteq Nat /\ Fds # {}
    /\ MaxRoomID \in Nat /\ MaxRoomID >= DEFAULT_ROOM
    /\ MaxBehind \in Nat
    /\ DoubleLogin \in BOOLEAN /\ Crashes \in BOOLEAN

ASSUME NullAssumption ==
    NULL \notin Nat /\ NULL \notin Clients \cup Names \cup RoomNames

VARIABLES
    peer,      \* peer[f]: the connection behind descriptor f, NULL if f is closed
    gone,      \* connections whose client end has vanished
    pc,        \* pc[c]: where the thread of connection c stands
    fd,        \* fd[c]: the thread's `client' descriptor
    pkt,       \* pkt[c]: the request being handled (username, current room, argument)
    newRoom,   \* newRoom[c]: ID passed to createRoom, then the ID of join's newRoom
    load,      \* load[c]: numRooms as read by the increment in createRoom
    session,   \* session[c]: the user connection c logged in as, until it is off the active list
    view,      \* view[c]: the client's currentRoom, NULL before its LOGSUC
    told,      \* told[c]: rooms of the LOGSUC and JOINSUC packets c has not read yet
    active,    \* active_users_list
    members,   \* members[r][n]: nodes for user n in the user_list of room r
    roomID,    \* roomID[n]: User.roomID
    sock,      \* sock[n]: User.sock
    rooms,     \* rooms[r]: name of the room with ID r in room_list, NULL if none
    numRooms,  \* the global ID counter
    sent,      \* what the last step sent to other connections
    fault      \* "none", or why the process can no longer be relied upon

conns  == <<peer, gone, fd>>
locals == <<pkt, newRoom, load>>
client == <<view, told>>
users  == <<active, members, roomID, sock>>
vars   == <<conns, pc, locals, session, client, users, rooms, numRooms, sent, fault>>

NoPkt  == [user |-> NULL, room |-> NULL, arg |-> NULL]
NoSend == [kind |-> "none", by |-> NULL, re |-> NULL, to |-> {}]

Labels == {"new", "recv", "done",
           "login_sock", "login_room", "login_ack", "login_notice",
           "join_id", "join_load", "join_store", "join_insert", "join_find",
           "join_remove", "join_add", "join_ack", "join_left", "join_joined",
           "leave_add", "leave_left", "leave_ack", "leave_joined",
           "invite_send",
           "exit_notice", "exit_close", "exit_room", "exit_active"}

-----------------------------------------------------------------------------
(* The list functions (linked_list.c), as far as these handlers use them. *)

Online(n) == n \in active                     \* get_user(&active_users_list, n)
RoomExists(r) == r \in RoomIDs /\ rooms[r] # NULL          \* Rget_roomFID(r)
InList(r, n) == n \in Names /\ members[r][n] > 0           \* get_user(&room->user_list, n)
Rget_ID(x) == IF \E r \in RoomIDs : rooms[r] = x
              THEN CHOOSE r \in RoomIDs : rooms[r] = x ELSE NULL
Rget_roomFNAME(x) == Rget_ID(x)                 \* a pointer to that room, NULL if none

\* insertNode appends without looking, insertUser refuses a second node, and
\* removeUser takes the first node with that username out.
insertNode(r, n) == [members EXCEPT ![r][n] = @ + 1]
insertUser(r, n) == [members EXCEPT ![r][n] = IF @ = 0 THEN 1 ELSE @]
removeNode(r, n) == [members EXCEPT ![r][n] = @ - 1]
removeUser(r, n) == IF InList(r, n) THEN removeNode(r, n) ELSE members

insertRoom_IDOnly(id, x) == IF rooms[id] = NULL THEN [rooms EXCEPT ![id] = x] ELSE rooms
insertRoom_NameOnly(id, x) == IF \A r \in RoomIDs : rooms[r] # x THEN [rooms EXCEPT ![id] = x] ELSE rooms
insertRoom(id, x) ==
    IF rooms[id] = NULL /\ \A r \in RoomIDs : rooms[r] # x
    THEN [rooms EXCEPT ![id] = x] ELSE rooms

\* The connections that send_message for room r reaches: a packet goes to whatever is
\* behind the number in the record of each user in the list, but for the number `not'.
Listeners(r, not) ==
    {peer[sock[n]] : n \in {m \in Names : members[r][m] > 0 /\ sock[m] # not}} \ {NULL}

send_message(c, kind, r, not) ==
    sent' = [kind |-> kind, by |-> c, re |-> r, to |-> Listeners(r, not)]

-----------------------------------------------------------------------------
(* Threads. *)

Running(c, label) == fault = "none" /\ pc[c] = label
Goto(c, label) == pc' = [pc EXCEPT ![c] = label]
Quiet == sent' = NoSend
Fault(kind) == fault' = kind
NoFault == fault' = fault

\* The handler is finished and the thread is back in recv.
Return(c) ==
    /\ Goto(c, "recv")
    /\ pkt' = [pkt EXCEPT ![c] = NoPkt]
    /\ newRoom' = [newRoom EXCEPT ![c] = NULL]
    /\ UNCHANGED load

\* A step of a handler that only tells a room something ...
Announce(c, here, r) ==
    /\ Running(c, here) /\ NoFault
    /\ send_message(c, "notice", r, NULL)
    /\ UNCHANGED <<conns, session, client, users, rooms, numRooms>>

\* ... or tells its own client which room it is in.
Reply(c, here, r, next) ==
    /\ Running(c, here) /\ Goto(c, next) /\ Quiet /\ NoFault
    /\ told' = [told EXCEPT ![c] = Append(@, r)]
    /\ UNCHANGED <<conns, locals, session, view, users, rooms, numRooms>>

\* A request of c can be read: its client is there and has read all but
\* MaxBehind of the replies sent to it.
Ready(c) ==
    /\ Running(c, "recv")
    /\ c \notin gone
    /\ Len(told[c]) <= MaxBehind

LoggedIn(c) == session[c] # NULL

\* The packet a logged in client sends carries the username and the current
\* room of the replies it has read so far.  A connection is that of a client program that
\* has just been started: one that reconnects keeps the name and the room of its
\* last session until it has read the new LOGSUC (ChatClient, UserRegistry).
Packet(c, x) ==
    [user |-> IF view[c] = NULL THEN NULL ELSE session[c],
     room |-> view[c], arg |-> x]

LowestFree(f) == peer[f] = NULL /\ \A g \in Fds : peer[g] = NULL => f <= g

Init ==
    /\ peer = [f \in Fds |-> NULL]
    /\ gone = {}
    /\ pc = [c \in Clients |-> "new"]
    /\ fd = [c \in Clients |-> NULL]
    /\ pkt = [c \in Clients |-> NoPkt]
    /\ newRoom = [c \in Clients |-> NULL]
    /\ load = [c \in Clients |-> NULL]
    /\ session = [c \in Clients |-> NULL]
    /\ view = [c \in Clients |-> NULL]
    /\ told = [c \in Clients |-> <<>>]
    /\ active = {}
    /\ members = [r \in RoomIDs |-> [n \in Names |-> 0]]
    /\ roomID = [n \in Names |-> NULL]
    /\ sock \in [Names -> Fds]     \* the descriptors of an earlier run, read from Users.bin
    /\ rooms = [r \in RoomIDs |-> IF r = DEFAULT_ROOM THEN LobbyName ELSE NULL]
    /\ numRooms = DEFAULT_ROOM + 1
    /\ sent = NoSend
    /\ fault = "none"

\* main: accept a connection on the lowest free descriptor and start its thread.
Accept(c) ==
    /\ Running(c, "new")
    /\ \E f \in Fds : /\ LowestFree(f)
                      /\ peer' = [peer EXCEPT ![f] = c]
                      /\ fd' = [fd EXCEPT ![c] = f]
    /\ Goto(c, "recv") /\ Quiet /\ NoFault
    /\ UNCHANGED <<gone, locals, session, client, users, rooms, numRooms>>

\* The client end of a connection disappears without an EXIT.
Vanish(c) ==
    /\ Crashes
    /\ fault = "none" /\ pc[c] # "new" /\ c \notin gone
    /\ gone' = gone \cup {c}
    /\ Quiet /\ NoFault
    /\ UNCHANGED <<peer, fd, pc, locals, session, client, users, rooms, numRooms>>

\* The client's receive loop handles one LOGSUC or JOINSUC.
ReadReply(c) ==
    /\ fault = "none" /\ c \notin gone /\ told[c] # <<>>
    /\ view' = [view EXCEPT ![c] = Head(told[c])]
    /\ told' = [told EXCEPT ![c] = Tail(told[c])]
    /\ Quiet /\ NoFault
    /\ UNCHANGED <<conns, pc, locals, session, users, rooms, numRooms>>

-----------------------------------------------------------------------------
(* LOGIN, with valid credentials. *)

Login_Unchecked(c, n) ==
    /\ Ready(c) /\ ~LoggedIn(c)
    /\ active' = active \cup {n}
    /\ session' = [session EXCEPT ![c] = n]
    /\ pkt' = [pkt EXCEPT ![c] = [NoPkt EXCEPT !.arg = n]]
    /\ Goto(c, "login_sock") /\ Quiet /\ NoFault
    /\ UNCHANGED <<conns, newRoom, load, client, members, roomID, sock, rooms, numRooms>>

\* The user enters the active list; if the list has the user already, the
\* record found in registered_users_list is freed although the registered,
\* active and room lists still hold it.
Login(c, n) ==
    /\ Ready(c) /\ ~LoggedIn(c)
    /\ DoubleLogin \/ ~Online(n)
    /\ \/ /\ ~Online(n)
          /\ active' = active \cup {n}
          /\ session' = [session EXCEPT ![c] = n]
          /\ pkt' = [pkt EXCEPT ![c] = [NoPkt EXCEPT !.arg = n]]
          /\ Goto(c, "login_sock") /\ NoFault
       \/ /\ Online(n)
          /\ Fault("listedRecordFreed")
          /\ UNCHANGED <<active, session, pkt, pc>>
    /\ Quiet
    /\ UNCHANGED <<conns, newRoom, load, client, members, roomID, sock, rooms, numRooms>>

LoginSock_KeepsOldSock(c) ==
    /\ Running(c, "login_sock")
    /\ roomID' = [roomID EXCEPT ![pkt[c].arg] = DEFAULT_ROOM]
    /\ Goto(c, "login_room") /\ Quiet /\ NoFault
    /\ UNCHANGED <<conns, locals, session, client, active, members, sock, rooms, numRooms>>

LoginSock(c) ==
    /\ Running(c, "login_sock")
    /\ sock' = [sock EXCEPT ![pkt[c].arg] = fd[c]]
    /\ roomID' = [roomID EXCEPT ![pkt[c].arg] = DEFAULT_ROOM]
    /\ Goto(c, "login_room") /\ Quiet /\ NoFault
    /\ UNCHANGED <<conns, locals, session, client, active, members, rooms, numRooms>>

LoginRoom(c) ==
    /\ Running(c, "login_room")
    /\ members' = insertNode(DEFAULT_ROOM, pkt[c].arg)
    /\ Goto(c, "login_ack") /\ Quiet /\ NoFault
    /\ UNCHANGED <<conns, locals, session, client, active, roomID, sock, rooms, numRooms>>

\* LOGSUC: the client takes DEFAULT_ROOM as its current room.
LoginAck(c) == Reply(c, "login_ack", DEFAULT_ROOM, "login_notice")

LoginNotice(c) == Announce(c, "login_notice", DEFAULT_ROOM) /\ Return(c)

-----------------------------------------------------------------------------
(* JOIN: the packet names the wanted room and the client's current room. *)

Join(c, x) ==
    /\ Ready(c) /\ LoggedIn(c)
    /\ pkt' = [pkt EXCEPT ![c] = Packet(c, x)]
    /\ Goto(c, IF Rget_ID(x) = NULL THEN "join_id" ELSE "join_find")
    /\ Quiet /\ NoFault
    /\ UNCHANGED <<conns, newRoom, load, session, client, users, rooms, numRooms>>

\* createRoom(&room_list, numRooms, ...): the argument is read here ...
JoinID(c) ==
    /\ Running(c, "join_id")
    /\ numRooms <= MaxRoomID
    /\ newRoom' = [newRoom EXCEPT ![c] = numRooms]
    /\ Goto(c, "join_load") /\ Quiet /\ NoFault
    /\ UNCHANGED <<conns, pkt, load, session, client, users, rooms, numRooms>>

\* ... and numRooms++ is a load and a store of its own, under no lock.
JoinLoad(c) ==
    /\ Running(c, "join_load")
    /\ load' = [load EXCEPT ![c] = numRooms]
    /\ Goto(c, "join_store") /\ Quiet /\ NoFault
    /\ UNCHANGED <<conns, pkt, newRoom, session, client, users, rooms, numRooms>>

JoinStore(c) ==
    /\ Running(c, "join_store")
    /\ numRooms' = load[c] + 1
    /\ load' = [load EXCEPT ![c] = NULL]
    /\ Goto(c, "join_insert") /\ Quiet /\ NoFault
    /\ UNCHANGED <<conns, pkt, newRoom, session, client, users, rooms>>

\* Nobody looks at what insertRoom returns.
JoinInsert(c) ==
    /\ Running(c, "join_insert")
    /\ rooms' = insertRoom(newRoom[c], pkt[c].arg)
    /\ Goto(c, "join_find") /\ Quiet /\ NoFault
    /\ UNCHANGED <<conns, locals, session, client, users, numRooms>>

JoinFind(c) ==
    /\ Running(c, "join_find")
    /\ newRoom' = [newRoom EXCEPT ![c] = Rget_roomFNAME(pkt[c].arg)]
    /\ Goto(c, "join_remove") /\ Quiet /\ NoFault
    /\ UNCHANGED <<conns, pkt, load, session, client, users, rooms, numRooms>>

\* The user is looked up and removed in the room the packet calls current: an
\* unknown room ends the request without an answer, and a user who is not in
\* its list makes removeUser follow a NULL pointer.
JoinRemove(c) ==
    /\ Running(c, "join_remove")
    /\ LET cur == pkt[c].room IN
       \/ /\ ~RoomExists(cur)
          /\ Return(c) /\ NoFault
          /\ UNCHANGED members
       \/ /\ RoomExists(cur) /\ ~InList(cur, pkt[c].user)
          /\ Fault("joinUserNull")
          /\ UNCHANGED <<pc, locals, members>>
       \/ /\ RoomExists(cur) /\ InList(cur, pkt[c].user)
          /\ members' = removeUser(cur, pkt[c].user)
          /\ Goto(c, "join_add") /\ NoFault
          /\ UNCHANGED locals
    /\ Quiet
    /\ UNCHANGED <<conns, session, client, active, roomID, sock, rooms, numRooms>>

JoinAdd(c) ==
    /\ Running(c, "join_add")
    /\ \/ /\ newRoom[c] = NULL
          /\ Fault("joinRoomNull")
          /\ UNCHANGED <<pc, roomID, members>>
       \/ /\ newRoom[c] # NULL
          /\ roomID' = [roomID EXCEPT ![pkt[c].user] = newRoom[c]]
          /\ members' = insertUser(newRoom[c], pkt[c].user)
          /\ Goto(c, "join_ack") /\ NoFault
    /\ Quiet
    /\ UNCHANGED <<conns, locals, session, client, active, sock, rooms, numRooms>>

JoinAck_OldRoom(c) == Reply(c, "join_ack", pkt[c].room, "join_left")
JoinAck(c) == Reply(c, "join_ack", newRoom[c], "join_left")

JoinLeft(c) ==
    Announce(c, "join_left", pkt[c].room) /\ Goto(c, "join_joined") /\ UNCHANGED locals

JoinJoined(c) == Announce(c, "join_joined", newRoom[c]) /\ Return(c)

-----------------------------------------------------------------------------
(* LEAVE: back to the lobby, silently refused when there is nothing to leave. *)

Leave(c) ==
    /\ Ready(c) /\ LoggedIn(c)
    /\ LET p == Packet(c, NULL) IN
       \/ /\ p.room = DEFAULT_ROOM \/ ~RoomExists(p.room) \/ ~InList(p.room, p.user)
          /\ UNCHANGED <<pc, pkt, members>>
       \/ /\ p.room # DEFAULT_ROOM /\ RoomExists(p.room) /\ InList(p.room, p.user)
          /\ members' = removeUser(p.room, p.user)
          /\ pkt' = [pkt EXCEPT ![c] = p]
          /\ Goto(c, "leave_add")
    /\ Quiet /\ NoFault
    /\ UNCHANGED <<conns, newRoom, load, session, client, active, roomID, sock, rooms, numRooms>>

LeaveAdd_NoInsert(c) ==
    /\ Running(c, "leave_add")
    /\ roomID' = [roomID EXCEPT ![pkt[c].user] = DEFAULT_ROOM]
    /\ Goto(c, "leave_left") /\ Quiet /\ NoFault
    /\ UNCHANGED <<conns, locals, session, client, active, members, sock, rooms, numRooms>>

LeaveAdd(c) ==
    /\ Running(c, "leave_add")
    /\ roomID' = [roomID EXCEPT ![pkt[c].user] = DEFAULT_ROOM]
    /\ members' = insertUser(DEFAULT_ROOM, pkt[c].user)
    /\ Goto(c, "leave_left") /\ Quiet /\ NoFault
    /\ UNCHANGED <<conns, locals, session, client, active, sock, rooms, numRooms>>

LeaveLeft(c) ==
    Announce(c, "leave_left", pkt[c].room) /\ Goto(c, "leave_ack") /\ UNCHANGED locals

LeaveAck_NoReply(c) ==
    /\ Running(c, "leave_ack") /\ Goto(c, "leave_joined") /\ Quiet /\ NoFault
    /\ UNCHANGED <<conns, locals, session, client, users, rooms, numRooms>>

LeaveAck_Wiped(c) == Reply(c, "leave_ack", NULL, "leave_joined")

LeaveAck(c) == Reply(c, "leave_ack", DEFAULT_ROOM, "leave_joined")

LeaveJoined(c) == Announce(c, "leave_joined", DEFAULT_ROOM) /\ Return(c)

-----------------------------------------------------------------------------
(* Chat messages and INVITE. *)

\* A message goes to the room its packet names, whoever wrote it, except to the
\* connection it came from.  A client without a current room sends no message.
Chat(c) ==
    /\ Ready(c) /\ LoggedIn(c) /\ view[c] # NULL
    /\ send_message(c, "chat", view[c], fd[c])
    /\ NoFault
    /\ UNCHANGED <<conns, pc, locals, session, client, users, rooms, numRooms>>

\* invite looks the invitee up in the active list; an unknown room or invitee
\* only earns an error reply.
Invite(c, n) ==
    /\ Ready(c) /\ LoggedIn(c)
    /\ RoomExists(view[c]) /\ Online(n)
    /\ pkt' = [pkt EXCEPT ![c] = Packet(c, n)]
    /\ Goto(c, "invite_send") /\ Quiet /\ NoFault
    /\ UNCHANGED <<conns, newRoom, load, session, client, users, rooms, numRooms>>

InviteSend_ToSender(c) ==
    /\ Running(c, "invite_send")
    /\ sent' = [kind |-> "invite", by |-> c, re |-> pkt[c].arg, to |-> {peer[fd[c]]}]
    /\ Return(c) /\ NoFault
    /\ UNCHANGED <<conns, session, client, users, rooms, numRooms>>

\* The descriptor is read from the invitee's record at the send.
InviteSend(c) ==
    /\ Running(c, "invite_send")
    /\ sent' = [kind |-> "invite", by |-> c, re |-> pkt[c].arg,
                to |-> {peer[sock[pkt[c].arg]]} \ {NULL}]
    /\ Return(c) /\ NoFault
    /\ UNCHANGED <<conns, session, client, users, rooms, numRooms>>

-----------------------------------------------------------------------------
(* EXIT and lost connections. *)

exit_client_InLobby(c, p) ==
    \/ /\ InList(DEFAULT_ROOM, p.user)
       /\ pkt' = [pkt EXCEPT ![c] = p]
       /\ Goto(c, "exit_notice")
    \/ /\ ~InList(DEFAULT_ROOM, p.user)
       /\ Goto(c, "done")
       /\ UNCHANGED pkt

\* exit_client looks its user up by the username in the packet; without a
\* match it returns and the thread ends, the descriptor still open.
exit_client(c, p) ==
    \/ /\ Online(p.user)
       /\ pkt' = [pkt EXCEPT ![c] = p]
       /\ Goto(c, "exit_notice")
    \/ /\ ~Online(p.user)
       /\ Goto(c, "done")
       /\ UNCHANGED pkt

Exit(c) ==
    /\ Ready(c) /\ LoggedIn(c)
    /\ exit_client(c, Packet(c, NULL))
    /\ Quiet /\ NoFault
    /\ UNCHANGED <<conns, newRoom, load, session, client, users, rooms, numRooms>>

\* EXIT before login: the descriptor is closed and the thread ends.
ExitNotLoggedIn(c) ==
    /\ Ready(c) /\ ~LoggedIn(c)
    /\ peer' = [peer EXCEPT ![fd[c]] = NULL]
    /\ Goto(c, "done") /\ Quiet /\ NoFault
    /\ UNCHANGED <<gone, fd, locals, session, client, users, rooms, numRooms>>

\* recv fails on a reset connection: a logged in thread takes the zeroed packet
\* for an abrupt disconnect.  (An orderly end of stream makes recv return 0 and
\* the thread call recv again, for ever: no step.)
Reset(c) ==
    /\ Running(c, "recv") /\ c \in gone /\ LoggedIn(c)
    /\ exit_client(c, NoPkt)
    /\ Quiet /\ NoFault
    /\ UNCHANGED <<conns, newRoom, load, session, client, users, rooms, numRooms>>

ExitNotice(c) ==
    Announce(c, "exit_notice", roomID[pkt[c].user]) /\ Goto(c, "exit_close") /\ UNCHANGED locals

\* Goodbye and close: from here on the descriptor can be handed out again.
ExitClose(c) ==
    /\ Running(c, "exit_close")
    /\ peer' = [peer EXCEPT ![fd[c]] = NULL]
    /\ Goto(c, "exit_room") /\ Quiet /\ NoFault
    /\ UNCHANGED <<gone, fd, locals, session, client, users, rooms, numRooms>>

ExitRoom_Lobby(c) ==
    /\ Running(c, "exit_room")
    /\ members' = removeUser(DEFAULT_ROOM, pkt[c].user)
    /\ Goto(c, "exit_active") /\ Quiet /\ NoFault
    /\ UNCHANGED <<conns, locals, session, client, active, roomID, sock, rooms, numRooms>>

ExitRoom(c) ==
    /\ Running(c, "exit_room")
    /\ members' = removeUser(roomID[pkt[c].user], pkt[c].user)
    /\ Goto(c, "exit_active") /\ Quiet /\ NoFault
    /\ UNCHANGED <<conns, locals, session, client, active, roomID, sock, rooms, numRooms>>

ExitActive(c) ==
    /\ Running(c, "exit_active")
    /\ active' = active \ {pkt[c].user}
    /\ session' = [session EXCEPT ![c] = NULL]
    /\ pkt' = [pkt EXCEPT ![c] = NoPkt]
    /\ Goto(c, "done") /\ Quiet /\ NoFault
    /\ UNCHANGED <<conns, newRoom, load, client, members, roomID, sock, rooms, numRooms>>

-----------------------------------------------------------------------------

\* A step the thread of c takes by itself, once it handles a request.
Handler(c) ==
    \/ LoginSock(c) \/ LoginRoom(c) \/ LoginAck(c) \/ LoginNotice(c)
    \/ JoinID(c) \/ JoinLoad(c) \/ JoinStore(c) \/ JoinInsert(c) \/ JoinFind(c)
    \/ JoinRemove(c) \/ JoinAdd(c) \/ JoinAck(c) \/ JoinLeft(c) \/ JoinJoined(c)
    \/ LeaveAdd(c) \/ LeaveLeft(c) \/ LeaveAck(c) \/ LeaveJoined(c)
    \/ InviteSend(c)
    \/ ExitNotice(c) \/ ExitClose(c) \/ ExitRoom(c) \/ ExitActive(c)

\* A request of c is read, or its connection fails.
Request(c) ==
    \/ \E n \in Names : Login(c, n) \/ Invite(c, n)
    \/ \E x \in RoomNames : Join(c, x)
    \/ Leave(c) \/ Chat(c) \/ Exit(c) \/ ExitNotLoggedIn(c) \/ Reset(c)

Step(c) == Accept(c) \/ Vanish(c) \/ ReadReply(c) \/ Request(c) \/ Handler(c)

Next == \E c \in Clients : Step(c)

\* No handler waits for a client or for another thread, so the scheduler alone
\* lets every thread finish what it has begun.  Nothing makes a client act.
Fairness == \A c \in Clients : WF_vars(Handler(c))

Spec == Init /\ [][Next]_vars /\ Fairness

-----------------------------------------------------------------------------
(* Properties. *)

Packets == [user : Names \cup {NULL}, room : RoomIDs \cup {NULL},
            arg : Names \cup RoomNames \cup {NULL}]
Sends   == [kind : {"none", "notice", "chat", "invite"}, by : Clients \cup {NULL},
            re : RoomIDs \cup Names \cup {NULL}, to : SUBSET Clients]
Faults  == {"none", "listedRecordFreed", "joinUserNull", "joinRoomNull"}

\* The types of the variables: threads, lists, shared records and counters hold
\* the kinds of values the C declarations give them.
TypeOK ==
    /\ peer \in [Fds -> Clients \cup {NULL}]
    /\ gone \subseteq Clients
    /\ pc \in [Clients -> Labels]
    /\ fd \in [Clients -> Fds \cup {NULL}]
    /\ pkt \in [Clients -> Packets]
    /\ newRoom \in [Clients -> RoomIDs \cup {NULL}]
    /\ load \in [Clients -> Nat \cup {NULL}]
    /\ session \in [Clients -> Names \cup {NULL}]
    /\ view \in [Clients -> RoomIDs \cup {NULL}]
    /\ told \in [Clients -> Seq(RoomIDs)]
    /\ active \subseteq Names
    /\ members \in [RoomIDs -> [Names -> Nat]]
    /\ roomID \in [Names -> RoomIDs \cup {NULL}]
    /\ sock \in [Names -> Fds]
    /\ rooms \in [RoomIDs -> RoomNames \cup {NULL}]
    /\ numRooms \in Nat
    /\ sent \in Sends
    /\ fault \in Faults

\* One session per user: a user is in the active list exactly as long as one
\* connection is logged in as that user, and never two (README.md:24; login and
\* exit_client keep the list and the threads' logged_in flags together).
OneSessionPerUser ==
    /\ \A n \in Names : Online(n) <=> \E c \in Clients : session[c] = n
    /\ \A c, d \in Clients : session[c] = session[d] /\ LoggedIn(c) => c = d

\* Where the thread of a logged in user stands while the user is in no room's
\* list: entering (login), between two rooms (join, leave), or leaving (exit).
Limbo == {"login_sock", "login_room", "join_add", "leave_add", "exit_active"}

Settled(c) == LoggedIn(c) /\ pc[c] \notin Limbo

\* Rooms partition the users: whatever the threads of all clients do to the room
\* lists, a settled user has one node, in the list of the existing room his
\* record names, and everybody else has none (login, join, leave, exit_client).
UsersInOneRoom ==
    /\ \A r \in RoomIDs, n \in Names :
           members[r][n] = IF \E c \in Clients : session[c] = n /\ Settled(c) /\ roomID[n] = r
                           THEN 1 ELSE 0
    /\ \A c \in Clients : Settled(c) => RoomExists(roomID[session[c]])

\* The abstract view: where the room lists have a user, and which rooms exist.
Offline == -1
Between == 0
Where(n) == IF ~Online(n) THEN Offline
            ELSE IF \E r \in RoomIDs : members[r][n] > 0
                 THEN CHOOSE r \in RoomIDs : members[r][n] > 0
                 ELSE Between

Abstract == INSTANCE Presence WITH
    where <- [n \in Names |-> Where(n)], NoRoom <- NULL

\* The server implements Presence: with one list call at a time, its room lists
\* never show a user in two rooms, entering a room that does not exist, leaving
\* the active list from inside a room, or moving without leaving first.
ImplementsPresence == Abstract!Spec

\* ... and with clients that wait for their replies, a user it has taken out of
\* one room's list reaches another room or logs out.
ImplementsFairPresence == Abstract!FairSpec

\* What the client will take for its room once it has read every reply is the
\* room the server has its user in, whenever its thread waits for a request
\* (LOGSUC and JOINSUC replies of login, join and leave; newRoom in the client).
ClientLearnsItsRoom ==
    \A c \in Clients :
        pc[c] = "recv" /\ LoggedIn(c) =>
            roomID[session[c]] = IF told[c] = <<>> THEN view[c] ELSE told[c][Len(told[c])]

\* Two clients that create a room of the same new name at once get one room: both have
\* seen the name free, with different numbers in hand, and insertRoom still refuses the
\* second (Rget_ID in join, createRoom; linked_list.c:394).
RoomNamesUnique ==
    \A q, r \in RoomIDs : rooms[q] = rooms[r] /\ rooms[q] # NULL => q = r

\* A message to a room reaches every other member whose socket is still open, and
\* otherwise only connections that were given the descriptor of a member who is
\* between close and the removal from the room (send_message, exit_client).
RoomMessageReach ==
    sent.kind \in {"notice", "chat"} =>
        /\ \A c \in Clients :
               Settled(c) /\ pc[c] # "exit_room" /\ roomID[session[c]] = sent.re
                   => (c \in sent.to <=> sent.kind = "notice" \/ c # sent.by)
        /\ \A c \in sent.to :
               \/ Settled(c) /\ roomID[session[c]] = sent.re
               \/ \E d \in Clients : /\ pc[d] = "exit_room" /\ fd[d] = fd[c]
                                     /\ roomID[session[d]] = sent.re

\* The same without the exception: only connections of members of a room are
\* sent the room's messages ("Rooms containing unique chat sessions
\* simultaneously", README.md:26).
RoomMessagesStayInRoom ==
    sent.kind \in {"notice", "chat"} =>
        \A c \in sent.to : Settled(c) /\ roomID[session[c]] = sent.re

\* An invitation goes to the invitee's connection, unless the invitee's login has
\* not stored the descriptor yet or the invitee is leaving (invite).
InvitationReach ==
    sent.kind = "invite" =>
        \A c \in Clients :
            session[c] = sent.re /\ pc[c] \notin {"login_sock", "exit_room", "exit_active"}
                => sent.to = {c}

\* Who speaks in a room is in it (send_message trusts the room number of the
\* packet, so this rests on clients that have read their replies).
SpeakerIsMember ==
    sent.kind = "chat" => members[sent.re][session[sent.by]] > 0

\* A thread that has ended has taken its user off the active list and out of the
\* room ("Remove user from their current room and the active user's list",
\* server_clients.c:726).
EndedSessionIsRemoved ==
    \A c \in Clients : pc[c] = "done" => ~LoggedIn(c)

\* With clients that wait for the replies to their commands the process is left to chance
\* only where it ignores that an insertion was refused: login's of a user who is
\* online, and join's of a new room whose number another new room has got.  A user is
\* always found in the room his packet names, and a room that others create at the same time
\* under the same name is found (login, join, createRoom).
OnlyRefusalsFault ==
    \/ fault = "none"
    \/ fault = "listedRecordFreed" /\ DoubleLogin
    \/ /\ fault = "joinRoomNull"
       /\ \E c \in Clients, r \in RoomIDs :
              /\ pc[c] = "join_add" /\ newRoom[c] = NULL
              /\ rooms[r] \notin {NULL, LobbyName, pkt[c].arg}

\* Join finds the room it has just looked up or created ("Create or join rooms",
\* README.md:27).
JoinFindsItsRoom == fault # "joinRoomNull"

\* An EXIT that names its user ends with the user off every list.
ExitRemovesUser ==
    \A c \in Clients, n \in Names :
        pc[c] = "exit_notice" /\ session[c] = n
            ~> ~Online(n) /\ \A r \in RoomIDs : members[r][n] = 0

\* A JOIN is answered with the ID of a room of the wanted name.
JoinIsAnswered ==
    \A c \in Clients, x \in RoomNames :
        pc[c] = "join_find" /\ pkt[c].arg = x
            ~> told[c] # <<>> /\ rooms[told[c][Len(told[c])]] = x

=============================================================================
