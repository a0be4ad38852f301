----------------------------- MODULE ChatClient -----------------------------
(***************************************************************************)
(* One chat client (src/client): the main thread that turns what the user  *)
(* types into packets, the SIGINT handler that interrupts it, and the      *)
(* receive threads, one for every /connect that worked, which share        *)
(* serverfd, username and currentRoom with it.  It is composed with a      *)
(* server that answers one packet at a time, as the handlers of            *)
(* server_clients.c do when nothing disturbs them, and that may go down    *)
(* and come back with no sessions.                                         *)
(*                                                                         *)
(* Connections are numbered as they are made; a descriptor is the          *)
(* connection it stands for.  nameMutex and roomMutex are held by the main *)
(* thread from one step to the next; a receive thread's sections are one   *)
(* step.  Lines the user types are commands with their arguments; real     *)
(* names, passwords and packets that are only displayed are left out.      *)
(*                                                                         *)
(* A definition X_Something just above X is a mutant of X.                 *)
(***************************************************************************)
EXTENDS Integers, Sequences, FiniteSets

CONSTANTS
    Names,     \* registered users
    Rooms,     \* room numbers
    MaxConns,  \* bound on the connections made
    MaxTyped,  \* bound on the lines typed
    MaxHasty,  \* bound on the lines typed before the last one was answered
    MaxDown,   \* bound on how often the server goes down
    NULL       \* empty username, no packet

DEFAULT_ROOM == 1000
Commands == {"login", "join", "leave", "chat", "exit"}
Replies  == {"LOGSUC", "JOINSUC", "EXIT", "SERV_ERR"}

ASSUME ClientAssumption ==
    /\ DEFAULT_ROOM \in Rooms /\ \A r \in Rooms : r \in Nat /\ r >= DEFAULT_ROOM
    /\ MaxConns \in Nat /\ MaxTyped \in Nat /\ MaxHasty \in Nat /\ MaxDown \in Nat
    /\ NULL \notin Names /\ NULL \notin Rooms /\ NULL \notin Commands \cup Replies

Conns == 1 .. MaxConns
BAD == -1   \* serverfd after a connect that failed

VARIABLES
    pc,           \* where the main thread stands
    sigint,       \* where the SIGINT handler stands, "no" before the signal
    pkt,          \* tx_pkt
    serverfd,     \* 0, BAD or a connection
    last,         \* chat_rx_thread, 0 if none
    open,         \* connections whose descriptor the client has not closed
    username,     \* the client's name, once a LOGSUC has told it
    currentRoom,  \* 0 before a LOGSUC
    rx,           \* rx[i]: the receive thread started with connection i
    toServer,     \* toServer[k]: packets on connection k the server has not read
    toClient,     \* toClient[k]: packets on connection k the client has not read
    up,           \* connections whose server end is open
    reset,        \* connections on which a reset waits for the client's next recv
    serving,      \* connections whose server thread runs
    user,         \* user[k]: who is logged in on connection k
    room,         \* room[k]: User.roomID of that user
    rooms,        \* the rooms the server has
    typed, downs, \* lines typed; times the server went down
    hasty         \* lines typed, and a SIGINT, while something was unanswered (observation)

shared  == <<serverfd, last, open, username, currentRoom>>
network == <<toServer, toClient, up, reset>>
server  == <<serving, user, room, rooms, downs>>
vars    == <<pc, sigint, pkt, shared, rx, network, server, typed, hasty>>

NoPkt == [op |-> NULL, user |-> NULL, room |-> 0, arg |-> NULL]
NoRx  == [pc |-> "none", on |-> 0, pkt |-> NoPkt]
nconns == Cardinality({i \in Conns : rx[i].pc # "none"})

Init ==
    /\ pc = "input" /\ sigint = "no" /\ pkt = NoPkt
    /\ serverfd = 0 /\ last = 0 /\ open = {}
    /\ username = NULL /\ currentRoom = 0
    /\ rx = [i \in Conns |-> NoRx]
    /\ toServer = [k \in Conns |-> <<>>] /\ toClient = [k \in Conns |-> <<>>]
    /\ up = {} /\ reset = {} /\ serving = {}
    /\ user = [k \in Conns |-> NULL] /\ room = [k \in Conns |-> 0]
    /\ rooms = {DEFAULT_ROOM}
    /\ typed = 0 /\ downs = 0 /\ hasty = 0

Main(label) == pc = label /\ sigint = "no"   \* the handler runs on the main thread's stack
NameMutexHeld == pc = "name"
RoomMutexHeld == pc = "room" \/ (pc = "command" /\ pkt.op \in {"join", "leave"})

\* Everything sent on the connection has been handled on both sides.
Quiet(k) ==
    /\ toServer[k] = <<>> /\ toClient[k] = <<>>
    /\ \A i \in Conns : rx[i].pkt = NoPkt
Waited == serverfd \in Conns => Quiet(serverfd)

-----------------------------------------------------------------------------
(* The main thread: a line is typed (userInput, userCommand). *)

Typed(isHasty) ==
    /\ Main("input") /\ typed < MaxTyped
    /\ typed' = typed + 1
    /\ isHasty => hasty < MaxHasty
    /\ hasty' = hasty + (IF isHasty THEN 1 ELSE 0)

\* /connect, /reconnect and auto-connect: serverfd is overwritten whatever it was,
\* and every connection gets a thread of its own, or none if there cannot be one more
\* (what chat_rx_thread is then is undefined: what it was, or nobody to wait for).
Connect_OneReceiver ==
    LET k == nconns + 1 IN
    /\ nconns < MaxConns
    /\ Typed(~Waited)
    /\ serverfd' = k /\ last' = IF last = 0 THEN k ELSE last
    /\ open' = open \cup {k} /\ up' = up \cup {k} /\ serving' = serving \cup {k}
    /\ rx' = [rx EXCEPT ![k].pc = IF last = 0 THEN "loop" ELSE "ended"]
    /\ UNCHANGED <<pc, sigint, pkt, username, currentRoom, toServer, toClient, reset,
                   user, room, rooms, downs>>

Connect ==
    LET k == nconns + 1 IN
    /\ nconns < MaxConns
    /\ Typed(~Waited)
    /\ serverfd' = k
    /\ open' = open \cup {k} /\ up' = up \cup {k} /\ serving' = serving \cup {k}
    /\ \/ last' = k /\ rx' = [rx EXCEPT ![k].pc = "loop"]
       \/ last' \in {last, k} /\ rx' = [rx EXCEPT ![k].pc = "failed"]
    /\ UNCHANGED <<pc, sigint, pkt, username, currentRoom, toServer, toClient, reset,
                   user, room, rooms, downs>>

\* ... also with the -1 of a connect that failed.
ConnectFails_StartsReceiver ==
    /\ Typed(~Waited)
    /\ serverfd' = BAD /\ last' = nconns + 1
    /\ UNCHANGED <<pc, sigint, pkt, open, username, currentRoom, rx, network, server>>

ConnectFails ==
    /\ Typed(~Waited)
    /\ serverfd' = BAD
    /\ UNCHANGED <<pc, sigint, pkt, last, open, username, currentRoom, rx, network, server>>

\* A line that becomes a packet (userCommand); /join and /leave put currentRoom in it (/exit
\* does too, but no server looks at it).
Command(op, arg) ==
    /\ Typed(~Waited)
    /\ pkt' = [op |-> op, user |-> NULL, arg |-> arg,
               room |-> IF op \in {"join", "leave"} THEN currentRoom ELSE 0]
    /\ pc' = "command"
    /\ UNCHANGED <<sigint, shared, rx, network, server>>

serverLogin == \E n \in Names : Command("login", n)
validJoin == \E r \in Rooms : Command("join", r)
Leave == Command("leave", NULL)
Exit == Command("exit", NULL)
Chat == Command("chat", NULL)

\* The rest of main's loop: name, room, send; nothing is sent without a serverfd.
AfterPacket(p) == IF p.op = "exit" THEN "close" ELSE "input"

FillName_Empty ==
    /\ Main("command")
    /\ IF serverfd = 0
       THEN pc' = AfterPacket(pkt) /\ pkt' = NoPkt
       ELSE pc' = "name" /\ UNCHANGED pkt
    /\ UNCHANGED <<sigint, shared, rx, network, server, typed, hasty>>

FillName ==
    /\ Main("command")
    /\ IF serverfd = 0
       THEN pc' = AfterPacket(pkt) /\ pkt' = NoPkt
       ELSE pc' = "name" /\ pkt' = [pkt EXCEPT !.user = username]
    /\ UNCHANGED <<sigint, shared, rx, network, server, typed, hasty>>

FillRoom ==
    /\ Main("name") /\ pc' = "room"
    /\ pkt' = IF pkt.op = "chat" THEN [pkt EXCEPT !.room = currentRoom] ELSE pkt
    /\ UNCHANGED <<sigint, shared, rx, network, server, typed, hasty>>

\* send on the current descriptor: lost if that is closed or no connection, answered
\* with a reset if the server has closed its end.
SendTo(k, p) ==
    /\ toServer' = IF k \in up \cap open THEN [toServer EXCEPT ![k] = Append(@, p)] ELSE toServer
    /\ reset' = IF k \in open \ up THEN reset \cup {k} ELSE reset
    /\ UNCHANGED <<toClient, up>>

SendPkt ==
    /\ Main("room") /\ pc' = AfterPacket(pkt) /\ pkt' = NoPkt
    /\ IF pkt.op = "chat" /\ pkt.room < DEFAULT_ROOM THEN UNCHANGED network ELSE SendTo(serverfd, pkt)
    /\ UNCHANGED <<sigint, shared, rx, server, typed, hasty>>

Close_NotYet ==
    /\ Main("close") /\ pc' = "join"
    /\ UNCHANGED <<sigint, pkt, shared, rx, network, server, typed, hasty>>

Close ==
    /\ Main("close") /\ pc' = "join"
    /\ open' = open \ {serverfd}
    /\ UNCHANGED <<sigint, pkt, serverfd, last, username, currentRoom, rx, network, server, typed, hasty>>

ReceiverEnded == last # 0 => rx[last].pc \in {"ended", "failed"}

Join ==
    /\ Main("join") /\ ReceiverEnded /\ pc' = "exited"
    /\ UNCHANGED <<sigint, pkt, shared, rx, network, server, typed, hasty>>

-----------------------------------------------------------------------------
(* sigintHandler, wherever the main thread is. *)

Interrupt ==
    /\ sigint = "no" /\ pc # "exited"
    /\ IF serverfd = 0 THEN pc' = "exited" /\ UNCHANGED sigint ELSE sigint' = "name" /\ UNCHANGED pc
    /\ hasty' = hasty + (IF Waited THEN 0 ELSE 1)
    /\ UNCHANGED <<pkt, shared, rx, network, server, typed>>

\* Under nameMutex, which the thread it interrupted may hold.
InterruptSend ==
    /\ sigint = "name" /\ ~NameMutexHeld
    /\ SendTo(serverfd, [NoPkt EXCEPT !.op = "exit", !.user = username])
    /\ open' = open \ {serverfd}
    /\ sigint' = "join"
    /\ UNCHANGED <<pc, pkt, serverfd, last, username, currentRoom, rx, server, typed, hasty>>

InterruptJoin ==
    /\ sigint = "join" /\ ReceiverEnded
    /\ pc' = "exited" /\ sigint' = "no"
    /\ UNCHANGED <<pkt, shared, rx, network, server, typed, hasty>>

-----------------------------------------------------------------------------
(* chatRX: recv on the value serverfd has now, then on that connection until it *)
(* returns.                                                                      *)

Set(i, locals) == rx' = [rx EXCEPT ![i] = locals]
Client == pc # "exited"

\* On a closed descriptor recv returns -1 and the packet, wiped by the turn before or
\* still as the thread's new stack has it, is all zeros: the thread ends.
Fetch(i) ==
    /\ Client /\ rx[i].pc = "loop"
    /\ Set(i, IF serverfd \in open THEN [rx[i] EXCEPT !.pc = "recv", !.on = serverfd]
              ELSE [rx[i] EXCEPT !.pc = "ended"])
    /\ UNCHANGED <<pc, sigint, pkt, shared, network, server, typed, hasty>>

\* A packet, the end of the stream (0: once more), or a reset (-1, taken for a packet
\* of zeros: the thread ends).
Recv(i) ==
    LET k == rx[i].on IN
    /\ Client /\ rx[i].pc = "recv"
    /\ \/ /\ toClient[k] # <<>>
          /\ Set(i, [rx[i] EXCEPT !.pc = "handle", !.pkt = Head(toClient[k])])
          /\ toClient' = [toClient EXCEPT ![k] = Tail(@)]
          /\ UNCHANGED reset
       \/ /\ toClient[k] = <<>> /\ k \notin up
          /\ Set(i, [rx[i] EXCEPT !.pc = IF k \in reset THEN "ended" ELSE "loop"])
          /\ reset' = reset \ {k}
          /\ UNCHANGED toClient
    /\ UNCHANGED <<pc, sigint, pkt, shared, toServer, up, server, typed, hasty>>

Handles(i, op) == Client /\ rx[i].pc = "handle" /\ rx[i].pkt.op = op
Handled(i) == Set(i, [rx[i] EXCEPT !.pc = "loop", !.pkt = NoPkt])

loggedIn_KeepsRoom(i) ==
    /\ Handles(i, "LOGSUC") /\ ~NameMutexHeld
    /\ username' = rx[i].pkt.user
    /\ Handled(i)
    /\ UNCHANGED <<pc, sigint, pkt, serverfd, last, open, currentRoom, network, server, typed, hasty>>

\* loggedIn: the name, then the room.
loggedIn(i) ==
    /\ Handles(i, "LOGSUC") /\ ~NameMutexHeld
    /\ username' = rx[i].pkt.user
    /\ Set(i, [rx[i] EXCEPT !.pc = "room"])
    /\ UNCHANGED <<pc, sigint, pkt, serverfd, last, open, currentRoom, network, server, typed, hasty>>

\* The room of loggedIn and of newRoom.
newRoom(i) ==
    /\ Handles(i, "JOINSUC") \/ (Client /\ rx[i].pc = "room")
    /\ ~RoomMutexHeld
    /\ currentRoom' = rx[i].pkt.room
    /\ Handled(i)
    /\ UNCHANGED <<pc, sigint, pkt, serverfd, last, open, username, network, server, typed, hasty>>

\* The server says goodbye: close the current descriptor, whatever this came from.
Goodbye(i) ==
    /\ Handles(i, "EXIT")
    /\ open' = open \ {serverfd}
    /\ Handled(i)
    /\ UNCHANGED <<pc, sigint, pkt, serverfd, last, username, currentRoom, network, server, typed, hasty>>

ShowError(i) ==
    /\ Handles(i, "SERV_ERR") /\ Handled(i)
    /\ UNCHANGED <<pc, sigint, pkt, shared, network, server, typed, hasty>>

-----------------------------------------------------------------------------
(* The server, as its clients see it. *)

\* The process ends: what it had not read is answered with a reset.
Dies ==
    /\ up' = {} /\ serving' = {} /\ rooms' = {DEFAULT_ROOM}
    /\ user' = [k \in Conns |-> NULL] /\ room' = [k \in Conns |-> 0]
    /\ toServer' = [k \in Conns |-> <<>>]
    /\ reset' = reset \cup {k \in up \cap open : toServer[k] # <<>>}
    /\ UNCHANGED <<pc, sigint, pkt, shared, rx, toClient, typed, hasty>>

ServerDown == downs < MaxDown /\ downs' = downs + 1 /\ Dies

Reply(k, op, n, r) ==
    toClient' = [toClient EXCEPT ![k] = Append(@, [op |-> op, user |-> n, room |-> r, arg |-> NULL])]
NoReply == UNCHANGED toClient

\* The sessions a packet is about: it is trusted to say who and where its user is.
Sessions(n, r) == {j \in Conns : user[j] = n /\ n # NULL /\ room[j] = r}
Online(n) == \E j \in Conns : user[j] = n

ServeGuest(k, p) ==
    /\ user[k] = NULL /\ UNCHANGED rooms
    /\ \/ /\ p.op = "login" /\ ~Online(p.arg)
          /\ user' = [user EXCEPT ![k] = p.arg] /\ room' = [room EXCEPT ![k] = DEFAULT_ROOM]
          /\ Reply(k, "LOGSUC", p.arg, DEFAULT_ROOM)
          /\ UNCHANGED <<up, serving>>
       \/ /\ p.op = "exit"
          /\ up' = up \ {k} /\ serving' = serving \ {k}
          /\ NoReply /\ UNCHANGED <<user, room>>
       \/ /\ p.op # "exit"   \* not logged in, wrong password or already online
          /\ Reply(k, "SERV_ERR", NULL, 0)
          /\ UNCHANGED <<up, serving, user, room>>

\* A move of the user the packet names.
Move(k, p, to) ==
    \E j \in Sessions(p.user, p.room) :
        /\ room' = [room EXCEPT ![j] = to]
        /\ Reply(k, "JOINSUC", NULL, to)

\* A room that is gone, and a user who is not in the room he is said to be in, are
\* NULL pointers that join and send_message follow.
Crashes(p) ==
    \/ p.op = "chat" /\ p.room \notin rooms
    \/ p.op = "join" /\ p.room \in rooms \cup {p.arg} /\ Sessions(p.user, p.room) = {}

ServeUser(k, p) ==
    /\ user[k] # NULL /\ ~Crashes(p)
    /\ \/ /\ p.op = "join" /\ rooms' = rooms \cup {p.arg}
          /\ \/ Move(k, p, p.arg)
             \/ p.room \notin rooms' /\ NoReply /\ UNCHANGED room
          /\ UNCHANGED <<up, serving, user>>
       \/ /\ p.op = "leave" /\ UNCHANGED <<up, serving, user, rooms>>
          /\ \/ p.room # DEFAULT_ROOM /\ Move(k, p, DEFAULT_ROOM)
             \/ /\ p.room = DEFAULT_ROOM \/ Sessions(p.user, p.room) = {}
                /\ NoReply /\ UNCHANGED room
       \/ /\ p.op = "exit" /\ serving' = serving \ {k} /\ UNCHANGED <<room, rooms>>
          /\ IF p.user # NULL /\ Online(p.user)
             THEN /\ user' = [j \in Conns |-> IF user[j] = p.user THEN NULL ELSE user[j]]
                  /\ Reply(k, "EXIT", NULL, 0) /\ up' = up \ {k}
             ELSE NoReply /\ UNCHANGED <<user, up>>
       \/ /\ p.op = "login" /\ Reply(k, "SERV_ERR", NULL, 0)
          /\ UNCHANGED <<up, serving, user, room, rooms>>
       \/ /\ p.op = "chat" /\ NoReply
          /\ UNCHANGED <<up, serving, user, room, rooms>>

\* The first packet of connection k is handled.
Serve(k) ==
    /\ k \in serving /\ toServer[k] # <<>>
    /\ LET p == Head(toServer[k]) IN
       \/ /\ ServeGuest(k, p) \/ ServeUser(k, p)
          /\ toServer' = [toServer EXCEPT ![k] = Tail(@)]
          /\ reset' = reset \cup {j \in (up \ up') \cap open : toServer'[j] # <<>>}
          /\ UNCHANGED <<pc, sigint, pkt, shared, rx, downs, typed, hasty>>
       \/ user[k] # NULL /\ Crashes(p) /\ Dies /\ UNCHANGED downs

-----------------------------------------------------------------------------

MainStep == FillName \/ FillRoom \/ SendPkt \/ Close \/ Join \/ InterruptSend \/ InterruptJoin
Receive(i) == Fetch(i) \/ Recv(i) \/ loggedIn(i) \/ newRoom(i) \/ Goodbye(i) \/ ShowError(i)

Next ==
    \/ Connect \/ ConnectFails \/ Interrupt
    \/ serverLogin \/ validJoin \/ Leave \/ Exit \/ Chat
    \/ MainStep
    \/ \E i \in Conns : Receive(i) \/ Serve(i)
    \/ ServerDown

\* Threads run and the server answers; nobody is obliged to type or to interrupt.
Spec ==
    /\ Init /\ [][Next]_vars
    /\ WF_vars(MainStep)
    /\ \A i \in Conns : WF_vars(Receive(i)) /\ WF_vars(Serve(i))

-----------------------------------------------------------------------------
(* Properties. *)

Packet == [op : Commands \cup Replies \cup {NULL},
           user : Names \cup {NULL}, room : Rooms \cup {0}, arg : Names \cup Rooms \cup {NULL}]
Request == {p \in Packet : (p.op = "login" => p.arg \in Names) /\ (p.op = "join" => p.arg \in Rooms)}
Thread == [pc : {"none", "loop", "recv", "handle", "room", "ended", "failed"}, on : Conns \cup {0}, pkt : Packet]

TypeOK ==
    /\ pc \in {"input", "command", "name", "room", "close", "join", "exited"}
    /\ sigint \in {"no", "name", "join"}
    /\ pkt \in Request
    /\ serverfd \in 0 .. nconns \cup {BAD} /\ last \in 0 .. nconns
    /\ open \subseteq 1 .. nconns /\ up \subseteq 1 .. nconns /\ serving \subseteq 1 .. nconns
    /\ reset \subseteq 1 .. nconns
    /\ username \in Names \cup {NULL} /\ currentRoom \in Rooms \cup {0}
    /\ rx \in [Conns -> Thread]
    /\ toServer \in [Conns -> Seq(Request)] /\ toClient \in [Conns -> Seq(Packet)]
    /\ user \in [Conns -> Names \cup {NULL}] /\ room \in [Conns -> Rooms \cup {0}]
    /\ rooms \subseteq Rooms
    /\ typed \in 0 .. MaxTyped /\ downs \in 0 .. MaxDown /\ hasty \in 0 .. MaxHasty + 1

\* On its first connection, however fast its user types, and on later ones if he
\* waits for his replies, the client ends up with the name and the room the server
\* has it under once it has handled everything it was sent (loggedIn, newRoom).
ViewSettles ==
    serverfd \in Conns /\ user[serverfd] # NULL /\ (nconns = 1 \/ hasty = 0) /\ Quiet(serverfd)
        => username = user[serverfd] /\ currentRoom = room[serverfd]

\* Of a user who waits for his replies the server gets packets that say who and
\* where he is, over reconnects and restarts of the server (main's sections on
\* nameMutex and roomMutex): what the handlers trust is true then.
SpeaksForItself ==
    \A k \in serving :
        hasty = 0 /\ user[k] # NULL /\ toServer[k] # <<>> =>
            LET p == Head(toServer[k]) IN
            /\ p.user = user[k]
            /\ p.op \in {"join", "leave", "chat"} => p.room = room[k]

\* While the current connection stands its own receive thread has not ended and waits
\* for nothing but what comes on it, unless that thread could not be created, over any
\* sequence of connects, lost connections and goodbyes (chatRX ends for good).
ReceiverLives ==
    serverfd \in open \cap up /\ rx[serverfd].pc # "failed" =>
        /\ rx[serverfd].pc # "ended"
        /\ rx[serverfd].pc = "recv" => rx[serverfd].on = serverfd

\* The last receive thread reads a connection that still stands and that a later
\* /connect, which failed or got no thread, has left.
LeftBehind == last # 0 /\ rx[last].pc = "recv" /\ rx[last].on \in up \ {serverfd}

\* The client of a user who has waited for his replies exits: /exit, and a SIGINT that
\* finds nameMutex free, do not wait for ever for the last receive thread, unless it was
\* left behind on an earlier connection.
ExitEnds ==
    /\ pc = "close" /\ hasty = 0 /\ ~LeftBehind ~> pc = "exited" \/ hasty # 0 \/ sigint # "no"
    /\ sigint = "name" /\ ~NameMutexHeld /\ hasty = 0 /\ ~LeftBehind ~> pc = "exited"

=============================================================================
