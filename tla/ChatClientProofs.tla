-------------------------- MODULE ChatClientProofs --------------------------
(***************************************************************************)
(* The theorems about ChatClient, for any number of users, rooms,          *)
(* connections, lines typed and restarts of the server.                    *)
(*                                                                         *)
(* The invariant has six layers.  ReceiverInv follows the descriptor the   *)
(* threads read serverfd for; ShapeInv says that nothing comes from where  *)
(* there is no connection or no thread, and that a user has one session.   *)
(* For a user who waits for his replies (hasty = 0) at most one packet is  *)
(* on its way (PatientInv), and on the current connection, whatever        *)
(* connections he has left standing.  On a connection that is followed,    *)
(* his or the first, the last news on their way to the client, or the      *)
(* client itself if there are none, have the name and the room right       *)
(* (ViewInv), because what such a user asks for is asked in the right name *)
(* and room (TruthInv), and so moves nobody else.                          *)
(***************************************************************************)
EXTENDS ChatClient, FiniteSetTheorems, SequenceTheorems, TLAPS

\* Threads are started in the order of their connections.
Started == \A i \in Conns : (rx[i].pc # "none") <=> (i <= nconns)

\* TypeOK is not inductive without the count of the threads, the bound Typed checks, and
\* a connection to read from.
TypeInv ==
    /\ TypeOK
    /\ nconns \in 0 .. MaxConns /\ Started
    /\ (sigint = "no" /\ pc # "exited") => hasty <= MaxHasty
    /\ \A i \in Conns : rx[i].pc = "recv" => rx[i].on \in Conns

\* The current descriptor is no connection or the last one, no thread reads a connection
\* older than its own, and the thread of the current connection has not ended on it.
ReceiverInv ==
    /\ serverfd \in {0, BAD, nconns}
    /\ \A i \in Conns : rx[i].pc = "recv" => rx[i].on \in i .. nconns
    /\ serverfd \in open \cap up => rx[serverfd].pc # "ended"

\* Only a thread that handles a packet has one, and nothing has happened on a connection
\* that is not made; a user is logged in on one at most.
ShapeInv ==
    /\ serving \subseteq up
    /\ \A i \in Conns :
          /\ rx[i].pc \notin {"handle", "room"} => rx[i].pkt = NoPkt
          /\ rx[i].pc = "room" => rx[i].pkt.op = "LOGSUC"
    /\ \A k \in Conns : k > nconns => toServer[k] = <<>> /\ toClient[k] = <<>> /\ user[k] = NULL
    /\ \A j, k \in Conns : user[j] # NULL /\ user[j] = user[k] => j = k

Idle  == \A i \in Conns : rx[i].pkt = NoPkt
Empty == \A k \in Conns : toServer[k] = <<>> /\ toClient[k] = <<>>

\* The main thread or the handler is making a packet.
Composing == (sigint = "no" /\ pc \in {"command", "name", "room"}) \/ sigint = "name"

\* While the user waits for his replies one thing at most is on its way, a request or its
\* reply, and on the current connection, whatever else he has left standing.
OneAtATime ==
    /\ \A k \in Conns : k # serverfd => toServer[k] = <<>> /\ toClient[k] = <<>>
    /\ \A k \in Conns : Len(toServer[k]) <= 1 /\ Len(toClient[k]) <= 1
    /\ \A k \in Conns : toServer[k] # <<>> => toClient[k] = <<>>
    /\ ~Empty => Idle
    /\ \A i, j \in Conns : rx[i].pkt # NoPkt /\ rx[j].pkt # NoPkt => i = j
    /\ Composing \/ serverfd \notin Conns => Idle /\ Empty

PatientInv == hasty = 0 => OneAtATime

\* The connections on which ViewSettles says something.
Followed(s) == serverfd = s /\ (hasty = 0 \/ nconns = 1)

News == {"LOGSUC", "JOINSUC"}
NoNews(q) == \A n \in DOMAIN q : q[n].op \notin News
IsNews(i) == rx[i].pkt.op \in News

\* Every LOGSUC that is not handled tells the name; if there is none the client knows it.
NameView(s) ==
    LET q == toClient[s] IN
    /\ \A n \in DOMAIN q : q[n].op = "LOGSUC" => q[n].user = user[s]
    /\ \A i \in Conns : rx[i].pkt.op = "LOGSUC" => rx[i].pkt.user = user[s]
    /\ \/ username = user[s]
       \/ \E n \in DOMAIN q : q[n].op = "LOGSUC"
       \/ \E i \in Conns : rx[i].pc = "handle" /\ rx[i].pkt.op = "LOGSUC"

\* The last news that is not handled tells the room; if there is none the client knows it.
RoomView(s) ==
    LET q == toClient[s] IN
    /\ \A n \in DOMAIN q :
          q[n].op \in News /\ (\A m \in DOMAIN q : m > n => q[m].op \notin News) => q[n].room = room[s]
    /\ NoNews(q) => \A i \in Conns : IsNews(i) => rx[i].pkt.room = room[s]
    /\ NoNews(q) /\ (\A i \in Conns : ~IsNews(i)) => currentRoom = room[s]

ViewInv ==
    \A s \in Conns : Followed(s) =>
        /\ user[s] # NULL => NameView(s) /\ RoomView(s)
        /\ user[s] = NULL /\ s \in serving => NoNews(toClient[s]) /\ \A i \in Conns : ~IsNews(i)

Truthful(p, k) == p.user = user[k] /\ (p.op \in {"join", "leave", "chat"} => p.room = room[k])

\* ... so the packet that is made, and the one on its way, are true.
TruthInv ==
    hasty = 0 => \A k \in Conns : serverfd = k /\ user[k] # NULL =>
        /\ toServer[k] # <<>> => Truthful(Head(toServer[k]), k)
        /\ sigint = "no" =>
           /\ pc \in {"command", "name", "room"} /\ pkt.op \in {"join", "leave"} => pkt.room = room[k]
           /\ pc \in {"name", "room"} => pkt.user = user[k]
           /\ pc = "room" => Truthful(pkt, k)

-----------------------------------------------------------------------------
(* Types. *)

\* What the assumptions say of the constants.
LEMMA Constants ==
    /\ MaxConns \in Nat /\ MaxTyped \in Nat /\ MaxHasty \in Nat /\ MaxDown \in Nat
    /\ 1000 \in Rooms /\ Rooms \subseteq Nat
    /\ NULL \notin Names /\ NULL \notin Rooms /\ NULL \notin Commands \cup Replies
    /\ \A k \in Conns : k \in Nat /\ k >= 1 /\ k <= MaxConns
BY ClientAssumption DEF DEFAULT_ROOM, Conns

\* No packet at all is a packet, and nothing a server could be asked.
LEMMA NoPktIsRequest == NoPkt \in Request /\ NoPkt.op = NULL
BY Constants DEF NoPkt, Request, Packet, Commands, Replies

\* The connections made are counted right.
LEMMA Counted ==
    ASSUME NEW m \in 0 .. MaxConns, NEW S, S = 1 .. m
    PROVE  Cardinality(S) = m
BY FS_Interval, Constants

\* A step of a receive thread: it moves no other, and makes no connection.
LEMMA ThreadMoves ==
    ASSUME TypeInv, NEW i \in Conns, NEW r \in Thread, Set(i, r), rx[i].pc # "none", r.pc # "none"
    PROVE  /\ rx' \in [Conns -> Thread] /\ rx'[i] = r
           /\ \A j \in Conns : j # i => rx'[j] = rx[j]
           /\ nconns' = nconns
<1>1. rx \in [Conns -> Thread]
  BY DEF TypeInv, TypeOK
<1>2. rx' \in [Conns -> Thread] /\ rx'[i] = r /\ \A j \in Conns : j # i => rx'[j] = rx[j]
  BY <1>1 DEF Set
<1>3. {j \in Conns : rx[j].pc # "none"} = {j \in Conns : rx'[j].pc # "none"}
  BY <1>2
<1> QED BY <1>2, <1>3 DEF nconns

\* A step that leaves rx alone makes no connection.
LEMMA SameConns == rx' = rx => nconns' = nconns
BY DEF nconns

\* Connecting makes one more, with a receive thread or without.
LEMMA ConnectCounts ==
    ASSUME TypeInv, Connect
    PROVE  /\ nconns' = nconns + 1 /\ nconns + 1 \in Conns
           /\ rx' \in [Conns -> Thread] /\ last' \in {last, nconns + 1}
           /\ rx'[nconns + 1].pc \in {"loop", "failed"} /\ rx'[nconns + 1].pkt = rx[nconns + 1].pkt
           /\ \A j \in Conns : j # nconns + 1 => rx'[j] = rx[j]
<1>1. nconns \in Nat /\ nconns + 1 \in Conns
  BY Constants DEF TypeInv, Connect, Conns
<1>2. rx \in [Conns -> Thread]
  BY DEF TypeInv, TypeOK
<1>3. PICK l \in {"loop", "failed"} : rx' = [rx EXCEPT ![nconns + 1].pc = l]
  BY DEF Connect
<1>4. /\ rx' \in [Conns -> Thread] /\ rx'[nconns + 1].pc = l /\ rx'[nconns + 1].pkt = rx[nconns + 1].pkt
      /\ \A j \in Conns : j # nconns + 1 => rx'[j] = rx[j]
  BY <1>1, <1>2, <1>3 DEF Thread
<1>5. \A j \in Conns : (rx'[j].pc # "none") <=> (j <= nconns + 1)
  <2>1. rx'[nconns + 1].pc # "none"
    BY <1>4
  <2>2. \A j \in Conns : (rx[j].pc # "none") <=> (j <= nconns)
    BY DEF TypeInv, Started
  <2>3. ASSUME NEW j \in Conns, j # nconns + 1 PROVE (rx'[j].pc # "none") <=> (j <= nconns + 1)
    <3>1. j \in Nat
      BY Constants
    <3> QED BY <1>1, <1>4, <2>2, <2>3, <3>1
  <2> QED BY <1>1, <2>1, <2>3
<1>6. {j \in Conns : rx'[j].pc # "none"} = 1 .. (nconns + 1)
  <2>1. \A j : j \in 1 .. (nconns + 1) <=> (j \in Conns /\ j <= nconns + 1)
    BY <1>1, Constants DEF Conns
  <2> QED BY <1>5, <2>1
<1>7. nconns + 1 \in 0 .. MaxConns
  BY <1>1, Constants
<1>8. nconns' = nconns + 1
  BY <1>6, <1>7, Counted DEF nconns
<1>9. last' \in {last, nconns + 1}
  BY DEF Connect
<1> QED BY <1>1, <1>4, <1>8, <1>9

\* What the main thread sends was asked for.
LEMMA CommandIsRequest ==
    ASSUME TypeInv, serverLogin \/ validJoin \/ Leave \/ Exit \/ Chat
    PROVE  \E op \in Commands, arg \in Names \cup Rooms \cup {NULL} :
              /\ Command(op, arg)
              /\ (op = "login" => arg \in Names) /\ (op = "join" => arg \in Rooms)
BY DEF serverLogin, validJoin, Leave, Exit, Chat, Commands

\* Sending.
LEMMA SendTypes ==
    ASSUME TypeInv, NEW k, NEW p \in Request, SendTo(k, p)
    PROVE  /\ toServer' \in [Conns -> Seq(Request)] /\ reset' \subseteq 1 .. nconns
           /\ toClient' = toClient /\ up' = up
           /\ \A j \in Conns : j # k => toServer'[j] = toServer[j]
           /\ \A j \in Conns : toServer'[j] = toServer[j] \/ (j = k /\ toServer'[j] = Append(toServer[j], p))
<1>1. toServer \in [Conns -> Seq(Request)] /\ up \subseteq 1 .. nconns /\ open \subseteq 1 .. nconns
      /\ reset \subseteq 1 .. nconns
  BY DEF TypeInv, TypeOK
<1>2. \A j \in Conns : Append(toServer[j], p) \in Seq(Request)
  BY <1>1, AppendProperties
<1> QED BY <1>1, <1>2 DEF SendTo

\* Answering.
LEMMA ReplyTypes ==
    ASSUME TypeInv, NEW k \in Conns, NEW op \in Replies, NEW n \in Names \cup {NULL}, NEW r \in Rooms \cup {0},
           Reply(k, op, n, r)
    PROVE  /\ toClient' \in [Conns -> Seq(Packet)]
           /\ toClient'[k] = Append(toClient[k], [op |-> op, user |-> n, room |-> r, arg |-> NULL])
           /\ \A j \in Conns : j # k => toClient'[j] = toClient[j]
<1>1. toClient \in [Conns -> Seq(Packet)]
  BY DEF TypeInv, TypeOK
<1>2. [op |-> op, user |-> n, room |-> r, arg |-> NULL] \in Packet
  BY DEF Packet
<1>3. Append(toClient[k], [op |-> op, user |-> n, room |-> r, arg |-> NULL]) \in Seq(Packet)
  BY <1>1, <1>2, AppendProperties
<1> QED BY <1>1, <1>3 DEF Reply

\* The server's handlers keep the types of what it keeps.
LEMMA ServeTypes ==
    ASSUME TypeInv, NEW k \in Conns, NEW p \in Request, ServeGuest(k, p) \/ ServeUser(k, p)
    PROVE  /\ toClient' \in [Conns -> Seq(Packet)]
           /\ user' \in [Conns -> Names \cup {NULL}] /\ room' \in [Conns -> Rooms \cup {0}]
           /\ rooms' \subseteq Rooms /\ up' \subseteq up /\ serving' \subseteq serving
           /\ k \in serving' => up' = up
<1>1. /\ user \in [Conns -> Names \cup {NULL}] /\ room \in [Conns -> Rooms \cup {0}]
      /\ toClient \in [Conns -> Seq(Packet)] /\ rooms \subseteq Rooms
  BY DEF TypeInv, TypeOK
<1>2. /\ p.op = "login" => p.arg \in Names
      /\ p.op = "join" => p.arg \in Rooms
  BY DEF Request
<1>3. DEFAULT_ROOM \in Rooms
  BY ClientAssumption
<1>4. \A op \in {"LOGSUC", "JOINSUC", "EXIT", "SERV_ERR"}, n \in Names \cup {NULL}, r \in Rooms \cup {0} :
         Reply(k, op, n, r) => toClient' \in [Conns -> Seq(Packet)]
  BY ReplyTypes DEF Replies
<1>5. ASSUME NEW to \in Rooms, Move(k, p, to)
      PROVE  toClient' \in [Conns -> Seq(Packet)] /\ room' \in [Conns -> Rooms \cup {0}]
  BY <1>1, <1>4, <1>5 DEF Move
<1>6. CASE ServeGuest(k, p)
  BY <1>1, <1>2, <1>3, <1>4, <1>6 DEF ServeGuest, NoReply
<1>7. CASE ServeUser(k, p)
  <2>1. CASE p.op = "join"
    BY <1>1, <1>2, <1>5, <1>7, <2>1 DEF ServeUser, NoReply
  <2>2. CASE p.op = "leave"
    BY <1>1, <1>3, <1>5, <1>7, <2>2 DEF ServeUser, NoReply
  <2>3. CASE p.op = "exit"
    BY <1>1, <1>4, <1>7, <2>3 DEF ServeUser, NoReply
  <2>4. CASE p.op \in {"login", "chat"}
    BY <1>1, <1>4, <1>7, <2>4 DEF ServeUser, NoReply
  <2> QED BY <1>7, <2>1, <2>2, <2>3, <2>4 DEF ServeUser
<1> QED BY <1>6, <1>7

\* The first packet of a connection.
LEMMA FirstPacket ==
    ASSUME TypeInv, NEW k \in Conns, toServer[k] # <<>>
    PROVE  Head(toServer[k]) \in Request /\ Tail(toServer[k]) \in Seq(Request)
<1>1. toServer[k] \in Seq(Request)
  BY DEF TypeInv, TypeOK
<1> QED BY <1>1, HeadTailProperties

LEMMA FirstReply ==
    ASSUME TypeInv, NEW k \in Conns, toClient[k] # <<>>
    PROVE  Head(toClient[k]) \in Packet /\ Tail(toClient[k]) \in Seq(Packet)
<1>1. toClient[k] \in Seq(Packet)
  BY DEF TypeInv, TypeOK
<1> QED BY <1>1, HeadTailProperties

LEMMA TypeInit == Init => TypeInv
<1> SUFFICES ASSUME Init PROVE TypeInv
  OBVIOUS
<1>1. rx = [i \in Conns |-> NoRx] /\ NoRx.pc = "none" /\ NoRx \in Thread
  BY NoPktIsRequest DEF Init, NoRx, Thread, Request
<1>2. {i \in Conns : rx[i].pc # "none"} = {}
  BY <1>1
<1>3. nconns = 0
  BY <1>2, FS_EmptySet DEF nconns
<1>4. toServer \in [Conns -> Seq(Request)] /\ toClient \in [Conns -> Seq(Packet)]
  BY EmptySeq DEF Init
<1>5. Started
  BY <1>1, <1>3, Constants DEF Started
<1>6. TypeOK
  BY <1>1, <1>3, <1>4, Constants, NoPktIsRequest DEF Init, TypeOK, DEFAULT_ROOM
<1> QED BY <1>1, <1>3, <1>5, <1>6, Constants DEF Init, TypeInv

\* A step that leaves the receive threads alone.
LEMMA TypeUnmoved ==
    ASSUME TypeInv, rx' = rx, TypeOK', (sigint = "no" /\ pc # "exited")' => hasty' <= MaxHasty
    PROVE  TypeInv'
<1>1. nconns' = nconns
  BY SameConns
<1> QED BY <1>1 DEF TypeInv, Started

\* A step of one of them.
LEMMA TypeMoved ==
    ASSUME TypeInv, NEW i \in Conns, NEW r \in Thread, Set(i, r), rx[i].pc # "none", r.pc # "none",
           r.pc = "recv" => r.on \in Conns, TypeOK', UNCHANGED <<sigint, pc, hasty>>
    PROVE  TypeInv'
<1>1. /\ rx'[i] = r /\ \A j \in Conns : j # i => rx'[j] = rx[j]
      /\ nconns' = nconns
  BY ThreadMoves
<1>2. Started'
  BY <1>1 DEF TypeInv, Started
<1> QED BY <1>1, <1>2 DEF TypeInv

LEMMA TypeTyping ==
    ASSUME TypeInv, Connect \/ ConnectFails \/ Interrupt \/ serverLogin \/ validJoin \/ Leave \/ Exit \/ Chat
    PROVE  TypeInv'
<1>1. TypeOK /\ nconns \in Nat /\ hasty \in Nat
  BY DEF TypeInv, TypeOK
<1>2. ASSUME NEW b, Typed(b)
      PROVE  typed' \in 0 .. MaxTyped /\ hasty' \in 0 .. MaxHasty + 1 /\ hasty' <= MaxHasty
  BY <1>1, <1>2, Constants DEF Typed, Main, TypeInv, TypeOK
<1>3. CASE Connect
  <2>1. /\ nconns' = nconns + 1 /\ nconns + 1 \in Conns
        /\ rx' \in [Conns -> Thread] /\ last' \in {last, nconns + 1}
        /\ rx'[nconns + 1].pc \in {"loop", "failed"}
        /\ \A j \in Conns : j # nconns + 1 => rx'[j] = rx[j]
    BY <1>3, ConnectCounts
  <2>2. typed' \in 0 .. MaxTyped /\ hasty' \in 0 .. MaxHasty + 1 /\ hasty' <= MaxHasty
    BY <1>2, <1>3 DEF Connect
  <2>3. nconns + 1 \in 1 .. (nconns + 1) /\ 1 .. nconns \subseteq 1 .. (nconns + 1) /\ 0 .. nconns \subseteq 0 .. (nconns + 1)
    BY <1>1
  <2>4. TypeOK'
    BY <1>1, <1>3, <2>1, <2>2, <2>3 DEF TypeOK, Connect
  <2>5. rx'[nconns + 1].pc \notin {"none", "recv"}
    BY <2>1
  <2>6. Started'
    <3>1. ASSUME NEW j \in Conns, j # nconns + 1 PROVE (rx'[j].pc # "none") <=> (j <= nconns + 1)
      BY <1>1, <2>1, <3>1, Constants DEF TypeInv, Started
    <3>2. \A j \in Conns : (rx'[j].pc # "none") <=> (j <= nconns + 1)
      BY <1>1, <2>5, <3>1
    <3> QED BY <2>1, <3>2 DEF Started
  <2>7. \A j \in Conns : rx'[j].pc = "recv" => rx'[j].on \in Conns
    BY <2>1, <2>5 DEF TypeInv
  <2> QED BY <2>1, <2>2, <2>4, <2>6, <2>7, Constants DEF TypeInv, Conns
<1>4. CASE ConnectFails
  <2>1. TypeOK' /\ hasty' <= MaxHasty /\ rx' = rx
    BY <1>1, <1>2, <1>4, SameConns DEF TypeOK, ConnectFails, network, server
  <2> QED BY <2>1, TypeUnmoved
<1>5. CASE Interrupt
  <2>1. hasty' \in 0 .. MaxHasty + 1
    BY <1>1, <1>5, Constants DEF Interrupt, TypeInv
  <2>2. TypeOK' /\ rx' = rx /\ ~(sigint = "no" /\ pc # "exited")'
    BY <1>1, <1>5, <2>1, SameConns DEF TypeOK, Interrupt, shared, network, server
  <2> QED BY <2>2, TypeUnmoved
<1>6. CASE serverLogin \/ validJoin \/ Leave \/ Exit \/ Chat
  <2>1. PICK op \in Commands, arg \in Names \cup Rooms \cup {NULL} :
           /\ Command(op, arg)
           /\ (op = "login" => arg \in Names) /\ (op = "join" => arg \in Rooms)
    BY <1>6, CommandIsRequest
  <2>2. pkt' \in Request
    BY <1>1, <2>1 DEF Command, Request, Packet, TypeOK
  <2>3. TypeOK' /\ hasty' <= MaxHasty /\ rx' = rx
    BY <1>1, <1>2, <2>1, <2>2, SameConns DEF TypeOK, Command, shared, network, server
  <2> QED BY <2>3, TypeUnmoved
<1> QED BY <1>3, <1>4, <1>5, <1>6

LEMMA TypeMain ==
    ASSUME TypeInv, MainStep
    PROVE  TypeInv'
<1>1. TypeOK /\ pkt \in Request
  BY DEF TypeInv, TypeOK
<1>2. [pkt EXCEPT !.user = username] \in Request /\ [pkt EXCEPT !.room = currentRoom] \in Request
  BY <1>1 DEF TypeOK, Request, Packet
<1>3. [NoPkt EXCEPT !.op = "exit", !.user = username] \in Request
  BY <1>1, NoPktIsRequest DEF TypeOK, Request, Packet, Commands
<1>4. rx' = rx /\ nconns' = nconns
  BY SameConns DEF MainStep, FillName, FillRoom, SendPkt, Close, Join, InterruptSend, InterruptJoin
<1>5. CASE FillName
  <2>1. TypeOK'
    BY <1>1, <1>2, <1>4, <1>5, NoPktIsRequest DEF TypeOK, FillName, AfterPacket, shared, network, server
  <2> QED BY <1>4, <1>5, <2>1, TypeUnmoved DEF FillName, Main, TypeInv
<1>6. CASE FillRoom
  <2>1. TypeOK'
    BY <1>1, <1>2, <1>4, <1>6 DEF TypeOK, FillRoom, shared, network, server
  <2> QED BY <1>4, <1>6, <2>1, TypeUnmoved DEF FillRoom, Main, TypeInv
<1>7. CASE SendPkt
  <2>1. toServer' \in [Conns -> Seq(Request)] /\ reset' \subseteq 1 .. nconns /\ toClient' = toClient /\ up' = up
    BY <1>1, <1>7, SendTypes DEF SendPkt, TypeOK, network
  <2>2. TypeOK'
    BY <1>1, <1>4, <1>7, <2>1, NoPktIsRequest DEF TypeOK, SendPkt, AfterPacket, shared, server
  <2> QED BY <1>4, <1>7, <2>2, TypeUnmoved DEF SendPkt, Main, TypeInv
<1>8. CASE Close \/ Join \/ InterruptJoin
  <2>1. TypeOK'
    BY <1>1, <1>4, <1>8 DEF TypeOK, Close, Join, InterruptJoin, shared, network, server
  <2> QED BY <1>4, <1>8, <2>1, TypeUnmoved DEF Close, Join, InterruptJoin, Main, TypeInv
<1>9. CASE InterruptSend
  <2>1. toServer' \in [Conns -> Seq(Request)] /\ reset' \subseteq 1 .. nconns /\ toClient' = toClient /\ up' = up
    BY <1>3, <1>9, SendTypes DEF InterruptSend
  <2>2. TypeOK'
    BY <1>1, <1>4, <1>9, <2>1 DEF TypeOK, InterruptSend, server
  <2> QED BY <1>4, <1>9, <2>2, TypeUnmoved DEF InterruptSend
<1> QED BY <1>5, <1>6, <1>7, <1>8, <1>9 DEF MainStep

LEMMA TypeReceive ==
    ASSUME TypeInv, NEW i \in Conns, Receive(i)
    PROVE  TypeInv'
<1>1. TypeOK /\ rx[i] \in Thread
  BY DEF TypeInv, TypeOK
<1>2. rx[i].pc # "none"
  BY DEF Receive, Fetch, Recv, loggedIn, newRoom, Goodbye, ShowError, Handles
<1>3. NoPkt \in Packet
  BY NoPktIsRequest DEF Request
<1>4. [rx[i] EXCEPT !.pc = "loop", !.pkt = NoPkt] \in Thread
  BY <1>1, <1>3 DEF Thread
<1>5. \A l \in {"loop", "room", "ended"} : [rx[i] EXCEPT !.pc = l] \in Thread
  BY <1>1 DEF Thread
<1>6. CASE Fetch(i)
  <2> DEFINE r == IF serverfd \in open THEN [rx[i] EXCEPT !.pc = "recv", !.on = serverfd]
                  ELSE [rx[i] EXCEPT !.pc = "ended"]
  <2>1. serverfd \in open => serverfd \in Conns
    <3>1. nconns \in 0 .. MaxConns /\ open \subseteq 1 .. nconns /\ MaxConns \in Nat
      BY <1>1, Constants DEF TypeInv, TypeOK
    <3> QED BY <3>1 DEF Conns
  <2>2. r \in Thread /\ r.pc # "none" /\ (r.pc = "recv" => r.on \in Conns)
    BY <1>1, <2>1 DEF Thread
  <2>3. Set(i, r)
    BY <1>6 DEF Fetch
  <2> HIDE DEF r
  <2>4. rx' \in [Conns -> Thread] /\ nconns' = nconns
    BY <1>2, <2>2, <2>3, ThreadMoves
  <2>5. TypeOK'
    BY <1>1, <1>6, <2>4 DEF TypeOK, Fetch, shared, network, server
  <2> QED BY <1>2, <1>6, <2>2, <2>3, <2>5, TypeMoved DEF Fetch
<1>7. CASE Recv(i)
  <2>1. rx[i].on \in Conns
    BY <1>7 DEF Recv, TypeInv
  <2>2. PICK r \in Thread : /\ Set(i, r) /\ r.pc \notin {"none", "recv"} /\ reset' \subseteq reset
                            /\ toClient' \in [Conns -> Seq(Packet)]
    <3> DEFINE k == rx[i].on
    <3>1. CASE toClient[k] # <<>>
      <4>1. Head(toClient[k]) \in Packet /\ Tail(toClient[k]) \in Seq(Packet)
        BY <2>1, <3>1, FirstReply
      <4>2. [rx[i] EXCEPT !.pc = "handle", !.pkt = Head(toClient[k])] \in Thread
        BY <1>1, <4>1 DEF Thread
      <4>3. [rx[i] EXCEPT !.pc = "handle", !.pkt = Head(toClient[k])].pc = "handle"
        BY <1>1 DEF Thread
      <4> QED BY <1>1, <1>7, <3>1, <4>1, <4>2, <4>3 DEF Recv, TypeOK
    <3>2. CASE toClient[k] = <<>>
      <4>1. \A l \in {"loop", "ended"} : [rx[i] EXCEPT !.pc = l].pc = l
        BY <1>1 DEF Thread
      <4> QED BY <1>1, <1>5, <1>7, <3>2, <4>1 DEF Recv, TypeOK
    <3> QED BY <3>1, <3>2
  <2>3. rx' \in [Conns -> Thread] /\ nconns' = nconns
    BY <1>2, <2>2, ThreadMoves
  <2>4. TypeOK'
    BY <1>1, <1>7, <2>2, <2>3 DEF TypeOK, Recv, shared, server
  <2> QED BY <1>2, <1>7, <2>2, <2>4, TypeMoved DEF Recv
<1>8. CASE loggedIn(i)
  <2> DEFINE r == [rx[i] EXCEPT !.pc = "room"]
  <2>1. r \in Thread /\ r.pc = "room" /\ Set(i, r)
    BY <1>1, <1>5, <1>8 DEF loggedIn, Thread
  <2> HIDE DEF r
  <2>2. rx' \in [Conns -> Thread] /\ nconns' = nconns
    BY <1>2, <2>1, ThreadMoves
  <2>3. TypeOK'
    BY <1>1, <1>8, <2>2 DEF TypeOK, loggedIn, Thread, Packet, network, server
  <2> QED BY <1>2, <1>8, <2>1, <2>3, TypeMoved DEF loggedIn
<1>9. CASE newRoom(i) \/ Goodbye(i) \/ ShowError(i)
  <2> DEFINE r == [rx[i] EXCEPT !.pc = "loop", !.pkt = NoPkt]
  <2>1. r \in Thread /\ r.pc = "loop" /\ Set(i, r)
    BY <1>1, <1>4, <1>9 DEF newRoom, Goodbye, ShowError, Handled, Thread
  <2> HIDE DEF r
  <2>2. rx' \in [Conns -> Thread] /\ nconns' = nconns
    BY <1>2, <2>1, ThreadMoves
  <2>3. TypeOK'
    BY <1>1, <1>9, <2>2 DEF TypeOK, newRoom, Goodbye, ShowError, Thread, Packet, shared, network, server
  <2> QED BY <1>2, <1>9, <2>1, <2>3, TypeMoved DEF newRoom, Goodbye, ShowError
<1> QED BY <1>6, <1>7, <1>8, <1>9 DEF Receive

\* The server process ends.
LEMMA TypeDies ==
    ASSUME TypeInv, Dies, downs' \in 0 .. MaxDown
    PROVE  TypeInv'
<1>1. rx' = rx /\ nconns' = nconns
  BY SameConns DEF Dies
<1>2. toServer' \in [Conns -> Seq(Request)]
  BY EmptySeq DEF Dies
<1>3. TypeOK'
  BY <1>1, <1>2, ClientAssumption DEF TypeInv, TypeOK, Dies, shared
<1> QED BY <1>1, <1>3, TypeUnmoved DEF Dies, TypeInv

LEMMA TypeServer ==
    ASSUME TypeInv, ServerDown \/ \E k \in Conns : Serve(k)
    PROVE  TypeInv'
<1>1. TypeOK
  BY DEF TypeInv
<1>2. CASE ServerDown
  <2>1. downs' \in 0 .. MaxDown /\ Dies
    BY <1>1, <1>2, Constants DEF TypeOK, ServerDown
  <2> QED BY <2>1, TypeDies
<1>3. ASSUME NEW k \in Conns, Serve(k) PROVE TypeInv'
  <2> DEFINE p == Head(toServer[k])
  <2>1. p \in Request /\ Tail(toServer[k]) \in Seq(Request)
    BY <1>3, FirstPacket DEF Serve
  <2>2. CASE Dies /\ UNCHANGED downs
    BY <1>1, <2>2, TypeDies DEF TypeOK
  <2>3. CASE /\ ServeGuest(k, p) \/ ServeUser(k, p)
             /\ toServer' = [toServer EXCEPT ![k] = Tail(@)]
             /\ reset' = reset \cup {j \in (up \ up') \cap open : toServer'[j] # <<>>}
             /\ UNCHANGED <<pc, sigint, pkt, shared, rx, downs, typed, hasty>>
    <3>1. /\ toClient' \in [Conns -> Seq(Packet)]
          /\ user' \in [Conns -> Names \cup {NULL}] /\ room' \in [Conns -> Rooms \cup {0}]
          /\ rooms' \subseteq Rooms /\ up' \subseteq up /\ serving' \subseteq serving
      BY <2>1, <2>3, ServeTypes
    <3>2. rx' = rx /\ nconns' = nconns
      BY <2>3, SameConns
    <3>3. toServer' \in [Conns -> Seq(Request)]
      BY <1>1, <2>1, <2>3 DEF TypeOK
    <3>4. reset' \subseteq 1 .. nconns
      BY <1>1, <2>3 DEF TypeOK
    <3>5. TypeOK'
      BY <1>1, <2>3, <3>1, <3>2, <3>3, <3>4 DEF TypeOK, shared
    <3> QED BY <2>3, <3>2, <3>5, TypeUnmoved DEF TypeInv
  <2> QED BY <1>3, <2>2, <2>3 DEF Serve
<1> QED BY <1>2, <1>3

LEMMA TypeNext == TypeInv /\ [Next]_vars => TypeInv'
<1> SUFFICES ASSUME TypeInv, [Next]_vars PROVE TypeInv'
  OBVIOUS
<1>1. CASE UNCHANGED vars
  <2>1. rx' = rx /\ nconns' = nconns
    BY <1>1, SameConns DEF vars
  <2>2. TypeOK'
    BY <1>1, <2>1 DEF vars, shared, network, server, TypeInv, TypeOK
  <2> QED BY <1>1, <2>1, <2>2, TypeUnmoved DEF vars, TypeInv
<1> QED BY <1>1, TypeTyping, TypeMain, TypeReceive, TypeServer DEF Next

\* Every variable stays in its type: descriptors are of connections that were made, one
\* receive thread belongs to each, and a packet asks for what its handler reads of it.
THEOREM TypeCorrect == Spec => []TypeOK
<1>1. TypeInv => TypeOK
  BY DEF TypeInv
<1> QED BY <1>1, TypeInit, TypeNext, PTL DEF Spec

-----------------------------------------------------------------------------
(* The receive threads. *)

\* What each step of a receive thread does to it.
LEMMA HandledMoves ==
    ASSUME TypeInv, NEW i \in Conns, Handled(i)
    PROVE  /\ rx'[i].pc = "loop" /\ rx'[i].pkt = NoPkt
           /\ \A j \in Conns : j # i => rx'[j] = rx[j]
<1> DEFINE r == [rx[i] EXCEPT !.pc = "loop", !.pkt = NoPkt]
<1>1. rx \in [Conns -> Thread] /\ rx[i] \in Thread
  BY DEF TypeInv, TypeOK
<1>2. r.pc = "loop" /\ r.pkt = NoPkt
  BY <1>1 DEF Thread
<1>3. rx' = [rx EXCEPT ![i] = r]
  BY DEF Handled, Set
<1> HIDE DEF r
<1> QED BY <1>1, <1>2, <1>3

LEMMA FetchMoves ==
    ASSUME TypeInv, NEW i \in Conns, Fetch(i)
    PROVE  /\ serverfd \in open => rx'[i].pc = "recv" /\ rx'[i].on = serverfd
           /\ serverfd \notin open => rx'[i].pc = "ended"
           /\ rx'[i].pkt = rx[i].pkt
           /\ \A j \in Conns : j # i => rx'[j] = rx[j]
<1>1. rx \in [Conns -> Thread] /\ rx[i] \in Thread
  BY DEF TypeInv, TypeOK
<1> QED BY <1>1 DEF Fetch, Set, Thread

LEMMA RecvMoves ==
    ASSUME TypeInv, NEW i \in Conns, Recv(i), NEW k, k = rx[i].on
    PROVE  /\ \/ /\ toClient[k] # <<>> /\ rx'[i].pc = "handle" /\ rx'[i].pkt = Head(toClient[k])
                 /\ toClient' = [toClient EXCEPT ![k] = Tail(@)]
              \/ /\ k \notin up /\ rx'[i].pc \in {"loop", "ended"} /\ rx'[i].pkt = rx[i].pkt
                 /\ toClient' = toClient
           /\ \A j \in Conns : j # i => rx'[j] = rx[j]
<1>1. rx \in [Conns -> Thread] /\ rx[i] \in Thread
  BY DEF TypeInv, TypeOK
<1>2. CASE toClient[k] # <<>>
  <2>1. /\ Set(i, [rx[i] EXCEPT !.pc = "handle", !.pkt = Head(toClient[k])])
        /\ toClient' = [toClient EXCEPT ![k] = Tail(@)]
    BY <1>2 DEF Recv
  <2> DEFINE r == [rx[i] EXCEPT !.pc = "handle", !.pkt = Head(toClient[k])]
  <2>2. r.pc = "handle" /\ r.pkt = Head(toClient[k])
    BY <1>1 DEF Thread
  <2>3. rx' = [rx EXCEPT ![i] = r]
    BY <2>1 DEF Set
  <2> HIDE DEF r
  <2> QED BY <1>1, <1>2, <2>1, <2>2, <2>3
<1>3. CASE toClient[k] = <<>>
  <2>1. Set(i, [rx[i] EXCEPT !.pc = IF k \in reset THEN "ended" ELSE "loop"]) /\ k \notin up /\ toClient' = toClient
    BY <1>3 DEF Recv
  <2> QED BY <1>1, <2>1 DEF Set, Thread
<1> QED BY <1>2, <1>3

LEMMA LoggedInMoves ==
    ASSUME TypeInv, NEW i \in Conns, loggedIn(i)
    PROVE  /\ rx'[i].pc = "room" /\ rx'[i].pkt = rx[i].pkt
           /\ \A j \in Conns : j # i => rx'[j] = rx[j]
<1>1. rx \in [Conns -> Thread] /\ rx[i] \in Thread
  BY DEF TypeInv, TypeOK
<1> QED BY <1>1 DEF loggedIn, Set, Thread

\* What a receive thread's step does to the threads, whichever it is.
LEMMA ReceiveMoves ==
    ASSUME TypeInv, NEW i \in Conns, Receive(i)
    PROVE  /\ nconns' = nconns /\ rx[i].pc # "none" /\ i <= nconns
           /\ \A j \in Conns : j # i => rx'[j] = rx[j]
<1>1. TypeOK /\ rx[i] \in Thread /\ rx[i].pc # "none"
  BY DEF TypeInv, TypeOK, Receive, Fetch, Recv, loggedIn, newRoom, Goodbye, ShowError, Handles
<1>2. i <= nconns
  BY <1>1 DEF TypeInv, Started
<1>3. rx'[i].pc # "none" /\ \A j \in Conns : j # i => rx'[j] = rx[j]
  BY FetchMoves, RecvMoves, LoggedInMoves, HandledMoves DEF Receive, newRoom, Goodbye, ShowError
<1>4. {j \in Conns : rx[j].pc # "none"} = {j \in Conns : rx'[j].pc # "none"}
  BY <1>1, <1>3
<1> QED BY <1>1, <1>2, <1>3, <1>4 DEF nconns

\* A step that moves no thread and opens nothing.
LEMMA ReceiverKeeps ==
    ASSUME TypeInv, ReceiverInv, rx' = rx, serverfd' = serverfd, open' \subseteq open, up' \subseteq up
    PROVE  ReceiverInv'
<1>1. nconns' = nconns
  BY SameConns
<1> QED BY <1>1 DEF ReceiverInv

LEMMA ReceiverMain ==
    ASSUME TypeInv, ReceiverInv, 
           Interrupt \/ serverLogin \/ validJoin \/ Leave \/ Exit \/ Chat \/ MainStep \/ ServerDown \/ \E k \in Conns : Serve(k)
    PROVE  ReceiverInv'
<1>1. CASE Interrupt
  BY <1>1, ReceiverKeeps DEF Interrupt, shared, network
<1>2. CASE serverLogin \/ validJoin \/ Leave \/ Exit \/ Chat
  <2>1. PICK op, arg : Command(op, arg)
    BY <1>2, CommandIsRequest
  <2> QED BY <2>1, ReceiverKeeps DEF Command, shared, network
<1>3. CASE MainStep
  BY <1>3, ReceiverKeeps DEF MainStep, FillName, FillRoom, SendPkt, Close, Join, InterruptSend, InterruptJoin,
     SendTo, shared, network
<1>4. CASE ServerDown
  BY <1>4, ReceiverKeeps DEF ServerDown, Dies, shared
<1>5. ASSUME NEW k \in Conns, Serve(k) PROVE ReceiverInv'
  <2>1. CASE Dies
    BY <2>1, ReceiverKeeps DEF Dies, shared
  <2>2. CASE ~Dies
    <3>1. Head(toServer[k]) \in Request
      BY <1>5, FirstPacket DEF Serve
    <3>2. up' \subseteq up
      BY <1>5, <2>2, <3>1, ServeTypes DEF Serve
    <3> QED BY <1>5, <2>2, <3>2, ReceiverKeeps DEF Serve, shared
  <2> QED BY <2>1, <2>2
<1> QED BY <1>1, <1>2, <1>3, <1>4, <1>5

LEMMA ReceiverConnects ==
    ASSUME TypeInv, ReceiverInv, Connect \/ ConnectFails
    PROVE  ReceiverInv'
<1>1. /\ nconns \in Nat /\ open \subseteq 1 .. nconns
      /\ rx \in [Conns -> Thread]
  BY DEF TypeInv, TypeOK
<1>2. CASE Connect
  <2>1. /\ nconns' = nconns + 1 /\ nconns + 1 \in Conns
        /\ rx'[nconns + 1].pc \in {"loop", "failed"}
        /\ \A j \in Conns : j # nconns + 1 => rx'[j] = rx[j]
    BY <1>2, ConnectCounts
  <2>2. rx'[nconns + 1].pc \notin {"recv", "ended"}
    BY <2>1
  <2>3. \A j \in Conns : rx'[j].pc = "recv" => rx'[j].pc = rx[j].pc /\ rx'[j].on = rx[j].on
    BY <2>1, <2>2
  <2>4. \A j \in Conns : j .. nconns \subseteq j .. (nconns + 1)
    BY <1>1, Constants
  <2>5. serverfd' = nconns'
    BY <1>2, <2>1 DEF Connect
  <2>6. \A j \in Conns : rx'[j].pc = "recv" => rx'[j].on \in j .. nconns'
    BY <2>1, <2>3, <2>4 DEF ReceiverInv
  <2> QED BY <2>1, <2>2, <2>5, <2>6 DEF ReceiverInv
<1>3. CASE ConnectFails
  <2>1. rx' = rx /\ nconns' = nconns /\ serverfd' = BAD /\ open' = open
    BY <1>3, SameConns DEF ConnectFails
  <2>2. BAD \notin open
    BY <1>1 DEF BAD
  <2> QED BY <2>1, <2>2 DEF ReceiverInv
<1> QED BY <1>2, <1>3

LEMMA ReceiverReceives ==
    ASSUME TypeInv, ReceiverInv, NEW i \in Conns, Receive(i)
    PROVE  ReceiverInv'
<1>1. /\ nconns' = nconns /\ rx[i].pc # "none" /\ i <= nconns
      /\ \A j \in Conns : j # i => rx'[j] = rx[j]
  BY ReceiveMoves
<1>2. /\ serverfd' = serverfd /\ up' = up /\ open' \subseteq open
  BY DEF Receive, Fetch, Recv, loggedIn, newRoom, Goodbye, ShowError, shared, network
<1>3. rx \in [Conns -> Thread] /\ nconns \in Nat /\ open \subseteq 1 .. nconns /\ i \in Nat /\ i >= 1
  BY Constants DEF TypeInv, TypeOK
<1>4. CASE Fetch(i)
  <2>1. serverfd \in open => rx'[i].pc = "recv" /\ rx'[i].on = serverfd
    BY <1>4, FetchMoves
  <2>2. serverfd \notin open => rx'[i].pc = "ended"
    BY <1>4, FetchMoves
  <2>3. serverfd \in open => serverfd = nconns /\ nconns \in i .. nconns
    BY <1>1, <1>3 DEF ReceiverInv, BAD
  <2>4. \A j \in Conns : rx'[j].pc = "recv" => rx'[j].on \in j .. nconns
    BY <1>1, <2>1, <2>2, <2>3 DEF ReceiverInv
  <2>5. serverfd \in open \cap up => rx'[serverfd].pc # "ended"
    <3> SUFFICES ASSUME serverfd \in open \cap up PROVE rx'[serverfd].pc # "ended"
      OBVIOUS
    <3>1. serverfd \in Conns
      BY <1>1, <2>3, <1>3 DEF TypeInv, Conns
    <3> QED BY <1>1, <2>1, <3>1 DEF ReceiverInv
  <2> QED BY <1>1, <1>2, <2>4, <2>5 DEF ReceiverInv
<1>5. CASE Recv(i)
  <2>1. rx'[i].pc \in {"handle", "loop"} \/ (rx'[i].pc = "ended" /\ rx[i].on \notin up)
    BY <1>5, RecvMoves
  <2>2. rx[i].on \in i .. nconns
    BY <1>5 DEF Recv, ReceiverInv
  <2>3. \A j \in Conns : rx'[j].pc = "recv" => rx'[j].on \in j .. nconns
    BY <1>1, <2>1 DEF ReceiverInv
  <2>4. serverfd = i => serverfd = nconns
    BY <1>3 DEF ReceiverInv, BAD
  <2>5. serverfd \in open \cap up => rx'[serverfd].pc # "ended"
    <3> SUFFICES ASSUME serverfd \in open \cap up PROVE rx'[serverfd].pc # "ended"
      OBVIOUS
    <3>1. serverfd \in Conns
      BY <1>3, Constants DEF TypeInv, Conns
    <3>2. CASE serverfd = i
      <4>1. rx[i].on = serverfd
        BY <1>3, <2>2, <2>4, <3>2
      <4> QED BY <2>1, <3>2, <4>1
    <3>3. CASE serverfd # i
      BY <1>1, <3>1, <3>3 DEF ReceiverInv
    <3> QED BY <3>2, <3>3
  <2> QED BY <1>1, <1>2, <2>3, <2>5 DEF ReceiverInv
<1>6. CASE loggedIn(i) \/ newRoom(i) \/ Goodbye(i) \/ ShowError(i)
  <2>1. rx'[i].pc \in {"room", "loop"}
    BY <1>6, LoggedInMoves, HandledMoves DEF newRoom, Goodbye, ShowError
  <2>2. \A j \in Conns : rx'[j].pc \in {"recv", "ended"} => rx'[j] = rx[j]
    BY <1>1, <2>1
  <2>3. serverfd \in open \cap up => serverfd \in Conns
    BY <1>3, Constants DEF TypeInv, Conns
  <2> QED BY <1>1, <1>2, <2>2, <2>3 DEF ReceiverInv
<1> QED BY <1>4, <1>5, <1>6 DEF Receive

LEMMA ReceiverNext == TypeInv /\ ReceiverInv /\ [Next]_vars => ReceiverInv'
<1> SUFFICES ASSUME TypeInv, ReceiverInv, [Next]_vars PROVE ReceiverInv'
  OBVIOUS
<1>1. CASE UNCHANGED vars
  BY <1>1, ReceiverKeeps DEF vars, shared, network
<1> QED BY <1>1, ReceiverMain, ReceiverConnects, ReceiverReceives DEF Next

LEMMA ReceiverInit == Init => ReceiverInv
BY DEF Init, ReceiverInv, NoRx

\* While the current connection stands its own receive thread, if it could be created, has
\* not ended and reads no other, whatever was connected, lost and said goodbye to before
\* (newServerConnection, chatRX).
THEOREM ReceiverStays == Spec => []ReceiverLives
<1>1. TypeInv /\ ReceiverInv => ReceiverLives
  <2> SUFFICES ASSUME TypeInv, ReceiverInv, serverfd \in open \cap up
               PROVE  rx[serverfd].pc # "ended" /\ (rx[serverfd].pc = "recv" => rx[serverfd].on = serverfd)
    BY DEF ReceiverLives
  <2>1. serverfd \in Conns /\ serverfd = nconns /\ nconns \in Nat
    BY Constants DEF TypeInv, TypeOK, Conns, ReceiverInv, BAD
  <2> QED BY <2>1 DEF ReceiverInv
<1> QED BY <1>1, TypeInit, TypeNext, ReceiverInit, ReceiverNext, PTL DEF Spec

-----------------------------------------------------------------------------
(* What is on its way. *)

\* A step that gives no thread a packet and sends nothing on a connection not made.
LEMMA ShapeKeeps ==
    ASSUME ShapeInv, rx' = rx, UNCHANGED <<serving, up, toClient, user>>,
           \A k \in Conns : k > nconns => toServer'[k] = toServer[k]
    PROVE  ShapeInv'
<1>1. nconns' = nconns
  BY SameConns
<1> QED BY <1>1 DEF ShapeInv

\* A packet is sent on a connection that is made, and only there.
LEMMA SendMade ==
    ASSUME TypeInv, NEW k, NEW p, SendTo(k, p)
    PROVE  \A j \in Conns : j > nconns => toServer'[j] = toServer[j]
<1>1. toServer \in [Conns -> Seq(Request)] /\ up \subseteq 1 .. nconns /\ nconns \in Nat
  BY DEF TypeInv, TypeOK
<1> QED BY <1>1, Constants DEF SendTo

LEMMA ShapeMain ==
    ASSUME TypeInv, ShapeInv,
           ConnectFails \/ Interrupt \/ serverLogin \/ validJoin \/ Leave \/ Exit \/ Chat \/ MainStep
    PROVE  ShapeInv'
<1>1. CASE ConnectFails \/ Interrupt
  BY <1>1, ShapeKeeps DEF ConnectFails, Interrupt, network, server
<1>2. CASE serverLogin \/ validJoin \/ Leave \/ Exit \/ Chat
  <2>1. PICK op, arg : Command(op, arg)
    BY <1>2, CommandIsRequest
  <2> QED BY <2>1, ShapeKeeps DEF Command, network, server
<1>3. CASE FillName \/ FillRoom \/ Close \/ Join \/ InterruptJoin
  BY <1>3, ShapeKeeps DEF FillName, FillRoom, Close, Join, InterruptJoin, network, server
<1>4. CASE SendPkt
  <2>1. (\A j \in Conns : j > nconns => toServer'[j] = toServer[j]) /\ UNCHANGED <<up, toClient>>
    <3>1. CASE UNCHANGED network
      BY <3>1 DEF network
    <3>2. CASE SendTo(serverfd, pkt)
      BY <3>2, SendMade DEF SendTo
    <3> QED BY <1>4, <3>1, <3>2 DEF SendPkt
  <2> QED BY <1>4, <2>1, ShapeKeeps DEF SendPkt, server
<1>5. CASE InterruptSend
  <2>1. (\A j \in Conns : j > nconns => toServer'[j] = toServer[j]) /\ UNCHANGED <<up, toClient>>
    BY <1>5, SendMade DEF InterruptSend, SendTo
  <2> QED BY <1>5, <2>1, ShapeKeeps DEF InterruptSend, server
<1> QED BY <1>1, <1>2, <1>3, <1>4, <1>5 DEF MainStep

LEMMA ShapeConnect ==
    ASSUME TypeInv, ShapeInv, Connect
    PROVE  ShapeInv'
<1>1. /\ nconns' = nconns + 1 /\ nconns + 1 \in Conns
      /\ rx'[nconns + 1].pc \in {"loop", "failed"} /\ rx'[nconns + 1].pkt = rx[nconns + 1].pkt
      /\ \A j \in Conns : j # nconns + 1 => rx'[j] = rx[j]
  BY ConnectCounts
<1>2. rx \in [Conns -> Thread] /\ nconns \in Nat
  BY DEF TypeInv, TypeOK
<1>4. rx[nconns + 1].pc = "none"
  BY <1>1, <1>2 DEF TypeInv, Started
<1>5. \A i \in Conns : /\ rx'[i].pc \notin {"handle", "room"} => rx'[i].pkt = NoPkt
                       /\ rx'[i].pc = "room" => rx'[i].pkt.op = "LOGSUC"
  <2>1. ASSUME NEW i \in Conns, i = nconns + 1
        PROVE  rx'[i].pc \in {"loop", "failed"} /\ rx'[i].pkt = NoPkt
    BY <1>1, <1>4, <2>1 DEF ShapeInv
  <2> QED BY <1>1, <2>1 DEF ShapeInv
<1>6. \A k \in Conns : k > nconns + 1 => k > nconns
  BY <1>2, Constants
<1>7. serving' \subseteq up' /\ UNCHANGED <<toServer, toClient, user>>
  BY DEF Connect, ShapeInv
<1> QED BY <1>1, <1>5, <1>6, <1>7 DEF ShapeInv

LEMMA ShapeReceive ==
    ASSUME TypeInv, ShapeInv, NEW i \in Conns, Receive(i)
    PROVE  ShapeInv'
<1>1. /\ nconns' = nconns
      /\ \A j \in Conns : j # i => rx'[j] = rx[j]
  BY ReceiveMoves
<1>2. UNCHANGED <<serving, up, user, toServer>>
  BY DEF Receive, Fetch, Recv, loggedIn, newRoom, Goodbye, ShowError, network, server
<1>3. /\ rx'[i].pc \notin {"handle", "room"} => rx'[i].pkt = NoPkt
      /\ rx'[i].pc = "room" => rx'[i].pkt.op = "LOGSUC"
  <2>0. rx[i].pc \in {"loop", "recv"} => rx[i].pkt = NoPkt
    BY DEF ShapeInv
  <2>1. CASE Fetch(i)
    <3>1. rx'[i].pc \in {"recv", "ended"} /\ rx'[i].pkt = NoPkt
      BY <2>0, <2>1, FetchMoves DEF Fetch
    <3> QED BY <3>1
  <2>2. CASE Recv(i)
    <3>1. rx'[i].pc = "handle" \/ (rx'[i].pc \in {"loop", "ended"} /\ rx'[i].pkt = NoPkt)
      BY <2>0, <2>2, RecvMoves DEF Recv
    <3> QED BY <3>1
  <2>3. CASE loggedIn(i)
    BY <2>3, LoggedInMoves DEF ShapeInv, loggedIn, Handles
  <2>4. CASE newRoom(i) \/ Goodbye(i) \/ ShowError(i)
    BY <2>4, HandledMoves DEF newRoom, Goodbye, ShowError
  <2> QED BY <2>1, <2>2, <2>3, <2>4 DEF Receive
<1>4. \A k \in Conns : k > nconns => toClient'[k] = <<>>
  <2>1. CASE Recv(i)
    <3>1. toClient \in [Conns -> Seq(Packet)]
      BY DEF TypeInv, TypeOK
    <3>2. \A k \in Conns : toClient[k] = <<>> => toClient'[k] = <<>>
      BY <2>1, <3>1, RecvMoves
    <3> QED BY <3>2 DEF ShapeInv
  <2>2. CASE ~Recv(i)
    BY <2>2 DEF Receive, Fetch, loggedIn, newRoom, Goodbye, ShowError, network, ShapeInv
  <2> QED BY <2>1, <2>2
<1> QED BY <1>1, <1>2, <1>3, <1>4 DEF ShapeInv

\* What the handlers do, whichever it is: only the connection of the packet changes.
LEMMA ServeEffect ==
    ASSUME TypeInv, NEW k \in Conns, Serve(k), ~Dies, NEW p, p = Head(toServer[k])
    PROVE  /\ ServeGuest(k, p) \/ ServeUser(k, p)
           /\ k \in serving /\ toServer[k] # <<>> /\ p \in Request
           /\ toServer'[k] = Tail(toServer[k])
           /\ \A j \in Conns : j # k => toServer'[j] = toServer[j] /\ toClient'[j] = toClient[j]
           /\ \/ toClient'[k] = toClient[k]
              \/ \E r \in Packet : toClient'[k] = Append(toClient[k], r)
           /\ UNCHANGED <<pc, sigint, pkt, shared, rx, downs, typed, hasty>> /\ nconns' = nconns
<1>1. toServer \in [Conns -> Seq(Request)]
  BY DEF TypeInv, TypeOK
<1>2. /\ ServeGuest(k, p) \/ ServeUser(k, p)
      /\ k \in serving /\ toServer[k] # <<>>
      /\ toServer' = [toServer EXCEPT ![k] = Tail(@)]
      /\ UNCHANGED <<pc, sigint, pkt, shared, rx, downs, typed, hasty>>
  BY DEF Serve
<1>3. p \in Request
  BY <1>2, FirstPacket
<1>4. /\ p.op = "login" => p.arg \in Names
      /\ p.op = "join" => p.arg \in Rooms
      /\ DEFAULT_ROOM \in Rooms
  BY <1>3, ClientAssumption DEF Request
<1> DEFINE OK == /\ \A j \in Conns : j # k => toClient'[j] = toClient[j]
                 /\ \/ toClient'[k] = toClient[k]
                    \/ \E r \in Packet : toClient'[k] = Append(toClient[k], r)
<1>5. \A op \in Replies, n \in Names \cup {NULL}, r \in Rooms \cup {0} : Reply(k, op, n, r) => OK
  <2> SUFFICES ASSUME NEW op \in Replies, NEW n \in Names \cup {NULL}, NEW r \in Rooms \cup {0}, Reply(k, op, n, r)
               PROVE  OK
    OBVIOUS
  <2>1. [op |-> op, user |-> n, room |-> r, arg |-> NULL] \in Packet
    BY DEF Packet
  <2> QED BY <2>1, ReplyTypes
<1>6. NoReply => OK
  BY DEF NoReply
<1>7. \A to \in Rooms : Move(k, p, to) => OK
  BY <1>5 DEF Move, Replies
<1> HIDE DEF OK
<1>8. CASE ServeGuest(k, p)
  <2>1. p.op = "login" /\ Reply(k, "LOGSUC", p.arg, DEFAULT_ROOM) => OK
    BY <1>4, <1>5 DEF Replies
  <2>2. Reply(k, "SERV_ERR", NULL, 0) => OK
    BY <1>5 DEF Replies
  <2>3. OK
    BY <1>6, <1>8, <2>1, <2>2 DEF ServeGuest
  <2> QED BY <1>1, <1>2, <1>3, <2>3, SameConns DEF OK
<1>9. CASE ServeUser(k, p)
  <2>1. Reply(k, "SERV_ERR", NULL, 0) \/ Reply(k, "EXIT", NULL, 0) => OK
    BY <1>5 DEF Replies
  <2>2. OK
    BY <1>4, <1>6, <1>7, <1>9, <2>1 DEF ServeUser
  <2> QED BY <1>1, <1>2, <1>3, <2>2, SameConns DEF OK
<1> QED BY <1>2, <1>8, <1>9

\* A user who is online is refused.
LEMMA ServeApart ==
    ASSUME TypeInv, ShapeInv, NEW k \in Conns, NEW p, ServeGuest(k, p) \/ ServeUser(k, p)
    PROVE  \A i, j \in Conns : user'[i] # NULL /\ user'[i] = user'[j] => i = j
<1>1. user \in [Conns -> Names \cup {NULL}]
  BY DEF TypeInv, TypeOK
<1>2. CASE ServeGuest(k, p)
  <2>1. user' = user \/ (user' = [user EXCEPT ![k] = p.arg] /\ \A j \in Conns : user[j] # p.arg)
    BY <1>2 DEF ServeGuest, Online
  <2> QED BY <1>1, <2>1 DEF ShapeInv
<1>3. CASE ServeUser(k, p)
  <2>1. user' = user \/ \E n : user' = [j \in Conns |-> IF user[j] = n THEN NULL ELSE user[j]]
    BY <1>3 DEF ServeUser
  <2> QED BY <2>1 DEF ShapeInv
<1> QED BY <1>2, <1>3

\* Who is logged in changes on connections that are made only.
LEMMA ServeMade ==
    ASSUME TypeInv, ShapeInv, NEW k \in Conns, NEW p, ServeGuest(k, p) \/ ServeUser(k, p), k <= nconns
    PROVE  \A j \in Conns : j > nconns => user'[j] = NULL
<1>1. user \in [Conns -> Names \cup {NULL}] /\ nconns \in Nat
  BY DEF TypeInv, TypeOK
<1>2. CASE ServeGuest(k, p)
  BY <1>1, <1>2, Constants DEF ServeGuest, ShapeInv
<1>3. CASE ServeUser(k, p)
  <2>1. user' = user \/ \E n : user' = [j \in Conns |-> IF user[j] = n THEN NULL ELSE user[j]]
    BY <1>3 DEF ServeUser
  <2> QED BY <2>1 DEF ShapeInv
<1> QED BY <1>2, <1>3

LEMMA ShapeServer ==
    ASSUME TypeInv, ShapeInv, ServerDown \/ \E k \in Conns : Serve(k)
    PROVE  ShapeInv'
<1>1. CASE Dies
  <2>1. nconns' = nconns
    BY <1>1, SameConns DEF Dies
  <2> QED BY <1>1, <2>1 DEF Dies, ShapeInv
<1>2. CASE ~Dies
  <2>1. PICK k \in Conns : Serve(k)
    BY <1>2 DEF ServerDown
  <2>2. PICK p : p = Head(toServer[k])
    OBVIOUS
  <2>3. /\ ServeGuest(k, p) \/ ServeUser(k, p)
        /\ k \in serving /\ p \in Request
        /\ \A j \in Conns : j # k => toServer'[j] = toServer[j] /\ toClient'[j] = toClient[j]
        /\ rx' = rx /\ nconns' = nconns
    BY <1>2, <2>1, <2>2, ServeEffect
  <2>4. k <= nconns /\ k \in Nat /\ nconns \in Nat
    BY <2>3 DEF TypeInv, TypeOK
  <2>5. \A j \in Conns : j > nconns => user'[j] = NULL
    BY <2>3, <2>4, ServeMade
  <2>6. serving' \subseteq up'
    <3>1. CASE ServeGuest(k, p)
      BY <3>1 DEF ServeGuest, ShapeInv
    <3>2. CASE ServeUser(k, p)
      BY <3>2 DEF ServeUser, ShapeInv
    <3> QED BY <2>3, <3>1, <3>2
  <2>7. \A i, j \in Conns : user'[i] # NULL /\ user'[i] = user'[j] => i = j
    BY <2>3, ServeApart
  <2> QED BY <2>3, <2>4, <2>5, <2>6, <2>7, Constants DEF ShapeInv
<1> QED BY <1>1, <1>2

LEMMA ShapeNext == TypeInv /\ ShapeInv /\ [Next]_vars => ShapeInv'
<1> SUFFICES ASSUME TypeInv, ShapeInv, [Next]_vars PROVE ShapeInv'
  OBVIOUS
<1>1. CASE UNCHANGED vars
  BY <1>1, ShapeKeeps DEF vars, network, server
<1> QED BY <1>1, ShapeMain, ShapeConnect, ShapeReceive, ShapeServer DEF Next

\* Nothing is on its way when a user who waits types or interrupts.
LEMMA WaitedSettled ==
    ASSUME TypeInv, PatientInv, hasty = 0, Waited
    PROVE  Idle /\ Empty
<1>1. CASE serverfd \in Conns
  BY <1>1 DEF PatientInv, OneAtATime, Waited, Quiet, Idle, Empty
<1>2. CASE serverfd \notin Conns
  BY <1>2 DEF PatientInv, OneAtATime
<1> QED BY <1>1, <1>2

\* A line that leaves hasty at 0 was waited with.
LEMMA TypedWaits ==
    ASSUME TypeInv, PatientInv, NEW b \in BOOLEAN, Typed(b), hasty' = 0
    PROVE  hasty = 0 /\ ~b
BY DEF TypeInv, TypeOK, Typed

\* A step that moves nothing that is on its way.
LEMMA PatientKeeps ==
    ASSUME TypeInv, PatientInv, hasty' = 0 => hasty = 0,
           UNCHANGED <<serverfd, rx, toServer, toClient>>,
           hasty' = 0 /\ Composing' => Idle /\ Empty
    PROVE  PatientInv'
<1> SUFFICES ASSUME hasty' = 0 PROVE OneAtATime'
  BY DEF PatientInv
<1>1. hasty = 0 /\ (Idle' <=> Idle) /\ (Empty' <=> Empty)
  BY DEF Idle, Empty
<1> QED BY <1>1 DEF PatientInv, OneAtATime

\* Where the main thread goes on with a packet, it was making it before.
LEMMA PatientMain ==
    ASSUME TypeInv, PatientInv, FillName \/ FillRoom \/ Close \/ Join \/ InterruptJoin
    PROVE  PatientInv'
<1>1. Composing' => Composing
  <2>1. CASE FillName
    BY <2>1 DEF FillName, AfterPacket, Main, Composing
  <2>2. CASE FillRoom
    BY <2>2 DEF FillRoom, Main, Composing
  <2>3. CASE Close \/ Join \/ InterruptJoin
    BY <2>3 DEF Close, Join, InterruptJoin, Main, Composing
  <2> QED BY <2>1, <2>2, <2>3
<1>2. UNCHANGED <<serverfd, rx, toServer, toClient, up, serving, user, hasty>>
  BY DEF FillName, FillRoom, Close, Join, InterruptJoin, shared, network, server
<1>3. hasty' = 0 /\ Composing' => Idle /\ Empty
  BY <1>1, <1>2 DEF PatientInv, OneAtATime
<1> QED BY <1>2, <1>3, PatientKeeps

LEMMA PatientTyping ==
    ASSUME TypeInv, PatientInv, Interrupt \/ serverLogin \/ validJoin \/ Leave \/ Exit \/ Chat
    PROVE  PatientInv'
<1>1. CASE Interrupt
  <2>1. hasty' = 0 => hasty = 0 /\ Waited
    BY <1>1 DEF Interrupt, TypeInv, TypeOK
  <2> QED BY <1>1, <2>1, WaitedSettled, PatientKeeps DEF Interrupt, shared, network, server
<1>2. CASE serverLogin \/ validJoin \/ Leave \/ Exit \/ Chat
  <2>1. PICK op, arg : Command(op, arg)
    BY <1>2, CommandIsRequest
  <2>2. hasty' = 0 => hasty = 0 /\ Waited
    BY <2>1, TypedWaits DEF Command
  <2> QED BY <2>1, <2>2, WaitedSettled, PatientKeeps DEF Command, shared, network, server
<1> QED BY <1>1, <1>2

LEMMA PatientConnects ==
    ASSUME TypeInv, ShapeInv, PatientInv, Connect \/ ConnectFails
    PROVE  PatientInv'
<1> SUFFICES ASSUME hasty' = 0 PROVE OneAtATime'
  BY DEF PatientInv
<1>1. hasty = 0 /\ Waited
  BY TypedWaits DEF Connect, ConnectFails
<1>2. Idle /\ Empty
  BY <1>1, WaitedSettled
<1>3. Empty' /\ UNCHANGED <<toServer, toClient>>
  BY <1>2 DEF Connect, ConnectFails, network, Empty
<1>4. \A k \in Conns : Len(toServer'[k]) <= 1 /\ Len(toClient'[k]) <= 1
  BY <1>1, <1>3 DEF PatientInv, OneAtATime
<1>5. Idle'
  <2>1. CASE Connect
    BY <1>2, <2>1, ConnectCounts DEF Idle
  <2>2. CASE ConnectFails
    BY <1>2, <2>2 DEF ConnectFails, Idle
  <2> QED BY <2>1, <2>2
<1> QED BY <1>3, <1>4, <1>5 DEF OneAtATime, Empty, Idle

\* A packet goes out when nothing else is on its way.
LEMMA PatientSends ==
    ASSUME TypeInv, PatientInv, SendPkt \/ InterruptSend
    PROVE  PatientInv'
<1> SUFFICES ASSUME hasty' = 0 PROVE OneAtATime'
  BY DEF PatientInv
<1>1. hasty = 0 /\ UNCHANGED <<serverfd, rx, serving, user>>
  BY DEF SendPkt, InterruptSend, shared, server
<1>2. Idle /\ Empty
  BY <1>1 DEF PatientInv, OneAtATime, SendPkt, InterruptSend, Main, Composing
<1>3. ~Composing'
  BY DEF SendPkt, InterruptSend, AfterPacket, Main, Composing
<1>4. PICK p : SendTo(serverfd, p) \/ UNCHANGED network
  BY DEF SendPkt, InterruptSend
<1>5. toServer \in [Conns -> Seq(Request)] /\ \A k \in Conns : toServer[k] = <<>>
  BY <1>2 DEF Empty, TypeInv, TypeOK
<1>6. toClient' = toClient /\ up' = up
  BY <1>4 DEF SendTo, network
<1>7. \A k \in Conns : toServer'[k] = <<>> \/ (k = serverfd /\ toServer'[k] = Append(<<>>, p))
  BY <1>4, <1>5 DEF SendTo, network
<1>8. \A k \in Conns : Len(toServer'[k]) <= 1
  <2>1. <<>> \in Seq({p}) /\ Len(<<>>) = 0
    BY EmptySeq
  <2>2. Len(Append(<<>>, p)) = 1
    BY <2>1, AppendProperties
  <2>3. \A k \in Conns : Len(toServer'[k]) = 0 \/ Len(toServer'[k]) = 1
    BY <1>7, <2>1, <2>2, Zenon
  <2>4. \A n : n = 0 \/ n = 1 => n <= 1
    OBVIOUS
  <2> QED BY <2>3, <2>4, Zenon
<1>9. Idle'
  BY <1>1, <1>2 DEF Idle
<1>10. serverfd \notin Conns => Empty'
  BY <1>2, <1>6, <1>7 DEF Empty
<1> QED BY <1>1, <1>2, <1>3, <1>6, <1>7, <1>8, <1>9, <1>10 DEF PatientInv, OneAtATime, Empty, Idle

\* What is left of one.
LEMMA TailOfOne ==
    ASSUME NEW S, NEW q \in Seq(S), q # <<>>, Len(q) <= 1
    PROVE  Tail(q) = <<>>
<1> DEFINE m == Len(q)  n == Len(Tail(q))
<1>1. n = m - 1 /\ Tail(q) \in Seq(S) /\ m \in Nat /\ m <= 1
  BY HeadTailProperties, LenProperties
<1>2. n \notin Nat \ {0}
  <2> HIDE DEF m, n
  <2> QED BY <1>1
<1> QED BY <1>1, <1>2, EmptySeq, Zenon

\* A packet that a thread has handled is gone, and one it receives moves from the connection to it.
LEMMA PatientReceives ==
    ASSUME TypeInv, ShapeInv, PatientInv, NEW i \in Conns, Receive(i)
    PROVE  PatientInv'
<1> SUFFICES ASSUME hasty' = 0 PROVE OneAtATime'
  BY DEF PatientInv
<1>1. /\ UNCHANGED <<pc, sigint, hasty, serverfd, toServer, up, serving, user>>
      /\ \A j \in Conns : j # i => rx'[j] = rx[j]
  BY ReceiveMoves DEF Receive, Fetch, Recv, loggedIn, newRoom, Goodbye, ShowError, network, server, shared
<1>2. OneAtATime /\ (Composing' <=> Composing)
  BY <1>1 DEF PatientInv, Composing
<1>3. CASE ~Recv(i)
  <2>1. toClient' = toClient
    BY <1>3 DEF Receive, Fetch, loggedIn, newRoom, Goodbye, ShowError, network
  <2>2. rx'[i].pkt \in {rx[i].pkt, NoPkt}
    BY <1>3, FetchMoves, LoggedInMoves, HandledMoves DEF Receive, newRoom, Goodbye, ShowError
  <2>3. \A j \in Conns : rx'[j].pkt # NoPkt => rx[j].pkt # NoPkt
    BY <1>1, <2>2
  <2>4. (Idle => Idle') /\ (Empty' <=> Empty)
    BY <1>1, <2>1, <2>3 DEF Idle, Empty
  <2> QED BY <1>1, <1>2, <2>1, <2>3, <2>4 DEF OneAtATime
<1>4. CASE Recv(i)
  <2> DEFINE k == rx[i].on
  <2>1. k \in Conns /\ rx[i].pc = "recv" /\ rx[i].pkt = NoPkt
    BY <1>4 DEF Recv, TypeInv, ShapeInv
  <2>2. CASE toClient' = toClient /\ rx'[i].pkt = rx[i].pkt
    <3>1. \A j \in Conns : rx'[j].pkt = rx[j].pkt
      BY <1>1, <2>2
    <3>2. (Idle' <=> Idle) /\ (Empty' <=> Empty)
      BY <1>1, <2>2, <3>1 DEF Idle, Empty
    <3> QED BY <1>1, <1>2, <2>2, <3>1, <3>2 DEF OneAtATime
  <2>3. CASE toClient[k] # <<>> /\ toClient' = [toClient EXCEPT ![k] = Tail(@)]
    <3>1. toClient[k] # <<>> /\ toClient' = [toClient EXCEPT ![k] = Tail(@)]
      BY <2>3
    <3>2. toClient[k] \in Seq(Packet) /\ toClient \in [Conns -> Seq(Packet)]
      BY <2>1 DEF TypeInv, TypeOK
    <3>3. Len(toClient[k]) <= 1 /\ toServer[k] = <<>> /\ k = serverfd /\ Idle /\ ~Composing
      BY <1>2, <2>1, <3>1 DEF OneAtATime, Empty
    <3>4. Tail(toClient[k]) = <<>>
      BY <3>1, <3>2, <3>3, TailOfOne
    <3>5. \A j \in Conns : toClient'[j] = <<>>
      BY <1>2, <3>1, <3>2, <3>3, <3>4 DEF OneAtATime
    <3>6. Empty'
      BY <1>1, <1>2, <3>3, <3>5 DEF Empty, OneAtATime
    <3>7. \A j \in Conns : Len(toClient'[j]) <= 1
      <4>1. Len(<<>>) = 0
        BY EmptySeq
      <4>2. \A n : n = 0 => n <= 1
        OBVIOUS
      <4> QED BY <3>5, <4>1, <4>2, Zenon
    <3>8. \A j \in Conns : rx'[j].pkt # NoPkt => j = i
      BY <1>1, <3>3 DEF Idle
    <3> QED BY <1>1, <1>2, <2>1, <3>3, <3>5, <3>6, <3>7, <3>8 DEF OneAtATime
  <2> QED BY <1>4, <2>2, <2>3, RecvMoves
<1> QED BY <1>3, <1>4

LEMMA PatientDies ==
    ASSUME TypeInv, PatientInv, Dies
    PROVE  PatientInv'
<1> SUFFICES ASSUME hasty' = 0 PROVE OneAtATime'
  BY DEF PatientInv
<1>1. /\ UNCHANGED <<pc, sigint, hasty, serverfd, rx, toClient>>
      /\ \A k \in Conns : user'[k] = NULL /\ toServer'[k] = <<>>
      /\ up' = {}
  BY DEF Dies, shared
<1>2. OneAtATime /\ (Composing' <=> Composing) /\ (Idle' <=> Idle) /\ (Empty => Empty')
  BY <1>1 DEF PatientInv, Composing, Idle, Empty
<1>3. \A k \in Conns : Len(toServer'[k]) <= 1
  <2>1. Len(<<>>) = 0
    BY EmptySeq
  <2>2. \A n : n = 0 => n <= 1
    OBVIOUS
  <2> QED BY <1>1, <2>1, <2>2, Zenon
<1>4. ~Empty' => ~Empty
  BY <1>2
<1> QED BY <1>1, <1>2, <1>3, <1>4 DEF OneAtATime

LEMMA PatientServes ==
    ASSUME TypeInv, PatientInv, NEW k \in Conns, Serve(k)
    PROVE  PatientInv'
<1>1. CASE Dies
  BY <1>1, PatientDies
<1>2. CASE ~Dies
  <2> SUFFICES ASSUME hasty' = 0 PROVE OneAtATime'
    BY DEF PatientInv
  <2>1. /\ k \in serving /\ toServer[k] # <<>>
        /\ toServer'[k] = Tail(toServer[k])
        /\ \A j \in Conns : j # k => toServer'[j] = toServer[j] /\ toClient'[j] = toClient[j]
        /\ \/ toClient'[k] = toClient[k]
           \/ \E r \in Packet : toClient'[k] = Append(toClient[k], r)
        /\ UNCHANGED <<pc, sigint, shared, rx, hasty>>
    BY <1>2, ServeEffect
  <2>2. hasty = 0 /\ serverfd' = serverfd /\ OneAtATime
    BY <2>1 DEF PatientInv, shared
  <2>3. k = serverfd
    BY <2>1, <2>2 DEF OneAtATime
  <2>4. /\ toServer[k] \in Seq(Request) /\ Len(toServer[k]) <= 1
        /\ toClient[k] = <<>> /\ Idle /\ ~Composing
    BY <2>1, <2>2 DEF OneAtATime, Empty, TypeInv, TypeOK
  <2>5. toServer'[k] = <<>>
    <3>1. Tail(toServer[k]) = <<>>
      BY <2>1, <2>4, TailOfOne
    <3> QED BY <2>1, <3>1
  <2>6. \A j \in Conns : toServer'[j] = <<>> /\ (j # k => toClient'[j] = <<>>)
    BY <2>1, <2>2, <2>3, <2>5 DEF OneAtATime
  <2>7. \A j \in Conns : Len(toServer'[j]) <= 1 /\ Len(toClient'[j]) <= 1
    <3>1. <<>> \in Seq(Packet) /\ Len(<<>>) = 0
      BY EmptySeq
    <3>2. \A r \in Packet : Len(Append(<<>>, r)) = 1
      BY <3>1, AppendProperties
    <3>3. Len(toClient'[k]) = 0 \/ Len(toClient'[k]) = 1
      BY <2>1, <2>4, <3>1, <3>2, Zenon
    <3>4. \A n : n = 0 \/ n = 1 => n <= 1
      OBVIOUS
    <3> QED BY <2>6, <3>1, <3>3, <3>4, Zenon
  <2>8. Idle' /\ (Composing' <=> Composing)
    BY <2>1, <2>4 DEF Idle, Composing
  <2> QED BY <2>2, <2>3, <2>4, <2>6, <2>7, <2>8 DEF OneAtATime, Idle
<1> QED BY <1>1, <1>2

LEMMA PatientNext == TypeInv /\ ShapeInv /\ PatientInv /\ [Next]_vars => PatientInv'
<1> SUFFICES ASSUME TypeInv, ShapeInv, PatientInv, [Next]_vars PROVE PatientInv'
  OBVIOUS
<1>1. CASE UNCHANGED vars
  <2>1. hasty' = 0 /\ Composing' => Idle /\ Empty
    BY <1>1 DEF vars, Composing, PatientInv, OneAtATime
  <2> QED BY <1>1, <2>1, PatientKeeps DEF vars, shared, network, server
<1>2. CASE ServerDown
  BY <1>2, PatientDies DEF ServerDown
<1> QED BY <1>1, <1>2, PatientMain, PatientTyping, PatientConnects, PatientSends, PatientReceives, PatientServes
    DEF Next, MainStep

(* What the client knows. *)

\* On a connection that is followed everything is about that connection.
LEMMA Alone ==
    ASSUME TypeInv, ReceiverInv, ShapeInv, PatientInv, NEW s \in Conns, Followed(s)
    PROVE  /\ \A k \in Conns : k # s => toServer[k] = <<>> /\ toClient[k] = <<>> /\ (user[k] = NULL \/ hasty = 0)
           /\ \A i, j \in Conns : rx[i].pkt # NoPkt /\ rx[j].pkt # NoPkt => i = j
           /\ \A i \in Conns : rx[i].pc = "recv" /\ toClient[s] # <<>> => Idle
<1>1. CASE hasty = 0
  <2>1. OneAtATime /\ serverfd = s
    BY <1>1 DEF PatientInv, Followed
  <2> QED BY <1>1, <2>1 DEF OneAtATime, ShapeInv, Empty
<1>2. CASE nconns = 1
  <2>1. s = 1
    BY <1>2, Constants DEF Followed, ReceiverInv, BAD
  <2>2. \A k \in Conns : k # s => k > nconns
    BY <1>2, <2>1, Constants
  <2>3. \A k \in Conns : k # s => user[k] = NULL /\ toServer[k] = <<>> /\ toClient[k] = <<>>
    BY <2>2 DEF ShapeInv
  <2>5. \A i \in Conns : i # s => rx[i].pc = "none"
    BY <1>2, <2>1, <2>2, Constants DEF TypeInv, Started
  <2>6. \A i \in Conns : i # s => rx[i].pkt = NoPkt
    BY <2>5 DEF ShapeInv
  <2>7. \A i \in Conns : rx[i].pc = "recv" => i = s /\ rx[i].pkt = NoPkt
    BY <2>5 DEF ShapeInv
  <2> QED BY <2>3, <2>6, <2>7 DEF Idle
<1> QED BY <1>1, <1>2 DEF Followed

\* Nobody has news when nothing is on its way.
LEMMA SilentIsNoNews ==
    /\ NoNews(<<>>)
    /\ Idle => \A i \in Conns : ~IsNews(i)
<1>1. DOMAIN <<>> = {}
  BY EmptySeq, LenProperties
<1>2. NULL \notin News
  BY Constants DEF News, Replies
<1> QED BY <1>1, <1>2, NoPktIsRequest DEF NoNews, Idle, IsNews

\* ... so the client knows.
LEMMA SettledView ==
    ASSUME ViewInv, NEW s \in Conns, Followed(s), user[s] # NULL, Idle, toClient[s] = <<>>
    PROVE  username = user[s] /\ currentRoom = room[s]
<1>1. DOMAIN <<>> = {}
  BY EmptySeq, LenProperties
<1>2. NameView(s) /\ RoomView(s)
  BY DEF ViewInv
<1>3. \A i \in Conns : rx[i].pkt.op # "LOGSUC"
  BY SilentIsNoNews DEF IsNews, News
<1> QED BY <1>1, <1>2, <1>3, SilentIsNoNews DEF NameView, RoomView

\* A step that tells nobody anything and changes nobody's room.
LEMMA ViewKeeps ==
    ASSUME ViewInv, rx' = rx, UNCHANGED <<serverfd, username, currentRoom, toClient, serving, user, room>>,
           hasty' = 0 => hasty = 0
    PROVE  ViewInv'
<1>1. nconns' = nconns
  BY SameConns
<1>2. \A s \in Conns : Followed(s)' => Followed(s)
  BY <1>1 DEF Followed
<1>3. \A s \in Conns : (NameView(s)' <=> NameView(s)) /\ (RoomView(s)' <=> RoomView(s))
  BY DEF NameView, RoomView, IsNews
<1>4. \A i \in Conns : IsNews(i)' <=> IsNews(i)
  BY DEF IsNews
<1> QED BY <1>2, <1>3, <1>4 DEF ViewInv

LEMMA ViewMain ==
    ASSUME TypeInv, ViewInv, Interrupt \/ serverLogin \/ validJoin \/ Leave \/ Exit \/ Chat \/ MainStep
    PROVE  ViewInv'
<1>1. hasty \in Nat
  BY DEF TypeInv, TypeOK
<1>2. CASE Interrupt
  BY <1>1, <1>2, ViewKeeps DEF Interrupt, shared, network, server
<1>3. CASE serverLogin \/ validJoin \/ Leave \/ Exit \/ Chat
  <2>1. PICK op, arg : Command(op, arg)
    BY <1>3, CommandIsRequest
  <2> QED BY <1>1, <2>1, ViewKeeps DEF Command, Typed, shared, network, server
<1>4. CASE MainStep
  <2>1. rx' = rx /\ UNCHANGED <<serverfd, username, currentRoom, toClient, serving, user, room, hasty>>
    BY <1>4 DEF MainStep, FillName, FillRoom, SendPkt, Close, Join, InterruptSend, InterruptJoin,
       SendTo, shared, network, server
  <2> QED BY <2>1, ViewKeeps
<1> QED BY <1>2, <1>3, <1>4

\* A new connection is followed if it is the first, or if the user waited.
LEMMA ViewConnects ==
    ASSUME TypeInv, ReceiverInv, ShapeInv, PatientInv, Connect \/ ConnectFails
    PROVE  ViewInv'
<1>1. CASE ConnectFails
  BY <1>1, Constants DEF ConnectFails, ViewInv, Followed, BAD
<1>2. CASE Connect
  <2> SUFFICES ASSUME NEW s \in Conns, Followed(s)'
               PROVE  /\ user'[s] = NULL
                      /\ NoNews(toClient'[s]) /\ \A i \in Conns : ~IsNews(i)'
    BY DEF ViewInv
  <2>1. /\ nconns' = nconns + 1 /\ nconns + 1 \in Conns /\ nconns \in Nat
        /\ rx'[nconns + 1].pkt = rx[nconns + 1].pkt
        /\ \A j \in Conns : j # nconns + 1 => rx'[j] = rx[j]
    BY <1>2, ConnectCounts DEF TypeInv
  <2>2. s = nconns + 1 /\ UNCHANGED <<user, toClient>>
    BY <1>2 DEF Connect, Followed
  <2>3. user[s] = NULL /\ toClient[s] = <<>>
    BY <2>1, <2>2 DEF ShapeInv
  <2>4. Idle
    <3>1. CASE hasty' = 0
      BY <1>2, <3>1, TypedWaits, WaitedSettled DEF Connect
    <3>2. CASE nconns = 0
      <4>1. \A i \in Conns : rx[i].pc = "none"
        BY <3>2, Constants DEF TypeInv, Started
      <4> QED BY <4>1 DEF ShapeInv, Idle
    <3> QED BY <2>1, <3>1, <3>2 DEF Followed
  <2>5. Idle'
    BY <2>1, <2>4 DEF Idle
  <2>6. \A i \in Conns : ~IsNews(i)'
    BY <2>5, SilentIsNoNews, Constants, NoPktIsRequest DEF Idle, IsNews, News, Replies
  <2> QED BY <2>2, <2>3, <2>6, SilentIsNoNews
<1> QED BY <1>1, <1>2

LEMMA ViewDies == Dies => ViewInv'
BY DEF Dies, ViewInv

\* The next reply, and those after it.
LEMMA Taking ==
    ASSUME NEW q \in Seq(Packet), q # <<>>
    PROVE  /\ DOMAIN q = 1 .. Len(q) /\ Len(q) \in Nat \ {0}
           /\ Head(q) = q[1]
           /\ DOMAIN Tail(q) = 1 .. (Len(q) - 1)
           /\ \A n \in 1 .. (Len(q) - 1) : Tail(q)[n] = q[n + 1]
<1>1. DOMAIN q = 1 .. Len(q) /\ Len(q) \in Nat \ {0}
  BY LenProperties, EmptySeq
<1>2. /\ Tail(q) \in Seq(Packet) /\ Len(Tail(q)) = Len(q) - 1
      /\ \A n \in 1 .. Len(Tail(q)) : Tail(q)[n] = q[n + 1]
  BY HeadTailProperties
<1>3. DOMAIN Tail(q) = 1 .. Len(Tail(q))
  BY <1>2, LenProperties
<1>4. Head(q) = q[1]
  OBVIOUS
<1> QED BY <1>1, <1>2, <1>3, <1>4

LEMMA Adding ==
    ASSUME NEW q \in Seq(Packet), NEW r \in Packet
    PROVE  /\ DOMAIN q = 1 .. Len(q) /\ Len(q) \in Nat
           /\ DOMAIN Append(q, r) = 1 .. (Len(q) + 1)
           /\ \A n \in 1 .. Len(q) : Append(q, r)[n] = q[n]
           /\ Append(q, r)[Len(q) + 1] = r
<1>1. /\ Append(q, r) \in Seq(Packet) /\ Len(Append(q, r)) = Len(q) + 1
      /\ \A n \in 1 .. Len(q) : Append(q, r)[n] = q[n]
      /\ Append(q, r)[Len(q) + 1] = r
  BY AppendProperties
<1> QED BY <1>1, LenProperties

\* A step of a thread that neither takes a packet nor handles one.
LEMMA ViewSamePackets ==
    ASSUME ViewInv, UNCHANGED <<nconns, hasty, serverfd, username, currentRoom, toClient, serving, user, room>>,
           \A j \in Conns : rx'[j].pkt = rx[j].pkt /\ (rx[j].pc = "handle" => rx'[j].pc = "handle")
    PROVE  ViewInv'
<1>1. \A s \in Conns : Followed(s)' => Followed(s)
  BY DEF Followed
<1>2. \A s \in Conns : (NameView(s) => NameView(s)') /\ (RoomView(s) => RoomView(s)')
  BY DEF NameView, RoomView, IsNews
<1>3. \A i \in Conns : IsNews(i)' <=> IsNews(i)
  BY DEF IsNews
<1> QED BY <1>1, <1>2, <1>3 DEF ViewInv

\* A packet is taken: it was the first on its way.
LEMMA ViewTakes ==
    ASSUME TypeInv, ReceiverInv, ShapeInv, PatientInv, ViewInv, NEW i \in Conns, NEW k \in Conns,
           rx[i].pc = "recv", toClient[k] # <<>>, toClient' = [toClient EXCEPT ![k] = Tail(@)],
           rx'[i].pc = "handle", rx'[i].pkt = Head(toClient[k]),
           \A j \in Conns : j # i => rx'[j] = rx[j],
           UNCHANGED <<nconns, hasty, serverfd, username, currentRoom, serving, user, room>>
    PROVE  ViewInv'
<1> SUFFICES ASSUME NEW s \in Conns, Followed(s)'
             PROVE  /\ user[s] # NULL => NameView(s)' /\ RoomView(s)'
                    /\ user[s] = NULL /\ s \in serving => NoNews(toClient'[s]) /\ \A j \in Conns : ~IsNews(j)'
  BY DEF ViewInv
<1>1. Followed(s)
  BY DEF Followed
<1>2. k = s /\ Idle
  BY <1>1, Alone
<1> DEFINE q == toClient[s]
<1>3. q \in Seq(Packet) /\ q # <<>> /\ toClient'[s] = Tail(q)
  BY <1>2 DEF TypeInv, TypeOK
<1>4. /\ DOMAIN q = 1 .. Len(q) /\ Len(q) \in Nat \ {0}
      /\ Head(q) = q[1]
      /\ DOMAIN Tail(q) = 1 .. (Len(q) - 1)
      /\ \A n \in 1 .. (Len(q) - 1) : Tail(q)[n] = q[n + 1]
  BY <1>3, Taking
<1> DEFINE m == Len(q)  t == Tail(q)
<1>5. \A j \in Conns : j # i => rx'[j].pkt = NoPkt
  BY <1>2 DEF Idle
<1>6. NoPkt.op # "LOGSUC" /\ NoPkt.op \notin News
  BY NoPktIsRequest, Constants DEF News, Replies
<1>7. rx'[i].pkt = q[1] /\ rx'[i].pc = "handle" /\ toClient'[s] = t
  BY <1>2, <1>3, <1>4
<1>8. m \in Nat \ {0} /\ DOMAIN q = 1 .. m /\ DOMAIN t = 1 .. (m - 1) /\ \A n \in 1 .. (m - 1) : t[n] = q[n + 1]
  BY <1>4
<1>9. 1 \in DOMAIN q /\ \A n \in DOMAIN t : n + 1 \in DOMAIN q /\ t[n] = q[n + 1]
  <2> HIDE DEF q, t, m
  <2> QED BY <1>8
<1>10. \A n \in DOMAIN q : n = 1 \/ (n - 1 \in DOMAIN t /\ t[n - 1] = q[n])
  <2> HIDE DEF q, t, m
  <2> QED BY <1>8
<1>11. ASSUME user[s] # NULL PROVE NameView(s)'
  <2>1. NameView(s)
    BY <1>1, <1>11 DEF ViewInv
  <2>2. \A n \in DOMAIN q : q[n].op = "LOGSUC" => q[n].user = user[s]
    BY <2>1 DEF NameView
  <2>3. username = user[s] \/ \E n \in DOMAIN q : q[n].op = "LOGSUC"
    BY <1>2, <1>6, <2>1 DEF NameView, Idle
  <2> HIDE DEF q, t, m
  <2>4. \A n \in DOMAIN t : t[n].op = "LOGSUC" => t[n].user = user[s]
    BY <1>9, <2>2
  <2>5. \A j \in Conns : rx'[j].pkt.op = "LOGSUC" => rx'[j].pkt.user = user[s]
    BY <1>5, <1>6, <1>7, <1>9, <2>2
  <2>6. \/ username = user[s]
        \/ \E n \in DOMAIN t : t[n].op = "LOGSUC"
        \/ \E j \in Conns : rx'[j].pc = "handle" /\ rx'[j].pkt.op = "LOGSUC"
    BY <1>7, <1>10, <2>3
  <2> QED BY <1>7, <2>4, <2>5, <2>6 DEF NameView
<1>12. ASSUME user[s] # NULL PROVE RoomView(s)'
  <2>1. RoomView(s)
    BY <1>1, <1>12 DEF ViewInv
  <2>2. \A n \in DOMAIN q :
           q[n].op \in News /\ (\A l \in DOMAIN q : l > n => q[l].op \notin News) => q[n].room = room[s]
    BY <2>1 DEF RoomView
  <2>3. NoNews(q) => currentRoom = room[s]
    BY <1>2, <2>1, SilentIsNoNews DEF RoomView
  <2> HIDE DEF q, t, m
  <2>4. ASSUME NEW n \in DOMAIN t, t[n].op \in News, \A l \in DOMAIN t : l > n => t[l].op \notin News
        PROVE  t[n].room = room[s]
    <3>1. n + 1 \in DOMAIN q /\ t[n] = q[n + 1] /\ n \in Nat /\ n >= 1
      BY <1>8, <1>9
    <3>2. ASSUME NEW l \in DOMAIN q, l > n + 1 PROVE q[l].op \notin News
      <4>1. l # 1 /\ l - 1 > n
        BY <1>8, <3>1, <3>2
      <4> QED BY <1>10, <2>4, <4>1
    <3> QED BY <2>2, <2>4, <3>1, <3>2
  <2>5. NoNews(t) => \A l \in DOMAIN q : l > 1 => q[l].op \notin News
    BY <1>8, <1>10 DEF NoNews
  <2>6. NoNews(t) => \A j \in Conns : IsNews(j)' => rx'[j].pkt.room = room[s]
    BY <1>5, <1>6, <1>7, <1>9, <2>2, <2>5 DEF IsNews, News
  <2>7. NoNews(t) /\ q[1].op \notin News => NoNews(q)
    BY <1>10 DEF NoNews
  <2>8. NoNews(t) /\ (\A j \in Conns : ~IsNews(j)') => currentRoom = room[s]
    BY <1>7, <2>3, <2>7 DEF IsNews, News
  <2>9. \A n \in DOMAIN t :
           t[n].op \in News /\ (\A l \in DOMAIN t : l > n => t[l].op \notin News) => t[n].room = room'[s]
    BY <2>4
  <2>10. (\A n \in DOMAIN t : t[n].op \notin News) =>
            /\ \A j \in Conns : rx'[j].pkt.op \in News => rx'[j].pkt.room = room'[s]
            /\ (\A j \in Conns : rx'[j].pkt.op \notin News) => currentRoom' = room'[s]
    BY <2>6, <2>8 DEF NoNews, IsNews, News
  <2> QED BY <1>7, <2>9, <2>10 DEF RoomView, NoNews, IsNews, News
<1>13. ASSUME user[s] = NULL, s \in serving PROVE NoNews(toClient'[s]) /\ \A j \in Conns : ~IsNews(j)'
  <2>1. NoNews(q)
    BY <1>1, <1>13 DEF ViewInv
  <2> HIDE DEF q, t, m
  <2> QED BY <1>5, <1>6, <1>7, <1>9, <2>1 DEF NoNews, IsNews, News
<1> QED BY <1>11, <1>12, <1>13

\* A packet is handled.
LEMMA ViewHandles ==
    ASSUME TypeInv, ReceiverInv, ShapeInv, PatientInv, ViewInv, NEW i \in Conns,
           loggedIn(i) \/ newRoom(i) \/ Goodbye(i) \/ ShowError(i)
    PROVE  ViewInv'
<1> SUFFICES ASSUME NEW s \in Conns, Followed(s)'
             PROVE  /\ user'[s] # NULL => NameView(s)' /\ RoomView(s)'
                    /\ user'[s] = NULL /\ s \in serving' => NoNews(toClient'[s]) /\ \A j \in Conns : ~IsNews(j)'
  BY DEF ViewInv
<1>1. UNCHANGED <<nconns, hasty, serverfd, toClient, serving, user, room>>
  BY ReceiveMoves DEF Receive, loggedIn, newRoom, Goodbye, ShowError, shared, network, server
<1>2. Followed(s)
  BY <1>1 DEF Followed
<1>3. /\ user[s] # NULL => NameView(s) /\ RoomView(s)
      /\ user[s] = NULL /\ s \in serving => NoNews(toClient[s]) /\ \A j \in Conns : ~IsNews(j)
  BY <1>2 DEF ViewInv
<1>4. NoPkt.op # "LOGSUC" /\ NoPkt.op \notin News /\ NoPkt.op \notin Replies
  BY NoPktIsRequest, Constants DEF News, Replies
<1>5. CASE loggedIn(i)
  <2>1. /\ rx'[i].pc = "room" /\ rx'[i].pkt = rx[i].pkt /\ rx[i].pkt.op = "LOGSUC"
        /\ \A j \in Conns : j # i => rx'[j] = rx[j]
        /\ username' = rx[i].pkt.user /\ currentRoom' = currentRoom
    BY <1>5, LoggedInMoves DEF loggedIn, Handles
  <2>2. \A j \in Conns : rx'[j].pkt = rx[j].pkt
    BY <2>1
  <2>3. \A j \in Conns : IsNews(j)' <=> IsNews(j)
    BY <2>2 DEF IsNews, News
  <2>4. RoomView(s) => RoomView(s)'
    BY <1>1, <2>1, <2>2, <2>3 DEF RoomView, NoNews, News
  <2>5. NameView(s) => NameView(s)'
    BY <1>1, <2>1, <2>2 DEF NameView
  <2> QED BY <1>1, <1>3, <2>3, <2>4, <2>5 DEF NoNews, News
<1>6. CASE newRoom(i) \/ Goodbye(i) \/ ShowError(i)
  <2>1. /\ rx'[i].pc = "loop" /\ rx'[i].pkt = NoPkt /\ username' = username
        /\ \A j \in Conns : j # i => rx'[j] = rx[j]
    BY <1>6, HandledMoves DEF newRoom, Goodbye, ShowError, shared
  <2>2. /\ rx[i].pkt.op \in Replies
        /\ ~(rx[i].pc = "handle" /\ rx[i].pkt.op = "LOGSUC")
    BY <1>6 DEF newRoom, Goodbye, ShowError, Handles, Replies, ShapeInv
  <2>3. \A j \in Conns : j # i => rx[j].pkt = NoPkt /\ rx'[j].pkt = NoPkt
    BY <1>2, <1>4, <2>1, <2>2, Alone
  <2>4. \A j \in Conns : ~IsNews(j)' /\ rx'[j].pkt.op # "LOGSUC"
    BY <1>4, <2>1, <2>3 DEF IsNews, News
  <2>5. NameView(s) => NameView(s)'
    BY <1>1, <1>4, <2>1, <2>2, <2>3, <2>4 DEF NameView
  <2>6. RoomView(s) => RoomView(s)'
    <3> SUFFICES ASSUME RoomView(s), NoNews(toClient[s]) PROVE currentRoom' = room[s]
      BY <1>1, <2>4 DEF RoomView, NoNews, News
    <3>1. CASE newRoom(i)
      <4>1. IsNews(i) /\ currentRoom' = rx[i].pkt.room
        BY <3>1 DEF newRoom, Handles, IsNews, News, ShapeInv
      <4> QED BY <4>1 DEF RoomView
    <3>2. CASE Goodbye(i) \/ ShowError(i)
      <4>1. ~IsNews(i) /\ currentRoom' = currentRoom
        BY <3>2 DEF Goodbye, ShowError, Handles, IsNews, News, shared
      <4>2. \A j \in Conns : ~IsNews(j)
        BY <1>4, <2>3, <4>1 DEF IsNews
      <4> QED BY <4>1, <4>2 DEF RoomView
    <3> QED BY <1>6, <3>1, <3>2
  <2> QED BY <1>1, <1>3, <2>4, <2>5, <2>6 DEF NoNews, News
<1> QED BY <1>5, <1>6

LEMMA ViewReceives ==
    ASSUME TypeInv, ReceiverInv, ShapeInv, PatientInv, ViewInv, NEW i \in Conns, Receive(i)
    PROVE  ViewInv'
<1>1. nconns' = nconns /\ \A j \in Conns : j # i => rx'[j] = rx[j]
  BY ReceiveMoves
<1>2. CASE Fetch(i)
  <2>1. rx[i].pc = "loop" /\ rx'[i].pkt = rx[i].pkt
        /\ UNCHANGED <<hasty, serverfd, username, currentRoom, toClient, serving, user, room>>
    BY <1>2, FetchMoves DEF Fetch, shared, network, server
  <2>2. \A j \in Conns : rx'[j].pkt = rx[j].pkt /\ (rx[j].pc = "handle" => rx'[j].pc = "handle")
    BY <1>1, <2>1
  <2> QED BY <1>1, <2>1, <2>2, ViewSamePackets
<1>3. CASE Recv(i)
  <2>1. /\ rx[i].pc = "recv" /\ rx[i].on \in Conns
        /\ UNCHANGED <<hasty, serverfd, username, currentRoom, serving, user, room>>
    BY <1>3 DEF Recv, TypeInv, shared, server
  <2>2. PICK k \in Conns : k = rx[i].on
    BY <2>1
  <2>3. CASE toClient' = toClient /\ rx'[i].pkt = rx[i].pkt
    <3>1. \A j \in Conns : rx'[j].pkt = rx[j].pkt /\ (rx[j].pc = "handle" => rx'[j].pc = "handle")
      BY <1>1, <2>1, <2>3
    <3> QED BY <1>1, <2>1, <2>3, <3>1, ViewSamePackets
  <2>4. CASE /\ toClient[k] # <<>> /\ rx'[i].pc = "handle" /\ rx'[i].pkt = Head(toClient[k])
             /\ toClient' = [toClient EXCEPT ![k] = Tail(@)]
    BY <1>1, <2>1, <2>4, ViewTakes
  <2> QED BY <1>3, <2>2, <2>3, <2>4, RecvMoves
<1> QED BY <1>2, <1>3, ViewHandles DEF Receive

\* What the server did with the packet, and what it said of it.
Tells(s, op, n, r) ==
    toClient'[s] = Append(toClient[s], [op |-> op, user |-> n, room |-> r, arg |-> NULL])

LoggedOut(s)  == user'[s] = NULL /\ s \notin serving'
LoggedIn(s)   == /\ user[s] = NULL /\ user'[s] \in Names /\ room'[s] \in Rooms
                 /\ Tells(s, "LOGSUC", user'[s], room'[s])
Moved(s)      == user[s] # NULL /\ user'[s] = user[s] /\ room'[s] \in Rooms /\ Tells(s, "JOINSUC", NULL, room'[s])
Stayed(s)     == /\ user'[s] = user[s] /\ room'[s] = room[s]
                 /\ \/ toClient'[s] = toClient[s]
                    \/ Tells(s, "EXIT", NULL, 0) \/ Tells(s, "SERV_ERR", NULL, 0)

\* Where a packet speaks for nobody else, the server tells what it does to the user it does
\* it to.
LEMMA ServeTells ==
    ASSUME TypeInv, NEW s \in Conns, Serve(s), ~Dies,
           user[s] # NULL => \A j \in Conns : j # s /\ user[j] # NULL => user[j] # Head(toServer[s]).user
    PROVE  /\ LoggedOut(s) \/ LoggedIn(s) \/ Moved(s) \/ Stayed(s)
           /\ serving' \subseteq serving
<1>1. PICK p : p = Head(toServer[s])
  OBVIOUS
<1>2. (ServeGuest(s, p) \/ ServeUser(s, p)) /\ p \in Request
  BY <1>1, ServeEffect
<1>3. /\ p.op = "login" => p.arg \in Names
      /\ p.op = "join" => p.arg \in Rooms
      /\ DEFAULT_ROOM \in Rooms
  BY <1>2, ClientAssumption DEF Request
<1>4. /\ user \in [Conns -> Names \cup {NULL}] /\ room \in [Conns -> Rooms \cup {0}]
      /\ toClient \in [Conns -> Seq(Packet)]
  BY DEF TypeInv, TypeOK
<1>5. \A op, n, r : Reply(s, op, n, r) => Tells(s, op, n, r)
  BY <1>4 DEF Reply, Tells
<1>6. serving' \subseteq serving
  BY <1>2, ServeTypes
<1>7. CASE ServeGuest(s, p)
  <2>1. CASE p.op = "login" /\ Reply(s, "LOGSUC", p.arg, DEFAULT_ROOM) /\ user' = [user EXCEPT ![s] = p.arg]
             /\ room' = [room EXCEPT ![s] = DEFAULT_ROOM]
    <3>1. user'[s] = p.arg /\ room'[s] = DEFAULT_ROOM /\ user[s] = NULL
      BY <1>4, <1>7, <2>1 DEF ServeGuest
    <3>2. LoggedIn(s)
      BY <1>3, <1>5, <2>1, <3>1 DEF LoggedIn
    <3> QED BY <1>6, <3>2
  <2>2. CASE serving' = serving \ {s} /\ UNCHANGED user
    BY <1>6, <1>7, <2>2 DEF ServeGuest, LoggedOut
  <2>3. CASE Reply(s, "SERV_ERR", NULL, 0) /\ UNCHANGED <<user, room>>
    BY <1>5, <1>6, <2>3 DEF Stayed
  <2> QED BY <1>7, <2>1, <2>2, <2>3 DEF ServeGuest
<1>8. CASE ServeUser(s, p)
  <2>1. user[s] # NULL
    BY <1>8 DEF ServeUser
  <2>2. ASSUME NEW to \in Rooms, Move(s, p, to), UNCHANGED user PROVE Moved(s)
    <3>1. PICK j \in Sessions(p.user, p.room) : room' = [room EXCEPT ![j] = to] /\ Reply(s, "JOINSUC", NULL, to)
      BY <2>2 DEF Move
    <3>2. j = s
      BY <1>1, <2>1, <3>1 DEF Sessions
    <3>3. room'[s] = to
      BY <1>4, <3>1, <3>2
    <3> QED BY <1>5, <2>1, <2>2, <3>1, <3>3 DEF Moved
  <2>3. NoReply /\ UNCHANGED <<user, room>> => Stayed(s)
    BY DEF NoReply, Stayed
  <2>4. CASE p.op = "join"
    BY <1>3, <1>6, <1>8, <2>2, <2>3, <2>4 DEF ServeUser
  <2>5. CASE p.op = "leave"
    BY <1>3, <1>6, <1>8, <2>2, <2>3, <2>5 DEF ServeUser
  <2>6. CASE p.op = "exit"
    <3>1. CASE p.user # NULL /\ Online(p.user)
      <4>1. user[s] = p.user
        BY <1>1, <2>1, <3>1 DEF Online
      <4>2. user'[s] = NULL /\ s \notin serving'
        BY <1>8, <2>6, <3>1, <4>1 DEF ServeUser
      <4> QED BY <1>6, <4>2 DEF LoggedOut
    <3>2. CASE ~(p.user # NULL /\ Online(p.user))
      BY <1>6, <1>8, <2>3, <2>6, <3>2 DEF ServeUser
    <3> QED BY <3>1, <3>2
  <2>7. CASE p.op \in {"login", "chat"}
    BY <1>5, <1>6, <1>8, <2>3, <2>7 DEF ServeUser, Stayed
  <2> QED BY <1>8, <2>4, <2>5, <2>6, <2>7 DEF ServeUser
<1> QED BY <1>2, <1>7, <1>8

LEMMA ViewServes ==
    ASSUME TypeInv, ReceiverInv, ShapeInv, PatientInv, TruthInv, ViewInv, NEW k \in Conns, Serve(k), ~Dies
    PROVE  ViewInv'
<1> SUFFICES ASSUME NEW s \in Conns, Followed(s)'
             PROVE  /\ user'[s] # NULL => NameView(s)' /\ RoomView(s)'
                    /\ user'[s] = NULL /\ s \in serving' => NoNews(toClient'[s]) /\ \A j \in Conns : ~IsNews(j)'
  BY DEF ViewInv
<1>1. /\ k \in serving
      /\ UNCHANGED <<nconns, hasty, serverfd, rx, username, currentRoom>>
  BY ServeEffect DEF shared
<1>2. Followed(s)
  BY <1>1 DEF Followed
<1>3. /\ user[s] # NULL => NameView(s) /\ RoomView(s)
      /\ user[s] = NULL /\ s \in serving => NoNews(toClient[s]) /\ \A j \in Conns : ~IsNews(j)
  BY <1>2 DEF ViewInv
<1>4. k = s /\ (user[s] # NULL => \A j \in Conns : j # s /\ user[j] # NULL => user[j] # Head(toServer[s]).user)
  <2>1. toServer[k] # <<>> /\ user \in [Conns -> Names \cup {NULL}]
    BY ServeEffect DEF TypeInv, TypeOK
  <2>2. k = s
    BY <1>2, <2>1, Alone
  <2> SUFFICES ASSUME user[s] # NULL, NEW j \in Conns, j # s, user[j] # NULL
               PROVE  user[j] # Head(toServer[s]).user
    BY <2>2
  <2>3. hasty = 0 /\ serverfd = s
    BY <1>2, Alone DEF Followed
  <2>4. Head(toServer[s]).user = user[s]
    BY <2>1, <2>2, <2>3 DEF TruthInv, Truthful
  <2> QED BY <2>4 DEF ShapeInv
<1>5. (LoggedOut(s) \/ LoggedIn(s) \/ Moved(s) \/ Stayed(s)) /\ serving' \subseteq serving
  BY <1>4, ServeTells
<1> DEFINE q == toClient[s]  c == toClient'[s]  m == Len(q)
<1>6. q \in Seq(Packet)
  BY DEF TypeInv, TypeOK
<1>7. ASSUME NEW r \in Packet, c = Append(q, r)
      PROVE  /\ m \in Nat /\ DOMAIN q = 1 .. m /\ DOMAIN c = 1 .. (m + 1)
             /\ c[m + 1] = r /\ \A n \in DOMAIN q : c[n] = q[n]
  BY <1>6, <1>7, Adding
<1>8. \A j \in Conns : IsNews(j)' <=> IsNews(j)
  BY <1>1 DEF IsNews, News
<1>9. CASE LoggedOut(s)
  BY <1>9 DEF LoggedOut
<1>10. CASE LoggedIn(s)
  <2> DEFINE r == [op |-> "LOGSUC", user |-> user'[s], room |-> room'[s], arg |-> NULL]
  <2>1. r \in Packet /\ c = Append(q, r) /\ user'[s] # NULL /\ user[s] = NULL
    BY <1>10, Constants DEF LoggedIn, Tells, Packet, Replies
  <2>2. r.op = "LOGSUC" /\ r.user = user'[s] /\ r.room = room'[s]
    OBVIOUS
  <2>3. NoNews(q) /\ \A j \in Conns : ~IsNews(j)
    BY <1>1, <1>3, <1>4, <2>1
  <2>4. /\ m \in Nat /\ DOMAIN q = 1 .. m /\ DOMAIN c = 1 .. (m + 1)
        /\ c[m + 1] = r /\ \A n \in DOMAIN q : c[n] = q[n]
    BY <1>7, <2>1
  <2> HIDE DEF q, c, m, r
  <2>5. m + 1 \in DOMAIN c /\ \A n \in DOMAIN c : n = m + 1 \/ (n \in DOMAIN q /\ c[n].op \notin News)
    BY <2>3, <2>4 DEF NoNews
  <2>6. /\ \A n \in DOMAIN c : c[n].op = "LOGSUC" => c[n].user = user'[s]
        /\ \E n \in DOMAIN c : c[n].op = "LOGSUC"
        /\ \A n \in DOMAIN c : c[n].op \in News => c[n].room = room'[s]
        /\ ~NoNews(c)
    BY <2>2, <2>4, <2>5 DEF News, NoNews
  <2>7. \A j \in Conns : rx'[j].pkt.op \notin News
    BY <1>1, <2>3 DEF IsNews
  <2>8. NameView(s)'
    BY <2>6, <2>7 DEF NameView, News, c
  <2>9. RoomView(s)'
    BY <2>6, <2>7 DEF RoomView, NoNews, News, IsNews, c
  <2> QED BY <2>1, <2>8, <2>9
<1>11. CASE Moved(s)
  <2> DEFINE r == [op |-> "JOINSUC", user |-> NULL, room |-> room'[s], arg |-> NULL]
  <2>1. r \in Packet /\ c = Append(q, r) /\ user'[s] = user[s] /\ user[s] # NULL
    BY <1>11 DEF Moved, Tells, Packet, Replies
  <2>2. r.op = "JOINSUC" /\ r.room = room'[s]
    OBVIOUS
  <2>3. NameView(s)
    BY <1>3, <2>1
  <2>4. /\ m \in Nat /\ DOMAIN q = 1 .. m /\ DOMAIN c = 1 .. (m + 1)
        /\ c[m + 1] = r /\ \A n \in DOMAIN q : c[n] = q[n]
    BY <1>7, <2>1
  <2>5. /\ \A n \in DOMAIN q : q[n].op = "LOGSUC" => q[n].user = user[s]
        /\ \A j \in Conns : rx[j].pkt.op = "LOGSUC" => rx[j].pkt.user = user[s]
        /\ \/ username = user[s]
           \/ \E n \in DOMAIN q : q[n].op = "LOGSUC"
           \/ \E j \in Conns : rx[j].pc = "handle" /\ rx[j].pkt.op = "LOGSUC"
    BY <2>3 DEF NameView
  <2> HIDE DEF q, c, m, r
  <2>6. m + 1 \in DOMAIN c /\ (\A n \in DOMAIN c : n = m + 1 \/ (n \in DOMAIN q /\ n < m + 1))
        /\ DOMAIN q \subseteq DOMAIN c
    BY <2>4
  <2>7. /\ \A n \in DOMAIN c : c[n].op = "LOGSUC" => c[n].user = user'[s]
        /\ (\E n \in DOMAIN q : q[n].op = "LOGSUC") => \E n \in DOMAIN c : c[n].op = "LOGSUC"
    BY <2>1, <2>2, <2>4, <2>5, <2>6
  <2>8. /\ \A n \in DOMAIN c : (\A l \in DOMAIN c : l > n => c[l].op \notin News) => c[n].room = room'[s]
        /\ ~NoNews(c)
    BY <2>2, <2>4, <2>6 DEF News, NoNews
  <2>9. NameView(s)'
    BY <1>1, <2>1, <2>5, <2>7 DEF NameView, c
  <2>10. RoomView(s)'
    BY <2>8 DEF RoomView, NoNews, News, c
  <2> QED BY <2>1, <2>9, <2>10
<1>12. CASE Stayed(s)
  <2>1. user'[s] = user[s] /\ room'[s] = room[s]
    BY <1>12 DEF Stayed
  <2>2. CASE c = q
    <3>1. /\ NameView(s) => NameView(s)'
          /\ RoomView(s) => RoomView(s)'
      BY <1>1, <2>1, <2>2 DEF NameView, RoomView, NoNews, IsNews, News
    <3> QED BY <1>3, <1>5, <1>8, <2>1, <2>2, <3>1
  <2>3. CASE Tells(s, "EXIT", NULL, 0) \/ Tells(s, "SERV_ERR", NULL, 0)
    <3>1. PICK r \in Packet : c = Append(q, r) /\ r.op \notin News
      <4>1. \A op \in {"EXIT", "SERV_ERR"} : [op |-> op, user |-> NULL, room |-> 0, arg |-> NULL] \in Packet
        BY DEF Packet, Replies
      <4> QED BY <2>3, <4>1 DEF Tells, News
    <3>2. /\ m \in Nat /\ DOMAIN q = 1 .. m /\ DOMAIN c = 1 .. (m + 1)
          /\ c[m + 1] = r /\ \A n \in DOMAIN q : c[n] = q[n]
      BY <1>7, <3>1
    <3>3. user[s] # NULL =>
             /\ \A n \in DOMAIN q : q[n].op = "LOGSUC" => q[n].user = user[s]
             /\ \A j \in Conns : rx[j].pkt.op = "LOGSUC" => rx[j].pkt.user = user[s]
             /\ \/ username = user[s]
                \/ \E n \in DOMAIN q : q[n].op = "LOGSUC"
                \/ \E j \in Conns : rx[j].pc = "handle" /\ rx[j].pkt.op = "LOGSUC"
      BY <1>3 DEF NameView
    <3>4. user[s] # NULL =>
             /\ \A n \in DOMAIN q :
                   q[n].op \in News /\ (\A l \in DOMAIN q : l > n => q[l].op \notin News) => q[n].room = room[s]
             /\ NoNews(q) => \A i \in Conns : IsNews(i) => rx[i].pkt.room = room[s]
             /\ NoNews(q) /\ (\A i \in Conns : ~IsNews(i)) => currentRoom = room[s]
      BY <1>3 DEF RoomView
    <3>5. user[s] = NULL /\ s \in serving => NoNews(q)
      BY <1>3
    <3> HIDE DEF q, c, m
    <3>6. m + 1 \in DOMAIN c /\ (\A n \in DOMAIN c : n = m + 1 \/ n \in DOMAIN q)
          /\ DOMAIN q \subseteq DOMAIN c
      BY <3>2
    <3>7. NoNews(c) <=> NoNews(q)
      BY <3>1, <3>2, <3>6 DEF NoNews
    <3>8. user[s] # NULL =>
             /\ \A n \in DOMAIN c : c[n].op = "LOGSUC" => c[n].user = user[s]
             /\ (\E n \in DOMAIN q : q[n].op = "LOGSUC") => \E n \in DOMAIN c : c[n].op = "LOGSUC"
      BY <3>1, <3>2, <3>3, <3>6 DEF News
    <3>9. user[s] # NULL => \A n \in DOMAIN c :
             c[n].op \in News /\ (\A l \in DOMAIN c : l > n => c[l].op \notin News) => c[n].room = room[s]
      BY <3>1, <3>2, <3>4, <3>6
    <3>10. user[s] # NULL => NameView(s)'
      BY <1>1, <2>1, <3>3, <3>8 DEF NameView, c
    <3>11. user[s] # NULL => RoomView(s)'
      <4>1. user[s] # NULL =>
               /\ \A n \in DOMAIN c :
                     c[n].op \in News /\ (\A l \in DOMAIN c : l > n => c[l].op \notin News) => c[n].room = room'[s]
               /\ NoNews(c) => \A i \in Conns : rx'[i].pkt.op \in News => rx'[i].pkt.room = room'[s]
               /\ NoNews(c) /\ (\A i \in Conns : rx'[i].pkt.op \notin News) => currentRoom' = room'[s]
        BY <1>1, <2>1, <3>4, <3>7, <3>9 DEF IsNews
      <4> QED BY <4>1 DEF RoomView, NoNews, News, IsNews, c
    <3>12. user[s] = NULL /\ s \in serving => NoNews(c)
      BY <3>5, <3>7
    <3> QED BY <1>3, <1>5, <1>8, <2>1, <3>10, <3>11, <3>12 DEF c
  <2> QED BY <1>12, <2>2, <2>3 DEF Stayed
<1> QED BY <1>5, <1>9, <1>10, <1>11, <1>12

LEMMA ViewNext ==
    TypeInv /\ ReceiverInv /\ ShapeInv /\ PatientInv /\ TruthInv /\ ViewInv /\ [Next]_vars => ViewInv'
<1> SUFFICES ASSUME TypeInv, ReceiverInv, ShapeInv, PatientInv, TruthInv, ViewInv, [Next]_vars PROVE ViewInv'
  OBVIOUS
<1>1. CASE UNCHANGED vars
  BY <1>1, ViewKeeps DEF vars, shared, network, server
<1>2. CASE ServerDown
  BY <1>2, ViewDies DEF ServerDown
<1> QED BY <1>1, <1>2, ViewMain, ViewConnects, ViewReceives, ViewDies, ViewServes DEF Next

(* What the client says. *)

\* A step that sends nothing and makes no packet.
LEMMA TruthKeeps ==
    ASSUME TruthInv, hasty' = 0 => hasty = 0, UNCHANGED <<serverfd, user, room, toServer>>,
           \/ UNCHANGED <<pc, sigint, pkt>>
           \/ sigint' # "no"
           \/ pc' \notin {"command", "name", "room"}
    PROVE  TruthInv'
<1> SUFFICES ASSUME hasty = 0, NEW k \in Conns, serverfd = k, user[k] # NULL,
                    /\ toServer[k] # <<>> => Truthful(Head(toServer[k]), k)
                    /\ sigint = "no" =>
                       /\ pc \in {"command", "name", "room"} /\ pkt.op \in {"join", "leave"} => pkt.room = room[k]
                       /\ pc \in {"name", "room"} => pkt.user = user[k]
                       /\ pc = "room" => Truthful(pkt, k)
             PROVE  /\ toServer'[k] # <<>> => Truthful(Head(toServer[k]), k)'
                    /\ sigint' = "no" =>
                       /\ pc' \in {"command", "name", "room"} /\ pkt'.op \in {"join", "leave"} => pkt'.room = room[k]
                       /\ pc' \in {"name", "room"} => pkt'.user = user[k]
                       /\ pc' = "room" => Truthful(pkt, k)'
  BY DEF TruthInv
<1>1. \A p : p.user = user'[k] /\ (p.op \in {"join", "leave", "chat"} => p.room = room'[k])
             <=> p.user = user[k] /\ (p.op \in {"join", "leave", "chat"} => p.room = room[k])
  OBVIOUS
<1> QED BY <1>1 DEF Truthful

LEMMA TruthDies == Dies => TruthInv'
BY DEF Dies, TruthInv

\* The user is a new one, or none.
LEMMA TruthConnects ==
    ASSUME TypeInv, ShapeInv, Connect \/ ConnectFails
    PROVE  TruthInv'
<1>1. CASE Connect
  <2>1. nconns + 1 \in Conns /\ nconns \in Nat
    BY <1>1, ConnectCounts DEF TypeInv
  <2>2. user[nconns + 1] = NULL
    BY <2>1 DEF ShapeInv
  <2> QED BY <1>1, <2>2 DEF Connect, TruthInv
<1>2. CASE ConnectFails
  BY <1>2, Constants DEF ConnectFails, TruthInv, BAD
<1> QED BY <1>1, <1>2

\* A packet is begun when the client knows where its user is.
LEMMA TruthCommand ==
    ASSUME TypeInv, PatientInv, ViewInv, TruthInv, NEW op, NEW arg, Command(op, arg)
    PROVE  TruthInv'
<1> SUFFICES ASSUME hasty' = 0, NEW k \in Conns, serverfd = k, user[k] # NULL
             PROVE  /\ toServer[k] = <<>> /\ pc' = "command"
                    /\ pkt'.op \in {"join", "leave"} => pkt'.room = room[k]
  BY DEF TruthInv, Command, shared, network, server
<1>1. hasty = 0 /\ Waited
  BY TypedWaits DEF Command
<1>2. Idle /\ Empty
  BY <1>1, WaitedSettled
<1>3. currentRoom = room[k]
  BY <1>1, <1>2, SettledView DEF Followed, Empty
<1> QED BY <1>2, <1>3 DEF Command, Empty

\* ... its name put in when it is told, ...
LEMMA TruthFillName ==
    ASSUME TypeInv, PatientInv, ViewInv, TruthInv, FillName
    PROVE  TruthInv'
<1>1. UNCHANGED <<sigint, serverfd, user, room, toServer, hasty>> /\ pc = "command" /\ sigint = "no"
  BY DEF FillName, Main, shared, network, server
<1>2. CASE serverfd = 0
  <2>1. pc' \notin {"command", "name", "room"}
    BY <1>2 DEF FillName, AfterPacket
  <2> QED BY <1>1, <2>1, TruthKeeps
<1>3. CASE serverfd # 0
  <2>1. pc' = "name" /\ pkt' = [pkt EXCEPT !.user = username]
    BY <1>3 DEF FillName
  <2>2. pkt'.user = username /\ pkt'.op = pkt.op /\ pkt'.room = pkt.room
    BY <2>1 DEF TypeInv, TypeOK, Request, Packet
  <2> SUFFICES ASSUME hasty = 0, NEW k \in Conns, serverfd = k, user[k] # NULL
               PROVE  /\ toServer[k] = <<>> /\ pkt'.user = user[k]
                      /\ pkt'.op \in {"join", "leave"} => pkt'.room = room[k]
    BY <1>1, <2>1 DEF TruthInv
  <2>3. Idle /\ Empty
    BY <1>1 DEF PatientInv, OneAtATime, Composing
  <2>4. username = user[k]
    BY <2>3, SettledView DEF Followed, Empty
  <2>5. pkt.op \in {"join", "leave"} => pkt.room = room[k]
    BY <1>1 DEF TruthInv
  <2> QED BY <2>2, <2>3, <2>4, <2>5 DEF Empty
<1> QED BY <1>2, <1>3

\* ... and the room of a chat message; now it is complete.
LEMMA TruthFillRoom ==
    ASSUME TypeInv, PatientInv, ViewInv, TruthInv, FillRoom
    PROVE  TruthInv'
<1>1. /\ UNCHANGED <<sigint, serverfd, user, room, toServer, hasty>> /\ pc = "name" /\ sigint = "no"
      /\ pc' = "room" /\ pkt' = IF pkt.op = "chat" THEN [pkt EXCEPT !.room = currentRoom] ELSE pkt
  BY DEF FillRoom, Main, shared, network, server
<1>2. pkt'.op = pkt.op /\ pkt'.user = pkt.user /\ pkt'.room = IF pkt.op = "chat" THEN currentRoom ELSE pkt.room
  BY <1>1 DEF TypeInv, TypeOK, Request, Packet
<1> SUFFICES ASSUME hasty = 0, NEW k \in Conns, serverfd = k, user[k] # NULL
             PROVE  /\ toServer[k] = <<>> /\ pkt'.user = user[k]
                    /\ pkt'.op \in {"join", "leave", "chat"} => pkt'.room = room[k]
  BY <1>1 DEF TruthInv, Truthful
<1>3. Idle /\ Empty
  BY <1>1 DEF PatientInv, OneAtATime, Composing
<1>4. currentRoom = room[k]
  BY <1>3, SettledView DEF Followed, Empty
<1>5. pkt.user = user[k] /\ (pkt.op \in {"join", "leave"} => pkt.room = room[k])
  BY <1>1 DEF TruthInv
<1> QED BY <1>2, <1>3, <1>4, <1>5 DEF Empty

LEMMA TruthSends ==
    ASSUME TypeInv, PatientInv, ViewInv, TruthInv, SendPkt \/ InterruptSend
    PROVE  TruthInv'
<1>1. /\ UNCHANGED <<serverfd, user, room, hasty>>
      /\ sigint' # "no" \/ pc' \notin {"command", "name", "room"}
  BY DEF SendPkt, InterruptSend, AfterPacket, shared, server
<1>2. PICK p : /\ SendTo(serverfd, p) \/ UNCHANGED network
               /\ \/ sigint = "no" /\ pc = "room" /\ p = pkt
                  \/ sigint = "name" /\ p = [NoPkt EXCEPT !.op = "exit", !.user = username]
  BY DEF SendPkt, InterruptSend, Main
<1> SUFFICES ASSUME hasty = 0, NEW k \in Conns, serverfd = k, user[k] # NULL, toServer'[k] # <<>>
             PROVE  Head(toServer'[k]).user = user[k]
                    /\ (Head(toServer'[k]).op \in {"join", "leave", "chat"} => Head(toServer'[k]).room = room[k])
  BY <1>1 DEF TruthInv, Truthful
<1>3. Idle /\ Empty
  BY <1>2 DEF PatientInv, OneAtATime, Composing
<1>4. toServer[k] = <<>> /\ toServer \in [Conns -> Seq(Request)]
  BY <1>3 DEF Empty, TypeInv, TypeOK
<1>5. toServer'[k] = Append(<<>>, p)
  BY <1>2, <1>4 DEF SendTo, network
<1>6. Head(toServer'[k]) = p
  <2>1. <<>> \in Seq({p})
    BY EmptySeq
  <2>2. Head(Append(<<>>, p)) = p
    BY <2>1, HeadTailAppend
  <2> QED BY <1>5, <2>2
<1>7. username = user[k]
  BY <1>3, SettledView DEF Followed, Empty
<1>8. CASE sigint = "no" /\ pc = "room" /\ p = pkt
  BY <1>6, <1>8 DEF TruthInv, Truthful
<1>9. CASE p = [NoPkt EXCEPT !.op = "exit", !.user = username]
  <2>1. p.op = "exit" /\ p.user = username
    BY <1>9 DEF NoPkt
  <2> QED BY <1>6, <1>7, <2>1
<1> QED BY <1>2, <1>8, <1>9

\* A user who waits has nothing more on its way when his packet is handled.
LEMMA TruthServes ==
    ASSUME TypeInv, PatientInv, TruthInv, NEW k \in Conns, Serve(k), ~Dies
    PROVE  TruthInv'
<1>1. /\ k \in serving /\ toServer[k] # <<>>
      /\ toServer'[k] = Tail(toServer[k])
      /\ UNCHANGED <<pc, sigint, pkt, shared, hasty>>
  BY ServeEffect
<1> SUFFICES ASSUME hasty = 0 PROVE serverfd = k /\ toServer'[k] = <<>> /\ ~Composing
  BY <1>1 DEF TruthInv, Composing, shared
<1>2. OneAtATime
  BY DEF PatientInv
<1>3. serverfd = k /\ ~Composing /\ Len(toServer[k]) <= 1 /\ toServer[k] \in Seq(Request)
  BY <1>1, <1>2 DEF OneAtATime, Empty, TypeInv, TypeOK
<1> QED BY <1>1, <1>3, TailOfOne

LEMMA TruthNext == TypeInv /\ ShapeInv /\ PatientInv /\ ViewInv /\ TruthInv /\ [Next]_vars => TruthInv'
<1> SUFFICES ASSUME TypeInv, ShapeInv, PatientInv, ViewInv, TruthInv, [Next]_vars PROVE TruthInv'
  OBVIOUS
<1>1. CASE UNCHANGED vars
  BY <1>1, TruthKeeps DEF vars, shared, network, server
<1>2. CASE Interrupt
  <2>1. hasty' = 0 => hasty = 0
    BY <1>2 DEF Interrupt, TypeInv, TypeOK
  <2>2. sigint' # "no" \/ pc' \notin {"command", "name", "room"}
    BY <1>2 DEF Interrupt
  <2> QED BY <1>2, <2>1, <2>2, TruthKeeps DEF Interrupt, shared, network, server
<1>3. CASE serverLogin \/ validJoin \/ Leave \/ Exit \/ Chat
  <2>1. PICK op, arg : Command(op, arg)
    BY <1>3, CommandIsRequest
  <2> QED BY <2>1, TruthCommand
<1>4. CASE Close \/ Join \/ InterruptJoin
  <2>1. pc' \notin {"command", "name", "room"}
    BY <1>4 DEF Close, Join, InterruptJoin
  <2> QED BY <1>4, <2>1, TruthKeeps DEF Close, Join, InterruptJoin, shared, network, server
<1>5. ASSUME NEW i \in Conns, Receive(i) PROVE TruthInv'
  <2>1. UNCHANGED <<pc, sigint, pkt, hasty, serverfd, user, room, toServer>>
    BY <1>5 DEF Receive, Fetch, Recv, loggedIn, newRoom, Goodbye, ShowError, shared, network, server
  <2> QED BY <2>1, TruthKeeps
<1>6. CASE ServerDown
  BY <1>6, TruthDies DEF ServerDown
<1> QED BY <1>1, <1>2, <1>3, <1>4, <1>5, <1>6, TruthConnects, TruthFillName, TruthFillRoom, TruthSends,
        TruthDies, TruthServes DEF Next, MainStep

-----------------------------------------------------------------------------
(* The theorems. *)

ClientInv == TypeInv /\ ReceiverInv /\ ShapeInv /\ PatientInv /\ ViewInv /\ TruthInv

LEMMA ClientInit == Init => ClientInv
<1> SUFFICES ASSUME Init PROVE ClientInv
  OBVIOUS
<1>1. TypeInv /\ ReceiverInv
  BY TypeInit, ReceiverInit
<1>2. ShapeInv
  BY DEF Init, ShapeInv, NoRx
<1>3. Idle /\ Empty
  BY DEF Init, Idle, Empty, NoRx
<1>4. \A k \in Conns : Len(toServer[k]) <= 1 /\ Len(toClient[k]) <= 1
  <2>1. Len(<<>>) = 0
    BY EmptySeq
  <2>2. \A n : n = 0 => n <= 1
    OBVIOUS
  <2> QED BY <1>3, <2>1, <2>2, Zenon DEF Empty
<1>5. PatientInv
  BY <1>3, <1>4 DEF Init, PatientInv, OneAtATime, Idle, Empty
<1>6. ViewInv /\ TruthInv
  BY Constants DEF Init, ViewInv, TruthInv, Followed
<1> QED BY <1>1, <1>2, <1>5, <1>6 DEF ClientInv

LEMMA ClientNext == ClientInv /\ [Next]_vars => ClientInv'
BY TypeNext, ReceiverNext, ShapeNext, PatientNext, ViewNext, TruthNext DEF ClientInv

LEMMA ClientHolds == Spec => []ClientInv
BY ClientInit, ClientNext, PTL DEF Spec

\* On its first connection, and on every one if its user waits for his replies, the client
\* that has handled all it was sent has the name and the room the server has it under.
THEOREM ViewsSettle == Spec => []ViewSettles
<1>1. ClientInv => ViewSettles
  <2> SUFFICES ASSUME ClientInv, serverfd \in Conns, user[serverfd] # NULL, nconns = 1 \/ hasty = 0,
                      Quiet(serverfd)
               PROVE  username = user[serverfd] /\ currentRoom = room[serverfd]
    BY DEF ViewSettles
  <2>1. Followed(serverfd) /\ ViewInv /\ Idle /\ toClient[serverfd] = <<>>
    BY DEF Followed, ClientInv, Quiet, Idle
  <2> QED BY <2>1, SettledView
<1> QED BY <1>1, ClientHolds, PTL

\* A packet of a user who waits for his replies says truly who he is and, where the handler
\* looks at the room, which room he is in.
THEOREM SpeaksTruly == Spec => []SpeaksForItself
<1>1. ClientInv => SpeaksForItself
  <2> SUFFICES ASSUME ClientInv, NEW k \in serving, hasty = 0, user[k] # NULL, toServer[k] # <<>>
               PROVE  Truthful(Head(toServer[k]), k)
    BY DEF SpeaksForItself, Truthful
  <2>1. k \in Conns
    BY Constants DEF ClientInv, TypeInv, TypeOK, Conns
  <2>2. OneAtATime
    BY DEF ClientInv, PatientInv
  <2>3. serverfd = k
    BY <2>1, <2>2 DEF OneAtATime
  <2> QED BY <2>1, <2>3 DEF ClientInv, TruthInv
<1> QED BY <1>1, ClientHolds, PTL

=============================================================================
