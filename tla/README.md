# TBDChat: specifications, model checking and proofs

TBDChat is a C chat server (one POSIX thread per client, shared linked lists)
with an ncurses client. This directory holds TLA+ models of the server and of the
client, TLC configurations that check them on small instances, and TLAPS proofs of their
safety properties and refinements for every instance. Line numbers refer to the sources under
`src/`.

    tlc -workers 2 -config open.cfg MCChatServer
    tlc -workers 2 -config lists.cfg LinkedList
    tlapm ChatServerRooms.tla

## The system

| component | state | operations | talks to |
|---|---|---|---|
| accept loop (`chat_server.c` `main`) | listening socket, `new_client`, the descriptor table | accept, start a thread, SIGINT | starts connection threads |
| connection thread (`client_receive`) | `client`, `logged_in`, the packet | one handler per packet option | lists; other clients' sockets |
| sessions | `active_users_list`, `User.sock` | `login`, `exit_client` | rooms, accounts |
| rooms | `room_list`, `numRooms`, each room's `user_list`, `User.roomID` | `join`, `leave`, `invite`, `send_message`, `createRoom` | active users; broadcasts through `User.sock` |
| accounts | `registered_users_list`, `Users.bin` | `register_user`, `set_pass`, `set_name`, `writeUserFile`, `readUserFile` | sessions (the three kinds of list share one `User` record) |
| linked lists (`linked_list.c`) | nodes, mutexes | insert, remove, search, length | used by every thread |
| listings | none | GETUSERS, GETALLUSERS, GETUSER, GETROOMS, MOTD | read the lists |
| client (`chat_client.c`, `client_commands.c`) | `serverfd`, `currentRoom`, `username` | commands, receive thread, reconnect | one TCP stream each way |
| client screen, configuration, help (`visual.c`, parts of the others) | windows, `.tbdchat` file | output, file edits | none |

One `User` record per registered user is shared by the registered list, the
active list and the list of the room he is in. Every handler changes several of
these in several steps, without a lock that would join them: the list functions
take their mutex *by value* and lock a private copy. So the hard behaviour is
interleaving: a user is out of one list and not yet in the next, a record's
descriptor is old, a room number was read before it was changed, a file is
written by several threads. A client's packets carry its own idea of its name
and room, which lags behind the server's by the replies still on their way; the
server trusts them. Connections end by EXIT, by a failed `recv` or not at all (`recv`
returning 0 is retried for ever). The process can be killed at any point, and
then `Users.bin` is all there is.

What makes each part correct:

- sessions: a user has one session, on the active list exactly while it lasts;
  a thread that ends has cleaned up; a login does not disturb another;
- rooms: every user is in one room or on the way between two; rooms keep their number
  and name; the client learns the room the server has him in; messages and
  invitations reach whom they should and nobody else;
- accounts: a name is registered once; a session changes the password of its own user;
  the file is, at every crash, a list the next run can start from, and holds
  what was answered;
- lists: no node is lost or duplicated; no thread waits for ever;
- client: what it sends about itself is true when the server reads it.

`PROJECT.json` lists the components with their status and every hazard with its
line and the properties aimed at it.

## Modules

| module | what it is |
|---|---|
| `Presence` | abstract specification: users are offline, between places or in one room; rooms are created once |
| `ChatServer` | sessions and rooms, one action per access to shared state |
| `MCChatServer` | its instance for TLC |
| `ChatServerProofs` | type invariant, proved |
| `ChatServerRooms` | the inductive invariant of the room core; sessions and rooms, proved |
| `ChatServerMessages` | whom packets reach and what clients learn, proved |
| `ChatServerPatient` | what holds of clients that wait for their replies, proved |
| `ChatServerRefinement` | `ChatServer` implements `Presence`, proved |
| `UserRegistry` | accounts, `Users.bin`, restart |
| `MCUserRegistry` | its instance for TLC |
| `UserRegistryProofs` | types, unique registrations, file follows list, passwords, proved |
| `UserList` | abstract specification: a list of users, changed by one atomic call at a time |
| `LinkedList` | one such list at the grain of its pointers, with the real mutex |
| `LinkedListProofs` | types, the listings' mutex; with one change at a time what searches and walks tell, and that the list is a `UserList`, proved |
| `AcceptLoop` | how a connection gets from `accept` to its thread |
| `ChatClient` | one client: main thread, SIGINT handler, receive threads; and a server for it |
| `ChatClientProofs` | types, the receive thread, when the client's name and room are the server's, proved |

`ChatServer` and `UserRegistry` are two views of the server's threads: the first has
the rooms and takes credentials for granted, the second has the accounts and does
without rooms. Both take a list of users for a `UserList`; `LinkedList` says when the
code's lists are that. `AcceptLoop` is what comes before the first step of a thread
of either. `ChatClient` puts under a microscope what `ChatServer` has as `view` and
`told`, for a server whose handlers are not disturbed.

### ChatServer

A handler is cut where other threads can see a difference: at each call of a
list function, write of a shared record, send and broadcast. Its first access is
taken with the `recv` before it. `pc[c]` names the access the thread of
connection `c` makes next; `join_id`, `join_load`, `join_store` and
`join_insert` are the four steps of `createRoom(&room_list, numRooms, ...)`.

| code | in the model |
|---|---|
| the descriptor table, `accept` returning the lowest free number | `peer`, `Accept` |
| `client`, `in_pkt`, `newRoom`, `numRooms++` in a register | `fd`, `pkt`, `newRoom`, `load` |
| `logged_in`, with whose name | `session` (kept until the user is off the active list) |
| `active_users_list`; each `room->user_list`; `User.roomID`, `User.sock` | `active`; `members[r][n]`, a number of nodes; `roomID`, `sock` |
| `room_list`, `numRooms` | `rooms`, `numRooms` |
| the client's `currentRoom`; LOGSUC and JOINSUC on their way | `view`; `told` |
| packets sent to others by the last step | `sent`, an observation only |
| following NULL, freeing a listed record | `fault`; nothing happens afterwards |

A packet's room and user are what the client knows when it sends it
(`Packet`, `chat_client.c:103-125`), and `Ready` lets a client send while
`MaxBehind` replies are unread. `Vanish` ends a client without an EXIT;
the thread then either never notices (`recv` returns 0 for ever) or sees a reset
(`Reset`). `User.sock` starts with arbitrary old numbers, as read from
`Users.bin`. The packet's user is NULL or the one the connection is logged in as: the
model's clients are programs that have not been connected before. A program that reconnects
keeps `username` and `currentRoom` (`chat_client.c:35-38`) and sends them until it has read the
new LOGSUC; what it sends is in `ChatClient`, what the account handlers do with a name
that is not the session's in `UserRegistry`, and what the room handlers would do is not modelled. Abstracted: message texts, timestamps, error replies, the MOTD, logs,
the order of nodes in a list (no handler depends on it), list calls being
atomic, well-formedness of arguments, and the replies that do not tell a client
its room.

### UserRegistry

`list` is the order of `registered_users_list`, `rec[n]` the record it shares
with the other lists, `file` the slots of `Users.bin`. `writeUserFile` is
`WriteOpen` (no truncation, a descriptor that is never closed: `opens` counts them), one
`WriteRecord` per record of the list as it then is, and `WriteEnd`. `set_pass`
and `set_name` clear a field (`PassClear`, `NameClear`) and fill it
(`PassSet`, `NameSet`). SETPASS, SETNAME and EXIT act on the user their
packet names, which nothing ties to the session (`server_clients.c:605`, `550`, `727`); the
model's packets name anybody or nobody, and the observation `misnamed` records that
one has named, and so changed or signed off, another user than its session's. SETNAME's notice goes to the room in the
record, and that user may have none if he is not online (`noRoomFollowed`). `Restart` is the end of the process wherever its threads
are (SIGINT, a kill, a fault), and `readUserFile`. A login
is cut at the name check, the password check and the insertion into the active
list; the rooms are in `ChatServer`, so `Exit` is one step here. A password
stands for its digest; `ErrorName` is the string `"ERROR"`, which
`get_real_name` returns for nobody.

### LinkedList and UserList

`head`, `next`, `data` are the pointers, `InList` the nodes one comes to from `head` and `Chain`
these in order; a thread's record has the function it is in
and its locals. A step is one access to a shared pointer, as the unoptimised build
makes it: `temp->next` is read in a loop's condition (`Check`, `Find`) and again in its
body (`Advance`, `Skip`). All functions share the walk `Temp`, `Empty`, `Check`,
`Advance`; `Visit` and `WalkEnds` say what each does at a node and at the end
(`get_user` stands for `get_real_name` and `get_password` too). `insertNode` and
`insertUser` end in `InsertFirst` or `InsertLast`, `InsertClear`; `removeUser` is the
walk and then `removeNode`, from `IsNull` to `Unlink`. The listings
(`get_active_users`, `get_room_users`, `get_room_list`) are `listLength` and then
`Lock`, `Start`, `Send`, `Unlock`; `send_message` is `printList`'s walk and then the
last three. A list function called while the real mutex is locked waits for ever for its locked
copy: `hung`.

With `Overlap = FALSE` a call that changes the list begins only when no other such
call is under way; searches, listings and broadcasts go on. Under that proviso
the list is a `UserList`, and so the atomic list calls of the other modules are
what the code's calls amount to. What the proviso hides is what `lost_node` shows and,
under `fault`, that a walk follows NULL if a node goes at the wrong moment; that crash
is in the run `lists`, and `CrashNeedsChange` says which calls it can hit: those that change
nothing themselves and under which the list has changed since they began. (With overlapping
changes TLC finds it violated: an insertion crashes too.) `always` and `ever` record what a call could have noticed of the list, which is what the properties
compare its answer with.

### AcceptLoop

`new_client` is main's variable, `starting` the threads that have been created and
have not read it yet. `accept` and `pthread_create` may fail; the loop ignores the
second and goes on with -1 after the first.

### ChatClient

| code | in the model |
|---|---|
| `serverfd` (0, -1 or a descriptor), `chat_rx_thread` | `serverfd` (0, `BAD` or the connection), `last` |
| `username`, `currentRoom`, `nameMutex`, `roomMutex` | `username`, `currentRoom`; `NameMutexHeld`, `RoomMutexHeld` from where main is |
| main's loop: line, `userCommand`, name, room, send, `/exit`'s close and join | `Connect`, `ConnectFails`, `serverLogin`, `validJoin`, `Leave`, `Exit`, `Chat`, then `FillName`, `FillRoom`, `SendPkt`, `Close`, `Join` |
| `sigintHandler`, on main's stack | `Interrupt`, `InterruptSend`, `InterruptJoin` |
| `chatRX`: `recv` on the value `serverfd` has at the call, `serverResponse` | `Fetch`, `Recv`, `loggedIn`, `newRoom`, `Goodbye`, `ShowError` |
| the server's handlers, one packet at a time | `Serve`, `Crashes`, `ServerDown` |

Two receive threads may exist, and both read whatever `serverfd` is. The thread of a connection
may also fail to be created (`client_commands.c:254`): then nobody is there to read it, its
`rx` is "failed", and `last` is what it was or the handle of no thread. The server goes
down with or without a cause, loses its sessions and may be connected to again. Things
one can see in the state graph, and which the properties' conditions leave out:

- a SIGINT that finds main inside its `nameMutex` section waits for a lock its own
  thread holds (`chat_client.c:549`), and one that finds it inside the `roomMutex`
  section joins a thread that may be waiting for that lock;
- after a reconnect `username` and `currentRoom` are those of the lost session until
  the new LOGSUC has been handled, so commands typed in between are sent in the old
  name; `JOIN` from a room the restarted server does not have users in ends that server;
- with two receive threads on one socket a LOGSUC and a JOINSUC may be handled in either order;
- a connect that fails leaves -1 in `serverfd` with the old connection open
  (`client_commands.c:250`), and one that gets no receive thread leaves the old one as the
  last: if that thread is inside `recv` on the old connection, `/exit` waits for it
  for ever, also if its user has waited for every reply (`LeftBehind`);
- `/exit` and SIGINT before the LOGSUC has been handled name nobody, the server's
  thread ends without a goodbye and the client waits for its receive thread for ever.

`hasty` counts the lines typed, and the SIGINT, while something on the current connection
was unanswered; a `/connect` on a quiet connection is not hasty, whether it succeeds or not.
`ViewSettles` (after the first connection), `SpeaksForItself` and `ExitEnds` speak of
users who were never hasty: for them the client's bookkeeping is right, over lost
connections, failed connects, restarts and reconnects. `ExitEnds` is left with two exceptions, both
named in it: the thread left behind, and the SIGINT that finds `nameMutex` held. `ReceiverLives`
is about the thread made for the current connection, not about any that is alive.

## Runs

| run | instance | shows |
|---|---|---|
| `open` | 2 connections, 2 users, 2 descriptors, lobby + 2 room names for 1 free room number, 1 unread reply, double logins, crashes | sessions and rooms are consistent, packets reach their addressees, `Presence` is implemented |
| `patient` | 2 connections, 2 users, lobby + 1 room name and 2 free numbers, every reply read before the next command, EXIT only | no fault but after a refused insertion; speakers are members; exits and joins take full effect; `Presence` with fairness |
| `accounts` | 2 connections, 2 names, 2 passwords, real name `ERROR`, 2 descriptors, no change begun after 3 opens of the file, packets that name anybody, restart at any point | unique registrations, file follows list, a session changes its own user's password unless its packet names another |
| `race_create` | as `open`, 2 free numbers | **violated**: two joins create two rooms with one number; the second follows NULL (`server_clients.c:430`) |
| `fd_reuse` | as `race_create` | **violated**: a connection that reuses a closed descriptor gets messages of a room it is not in (`server_clients.c:745`) |
| `abrupt` | as `race_create`, no unread replies | **violated**: after a reset the user stays listed for ever (`server_clients.c:114`) |
| `leak` | as `accounts`, 1 descriptor | **violated**: `writeUserFile` leaks its descriptor, later registrations are not saved (`linked_list.c:316`) |
| `killed` | as `accounts` | **violated**: a cleared password is saved by another thread and survives a kill (`server_clients.c:613`) |
| `lists` | 2 threads, 3 users, 3 nodes, 3 calls, any initial list, one change at a time | searches, listings and broadcasts tell the truth under a changing list; listings exclude each other; only searches and walks under a change can crash; every call returns that does not hang; `UserList` is implemented |
| `lost_node` | 2 threads, 2 users, 3 nodes, 3 calls, changes overlap | **violated**: a user is appended to a node that is being removed, and is never in the list (`linked_list.c:136`) |
| `client` | 1 user, 2 rooms, 2 connections, 4 lines of which 2 hasty, failing connects and thread creations, 1 server failure, SIGINT at any point | name and room follow the server's; packets are true; the connection's own receive thread is there; exit ends |
| `handover` | 2 connections, 1 failing call | **violated**: two threads read the same `new_client` (`chat_server.c:72`) |

The properties and the code they are about are described where they are defined,
at the end of each module. For each one, an operator
`X_Something` next to the definition `X` is a bug of that code under which TLC
finds the property violated.

Bounds. Every race in the room core is between two handlers, or a handler and a
connection that reuses its descriptor, so two connections and two users exhibit
it; the number of nodes a user can have in a list is not bounded by the model.
`MaxRoomID` is one above the lobby in `open`: two creators still
race for that number. `MaxBehind = 1` already lets a client send a command that
names a room it has left. A connection is accepted once: a reconnecting client is
another connection. In `UserRegistry` the file can be opened twice, then opening fails,
until the server restarts, and connections log in any number of times; 2
descriptors let both threads write at once, and the opens after them fail. Two slots suffice for a
record that is new in one slot and old in another. In `LinkedList` an initial list of
every length up to three has a head, a middle and a last node, which is what the
branches of `removeNode` and the walks tell apart; one node of it or one new node can be
added and removed under a walk, and two threads and three calls give every pair of calls
and what the first of them leaves behind for a third. In `ChatClient` two connections give two receive
threads; one server failure puts the second after a restart; four lines are
connect, login, reconnect, login or exit, or connect, login, a command, exit, and two of them may be
hasty. (With five lines, one of them hasty, TLC finds the same properties true in 1.26 million
states, too many for a run of a few minutes.) One user is enough: nothing in a client
depends on other users, and a second connection logs in as the same one. A chat to a
room that is gone ends the server in the model, as in the code. Symmetry (connections,
usernames, room names other than the lobby's, passwords) is used only in runs without
liveness. `CHECK_DEADLOCK FALSE` is set because the
system may stop: all connections have ended, a bound or a fault has been reached, the
client has exited or its user types nothing.

Fairness is weak fairness of each thread's own steps (`Handler(c)`): they wait
for no other thread at this grain, so a scheduler that runs every thread
provides it. `LinkedList` assumes the same of `Access(t)`, and that a send does not block
for ever; a thread that hangs has no step. `ChatClient` assumes that its threads run (`MainStep`,
`Receive(i)`) and that the server reads what it is sent (`Serve(k)`). Nothing obliges a client
to act, a user to type, a connection to fail or a process to be killed. A `fault` ends what a server
module says; the liveness properties of `patient` are not about a server that has faulted because
its bounds (one login per user at a time, one new room name) leave none of the faults
`OnlyRefusalsFault` names; `race_create` shows the one of them that a second name brings. What follows a
refused login, where the record is freed, is outside the models.

`ClientLearnsItsRoom`, `RoomMessageReach` and `InvitationReach` state exactly in
which windows the code's promise fails (between two rooms, between `close` and
the removal, before `login` has stored the descriptor), so they would notice a new one.

## Proofs

All for any values of the constants, from the assumptions the modules declare for them
(`ConstantsAssumption`, `NullAssumption`, `RegistryAssumption`, `ListAssumption`,
`ClientAssumption`: bounds are numbers, `NULL` is nothing else, the lobby is a room, the set of
users of a list is finite), which TLC evaluates in the runs. What is assumed beyond that is
said with the theorem.

`ChatServer`:

- `TypeCorrect`: `Spec => []TypeOK`. `TypeOK` is not inductive: `JoinAdd` uses the
  packet's user and room, which are NULL outside a handler. `TypeInv` adds what
  each `pc` label implies for `pkt`, `newRoom`, `load`, `fd` and `session`.
- `RoomsCorrect`: `Spec => [](TypeInv /\ IInv)`. `IInv` counts the nodes: for each
  connection `UserNodes(c)` says how many nodes its user has in which list at
  every label of every handler, sessions are exclusive and match the active
  list, users without a session have no node, and the room a thread is about to put its
  user into exists (`RoomsKnown`). That a thread works
  on its own user's nodes only is what makes the handlers commute, and it needs
  the exclusiveness of sessions.
- `SessionsCorrect` and `PartitionCorrect`: `OneSessionPerUser` and
  `UsersInOneRoom` follow from `IInv`.
- `RoomsDistinct`: `RoomNamesUnique`. `insertRoom` walks the list for the name and appends the
  room in one call, so it holds although lookup, number and insertion are separate steps.
  (That the next number is free does not hold: `numRooms` can go back when a thread stores an
  old value, and with three connections TLC finds a room in the way.)
- `ClientsLearn`, `MessagesReach`, `InvitationsReach`: `Spec => []P` for `ClientLearnsItsRoom`,
  `RoomMessageReach` and `InvitationReach`. To `IInv` they add `SocketsOK`: a descriptor belongs to
  its thread's connection until `close`, and the record of a user past `login_sock` holds
  the descriptor of its session, which makes a number in a record as good as a connection except
  between `close` and the removal (`exit_room`); and `Knows`: at which labels the last reply on its way is
  up to date. The rest is that a step which speaks to a room moves nobody (`Speaking`).
- `SpeakersAreMembers`, `EndedSessionsAreRemoved`: under `Patient` (`MaxBehind = 0`, no client
  vanishes) a packet's user and room are the server's (`ReadyKnows`), so `send_message` and
  `exit_client`, which trust them, are right to.
- `PatientClientsFault`: under `Patient` alone `Spec => []OnlyRefusalsFault`. Clients that read their
  replies never make `join` or `leave` pass NULL to `removeUser`, and what can still go wrong is
  what an insertion refused unnoticed leaves behind: a record freed after a second login, and in
  `join` a NULL room, the latter only if the number it drew from `numRooms` went to a room of
  another name. A creator leaves a room of the wanted name behind, his own or that of a creator who
  came first, unless another room is in the way (`RoomIsThere`). Both faults can happen,
  double logins and any number of new names being allowed; TLC checked the property with both,
  on two clients and three room names, beside the run `patient`, whose bounds leave neither.
- `PresenceImplemented`: `Spec => ImplementsPresence`. Under `IInv`, `Where(n)` is
  determined by the thread of `n`'s session, and each action is matched with the
  step of `Presence` it takes or with a stutter.

`UserRegistry`:

- `RegistryTypes`, `RegistrationsUnique`: `Spec => []TypeOK` and `Spec =>
  []SingleRegistration` of `UserRegistry`. Each needs the other and both need to know the
  threads: that a name is inserted only while it is not listed, that a thread past
  the insertion works for a listed user, and that a `writeUserFile` at position
  `pos` has filled every slot before it (`WriteInv`), so that concurrent writers keep the file a
  prefix of the list. Two counting facts carry the argument: a list without
  repetitions is not longer than there are users (so a record's slot exists), and
  the slots in use are the first `FileLength` ones (so `readUserFile` reads back the list).
- `FileFollowsTheList`: a slot that is not current is *covered* by a thread that has changed
  the record and not yet passed the slot. A thread keeps covering until it has written
  the slot (`CoverKept`), no other thread can undo that, an insertion is
  covered by its own thread, and after a restart the list is the file.
- `PasswordsStayTheirUsers`: an action property. That a password changes under a `set_pass` of
  its user's name, and else by a restart only, is read off the steps. The rest holds while nobody
  has been misnamed, and needs that sessions are exclusive (`SessionsApart`): then no
  other thread writes the record between `set_pass`'s check and its last write, so what it
  clears is the password it has compared and what it fills is what it has cleared
  (`PassInv`). A second session of one user, which `insertUser`'s refusal prevents, breaks it.

`LinkedList`:

- `TypeCorrect`, `ListingsCorrect`: `TypeOK` and `ListingsExclude`, whatever calls overlap. A
  listing that is inside holds the mutex or it was stolen from it (`MutexInv`).
- `AnswersCorrect`, `WalksCorrect`, `CrashesCorrect`, `UserListImplemented`: `AnswerIsRight`,
  `WalkReachesEachOnce`, `CrashNeedsChange` and `Spec => ImplementsUserList`, all under `~Overlap`, one
  change at a time, which is also the proviso of the run `lists`. It is needed: with
  overlapping changes TLC finds each of the first three violated in instances of three calls, and
  `lost_node` shows what goes wrong. Searches, listings and broadcasts may overlap with each other and
  with the change in any number.

  The argument has layers. `Reach` is a recursive function, so first its equation is shown to
  have a solution (`ReachExists`). Nodes are numbered as they are allocated and every
  pointer leads to a higher number (`Forward`); hence a set that is closed under `next` from
  `head` and has nothing else (`Linked`) is determined by the pointers and in the order of the numbers, and each
  write to a pointer appends the writer's node or takes one out (`Adds`, `Removes`), because the one
  thread that changes the list knows where it stands (`ListInv`). Above that lies what a call may have
  seen, `ever`: it leads only to such nodes and never past one of `always` (`WatchOK`). That
  is the reason why a cursor on a removed node comes back to the list and misses nobody;
  `WalkOK`, `AnswerOK`, `SendOK` say it of each kind of walk. For the refinement, counting
  what is ahead of each node puts the list in order (`CountsOrder`), so `Chain` has it in its
  order, an append or a removal shows as `Append` or `RemoveFirst`, and nobody is added who is in it, because a
  thread about to add has walked over all of a list that stays as it is
  (`OnceInv`). A call that is going to change the list and has not yet done so has seen no
  change of it (`Undisturbed`), so it never finds a pointer changed between its two reads.

`ChatClient`, in five layers:

- `TypeCorrect` and `ReceiverStays`: `TypeOK` and `ReceiverLives`. The current descriptor is no
  connection or the last one, a thread reads its own connection or a later one, and the
  thread made for the current connection, if it could be created, has not ended while that
  stands (`ReceiverInv`).
- `ViewsSettle` and `SpeaksTruly`: `ViewSettles` and `SpeaksForItself`. They rest on this: nothing
  comes from where there is no connection or no thread (`ShapeInv`); a user who was never
  hasty has one request or one reply on its way at most, on the current connection, whatever
  others he has left standing (`PatientInv`), and no two sessions are one user's; the last news on their way to the client, or the
  client itself if there are none, have the name and room the server has (`ViewInv`); the packet
  that is made and the one on its way are true (`TruthInv`). The last two need each other: what
  such a user asks for is asked in the right name and room, so it moves his session and no other. The conjunction is `ClientInv`.
  Nothing is assumed but `ClientAssumption`: `hasty` is a variable, and the theorems
  say what its value leaves true.

TLC checked the inductive invariants before they were proved: `TypeInv` and `IInv` on `open`;
those of `ChatServerPatient` on `patient`; `IInv` and `Alone` of the accounts on `accounts` (8.7 million states
without symmetry); `TypeInv`, `MutexInv`, `ListInv`, `WalkInv` and `Undisturbed` on `lists`, all but the last also
with two threads, four nodes and four calls (1.5 million states); `ClientInv` on `client` and on two more instances (three
connections, six lines and two failures without hasty lines, 8.3 million states; one connection with three hasty lines).

Only model-checked: the liveness properties `ExitRemovesUser`, `JoinIsAnswered`,
`CallsReturn`, `ExitEnds` and `ImplementsFairPresence`, the fair refinement (liveness and ENABLED are out of
the prover's reach here). Every other property of the passing runs has a theorem.

## Plan

Done: `Presence`, `ChatServer` and their proofs; `UserRegistry` and its proofs; `LinkedList`
with the mutexes and listings, and its proofs; `AcceptLoop`; `ChatClient` and its proofs.

Left, in this order:

1. `room_list` at the grain of pointers, with `numRooms`;
2. argument splitting and the configuration file as operators, against a reference
   definition over short inputs.

## Not modelled

- Screen output, help and logs: output only.
- The configuration file (`.tbdchat`) and the text helpers (`validX`, `sanitizeInput`, the
  `strsep` loops, `/`-command parsing): functions of one line of text or edits of
  the user's own file, without a state other parts see. The off-by-one of the `validX` bounds and the
  uninitialised counters of the client are hazards whose effect is the compiler's stack
  layout.
- Partial `recv`s: packets arrive whole. After the first split one a handler gets
  arbitrary bytes, about which nothing can be said.
- What `sigintHandler` frees under running threads; nodes that `insertUser` leaves with
  `next` unset (`linked_list.c:104`) have it NULL.
- Two changes of one list at once, outside `lost_node`: the other modules hold for
  runs without them.
- What happens after memory has been corrupted or NULL followed: every module stops there.
