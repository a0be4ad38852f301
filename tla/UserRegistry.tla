---------------------------- MODULE UserRegistry ----------------------------
(***************************************************************************)
(* The accounts of the chat server (src/server): registered_users_list,    *)
(* the file Users.bin that every change rewrites, and the requests that    *)
(* read and change them: REGISTER, LOGIN, SETPASS and SETNAME, one thread  *)
(* per connection, and the server being killed and started again.          *)
(*                                                                         *)
(* A step is one call of a list function, one write of a shared record or  *)
(* one system call on the file.  Requests are well formed: the client and  *)
(* the validX functions have rejected the others.  A password stands for   *)
(* its SHA-256 digest.                                                     *)
(*                                                                         *)
(* SETPASS, SETNAME and EXIT are about the user their packet names, which  *)
(* the client program fills in and nothing ties to the session.  Until the *)
(* program has read the LOGSUC it sends no name, or the one it had in an   *)
(* earlier session, with this server or another, which may be anybody's.   *)
(*                                                                         *)
(* As in ChatServer, `fault' names the first step after which memory can   *)
(* no longer be relied upon, and the model stops there until a restart.    *)
(* A definition X_Something just above X is a mutant of X; no behaviour of *)
(* Spec uses it.                                                           *)
(***************************************************************************)
EXTENDS Naturals, Sequences, FiniteSets, SequencesExt

CONSTANTS
    Clients,    \* connections
    Names,      \* usernames, other than SERVER_NAME
    Passwords,  \* passwords, as their digests
    RealNames,  \* what SETNAME can ask for
    ErrorName,  \* the real name "ERROR", which get_real_name also returns for nobody
    MaxFiles,   \* descriptors left for Users.bin before open fails
    MaxOpens,   \* bound: no change begins once Users.bin has been opened so often
    NULL        \* cleared memory, no user, descriptor -1

\* What a slot of Users.bin can hold.
FileRecords ==
    [user : Names, pass : Passwords \cup {NULL}, real : Names \cup RealNames \cup {NULL}]

ASSUME RegistryAssumption ==
    /\ MaxFiles \in Nat /\ MaxOpens \in Nat
    /\ ErrorName \notin Names
    /\ NULL \notin Nat \cup Names \cup Passwords \cup RealNames \cup {ErrorName} \cup FileRecords
    /\ IsFiniteSet(Names)

VARIABLES
    pc,       \* pc[c]: where the thread of connection c stands
    req,      \* req[c]: the request being handled
    pos,      \* pos[c]: the node writeUserFile has reached, NULL if its open failed
    session,  \* session[c]: the user connection c is logged in as
    active,   \* active_users_list
    list,     \* registered_users_list, as the usernames in order
    rec,      \* rec[n]: password and real name in the listed record of user n
    file,     \* file[i]: i-th record of Users.bin, NULL beyond its end
    opens,    \* opens of Users.bin since the start; none is ever closed, the first MaxFiles succeed
    misnamed, \* a SETPASS or EXIT has acted on another user than its session's (observation)
    fault     \* "none", "listedRecordFreed" or "noRoomFollowed"

memory == <<session, active, list, rec>>
vars   == <<pc, req, pos, memory, file, opens, misnamed, fault>>

Slots == 1 .. Cardinality(Names)
NoReq == [op |-> NULL, user |-> NULL, pass |-> NULL, arg |-> NULL]
NoRec == [pass |-> NULL, real |-> NULL]

Labels == {"recv", "reg_insert", "open", "write", "login_find", "login_match",
           "login_insert", "pass_clear", "pass_set", "name_clear", "name_set"}

-----------------------------------------------------------------------------
(* The list functions, on registered_users_list. *)

Listed(n) == n \in ToSet(list)                          \* get_user finds n
get_real_name(n) == IF Listed(n) THEN rec[n].real ELSE ErrorName
Known(n) == get_real_name(n) # ErrorName                \* how login and register_user look n up
Record(n) == [user |-> n, pass |-> rec[n].pass, real |-> rec[n].real]

Idle(c) == fault = "none" /\ pc[c] = "recv"
Running(c, label) == fault = "none" /\ pc[c] = label
MayChange == opens < MaxOpens
Goto(c, label) == pc' = [pc EXCEPT ![c] = label]
Take(c, r) == req' = [req EXCEPT ![c] = r]

\* The request is answered, with success or with SERV_ERR, and forgotten.
Return(c) == Goto(c, "recv") /\ Take(c, NoReq)

Init ==
    /\ pc = [c \in Clients |-> "recv"]
    /\ req = [c \in Clients |-> NoReq]
    /\ pos = [c \in Clients |-> NULL]
    /\ session = [c \in Clients |-> NULL]
    /\ active = {}
    /\ list = <<>>
    /\ rec = [n \in Names |-> NoRec]
    /\ file = [i \in Slots |-> NULL]
    /\ opens = 0 /\ misnamed = FALSE
    /\ fault = "none"

-----------------------------------------------------------------------------
(* REGISTER *)

Register(c, n, p) ==
    /\ Idle(c) /\ session[c] = NULL
    /\ \/ Known(n) /\ UNCHANGED <<pc, req>>                \* "Username unavailable."
       \/ /\ ~Known(n) /\ MayChange
          /\ Goto(c, "reg_insert")
          /\ Take(c, [op |-> "register", user |-> n, pass |-> p, arg |-> NULL])
    /\ UNCHANGED <<pos, memory, file, opens, misnamed, fault>>

RegInsert_Unchecked(c) ==
    LET n == req[c].user IN
    /\ Running(c, "reg_insert")
    /\ list' = Append(list, n)
    /\ rec' = [rec EXCEPT ![n] = [pass |-> req[c].pass, real |-> n]]
    /\ Goto(c, "open")
    /\ UNCHANGED <<req, pos, session, active, file, opens, misnamed, fault>>

\* insertUser refuses a name that got into the list since the check; nobody
\* looks at what it returns.
RegInsert(c) ==
    LET n == req[c].user IN
    /\ Running(c, "reg_insert")
    /\ \/ Listed(n) /\ UNCHANGED <<list, rec>>
       \/ /\ ~Listed(n)
          /\ list' = Append(list, n)
          /\ rec' = [rec EXCEPT ![n] = [pass |-> req[c].pass, real |-> n]]
    /\ Goto(c, "open")
    /\ UNCHANGED <<req, pos, session, active, file, opens, misnamed, fault>>

-----------------------------------------------------------------------------
(* writeUserFile: open without truncating, write every record of the list in   *)
(* order; the descriptor is not closed.                                        *)

WriteOpen_Truncate(c) ==
    /\ Running(c, "open") /\ Goto(c, "write")
    /\ opens' = opens + 1
    /\ pos' = [pos EXCEPT ![c] = IF opens < MaxFiles THEN 1 ELSE NULL]
    /\ file' = IF opens < MaxFiles THEN [i \in Slots |-> NULL] ELSE file
    /\ UNCHANGED <<req, memory, misnamed, fault>>

WriteOpen(c) ==
    /\ Running(c, "open") /\ Goto(c, "write")
    /\ opens' = opens + 1
    /\ pos' = [pos EXCEPT ![c] = IF opens < MaxFiles THEN 1 ELSE NULL]
    /\ UNCHANGED <<req, memory, file, misnamed, fault>>

MoreToWrite(c) == pos[c] # NULL /\ pos[c] <= Len(list)

WriteRecord(c) ==
    /\ Running(c, "write") /\ MoreToWrite(c)
    /\ file' = [file EXCEPT ![pos[c]] = Record(list[pos[c]])]
    /\ pos' = [pos EXCEPT ![c] = @ + 1]
    /\ UNCHANGED <<pc, req, memory, opens, misnamed, fault>>

\* REGISTER goes on with a login, SETPASS and SETNAME with their reply.  SETNAME speaks
\* to the room in the record first: there may be none if that user is not online (-1 since
\* readUserFile, nothing yet since register_user).
WriteEnd(c) ==
    /\ Running(c, "write") /\ ~MoreToWrite(c)
    /\ pos' = [pos EXCEPT ![c] = NULL]
    /\ \/ req[c].op = "register" /\ Goto(c, "login_find") /\ UNCHANGED <<req, fault>>
       \/ /\ req[c].op # "register" /\ Return(c)
          /\ \/ UNCHANGED fault
             \/ /\ req[c].op = "setname" /\ req[c].user \notin active \cup {session[c]}
                /\ fault' = "noRoomFollowed"
    /\ UNCHANGED <<memory, file, opens, misnamed>>

-----------------------------------------------------------------------------
(* LOGIN *)

Login(c, n, p) ==
    /\ Idle(c) /\ session[c] = NULL
    /\ \/ ~Known(n) /\ UNCHANGED <<pc, req>>               \* "Username not found."
       \/ /\ Known(n)
          /\ Goto(c, "login_match")
          /\ Take(c, [op |-> "login", user |-> n, pass |-> p, arg |-> NULL])
    /\ UNCHANGED <<pos, memory, file, opens, misnamed, fault>>

\* The same check for the login that ends a registration.
LoginFind(c) ==
    /\ Running(c, "login_find")
    /\ \/ ~Known(req[c].user) /\ Return(c)
       \/ Known(req[c].user) /\ Goto(c, "login_match") /\ UNCHANGED req
    /\ UNCHANGED <<pos, memory, file, opens, misnamed, fault>>

LoginMatch(c) ==
    /\ Running(c, "login_match")
    /\ \/ rec[req[c].user].pass # req[c].pass /\ Return(c)  \* "Incorrect password."
       \/ /\ rec[req[c].user].pass = req[c].pass
          /\ Goto(c, "login_insert") /\ UNCHANGED req
    /\ UNCHANGED <<pos, memory, file, opens, misnamed, fault>>

LoginInsert_Twice(c) ==
    LET n == req[c].user IN
    /\ Running(c, "login_insert")
    /\ active' = active \cup {n}
    /\ session' = [session EXCEPT ![c] = n]
    /\ Return(c)
    /\ UNCHANGED <<pos, list, rec, file, opens, misnamed, fault>>

\* The record is freed, still in the list, if its user is online already.
LoginInsert(c) ==
    LET n == req[c].user IN
    /\ Running(c, "login_insert")
    /\ \/ /\ n \notin active
          /\ active' = active \cup {n}
          /\ session' = [session EXCEPT ![c] = n]
          /\ Return(c)
          /\ UNCHANGED fault
       \/ /\ n \in active
          /\ fault' = "listedRecordFreed"
          /\ UNCHANGED <<active, session, pc, req>>
    /\ UNCHANGED <<pos, list, rec, file, opens, misnamed>>

-----------------------------------------------------------------------------
(* SETPASS and SETNAME, of the user the packet names.  The field is cleared    *)
(* before it is filled.  The replies change nothing here and are left out.    *)

Asks(c) == Idle(c) /\ session[c] # NULL
Misnames(c, n) == misnamed' = (misnamed \/ n # session[c])

\* The rest of the handler does not look at them again.
DropArguments(c) == Take(c, [req[c] EXCEPT !.pass = NULL, !.arg = NULL])

Matches(n, p) == Listed(n) /\ rec[n].pass = p

SetPass(c, n, p, q) ==
    /\ Asks(c)
    /\ \/ ~Matches(n, p) /\ UNCHANGED <<pc, req, misnamed>>   \* mismatch, "we couldn't find you"
       \/ /\ Matches(n, p) /\ MayChange /\ Misnames(c, n)
          /\ Goto(c, "pass_clear")
          /\ Take(c, [op |-> "setpass", user |-> n, pass |-> p, arg |-> q])
    /\ UNCHANGED <<pos, memory, file, opens, fault>>

PassClear(c) ==
    /\ Running(c, "pass_clear")
    /\ rec' = [rec EXCEPT ![req[c].user].pass = NULL]
    /\ Goto(c, "pass_set")
    /\ UNCHANGED <<req, pos, session, active, list, file, opens, misnamed, fault>>

PassSet(c) ==
    /\ Running(c, "pass_set")
    /\ rec' = [rec EXCEPT ![req[c].user].pass = req[c].arg]
    /\ Goto(c, "open") /\ DropArguments(c)
    /\ UNCHANGED <<pos, session, active, list, file, opens, misnamed, fault>>

SetName(c, n, x) ==
    /\ Asks(c)
    /\ \/ ~Listed(n) /\ UNCHANGED <<pc, req>>       \* "for some reason we couldn't find you"
       \/ /\ Listed(n) /\ MayChange
          /\ Goto(c, "name_clear")
          /\ Take(c, [op |-> "setname", user |-> n, pass |-> NULL, arg |-> x])
    /\ UNCHANGED <<pos, memory, file, opens, misnamed, fault>>

NameClear(c) ==
    /\ Running(c, "name_clear")
    /\ rec' = [rec EXCEPT ![req[c].user].real = NULL]
    /\ Goto(c, "name_set")
    /\ UNCHANGED <<req, pos, session, active, list, file, opens, misnamed, fault>>

NameSet(c) ==
    /\ Running(c, "name_set")
    /\ rec' = [rec EXCEPT ![req[c].user].real = req[c].arg]
    /\ Goto(c, "open") /\ DropArguments(c)
    /\ UNCHANGED <<pos, session, active, list, file, opens, misnamed, fault>>

-----------------------------------------------------------------------------

\* The end of a session (exit_client, which ChatServer models step by step): an EXIT, or a
\* failed recv, which leaves a packet of zeros.  Off the list goes whom the packet names.
Exit(c, n) ==
    /\ Asks(c)
    /\ \/ n \notin active /\ UNCHANGED <<active, misnamed>>
       \/ n \in active /\ active' = active \ {n} /\ Misnames(c, n)
    /\ session' = [session EXCEPT ![c] = NULL]
    /\ UNCHANGED <<pc, req, pos, list, rec, file, opens, fault>>

\* The process ends, at whatever point its threads are, and is started again:
\* readUserFile makes the list of the records in the file, as many as its size says.
FileLength == Cardinality({i \in Slots : file[i] # NULL})
Restart ==
    /\ pc' = [c \in Clients |-> "recv"]
    /\ req' = [c \in Clients |-> NoReq]
    /\ pos' = [c \in Clients |-> NULL]
    /\ session' = [c \in Clients |-> NULL]
    /\ active' = {}
    /\ list' = [i \in 1 .. FileLength |-> file[i].user]
    /\ rec' = [n \in Names |->
                  IF \E i \in 1 .. FileLength : file[i].user = n
                  THEN LET i == CHOOSE i \in 1 .. FileLength : file[i].user = n
                       IN  [pass |-> file[i].pass, real |-> file[i].real]
                  ELSE NoRec]
    /\ opens' = 0
    /\ misnamed' = FALSE
    /\ fault' = "none"
    /\ UNCHANGED file

Handler(c) ==
    \/ RegInsert(c) \/ WriteOpen(c) \/ WriteRecord(c) \/ WriteEnd(c)
    \/ LoginFind(c) \/ LoginMatch(c) \/ LoginInsert(c)
    \/ PassClear(c) \/ PassSet(c) \/ NameClear(c) \/ NameSet(c)

Request(c) ==
    \/ \E n \in Names, p \in Passwords : Register(c, n, p) \/ Login(c, n, p)
    \/ \E n \in Names \cup {NULL} :
           \/ \E p, q \in Passwords : SetPass(c, n, p, q)
           \/ \E x \in RealNames : SetName(c, n, x)
           \/ Exit(c, n)

Next == Restart \/ \E c \in Clients : Request(c) \/ Handler(c)

\* Handlers wait for nobody; nothing makes a client ask or the process end.
Fairness == \A c \in Clients : WF_vars(Handler(c))

Spec == Init /\ [][Next]_vars /\ Fairness

-----------------------------------------------------------------------------
(* Properties. *)

Requests ==
    [op : {"register", "login", "setpass", "setname", NULL}, user : Names \cup {NULL},
     pass : Passwords \cup {NULL}, arg : Passwords \cup RealNames \cup {NULL}]
Records == [pass : Passwords \cup {NULL}, real : Names \cup RealNames \cup {NULL}]
Positions == 1 .. Cardinality(Names) + 1 \cup {NULL}

\* The types of the variables: the records and requests hold what their C types
\* allow, and the list has room for every registered user.
TypeOK ==
    /\ pc \in [Clients -> Labels]
    /\ req \in [Clients -> Requests]
    /\ pos \in [Clients -> Positions]
    /\ session \in [Clients -> Names \cup {NULL}]
    /\ active \subseteq Names
    /\ list \in Seq(Names)
    /\ rec \in [Names -> Records]
    /\ file \in [Slots -> FileRecords \cup {NULL}]
    /\ opens \in Nat /\ misnamed \in BOOLEAN
    /\ fault \in {"none", "listedRecordFreed", "noRoomFollowed"}

\* A user is registered once, in memory and in the file, whatever threads register
\* the same name, write the file at the same time or die while they do: the list
\* has no name twice and the file holds the records of a prefix of the list, in
\* order ("Allows a single registration for any given unique username",
\* README.md:21; register_user, insertUser, writeUserFile, readUserFile).
SingleRegistration ==
    /\ \A i, j \in DOMAIN list : list[i] = list[j] => i = j
    /\ \A i \in Slots : file[i] # NULL =>
           /\ i <= Len(list) /\ file[i].user = list[i]
           /\ \A j \in 1 .. i : file[j] # NULL

\* The thread of c has changed the record in slot i, or is about to, and has not
\* written that slot since.
Pending(c, i) ==
    /\ req[c].user = list[i]
    /\ \/ pc[c] \in {"pass_set", "name_set", "open"}
       \/ pc[c] = "write" /\ pos[c] # NULL /\ pos[c] <= i

\* The file follows the list: as long as it can be opened, it holds the current
\* record of every user but those whose registration or change some thread is
\* still carrying out, however many threads write it at once (register_user,
\* set_pass, set_name, writeUserFile).
FileFollowsList ==
    opens <= MaxFiles /\ fault = "none" =>
        \A i \in DOMAIN list : file[i] = Record(list[i]) \/ \E c \in Clients : Pending(c, i)

\* The same without the proviso about opening the file ("Saves
\* username/realname/passhash to a file so registration persists after server is
\* shutdown", README.md:23).
RegistrationPersists ==
    \A i \in DOMAIN list : file[i] = Record(list[i]) \/ \E c \in Clients : Pending(c, i)

\* The password of a listed user changes with a restart or in the two writes of a set_pass
\* of his name.  If no client has spoken in the name of an earlier session, the set_pass is
\* that of the user's own session and what it replaces is the very password it was
\* given: its check and its writes act as one without a lock, because a user has one
\* session, and a session one request at a time (insertUser's refusals in login and
\* register_user, set_pass).
PasswordIsTheUsers ==
    [][\A n \in Names :
          Listed(n) /\ rec'[n].pass # rec[n].pass =>
              \/ Restart
              \/ \E c \in Clients :
                     /\ req[c].user = n /\ (misnamed \/ session[c] = n)
                     /\ \/ pc[c] = "pass_clear" /\ (misnamed \/ rec[n].pass = req[c].pass)
                        \/ pc[c] = "pass_set" /\ (misnamed \/ rec[n].pass = NULL)]_vars

\* Outside set_pass's own window the password of a registered user is one that
\* somebody chose, never cleared memory (README.md:23; set_pass, writeUserFile,
\* readUserFile).
PasswordIsChosen ==
    \A n \in Names :
        Listed(n) => rec[n].pass # NULL
                     \/ \E c \in Clients : pc[c] = "pass_set" /\ req[c].user = n

=============================================================================
