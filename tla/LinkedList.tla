----------------------------- MODULE LinkedList -----------------------------
(***************************************************************************)
(* One list of users of the chat server (active_users_list, or a room's    *)
(* user_list) at the grain of its pointers, with its real mutex: the list  *)
(* functions of linked_list.c, the listings (get_active_users,             *)
(* get_room_users) and the broadcast of send_message, in several threads.  *)
(*                                                                         *)
(* The list functions take the mutex by value: they lock a private copy,   *)
(* which excludes nobody, and which is locked for ever if the real mutex   *)
(* was locked when the call copied it.  Only the listings lock the real    *)
(* one.  A broadcast unlocks it without having locked it.                  *)
(*                                                                         *)
(* A step is one access to a shared pointer, as the build makes it (the    *)
(* Makefile does not optimise: `temp->next' is read once in a loop's       *)
(* condition and again in its body).  Nodes are never freed.  The next     *)
(* field that insertUser leaves unset is taken as NULL.  The model stops   *)
(* when a thread follows NULL: `fault'.                                    *)
(*                                                                         *)
(* A definition X_Something just above X is a mutant of X.                 *)
(***************************************************************************)
EXTENDS Naturals, Sequences, FiniteSets, SequencesExt, TLC

Inserts   == {"insertNode", "insertUser"}
Mutations == Inserts \cup {"removeUser"}
Functions == Mutations \cup {"get_user", "listing", "send_message"}

CONSTANTS
    Threads,
    Users,
    MaxNodes,  \* bound on the nodes ever allocated
    MaxCalls,  \* bound on the calls of all threads together
    Overlap,   \* whether a call may change the list while another one does
    NULL

ASSUME ListAssumption ==
    /\ MaxNodes \in Nat /\ MaxCalls \in Nat /\ Overlap \in BOOLEAN
    /\ IsFiniteSet(Users) /\ NULL \notin Nat \cup Users \cup Functions

Nodes == 1 .. MaxNodes

VARIABLES
    head,    \* the list
    next,    \* next[n]: Node.next
    data,    \* data[n]: the user of node n, NULL while n is not allocated
    locked,  \* the real mutex
    thread,  \* thread[t]: the call t is in, see NoCall
    calls,   \* number of calls begun
    always,  \* always[t]: nodes in the list ever since the call began (observation)
    ever,    \* ever[t]: nodes in the list at some time since then (observation)
    stolen,  \* the mutex was unlocked under a listing (observation)
    fault    \* whether a thread has followed NULL

links == <<head, next>>
mutex == <<locked, stolen>>
vars  == <<links, data, mutex, thread, calls, always, ever, fault>>

Labels == {"idle", "hung", "temp", "empty", "check", "advance", "first", "link", "clear",
           "isnull", "head", "find", "compare", "skip", "after", "unlink",
           "lock", "start", "send", "unlock", "return"}

NoCall == [pc   |-> "idle",   \* the access the thread makes next
           fn   |-> NULL,     \* the function it is in
           user |-> NULL,     \* its argument
           cur  |-> NULL,     \* its cursor (temp, current)
           node |-> NULL,     \* the node to be added, or to be removed
           succ |-> NULL,     \* a next pointer it has read and will write elsewhere
           sent |-> <<>>,     \* the nodes it has sent a packet for
           out  |-> FALSE]    \* what it returns

Locals == [pc : Labels, fn : Functions \cup {NULL}, user : Users \cup {NULL},
           cur : Nodes \cup {NULL}, node : Nodes \cup {NULL}, succ : Nodes \cup {NULL},
           sent : Seq(Nodes), out : BOOLEAN]

At(t, label) == ~fault /\ thread[t].pc = label
Set(t, locals) == thread' = [thread EXCEPT ![t] = locals]
Return(t, x) == Set(t, [thread[t] EXCEPT !.pc = "return", !.out = x])
Cur(t) == thread[t].cur
Fn(t) == thread[t].fn
Inside(t) == Fn(t) = "listing" /\ thread[t].pc \in {"start", "send", "unlock"}

\* The nodes one comes to from n by next pointers; those of the list; and these in order.
Reach[n \in Nodes] == {n} \cup IF next[n] = NULL THEN {} ELSE Reach[next[n]]
InList == IF head = NULL THEN {} ELSE Nodes \cap Reach[head]
Chain  == [i \in 1 .. Cardinality(InList) |->
              CHOOSE n \in InList : Cardinality(Reach[n]) = 1 + Cardinality(InList) - i]

\* A list of any length, in one order of the users (their names do not matter).
Init ==
    /\ \E len \in 0 .. Min({MaxNodes, Cardinality(Users)}) :
           /\ head = IF len = 0 THEN NULL ELSE 1
           /\ next = [n \in Nodes |-> IF n < len THEN n + 1 ELSE NULL]
           /\ data = [n \in Nodes |-> IF n <= len THEN SetToSeq(Users)[n] ELSE NULL]
    /\ locked = FALSE /\ stolen = FALSE /\ fault = FALSE /\ calls = 0
    /\ thread = [t \in Threads |-> NoCall]
    /\ always = [t \in Threads |-> {}] /\ ever = [t \in Threads |-> {}]

-----------------------------------------------------------------------------
(* Calls. *)

\* What the callers see to: login adds a user to the lobby with insertNode only
\* after insertUser has got him into active_users_list, so he is in no room.
MayCall(f, u) ==
    /\ f \in Inserts => \E n \in Nodes : data[n] = NULL
    /\ f = "insertNode" => /\ \A n \in InList : data[n] # u
                           /\ \A s \in Threads : thread[s].user = u => Fn(s) = "get_user"
    /\ f \in Mutations /\ ~Overlap =>
           \A s \in Threads : Fn(s) \in Mutations => thread[s].pc = "hung"

\* A list function copies the mutex when it is called; a listing begins with
\* listLength, which has a copy too but does not lock it.
Call(t, f, u) ==
    /\ At(t, "idle") /\ calls < MaxCalls /\ MayCall(f, u)
    /\ \E n \in Nodes \cup {NULL} :
           /\ IF f \in Inserts
              THEN n = Min({m \in Nodes : data[m] = NULL}) /\ data' = [data EXCEPT ![n] = u]
              ELSE n = NULL /\ UNCHANGED data
           /\ Set(t, [NoCall EXCEPT
                         !.fn = f, !.user = u, !.node = n,
                         !.pc = IF f = "listing" THEN "isnull" ELSE IF locked THEN "hung" ELSE "temp"])
    /\ calls' = calls + 1
    /\ UNCHANGED <<links, mutex, fault>>

\* The caller has looked at what was returned; the locals are gone.
Done(t) ==
    /\ At(t, "return")
    /\ Set(t, NoCall)
    /\ UNCHANGED <<links, data, mutex, calls, fault>>

-----------------------------------------------------------------------------
(* The walk all of them share: get_user (and get_real_name, get_password), the  *)
(* searches of insertUser and removeUser, insertNode's way to the last node,    *)
(* printList in send_message, listLength.                                       *)

Memory == <<links, data, mutex, calls>>

Crash == fault' = TRUE /\ UNCHANGED thread
Go(t, locals) == Set(t, locals) /\ UNCHANGED fault

Wanted_NotByInserts(t, n) == Fn(t) \notin Inserts /\ data[n] = thread[t].user
Wanted(t, n) == Fn(t) # "insertNode" /\ data[n] = thread[t].user

\* The cursor arrives at n, which may be the node the walk is for.
Visit(t, n) ==
    \/ n = NULL /\ Crash
    \/ /\ n # NULL /\ ~Wanted(t, n)
       /\ Go(t, [thread[t] EXCEPT !.pc = "check", !.cur = n])
    \/ /\ n # NULL /\ Wanted(t, n)
       /\ Go(t, IF Fn(t) = "removeUser"
                THEN [thread[t] EXCEPT !.pc = "isnull", !.cur = NULL, !.node = n]
                ELSE [thread[t] EXCEPT !.pc = "return", !.cur = n, !.out = Fn(t) = "get_user"])

\* There is nothing (more) to visit.
WalkEnds(t) ==
    Go(t, [thread[t] EXCEPT !.pc = CASE Fn(t) = "listing"      -> "lock"
                                     [] Fn(t) = "send_message" -> "start"
                                     [] OTHER                  -> "return"])

Temp(t) ==
    /\ At(t, "temp") /\ Go(t, [thread[t] EXCEPT !.pc = "empty", !.cur = head])
    /\ UNCHANGED Memory

Empty_NoTest(t) == At(t, "empty") /\ Visit(t, Cur(t)) /\ UNCHANGED Memory

Empty(t) ==
    /\ At(t, "empty")
    /\ \/ head # NULL /\ Visit(t, Cur(t))
       \/ head = NULL /\ Fn(t) \in Inserts /\ Go(t, [thread[t] EXCEPT !.pc = "first"])
       \/ head = NULL /\ Fn(t) \notin Inserts /\ WalkEnds(t)
    /\ UNCHANGED Memory

Check(t) ==
    /\ At(t, "check")
    /\ \/ next[Cur(t)] # NULL /\ Go(t, [thread[t] EXCEPT !.pc = "advance"])
       \/ next[Cur(t)] = NULL /\ Fn(t) \in Inserts /\ Go(t, [thread[t] EXCEPT !.pc = "link"])
       \/ next[Cur(t)] = NULL /\ Fn(t) \notin Inserts /\ WalkEnds(t)
    /\ UNCHANGED Memory

Advance_NoCompare(t) ==
    /\ At(t, "advance") /\ UNCHANGED Memory
    /\ IF next[Cur(t)] = NULL THEN Crash
       ELSE Go(t, [thread[t] EXCEPT !.pc = "check", !.cur = next[Cur(t)]])

Advance(t) == At(t, "advance") /\ Visit(t, next[Cur(t)]) /\ UNCHANGED Memory

-----------------------------------------------------------------------------
(* insertNode, insertUser: the new node. *)

InsertFirst(t) ==
    /\ At(t, "first") /\ Return(t, TRUE)
    /\ head' = thread[t].node
    /\ UNCHANGED <<next, data, mutex, calls, fault>>

InsertLast(t) ==
    /\ At(t, "link")
    /\ next' = [next EXCEPT ![Cur(t)] = thread[t].node]
    /\ IF Fn(t) = "insertNode" THEN Set(t, [thread[t] EXCEPT !.pc = "clear"]) ELSE Return(t, TRUE)
    /\ UNCHANGED <<head, data, mutex, calls, fault>>

\* insertNode ends the list behind its node once that is linked.
InsertClear(t) ==
    /\ At(t, "clear") /\ Return(t, TRUE)
    /\ next' = [next EXCEPT ![thread[t].node] = NULL]
    /\ UNCHANGED <<head, data, mutex, calls, fault>>

-----------------------------------------------------------------------------
(* removeNode, whose result removeUser does not look at; listLength's head. *)

IsNull(t) ==
    /\ At(t, "isnull") /\ UNCHANGED Memory
    /\ \/ head # NULL /\ Go(t, [thread[t] EXCEPT !.pc = "head"])
       \/ head = NULL /\ Fn(t) = "removeUser"
          /\ Go(t, [thread[t] EXCEPT !.pc = "return", !.out = TRUE])
       \/ head = NULL /\ Fn(t) = "listing" /\ Go(t, [thread[t] EXCEPT !.pc = "lock"])

Head_(t) ==
    /\ At(t, "head") /\ UNCHANGED Memory
    /\ \/ head = NULL /\ Crash
       \/ /\ head # NULL
          /\ Go(t, [thread[t] EXCEPT !.cur = head,
                                    !.pc = IF Fn(t) = "listing" THEN "check"
                                           ELSE IF head = thread[t].node THEN "after" ELSE "find"])

Find(t) ==
    /\ At(t, "find") /\ UNCHANGED Memory
    /\ IF next[Cur(t)] = NULL
       THEN Go(t, [thread[t] EXCEPT !.pc = "return", !.out = TRUE])
       ELSE Go(t, [thread[t] EXCEPT !.pc = "compare"])

Compare(t) ==
    /\ At(t, "compare") /\ UNCHANGED Memory
    /\ Go(t, [thread[t] EXCEPT !.pc = IF next[Cur(t)] = thread[t].node THEN "after" ELSE "skip"])

Skip(t) ==
    /\ At(t, "skip") /\ UNCHANGED Memory
    /\ IF next[Cur(t)] = NULL THEN Crash
       ELSE Go(t, [thread[t] EXCEPT !.pc = "find", !.cur = next[Cur(t)]])

\* temp->next when the head goes, temp->next->next otherwise.
After(t) ==
    LET from == IF Cur(t) = thread[t].node THEN Cur(t) ELSE next[Cur(t)] IN
    /\ At(t, "after") /\ UNCHANGED Memory
    /\ IF from = NULL THEN Crash
       ELSE Go(t, [thread[t] EXCEPT !.pc = "unlink", !.succ = next[from]])

Unlink_ClearsNext(t) ==
    /\ At(t, "unlink") /\ Return(t, TRUE)
    /\ IF Cur(t) = thread[t].node
       THEN head' = thread[t].succ /\ next' = [next EXCEPT ![Cur(t)] = NULL]
       ELSE next' = [next EXCEPT ![Cur(t)] = thread[t].succ, ![thread[t].node] = NULL] /\ UNCHANGED head
    /\ UNCHANGED <<data, mutex, calls, fault>>

Unlink(t) ==
    /\ At(t, "unlink") /\ Return(t, TRUE)
    /\ IF Cur(t) = thread[t].node
       THEN head' = thread[t].succ /\ UNCHANGED next
       ELSE next' = [next EXCEPT ![Cur(t)] = thread[t].succ] /\ UNCHANGED head
    /\ UNCHANGED <<data, mutex, calls, fault>>

-----------------------------------------------------------------------------
(* get_active_users, get_room_users (and get_room_list, on room_list); the       *)
(* loop of send_message.                                                        *)

Lock_ByValue(t) ==
    /\ At(t, "lock") /\ ~locked /\ Set(t, [thread[t] EXCEPT !.pc = "start"])
    /\ UNCHANGED <<links, data, mutex, calls, fault>>

Lock(t) ==
    /\ At(t, "lock") /\ ~locked /\ Set(t, [thread[t] EXCEPT !.pc = "start"])
    /\ locked' = TRUE
    /\ UNCHANGED <<links, data, stolen, calls, fault>>

Start_ReturnsLocked(t) ==
    /\ At(t, "start") /\ UNCHANGED Memory
    /\ Go(t, [thread[t] EXCEPT !.pc = IF head = NULL THEN "return" ELSE "send", !.cur = head])

Start(t) ==
    /\ At(t, "start") /\ Go(t, [thread[t] EXCEPT !.pc = "send", !.cur = head])
    /\ UNCHANGED Memory

Send_SendsNull(t) ==
    /\ At(t, "send") /\ UNCHANGED Memory
    /\ Go(t, IF Cur(t) = NULL
             THEN [thread[t] EXCEPT !.pc = "unlock", !.sent = Append(@, Cur(t))]
             ELSE [thread[t] EXCEPT !.cur = next[Cur(t)], !.sent = Append(@, Cur(t))])

Send(t) ==
    /\ At(t, "send") /\ UNCHANGED Memory
    /\ Go(t, IF Cur(t) = NULL
             THEN [thread[t] EXCEPT !.pc = "unlock"]
             ELSE [thread[t] EXCEPT !.cur = next[Cur(t)], !.sent = Append(@, Cur(t))])

\* The mutex is unlocked whoever locked it.
Unlock(t) ==
    /\ At(t, "unlock") /\ Return(t, TRUE)
    /\ locked' = FALSE
    /\ stolen' = (stolen \/ \E s \in Threads \ {t} : Inside(s))
    /\ UNCHANGED <<links, data, calls, fault>>

-----------------------------------------------------------------------------
\* What a thread can notice of the list during its call.
Watch ==
    LET Began(t) == Fn(t) = NULL /\ thread'[t].fn # NULL
        Ended(t) == thread'[t].fn = NULL
        now == InList'
    IN  /\ always' = [t \in Threads |-> IF Ended(t) THEN {}
                                        ELSE IF Began(t) THEN now ELSE always[t] \cap now]
        /\ ever'   = [t \in Threads |-> IF Ended(t) THEN {} ELSE ever[t] \cup now]

Access(t) ==
    \/ Temp(t) \/ Empty(t) \/ Check(t) \/ Advance(t)
    \/ InsertFirst(t) \/ InsertLast(t) \/ InsertClear(t)
    \/ IsNull(t) \/ Head_(t) \/ Find(t) \/ Compare(t) \/ Skip(t) \/ After(t) \/ Unlink(t)
    \/ Lock(t) \/ Start(t) \/ Send(t) \/ Unlock(t)
    \/ Done(t)

Next ==
    /\ \E t \in Threads :
           \/ \E f \in Functions :
                  \E u \in IF f \in {"listing", "send_message"} THEN {NULL} ELSE Users : Call(t, f, u)
           \/ Access(t)
    /\ Watch

\* The scheduler runs every thread, and sends do not block for ever; nobody is
\* obliged to call.
Spec == Init /\ [][Next]_vars /\ \A t \in Threads : WF_vars(Access(t) /\ Watch)

-----------------------------------------------------------------------------
(* Properties. *)

TypeOK ==
    /\ head \in Nodes \cup {NULL}
    /\ next \in [Nodes -> Nodes \cup {NULL}]
    /\ data \in [Nodes -> Users \cup {NULL}]
    /\ locked \in BOOLEAN /\ stolen \in BOOLEAN /\ fault \in BOOLEAN /\ calls \in 0 .. MaxCalls
    /\ always \in [Threads -> SUBSET Nodes] /\ ever \in [Threads -> SUBSET Nodes]
    /\ thread \in [Threads -> Locals]

\* Nodes of the user a call is about that it must, and that it may, have seen.
Must(t) == {n \in always[t] : data[n] = thread[t].user}
May(t)  == {n \in ever[t] : data[n] = thread[t].user}

\* A search that runs while the list changes tells the truth about some moment of
\* the call: who was there all the time is found, who never was is not (get_user,
\* the duplicate test of insertUser, removeUser).
AnswerIsRight ==
    \A t \in Threads : thread[t].pc = "return" =>
        CASE Fn(t) \in {"get_user", "removeUser"} ->
                 (Must(t) # {} => thread[t].out) /\ (thread[t].out => May(t) # {})
          [] Fn(t) = "insertUser" ->
                 (Must(t) \ {thread[t].node} # {} => ~thread[t].out) /\ May(t) # {}
          [] OTHER -> TRUE

\* A listing or a broadcast sends one packet for each user who is in the list all
\* the time, and none for a user who never is, whatever is added and removed
\* under its cursor (get_active_users, get_room_users, send_message).
WalkReachesEachOnce ==
    \A t \in Threads : thread[t].pc = "unlock" =>
        /\ always[t] \subseteq ToSet(thread[t].sent)
        /\ ToSet(thread[t].sent) \subseteq ever[t]
        /\ IsInjective(thread[t].sent)

\* Two listings are in the list at once only after a broadcast's "extra unlock????"
\* (server_clients.c:773) has released the mutex under one of them.
ListingsExclude ==
    \A s, t \in Threads : Inside(s) /\ Inside(t) /\ s # t => stolen

\* NULL is followed only by a call under which the list has changed, and never, with one
\* change at a time, by the call that changes it: insertUser and removeUser have as many
\* unchecked second reads of a pointer as get_user (linked_list.c:69-76, 107-130,
\* 257-277), but nobody moves what they have read.
CrashNeedsChange ==
    [][\A t \in Threads :
          fault' /\ Access(t) => always[t] # ever[t] /\ Fn(t) \notin Mutations]_vars

\* Every call that is not caught in a locked copy returns: no walk is endless, and
\* a listing gets the mutex although other threads hang, because none of them holds it.
CallsReturn ==
    \A t \in Threads : thread[t].pc \notin {"idle", "hung"} ~> thread[t].pc = "idle" \/ fault

\* One change at a time, the calls are those of UserList.
Abstract == INSTANCE UserList WITH list <- [i \in 1 .. Len(Chain) |-> data[Chain[i]]]
ImplementsUserList == Abstract!Spec

\* insertNode and insertUser "Add user to end of list" (linked_list.c:135): a node
\* that was added has been in the list.
AddedIsInList ==
    \A t \in Threads :
        thread[t].pc = "return" /\ Fn(t) \in Inserts /\ thread[t].out => thread[t].node \in ever[t]

=============================================================================
