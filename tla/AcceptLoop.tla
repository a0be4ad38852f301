----------------------------- MODULE AcceptLoop -----------------------------
(***************************************************************************)
(* How a connection gets from main's accept loop (chat_server.c) to the    *)
(* thread that serves it (client_receive): main keeps the descriptor in    *)
(* new_client, one place of its stack for every turn of the loop, and      *)
(* passes its address; the thread reads it when it is first scheduled.     *)
(*                                                                         *)
(* A connection stands for its descriptor, and a thread is named after the *)
(* connection it was created for.                                          *)
(***************************************************************************)
EXTENDS Naturals

CONSTANTS
    Conns,      \* connections that clients make
    MaxFailed,  \* bound on the calls of accept and pthread_create that fail
    BAD, NULL   \* accept's -1; nothing read yet

VARIABLES
    made,       \* connections clients have made
    backlog,    \* those the kernel holds for accept
    pc,         \* main: "accept", or "create" between accept and pthread_create
    new_client, \* main's variable
    starting,   \* threads created and not yet scheduled
    client,     \* client[t]: the descriptor thread t listens on
    failed      \* calls that failed so far

vars == <<made, backlog, pc, new_client, starting, client, failed>>

Init ==
    /\ made = {} /\ backlog = {}
    /\ pc = "accept" /\ new_client = NULL
    /\ starting = {} /\ client = [t \in Conns |-> NULL]
    /\ failed = 0

Connect(c) ==
    /\ c \notin made
    /\ made' = made \cup {c} /\ backlog' = backlog \cup {c}
    /\ UNCHANGED <<pc, new_client, starting, client, failed>>

Accept(c) ==
    /\ pc = "accept" /\ c \in backlog
    /\ backlog' = backlog \ {c}
    /\ new_client' = c /\ pc' = "create"
    /\ UNCHANGED <<made, starting, client, failed>>

\* The loop goes on with -1 in the variable, which a thread may still have to read.
AcceptFails ==
    /\ pc = "accept" /\ failed < MaxFailed
    /\ new_client' = BAD /\ failed' = failed + 1
    /\ UNCHANGED <<made, backlog, pc, starting, client>>

CreateThread ==
    /\ pc = "create" /\ pc' = "accept"
    /\ starting' = starting \cup {new_client}
    /\ UNCHANGED <<made, backlog, new_client, client, failed>>

\* Nobody looks at what pthread_create returns: the connection stays open, unserved.
CreateFails ==
    /\ pc = "create" /\ pc' = "accept"
    /\ failed < MaxFailed /\ failed' = failed + 1
    /\ UNCHANGED <<made, backlog, new_client, starting, client>>

client_receive(t) ==
    /\ t \in starting /\ starting' = starting \ {t}
    /\ client' = [client EXCEPT ![t] = new_client]
    /\ UNCHANGED <<made, backlog, pc, new_client, failed>>

Next ==
    \/ \E c \in Conns : Connect(c) \/ Accept(c) \/ client_receive(c)
    \/ AcceptFails \/ CreateThread \/ CreateFails

Spec == Init /\ [][Next]_vars

\* Two threads never listen on one connection: each reads the descriptor of the
\* connection it was started for, whatever main has accepted meanwhile ("Receives a
\* pointer to the file descriptor for the socket the thread should listen on").
\* The code violates it.
OneThreadPerConnection ==
    \A t, u \in Conns : client[t] = client[u] /\ client[t] # NULL => t = u

=============================================================================
