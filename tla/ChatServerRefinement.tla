------------------------- MODULE ChatServerRefinement -------------------------
(***************************************************************************)
(* ChatServer implements Presence, for every set of connections, users,    *)
(* room names and descriptors: every step of a thread is one move of the   *)
(* user of its session, the creation of one room, or nothing.              *)
(***************************************************************************)
EXTENDS ChatServerRooms

\* Where the lists show a user: offline, nowhere while his thread is in limbo, and
\* otherwise in the room of his record.
WhereOK ==
    \A n \in Names :
        /\ n \notin active => Where(n) = Offline
        /\ \A c \in Clients : session[c] = n =>
               Where(n) = IF pc[c] \in Limbo THEN Between ELSE roomID[n]

\* What IInv says of the nodes is what WhereOK says of the places.
LEMMA WhereIs == TypeInv /\ IInv => WhereOK
<1> SUFFICES ASSUME TypeInv, IInv, NEW n \in Names
             PROVE  /\ n \notin active => Where(n) = Offline
                    /\ \A c \in Clients : session[c] = n =>
                           Where(n) = IF pc[c] \in Limbo THEN Between ELSE roomID[n]
  BY DEF WhereOK
<1>1. n \notin active => Where(n) = Offline
  BY DEF Where, Online
<1>2. ASSUME NEW c \in Clients, session[c] = n
      PROVE  Where(n) = IF pc[c] \in Limbo THEN Between ELSE roomID[n]
  <2>1. n \in active /\ n # NULL
    BY <1>2, NullFacts DEF IInv, OneSessionPerUser, Online
  <2>2. UserNodes(c)
    BY DEF IInv
  <2>3. CASE pc[c] \in Limbo
    <3>1. \A r \in RoomIDs : ~(members[r][n] > 0)
      BY <1>2, <2>1, <2>2, <2>3 DEF UserNodes
    <3> QED BY <2>1, <2>3, <3>1 DEF Where, Online
  <2>4. CASE pc[c] \notin Limbo
    <3>1. roomID[n] \in RoomIDs /\ \A r \in RoomIDs : members[r][n] > 0 <=> r = roomID[n]
      BY <1>2, <2>1, <2>2, <2>4 DEF UserNodes
    <3> QED BY <2>1, <2>4, <3>1 DEF Where, Online
  <2> QED BY <2>3, <2>4
<1> QED BY <1>1, <1>2

\* A step moves nobody but the user of its thread's session.
LEMMA OthersStandStill ==
    ASSUME TypeInv, IInv, TypeInv', IInv', NEW c \in Clients, Step(c)
    PROVE  \A n \in Names : n # session[c] /\ n # session'[c] => Where(n)' = Where(n)
<1>1. /\ OthersKeep(c) /\ OthersStay(c) /\ NULL \notin Names
  BY ThreadsOwnTheirLocals, ThreadsMoveTheirUser, NullFacts DEF TypeInv
<1>2. WhereOK'
  <2>1. TypeInv' /\ IInv' => WhereOK'
    BY WhereIs, PTL
  <2> QED BY <2>1
<1>a. WhereOK
  BY WhereIs
<1> SUFFICES ASSUME NEW n \in Names, n # session[c], n # session'[c] PROVE Where(n)' = Where(n)
  OBVIOUS
<1>3. CASE \E d \in Clients : session[d] = n
  <2>1. PICK d \in Clients : session[d] = n
    BY <1>3
  <2>2. session'[d] = n /\ pc'[d] = pc[d] /\ roomID'[n] = roomID[n]
    BY <1>1, <2>1 DEF OthersKeep, OthersStay
  <2>3. Where(n)' = IF pc'[d] \in Limbo THEN Between ELSE roomID'[n]
    BY <1>2, <2>2 DEF WhereOK
  <2>4. Where(n) = IF pc[d] \in Limbo THEN Between ELSE roomID[n]
    BY <1>a, <2>1 DEF WhereOK
  <2> QED BY <2>2, <2>3, <2>4
<1>4. CASE \A d \in Clients : session[d] # n
  <2>1. \A d \in Clients : session'[d] # n
    BY <1>1, <1>4 DEF OthersKeep
  <2>2. n \notin active /\ n \notin active'
    BY <1>4, <2>1 DEF IInv, OneSessionPerUser, Online
  <2> QED BY <1>2, <1>a, <2>2 DEF WhereOK
<1> QED BY <1>3, <1>4

\* A step of Moving moves one user along one arrow of Presence, or nobody.
LEMMA OwnMove ==
    ASSUME TypeInv, IInv, TypeInv', IInv', NEW c \in Clients, Step(c), Moving(c)
    PROVE  \/ \A n \in Names : Where(n)' = Where(n)
           \/ \E n \in Names :
                /\ \A m \in Names : m # n => Where(m)' = Where(m)
                /\ \/ Where(n) = Offline /\ Where(n)' = Between
                   \/ Where(n) = Between /\ Where(n)' \in RoomIDs /\ rooms[Where(n)'] # NULL
                   \/ Where(n) \in RoomIDs /\ Where(n)' = Between
                   \/ Where(n) = Between /\ Where(n)' = Offline
<1> DEFINE Moves(n) == /\ \A m \in Names : m # n => Where(m)' = Where(m)
                       /\ \/ Where(n) = Offline /\ Where(n)' = Between
                          \/ Where(n) = Between /\ Where(n)' \in RoomIDs /\ rooms[Where(n)'] # NULL
                          \/ Where(n) \in RoomIDs /\ Where(n)' = Between
                          \/ Where(n) = Between /\ Where(n)' = Offline
           Stays == \A n \in Names : Where(n)' = Where(n)
<1> SUFFICES Stays \/ \E n \in Names : Moves(n)
  OBVIOUS
<1>a. TypeOK /\ LocalOK(c) /\ NULL \notin Names /\ UserNodes(c) /\ UserNodes(c)'
  BY NullFacts DEF TypeInv, IInv
<1>b. \A n \in Names : n # session[c] /\ n # session'[c] => Where(n)' = Where(n)
  BY OthersStandStill
<1>c. WhereOK
  BY WhereIs
<1>d. WhereOK'
  <2>1. TypeInv' /\ IInv' => WhereOK'
    BY WhereIs, PTL
  <2> QED BY <2>1
<1>e. \A u \in Names : u = session[c] => Where(u) = IF pc[c] \in Limbo THEN Between ELSE roomID[u]
  BY <1>c DEF WhereOK
<1>f. \A u \in Names : u = session'[c] => Where(u)' = IF pc'[c] \in Limbo THEN Between ELSE roomID'[u]
  BY <1>d DEF WhereOK
<1>g. session[c] \in Names /\ pc[c] \notin Limbo => roomID[session[c]] \in RoomIDs
  BY <1>a DEF UserNodes
<1>h. session'[c] \in Names /\ pc'[c] \notin Limbo =>
        roomID'[session'[c]] \in RoomIDs /\ rooms'[roomID'[session'[c]]] # NULL
  BY <1>a DEF UserNodes
<1>i. rooms' = rooms /\ (pc[c] \notin Limbo => roomID' = roomID)
  <2>1. rooms' = rooms
    BY DEF Moving, Login, LoginSock, LoginRoom, JoinRemove, JoinAdd, Leave, LeaveAdd,
           ExitRoom, ExitActive
  <2>2. pc[c] \notin Limbo => roomID' = roomID
    BY DEF Moving, Login, LoginSock, LoginRoom, JoinRemove, JoinAdd, Leave, LeaveAdd,
           ExitRoom, ExitActive, Running, Limbo
  <2> QED BY <2>1, <2>2
<1>1. ASSUME NEW u \in Names, session[c] = u, session'[c] = u
      PROVE  Stays \/ Moves(u)
  <2>1. \A n \in Names : n # u => Where(n)' = Where(n)
    BY <1>b, <1>1
  <2>2. Where(u) = IF pc[c] \in Limbo THEN Between ELSE roomID[u]
    BY <1>1, <1>e
  <2>3. Where(u)' = IF pc'[c] \in Limbo THEN Between ELSE roomID'[u]
    BY <1>1, <1>f
  <2>4. CASE pc[c] \in Limbo /\ pc'[c] \in Limbo
    BY <2>1, <2>2, <2>3, <2>4
  <2>5. CASE pc[c] \notin Limbo /\ pc'[c] \notin Limbo
    BY <1>i, <2>1, <2>2, <2>3, <2>5
  <2>6. CASE pc[c] \in Limbo /\ pc'[c] \notin Limbo
    <3>1. roomID'[u] \in RoomIDs /\ rooms[roomID'[u]] # NULL
      BY <1>1, <1>h, <1>i, <2>6
    <3> QED BY <2>1, <2>2, <2>3, <2>6, <3>1
  <2>7. CASE pc[c] \notin Limbo /\ pc'[c] \in Limbo
    <3>1. roomID[u] \in RoomIDs
      BY <1>1, <1>g, <2>7
    <3> QED BY <2>1, <2>2, <2>3, <2>7, <3>1
  <2> QED BY <2>4, <2>5, <2>6, <2>7
<1>2. CASE session'[c] = session[c] /\ session[c] \notin Names
  BY <1>b, <1>2
<1>3. ASSUME NEW u \in Names, session[c] = NULL, session'[c] = u, u \notin active
      PROVE  Moves(u)
  <2>1. pc'[c] \in Limbo
    <3>1. \A n \in Names : Login(c, n) => pc'[c] \in Limbo \/ session' = session
      BY <1>a DEF Login, Goto, Limbo, TypeOK
    <3> QED
      BY <1>3, <1>a, <3>1 DEF Moving, LoginSock, LoginRoom, JoinRemove, JoinAdd, Leave,
                              LeaveAdd, ExitRoom, ExitActive, Running, LocalOK, UserSteps
  <2>2. Where(u) = Offline /\ Where(u)' = Between
    BY <1>3, <1>c, <1>f, <2>1 DEF WhereOK
  <2>3. \A n \in Names : n # u => Where(n)' = Where(n)
    BY <1>3, <1>a, <1>b
  <2> QED BY <2>2, <2>3
<1>4. ASSUME NEW u \in Names, session[c] = u, session'[c] = NULL, pc[c] \in Limbo,
             active' = active \ {u}
      PROVE  Moves(u)
  <2>1. Where(u) = Between /\ Where(u)' = Offline
    BY <1>4, <1>d, <1>e DEF WhereOK
  <2>2. \A n \in Names : n # u => Where(n)' = Where(n)
    BY <1>4, <1>a, <1>b
  <2> QED BY <2>1, <2>2
<1> HIDE DEF Moves, Stays
<1> QED BY <1>1, <1>2, <1>3, <1>4, SessionSteps

\* A step that moves nobody leaves every user where he was.
LEMMA NobodyMoves ==
    ASSUME TypeInv, IInv, TypeInv', IInv', NEW c \in Clients, Step(c), Unmoving(c)
    PROVE  \A n \in Names : Where(n)' = Where(n)
<1>1. members' = members /\ active' = active
  BY DEF Unmoving
<1> QED BY <1>1 DEF Where, Online

\* Initially everybody is offline.
LEMMA RefInit == Init => Abstract!Init
<1> SUFFICES ASSUME Init PROVE Abstract!Init
  OBVIOUS
<1>1. [n \in Names |-> Where(n)] = [n \in Names |-> Offline]
  BY DEF Init, Where, Online
<1>2. rooms \in [RoomIDs -> RoomNames \cup {NULL}]
  BY TypeInit DEF TypeInv, TypeOK
<1> QED BY <1>1, <1>2 DEF Abstract!Init

\* Every step of the server is a step of Presence or changes nothing Presence shows.
LEMMA RefStep ==
    TypeInv /\ IInv /\ TypeInv' /\ IInv' /\ [Next]_vars => [Abstract!Next]_(Abstract!vars)
<1> SUFFICES ASSUME TypeInv, IInv, TypeInv', IInv', [Next]_vars
             PROVE  [Abstract!Next]_(Abstract!vars)
  OBVIOUS
<1> DEFINE where == [n \in Names |-> Where(n)]
<1>1. ASSUME NEW c \in Clients, Step(c), Unmoving(c)
      PROVE  [Abstract!Next]_(Abstract!vars)
  <2>1. where' = where
    BY <1>1, NobodyMoves
  <2>2. CASE rooms' = rooms
    BY <2>1, <2>2 DEF Abstract!vars
  <2>3. ASSUME NEW r \in RoomIDs, NEW x \in RoomNames, rooms[r] = NULL,
               \A q \in RoomIDs : rooms[q] # x, rooms' = [rooms EXCEPT ![r] = x]
        PROVE  Abstract!Create(r, x)
    BY <2>1, <2>3 DEF Abstract!Create
  <2> QED BY <1>1, <2>2, <2>3, RoomMove DEF Abstract!Next
<1>2. ASSUME NEW c \in Clients, Step(c), Moving(c)
      PROVE  [Abstract!Next]_(Abstract!vars)
  <2>1. rooms' = rooms
    BY <1>2 DEF Moving, Login, LoginSock, LoginRoom, JoinRemove, JoinAdd, Leave, LeaveAdd,
                ExitRoom, ExitActive
  <2>2. CASE \A n \in Names : Where(n)' = Where(n)
    <3>1. where' = where
      BY <2>2
    <3> QED BY <2>1, <3>1 DEF Abstract!vars
  <2>3. ASSUME NEW n \in Names, \A m \in Names : m # n => Where(m)' = Where(m)
        PROVE  where' = [where EXCEPT ![n] = Where(n)'] /\ where[n] = Where(n)
    BY <2>3
  <2>4. ASSUME NEW n \in Names, \A m \in Names : m # n => Where(m)' = Where(m),
               \/ Where(n) = Offline /\ Where(n)' = Between
               \/ Where(n) = Between /\ Where(n)' \in RoomIDs /\ rooms[Where(n)'] # NULL
               \/ Where(n) \in RoomIDs /\ Where(n)' = Between
               \/ Where(n) = Between /\ Where(n)' = Offline
        PROVE  Abstract!Next
    <3>1. where' = [where EXCEPT ![n] = Where(n)'] /\ where[n] = Where(n)
      BY <2>3, <2>4
    <3> HIDE DEF where
    <3>2. CASE Where(n) = Offline /\ Where(n)' = Between
      <4>1. Abstract!Arrive(n)
        BY <2>1, <3>1, <3>2 DEF Abstract!Arrive, where
      <4> QED BY <4>1 DEF Abstract!Next
    <3>3. CASE Where(n) = Between /\ Where(n)' \in RoomIDs /\ rooms[Where(n)'] # NULL
      <4>1. ASSUME NEW r \in RoomIDs, r = Where(n)' PROVE Abstract!Enter(n, r)
        BY <2>1, <3>1, <3>3, <4>1 DEF Abstract!Enter, where
      <4> QED BY <3>3, <4>1 DEF Abstract!Next
    <3>4. CASE Where(n) \in RoomIDs /\ Where(n)' = Between
      <4>1. Abstract!Leave(n)
        BY <2>1, <3>1, <3>4 DEF Abstract!Leave, where
      <4> QED BY <4>1 DEF Abstract!Next
    <3>5. CASE Where(n) = Between /\ Where(n)' = Offline
      <4>1. Abstract!Depart(n)
        BY <2>1, <3>1, <3>5 DEF Abstract!Depart, where
      <4> QED BY <4>1 DEF Abstract!Next
    <3> QED BY <2>4, <3>2, <3>3, <3>4, <3>5
  <2> QED BY <1>2, <2>2, <2>4, OwnMove
<1>3. CASE UNCHANGED vars
  <2>1. rooms' = rooms /\ members' = members /\ active' = active
    BY <1>3 DEF vars, users
  <2>2. \A n \in Names : Where(n)' = Where(n)
    BY <2>1 DEF Where, Online
  <2>3. where' = where
    BY <2>2
  <2> QED BY <2>1, <2>3 DEF Abstract!vars
<1> QED BY <1>1, <1>2, <1>3, MovesAreFew DEF Next

\* The server implements Presence: under any interleaving of its threads, what the room lists
\* show of a user moves from offline over no room into one room and back the same way,
\* and rooms keep their number and name (ImplementsPresence).
THEOREM PresenceImplemented == Spec => ImplementsPresence
<1>1. Init => Abstract!Init
  BY RefInit
<1>2. TypeInv /\ IInv /\ (TypeInv /\ IInv)' /\ [Next]_vars => [Abstract!Next]_(Abstract!vars)
  BY RefStep
<1> QED BY <1>1, <1>2, RoomsCorrect, PTL DEF Spec, ImplementsPresence, Abstract!Spec
=============================================================================
