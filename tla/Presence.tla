------------------------------ MODULE Presence ------------------------------
(***************************************************************************)
(* What the chat server promises about where its users are, without        *)
(* threads, lists, descriptors or packets: a user is offline, between two   *)
(* places, or in exactly one room; rooms are created, and then keep their   *)
(* ID and their name for good.                                              *)
(***************************************************************************)
CONSTANTS
    Names,      \* users
    RoomIDs,    \* room numbers
    RoomNames,  \* names of rooms
    NoRoom,     \* rooms[r] of a number no room has; not in RoomNames
    Offline,    \* the user is not logged in; not in RoomIDs
    Between     \* the user is logged in and in no room; not in RoomIDs, not Offline

VARIABLES
    where,  \* where[n]: Offline, Between or the ID of a room
    rooms   \* rooms[r]: the name of room r, or NoRoom

Init == /\ where = [n \in Names |-> Offline]
        /\ rooms \in [RoomIDs -> RoomNames \cup {NoRoom}]

Arrive(n) == /\ where[n] = Offline
             /\ where' = [where EXCEPT ![n] = Between]
             /\ UNCHANGED rooms

Enter(n, r) == /\ where[n] = Between /\ rooms[r] # NoRoom
               /\ where' = [where EXCEPT ![n] = r]
               /\ UNCHANGED rooms

Leave(n) == /\ where[n] \in RoomIDs
            /\ where' = [where EXCEPT ![n] = Between]
            /\ UNCHANGED rooms

Depart(n) == /\ where[n] = Between
             /\ where' = [where EXCEPT ![n] = Offline]
             /\ UNCHANGED rooms

\* A room gets a number and a name that no room has.
Create(r, x) == /\ rooms[r] = NoRoom
                /\ \A s \in RoomIDs : rooms[s] # x
                /\ rooms' = [rooms EXCEPT ![r] = x]
                /\ UNCHANGED where

Next == \/ \E n \in Names : Arrive(n) \/ Leave(n) \/ Depart(n) \/ \E r \in RoomIDs : Enter(n, r)
        \/ \E r \in RoomIDs, x \in RoomNames : Create(r, x)

vars == <<where, rooms>>
Spec == Init /\ [][Next]_vars

\* Nobody stays between two places for good.
Arrives(n) == Depart(n) \/ \E r \in RoomIDs : Enter(n, r)
FairSpec == Spec /\ \A n \in Names : WF_vars(Arrives(n))
=============================================================================
