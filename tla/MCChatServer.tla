---------------------------- MODULE MCChatServer ----------------------------
(* ChatServer on small sets, for TLC. *)
EXTENDS ChatServer, TLC

\* Connections, users and room names are interchangeable, the lobby's name and
\* descriptors (which are ordered) are not.
ClientSymmetry == Permutations(Clients)
Symmetry == Permutations(Clients) \cup Permutations(Names) \cup Permutations(RoomNames \ {LobbyName})
=============================================================================
