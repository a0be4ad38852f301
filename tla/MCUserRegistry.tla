--------------------------- MODULE MCUserRegistry ---------------------------
(* UserRegistry on small sets, for TLC. *)
EXTENDS UserRegistry, TLC

\* Connections, usernames and passwords are interchangeable.
Symmetry == Permutations(Clients) \cup Permutations(Names) \cup Permutations(Passwords)
=============================================================================
