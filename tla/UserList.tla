------------------------------ MODULE UserList ------------------------------
(***************************************************************************)
(* What the handlers of the chat server take a list of users for: a        *)
(* sequence in which a user is once at most, changed by one atomic call at *)
(* a time.  ChatServer and UserRegistry are written with such lists;       *)
(* LinkedList says when the code's lists are ones.                         *)
(***************************************************************************)
EXTENDS Naturals, Sequences, SequencesExt

CONSTANT Users

VARIABLE list

Init == list \in Seq(Users) /\ IsInjective(list)

insert(u) == u \notin ToSet(list) /\ list' = Append(list, u)

remove(u) == u \in ToSet(list) /\ list' = RemoveFirst(list, u)

Next == \E u \in Users : insert(u) \/ remove(u)

Spec == Init /\ [][Next]_list
=============================================================================
