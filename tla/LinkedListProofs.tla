-------------------------- MODULE LinkedListProofs --------------------------
(***************************************************************************)
(* The theorems about LinkedList, for any number of threads, users, nodes  *)
(* and calls.                                                              *)
(*                                                                         *)
(* Types and the mutex of the listings hold whatever the list functions do *)
(* at once.  The rest needs that one call changes the list at a time       *)
(* (~Overlap): what a search answers, whom a walk reaches, what a crash    *)
(* takes.  The argument has three layers.  Nodes are numbered as they are  *)
(* allocated and every pointer leads to a later one (Forward), so what one *)
(* comes to from the head is a list in the order of the numbers (Linked).  *)
(* The one thread that changes it knows where it stands (AdderOK,          *)
(* RemoverOK), so each of its writes appends its node or takes one out     *)
(* (Adds, Removes).  And the nodes a call may have seen (ever) lead only   *)
(* to such nodes, never past one it must see (always): that is WatchOK,    *)
(* and it is why a walk whose cursor has been removed finds its way back.  *)
(* From the same layers follows that the list of users is changed as       *)
(* UserList says (UserListImplemented): in a list in the order of the      *)
(* numbers, what a node still has ahead of it counts its place.            *)
(***************************************************************************)
EXTENDS LinkedList, FiniteSetTheorems, SequenceTheorems, WellFoundedInduction, TLAPS

\* The labels of removeNode (and the first two of listLength).
Removing == {"isnull", "head", "find", "compare", "skip", "after", "unlink"}

\* What each label says of a thread's locals.
LocalOK(c) ==
    /\ c.fn = NULL => c = NoCall
    /\ c.pc = "idle" => c.fn = NULL
    /\ c.pc \in {"hung", "temp", "empty"} => c.fn # "listing"
    /\ c.pc \in {"first", "link"} => c.fn \in Inserts
    /\ c.pc = "clear" => c.fn = "insertNode"
    /\ c.pc \in {"isnull", "head"} => c.fn \in {"listing", "removeUser"}
    /\ c.pc \in {"find", "compare", "skip", "after", "unlink"} => c.fn = "removeUser"
    /\ c.pc = "lock" => c.fn = "listing"
    /\ c.pc \in {"start", "send", "unlock"} => c.fn \in {"listing", "send_message"}
    /\ c.pc \in {"check", "advance", "link", "find", "compare", "skip", "after", "unlink"} => c.cur \in Nodes
    /\ c.fn \in Inserts => c.node \in Nodes
    /\ c.fn = "removeUser" /\ c.pc \in Removing => c.node \in Nodes
    /\ c.pc \notin {"send", "unlock", "return"} => c.sent = <<>>
    /\ c.pc # "return" => ~c.out

\* TypeOK is not inductive without the labels.
TypeInv == TypeOK /\ \A t \in Threads : LocalOK(thread[t])

\* ... and with ListingsExclude: a listing inside holds the mutex, unless it was stolen.
MutexInv ==
    /\ ListingsExclude
    /\ \A t \in Threads : Inside(t) => locked \/ stolen

\* Pointers lead to nodes that were allocated later.
Forward(nx) == \A n \in Nodes : nx[n] # NULL => nx[n] > n

\* Nodes are taken in their order, and only nodes that are taken are linked.
Allocated ==
    /\ \A m, n \in Nodes : m < n /\ data[n] # NULL => data[m] # NULL
    /\ \A n \in Nodes : data[n] = NULL => next[n] = NULL
    /\ \A n \in InList : data[n] # NULL

\* t is in a call that changes the list, and not hung.
Active(t) == Fn(t) \in Mutations /\ thread[t].pc # "hung"

\* Where insertNode and insertUser stand: their node is the last allocated, outside the
\* list until it is linked, and it is linked behind the last node.
AdderOK(t) ==
    LET c == thread[t] IN
    Active(t) /\ c.fn \in Inserts =>
        /\ next[c.node] = NULL /\ data[c.node] = c.user /\ c.user # NULL
        /\ c.pc \notin {"clear", "return"} =>
               /\ c.node \notin InList
               /\ \A n \in Nodes : data[n] # NULL => n <= c.node
        /\ c.pc \in {"check", "advance", "link"} => c.cur \in InList
        /\ c.pc = "empty" => c.cur = head
        /\ c.pc = "link" => next[c.cur] = NULL
        /\ c.pc = "first" => head = NULL

\* Where removeUser stands: its node stays in the list, ahead of removeNode's cursor,
\* until it is unlinked from the node before it.
RemoverOK(t) ==
    LET c == thread[t] IN
    Active(t) /\ c.fn = "removeUser" =>
        /\ c.pc = "empty" => c.cur = head
        /\ c.pc \in {"check", "advance"} => c.cur \in InList
        /\ c.pc \in Removing => c.node \in InList
        /\ c.pc \in {"find", "compare", "skip"} => c.cur \in InList /\ c.cur < c.node
        /\ c.pc = "skip" => next[c.cur] # c.node
        /\ c.pc \in {"after", "unlink"} =>
               \/ c.cur = c.node /\ head = c.node
               \/ c.cur \in InList /\ next[c.cur] = c.node
        /\ c.pc = "unlink" => c.succ = next[c.node]

ListInv ==
    /\ Forward(next) /\ Allocated
    /\ \A s, t \in Threads : Active(s) /\ Active(t) => s = t
    /\ \A t \in Threads : AdderOK(t) /\ RemoverOK(t)

\* What a call may have seen leads on to what it may have seen, and past nothing it must see.
WatchOK(t) ==
    /\ Fn(t) = NULL => always[t] = {} /\ ever[t] = {}
    /\ Fn(t) # NULL =>
           /\ always[t] \subseteq InList /\ InList \subseteq ever[t]
           /\ \A n \in ever[t] : data[n] # NULL
           /\ \A n \in ever[t] : next[n] # NULL => next[n] \in ever[t]
           /\ \A n \in ever[t], m \in always[t] : n < m => next[n] # NULL /\ next[n] <= m

\* The cursor of a search has passed no node it must find.
WalkOK(t) ==
    LET c == thread[t] IN
    /\ c.pc = "empty" => /\ c.cur # NULL => c.cur \in ever[t]
                         /\ \A m \in always[t] : c.cur # NULL /\ c.cur <= m
    /\ c.pc \in {"check", "advance"} =>
           /\ c.cur \in ever[t]
           /\ c.fn \in {"get_user", "removeUser", "insertUser"} => \A m \in Must(t) : c.cur < m
    /\ c.pc = "link" /\ c.fn = "insertUser" => Must(t) = {}
    /\ c.pc = "first" => always[t] = {}
    /\ c.pc \in Removing /\ c.fn = "removeUser" => c.node \in May(t)
    /\ c.pc = "advance" /\ always[t] = ever[t] => next[c.cur] # NULL
    /\ c.pc = "head" /\ always[t] = ever[t] => head # NULL

\* AnswerIsRight for one thread.
AnswerOK(t) == thread[t].pc = "return" =>
        CASE Fn(t) \in {"get_user", "removeUser"} ->
                 (Must(t) # {} => thread[t].out) /\ (thread[t].out => May(t) # {})
          [] Fn(t) = "insertUser" ->
                 (Must(t) \ {thread[t].node} # {} => ~thread[t].out) /\ May(t) # {}
          [] OTHER -> TRUE

\* A listing and a broadcast have sent what lies before the cursor, each node once.
SendOK(t) ==
    LET c == thread[t] IN
    c.pc \in {"send", "unlock"} =>
        /\ \A i \in 1 .. Len(c.sent) : c.sent[i] \in ever[t]
        /\ \A i, j \in 1 .. Len(c.sent) : i < j => c.sent[i] < c.sent[j]
        /\ c.cur # NULL => c.cur \in ever[t] /\ \A i \in 1 .. Len(c.sent) : c.sent[i] < c.cur
        /\ \A m \in always[t] : c.cur = NULL \/ m < c.cur => \E i \in 1 .. Len(c.sent) : c.sent[i] = m
        /\ c.pc = "unlock" => c.cur = NULL

WalkInv == \A t \in Threads : WatchOK(t) /\ WalkOK(t) /\ AnswerOK(t) /\ SendOK(t)

-----------------------------------------------------------------------------
(* Least elements. *)

\* What the assumptions say of the constants.
LEMMA Constants ==
    /\ MaxNodes \in Nat /\ MaxCalls \in Nat /\ NULL \notin Nodes /\ NULL \notin Users
    /\ NULL \notin Functions /\ Nodes \subseteq Nat \ {0}
BY ListAssumption DEF Nodes

\* Nodes are numbers, and none of them is NULL.
LEMMA NodeFacts == \A n \in Nodes : n \in Nat /\ n # NULL
BY Constants

\* A nonempty set of numbers has a least element.
LEMMA Least ==
    ASSUME NEW S, S \subseteq Nat, S # {}
    PROVE  \E m \in S : \A n \in S : m <= n
<1> DEFINE R == OpToRel(<, Nat)
<1>1. \A m, n \in Nat : m < n => <<m, n>> \in R
  BY DEF OpToRel
<1>2. IsWellFoundedOn(R, Nat)
  BY NatLessThanWellFounded
<1> HIDE DEF R
<1>3. PICK m \in S : \A n \in S : ~ (<<n, m>> \in R)
  BY <1>2, WFMin
<1>4. \A n \in S : ~ (n < m)
  BY <1>1, <1>3
<1> QED BY <1>4

\* A nonempty set of nodes has a greatest element.
LEMMA Greatest ==
    ASSUME NEW S, S \subseteq Nodes, S # {}
    PROVE  \E m \in S : \A n \in S : n <= m
<1> DEFINE T == {MaxNodes - n : n \in S}
<1>1. MaxNodes \in Nat
  BY ListAssumption
<1>2. T \subseteq Nat /\ T # {}
  BY <1>1 DEF Nodes
<1>3. PICK k \in T : \A n \in T : k <= n
  BY <1>2, Least
<1>4. PICK m \in S : k = MaxNodes - m
  BY <1>3
<1>5. ASSUME NEW n \in S PROVE n <= m
  <2>1. MaxNodes - m <= MaxNodes - n
    BY <1>3, <1>4, <1>5
  <2> QED BY <1>1, <1>4, <2>1 DEF Nodes
<1> QED BY <1>5

\* ... and Min is it.
LEMMA MinIsLeast ==
    ASSUME NEW S, S \subseteq Nat, S # {}
    PROVE  Min(S) \in S /\ \A n \in S : Min(S) <= n
<1>1. \E m \in S : \A n \in S : m <= n
  BY Least
<1>2. PICK m \in S : \A n \in S : m <= n
  BY <1>1
<1>3. \A n \in S : Min(S) <= n
  BY <1>2, Zenon DEF Min
<1>4. Min(S) \in S
  BY <1>2, Zenon DEF Min
<1> QED BY <1>3, <1>4

-----------------------------------------------------------------------------
(* Types. *)

\* A call moves its own thread and no other.
LEMMA LocalsMove ==
    ASSUME TypeOK, NEW t \in Threads, NEW c \in Locals, Set(t, c)
    PROVE  /\ thread' \in [Threads -> Locals]
           /\ thread'[t] = c /\ \A s \in Threads : s # t => thread'[s] = thread[s]
BY DEF TypeOK, Set

\* What a step of t does for the types.
Typed(t) ==
    /\ head' \in Nodes \cup {NULL} /\ next' \in [Nodes -> Nodes \cup {NULL}]
    /\ data' \in [Nodes -> Users \cup {NULL}]
    /\ locked' \in BOOLEAN /\ stolen' \in BOOLEAN /\ fault' \in BOOLEAN /\ calls' \in 0 .. MaxCalls
    /\ thread' \in [Threads -> Locals] /\ LocalOK(thread'[t])
    /\ \A s \in Threads : s # t => thread'[s] = thread[s]

\* The types after a call, whose new node is the first free one.
LEMMA CallTyped ==
    ASSUME TypeInv, NEW t \in Threads, NEW f \in Functions, NEW u \in Users \cup {NULL}, Call(t, f, u)
    PROVE  Typed(t)
<1>a. TypeOK /\ LocalOK(thread[t])
  BY DEF TypeInv
<1>1. PICK n \in Nodes \cup {NULL} :
           /\ f \in Inserts => n \in Nodes
           /\ data' = [data EXCEPT ![n] = u] \/ UNCHANGED data
           /\ Set(t, [NoCall EXCEPT !.fn = f, !.user = u, !.node = n,
                         !.pc = IF f = "listing" THEN "isnull" ELSE IF locked THEN "hung" ELSE "temp"])
  <2> DEFINE free == {m \in Nodes : data[m] = NULL}
  <2>1. ASSUME f \in Inserts PROVE Min(free) \in Nodes
    <3>1. free # {} /\ free \subseteq Nodes /\ free \subseteq Nat
      BY <2>1, Constants DEF Call, MayCall
    <3> HIDE DEF free
    <3> QED BY <3>1, MinIsLeast
  <2> QED BY <2>1 DEF Call
<1> DEFINE c == [NoCall EXCEPT !.fn = f, !.user = u, !.node = n,
                     !.pc = IF f = "listing" THEN "isnull" ELSE IF locked THEN "hung" ELSE "temp"]
<1>2. c \in Locals /\ c.fn = f /\ c.node = n /\ c.sent = <<>> /\ c.out = FALSE
      /\ c.pc \in {"isnull", "hung", "temp"} /\ (f = "listing" <=> c.pc = "isnull")
  <2>1. \A pc \in Labels : [NoCall EXCEPT !.fn = f, !.user = u, !.node = n, !.pc = pc] \in Locals
    BY EmptySeq DEF Locals, NoCall
  <2>2. {"isnull", "hung", "temp"} \subseteq Labels
    BY DEF Labels
  <2> QED BY <2>1, <2>2 DEF NoCall
<1>3. /\ thread' \in [Threads -> Locals]
      /\ thread'[t] = c /\ \A s \in Threads : s # t => thread'[s] = thread[s]
  <2> HIDE DEF c
  <2>1. Set(t, c)
    BY <1>1 DEF c
  <2> QED BY <1>a, <1>2, <2>1, LocalsMove
<1>4. LocalOK(thread'[t])
  <2> HIDE DEF c
  <2>1. f # NULL
    BY Constants
  <2> QED BY <1>1, <1>2, <1>3, <2>1 DEF LocalOK, Removing
<1>5. calls' \in 0 .. MaxCalls
  BY <1>a, Constants DEF Call, TypeOK
<1>6. UNCHANGED <<head, next, locked, stolen, fault>>
  BY DEF Call, links, mutex
<1>7. data' \in [Nodes -> Users \cup {NULL}]
  BY <1>1, <1>a DEF TypeOK
<1> QED BY <1>a, <1>3, <1>4, <1>5, <1>6, <1>7 DEF Typed, TypeOK

\* Assigning to the locals keeps their types.
LEMMA LocalsKept ==
    ASSUME NEW c \in Locals, NEW p \in Labels, NEW n \in Nodes \cup {NULL}
    PROVE  /\ [c EXCEPT !.pc = p] \in Locals
           /\ [c EXCEPT !.pc = p, !.cur = n] \in Locals
           /\ [c EXCEPT !.pc = p, !.succ = n] \in Locals
           /\ [c EXCEPT !.pc = p, !.cur = NULL, !.node = n] \in Locals
           /\ \A b \in BOOLEAN : /\ [c EXCEPT !.pc = p, !.out = b] \in Locals
                                 /\ [c EXCEPT !.pc = p, !.cur = n, !.out = b] \in Locals
<1>1. [c EXCEPT !.pc = p] \in Locals
  BY DEF Locals
<1>2. [c EXCEPT !.pc = p, !.cur = n] \in Locals
  BY DEF Locals
<1>3. [c EXCEPT !.pc = p, !.succ = n] \in Locals
  BY DEF Locals
<1>4. [c EXCEPT !.pc = p, !.cur = NULL, !.node = n] \in Locals
  BY DEF Locals
<1>5. ASSUME NEW b \in BOOLEAN PROVE [c EXCEPT !.pc = p, !.out = b] \in Locals
  BY <1>5 DEF Locals
<1>6. ASSUME NEW b \in BOOLEAN PROVE [c EXCEPT !.pc = p, !.cur = n, !.out = b] \in Locals
  BY <1>6 DEF Locals
<1> QED BY <1>1, <1>2, <1>3, <1>4, <1>5, <1>6

\* The labels.
LEMMA LabelFacts ==
    /\ "idle" \in Labels /\ "hung" \in Labels /\ "temp" \in Labels /\ "empty" \in Labels
    /\ "check" \in Labels /\ "advance" \in Labels /\ "first" \in Labels /\ "link" \in Labels
    /\ "clear" \in Labels /\ "isnull" \in Labels /\ "head" \in Labels /\ "find" \in Labels
    /\ "compare" \in Labels /\ "skip" \in Labels /\ "after" \in Labels /\ "unlink" \in Labels
    /\ "lock" \in Labels /\ "start" \in Labels /\ "send" \in Labels /\ "unlock" \in Labels
    /\ "return" \in Labels
BY DEF Labels

\* The types after any other step.
LEMMA AccessTyped ==
    ASSUME TypeInv, NEW t \in Threads, Access(t)
    PROVE  Typed(t)
<1>a. TypeOK /\ LocalOK(thread[t]) /\ thread[t] \in Locals
  BY DEF TypeInv, TypeOK
<1>b. ASSUME UNCHANGED Memory, NEW c \in Locals, LocalOK(c), Go(t, c) PROVE Typed(t)
  BY <1>a, <1>b, LocalsMove DEF Typed, TypeOK, Memory, links, mutex, Go
<1>c. ASSUME Crash, UNCHANGED Memory PROVE Typed(t)
  BY <1>a, <1>c DEF Typed, TypeOK, Memory, links, mutex, Crash
<1>h. head \in Nodes \cup {NULL} /\ \A n \in Nodes : next[n] \in Nodes \cup {NULL}
  BY <1>a DEF TypeOK
<1>1. ASSUME Temp(t) PROVE Typed(t)
  <2> DEFINE c == [thread[t] EXCEPT !.pc = "empty", !.cur = head]
  <2>1. c \in Locals
    BY <1>a, <1>h, LabelFacts, LocalsKept
  <2>2. LocalOK(c)
    BY <1>a, <1>1 DEF LocalOK, Temp, At, Removing, NoCall, Locals
  <2> QED BY <1>1, <1>b, <2>1, <2>2 DEF Temp
<1>v. ASSUME NEW n \in Nodes \cup {NULL}, Visit(t, n), UNCHANGED Memory,
             At(t, "empty") \/ At(t, "advance")
      PROVE  Typed(t)
  <2>1. CASE n # NULL /\ ~Wanted(t, n)
    <3> DEFINE c == [thread[t] EXCEPT !.pc = "check", !.cur = n]
    <3>1. c \in Locals
      BY <1>a, LabelFacts, LocalsKept
    <3>2. LocalOK(c)
      BY <1>a, <1>v, <2>1 DEF LocalOK, At, Removing, NoCall, Locals
    <3> QED BY <1>v, <1>b, <2>1, <3>1, <3>2 DEF Visit
  <2>2. CASE n # NULL /\ Wanted(t, n) /\ Fn(t) = "removeUser"
    <3> DEFINE c == [thread[t] EXCEPT !.pc = "isnull", !.cur = NULL, !.node = n]
    <3>1. c \in Locals
      BY <1>a, LabelFacts, LocalsKept
    <3>2. LocalOK(c)
      BY <1>a, <1>v, <2>2 DEF LocalOK, At, Removing, NoCall, Locals, Fn, Inserts
    <3> QED BY <1>v, <1>b, <2>2, <3>1, <3>2 DEF Visit
  <2>3. CASE n # NULL /\ Wanted(t, n) /\ Fn(t) # "removeUser"
    <3> DEFINE c == [thread[t] EXCEPT !.pc = "return", !.cur = n, !.out = Fn(t) = "get_user"]
    <3>1. c \in Locals
      BY <1>a, LabelFacts, LocalsKept
    <3>2. LocalOK(c)
      BY <1>a, <1>v, <2>3 DEF LocalOK, At, Removing, NoCall, Locals, Fn
    <3> QED BY <1>v, <1>b, <2>3, <3>1, <3>2 DEF Visit
  <2>4. CASE n = NULL
    BY <1>c, <1>v, <2>4 DEF Visit
  <2> QED BY <2>1, <2>2, <2>3, <2>4
<1>e. ASSUME WalkEnds(t), UNCHANGED Memory, At(t, "empty") \/ At(t, "check"), Fn(t) \notin Inserts
      PROVE  Typed(t)
  <2> DEFINE p == CASE Fn(t) = "listing"      -> "lock"
                    [] Fn(t) = "send_message" -> "start"
                    [] OTHER                  -> "return"
             c == [thread[t] EXCEPT !.pc = p]
  <2>1. /\ Fn(t) = "listing" => p = "lock"
        /\ Fn(t) = "send_message" => p = "start"
        /\ Fn(t) \notin {"listing", "send_message"} => p = "return"
    OBVIOUS
  <2> HIDE DEF p
  <2>2. c \in Locals
    BY <1>a, <2>1, LabelFacts, LocalsKept
  <2>3. LocalOK(c)
    BY <1>a, <1>e, <2>1 DEF LocalOK, At, Removing, NoCall, Locals, Fn
  <2>4. Go(t, c)
    BY <1>e DEF WalkEnds, p
  <2> QED BY <1>e, <1>b, <2>2, <2>3, <2>4
<1>2. ASSUME Empty(t) PROVE Typed(t)
  <2>1. CASE Visit(t, Cur(t))
    BY <1>2, <1>v, <1>a, <2>1 DEF Empty, Cur, Locals
  <2>2. CASE Fn(t) \in Inserts /\ Go(t, [thread[t] EXCEPT !.pc = "first"])
    <3> DEFINE c == [thread[t] EXCEPT !.pc = "first"]
    <3>1. c \in Locals
      BY <1>a, LabelFacts, LocalsKept
    <3>2. LocalOK(c)
      BY <1>a, <1>2, <2>2 DEF LocalOK, Empty, At, Removing, NoCall, Locals, Fn
    <3> QED BY <1>2, <1>b, <2>2, <3>1, <3>2 DEF Empty
  <2>3. CASE Fn(t) \notin Inserts /\ WalkEnds(t)
    BY <1>2, <1>e, <2>3 DEF Empty
  <2> QED BY <1>2, <2>1, <2>2, <2>3 DEF Empty
<1>3. ASSUME Check(t) PROVE Typed(t)
  <2>1. ASSUME NEW p \in {"advance", "link"}, p = "link" => Fn(t) \in Inserts,
               Go(t, [thread[t] EXCEPT !.pc = p])
        PROVE  Typed(t)
    <3> DEFINE c == [thread[t] EXCEPT !.pc = p]
    <3>1. c \in Locals
      BY <1>a, LabelFacts, LocalsKept
    <3>2. LocalOK(c)
      BY <1>a, <1>3, <2>1 DEF LocalOK, Check, At, Removing, NoCall, Locals, Fn
    <3> QED BY <1>3, <1>b, <2>1, <3>1, <3>2 DEF Check
  <2>2. CASE Fn(t) \notin Inserts /\ WalkEnds(t)
    BY <1>3, <1>e, <2>2 DEF Check
  <2> QED BY <1>3, <2>1, <2>2 DEF Check
<1>4. ASSUME Advance(t) PROVE Typed(t)
  <2>1. Cur(t) \in Nodes
    BY <1>a, <1>4 DEF Advance, At, Cur, LocalOK
  <2> QED BY <1>4, <1>v, <1>h, <2>1 DEF Advance
<1>5. ASSUME IsNull(t) PROVE Typed(t)
  <2>1. ASSUME NEW p \in {"head", "lock"}, p = "lock" => Fn(t) = "listing",
               Go(t, [thread[t] EXCEPT !.pc = p])
        PROVE  Typed(t)
    <3> DEFINE c == [thread[t] EXCEPT !.pc = p]
    <3>1. c \in Locals
      BY <1>a, LabelFacts, LocalsKept
    <3>2. LocalOK(c)
      BY <1>a, <1>5, <2>1 DEF LocalOK, IsNull, At, Removing, NoCall, Locals, Fn
    <3> QED BY <1>5, <1>b, <2>1, <3>1, <3>2 DEF IsNull
  <2>2. CASE Go(t, [thread[t] EXCEPT !.pc = "return", !.out = TRUE])
    <3> DEFINE c == [thread[t] EXCEPT !.pc = "return", !.out = TRUE]
    <3>1. c \in Locals
      BY <1>a, LabelFacts, LocalsKept
    <3>2. LocalOK(c)
      BY <1>a, <1>5 DEF LocalOK, IsNull, At, Removing, NoCall, Locals
    <3> QED BY <1>5, <1>b, <2>2, <3>1, <3>2 DEF IsNull
  <2> QED BY <1>5, <2>1, <2>2 DEF IsNull
<1>6. ASSUME Head_(t) PROVE Typed(t)
  <2>1. CASE head # NULL
    <3> DEFINE p == IF Fn(t) = "listing" THEN "check"
                    ELSE IF head = thread[t].node THEN "after" ELSE "find"
               c == [thread[t] EXCEPT !.cur = head, !.pc = p]
    <3>1. /\ Fn(t) = "listing" => p = "check"
          /\ Fn(t) # "listing" /\ head = thread[t].node => p = "after"
          /\ Fn(t) # "listing" /\ head # thread[t].node => p = "find"
      OBVIOUS
    <3> HIDE DEF p
    <3>2. c = [thread[t] EXCEPT !.pc = p, !.cur = head] /\ p \in Labels
      BY <1>a, <3>1, LabelFacts DEF Locals
    <3>3. c \in Locals
      BY <1>a, <1>h, <3>2, LocalsKept
    <3>4. LocalOK(c)
      BY <1>a, <1>6, <1>h, <2>1, <3>1 DEF LocalOK, Head_, At, Removing, NoCall, Locals, Fn
    <3>5. Go(t, c)
      BY <1>6, <2>1 DEF Head_, p
    <3> QED BY <1>6, <1>b, <3>3, <3>4, <3>5 DEF Head_
  <2>2. CASE head = NULL
    BY <1>6, <1>c, <2>2 DEF Head_
  <2> QED BY <2>1, <2>2
<1>7. ASSUME Find(t) PROVE Typed(t)
  <2>1. CASE next[Cur(t)] = NULL
    <3> DEFINE c == [thread[t] EXCEPT !.pc = "return", !.out = TRUE]
    <3>1. c \in Locals
      BY <1>a, LabelFacts, LocalsKept
    <3>2. LocalOK(c)
      BY <1>a, <1>7 DEF LocalOK, Find, At, Removing, NoCall, Locals
    <3> QED BY <1>7, <1>b, <2>1, <3>1, <3>2 DEF Find
  <2>2. CASE next[Cur(t)] # NULL
    <3> DEFINE c == [thread[t] EXCEPT !.pc = "compare"]
    <3>1. c \in Locals
      BY <1>a, LabelFacts, LocalsKept
    <3>2. LocalOK(c)
      BY <1>a, <1>7 DEF LocalOK, Find, At, Removing, NoCall, Locals
    <3> QED BY <1>7, <1>b, <2>2, <3>1, <3>2 DEF Find
  <2> QED BY <2>1, <2>2
<1>8. ASSUME Compare(t) PROVE Typed(t)
  <2> DEFINE p == IF next[Cur(t)] = thread[t].node THEN "after" ELSE "skip"
             c == [thread[t] EXCEPT !.pc = p]
  <2>1. c \in Locals
    BY <1>a, LabelFacts, LocalsKept
  <2>2. LocalOK(c)
    BY <1>a, <1>8 DEF LocalOK, Compare, At, Removing, NoCall, Locals
  <2> QED BY <1>8, <1>b, <2>1, <2>2 DEF Compare
<1>9. ASSUME Skip(t) PROVE Typed(t)
  <2>1. CASE next[Cur(t)] # NULL
    <3> DEFINE c == [thread[t] EXCEPT !.pc = "find", !.cur = next[Cur(t)]]
    <3>1. next[Cur(t)] \in Nodes
      BY <1>a, <1>9, <1>h, <2>1 DEF Skip, At, Cur, LocalOK
    <3>2. c \in Locals
      BY <1>a, <3>1, LabelFacts, LocalsKept
    <3>3. LocalOK(c)
      BY <1>a, <1>9, <3>1 DEF LocalOK, Skip, At, Removing, NoCall, Locals
    <3> QED BY <1>9, <1>b, <2>1, <3>2, <3>3 DEF Skip
  <2>2. CASE next[Cur(t)] = NULL
    BY <1>9, <1>c, <2>2 DEF Skip
  <2> QED BY <2>1, <2>2
<1>10. ASSUME After(t) PROVE Typed(t)
  <2> DEFINE from == IF Cur(t) = thread[t].node THEN Cur(t) ELSE next[Cur(t)]
             c == [thread[t] EXCEPT !.pc = "unlink", !.succ = next[from]]
  <2>1. Cur(t) \in Nodes
    BY <1>a, <1>10 DEF After, At, Cur, LocalOK
  <2>2. CASE from # NULL
    <3>1. from \in Nodes
      BY <1>h, <2>1, <2>2
    <3> HIDE DEF from
    <3>2. c \in Locals
      BY <1>a, <1>h, <3>1, LabelFacts, LocalsKept
    <3>3. LocalOK(c)
      BY <1>a, <1>10 DEF LocalOK, After, At, Removing, NoCall, Locals
    <3> QED BY <1>10, <1>b, <2>2, <3>2, <3>3 DEF After, from
  <2>3. CASE from = NULL
    BY <1>10, <1>c, <2>3 DEF After
  <2> QED BY <2>2, <2>3
<1>11. ASSUME Start(t) PROVE Typed(t)
  <2> DEFINE c == [thread[t] EXCEPT !.pc = "send", !.cur = head]
  <2>1. c \in Locals
    BY <1>a, <1>h, LabelFacts, LocalsKept
  <2>2. LocalOK(c)
    BY <1>a, <1>11 DEF LocalOK, Start, At, Removing, NoCall, Locals
  <2> QED BY <1>11, <1>b, <2>1, <2>2 DEF Start
<1>12. ASSUME Send(t) PROVE Typed(t)
  <2>1. CASE Cur(t) = NULL
    <3> DEFINE c == [thread[t] EXCEPT !.pc = "unlock"]
    <3>1. c \in Locals
      BY <1>a, LabelFacts, LocalsKept
    <3>2. LocalOK(c)
      BY <1>a, <1>12 DEF LocalOK, Send, At, Removing, NoCall, Locals
    <3> QED BY <1>12, <1>b, <2>1, <3>1, <3>2 DEF Send
  <2>2. CASE Cur(t) # NULL
    <3> DEFINE c == [thread[t] EXCEPT !.cur = next[Cur(t)], !.sent = Append(@, Cur(t))]
    <3>1. Cur(t) \in Nodes /\ next[Cur(t)] \in Nodes \cup {NULL}
      BY <1>a, <1>h, <2>2 DEF Cur, Locals
    <3>2. c \in Locals
      <4>1. thread[t].sent \in Seq(Nodes) /\ Append(thread[t].sent, Cur(t)) \in Seq(Nodes)
        BY <1>a, <3>1 DEF Locals
      <4> QED BY <1>a, <3>1, <4>1 DEF Locals
    <3>3. LocalOK(c)
      BY <1>a, <1>12 DEF LocalOK, Send, At, Removing, NoCall, Locals
    <3> QED BY <1>12, <1>b, <2>2, <3>2, <3>3 DEF Send
  <2> QED BY <2>1, <2>2
\* The steps that write shared memory.
<1>m. ASSUME NEW c \in Locals, LocalOK(c), Set(t, c), UNCHANGED <<data, calls, fault>>,
             head' \in Nodes \cup {NULL}, next' \in [Nodes -> Nodes \cup {NULL}],
             locked' \in BOOLEAN, stolen' \in BOOLEAN
      PROVE  Typed(t)
  BY <1>a, <1>m, LocalsMove DEF Typed, TypeOK
<1>r. ASSUME NEW x \in BOOLEAN, Return(t, x), thread[t].pc # "idle", UNCHANGED <<data, calls, fault>>,
             head' \in Nodes \cup {NULL}, next' \in [Nodes -> Nodes \cup {NULL}],
             locked' \in BOOLEAN, stolen' \in BOOLEAN
      PROVE  Typed(t)
  <2> DEFINE c == [thread[t] EXCEPT !.pc = "return", !.out = x]
  <2>1. c \in Locals
    BY <1>a, LabelFacts, LocalsKept
  <2>2. LocalOK(c)
    BY <1>a, <1>r DEF LocalOK, Removing, NoCall, Locals
  <2> QED BY <1>r, <1>m, <2>1, <2>2 DEF Return
<1>13. ASSUME InsertFirst(t) PROVE Typed(t)
  BY <1>a, <1>h, <1>13, <1>r DEF InsertFirst, At, TypeOK, Locals, mutex
<1>14. ASSUME InsertLast(t) PROVE Typed(t)
  <2>1. next' \in [Nodes -> Nodes \cup {NULL}]
    BY <1>a, <1>14 DEF InsertLast, TypeOK, Locals
  <2>2. CASE Return(t, TRUE)
    BY <1>a, <1>14, <1>r, <2>1, <2>2 DEF InsertLast, At, TypeOK, mutex
  <2>3. CASE Fn(t) = "insertNode" /\ Set(t, [thread[t] EXCEPT !.pc = "clear"])
    <3> DEFINE c == [thread[t] EXCEPT !.pc = "clear"]
    <3>1. c \in Locals
      BY <1>a, LabelFacts, LocalsKept
    <3>2. LocalOK(c)
      BY <1>a, <1>14, <2>3 DEF LocalOK, InsertLast, At, Removing, NoCall, Locals, Fn
    <3> QED BY <1>a, <1>14, <1>m, <2>1, <2>3, <3>1, <3>2 DEF InsertLast, TypeOK, mutex
  <2> QED BY <1>14, <2>2, <2>3 DEF InsertLast
<1>15. ASSUME InsertClear(t) PROVE Typed(t)
  <2>1. next' \in [Nodes -> Nodes \cup {NULL}]
    BY <1>a, <1>15 DEF InsertClear, TypeOK
  <2> QED BY <1>a, <1>15, <1>r, <2>1 DEF InsertClear, At, TypeOK, mutex
<1>16. ASSUME Unlink(t) PROVE Typed(t)
  <2>1. head' \in Nodes \cup {NULL} /\ next' \in [Nodes -> Nodes \cup {NULL}]
    BY <1>a, <1>16 DEF Unlink, TypeOK, Locals
  <2> QED BY <1>a, <1>16, <1>r, <2>1 DEF Unlink, At, TypeOK, mutex
<1>17. ASSUME Lock(t) PROVE Typed(t)
  <2> DEFINE c == [thread[t] EXCEPT !.pc = "start"]
  <2>1. c \in Locals
    BY <1>a, LabelFacts, LocalsKept
  <2>2. LocalOK(c)
    BY <1>a, <1>17 DEF LocalOK, Lock, At, Removing, NoCall, Locals
  <2> QED BY <1>a, <1>17, <1>m, <2>1, <2>2 DEF Lock, TypeOK, links
<1>18. ASSUME Unlock(t) PROVE Typed(t)
  BY <1>a, <1>18, <1>r DEF Unlock, At, TypeOK, links
<1>19. ASSUME Done(t) PROVE Typed(t)
  <2>1. NoCall \in Locals
    BY LabelFacts, EmptySeq DEF Locals, NoCall
  <2>2. LocalOK(NoCall)
    BY Constants DEF LocalOK, NoCall, Removing, Functions, Mutations, Inserts
  <2> QED BY <1>a, <1>19, <1>m, <2>1, <2>2 DEF Done, TypeOK, links, mutex
<1> QED
  BY <1>1, <1>2, <1>3, <1>4, <1>5, <1>6, <1>7, <1>8, <1>9, <1>10, <1>11, <1>12, <1>13, <1>14,
     <1>15, <1>16, <1>17, <1>18, <1>19 DEF Access

\* The first list has users for its nodes.
LEMMA UserOrder ==
    /\ SetToSeq(Users) \in [1 .. Cardinality(Users) -> Users] /\ Cardinality(Users) \in Nat
    /\ \A m, n \in 1 .. Cardinality(Users) : SetToSeq(Users)[m] = SetToSeq(Users)[n] => m = n
<1> DEFINE size == Cardinality(Users)
           order == SetToSeq(Users)
<1>1. size \in Nat /\ ExistsBijection(1 .. size, Users)
  BY ListAssumption, FS_CardinalityType
<1>2. PICK f \in [1 .. size -> Users] : \A a, b \in 1 .. size : f[a] = f[b] => a = b
  BY <1>1 DEF ExistsBijection, Bijection, Injection, IsInjective
<1>3. IsInjective(f)
  BY <1>2 DEF IsInjective
<1> HIDE DEF size
<1>4. \E g \in [1 .. size -> Users] : IsInjective(g)
  BY <1>3
<1>5. order \in [1 .. size -> Users] /\ IsInjective(order)
  BY <1>4, Zenon DEF SetToSeq, size
<1>6. \A m, n \in 1 .. size : order[m] = order[n] => m = n
  BY <1>5 DEF IsInjective
<1> QED BY <1>1, <1>5, <1>6 DEF size

\* The initial list has the types.
LEMMA TypeInit == Init => TypeInv
<1> SUFFICES ASSUME Init PROVE TypeInv
  OBVIOUS
<1> DEFINE size == Cardinality(Users)
           order == SetToSeq(Users)
<1>1. size \in Nat /\ order \in [1 .. size -> Users]
  BY UserOrder
<1>2. PICK len \in 0 .. Min({MaxNodes, size}) :
           /\ head = IF len = 0 THEN NULL ELSE 1
           /\ next = [n \in Nodes |-> IF n < len THEN n + 1 ELSE NULL]
           /\ data = [n \in Nodes |-> IF n <= len THEN order[n] ELSE NULL]
  BY DEF Init
<1> HIDE DEF size, order
<1>3. len \in Nat /\ len <= MaxNodes /\ len <= size
  <2>1. {MaxNodes, size} \subseteq Nat
    BY <1>1, Constants
  <2>2. Min({MaxNodes, size}) \in {MaxNodes, size} /\ \A n \in {MaxNodes, size} : Min({MaxNodes, size}) <= n
    BY <2>1, MinIsLeast
  <2> QED BY <2>1, <2>2
<1>4. head \in Nodes \cup {NULL}
  BY <1>2, <1>3, Constants DEF Nodes
<1>5. next \in [Nodes -> Nodes \cup {NULL}]
  BY <1>2, <1>3, Constants DEF Nodes
<1>6. data \in [Nodes -> Users \cup {NULL}]
  BY <1>1, <1>2, <1>3, Constants DEF Nodes
<1>7. NoCall \in Locals /\ LocalOK(NoCall)
  <2>1. NoCall \in Locals
    BY LabelFacts, EmptySeq DEF Locals, NoCall
  <2> QED BY <2>1, Constants DEF LocalOK, NoCall, Removing, Functions, Mutations, Inserts
<1>8. /\ locked = FALSE /\ stolen = FALSE /\ fault = FALSE /\ calls = 0
      /\ thread = [t \in Threads |-> NoCall]
      /\ always = [t \in Threads |-> {}] /\ ever = [t \in Threads |-> {}]
  BY DEF Init
<1>9. thread \in [Threads -> Locals] /\ \A t \in Threads : LocalOK(thread[t])
  BY <1>7, <1>8
<1>10. always \in [Threads -> SUBSET Nodes] /\ ever \in [Threads -> SUBSET Nodes]
  BY <1>8
<1>11. locked \in BOOLEAN /\ stolen \in BOOLEAN /\ fault \in BOOLEAN
  BY <1>8, Zenon
<1>12. calls \in 0 .. MaxCalls
  BY <1>8, Constants
<1> QED BY <1>4, <1>5, <1>6, <1>9, <1>10, <1>11, <1>12 DEF TypeInv, TypeOK

\* One step of thread t, without the observation.
Step(t) ==
    \/ \E f \in Functions :
           \E u \in IF f \in {"listing", "send_message"} THEN {NULL} ELSE Users : Call(t, f, u)
    \/ Access(t)

\* The types after a step.
LEMMA StepTyped ==
    ASSUME TypeInv, NEW t \in Threads, Step(t)
    PROVE  Typed(t)
<1>1. ASSUME NEW f \in Functions, NEW u \in IF f \in {"listing", "send_message"} THEN {NULL} ELSE Users,
             Call(t, f, u)
      PROVE  Typed(t)
  <2>1. u \in Users \cup {NULL}
    OBVIOUS
  <2> QED BY <1>1, <2>1, CallTyped
<1> QED BY <1>1, AccessTyped DEF Step

\* The type invariant is inductive.
LEMMA TypeStep == TypeInv /\ [Next]_vars => TypeInv'
<1> SUFFICES ASSUME TypeInv, [Next]_vars PROVE TypeInv'
  OBVIOUS
<1>1. ASSUME NEW t \in Threads, Step(t), Watch PROVE TypeInv'
  <2>1. Typed(t)
    BY <1>1, StepTyped
  <2>2. InList' \subseteq Nodes
    BY DEF InList
  <2>3. always' \in [Threads -> SUBSET Nodes] /\ ever' \in [Threads -> SUBSET Nodes]
    BY <1>1, <2>2 DEF Watch, TypeInv, TypeOK
  <2> QED BY <2>1, <2>3 DEF Typed, TypeInv, TypeOK
<1>2. CASE UNCHANGED vars
  BY <1>2 DEF TypeInv, TypeOK, vars, links, mutex
<1> QED BY <1>1, <1>2 DEF Next, Step

\* Every variable keeps its type, also when calls change the list at once: no pointer
\* leaves the nodes, and every label finds the locals its access needs (the list
\* functions of linked_list.c, the listings and send_message of server_clients.c).
THEOREM TypeCorrect == Spec => []TypeOK
<1>1. Spec => []TypeInv
  BY TypeInit, TypeStep, PTL DEF Spec
<1>2. TypeInv => TypeOK
  BY DEF TypeInv
<1> QED BY <1>1, <1>2, PTL

-----------------------------------------------------------------------------
(* The mutex of the listings. *)

\* A step of t moves a listing into or out of its section only by Lock and Unlock.
LEMMA InsideMoves ==
    ASSUME TypeInv, NEW t \in Threads, Step(t)
    PROVE  \/ Lock(t)
           \/ Unlock(t)
           \/ UNCHANGED mutex /\ (Inside(t)' => Inside(t))
<1>a. TypeOK /\ LocalOK(thread[t]) /\ thread[t] \in Locals
  BY DEF TypeInv, TypeOK
<1>p. thread'[t].pc \notin {"start", "send", "unlock"} => ~Inside(t)'
  BY DEF Inside
<1>f. thread'[t].fn # "listing" => ~Inside(t)'
  BY DEF Inside, Fn
<1>c. Crash => (Inside(t)' <=> Inside(t))
  BY DEF Crash, Inside, Fn
<1>r. ASSUME NEW x, Return(t, x) PROVE ~Inside(t)'
  BY <1>a, <1>r, <1>p DEF Return, Set, TypeOK, Locals
<1>s. ASSUME NEW p \in Labels \ {"start", "send", "unlock"}, Set(t, [thread[t] EXCEPT !.pc = p])
      PROVE  ~Inside(t)'
  BY <1>a, <1>s, <1>p DEF Set, TypeOK, Locals
<1>1. ASSUME NEW f, NEW u, Call(t, f, u) PROVE UNCHANGED mutex /\ ~Inside(t)'
  BY <1>a, <1>1, <1>p DEF Call, NoCall, Set, TypeOK
<1>2. ASSUME NEW n, Visit(t, n), At(t, "empty") \/ At(t, "advance") PROVE ~Inside(t)'
  <2>1. CASE Go(t, [thread[t] EXCEPT !.pc = "check", !.cur = n])
    BY <2>1, <1>a, <1>p DEF Go, Set, TypeOK, Locals
  <2>2. CASE Go(t, [thread[t] EXCEPT !.pc = "isnull", !.cur = NULL, !.node = n])
    BY <1>a, <2>2, <1>p DEF Go, Set, TypeOK, Locals
  <2>3. CASE Go(t, [thread[t] EXCEPT !.pc = "return", !.cur = n, !.out = Fn(t) = "get_user"])
    BY <1>a, <2>3, <1>p DEF Go, Set, TypeOK, Locals
  <2>4. CASE Crash
    BY <1>2, <1>c, <2>4 DEF Inside, At
  <2> QED BY <1>2, <2>1, <2>2, <2>3, <2>4 DEF Visit
<1>3. ASSUME WalkEnds(t) PROVE ~Inside(t)'
  <2> DEFINE p == CASE Fn(t) = "listing"      -> "lock"
                    [] Fn(t) = "send_message" -> "start"
                    [] OTHER                  -> "return"
  <2>1. Fn(t) = "listing" => p = "lock"
    OBVIOUS
  <2>2. Set(t, [thread[t] EXCEPT !.pc = p])
    BY <1>3 DEF WalkEnds, Go
  <2> HIDE DEF p
  <2>3. thread'[t].fn = thread[t].fn /\ thread'[t].pc = p
    BY <1>a, <2>2 DEF Set, TypeOK, Locals
  <2> QED BY <1>f, <1>p, <2>1, <2>3 DEF Fn
<1>4. ASSUME Temp(t) PROVE UNCHANGED mutex /\ ~Inside(t)'
  BY <1>4, <1>a, <1>p DEF Temp, Go, Memory, Set, TypeOK, Locals
<1>5. ASSUME Empty(t) PROVE UNCHANGED mutex /\ ~Inside(t)'
  <2>1. CASE Go(t, [thread[t] EXCEPT !.pc = "first"])
    BY <1>5, <2>1, <1>a, <1>p DEF Empty, Go, Memory, Set, TypeOK, Locals
  <2> QED BY <1>2, <1>3, <1>5, <2>1 DEF Empty, Memory
<1>6. ASSUME Check(t) PROVE UNCHANGED mutex /\ ~Inside(t)'
  <2>1. ASSUME NEW p \in {"advance", "link"}, Go(t, [thread[t] EXCEPT !.pc = p]) PROVE ~Inside(t)'
    BY <2>1, <1>a, <1>p DEF Go, Set, TypeOK, Locals
  <2> QED BY <1>3, <1>6, <2>1 DEF Check, Memory
<1>7. ASSUME Advance(t) PROVE UNCHANGED mutex /\ ~Inside(t)'
  BY <1>2, <1>7 DEF Advance, Memory
<1>8. ASSUME InsertFirst(t) \/ InsertClear(t) \/ Unlink(t) PROVE UNCHANGED mutex /\ ~Inside(t)'
  BY <1>8, <1>r DEF InsertFirst, InsertClear, Unlink
<1>9. ASSUME InsertLast(t) PROVE UNCHANGED mutex /\ ~Inside(t)'
  BY <1>9, <1>r, <1>s, LabelFacts DEF InsertLast
<1>10. ASSUME IsNull(t) PROVE UNCHANGED mutex /\ ~Inside(t)'
  <2>1. UNCHANGED mutex
    BY <1>10 DEF IsNull, Memory
  <2>2. CASE Go(t, [thread[t] EXCEPT !.pc = "return", !.out = TRUE])
    <3>1. Return(t, TRUE)
      BY <2>2 DEF Go, Return
    <3> QED BY <1>r, <2>1, <3>1
  <2> QED BY <1>10, <1>s, <2>1, <2>2, LabelFacts DEF IsNull, Go
<1>11. ASSUME Head_(t) PROVE UNCHANGED mutex /\ ~Inside(t)'
  <2>1. CASE Crash
    BY <1>11, <1>c, <2>1 DEF Head_, At, Inside, Memory
  <2>2. CASE ~Crash
    <3> DEFINE p == IF Fn(t) = "listing" THEN "check"
                    ELSE IF head = thread[t].node THEN "after" ELSE "find"
    <3>1. thread'[t].pc = p
      BY <1>a, <1>11, <2>2 DEF Head_, Go, Set, TypeOK, Locals
    <3> QED BY <1>11, <1>p, <3>1 DEF Head_, Memory
  <2> QED BY <2>1, <2>2
<1>12. ASSUME Find(t) \/ Compare(t) \/ Skip(t) \/ After(t) PROVE UNCHANGED mutex /\ ~Inside(t)'
  <2>1. UNCHANGED mutex
    BY <1>12 DEF Find, Compare, Skip, After, Memory
  <2>2. CASE Crash
    <3>1. thread[t].pc \in {"find", "compare", "skip", "after"}
      BY <1>12 DEF Find, Compare, Skip, After, At
    <3> QED BY <1>c, <2>1, <2>2, <3>1 DEF Inside
  <2>3. ASSUME NEW p \in {"compare", "after", "skip"}, Go(t, [thread[t] EXCEPT !.pc = p])
        PROVE  ~Inside(t)'
    BY <2>3, <1>a, <1>p DEF Go, Set, TypeOK, Locals
  <2>4. ASSUME Go(t, [thread[t] EXCEPT !.pc = "return", !.out = TRUE]) PROVE ~Inside(t)'
    BY <2>4, <1>a, <1>p DEF Go, Set, TypeOK, Locals
  <2>5. ASSUME NEW n, Go(t, [thread[t] EXCEPT !.pc = "find", !.cur = n]) PROVE ~Inside(t)'
    BY <2>5, <1>a, <1>p DEF Go, Set, TypeOK, Locals
  <2>6. ASSUME NEW n, Go(t, [thread[t] EXCEPT !.pc = "unlink", !.succ = n]) PROVE ~Inside(t)'
    BY <2>6, <1>a, <1>p DEF Go, Set, TypeOK, Locals
  <2> QED BY <1>12, <2>1, <2>2, <2>3, <2>4, <2>5, <2>6 DEF Find, Compare, Skip, After
<1>13. ASSUME Start(t) PROVE UNCHANGED mutex /\ (Inside(t)' => Inside(t))
  BY <1>13, <1>a DEF Start, Go, At, Memory, Inside, Fn, Set, TypeOK, Locals
<1>14. ASSUME Send(t) PROVE UNCHANGED mutex /\ (Inside(t)' => Inside(t))
  <2>1. thread'[t].fn = thread[t].fn /\ UNCHANGED mutex /\ thread[t].pc = "send"
    BY <1>a, <1>14 DEF Send, Go, Set, TypeOK, Locals, At, Memory
  <2> QED BY <2>1 DEF Inside, Fn
<1>15. ASSUME Done(t) PROVE UNCHANGED mutex /\ ~Inside(t)'
  BY <1>a, <1>15, <1>p DEF Done, Set, NoCall, TypeOK
<1> QED BY <1>1, <1>4, <1>5, <1>6, <1>7, <1>8, <1>9, <1>10, <1>11, <1>12, <1>13, <1>14, <1>15
        DEF Step, Access

\* The mutex invariant is inductive, whatever the list functions do.
LEMMA MutexStep == TypeInv /\ MutexInv /\ [Next]_vars => MutexInv'
<1> SUFFICES ASSUME TypeInv, MutexInv, [Next]_vars PROVE MutexInv'
  OBVIOUS
<1>1. ASSUME NEW t \in Threads, Step(t) PROVE MutexInv'
  <2>a. locked \in BOOLEAN /\ stolen \in BOOLEAN
    BY DEF TypeInv, TypeOK
  <2>b. \A s \in Threads : s # t => (Inside(s)' <=> Inside(s))
    BY <1>1, StepTyped DEF Typed, Inside, Fn
  <2>1. CASE Lock(t)
    <3>1. ~locked /\ locked' = TRUE /\ stolen' = stolen
      BY <2>1 DEF Lock
    <3> QED BY <2>b, <3>1 DEF MutexInv, ListingsExclude
  <2>2. CASE Unlock(t)
    <3>1. locked' = FALSE /\ stolen' = (stolen \/ \E s \in Threads \ {t} : Inside(s)) /\ ~Inside(t)'
      BY <2>2 DEF Unlock, Return, Set, Inside, TypeInv, TypeOK
    <3> QED BY <2>a, <2>b, <3>1 DEF MutexInv, ListingsExclude
  <2>3. CASE UNCHANGED mutex /\ (Inside(t)' => Inside(t))
    BY <2>b, <2>3 DEF MutexInv, ListingsExclude, mutex
  <2> QED BY <1>1, <2>1, <2>2, <2>3, InsideMoves
<1>2. CASE UNCHANGED vars
  BY <1>2 DEF MutexInv, ListingsExclude, Inside, Fn, vars, mutex
<1> QED BY <1>1, <1>2 DEF Next, Step

\* Two listings are inside at once only after a broadcast has unlocked the mutex under
\* one of them, for any number of threads and whatever the list functions do meanwhile
\* (get_active_users, get_room_users; send_message's unlock, server_clients.c:773).
THEOREM ListingsCorrect == Spec => []ListingsExclude
<1>1. Init => MutexInv
  <2> SUFFICES ASSUME Init PROVE \A t \in Threads : ~Inside(t)
    BY DEF MutexInv, ListingsExclude
  <2> QED BY DEF Init, NoCall, Inside, Fn
<1>2. Spec => [](TypeInv /\ MutexInv)
  BY <1>1, TypeInit, TypeStep, MutexStep, PTL DEF Spec
<1>3. MutexInv => ListingsExclude
  BY DEF MutexInv
<1> QED BY <1>2, <1>3, PTL

-----------------------------------------------------------------------------
(* Which nodes a list has. *)

Pointers == [Nodes -> Nodes \cup {NULL}]

\* f is Reach for the next pointers nx.
IsReach(f, nx) == f = [n \in Nodes |-> {n} \cup IF nx[n] = NULL THEN {} ELSE f[nx[n]]]

\* L is what one comes to from h by the pointers nx.
Linked(L, h, nx) ==
    /\ L \subseteq Nodes
    /\ IF h = NULL THEN L = {} ELSE h \in L
    /\ \A n \in L : nx[n] # NULL => nx[n] \in L
    /\ \A n \in L : n # h => \E p \in L : nx[p] = n

\* The recursive definition of Reach has a solution: the least sets that are closed.
LEMMA ReachExists ==
    ASSUME NEW nx \in Pointers
    PROVE  \E f : IsReach(f, nx)
<1> DEFINE Shut(S) == \A m \in S : nx[m] # NULL => nx[m] \in S
           from(n) == {m \in Nodes : \A S \in SUBSET Nodes : n \in S /\ Shut(S) => m \in S}
           f == [n \in Nodes |-> from(n)]
<1>1. ASSUME NEW n \in Nodes
      PROVE  from(n) = {n} \cup IF nx[n] = NULL THEN {} ELSE from(nx[n])
  <2> DEFINE T == {n} \cup IF nx[n] = NULL THEN {} ELSE from(nx[n])
  <2>1. nx[n] # NULL => nx[n] \in Nodes /\ nx[n] \in from(nx[n])
    BY DEF Pointers
  <2>2. T \in SUBSET Nodes /\ n \in T
    OBVIOUS
  <2>3. ASSUME NEW q \in Nodes, NEW m \in from(q), nx[m] # NULL PROVE nx[m] \in from(q)
    <3>1. nx[m] \in Nodes
      BY <2>3 DEF Pointers
    <3>2. ASSUME NEW S \in SUBSET Nodes, q \in S, Shut(S) PROVE nx[m] \in S
      <4>1. m \in S
        BY <3>2
      <4> QED BY <2>3, <3>2, <4>1
    <3> QED BY <3>1, <3>2
  <2>4. Shut(T)
    BY <2>1, <2>3
  <2>5. from(n) \subseteq T
    BY <2>2, <2>4
  <2>6. ASSUME nx[n] # NULL PROVE from(nx[n]) \subseteq from(n)
    <3>1. ASSUME NEW m \in from(nx[n]), NEW S \in SUBSET Nodes, n \in S, Shut(S) PROVE m \in S
      <4>1. nx[n] \in S
        BY <2>6, <3>1
      <4> QED BY <3>1, <4>1
    <3> QED BY <3>1
  <2>7. n \in from(n)
    OBVIOUS
  <2>8. T \subseteq from(n)
    BY <2>6, <2>7
  <2> QED BY <2>5, <2>8
<1>2. \A n \in Nodes : nx[n] # NULL => nx[n] \in Nodes
  BY DEF Pointers
<1> HIDE DEF from
<1>3. f = [n \in Nodes |-> {n} \cup IF nx[n] = NULL THEN {} ELSE f[nx[n]]]
  BY <1>1, <1>2
<1> QED BY <1>3 DEF IsReach

\* Pointers that lead forward make what one comes to from a node a list.
LEMMA ReachLinked ==
    ASSUME NEW nx \in Pointers, Forward(nx), NEW f, IsReach(f, nx), NEW h \in Nodes
    PROVE  Linked(f[h], h, nx)
<1> DEFINE Bad == {n \in Nodes : ~ Linked(f[n], n, nx)}
<1>1. SUFFICES ASSUME Bad # {} PROVE FALSE
  OBVIOUS
<1>2. PICK n \in Bad : \A m \in Bad : m <= n
  <2>1. Bad \subseteq Nodes
    OBVIOUS
  <2> HIDE DEF Bad
  <2> QED BY <1>1, <2>1, Greatest
<1>3. f[n] = {n} \cup IF nx[n] = NULL THEN {} ELSE f[nx[n]]
  BY DEF IsReach
<1>4. CASE nx[n] = NULL
  BY <1>3, <1>4, Constants DEF Linked
<1>5. CASE nx[n] # NULL
  <2>1. nx[n] \in Nodes /\ nx[n] > n
    BY <1>5 DEF Pointers, Forward
  <2>2. Linked(f[nx[n]], nx[n], nx)
    <3>1. n \in Nat /\ nx[n] \in Nat /\ nx[n] \in Nodes
      BY <2>1, Constants
    <3>2. ~ (nx[n] <= n)
      BY <2>1, <3>1
    <3> QED BY <1>2, <3>1, <3>2
  <2> QED BY <1>3, <1>5, <2>1, <2>2, Constants DEF Linked
<1> QED BY <1>4, <1>5

\* There is one list only that begins at a node.
LEMMA LinkedOnce ==
    ASSUME NEW nx \in Pointers, Forward(nx), NEW h \in Nodes \cup {NULL},
           NEW L, NEW M, Linked(L, h, nx), Linked(M, h, nx)
    PROVE  L = M
<1>1. ASSUME NEW A, NEW B, Linked(A, h, nx), Linked(B, h, nx) PROVE A \subseteq B
  <2>1. SUFFICES ASSUME A \ B # {} PROVE FALSE
    OBVIOUS
  <2>2. A \subseteq Nodes /\ A \ B \subseteq Nat
    BY <1>1, Constants DEF Linked
  <2>3. PICK m \in A \ B : \A n \in A \ B : m <= n
    BY <2>1, <2>2, Least
  <2>4. m # h
    BY <1>1, <2>3 DEF Linked
  <2>5. PICK p \in A : nx[p] = m
    BY <1>1, <2>4 DEF Linked
  <2>6. p < m
    BY <2>2, <2>5, Constants DEF Forward
  <2>7. p \in B
    BY <2>2, <2>3, <2>5, <2>6, Constants
  <2> QED BY <1>1, <2>2, <2>3, <2>5, <2>7, Constants DEF Linked
<1> QED BY <1>1

\* Its nodes come in their order, and no node is skipped.
LEMMA LinkedOrder ==
    ASSUME NEW nx \in Pointers, Forward(nx), NEW h \in Nodes \cup {NULL}, NEW L, Linked(L, h, nx)
    PROVE  /\ \A m \in L : h # NULL /\ h <= m
           /\ \A p, m \in L : p < m => nx[p] # NULL /\ nx[p] <= m
<1>a. L \subseteq Nodes /\ L \subseteq Nat /\ \A n \in L : nx[n] \in Nodes \cup {NULL}
  BY Constants DEF Linked, Pointers
<1>1. \A m \in L : h # NULL /\ h \in L /\ h <= m
  <2> DEFINE Bad == {m \in L : ~ (h <= m)}
  <2>1. (h # NULL /\ h \in L) \/ L = {}
    BY DEF Linked
  <2>2. SUFFICES ASSUME Bad # {} PROVE FALSE
    BY <2>1
  <2>3. PICK m \in Bad : \A n \in Bad : m <= n
    <3>1. Bad \subseteq Nat
      BY <1>a
    <3> HIDE DEF Bad
    <3> QED BY <2>2, <3>1, Least
  <2>4. h \in Nat /\ m # h
    BY <1>a, <2>1
  <2>5. PICK p \in L : nx[p] = m
    BY <2>4 DEF Linked
  <2>6. p < m
    BY <1>a, <2>5, Constants DEF Forward
  <2> QED BY <1>a, <2>3, <2>4, <2>6
<1>2. \A p, m \in L : p < m => nx[p] # NULL /\ nx[p] <= m
  <2> DEFINE Bad == {m \in L : \E p \in L : p < m /\ ~ (nx[p] # NULL /\ nx[p] <= m)}
  <2>1. SUFFICES ASSUME Bad # {} PROVE FALSE
    OBVIOUS
  <2>2. PICK m \in Bad : \A n \in Bad : m <= n
    <3>1. Bad \subseteq Nat
      BY <1>a
    <3> HIDE DEF Bad
    <3> QED BY <2>1, <3>1, Least
  <2>3. PICK p \in L : p < m /\ ~ (nx[p] # NULL /\ nx[p] <= m)
    OBVIOUS
  <2>4. m # h
    BY <1>1, <1>a, <2>3
  <2>5. PICK q \in L : nx[q] = m
    BY <2>4 DEF Linked
  <2>6. q < m
    BY <1>a, <2>5, Constants DEF Forward
  <2>7. CASE q = p
    BY <1>a, <2>3, <2>5, <2>7, Constants
  <2>8. CASE p < q
    <3>1. q \notin Bad
      BY <1>a, <2>2, <2>6
    <3>2. nx[p] # NULL /\ nx[p] <= q
      BY <2>8, <3>1
    <3>3. nx[p] \in Nat /\ q \in Nat /\ m \in Nat
      BY <1>a, <3>2, Constants
    <3> QED BY <2>3, <2>6, <3>2, <3>3
  <2>9. CASE q < p
    <3>1. p \notin Bad
      BY <1>a, <2>2, <2>3
    <3> QED BY <1>a, <2>3, <2>5, <2>9, <3>1, Constants
  <2> QED BY <1>a, <2>7, <2>8, <2>9
<1> QED BY <1>1, <1>2

\* The model's list is the one that begins at head, now
LEMMA ListIsLinked ==
    ASSUME head \in Nodes \cup {NULL}, next \in Pointers, Forward(next)
    PROVE  Linked(InList, head, next)
<1>1. \E f : IsReach(f, next)
  BY ReachExists
<1>2. IsReach(Reach, next)
  BY <1>1 DEF IsReach, Reach
<1>3. CASE head = NULL
  BY <1>3 DEF InList, Linked
<1>4. CASE head # NULL
  <2>1. Linked(Reach[head], head, next)
    BY <1>2, <1>4, ReachLinked
  <2>2. InList = Reach[head]
    BY <1>4, <2>1 DEF InList, Linked
  <2> QED BY <2>1, <2>2
<1> QED BY <1>3, <1>4

\* ... and after a step:
LEMMA NextListIsLinked ==
    ASSUME head' \in Nodes \cup {NULL}, next' \in Pointers, Forward(next')
    PROVE  Linked(InList', head', next')
<1>1. \E f : IsReach(f, next')
  BY ReachExists
<1>2. IsReach(Reach', next')
  BY <1>1 DEF IsReach, Reach
<1>3. CASE head' = NULL
  BY <1>3 DEF InList, Linked
<1>4. CASE head' # NULL
  <2>1. Linked(Reach'[head'], head', next')
    BY <1>2, <1>4, ReachLinked
  <2>2. InList' = Reach'[head']
    BY <1>4, <2>1 DEF InList, Linked
  <2> QED BY <2>1, <2>2
<1> QED BY <1>3, <1>4

-----------------------------------------------------------------------------
(* One change at a time: how a step changes the list. *)

\* The new node of t becomes the last one.
Adds(t) ==
    LET n == thread[t].node IN
    /\ n \in Nodes \ InList /\ next[n] = NULL /\ data[n] # NULL
    /\ InList' = InList \cup {n} /\ \A m \in InList : m < n
    /\ \/ head = NULL /\ head' = n /\ next' = next
       \/ \E c \in InList : next[c] = NULL /\ next' = [next EXCEPT ![c] = n] /\ head' = head

\* The node t has found leaves the list, and its own pointer stays as it is.
Removes(t) ==
    LET n == thread[t].node IN
    /\ n \in InList /\ InList' = InList \ {n}
    /\ \/ head = n /\ head' = next[n] /\ next' = next
       \/ \E c \in InList : next[c] = n /\ next' = [next EXCEPT ![c] = next[n]] /\ head' = head

\* The list, as the proofs below use it.
LEMMA ListFacts ==
    ASSUME TypeInv, ListInv
    PROVE  /\ Linked(InList, head, next)
           /\ InList \subseteq Nodes
           /\ \A m \in InList : head # NULL /\ head \in InList /\ head <= m
           /\ \A n \in InList : next[n] # NULL => next[n] \in InList /\ n < next[n]
           /\ \A p, m \in InList : p < m => next[p] # NULL /\ next[p] <= m
<1>1. head \in Nodes \cup {NULL} /\ next \in Pointers /\ Forward(next)
  BY DEF TypeInv, TypeOK, ListInv, Pointers
<1>2. Linked(InList, head, next)
  BY <1>1, ListIsLinked
<1>3. /\ \A m \in InList : head # NULL /\ head <= m
      /\ \A p, m \in InList : p < m => next[p] # NULL /\ next[p] <= m
  BY <1>1, <1>2, LinkedOrder
<1>4. InList \subseteq Nodes /\ (head # NULL => head \in InList)
  BY <1>2 DEF Linked
<1>5. \A n \in InList : next[n] # NULL => next[n] \in InList /\ n < next[n]
  BY <1>1, <1>2, <1>4, NodeFacts DEF Linked, Forward, Pointers
<1> QED BY <1>2, <1>3, <1>4, <1>5

\* To know the list after a step it is enough to show some list that begins at head.
LEMMA ListAfter ==
    ASSUME head' \in Nodes \cup {NULL}, next' \in Pointers, Forward(next'), NEW L, Linked(L, head', next')
    PROVE  InList' = L
BY NextListIsLinked, LinkedOnce

\* insertNode and insertUser into an empty list.
LEMMA FirstAdds ==
    ASSUME TypeInv, ListInv, NEW t \in Threads, InsertFirst(t)
    PROVE  Forward(next)' /\ Adds(t)
<1> DEFINE n == thread[t].node
<1>a. TypeOK /\ LocalOK(thread[t]) /\ thread[t] \in Locals
  BY DEF TypeInv, TypeOK
<1>1. Active(t) /\ thread[t].fn \in Inserts /\ thread[t].pc = "first" /\ n \in Nodes
  BY <1>a DEF InsertFirst, At, LocalOK, Active, Fn, Mutations
<1>2. head = NULL /\ n \notin InList /\ next[n] = NULL /\ data[n] # NULL
  BY <1>1 DEF ListInv, AdderOK
<1>3. head' = n /\ next' = next
  BY DEF InsertFirst
<1>4. InList = {}
  BY <1>2 DEF InList
<1>5. Forward(next)' /\ next' \in Pointers
  BY <1>3, <1>a DEF ListInv, Forward, TypeOK, Pointers
<1>6. Linked({n}, head', next')
  BY <1>1, <1>2, <1>3, NodeFacts DEF Linked
<1>7. InList' = {n}
  BY <1>1, <1>3, <1>5, <1>6, ListAfter
<1> QED BY <1>1, <1>2, <1>3, <1>4, <1>5, <1>7 DEF Adds

\* insertNode and insertUser behind the last node.
LEMMA LastAdds ==
    ASSUME TypeInv, ListInv, NEW t \in Threads, InsertLast(t)
    PROVE  Forward(next)' /\ Adds(t)
<1> DEFINE n == thread[t].node
           c == thread[t].cur
<1>a. TypeOK /\ LocalOK(thread[t]) /\ thread[t] \in Locals
  BY DEF TypeInv, TypeOK
<1>1. Active(t) /\ thread[t].fn \in Inserts /\ thread[t].pc = "link" /\ n \in Nodes
  BY <1>a DEF InsertLast, At, LocalOK, Active, Fn, Mutations
<1>2. n \notin InList /\ next[n] = NULL /\ data[n] # NULL /\ c \in InList /\ next[c] = NULL
      /\ \A m \in Nodes : data[m] # NULL => m <= n
  BY <1>1 DEF ListInv, AdderOK
<1>3. head' = head /\ next' = [next EXCEPT ![c] = n]
  BY DEF InsertLast, Cur
<1>4. InList \subseteq Nodes /\ \A m \in InList : m < n
  <2>1. InList \subseteq Nodes /\ \A m \in InList : data[m] # NULL
    BY ListFacts DEF ListInv, Allocated
  <2>2. ASSUME NEW m \in InList PROVE m < n
    <3>1. m <= n /\ m # n /\ m \in Nodes
      BY <1>2, <2>1
    <3> QED BY <1>1, <3>1, NodeFacts
  <2> QED BY <2>1, <2>2
<1>5. Forward(next)' /\ next' \in Pointers
  BY <1>1, <1>2, <1>3, <1>4, <1>a, NodeFacts DEF ListInv, Forward, TypeOK, Pointers
<1>6. Linked(InList \cup {n}, head', next')
  <2>1. Linked(InList, head, next) /\ head \in InList
    BY <1>2, ListFacts
  <2>2. /\ next'[n] = NULL /\ next'[c] = n
        /\ \A m \in InList : m # c => next'[m] = next[m]
    BY <1>1, <1>2, <1>3, <1>4, <1>a DEF TypeOK
  <2>3. \A m \in InList \cup {n} : next'[m] # NULL => next'[m] \in InList \cup {n}
    BY <2>1, <2>2 DEF Linked
  <2>4. \A m \in InList \cup {n} : m # head => \E p \in InList \cup {n} : next'[p] = m
    <3>1. ASSUME NEW m \in InList, m # head PROVE \E p \in InList \cup {n} : next'[p] = m
      <4>1. PICK p \in InList : next[p] = m
        BY <2>1, <3>1 DEF Linked
      <4>2. p # c
        BY <1>2, <1>4, <4>1, NodeFacts
      <4> QED BY <2>2, <4>1, <4>2
    <3> QED BY <1>2, <2>2, <3>1
  <2>5. head # NULL
    BY <1>2, ListFacts
  <2> QED BY <1>1, <1>3, <1>4, <2>1, <2>3, <2>4, <2>5 DEF Linked
<1>7. InList' = InList \cup {n}
  BY <1>a, <1>3, <1>5, <1>6, ListAfter DEF TypeOK
<1> QED BY <1>1, <1>2, <1>3, <1>4, <1>5, <1>7 DEF Adds

\* removeNode's write.
LEMMA UnlinkRemoves ==
    ASSUME TypeInv, ListInv, NEW t \in Threads, Unlink(t)
    PROVE  Forward(next)' /\ Removes(t)
<1> DEFINE n == thread[t].node
           c == thread[t].cur
<1>a. TypeOK /\ LocalOK(thread[t]) /\ thread[t] \in Locals
  BY DEF TypeInv, TypeOK
<1>b. Linked(InList, head, next) /\ InList \subseteq Nodes
  BY ListFacts
<1>1. Active(t) /\ thread[t].fn = "removeUser" /\ thread[t].pc = "unlink"
  BY <1>a DEF Unlink, At, LocalOK, Active, Fn, Mutations
<1>2. /\ n \in InList /\ thread[t].succ = next[n]
      /\ (c = n /\ head = n) \/ (c \in InList /\ next[c] = n)
  <2>1. RemoverOK(t)
    BY DEF ListInv
  <2> QED BY <1>1, <2>1 DEF RemoverOK, Removing
<1>3. next[n] # NULL => next[n] \in InList /\ n < next[n]
  BY <1>2, ListFacts
<1>4. CASE c = n
  <2>1. head = n /\ head' = next[n] /\ next' = next
    <3>1. head = n
      <4>1. ASSUME next[c] = n PROVE FALSE
        BY <1>2, <1>3, <1>4, <1>b, <4>1, NodeFacts
      <4> QED BY <1>2, <4>1
    <3> QED BY <1>2, <1>4, <3>1 DEF Unlink, Cur
  <2>2. Forward(next)' /\ next' \in Pointers /\ head' \in Nodes \cup {NULL}
    BY <2>1, <1>2, <1>a, <1>b DEF ListInv, Forward, TypeOK, Pointers
  <2>3. Linked(InList \ {n}, head', next')
    <3>1. next[n] = NULL => InList \ {n} = {}
      <4>1. \A m \in InList : n <= m
        BY <2>1, ListFacts
      <4>2. \A m \in InList \ {n} : n < m
        BY <1>2, <1>b, <4>1, NodeFacts
      <4> QED BY <1>2, <4>2, ListFacts
    <3>2. next[n] # NULL => next[n] \in InList \ {n}
      BY <1>2, <1>3, <1>b, NodeFacts
    <3>3. \A m \in InList : next[m] # n
      <4>1. \A m \in InList : n <= m /\ (next[m] # NULL => m < next[m])
        BY <2>1, ListFacts
      <4> QED BY <1>2, <1>b, <4>1, NodeFacts
    <3>4. ASSUME NEW m \in InList \ {n}, m # next[n] PROVE \E p \in InList \ {n} : next[p] = m
      BY <1>b, <2>1, <3>4 DEF Linked
    <3> QED BY <1>b, <2>1, <3>1, <3>2, <3>3, <3>4 DEF Linked
  <2>4. InList' = InList \ {n}
    BY <2>2, <2>3, ListAfter
  <2> QED BY <1>2, <2>1, <2>2, <2>4 DEF Removes
<1>5. CASE c # n
  <2>1. /\ c \in InList /\ next[c] = n /\ c < n
        /\ head' = head /\ next' = [next EXCEPT ![c] = next[n]]
    <3>1. c \in InList /\ next[c] = n
      BY <1>2, <1>5
    <3>2. c < n
      BY <1>2, <1>b, <3>1, NodeFacts, ListFacts
    <3> QED BY <1>2, <1>5, <3>1, <3>2 DEF Unlink, Cur
  <2>2. head # n /\ head # NULL /\ head \in InList
    <3>1. head <= c /\ head # NULL /\ head \in InList
      BY <2>1, ListFacts
    <3> QED BY <1>2, <1>b, <2>1, <3>1, NodeFacts
  <2>3. /\ next'[c] = next[n]
        /\ \A m \in Nodes : m # c => next'[m] = next[m]
    BY <1>a, <1>b, <2>1 DEF TypeOK
  <2>4. Forward(next)' /\ next' \in Pointers /\ head' \in Nodes \cup {NULL}
    <3>1. next' \in Pointers /\ head' \in Nodes \cup {NULL}
      BY <1>2, <1>a, <1>b, <2>1 DEF TypeOK, Pointers
    <3>2. next[n] # NULL => next[n] > c
      BY <1>2, <1>3, <1>b, <2>1, NodeFacts
    <3> QED BY <2>3, <3>1, <3>2 DEF ListInv, Forward
  <2>5. \A m \in InList : m # c => next[m] # n
    <3>1. SUFFICES ASSUME NEW m \in InList, m # c, next[m] = n PROVE FALSE
      OBVIOUS
    <3>2. m < n
      BY <1>2, <1>b, <3>1, NodeFacts, ListFacts
    <3>3. CASE m < c
      <4>1. next[m] <= c
        BY <2>1, <3>3, ListFacts
      <4> QED BY <1>2, <1>b, <2>1, <3>1, <4>1, NodeFacts
    <3>4. CASE c < m
      <4>1. next[c] <= m
        BY <2>1, <3>4, ListFacts
      <4> QED BY <1>2, <1>b, <2>1, <3>2, <4>1, NodeFacts
    <3> QED BY <1>b, <2>1, <3>1, <3>3, <3>4, NodeFacts
  <2>6. Linked(InList \ {n}, head', next')
    <3>1. \A m \in InList \ {n} : next'[m] # NULL => next'[m] \in InList \ {n}
      <4>1. ASSUME NEW m \in InList \ {n}, m # c, next'[m] # NULL PROVE next'[m] \in InList \ {n}
        <5>1. next'[m] = next[m] /\ next[m] # n
          BY <1>b, <2>3, <2>5, <4>1
        <5> QED BY <1>b, <4>1, <5>1 DEF Linked
      <4>2. next[n] # NULL => next[n] \in InList \ {n}
        BY <1>2, <1>3, <1>b, NodeFacts
      <4> QED BY <2>3, <4>1, <4>2
    <3>2. ASSUME NEW m \in InList \ {n}, m # head PROVE \E p \in InList \ {n} : next'[p] = m
      <4>1. PICK p \in InList : next[p] = m
        BY <1>b, <3>2 DEF Linked
      <4>2. p # c
        BY <2>1, <3>2, <4>1
      <4>3. CASE p = n
        BY <2>1, <2>3, <4>1, <4>3
      <4>4. CASE p # n
        BY <1>b, <2>3, <4>1, <4>2, <4>4
      <4> QED BY <4>3, <4>4
    <3> QED BY <1>b, <2>1, <2>2, <3>1, <3>2 DEF Linked
  <2>7. InList' = InList \ {n}
    BY <2>4, <2>6, ListAfter
  <2> QED BY <1>2, <2>1, <2>4, <2>7 DEF Removes
<1> QED BY <1>4, <1>5

\* The list is a function of its pointers.
LEMMA LinksStill ==
    ASSUME TypeInv, ListInv, UNCHANGED links
    PROVE  Forward(next)' /\ InList' = InList
<1>1. UNCHANGED <<head, next>>
  BY DEF links
<1>2. Forward(next)' /\ head' \in Nodes \cup {NULL} /\ next' \in Pointers /\ Linked(InList, head', next')
  BY <1>1, ListFacts DEF ListInv, Forward, TypeInv, TypeOK, Pointers
<1> QED BY <1>2, ListAfter

\* Every step leaves the list alone, or links the node of a thread that adds, or unlinks
\* the node of one that removes.
LEMMA LinksMove ==
    ASSUME TypeInv, ListInv, NEW t \in Threads, Step(t)
    PROVE  /\ Forward(next)'
           /\ \/ UNCHANGED links /\ InList' = InList
              \/ (InsertFirst(t) \/ InsertLast(t)) /\ Adds(t)
              \/ Unlink(t) /\ Removes(t)
<1>a. TypeOK /\ LocalOK(thread[t])
  BY DEF TypeInv, TypeOK
<1>1. ASSUME UNCHANGED links PROVE Forward(next)' /\ InList' = InList
  BY <1>1, LinksStill
<1>2. CASE InsertClear(t)
  <2>1. Active(t) /\ Fn(t) \in Inserts /\ thread[t].pc = "clear"
    BY <1>a, <1>2 DEF InsertClear, At, LocalOK, Active, Fn, Inserts, Mutations
  <2>2. next[thread[t].node] = NULL
    BY <2>1 DEF ListInv, AdderOK, Fn
  <2>3. UNCHANGED links
    BY <1>2, <1>a, <2>2 DEF InsertClear, TypeOK, links
  <2> QED BY <1>1, <2>3
<1>3. ASSUME NEW f, NEW u, Call(t, f, u) PROVE UNCHANGED links
  BY <1>3 DEF Call
<1>4. ASSUME \/ Temp(t) \/ Empty(t) \/ Check(t) \/ Advance(t)
             \/ IsNull(t) \/ Head_(t) \/ Find(t) \/ Compare(t) \/ Skip(t) \/ After(t)
             \/ Start(t) \/ Send(t)
      PROVE  UNCHANGED links
  <2>1. UNCHANGED Memory
    BY <1>4 DEF Temp, Empty, Check, Advance, IsNull, Head_, Find, Compare, Skip, After, Start, Send
  <2> QED BY <2>1 DEF Memory
<1>5. ASSUME Lock(t) \/ Unlock(t) \/ Done(t) PROVE UNCHANGED links
  BY <1>5 DEF Lock, Unlock, Done
<1> QED BY <1>1, <1>2, <1>3, <1>4, <1>5, FirstAdds, LastAdds, UnlinkRemoves DEF Step, Access

\* Outside a call's beginning, a thread keeps its function and its argument until it is done.
LEMMA AccessKeeps ==
    ASSUME TypeInv, NEW t \in Threads, Access(t)
    PROVE  /\ thread[t].pc \notin {"idle", "hung"} /\ data' = data
           /\ \/ thread'[t] = NoCall
              \/ thread'[t].fn = thread[t].fn /\ thread'[t].user = thread[t].user
<1>a. TypeOK /\ thread[t] \in Locals
  BY DEF TypeInv, TypeOK
<1> DEFINE Kept == thread'[t].fn = thread[t].fn /\ thread'[t].user = thread[t].user
<1>1. ASSUME Return(t, TRUE) PROVE Kept
  BY <1>1, <1>a DEF Return, Set, TypeOK, Locals
<1>2. ASSUME InsertFirst(t) \/ InsertClear(t) \/ Unlink(t) \/ Unlock(t) PROVE data' = data /\ Kept
  BY <1>1, <1>2 DEF InsertFirst, InsertClear, Unlink, Unlock
<1>10. ASSUME Temp(t) \/ Start(t) PROVE data' = data /\ Kept
  BY <1>10, <1>a DEF Temp, Start, Set, Go, Memory, TypeOK, Locals
<1>11. ASSUME Lock(t) PROVE data' = data /\ Kept
  BY <1>11, <1>a DEF Lock, Set, TypeOK, Locals
<1>12. ASSUME Send(t) PROVE data' = data /\ Kept
  BY <1>12, <1>a DEF Send, Set, Go, Memory, TypeOK, Locals
<1>13. ASSUME Compare(t) PROVE data' = data /\ Kept
  BY <1>13, <1>a DEF Compare, Set, Go, Memory, TypeOK, Locals
<1>14. ASSUME IsNull(t) PROVE data' = data /\ Kept
  <2>1. ASSUME NEW q, Go(t, [thread[t] EXCEPT !.pc = q]) PROVE Kept
    BY <1>a, <2>1 DEF Go, Set, TypeOK, Locals
  <2>2. ASSUME Go(t, [thread[t] EXCEPT !.pc = "return", !.out = TRUE]) PROVE Kept
    BY <1>1, <2>2 DEF Go, Return
  <2> QED BY <1>14, <2>1, <2>2 DEF IsNull, Memory
<1>15. ASSUME Head_(t) PROVE data' = data /\ Kept
  BY <1>15, <1>a DEF Head_, Set, Go, Crash, Memory, TypeOK, Locals
<1>16. ASSUME Find(t) PROVE data' = data /\ Kept
  BY <1>16, <1>a DEF Find, Set, Go, Memory, TypeOK, Locals
<1>17. ASSUME Skip(t) PROVE data' = data /\ Kept
  BY <1>17, <1>a DEF Skip, Set, Go, Crash, Memory, TypeOK, Locals
<1>3. ASSUME After(t) PROVE data' = data /\ Kept
  BY <1>3, <1>a DEF After, Set, Go, Crash, Memory, TypeOK, Locals
<1>4. ASSUME InsertLast(t) PROVE data' = data /\ Kept
  BY <1>4, <1>a DEF InsertLast, Return, Set, TypeOK, Locals
<1>5. ASSUME WalkEnds(t) PROVE Kept
  BY <1>5, <1>a DEF WalkEnds, Go, Set, TypeOK, Locals
<1>6. ASSUME NEW n, Visit(t, n) PROVE Kept
  <2>1. CASE Go(t, [thread[t] EXCEPT !.pc = "check", !.cur = n])
    BY <2>1, <1>a DEF Go, Set, TypeOK, Locals
  <2>2. CASE Go(t, [thread[t] EXCEPT !.pc = "isnull", !.cur = NULL, !.node = n])
    BY <1>a, <2>2 DEF Go, Set, TypeOK, Locals
  <2>3. CASE Go(t, [thread[t] EXCEPT !.pc = "return", !.cur = n, !.out = Fn(t) = "get_user"])
    BY <1>a, <2>3 DEF Go, Set, TypeOK, Locals
  <2>4. CASE Crash
    BY <2>4 DEF Crash
  <2> QED BY <1>6, <2>1, <2>2, <2>3, <2>4 DEF Visit
<1>7. ASSUME Empty(t) \/ Check(t) \/ Advance(t) PROVE data' = data /\ Kept
  <2>1. UNCHANGED Memory
    BY <1>7 DEF Empty, Check, Advance
  <2>2. ASSUME NEW p, Go(t, [thread[t] EXCEPT !.pc = p]) PROVE Kept
    BY <1>a, <2>2 DEF Go, Set, TypeOK, Locals
  <2> QED BY <1>5, <1>6, <1>7, <2>1, <2>2 DEF Empty, Check, Advance, Memory
<1>8. ASSUME Done(t) PROVE data' = data /\ thread'[t] = NoCall
  BY <1>a, <1>8 DEF Done, Set, TypeOK
<1>9. thread[t].pc \notin {"idle", "hung"}
  BY DEF Access, Temp, Empty, Check, Advance, InsertFirst, InsertLast, InsertClear, IsNull, Head_, Find,
         Compare, Skip, After, Unlink, Lock, Start, Send, Unlock, Done, At
<1> QED
  BY <1>2, <1>3, <1>4, <1>7, <1>8, <1>9, <1>10, <1>11, <1>12, <1>13, <1>14, <1>15, <1>16, <1>17 DEF Access

\* What a call does: an insert takes the first node that is free.
LEMMA CallBegins ==
    ASSUME TypeInv, NEW t \in Threads, NEW f \in Functions,
           NEW u \in IF f \in {"listing", "send_message"} THEN {NULL} ELSE Users, Call(t, f, u)
    PROVE  /\ thread[t] = NoCall /\ UNCHANGED <<links, fault>>
           /\ thread'[t].fn = f /\ thread'[t].user = u
           /\ thread'[t].pc = IF f = "listing" THEN "isnull" ELSE IF locked THEN "hung" ELSE "temp"
           /\ f \notin Inserts => data' = data /\ thread'[t].node = NULL
           /\ f \in Inserts => LET n == thread'[t].node IN
                  /\ n \in Nodes /\ data[n] = NULL /\ u # NULL /\ data' = [data EXCEPT ![n] = u]
                  /\ \A m \in Nodes : m < n => data[m] # NULL
<1>a. TypeOK /\ LocalOK(thread[t])
  BY DEF TypeInv, TypeOK
<1>1. thread[t] = NoCall /\ UNCHANGED <<links, fault>>
  BY <1>a DEF Call, At, LocalOK
<1> DEFINE free == {m \in Nodes : data[m] = NULL}
<1>2. f \in Inserts => Min(free) \in free /\ \A m \in free : Min(free) <= m
  <2>1. free \subseteq Nat
    BY NodeFacts
  <2>2. f \in Inserts => free # {}
    BY DEF Call, MayCall
  <2> HIDE DEF free
  <2> QED BY <2>1, <2>2, MinIsLeast
<1>3. PICK n \in Nodes \cup {NULL} :
           /\ IF f \in Inserts THEN n = Min(free) /\ data' = [data EXCEPT ![n] = u]
              ELSE n = NULL /\ UNCHANGED data
           /\ Set(t, [NoCall EXCEPT !.fn = f, !.user = u, !.node = n,
                         !.pc = IF f = "listing" THEN "isnull" ELSE IF locked THEN "hung" ELSE "temp"])
  BY DEF Call
<1>4. /\ thread'[t].fn = f /\ thread'[t].user = u /\ thread'[t].node = n
      /\ thread'[t].pc = IF f = "listing" THEN "isnull" ELSE IF locked THEN "hung" ELSE "temp"
  BY <1>a, <1>3 DEF Set, TypeOK, NoCall
<1>5. ASSUME f \in Inserts
      PROVE  /\ n \in Nodes /\ data[n] = NULL /\ u # NULL /\ data' = [data EXCEPT ![n] = u]
             /\ \A m \in Nodes : m < n => data[m] # NULL
  <2>1. n \in free /\ data' = [data EXCEPT ![n] = u]
    BY <1>2, <1>3, <1>5
  <2>2. u # NULL
    BY <1>5, Constants DEF Inserts
  <2>3. ASSUME NEW m \in Nodes, m < n, data[m] = NULL PROVE FALSE
    <3>1. n <= m
      BY <1>2, <1>3, <1>5, <2>3
    <3> QED BY <2>1, <2>3, <3>1, NodeFacts
  <2> QED BY <2>1, <2>2, <2>3
<1> QED BY <1>1, <1>3, <1>4, <1>5

\* Nodes are allocated in their order, and the list has allocated nodes only.
LEMMA AllocatedStep ==
    ASSUME TypeInv, ListInv, NEW t \in Threads, Step(t)
    PROVE  Allocated'
<1>a. /\ TypeOK
      /\ \A m, n \in Nodes : m < n /\ data[n] # NULL => data[m] # NULL
      /\ \A n \in Nodes : data[n] = NULL => next[n] = NULL
      /\ \A n \in InList : data[n] # NULL
      /\ InList \subseteq Nodes
  BY ListFacts DEF TypeInv, ListInv, Allocated
<1>1. CASE UNCHANGED links /\ InList' = InList
  <2>n. next' = next
    BY <1>1 DEF links
  <2>1. CASE data' = data
    BY <1>1, <1>a, <2>1, <2>n DEF Allocated
  <2>2. ASSUME NEW k \in Nodes, NEW u \in Users, data' = [data EXCEPT ![k] = u],
               \A m \in Nodes : m < k => data[m] # NULL
        PROVE  Allocated'
    <3>1. /\ u # NULL /\ data'[k] = u
          /\ \A m \in Nodes : m # k => data'[m] = data[m]
      BY <1>a, <2>2, Constants DEF TypeOK
    <3>2. \A m, n \in Nodes : m < n /\ data'[n] # NULL => data'[m] # NULL
      BY <1>a, <2>2, <3>1
    <3>3. \A n \in Nodes : data'[n] = NULL => next'[n] = NULL
      BY <1>a, <2>n, <3>1
    <3>4. \A n \in InList' : data'[n] # NULL
      BY <1>1, <1>a, <3>1
    <3> QED BY <3>2, <3>3, <3>4 DEF Allocated
  <2>3. ASSUME NEW f \in Functions, NEW u \in IF f \in {"listing", "send_message"} THEN {NULL} ELSE Users,
               Call(t, f, u)
        PROVE  Allocated'
    <3>1. CASE f \in Inserts
      <4>1. u \in Users
        BY <3>1 DEF Inserts
      <4> QED BY <2>2, <2>3, <3>1, <4>1, CallBegins
    <3>2. CASE f \notin Inserts
      BY <2>1, <2>3, <3>2, CallBegins
    <3> QED BY <3>1, <3>2
  <2> QED BY <2>1, <2>3, AccessKeeps DEF Step
<1>2. CASE (InsertFirst(t) \/ InsertLast(t)) /\ Adds(t)
  <2>1. data' = data
    BY <1>2 DEF InsertFirst, InsertLast
  <2>2. \A n \in Nodes : data[n] = NULL => next'[n] = NULL
    <3>1. CASE next' = next
      BY <1>a, <3>1
    <3>2. ASSUME NEW c \in InList, next' = [next EXCEPT ![c] = thread[t].node] PROVE \A n \in Nodes : data[n] = NULL => next'[n] = NULL
      <4>1. \A n \in Nodes : n # c => next'[n] = next[n]
        BY <1>a, <3>2 DEF TypeOK
      <4> QED BY <1>a, <4>1
    <3> QED BY <1>2, <3>1, <3>2 DEF Adds
  <2>3. \A n \in InList' : data[n] # NULL
    BY <1>2, <1>a DEF Adds
  <2> QED BY <1>a, <2>1, <2>2, <2>3 DEF Allocated
<1>3. CASE Unlink(t) /\ Removes(t)
  <2>1. data' = data
    BY <1>3 DEF Unlink
  <2>2. \A n \in Nodes : data[n] = NULL => next'[n] = NULL
    <3>1. CASE next' = next
      BY <1>a, <3>1
    <3>2. ASSUME NEW c \in InList, NEW m, next' = [next EXCEPT ![c] = m] PROVE \A n \in Nodes : data[n] = NULL => next'[n] = NULL
      <4>1. \A n \in Nodes : n # c => next'[n] = next[n]
        BY <1>a, <3>2 DEF TypeOK
      <4> QED BY <1>a, <4>1
    <3> QED BY <1>3, <3>1, <3>2 DEF Removes
  <2>3. \A n \in InList' : data[n] # NULL
    BY <1>3, <1>a DEF Removes
  <2> QED BY <1>a, <2>1, <2>2, <2>3 DEF Allocated
<1> QED BY <1>1, <1>2, <1>3, LinksMove

\* A thread begins to change the list only when no other does.
LEMMA ActiveStep ==
    ASSUME TypeInv, ListInv, ~Overlap, NEW t \in Threads, Step(t)
    PROVE  /\ \A r, s \in Threads : Active(r)' /\ Active(s)' => r = s
           /\ \A s \in Threads : s # t /\ Active(s) => UNCHANGED <<links, data>> /\ InList' = InList
<1>1. \A s \in Threads : s # t => (Active(s)' <=> Active(s))
  BY StepTyped DEF Typed, Active, Fn
<1>2. ASSUME NEW f \in Functions, NEW u \in IF f \in {"listing", "send_message"} THEN {NULL} ELSE Users,
             Call(t, f, u)
      PROVE  /\ Active(t)' => \A s \in Threads : ~Active(s)
             /\ UNCHANGED links
             /\ (\E s \in Threads : Active(s)) => UNCHANGED data
  <2>1. f \in Mutations => \A s \in Threads : ~Active(s)
    BY <1>2 DEF Call, MayCall, Active
  <2>2. thread'[t].fn = f /\ UNCHANGED links /\ (f \notin Inserts => UNCHANGED data)
    BY <1>2, CallBegins
  <2>3. Active(t)' => f \in Mutations
    BY <2>2 DEF Active, Fn
  <2> QED BY <2>1, <2>2, <2>3 DEF Mutations
<1>3. ASSUME Access(t)
      PROVE  data' = data /\ (Active(t)' => Active(t))
  <2>1. /\ thread[t].pc \notin {"idle", "hung"} /\ data' = data
        /\ thread'[t] = NoCall \/ thread'[t].fn = thread[t].fn
    BY <1>3, AccessKeeps
  <2>2. thread'[t] = NoCall => ~Active(t)'
    BY Constants DEF NoCall, Active, Fn, Mutations, Inserts, Functions
  <2> QED BY <2>1, <2>2 DEF Active, Fn
<1>4. \A r, s \in Threads : Active(r) /\ Active(s) => r = s
  BY DEF ListInv
<1>5. ASSUME InsertFirst(t) \/ InsertLast(t) \/ Unlink(t) PROVE Active(t)
  <2>1. thread[t].pc \in {"first", "link", "unlink"} /\ LocalOK(thread[t])
    BY <1>5 DEF InsertFirst, InsertLast, Unlink, At, TypeInv
  <2> QED BY <2>1 DEF LocalOK, Active, Fn, Mutations
<1>6. ASSUME NEW s \in Threads, s # t, Active(s) PROVE UNCHANGED <<links, data>> /\ InList' = InList
  <2>1. ~Active(t)
    BY <1>4, <1>6
  <2>2. UNCHANGED links /\ InList' = InList
    BY <1>5, <2>1, LinksMove
  <2>3. UNCHANGED data
    BY <1>2, <1>3, <1>6 DEF Step
  <2> QED BY <2>2, <2>3
<1> QED BY <1>1, <1>2, <1>3, <1>4, <1>6 DEF Step

\* What its own step does for the thread that changes the list.
LEMMA OwnStep ==
    ASSUME TypeInv, ListInv, NEW t \in Threads, Access(t)
    PROVE  AdderOK(t)' /\ RemoverOK(t)'
<1> DEFINE c == thread[t]
<1>a. /\ TypeOK /\ LocalOK(c) /\ c \in Locals
      /\ head \in Nodes \cup {NULL} /\ \A n \in Nodes : next[n] \in Nodes \cup {NULL}
  BY DEF TypeInv, TypeOK
<1>b. AdderOK(t) /\ RemoverOK(t) /\ (c.fn \in Mutations => Active(t))
  BY AccessKeeps DEF ListInv, Active, Fn
<1>d. data' = data
  BY AccessKeeps
<1>n. \A r : Set(t, r) => thread'[t] = r
  BY <1>a DEF TypeOK, Set
<1>k. ASSUME UNCHANGED Memory PROVE UNCHANGED <<head, next>> /\ InList' = InList
  BY <1>k, LinksStill DEF Memory, links
<1>o. /\ c.fn \in Inserts => c.fn \in Mutations /\ c.fn # "removeUser"
      /\ c.fn = "removeUser" => c.fn \in Mutations /\ c.fn \notin Inserts
  BY DEF Inserts, Mutations
<1>c. ASSUME Crash, UNCHANGED Memory PROVE AdderOK(t)' /\ RemoverOK(t)'
  BY <1>b, <1>c, <1>d, <1>k DEF Crash, AdderOK, RemoverOK, Active, Fn
<1>r. ASSUME thread'[t].pc = "return", thread'[t].fn = "removeUser" PROVE AdderOK(t)' /\ RemoverOK(t)'
  BY <1>r DEF AdderOK, RemoverOK, Removing, Inserts
<1>m. ASSUME thread'[t].fn \notin Mutations PROVE AdderOK(t)' /\ RemoverOK(t)'
  BY <1>m DEF AdderOK, RemoverOK, Active, Fn
<1>1. ASSUME Temp(t) PROVE AdderOK(t)' /\ RemoverOK(t)'
  <2>1. thread'[t] = [c EXCEPT !.pc = "empty", !.cur = head] /\ c.pc = "temp" /\ UNCHANGED Memory
    BY <1>1, <1>n DEF Temp, Go, At
  <2>2. UNCHANGED <<head, next, data>> /\ InList' = InList
    BY <1>d, <1>k, <2>1
  <2>3. thread'[t].pc = "empty" /\ thread'[t].cur = head /\ thread'[t].fn = c.fn /\ thread'[t].user = c.user
        /\ thread'[t].node = c.node
    BY <1>a, <2>1 DEF Locals
  <2> QED BY <1>b, <1>o, <2>1, <2>2, <2>3 DEF AdderOK, RemoverOK, Active, Fn, Removing
<1>f. /\ \A m \in InList : head # NULL /\ head \in InList /\ head <= m
      /\ \A n \in InList : next[n] # NULL => next[n] \in InList /\ n < next[n]
      /\ \A p, m \in InList : p < m => next[p] # NULL /\ next[p] <= m
      /\ InList \subseteq Nodes
      /\ head # NULL => head \in InList
  BY ListFacts DEF Linked
<1>v. ASSUME NEW n \in InList, Visit(t, n), UNCHANGED Memory, c.pc \in {"empty", "advance"}
      PROVE  AdderOK(t)' /\ RemoverOK(t)'
  <2>n. n # NULL /\ n \in Nodes
    BY <1>f, NodeFacts
  <2>2. UNCHANGED <<head, next, data>> /\ InList' = InList
    BY <1>d, <1>k, <1>v
  <2>3. CASE ~Wanted(t, n)
    <3>1. thread'[t] = [c EXCEPT !.pc = "check", !.cur = n]
      BY <1>v, <1>n, <2>3, <2>n DEF Visit, Go
    <3>2. thread'[t].pc = "check" /\ thread'[t].cur = n /\ thread'[t].fn = c.fn /\ thread'[t].user = c.user
          /\ thread'[t].node = c.node
      BY <1>a, <3>1 DEF Locals
    <3> QED BY <1>b, <1>o, <1>v, <2>2, <3>2 DEF AdderOK, RemoverOK, Active, Fn, Removing
  <2>4. CASE Wanted(t, n) /\ c.fn = "removeUser"
    <3>1. thread'[t] = [c EXCEPT !.pc = "isnull", !.cur = NULL, !.node = n]
      BY <1>v, <1>n, <2>4, <2>n DEF Visit, Go, Fn
    <3>2. thread'[t].pc = "isnull" /\ thread'[t].fn = c.fn /\ thread'[t].node = n
      BY <1>a, <3>1 DEF Locals
    <3> QED BY <1>b, <1>o, <1>v, <2>2, <2>4, <3>2 DEF AdderOK, RemoverOK, Active, Fn, Removing
  <2>5. CASE Wanted(t, n) /\ c.fn # "removeUser"
    <3>1. thread'[t] = [c EXCEPT !.pc = "return", !.cur = n, !.out = c.fn = "get_user"]
      BY <1>v, <1>n, <2>5, <2>n DEF Visit, Go, Fn
    <3>2. thread'[t].pc = "return" /\ thread'[t].fn = c.fn /\ thread'[t].node = c.node /\ thread'[t].user = c.user
      BY <1>a, <3>1 DEF Locals
    <3> QED BY <1>b, <1>o, <1>v, <2>2, <2>5, <3>2 DEF AdderOK, RemoverOK, Active, Fn, Removing
  <2> QED BY <2>3, <2>4, <2>5
<1>e. ASSUME WalkEnds(t), c.fn \notin Inserts PROVE AdderOK(t)' /\ RemoverOK(t)'
  <2>1. thread'[t] = [c EXCEPT !.pc = CASE Fn(t) = "listing"      -> "lock"
                                        [] Fn(t) = "send_message" -> "start"
                                        [] OTHER                  -> "return"]
    BY <1>e, <1>n DEF WalkEnds, Go
  <2>2. thread'[t].fn = c.fn
    BY <1>a, <2>1 DEF Locals
  <2>3. CASE c.fn = "removeUser"
    <3>1. thread'[t].pc = "return"
      BY <1>a, <2>1, <2>3 DEF Locals, Fn
    <3> QED BY <1>r, <2>2, <2>3, <3>1
  <2>4. CASE c.fn \notin Mutations
    BY <1>m, <2>2, <2>4
  <2> QED BY <1>e, <2>3, <2>4 DEF Mutations
<1>p. ASSUME NEW p \in {"first", "advance", "link", "head", "compare"}, Go(t, [c EXCEPT !.pc = p])
      PROVE  /\ thread'[t].pc = p /\ thread'[t].fn = c.fn /\ thread'[t].user = c.user
             /\ thread'[t].node = c.node /\ thread'[t].cur = c.cur
  <2>1. thread'[t] = [c EXCEPT !.pc = p]
    BY <1>p, <1>n DEF Go
  <2> QED BY <1>a, <2>1 DEF Locals
<1>2. ASSUME Empty(t) PROVE AdderOK(t)' /\ RemoverOK(t)'
  <2>1. c.pc = "empty" /\ UNCHANGED Memory
    BY <1>2 DEF Empty, At
  <2>2. UNCHANGED <<head, next, data>> /\ InList' = InList
    BY <1>d, <1>k, <2>1
  <2>3. CASE head # NULL /\ Visit(t, c.cur)
    <3>1. CASE c.fn \in Mutations
      <4>1. c.cur = head
        BY <1>b, <2>1, <3>1 DEF AdderOK, RemoverOK, Mutations
      <4> QED BY <1>f, <1>v, <2>1, <2>3, <4>1
    <3>2. CASE c.fn \notin Mutations
      <4>1. thread'[t].fn = c.fn \/ thread'[t] = NoCall
        BY <1>2, AccessKeeps DEF Access
      <4> QED BY <1>m, <3>2, <4>1, Constants DEF NoCall, Functions
    <3> QED BY <3>1, <3>2
  <2>4. CASE head = NULL /\ c.fn \in Inserts /\ Go(t, [c EXCEPT !.pc = "first"])
    BY <1>b, <1>o, <1>p, <2>1, <2>2, <2>4 DEF AdderOK, RemoverOK, Active, Fn, Removing
  <2>5. CASE c.fn \notin Inserts /\ WalkEnds(t)
    BY <1>e, <2>5
  <2> QED BY <1>2, <2>3, <2>4, <2>5 DEF Empty, Cur, Fn
<1>3. ASSUME Check(t) PROVE AdderOK(t)' /\ RemoverOK(t)'
  <2>1. c.pc = "check" /\ UNCHANGED Memory
    BY <1>3 DEF Check, At
  <2>2. UNCHANGED <<head, next, data>> /\ InList' = InList
    BY <1>d, <1>k, <2>1
  <2>3. CASE Go(t, [c EXCEPT !.pc = "advance"])
    BY <1>b, <1>o, <1>p, <2>1, <2>2, <2>3 DEF AdderOK, RemoverOK, Active, Fn, Removing
  <2>4. CASE next[c.cur] = NULL /\ c.fn \in Inserts /\ Go(t, [c EXCEPT !.pc = "link"])
    BY <1>b, <1>o, <1>p, <2>1, <2>2, <2>4 DEF AdderOK, RemoverOK, Active, Fn, Removing
  <2>5. CASE c.fn \notin Inserts /\ WalkEnds(t)
    BY <1>e, <2>5
  <2> QED BY <1>3, <2>3, <2>4, <2>5 DEF Check, Cur, Fn
<1>4. ASSUME Advance(t) PROVE AdderOK(t)' /\ RemoverOK(t)'
  <2>1. c.pc = "advance" /\ UNCHANGED Memory /\ Visit(t, next[c.cur])
    BY <1>4 DEF Advance, At, Cur
  <2>2. CASE c.fn \in Mutations
    <3>1. c.cur \in InList
      BY <1>b, <2>1, <2>2 DEF AdderOK, RemoverOK, Mutations
    <3>2. CASE next[c.cur] = NULL
      BY <1>c, <2>1, <3>2 DEF Visit
    <3>3. CASE next[c.cur] # NULL
      BY <1>f, <1>v, <2>1, <3>1, <3>3
    <3> QED BY <3>2, <3>3
  <2>3. CASE c.fn \notin Mutations
    <3>1. thread'[t].fn = c.fn \/ thread'[t] = NoCall
      BY <1>4, AccessKeeps DEF Access
    <3> QED BY <1>m, <2>3, <3>1, Constants DEF NoCall, Functions
  <2> QED BY <2>2, <2>3
<1>t. ASSUME NEW x \in BOOLEAN, Return(t, x)
      PROVE  /\ thread'[t].pc = "return" /\ thread'[t].fn = c.fn /\ thread'[t].user = c.user
             /\ thread'[t].node = c.node
  <2>1. thread'[t] = [c EXCEPT !.pc = "return", !.out = x]
    BY <1>t, <1>n DEF Return
  <2> QED BY <1>a, <2>1 DEF Locals
<1>i. ASSUME c.fn \in Inserts, next'[c.node] = NULL, thread'[t].pc \in {"clear", "return"},
             thread'[t].fn = c.fn, thread'[t].user = c.user, thread'[t].node = c.node
      PROVE  AdderOK(t)' /\ RemoverOK(t)'
  BY <1>b, <1>d, <1>i, <1>o DEF AdderOK, RemoverOK, Active, Fn
<1>5. ASSUME InsertFirst(t) PROVE AdderOK(t)' /\ RemoverOK(t)'
  <2>1. c.fn \in Inserts /\ next' = next /\ Return(t, TRUE)
    BY <1>5, <1>a DEF InsertFirst, At, LocalOK
  <2>2. next[c.node] = NULL
    BY <1>b, <1>o, <2>1 DEF AdderOK, Fn
  <2> QED BY <1>i, <1>t, <2>1, <2>2
<1>6. ASSUME InsertLast(t) PROVE AdderOK(t)' /\ RemoverOK(t)'
  <2>1. c.fn \in Inserts /\ next' = [next EXCEPT ![c.cur] = c.node] /\ c.pc = "link"
    BY <1>6, <1>a DEF InsertLast, At, LocalOK, Cur
  <2>2. next[c.node] = NULL /\ c.node \notin InList /\ c.cur \in InList
    BY <1>b, <1>o, <2>1 DEF AdderOK, Fn
  <2>3. next'[c.node] = NULL
    BY <2>1, <2>2, <1>a DEF TypeOK, LocalOK
  <2>4. CASE Return(t, TRUE)
    BY <1>i, <1>t, <2>1, <2>3, <2>4
  <2>5. CASE Set(t, [c EXCEPT !.pc = "clear"])
    <3>1. thread'[t] = [c EXCEPT !.pc = "clear"]
      BY <1>n, <2>5
    <3>2. thread'[t].pc = "clear" /\ thread'[t].fn = c.fn /\ thread'[t].user = c.user /\ thread'[t].node = c.node
      BY <1>a, <3>1 DEF Locals
    <3> QED BY <1>i, <2>1, <2>3, <3>2
  <2> QED BY <1>6, <2>4, <2>5 DEF InsertLast
<1>7. ASSUME InsertClear(t) PROVE AdderOK(t)' /\ RemoverOK(t)'
  <2>1. c.fn \in Inserts /\ next' = [next EXCEPT ![c.node] = NULL] /\ Return(t, TRUE) /\ c.node \in Nodes
    BY <1>7, <1>a DEF InsertClear, At, LocalOK, Inserts
  <2>2. next'[c.node] = NULL
    BY <2>1, <1>a DEF TypeOK
  <2> QED BY <1>i, <1>t, <2>1, <2>2
<1>8. ASSUME c.fn = "removeUser", Return(t, TRUE) \/ Go(t, [c EXCEPT !.pc = "return", !.out = TRUE])
      PROVE  AdderOK(t)' /\ RemoverOK(t)'
  <2>1. Return(t, TRUE)
    BY <1>8 DEF Go, Return
  <2> QED BY <1>8, <1>r, <1>t, <2>1
<1>9. ASSUME IsNull(t), c.fn = "removeUser" PROVE AdderOK(t)' /\ RemoverOK(t)'
  <2>1. c.pc = "isnull" /\ UNCHANGED Memory
    BY <1>9 DEF IsNull, At
  <2>2. UNCHANGED <<head, next, data>> /\ InList' = InList
    BY <1>d, <1>k, <2>1
  <2>3. CASE Go(t, [c EXCEPT !.pc = "head"])
    BY <1>b, <1>o, <1>p, <1>9, <2>1, <2>2, <2>3 DEF AdderOK, RemoverOK, Active, Fn, Removing
  <2> QED BY <1>8, <1>9, <2>3 DEF IsNull, Fn
<1>10. ASSUME Head_(t), c.fn = "removeUser" PROVE AdderOK(t)' /\ RemoverOK(t)'
  <2>1. c.pc = "head" /\ UNCHANGED Memory
    BY <1>10 DEF Head_, At
  <2>2. UNCHANGED <<head, next, data>> /\ InList' = InList
    BY <1>d, <1>k, <2>1
  <2>3. CASE head # NULL
    <3>1. thread'[t] = [c EXCEPT !.cur = head, !.pc = IF head = c.node THEN "after" ELSE "find"]
      BY <1>10, <1>n, <2>3 DEF Head_, Go, Fn
    <3>2. /\ thread'[t].pc = IF head = c.node THEN "after" ELSE "find"
          /\ thread'[t].cur = head /\ thread'[t].node = c.node /\ thread'[t].fn = c.fn
      BY <1>a, <3>1 DEF Locals
    <3>3. c.node \in InList
      BY <1>b, <1>o, <1>10, <2>1 DEF RemoverOK, Removing, Fn
    <3>4. head \in InList /\ (head # c.node => head < c.node)
      <4>1. head <= c.node /\ head \in Nodes /\ c.node \in Nodes
        BY <1>f, <2>3, <3>3
      <4> QED BY <1>f, <3>3, <4>1, NodeFacts
    <3> QED BY <1>o, <1>10, <2>2, <3>2, <3>3, <3>4 DEF AdderOK, RemoverOK, Active, Fn, Removing
  <2> QED BY <1>c, <1>10, <2>1, <2>3 DEF Head_
<1>11. ASSUME Find(t), c.fn = "removeUser" PROVE AdderOK(t)' /\ RemoverOK(t)'
  <2>1. c.pc = "find" /\ UNCHANGED Memory
    BY <1>11 DEF Find, At
  <2>2. UNCHANGED <<head, next, data>> /\ InList' = InList
    BY <1>d, <1>k, <2>1
  <2>3. CASE Go(t, [c EXCEPT !.pc = "compare"])
    BY <1>b, <1>o, <1>p, <1>11, <2>1, <2>2, <2>3 DEF AdderOK, RemoverOK, Active, Fn, Removing
  <2> QED BY <1>8, <1>11, <2>3 DEF Find
<1>12. ASSUME Compare(t), c.fn = "removeUser" PROVE AdderOK(t)' /\ RemoverOK(t)'
  <2>1. c.pc = "compare" /\ UNCHANGED Memory
    BY <1>12 DEF Compare, At
  <2>2. UNCHANGED <<head, next, data>> /\ InList' = InList
    BY <1>d, <1>k, <2>1
  <2>3. thread'[t] = [c EXCEPT !.pc = IF next[c.cur] = c.node THEN "after" ELSE "skip"]
    BY <1>12, <1>n DEF Compare, Go, Cur
  <2>4. /\ thread'[t].pc = IF next[c.cur] = c.node THEN "after" ELSE "skip"
        /\ thread'[t].cur = c.cur /\ thread'[t].node = c.node /\ thread'[t].fn = c.fn
    BY <1>a, <2>3 DEF Locals
  <2>5. c.cur \in InList /\ c.cur < c.node /\ c.node \in InList
    BY <1>b, <1>o, <1>12, <2>1 DEF RemoverOK, Removing, Fn
  <2> QED BY <1>o, <1>12, <2>2, <2>4, <2>5 DEF AdderOK, RemoverOK, Active, Fn, Removing
<1>13. ASSUME Skip(t), c.fn = "removeUser" PROVE AdderOK(t)' /\ RemoverOK(t)'
  <2>1. c.pc = "skip" /\ UNCHANGED Memory
    BY <1>13 DEF Skip, At
  <2>2. UNCHANGED <<head, next, data>> /\ InList' = InList
    BY <1>d, <1>k, <2>1
  <2>3. CASE next[c.cur] # NULL
    <3>1. thread'[t] = [c EXCEPT !.pc = "find", !.cur = next[c.cur]]
      BY <1>13, <1>n, <2>3 DEF Skip, Go, Cur
    <3>2. /\ thread'[t].pc = "find"
          /\ thread'[t].cur = next[c.cur] /\ thread'[t].node = c.node /\ thread'[t].fn = c.fn
      BY <1>a, <3>1 DEF Locals
    <3>3. c.cur \in InList /\ c.cur < c.node /\ c.node \in InList /\ next[c.cur] # c.node
      BY <1>b, <1>o, <1>13, <2>1 DEF RemoverOK, Removing, Fn
    <3>4. next[c.cur] \in InList /\ next[c.cur] < c.node
      <4>1. next[c.cur] \in InList /\ next[c.cur] <= c.node
        BY <1>f, <2>3, <3>3
      <4>2. next[c.cur] \in Nat /\ c.node \in Nat
        BY <1>f, <3>3, <4>1, NodeFacts
      <4> QED BY <3>3, <4>1, <4>2
    <3> QED BY <1>o, <1>13, <2>2, <3>2, <3>3, <3>4 DEF AdderOK, RemoverOK, Active, Fn, Removing
  <2>4. CASE next[c.cur] = NULL
    BY <1>c, <1>13, <2>1, <2>4 DEF Skip, Cur
  <2> QED BY <2>3, <2>4
<1>14. ASSUME After(t), c.fn = "removeUser" PROVE AdderOK(t)' /\ RemoverOK(t)'
  <2>1. c.pc = "after" /\ UNCHANGED Memory
    BY <1>14 DEF After, At
  <2>2. UNCHANGED <<head, next, data>> /\ InList' = InList
    BY <1>d, <1>k, <2>1
  <2>3. /\ c.node \in InList
        /\ (c.cur = c.node /\ head = c.node) \/ (c.cur \in InList /\ next[c.cur] = c.node)
    BY <1>b, <1>o, <1>14, <2>1 DEF RemoverOK, Removing, Fn
  <2>4. (IF c.cur = c.node THEN c.cur ELSE next[c.cur]) = c.node
    BY <2>3
  <2>5. thread'[t] = [c EXCEPT !.pc = "unlink", !.succ = next[c.node]]
    BY <1>14, <1>f, <1>n, <2>3, <2>4, NodeFacts DEF After, Go, Cur
  <2>6. /\ thread'[t].pc = "unlink" /\ thread'[t].succ = next[c.node]
        /\ thread'[t].cur = c.cur /\ thread'[t].node = c.node /\ thread'[t].fn = c.fn
    BY <1>a, <2>5 DEF Locals
  <2> QED BY <1>o, <1>14, <2>2, <2>3, <2>6 DEF AdderOK, RemoverOK, Active, Fn, Removing
<1>15. ASSUME Unlink(t), c.fn = "removeUser" PROVE AdderOK(t)' /\ RemoverOK(t)'
  BY <1>8, <1>15 DEF Unlink
<1>16. ASSUME Done(t) PROVE AdderOK(t)' /\ RemoverOK(t)'
  <2>1. thread'[t].fn = NULL
    BY <1>16, <1>n DEF Done, NoCall
  <2> QED BY <1>m, <2>1, Constants DEF Functions
<1>17. CASE c.fn \notin Mutations
  <2>1. thread'[t].fn = c.fn \/ thread'[t].fn = NULL
    BY AccessKeeps DEF NoCall
  <2> QED BY <1>m, <1>17, <2>1, Constants DEF Functions
<1>18. CASE c.fn \in Mutations
  <2>1. c.pc \notin {"lock", "start", "send", "unlock"}
    BY <1>a, <1>18 DEF LocalOK, Mutations, Inserts
  <2>2. c.pc \in {"isnull", "head", "find", "compare", "skip", "after", "unlink"} => c.fn = "removeUser"
    BY <1>a, <1>18 DEF LocalOK, Mutations, Inserts
  <2>3. ~ (Lock(t) \/ Start(t) \/ Send(t) \/ Unlock(t))
    BY <2>1 DEF Lock, Start, Send, Unlock, At
  <2>4. IsNull(t) \/ Head_(t) \/ Find(t) \/ Compare(t) \/ Skip(t) \/ After(t) \/ Unlink(t)
        => c.fn = "removeUser"
    BY <2>2 DEF IsNull, Head_, Find, Compare, Skip, After, Unlink, At
  <2> QED BY <1>1, <1>2, <1>3, <1>4, <1>5, <1>6, <1>7, <1>9, <1>10, <1>11, <1>12, <1>13, <1>14, <1>15,
             <1>16, <2>3, <2>4 DEF Access
<1> QED BY <1>17, <1>18

\* The list invariant is inductive.
LEMMA ListStep ==
    ASSUME TypeInv, ListInv, ~Overlap, [Next]_vars
    PROVE  ListInv'
<1>1. ASSUME NEW t \in Threads, Step(t) PROVE ListInv'
  <2>1. Forward(next)' /\ Allocated' /\ \A r, s \in Threads : Active(r)' /\ Active(s)' => r = s
    BY <1>1, LinksMove, AllocatedStep, ActiveStep
  <2>2. ASSUME NEW s \in Threads, s # t PROVE AdderOK(s)' /\ RemoverOK(s)'
    <3>1. thread'[s] = thread[s]
      BY <1>1, <2>2, StepTyped DEF Typed
    <3>2. CASE Active(s)
      <4>1. UNCHANGED <<head, next, data>> /\ InList' = InList
        BY <1>1, <2>2, <3>2, ActiveStep DEF links
      <4> QED BY <3>1, <4>1 DEF ListInv, AdderOK, RemoverOK, Active, Fn
    <3>3. CASE ~Active(s)
      BY <3>1, <3>3 DEF AdderOK, RemoverOK, Active, Fn
    <3> QED BY <3>2, <3>3
  <2>3. ASSUME NEW f \in Functions, NEW u \in IF f \in {"listing", "send_message"} THEN {NULL} ELSE Users,
               Call(t, f, u)
        PROVE  AdderOK(t)' /\ RemoverOK(t)'
    <3>1. /\ thread'[t].fn = f /\ thread'[t].user = u /\ UNCHANGED links
          /\ f # "listing" => thread'[t].pc \in {"hung", "temp"}
      BY <2>3, CallBegins
    <3>2. next' = next /\ InList' = InList
      BY <3>1, LinksStill DEF links
    <3>3. f = "removeUser" => RemoverOK(t)'
      BY <3>1 DEF RemoverOK, Active, Fn, Removing
    <3>4. ASSUME f \in Inserts PROVE AdderOK(t)'
      <4> DEFINE n == thread'[t].node
      <4>1. /\ n \in Nodes /\ data[n] = NULL /\ u # NULL /\ data' = [data EXCEPT ![n] = u]
            /\ \A m \in Nodes : m < n => data[m] # NULL
        BY <2>3, <3>4, CallBegins
      <4>2. /\ \A m, k \in Nodes : m < k /\ data[k] # NULL => data[m] # NULL
            /\ \A k \in Nodes : data[k] = NULL => next[k] = NULL
            /\ \A k \in InList : data[k] # NULL
            /\ data \in [Nodes -> Users \cup {NULL}]
        BY DEF ListInv, Allocated, TypeInv, TypeOK
      <4>3. data'[n] = u /\ \A m \in Nodes : m # n => data'[m] = data[m]
        BY <4>1, <4>2
      <4>4. ASSUME NEW m \in Nodes, data'[m] # NULL PROVE m <= n
        <5>1. m # n => ~ (n < m)
          BY <4>1, <4>2, <4>3, <4>4
        <5> QED BY <4>1, <5>1, NodeFacts
      <4>5. next[n] = NULL /\ n \notin InList
        BY <4>1, <4>2
      <4>6. thread'[t].pc \in {"hung", "temp"}
        BY <3>1, <3>4 DEF Inserts
      <4> HIDE DEF n
      <4> QED BY <3>1, <3>2, <4>1, <4>3, <4>4, <4>5, <4>6 DEF AdderOK, Active, Fn, n
    <3> QED BY <3>1, <3>3, <3>4 DEF AdderOK, RemoverOK, Fn
  <2>4. AdderOK(t)' /\ RemoverOK(t)'
    BY <1>1, <2>3, OwnStep DEF Step
  <2> QED BY <2>1, <2>2, <2>4 DEF ListInv
<1>2. CASE UNCHANGED vars
  <2>1. UNCHANGED <<links, head, next, data, thread>>
    BY <1>2 DEF vars, links
  <2>2. Forward(next)' /\ InList' = InList
    BY <2>1, LinksStill
  <2> QED BY <2>1, <2>2 DEF ListInv, Allocated, AdderOK, RemoverOK, Active, Fn
<1> QED BY <1>1, <1>2 DEF Next, Step

\* It holds of every initial list.
LEMMA ListInit == Init => ListInv
<1> SUFFICES ASSUME Init PROVE ListInv
  OBVIOUS
<1>a. TypeInv
  BY TypeInit
<1>1. PICK len \in 0 .. Min({MaxNodes, Cardinality(Users)}) :
           /\ head = IF len = 0 THEN NULL ELSE 1
           /\ next = [n \in Nodes |-> IF n < len THEN n + 1 ELSE NULL]
           /\ data = [n \in Nodes |-> IF n <= len THEN SetToSeq(Users)[n] ELSE NULL]
  BY DEF Init
<1>2. /\ len \in Nat /\ len <= MaxNodes
      /\ \A n \in 1 .. len : SetToSeq(Users)[n] \in Users
  <2> DEFINE size == Cardinality(Users)
             order == SetToSeq(Users)
  <2>1. size \in Nat /\ order \in [1 .. size -> Users]
    BY UserOrder
  <2> HIDE DEF size, order
  <2>2. {MaxNodes, size} \subseteq Nat
    BY <2>1, Constants
  <2>3. Min({MaxNodes, size}) \in {MaxNodes, size} /\ \A n \in {MaxNodes, size} : Min({MaxNodes, size}) <= n
    BY <2>2, MinIsLeast
  <2>4. len \in 0 .. Min({MaxNodes, size})
    BY DEF size
  <2>5. len \in Nat /\ len <= MaxNodes /\ len <= size
    BY <2>2, <2>3, <2>4
  <2>6. \A n \in 1 .. len : order[n] \in Users
    BY <2>1, <2>5
  <2> QED BY <2>5, <2>6 DEF order
<1>3. Forward(next)
  BY <1>1, <1>2, Constants DEF Forward, Nodes
<1>4. \A n \in Nodes : data[n] # NULL <=> n <= len
  BY <1>1, <1>2, Constants DEF Nodes
<1>5. Linked(1 .. len, head, next)
  <2>1. 1 .. len \subseteq Nodes
    BY <1>2, Constants DEF Nodes
  <2>2. IF head = NULL THEN 1 .. len = {} ELSE head \in 1 .. len
    BY <1>1, <1>2, Constants DEF Nodes
  <2>3. \A n \in 1 .. len : next[n] # NULL => next[n] \in 1 .. len
    BY <1>1, <1>2, <2>1
  <2>4. ASSUME NEW n \in 1 .. len, n # head PROVE \E p \in 1 .. len : next[p] = n
    <3>1. head = 1 /\ n - 1 \in 1 .. len
      BY <1>1, <1>2, <2>4
    <3>2. next[n - 1] = n
      BY <1>1, <1>2, <2>1, <3>1
    <3> QED BY <3>1, <3>2
  <2> QED BY <2>1, <2>2, <2>3, <2>4 DEF Linked
<1>6. InList = 1 .. len
  <2>1. head \in Nodes \cup {NULL} /\ next \in Pointers
    BY <1>a DEF TypeInv, TypeOK, Pointers
  <2>2. Linked(InList, head, next)
    BY <1>3, <2>1, ListIsLinked
  <2> QED BY <1>3, <1>5, <2>1, <2>2, LinkedOnce
<1>7. Allocated
  <2>1. \A m, n \in Nodes : m < n /\ data[n] # NULL => data[m] # NULL
    BY <1>2, <1>4, NodeFacts
  <2>2. \A n \in Nodes : data[n] = NULL => next[n] = NULL
    BY <1>1, <1>2, <1>4, NodeFacts
  <2>3. \A n \in InList : data[n] # NULL
    BY <1>2, <1>4, <1>6, Constants DEF Nodes
  <2> QED BY <2>1, <2>2, <2>3 DEF Allocated
<1>8. \A t \in Threads : ~Active(t)
  BY Constants DEF Init, NoCall, Active, Fn, Functions
<1> QED BY <1>3, <1>7, <1>8 DEF ListInv, AdderOK, RemoverOK

-----------------------------------------------------------------------------
(* Walks while the list changes. *)

\* What a thread that is in a call notices of a step of t.
Noticed(s) ==
    /\ always'[s] \subseteq always[s] /\ ever[s] \subseteq ever'[s] /\ InList' \subseteq ever'[s]
    /\ UNCHANGED links => always'[s] = always[s] /\ ever'[s] = ever[s]
    /\ always'[s] = ever'[s] => UNCHANGED links /\ always[s] = ever[s]

\* What a call may have seen, and must see, after a step of any thread.
LEMMA WatchStep ==
    ASSUME TypeInv, ListInv, NEW t \in Threads, Step(t), Watch, NEW s \in Threads, WatchOK(s)
    PROVE  /\ WatchOK(s)'
           /\ Fn(s) # NULL /\ Fn(s)' # NULL => Noticed(s)
<1>a. TypeOK /\ InList \subseteq Nodes /\ \A n \in Nodes : next[n] \in Nodes \cup {NULL}
  BY ListFacts DEF TypeInv, TypeOK
<1>1. /\ Fn(s)' = NULL => always'[s] = {} /\ ever'[s] = {}
      /\ Fn(s)' # NULL /\ Fn(s) = NULL => always'[s] = InList' /\ ever'[s] = ever[s] \cup InList'
      /\ Fn(s)' # NULL /\ Fn(s) # NULL => always'[s] = always[s] \cap InList' /\ ever'[s] = ever[s] \cup InList'
  BY DEF Watch, Fn
<1>2. CASE Fn(s)' = NULL
  BY <1>1, <1>2 DEF WatchOK
<1>3. CASE Fn(s)' # NULL /\ Fn(s) = NULL
  <2>1. s = t /\ \E f \in Functions :
           \E u \in IF f \in {"listing", "send_message"} THEN {NULL} ELSE Users : Call(t, f, u)
    <3>1. s = t
      BY <1>3, StepTyped DEF Typed, Fn
    <3>2. ~Access(t)
      <4>1. LocalOK(thread[t]) /\ thread[t].pc = "idle"
        <5>1. LocalOK(thread[t]) /\ thread[t].fn = NULL
          BY <1>3, <3>1 DEF TypeInv, Fn
        <5> QED BY <5>1 DEF LocalOK, NoCall
      <4> QED BY <4>1, AccessKeeps
    <3> QED BY <3>1, <3>2 DEF Step
  <2>2. UNCHANGED links
    BY <2>1, CallBegins
  <2>3. InList' = InList /\ next' = next /\ Allocated'
    BY <2>2, LinksStill, AllocatedStep DEF links
  <2>4. always'[s] = InList /\ ever'[s] = InList
    BY <1>1, <1>3, <2>3 DEF WatchOK
  <2> QED BY <1>3, <2>3, <2>4, ListFacts DEF WatchOK, Allocated
<1>4. CASE Fn(s)' # NULL /\ Fn(s) # NULL
  <2> DEFINE A == always[s]
             E == ever[s]
  <2>1. always'[s] = A \cap InList' /\ ever'[s] = E \cup InList'
    BY <1>1, <1>4
  <2>2. /\ A \subseteq InList /\ InList \subseteq E
        /\ \A x \in E : data[x] # NULL
        /\ \A x \in E : next[x] # NULL => next[x] \in E
        /\ \A x \in E, m \in A : x < m => next[x] # NULL /\ next[x] <= m
    BY <1>4 DEF WatchOK
  <2>3. E \subseteq Nodes
    BY <1>a DEF TypeOK
  <2>4. Allocated'
    BY AllocatedStep
  <2>d. \A x \in E : data'[x] # NULL
    <3>1. ASSUME NEW f \in Functions, NEW u \in IF f \in {"listing", "send_message"} THEN {NULL} ELSE Users,
                 Call(t, f, u)
          PROVE  \A x \in E : data'[x] # NULL
      BY <1>a, <2>2, <2>3, <3>1, CallBegins DEF TypeOK
    <3> QED BY <2>2, <3>1, AccessKeeps DEF Step
  <2>5. CASE UNCHANGED links /\ InList' = InList
    <3>1. always'[s] = A /\ ever'[s] = E /\ next' = next
      BY <2>1, <2>2, <2>5 DEF links
    <3> QED BY <1>4, <2>2, <2>5, <2>d, <3>1 DEF WatchOK, Noticed
  <2>6. CASE Adds(t) /\ data' = data
    <3> DEFINE n == thread[t].node
    <3>1. /\ n \in Nodes /\ n \notin InList /\ next[n] = NULL /\ data[n] # NULL
          /\ InList' = InList \cup {n} /\ \A m \in InList : m < n
      BY <2>6 DEF Adds
    <3>2. always'[s] = A /\ ever'[s] = E \cup {n}
      BY <2>1, <2>2, <3>1
    <3>3. /\ \A x \in E \cup {n} : next'[x] # NULL => next'[x] \in E \cup {n}
          /\ \A x \in E \cup {n}, m \in A : x < m => next'[x] # NULL /\ next'[x] <= m
      <4>1. \A m \in A : ~ (n < m)
        <5>1. ASSUME NEW m \in A PROVE ~ (n < m)
          <6>1. m < n /\ m \in Nodes
            BY <1>a, <2>2, <3>1
          <6> QED BY <3>1, <6>1, NodeFacts
        <5> QED BY <5>1
      <4>2. CASE next' = next
        BY <2>2, <3>1, <4>1, <4>2
      <4>3. ASSUME NEW k \in InList, next[k] = NULL, next' = [next EXCEPT ![k] = n]
            PROVE  /\ \A x \in E \cup {n} : next'[x] # NULL => next'[x] \in E \cup {n}
                   /\ \A x \in E \cup {n}, m \in A : x < m => next'[x] # NULL /\ next'[x] <= m
        <5>1. next'[k] = n /\ next'[n] = NULL /\ \A x \in Nodes : x # k => next'[x] = next[x]
          BY <1>a, <3>1, <4>3 DEF TypeOK
        <5>2. \A x \in E \cup {n} : next'[x] # NULL => next'[x] \in E \cup {n}
          BY <2>2, <2>3, <5>1
        <5>3. ASSUME NEW x \in E \cup {n}, NEW m \in A, x < m PROVE next'[x] # NULL /\ next'[x] <= m
          <6>1. x # n
            BY <4>1, <5>3
          <6>2. next[x] # NULL /\ next[x] <= m
            BY <2>2, <5>3, <6>1
          <6> QED BY <2>3, <4>3, <5>1, <6>1, <6>2
        <5> QED BY <5>2, <5>3
      <4> QED BY <2>6, <4>2, <4>3 DEF Adds
    <3>4. WatchOK(s)'
      BY <1>4, <2>2, <2>6, <3>1, <3>2, <3>3 DEF WatchOK
    <3>5. Noticed(s)
      <4>1. n \in ever'[s] /\ n \notin always'[s]
        BY <2>2, <3>1, <3>2
      <4>2. ~ UNCHANGED links
        <5>1. UNCHANGED links => InList' = InList
          BY LinksStill
        <5> QED BY <3>1, <5>1
      <4> QED BY <2>2, <3>1, <3>2, <4>1, <4>2 DEF Noticed
    <3> QED BY <3>4, <3>5
  <2>7. CASE Removes(t) /\ data' = data
    <3> DEFINE n == thread[t].node
    <3>1. n \in InList /\ InList' = InList \ {n} /\ n \in Nodes
      BY <1>a, <2>7 DEF Removes
    <3>2. always'[s] = A \ {n} /\ ever'[s] = E
      BY <2>1, <2>2, <3>1
    <3>3. /\ \A x \in E : next'[x] # NULL => next'[x] \in E
          /\ \A x \in E, m \in A \ {n} : x < m => next'[x] # NULL /\ next'[x] <= m
      <4>1. CASE next' = next
        BY <2>2, <4>1
      <4>2. ASSUME NEW k \in InList, next[k] = n, next' = [next EXCEPT ![k] = next[n]]
            PROVE  /\ \A x \in E : next'[x] # NULL => next'[x] \in E
                   /\ \A x \in E, m \in A \ {n} : x < m => next'[x] # NULL /\ next'[x] <= m
        <5>1. next'[k] = next[n] /\ \A x \in Nodes : x # k => next'[x] = next[x]
          BY <1>a, <4>2 DEF TypeOK
        <5>2. \A x \in E : next'[x] # NULL => next'[x] \in E
          BY <2>2, <2>3, <3>1, <5>1
        <5>3. ASSUME NEW x \in E, NEW m \in A \ {n}, x < m PROVE next'[x] # NULL /\ next'[x] <= m
          <6>1. CASE x = k
            <7>1. n <= m
              BY <2>2, <4>2, <5>3, <6>1
            <7>2. n < m
              BY <1>a, <2>2, <3>1, <7>1, <5>3, NodeFacts
            <7> QED BY <2>2, <3>1, <5>1, <6>1, <7>2
          <6>2. CASE x # k
            BY <2>2, <2>3, <5>1, <5>3, <6>2
          <6> QED BY <6>1, <6>2
        <5> QED BY <5>2, <5>3
      <4> QED BY <2>7, <4>1, <4>2 DEF Removes
    <3>4. WatchOK(s)'
      BY <1>4, <2>2, <2>7, <3>1, <3>2, <3>3 DEF WatchOK
    <3>5. Noticed(s)
      <4>1. n \in ever'[s] /\ n \notin always'[s]
        BY <2>2, <3>1, <3>2
      <4>2. ~ UNCHANGED links
        <5>1. UNCHANGED links => InList' = InList
          BY LinksStill
        <5> QED BY <3>1, <5>1
      <4> QED BY <2>2, <3>1, <3>2, <4>1, <4>2 DEF Noticed
    <3> QED BY <3>4, <3>5
  <2>8. InsertFirst(t) \/ InsertLast(t) \/ Unlink(t) => data' = data
    BY DEF InsertFirst, InsertLast, Unlink
  <2> QED BY <2>5, <2>6, <2>7, <2>8, LinksMove
<1> QED BY <1>2, <1>3, <1>4

LEMMA DataKept ==
    ASSUME TypeInv, NEW t \in Threads, Step(t)
    PROVE  \A n \in Nodes : data[n] # NULL => data'[n] = data[n]
<1>1. ASSUME NEW f \in Functions, NEW u \in IF f \in {"listing", "send_message"} THEN {NULL} ELSE Users,
             Call(t, f, u)
      PROVE  \A n \in Nodes : data[n] # NULL => data'[n] = data[n]
  BY <1>1, CallBegins DEF TypeInv, TypeOK
<1> QED BY <1>1, AccessKeeps DEF Step

\* What a call must have seen can only shrink, and what it may have seen can only grow.
LEMMA MustMay ==
    ASSUME TypeInv, ListInv, NEW t \in Threads, Step(t), Watch, NEW s \in Threads, WatchOK(s),
           Fn(s) # NULL, Fn(s)' # NULL, thread'[s].user = thread[s].user
    PROVE  Must(s)' \subseteq Must(s) /\ May(s) \subseteq May(s)'
<1>1. Noticed(s)
  BY WatchStep
<1>2. \A n \in Nodes : data[n] # NULL => data'[n] = data[n]
  BY DataKept
<1>3. always[s] \subseteq ever[s] /\ ever[s] \subseteq Nodes /\ \A n \in ever[s] : data[n] # NULL
  BY DEF WatchOK, TypeInv, TypeOK
<1> QED BY <1>1, <1>2, <1>3 DEF Noticed, Must, May

\* The step of another thread.
LEMMA OtherWalks ==
    ASSUME TypeInv, ListInv, NEW t \in Threads, Step(t), Watch, NEW s \in Threads, thread'[s] = thread[s],
           WatchOK(s), WalkOK(s), AnswerOK(s), SendOK(s)
    PROVE  WalkOK(s)' /\ AnswerOK(s)' /\ SendOK(s)'
<1>1. CASE Fn(s) = NULL
  <2>1. thread'[s].pc = "idle"
    BY <1>1 DEF TypeInv, LocalOK, Fn, NoCall
  <2> QED BY <2>1 DEF WalkOK, AnswerOK, SendOK, Removing
<1>2. CASE Fn(s) # NULL
  <2>1. Fn(s)' = Fn(s) /\ Noticed(s)
    BY <1>2, WatchStep DEF Fn
  <2>2. Must(s)' \subseteq Must(s) /\ May(s) \subseteq May(s)'
    BY <1>2, <2>1, MustMay
  <2>3. /\ always'[s] \subseteq always[s] /\ ever[s] \subseteq ever'[s]
        /\ always'[s] = ever'[s] => head' = head /\ next' = next /\ always[s] = ever[s]
    BY <2>1 DEF Noticed, links
  <2>4. WalkOK(s)'
    BY <2>2, <2>3 DEF WalkOK
  <2>5. AnswerOK(s)'
    BY <2>1, <2>2 DEF AnswerOK
  <2>6. SendOK(s)'
    BY <2>3 DEF SendOK
  <2> QED BY <2>4, <2>5, <2>6
<1> QED BY <1>1, <1>2

\* The beginning of a call.
LEMMA CallWalks ==
    ASSUME TypeInv, NEW t \in Threads, NEW f \in Functions,
           NEW u \in IF f \in {"listing", "send_message"} THEN {NULL} ELSE Users, Call(t, f, u)
    PROVE  WalkOK(t)' /\ AnswerOK(t)' /\ SendOK(t)'
<1>1. thread'[t].fn = f /\ thread'[t].pc \in {"isnull", "hung", "temp"}
      /\ (thread'[t].pc = "isnull" => f = "listing")
  BY CallBegins
<1> QED BY <1>1 DEF WalkOK, AnswerOK, SendOK, Removing

\* The step of the thread itself: NULL is followed only where the list has changed.
LEMMA OwnWalk ==
    ASSUME TypeInv, ListInv, NEW t \in Threads, Access(t), Watch,
           WatchOK(t), WalkOK(t), AnswerOK(t), SendOK(t)
    PROVE  /\ WalkOK(t)' /\ AnswerOK(t)' /\ SendOK(t)'
           /\ fault' => always'[t] # ever'[t]
<1> DEFINE c == thread[t]
           A == always[t]
           E == ever[t]
           Goal == /\ WalkOK(t)' /\ AnswerOK(t)' /\ SendOK(t)'
                   /\ fault' => always'[t] # ever'[t]
<1>a. /\ TypeOK /\ LocalOK(c) /\ c \in Locals
      /\ head \in Nodes \cup {NULL} /\ \A n \in Nodes : next[n] \in Nodes \cup {NULL}
      /\ A \subseteq Nodes /\ E \subseteq Nodes
  BY DEF TypeInv, TypeOK
<1>b. AdderOK(t) /\ RemoverOK(t) /\ (c.fn \in Mutations => Active(t))
  BY AccessKeeps DEF ListInv, Active, Fn
<1>c. /\ c.pc \notin {"idle", "hung"} /\ c.fn # NULL /\ ~fault
      /\ data' = data
      /\ \/ thread'[t] = NoCall
         \/ thread'[t].fn = c.fn /\ thread'[t].user = c.user
  <2>1. c.fn # NULL
    BY <1>a, AccessKeeps DEF LocalOK, NoCall
  <2>2. ~fault
    BY DEF Access, Temp, Empty, Check, Advance, InsertFirst, InsertLast, InsertClear, IsNull, Head_, Find,
           Compare, Skip, After, Unlink, Lock, Start, Send, Unlock, Done, At
  <2> QED BY <2>1, <2>2, AccessKeeps
<1>n. \A r : Set(t, r) => thread'[t] = r
  BY <1>a DEF TypeOK, Set
<1>l. /\ A \subseteq InList /\ InList \subseteq E
      /\ \A x \in E : data[x] # NULL
      /\ \A x \in E : next[x] # NULL => next[x] \in E
      /\ \A x \in E, m \in A : x < m => next[x] # NULL /\ next[x] <= m
  BY <1>c DEF WatchOK, Fn
<1>f. /\ \A m \in InList : head # NULL /\ head \in InList /\ head <= m
      /\ \A n \in InList : next[n] # NULL => next[n] \in InList /\ n < next[n]
      /\ \A p, m \in InList : p < m => next[p] # NULL /\ next[p] <= m
      /\ InList \subseteq Nodes
      /\ head # NULL => head \in InList
  BY ListFacts DEF Linked
<1>g. ASSUME UNCHANGED links, thread'[t].fn = c.fn, thread'[t].user = c.user
      PROVE  /\ always'[t] = A /\ ever'[t] = E /\ head' = head /\ next' = next
             /\ Must(t)' = Must(t) /\ May(t)' = May(t)
  <2>1. Noticed(t) /\ head' = head /\ next' = next
    BY <1>c, <1>g, WatchStep DEF Fn, Step, links
  <2>2. always'[t] = A /\ ever'[t] = E
    BY <1>g, <2>1 DEF Noticed
  <2> QED BY <1>c, <1>g, <2>1, <2>2 DEF Must, May
<1>k. ASSUME Crash, UNCHANGED Memory, A # E PROVE Goal
  <2>1. thread'[t] = thread[t] /\ UNCHANGED links
    BY <1>k DEF Crash, Memory
  <2>2. always'[t] = A /\ ever'[t] = E
    BY <1>g, <2>1
  <2>3. WalkOK(t)' /\ AnswerOK(t)' /\ SendOK(t)'
    BY <2>1, OtherWalks DEF Step
  <2> QED BY <1>k, <2>2, <2>3
\* A step to a label that says nothing of the walk.
<1>q. ASSUME ~fault', thread'[t].pc \in {"idle", "hung", "temp", "link", "clear", "lock", "start"},
             thread'[t].pc = "link" => thread'[t].fn = "insertNode"
      PROVE  Goal
  BY <1>q DEF WalkOK, AnswerOK, SendOK, Removing
<1>r. ASSUME ~fault', thread'[t].pc = "return", thread'[t].fn \notin {"get_user", "removeUser", "insertUser"}
      PROVE  Goal
  <2>1. WalkOK(t)' /\ SendOK(t)'
    BY <1>r DEF WalkOK, SendOK, Removing
  <2>2. AnswerOK(t)'
    BY <1>r DEF AnswerOK, Fn
  <2> QED BY <1>r, <2>1, <2>2
\* A search returns.
<1>s. ASSUME ~fault', thread'[t].pc = "return", thread'[t].fn \in {"get_user", "removeUser"},
             Must(t)' # {} => thread'[t].out, thread'[t].out => May(t)' # {}
      PROVE  Goal
  <2>1. WalkOK(t)' /\ SendOK(t)'
    BY <1>s DEF WalkOK, SendOK, Removing
  <2>2. AnswerOK(t)'
    BY <1>s DEF AnswerOK, Fn
  <2> QED BY <1>s, <2>1, <2>2
<1>i. ASSUME ~fault', thread'[t].pc = "return", thread'[t].fn = "insertUser",
             Must(t)' \ {thread'[t].node} # {} => ~thread'[t].out, May(t)' # {}
      PROVE  Goal
  <2>1. WalkOK(t)' /\ SendOK(t)'
    BY <1>i DEF WalkOK, SendOK, Removing
  <2>2. AnswerOK(t)'
    BY <1>i DEF AnswerOK, Fn
  <2> QED BY <1>i, <2>1, <2>2
\* removeUser has found its node, and goes on.
<1>d. ASSUME ~fault', thread'[t].pc \in Removing, thread'[t].fn = "removeUser", thread'[t].node \in May(t)',
             thread'[t].pc = "head" /\ always'[t] = ever'[t] => head' # NULL
      PROVE  Goal
  BY <1>d DEF WalkOK, AnswerOK, SendOK, Removing
<1>1. ASSUME Temp(t) PROVE Goal
  <2>1. thread'[t] = [c EXCEPT !.pc = "empty", !.cur = head] /\ UNCHANGED links /\ ~fault'
    BY <1>1, <1>c, <1>n DEF Temp, Go, Memory
  <2>2. thread'[t].pc = "empty" /\ thread'[t].cur = head /\ thread'[t].fn = c.fn /\ thread'[t].user = c.user
    BY <1>a, <2>1 DEF Locals
  <2>3. always'[t] = A /\ ever'[t] = E
    BY <1>g, <2>1, <2>2
  <2> QED BY <1>f, <1>l, <2>1, <2>2, <2>3 DEF WalkOK, AnswerOK, SendOK, Removing
\* The cursor arrives at a node; what it must see is not before that.
<1>v. ASSUME NEW n \in E, Visit(t, n), UNCHANGED Memory, c.pc \in {"empty", "advance"},
             c.fn \in {"get_user", "removeUser", "insertUser"} => \A m \in Must(t) : n <= m
      PROVE  Goal
  <2>n. n # NULL /\ n \in Nodes /\ UNCHANGED links
    BY <1>a, <1>v, NodeFacts DEF Memory
  <2>o. c.fn \in Functions /\ ~c.out
    BY <1>a, <1>c, <1>v DEF Locals, LocalOK
  <2>3. CASE ~Wanted(t, n)
    <3>1. thread'[t] = [c EXCEPT !.pc = "check", !.cur = n] /\ ~fault'
      BY <1>v, <1>c, <1>n, <2>3, <2>n DEF Visit, Go
    <3>2. thread'[t].pc = "check" /\ thread'[t].cur = n /\ thread'[t].fn = c.fn /\ thread'[t].user = c.user
      BY <1>a, <3>1 DEF Locals
    <3>3. always'[t] = A /\ ever'[t] = E /\ Must(t)' = Must(t)
      BY <1>g, <2>n, <3>2
    <3>4. ASSUME c.fn \in {"get_user", "removeUser", "insertUser"}, NEW m \in Must(t) PROVE n < m
      <4>1. n <= m /\ data[m] = c.user /\ m \in Nodes
        BY <1>a, <1>v, <3>4 DEF Must
      <4>2. m # n
        BY <2>3, <3>4, <4>1 DEF Wanted, Fn
      <4> QED BY <2>n, <4>1, <4>2, NodeFacts
    <3> QED BY <3>1, <3>2, <3>3, <3>4 DEF WalkOK, AnswerOK, SendOK, Removing
  <2>4. CASE Wanted(t, n)
    <3>w. c.fn # "insertNode" /\ data[n] = c.user /\ n \in May(t)
      BY <2>4 DEF Wanted, Fn, May
    <3>1. CASE c.fn = "removeUser"
      <4>1. thread'[t] = [c EXCEPT !.pc = "isnull", !.cur = NULL, !.node = n] /\ ~fault'
        BY <1>v, <1>c, <1>n, <2>4, <2>n, <3>1 DEF Visit, Go, Fn
      <4>2. thread'[t].pc = "isnull" /\ thread'[t].fn = c.fn /\ thread'[t].node = n /\ thread'[t].user = c.user
        BY <1>a, <4>1 DEF Locals
      <4>3. May(t)' = May(t)
        BY <1>g, <2>n, <4>2
      <4> QED BY <1>d, <3>1, <3>w, <4>1, <4>2, <4>3 DEF Removing
    <3>2. CASE c.fn # "removeUser"
      <4>1. thread'[t] = [c EXCEPT !.pc = "return", !.cur = n, !.out = c.fn = "get_user"] /\ ~fault'
        BY <1>v, <1>c, <1>n, <2>4, <2>n, <3>2 DEF Visit, Go, Fn
      <4>2. /\ thread'[t].pc = "return" /\ thread'[t].fn = c.fn /\ thread'[t].user = c.user
            /\ thread'[t].node = c.node
        BY <1>a, <4>1 DEF Locals
      <4>o. thread'[t].out <=> c.fn = "get_user"
        BY <1>a, <4>1, Zenon DEF Locals
      <4>3. May(t)' = May(t)
        BY <1>g, <2>n, <4>2
      <4>4. CASE c.fn = "get_user"
        BY <1>s, <3>w, <4>1, <4>2, <4>o, <4>3, <4>4
      <4>5. CASE c.fn = "insertUser"
        BY <1>i, <3>w, <4>1, <4>2, <4>o, <4>3, <4>5
      <4> QED BY <1>r, <3>2, <4>1, <4>2, <4>4, <4>5
    <3> QED BY <3>1, <3>2
  <2> QED BY <2>3, <2>4
<1>e. ASSUME WalkEnds(t), UNCHANGED Memory, c.fn \notin Inserts, c.pc \in {"empty", "check"}, Must(t) = {} \/ c.fn \in {"listing", "send_message"}
      PROVE  Goal
  <2>1. thread'[t] = [c EXCEPT !.pc = CASE Fn(t) = "listing"      -> "lock"
                                        [] Fn(t) = "send_message" -> "start"
                                        [] OTHER                  -> "return"]
        /\ ~fault' /\ UNCHANGED links
    BY <1>c, <1>e, <1>n DEF WalkEnds, Go, Memory
  <2>2. thread'[t].fn = c.fn /\ thread'[t].user = c.user /\ thread'[t].out = c.out
    BY <1>a, <2>1 DEF Locals
  <2>3. CASE c.fn \in {"listing", "send_message"}
    <3>1. thread'[t].pc \in {"lock", "start"}
      BY <1>a, <2>1, <2>3 DEF Locals, Fn
    <3> QED BY <1>q, <2>1, <3>1
  <2>4. CASE c.fn \in {"get_user", "removeUser"}
    <3>1. thread'[t].pc = "return"
      BY <1>a, <2>1, <2>4 DEF Locals, Fn
    <3>2. Must(t)' = {} /\ ~thread'[t].out
      BY <1>a, <1>e, <1>g, <2>1, <2>2, <2>4 DEF LocalOK
    <3> QED BY <1>s, <2>1, <2>2, <2>4, <3>1, <3>2
  <2> QED BY <1>a, <1>c, <1>e, <2>3, <2>4 DEF Locals, Functions, Mutations, Inserts
<1>p. ASSUME NEW p \in Labels, Go(t, [c EXCEPT !.pc = p])
      PROVE  /\ thread'[t].pc = p /\ thread'[t].fn = c.fn /\ thread'[t].user = c.user
             /\ thread'[t].node = c.node /\ thread'[t].cur = c.cur /\ thread'[t].sent = c.sent /\ ~fault'
  <2>1. thread'[t] = [c EXCEPT !.pc = p] /\ ~fault'
    BY <1>c, <1>p, <1>n DEF Go
  <2> QED BY <1>a, <2>1 DEF Locals
<1>2. ASSUME Empty(t) PROVE Goal
  <2>1. c.pc = "empty" /\ UNCHANGED Memory
    BY <1>2 DEF Empty, At
  <2>2. /\ c.cur # NULL => c.cur \in E
        /\ \A m \in A : c.cur # NULL /\ c.cur <= m
    BY <2>1 DEF WalkOK
  <2>3. CASE head # NULL /\ Visit(t, c.cur)
    <3>1. CASE c.cur = NULL
      <4>1. A = {} /\ head \in E
        BY <1>f, <1>l, <2>2, <2>3, <3>1
      <4>2. Crash
        BY <2>3, <3>1 DEF Visit
      <4> QED BY <1>k, <2>1, <4>1, <4>2
    <3>2. CASE c.cur # NULL
      <4>1. c.cur \in E /\ \A m \in Must(t) : c.cur <= m
        BY <2>2, <3>2 DEF Must
      <4> QED BY <1>v, <2>1, <2>3, <4>1
    <3> QED BY <3>1, <3>2
  <2>4. CASE head = NULL /\ c.fn \in Inserts /\ Go(t, [c EXCEPT !.pc = "first"])
    <3>1. A = {}
      BY <1>l, <2>4 DEF InList
    <3>2. /\ thread'[t].pc = "first" /\ thread'[t].fn = c.fn /\ thread'[t].user = c.user /\ ~fault'
      BY <1>p, <2>4, LabelFacts
    <3>3. always'[t] = {}
      BY <1>g, <2>1, <3>1, <3>2 DEF Memory
    <3> QED BY <3>2, <3>3 DEF WalkOK, AnswerOK, SendOK, Removing
  <2>5. CASE head = NULL /\ c.fn \notin Inserts /\ WalkEnds(t)
    <3>1. Must(t) = {}
      BY <1>l, <2>5 DEF InList, Must
    <3> QED BY <1>e, <2>1, <2>5, <3>1
  <2> QED BY <1>2, <2>3, <2>4, <2>5 DEF Empty, Cur, Fn
<1>3. ASSUME Check(t) PROVE Goal
  <2>1. c.pc = "check" /\ UNCHANGED Memory /\ UNCHANGED links
    BY <1>3 DEF Check, At, Memory
  <2>2. /\ c.cur \in E
        /\ c.fn \in {"get_user", "removeUser", "insertUser"} => \A m \in Must(t) : c.cur < m
    BY <2>1 DEF WalkOK
  <2>e. ASSUME next[c.cur] = NULL, c.fn \in {"get_user", "removeUser", "insertUser"} PROVE Must(t) = {}
    BY <1>l, <2>2, <2>e DEF Must
  <2>3. CASE next[c.cur] # NULL /\ Go(t, [c EXCEPT !.pc = "advance"])
    <3>1. /\ thread'[t].pc = "advance" /\ thread'[t].fn = c.fn /\ thread'[t].user = c.user
          /\ thread'[t].cur = c.cur /\ ~fault'
      BY <1>p, <2>3, LabelFacts
    <3>2. always'[t] = A /\ ever'[t] = E /\ next' = next /\ Must(t)' = Must(t)
      BY <1>g, <2>1, <3>1
    <3> QED BY <2>2, <2>3, <3>1, <3>2 DEF WalkOK, AnswerOK, SendOK, Removing
  <2>4. CASE next[c.cur] = NULL /\ c.fn \in Inserts /\ Go(t, [c EXCEPT !.pc = "link"])
    <3>1. /\ thread'[t].pc = "link" /\ thread'[t].fn = c.fn /\ thread'[t].user = c.user /\ ~fault'
      BY <1>p, <2>4, LabelFacts
    <3>2. Must(t)' = Must(t)
      BY <1>g, <2>1, <3>1
    <3> QED BY <2>e, <2>4, <3>1, <3>2 DEF WalkOK, AnswerOK, SendOK, Removing
  <2>5. CASE next[c.cur] = NULL /\ c.fn \notin Inserts /\ WalkEnds(t)
    <3>1. c.fn \in {"get_user", "removeUser", "listing", "send_message"}
      BY <1>a, <1>c, <2>5 DEF Locals, Functions, Mutations, Inserts
    <3> QED BY <1>e, <2>1, <2>e, <2>5, <3>1
  <2> QED BY <1>3, <2>3, <2>4, <2>5 DEF Check, Cur, Fn
<1>4. ASSUME Advance(t) PROVE Goal
  <2>1. c.pc = "advance" /\ UNCHANGED Memory /\ Visit(t, next[c.cur])
    BY <1>4 DEF Advance, At, Cur
  <2>2. /\ c.cur \in E
        /\ c.fn \in {"get_user", "removeUser", "insertUser"} => \A m \in Must(t) : c.cur < m
        /\ A = E => next[c.cur] # NULL
    BY <2>1 DEF WalkOK
  <2>3. CASE next[c.cur] = NULL
    BY <1>k, <2>1, <2>2, <2>3 DEF Visit
  <2>4. CASE next[c.cur] # NULL
    <3>1. next[c.cur] \in E
      BY <1>l, <2>2, <2>4
    <3>2. c.fn \in {"get_user", "removeUser", "insertUser"} => \A m \in Must(t) : next[c.cur] <= m
      BY <1>l, <2>2 DEF Must
    <3> QED BY <1>v, <2>1, <3>1, <3>2
  <2> QED BY <2>3, <2>4
<1>t. ASSUME Return(t, TRUE), fault' = fault
      PROVE  /\ thread'[t].pc = "return" /\ thread'[t].fn = c.fn /\ thread'[t].user = c.user
             /\ thread'[t].node = c.node /\ thread'[t].out /\ ~fault'
  <2>1. thread'[t] = [c EXCEPT !.pc = "return", !.out = TRUE]
    BY <1>t, <1>n DEF Return
  <2> QED BY <1>a, <1>c, <1>t, <2>1 DEF Locals
\* insertNode and insertUser have linked their node.
<1>5. ASSUME InsertFirst(t) \/ InsertLast(t), Adds(t), Fn(t) = "insertUser" => A = {} \/ Must(t) = {},
             thread'[t].pc \in {"return", "clear"}, thread'[t].pc = "clear" => c.fn = "insertNode",
             c.fn \in Inserts, thread'[t].fn = c.fn, thread'[t].user = c.user, thread'[t].node = c.node, ~fault'
      PROVE  Goal
  <2>1. CASE c.fn = "insertNode"
    BY <1>q, <1>r, <1>5, <2>1
  <2>2. CASE c.fn = "insertUser"
    <3>1. Must(t) = {}
      BY <1>5, <2>2 DEF Fn, Must
    <3>2. Must(t)' = {} /\ Noticed(t)
      BY <1>c, <1>5, <3>1, MustMay, WatchStep DEF Fn, Step
    <3>3. c.node \in InList' /\ data[c.node] = c.user
      BY <1>b, <1>5, <2>2 DEF Adds, AdderOK, Mutations, Fn
    <3>4. c.node \in May(t)'
      BY <1>c, <1>5, <3>2, <3>3 DEF Noticed, May
    <3> QED BY <1>i, <1>5, <2>2, <3>2, <3>4
  <2> QED BY <1>5, <2>1, <2>2 DEF Inserts
<1>6. ASSUME InsertFirst(t) PROVE Goal
  <2>1. A = {} /\ c.fn \in Inserts
    BY <1>a, <1>6 DEF InsertFirst, At, WalkOK, LocalOK
  <2>2. Return(t, TRUE) /\ fault' = fault
    BY <1>6 DEF InsertFirst
  <2> QED BY <1>5, <1>6, <1>t, <2>1, <2>2, FirstAdds
<1>7. ASSUME InsertLast(t) PROVE Goal
  <2>1. c.pc = "link" /\ fault' = fault /\ c.fn \in Inserts
    BY <1>a, <1>7 DEF InsertLast, At, LocalOK
  <2>2. c.fn = "insertUser" => Must(t) = {}
    BY <2>1 DEF WalkOK
  <2>3. CASE Return(t, TRUE)
    BY <1>5, <1>7, <1>t, <2>1, <2>2, <2>3, LastAdds DEF Fn
  <2>4. CASE Fn(t) = "insertNode" /\ Set(t, [c EXCEPT !.pc = "clear"])
    <3>1. thread'[t].pc = "clear" /\ ~fault'
      BY <1>a, <1>c, <1>n, <2>1, <2>4 DEF Locals
    <3> QED BY <1>q, <3>1
  <2> QED BY <1>7, <2>3, <2>4 DEF InsertLast
<1>8. ASSUME InsertClear(t) PROVE Goal
  <2>1. c.fn = "insertNode" /\ Return(t, TRUE) /\ fault' = fault
    BY <1>a, <1>8 DEF InsertClear, At, LocalOK
  <2> QED BY <1>r, <1>t, <2>1
\* removeUser returns TRUE, having seen its node.
<1>9. ASSUME c.fn = "removeUser", c.pc \in Removing,
             (Return(t, TRUE) /\ fault' = fault) \/ Go(t, [c EXCEPT !.pc = "return", !.out = TRUE])
      PROVE  Goal
  <2>1. Return(t, TRUE) /\ fault' = fault
    BY <1>9 DEF Go, Return
  <2>2. /\ thread'[t].pc = "return" /\ thread'[t].fn = c.fn /\ thread'[t].user = c.user /\ thread'[t].out /\ ~fault'
    BY <1>t, <2>1
  <2>3. May(t)' # {}
    <3>1. c.node \in May(t)
      BY <1>9 DEF WalkOK
    <3>2. May(t) \subseteq May(t)'
      BY <1>c, <2>2, MustMay DEF Fn, Step
    <3> QED BY <3>1, <3>2
  <2> QED BY <1>9, <1>s, <2>2, <2>3
\* removeUser goes on to another label of removeNode.
<1>10. ASSUME c.fn = "removeUser", c.pc \in Removing, UNCHANGED Memory, ~fault', thread'[t].fn = c.fn,
              thread'[t].user = c.user, thread'[t].node = c.node, thread'[t].pc \in Removing,
              thread'[t].pc = "head" => head # NULL
       PROVE  Goal
  <2>1. UNCHANGED links
    BY <1>10 DEF Memory
  <2>2. May(t)' = May(t) /\ head' = head
    BY <1>g, <1>10, <2>1
  <2>3. c.node \in May(t)
    BY <1>10 DEF WalkOK
  <2> QED BY <1>d, <1>10, <2>2, <2>3
<1>11. ASSUME IsNull(t) PROVE Goal
  <2>1. c.pc = "isnull" /\ UNCHANGED Memory /\ c.fn \in {"listing", "removeUser"}
    BY <1>a, <1>11 DEF IsNull, At, LocalOK
  <2>2. CASE head # NULL /\ Go(t, [c EXCEPT !.pc = "head"])
    <3>1. /\ thread'[t].pc = "head" /\ thread'[t].fn = c.fn /\ thread'[t].user = c.user
          /\ thread'[t].node = c.node /\ ~fault'
      BY <1>p, <2>2, LabelFacts
    <3>2. CASE c.fn = "removeUser"
      BY <1>10, <2>1, <2>2, <3>1, <3>2 DEF Removing
    <3>3. CASE c.fn = "listing"
      <4>1. head' = head
        BY <1>g, <2>1, <3>1 DEF Memory
      <4> QED BY <2>2, <3>1, <3>3, <4>1 DEF WalkOK, AnswerOK, SendOK, Removing
    <3> QED BY <2>1, <3>2, <3>3
  <2>3. CASE Fn(t) = "removeUser" /\ Go(t, [c EXCEPT !.pc = "return", !.out = TRUE])
    BY <1>9, <2>1, <2>3 DEF Fn, Removing
  <2>4. CASE Go(t, [c EXCEPT !.pc = "lock"])
    BY <1>p, <1>q, <2>4, LabelFacts
  <2> QED BY <1>11, <2>2, <2>3, <2>4 DEF IsNull
<1>12. ASSUME Head_(t) PROVE Goal
  <2>1. c.pc = "head" /\ UNCHANGED Memory /\ UNCHANGED links /\ c.fn \in {"listing", "removeUser"}
    BY <1>a, <1>12 DEF Head_, At, LocalOK, Memory
  <2>2. CASE head = NULL
    <3>1. A # E
      BY <2>1, <2>2 DEF WalkOK
    <3> QED BY <1>k, <1>12, <2>1, <2>2, <3>1 DEF Head_
  <2>3. CASE head # NULL
    <3>1. /\ thread'[t] = [c EXCEPT !.cur = head, !.pc = IF Fn(t) = "listing" THEN "check"
                                           ELSE IF head = c.node THEN "after" ELSE "find"]
          /\ ~fault'
      BY <1>c, <1>12, <1>n, <2>3 DEF Head_, Go
    <3>2. /\ thread'[t].pc = (IF Fn(t) = "listing" THEN "check" ELSE IF head = c.node THEN "after" ELSE "find")
          /\ thread'[t].cur = head /\ thread'[t].node = c.node /\ thread'[t].fn = c.fn /\ thread'[t].user = c.user
      BY <1>a, <3>1 DEF Locals
    <3>3. CASE c.fn = "listing"
      <4>1. ever'[t] = E /\ head \in E /\ thread'[t].pc = "check"
        BY <1>f, <1>g, <1>l, <2>1, <2>3, <3>2, <3>3 DEF Fn
      <4> QED BY <3>1, <3>2, <3>3, <4>1 DEF WalkOK, AnswerOK, SendOK, Removing
    <3>4. CASE c.fn = "removeUser"
      <4>1. thread'[t].pc \in {"after", "find"}
        BY <3>2, <3>4 DEF Fn
      <4> QED BY <1>10, <2>1, <3>1, <3>2, <3>4, <4>1 DEF Removing
    <3> QED BY <2>1, <3>3, <3>4
  <2> QED BY <2>2, <2>3
<1>13. ASSUME Find(t) PROVE Goal
  <2>1. c.pc = "find" /\ UNCHANGED Memory /\ c.fn = "removeUser"
    BY <1>a, <1>13 DEF Find, At, LocalOK
  <2>2. CASE Go(t, [c EXCEPT !.pc = "compare"])
    BY <1>10, <1>p, <2>1, <2>2, LabelFacts DEF Removing
  <2> QED BY <1>9, <1>13, <2>1, <2>2 DEF Find, Removing
<1>14. ASSUME Compare(t) PROVE Goal
  <2>1. c.pc = "compare" /\ UNCHANGED Memory /\ c.fn = "removeUser"
    BY <1>a, <1>14 DEF Compare, At, LocalOK
  <2> DEFINE p == IF next[Cur(t)] = c.node THEN "after" ELSE "skip"
  <2>2. Go(t, [c EXCEPT !.pc = p]) /\ p \in {"after", "skip"}
    BY <1>14 DEF Compare
  <2> HIDE DEF p
  <2> QED BY <1>10, <1>p, <2>1, <2>2, LabelFacts DEF Removing
<1>15. ASSUME Skip(t) PROVE Goal
  <2>1. c.pc = "skip" /\ UNCHANGED Memory /\ c.fn = "removeUser"
    BY <1>a, <1>15 DEF Skip, At, LocalOK
  <2>2. c.cur \in InList /\ c.cur < c.node /\ c.node \in InList
    BY <1>b, <2>1 DEF RemoverOK, Removing, Mutations, Fn
  <2>3. next[c.cur] # NULL
    BY <1>f, <2>2
  <2>4. thread'[t] = [c EXCEPT !.pc = "find", !.cur = next[c.cur]] /\ ~fault'
    BY <1>15, <1>c, <1>n, <2>3 DEF Skip, Go, Cur
  <2>5. /\ thread'[t].pc = "find" /\ thread'[t].node = c.node /\ thread'[t].fn = c.fn /\ thread'[t].user = c.user
    BY <1>a, <2>4 DEF Locals
  <2> QED BY <1>10, <2>1, <2>4, <2>5 DEF Removing
<1>16. ASSUME After(t) PROVE Goal
  <2>1. c.pc = "after" /\ UNCHANGED Memory /\ c.fn = "removeUser"
    BY <1>a, <1>16 DEF After, At, LocalOK
  <2>2. /\ c.node \in InList
        /\ (c.cur = c.node /\ head = c.node) \/ (c.cur \in InList /\ next[c.cur] = c.node)
    BY <1>b, <2>1 DEF RemoverOK, Removing, Mutations, Fn
  <2>3. (IF c.cur = c.node THEN c.cur ELSE next[c.cur]) = c.node
    BY <2>2
  <2>4. thread'[t] = [c EXCEPT !.pc = "unlink", !.succ = next[c.node]] /\ ~fault'
    BY <1>16, <1>c, <1>f, <1>n, <2>2, <2>3, NodeFacts DEF After, Go, Cur
  <2>5. /\ thread'[t].pc = "unlink" /\ thread'[t].node = c.node /\ thread'[t].fn = c.fn /\ thread'[t].user = c.user
    BY <1>a, <2>4 DEF Locals
  <2> QED BY <1>10, <2>1, <2>4, <2>5 DEF Removing
<1>17. ASSUME Unlink(t) PROVE Goal
  <2>1. c.pc = "unlink" /\ c.fn = "removeUser" /\ Return(t, TRUE) /\ fault' = fault
    BY <1>a, <1>17 DEF Unlink, At, LocalOK
  <2> QED BY <1>9, <2>1 DEF Removing
<1>18. ASSUME Lock(t) PROVE Goal
  <2>1. thread'[t].pc = "start" /\ ~fault'
    BY <1>a, <1>c, <1>n, <1>18 DEF Lock, Locals
  <2> QED BY <1>q, <2>1
<1>19. ASSUME Start(t) PROVE Goal
  <2>1. c.pc = "start" /\ UNCHANGED links /\ ~fault' /\ c.sent = <<>>
        /\ thread'[t] = [c EXCEPT !.pc = "send", !.cur = head]
    BY <1>a, <1>c, <1>n, <1>19 DEF Start, At, Memory, Go, LocalOK
  <2>2. /\ thread'[t].pc = "send" /\ thread'[t].cur = head /\ thread'[t].fn = c.fn /\ thread'[t].user = c.user
        /\ thread'[t].sent = <<>>
    BY <1>a, <2>1 DEF Locals
  <2>3. always'[t] = A /\ ever'[t] = E
    BY <1>g, <2>1, <2>2
  <2>4. \A m \in A : head # NULL /\ ~ (m < head)
    <3>1. ASSUME NEW m \in A PROVE head # NULL /\ ~ (m < head)
      <4>1. head # NULL /\ head <= m /\ m \in Nodes /\ head \in Nodes
        BY <1>a, <1>f, <1>l
      <4> QED BY <4>1, NodeFacts
    <3> QED BY <3>1
  <2>5. Len(thread'[t].sent) = 0
    BY <2>2, EmptySeq
  <2>6. SendOK(t)'
    BY <1>f, <1>l, <2>2, <2>3, <2>4, <2>5 DEF SendOK
  <2> QED BY <2>1, <2>2, <2>6 DEF WalkOK, AnswerOK, Removing
<1>20. ASSUME Send(t) PROVE Goal
  <2>1. c.pc = "send" /\ UNCHANGED links /\ ~fault'
    BY <1>c, <1>20 DEF Send, At, Memory, Go
  <2>2. /\ \A i \in 1 .. Len(c.sent) : c.sent[i] \in E
        /\ \A i, j \in 1 .. Len(c.sent) : i < j => c.sent[i] < c.sent[j]
        /\ c.cur # NULL => c.cur \in E /\ \A i \in 1 .. Len(c.sent) : c.sent[i] < c.cur
        /\ \A m \in A : c.cur = NULL \/ m < c.cur => \E i \in 1 .. Len(c.sent) : c.sent[i] = m
    BY <2>1 DEF SendOK
  <2>3. CASE c.cur = NULL
    <3>1. Go(t, [c EXCEPT !.pc = "unlock"])
      BY <1>20, <2>3 DEF Send, Cur
    <3>2. /\ thread'[t].pc = "unlock" /\ thread'[t].fn = c.fn /\ thread'[t].user = c.user
          /\ thread'[t].cur = c.cur /\ thread'[t].sent = c.sent
      BY <1>p, <3>1, LabelFacts
    <3>3. always'[t] = A /\ ever'[t] = E
      BY <1>g, <2>1, <3>2
    <3>4. SendOK(t)'
      BY <2>2, <2>3, <3>2, <3>3 DEF SendOK
    <3> QED BY <2>1, <3>2, <3>4 DEF WalkOK, AnswerOK, Removing
  <2>4. CASE c.cur # NULL
    <3> DEFINE q == Append(c.sent, c.cur)
    <3>1. thread'[t] = [c EXCEPT !.cur = next[c.cur], !.sent = q]
      BY <1>20, <1>n, <2>4 DEF Send, Cur, Go
    <3>2. c.sent \in Seq(Nodes) /\ c.cur \in Nodes
      BY <1>a, <2>4 DEF Locals
    <3>3. /\ Len(q) = Len(c.sent) + 1 /\ Len(c.sent) \in Nat /\ q[Len(c.sent) + 1] = c.cur
          /\ \A i \in 1 .. Len(c.sent) : q[i] = c.sent[i] /\ c.sent[i] \in Nodes
      BY <3>2
    <3> HIDE DEF q
    <3>4. /\ thread'[t].pc = "send" /\ thread'[t].fn = c.fn /\ thread'[t].user = c.user
          /\ thread'[t].cur = next[c.cur] /\ thread'[t].sent = q
      BY <1>a, <2>1, <3>1 DEF Locals
    <3>5. always'[t] = A /\ ever'[t] = E
      BY <1>g, <2>1, <3>4
    <3>6. \A i \in 1 .. Len(q) : q[i] \in E /\ q[i] <= c.cur
      <4>1. ASSUME NEW i \in 1 .. Len(c.sent) PROVE q[i] \in E /\ q[i] <= c.cur
        <5>1. c.sent[i] < c.cur /\ c.sent[i] \in E /\ c.sent[i] \in Nodes
          BY <2>2, <2>4, <3>3
        <5> QED BY <3>2, <3>3, <5>1, NodeFacts
      <4>2. c.cur \in E /\ c.cur \in Nat
        BY <2>2, <2>4, <3>2, NodeFacts
      <4> QED BY <3>3, <4>1, <4>2
    <3>7. \A i, j \in 1 .. Len(q) : i < j => q[i] < q[j]
      <4>1. ASSUME NEW i \in 1 .. Len(q), NEW j \in 1 .. Len(q), i < j PROVE q[i] < q[j]
        <5>1. i \in 1 .. Len(c.sent)
          BY <3>3, <4>1
        <5>2. CASE j \in 1 .. Len(c.sent)
          BY <2>2, <3>3, <4>1, <5>1, <5>2
        <5>3. CASE j = Len(c.sent) + 1
          BY <2>2, <2>4, <3>3, <5>1, <5>3
        <5> QED BY <3>3, <5>2, <5>3
      <4> QED BY <4>1
    <3>8. next[c.cur] # NULL => next[c.cur] \in E /\ \A i \in 1 .. Len(q) : q[i] < next[c.cur]
      <4>1. SUFFICES ASSUME next[c.cur] # NULL PROVE next[c.cur] \in E /\ \A i \in 1 .. Len(q) : q[i] < next[c.cur]
        OBVIOUS
      <4>2. next[c.cur] \in E /\ c.cur < next[c.cur] /\ next[c.cur] \in Nodes
        BY <1>a, <1>l, <2>2, <2>4, <3>2, <4>1 DEF ListInv, Forward
      <4>3. ASSUME NEW i \in 1 .. Len(q) PROVE q[i] < next[c.cur]
        <5>1. q[i] <= c.cur /\ q[i] \in Nodes
          BY <1>a, <3>6
        <5> QED BY <3>2, <4>2, <5>1, NodeFacts
      <4> QED BY <4>2, <4>3
    <3>9. ASSUME NEW m \in A, next[c.cur] = NULL \/ m < next[c.cur] PROVE \E i \in 1 .. Len(q) : q[i] = m
      <4>0. m \in Nat /\ c.cur \in Nat /\ c.cur \in E
        BY <1>a, <2>2, <2>4, <3>2, NodeFacts
      <4>1. CASE m < c.cur
        <5>1. PICK i \in 1 .. Len(c.sent) : c.sent[i] = m
          BY <2>2, <4>1
        <5>2. i \in 1 .. Len(q) /\ q[i] = m
          BY <3>3, <5>1
        <5> QED BY <5>2
      <4>2. CASE m = c.cur
        <5>1. Len(c.sent) + 1 \in 1 .. Len(q)
          BY <3>3
        <5> QED BY <3>3, <4>2, <5>1
      <4>3. CASE c.cur < m
        <5>1. next[c.cur] # NULL /\ next[c.cur] <= m
          BY <1>l, <4>0, <4>3
        <5>2. next[c.cur] \in Nat
          BY <1>a, <3>2, <5>1, NodeFacts
        <5> QED BY <3>9, <4>0, <5>1, <5>2
      <4> QED BY <4>0, <4>1, <4>2, <4>3
    <3>10. SendOK(t)'
      BY <3>4, <3>5, <3>6, <3>7, <3>8, <3>9 DEF SendOK
    <3> QED BY <2>1, <3>4, <3>10 DEF WalkOK, AnswerOK, Removing
  <2> QED BY <2>3, <2>4
<1>21. ASSUME Unlock(t) PROVE Goal
  <2>1. Return(t, TRUE) /\ fault' = fault /\ c.fn \in {"listing", "send_message"}
    BY <1>a, <1>21 DEF Unlock, At, LocalOK
  <2> QED BY <1>r, <1>t, <2>1
<1>22. ASSUME Done(t) PROVE Goal
  <2>1. thread'[t].pc = "idle" /\ ~fault'
    BY <1>22, <1>c, <1>n DEF Done, NoCall
  <2> QED BY <1>q, <2>1
<1> QED
  BY <1>1, <1>2, <1>3, <1>4, <1>6, <1>7, <1>8, <1>11, <1>12, <1>13, <1>14, <1>15, <1>16, <1>17, <1>18, <1>19,
     <1>20, <1>21, <1>22 DEF Access

LEMMA WalkInit == Init => WalkInv
<1> SUFFICES ASSUME Init PROVE WalkInv
  OBVIOUS
<1>1. \A t \in Threads : thread[t] = NoCall /\ always[t] = {} /\ ever[t] = {}
  BY DEF Init
<1>2. \A t \in Threads : WatchOK(t) /\ WalkOK(t) /\ AnswerOK(t) /\ SendOK(t)
  BY <1>1 DEF NoCall, WatchOK, WalkOK, AnswerOK, SendOK, Removing, Fn
<1> QED BY <1>2 DEF WalkInv

\* The walk invariant is inductive.
LEMMA WalkStep ==
    ASSUME TypeInv, ListInv, WalkInv, [Next]_vars
    PROVE  WalkInv'
<1>1. ASSUME NEW t \in Threads, Step(t), Watch PROVE WalkInv'
  <2>1. \A s \in Threads : WatchOK(s)'
    BY <1>1, WatchStep DEF WalkInv
  <2>2. ASSUME NEW s \in Threads, s # t PROVE WalkOK(s)' /\ AnswerOK(s)' /\ SendOK(s)'
    <3>1. thread'[s] = thread[s]
      BY <1>1, <2>2, StepTyped DEF Typed
    <3> QED BY <1>1, <3>1, OtherWalks DEF WalkInv
  <2>3. ASSUME NEW f \in Functions, NEW u \in IF f \in {"listing", "send_message"} THEN {NULL} ELSE Users,
               Call(t, f, u)
        PROVE  WalkOK(t)' /\ AnswerOK(t)' /\ SendOK(t)'
    BY <2>3, CallWalks
  <2>4. ASSUME Access(t) PROVE WalkOK(t)' /\ AnswerOK(t)' /\ SendOK(t)'
    BY <1>1, <2>4, OwnWalk DEF WalkInv
  <2>5. WalkOK(t)' /\ AnswerOK(t)' /\ SendOK(t)'
    BY <1>1, <2>3, <2>4 DEF Step
  <2> QED BY <2>1, <2>2, <2>5 DEF WalkInv
<1>2. CASE UNCHANGED vars
  <2>1. /\ UNCHANGED <<links, head, next, data, thread, always, ever, fault>>
    BY <1>2 DEF vars, links
  <2>2. InList' = InList
    BY <2>1, LinksStill
  <2>3. \A t \in Threads : Must(t)' = Must(t) /\ May(t)' = May(t)
    BY <2>1 DEF Must, May
  <2>4. \A t \in Threads : WatchOK(t)'
    BY <2>1, <2>2 DEF WalkInv, WatchOK, Fn
  <2>5. \A t \in Threads : WalkOK(t)'
    BY <2>1, <2>3 DEF WalkInv, WalkOK
  <2>6. \A t \in Threads : AnswerOK(t)'
    BY <2>1, <2>3 DEF WalkInv, AnswerOK, Fn
  <2>7. \A t \in Threads : SendOK(t)'
    BY <2>1 DEF WalkInv, SendOK
  <2> QED BY <2>4, <2>5, <2>6, <2>7 DEF WalkInv
<1> QED BY <1>1, <1>2 DEF Next, Step

\* The three invariants together.
LEMMA WalksInductive ==
    ASSUME ~Overlap
    PROVE  Spec => [](TypeInv /\ ListInv /\ WalkInv)
<1> DEFINE Inv == TypeInv /\ ListInv /\ WalkInv
<1>1. Init => Inv
  BY TypeInit, ListInit, WalkInit
<1>2. Inv /\ [Next]_vars => Inv'
  BY TypeStep, ListStep, WalkStep
<1> QED BY <1>1, <1>2, PTL DEF Spec

\* One change at a time, a search that runs while the list changes is right about some
\* moment of its call (get_user, the duplicate test of insertUser, removeUser).
THEOREM AnswersCorrect ==
    ASSUME ~Overlap
    PROVE  Spec => []AnswerIsRight
<1>1. WalkInv => AnswerIsRight
  BY DEF WalkInv, AnswerOK, AnswerIsRight
<1> QED BY <1>1, WalksInductive, PTL

\* One change at a time, a listing or a broadcast sends one packet for each user who is in
\* the list all the time and none for a user who never is, however many users are added
\* and removed under its cursor (get_active_users, get_room_users, send_message).
THEOREM WalksCorrect ==
    ASSUME ~Overlap
    PROVE  Spec => []WalkReachesEachOnce
<1>1. ASSUME TypeInv, WalkInv PROVE WalkReachesEachOnce
  <2>1. ASSUME NEW t \in Threads, thread[t].pc = "unlock"
        PROVE  /\ always[t] \subseteq ToSet(thread[t].sent)
               /\ ToSet(thread[t].sent) \subseteq ever[t]
               /\ IsInjective(thread[t].sent)
    <3> DEFINE q == thread[t].sent
    <3>1. q \in Seq(Nodes)
      BY <1>1 DEF TypeInv, TypeOK, Locals
    <3>2. /\ \A i \in 1 .. Len(q) : q[i] \in ever[t]
          /\ \A i, j \in 1 .. Len(q) : i < j => q[i] < q[j]
          /\ \A m \in always[t] : \E i \in 1 .. Len(q) : q[i] = m
      BY <1>1, <2>1 DEF WalkInv, SendOK
    <3>3. DOMAIN q = 1 .. Len(q) /\ Len(q) \in Nat /\ \A i \in 1 .. Len(q) : q[i] \in Nat
      BY <3>1, NodeFacts
    <3> HIDE DEF q
    <3>4. always[t] \subseteq ToSet(q) /\ ToSet(q) \subseteq ever[t]
      BY <3>2, <3>3 DEF ToSet
    <3>5. \A i, j \in 1 .. Len(q) : q[i] = q[j] => i = j
      BY <3>2, <3>3
    <3>6. IsInjective(q)
      BY <3>3, <3>5 DEF IsInjective
    <3> QED BY <3>4, <3>6 DEF q
  <2> QED BY <2>1 DEF WalkReachesEachOnce
<1>2. TypeInv /\ WalkInv => WalkReachesEachOnce
  BY <1>1
<1> QED BY <1>2, WalksInductive, PTL

\* A call that has not changed the list yet, and will, has seen no change of it.
Undisturbed ==
    \A t \in Threads : Active(t) /\ thread[t].pc \notin {"clear", "return"} => always[t] = ever[t]

\* Up to its own change such a call leaves the list as it is.
LEMMA BeforeChange ==
    ASSUME TypeInv, ListInv, NEW t \in Threads, Access(t),
           Active(t)', thread'[t].pc \notin {"clear", "return"}
    PROVE  /\ Active(t) /\ thread[t].pc \notin {"clear", "return"}
           /\ Fn(t)' = Fn(t) /\ thread'[t].user = thread[t].user
           /\ data' = data /\ UNCHANGED links /\ InList' = InList
<1>a. TypeOK /\ thread[t] \in Locals
  BY DEF TypeInv, TypeOK
<1>1. thread'[t] # NoCall
  BY Constants DEF Active, Fn, NoCall, Functions, Mutations, Inserts
<1>2. thread[t].pc \notin {"idle", "hung"} /\ data' = data
      /\ thread'[t].fn = thread[t].fn /\ thread'[t].user = thread[t].user
  BY <1>1, AccessKeeps
<1>3. Active(t) /\ Fn(t)' = Fn(t)
  BY <1>2 DEF Active, Fn
<1>n. \A r : Set(t, r) => thread'[t] = r
  BY <1>a DEF TypeOK, Set
<1>4. ~ InsertFirst(t) /\ ~ InsertLast(t) /\ ~ InsertClear(t) /\ ~ Unlink(t)
  <2>1. ASSUME Return(t, TRUE) PROVE FALSE
    BY <1>a, <1>n, <2>1 DEF Return, Locals
  <2>2. ASSUME Set(t, [thread[t] EXCEPT !.pc = "clear"]) PROVE FALSE
    BY <1>a, <1>n, <2>2 DEF Locals
  <2> QED BY <2>1, <2>2 DEF InsertFirst, InsertLast, InsertClear, Unlink
<1>5. ~ Done(t)
  BY <1>1, <1>n DEF Done
<1>6. thread[t].pc \notin {"clear", "return"}
  BY <1>4, <1>5 DEF Access, At, Temp, Empty, Check, Advance, IsNull, Head_, Find, Compare, Skip,
        After, Lock, Start, Send, Unlock
<1>7. UNCHANGED links /\ InList' = InList
  BY <1>4, LinksMove DEF Step
<1> QED BY <1>2, <1>3, <1>6, <1>7

LEMMA UndisturbedStep ==
    ASSUME TypeInv, ListInv, WalkInv, Undisturbed, ~Overlap, [Next]_vars
    PROVE  Undisturbed'
<1>a. \A s \in Threads : Active(s) => Fn(s) # NULL
  BY Constants DEF Active, Mutations, Inserts, Functions
<1>1. ASSUME NEW t \in Threads, Step(t), Watch,
             NEW s \in Threads, Active(s)', thread'[s].pc \notin {"clear", "return"}
      PROVE  always'[s] = ever'[s]
  <2>1. /\ Fn(s)' # NULL /\ Fn(s) = NULL => always'[s] = InList' /\ ever'[s] = ever[s] \cup InList'
        /\ Fn(s)' # NULL /\ Fn(s) # NULL => always'[s] = always[s] \cap InList'
                                            /\ ever'[s] = ever[s] \cup InList'
    BY <1>1 DEF Watch, Fn
  <2>2. ASSUME Active(s), thread[s].pc \notin {"clear", "return"}, Fn(s)' = Fn(s), InList' = InList
        PROVE  always'[s] = ever'[s]
    <3>1. always[s] \subseteq InList /\ InList \subseteq ever[s] /\ always[s] = ever[s]
      BY <1>a, <2>2 DEF WalkInv, WatchOK, Undisturbed
    <3> QED BY <1>a, <2>1, <2>2, <3>1
  <2>3. CASE s # t
    <3>1. thread'[s] = thread[s]
      BY <1>1, <2>3, StepTyped DEF Typed
    <3>2. Active(s) /\ Fn(s)' = Fn(s) /\ thread[s].pc \notin {"clear", "return"}
      BY <1>1, <3>1 DEF Active, Fn
    <3> QED BY <1>1, <2>2, <2>3, <3>2, ActiveStep
  <2>4. ASSUME s = t, NEW f \in Functions,
               NEW u \in IF f \in {"listing", "send_message"} THEN {NULL} ELSE Users, Call(t, f, u)
        PROVE  always'[s] = ever'[s]
    <3>1. thread[s] = NoCall /\ thread'[s].fn = f
      BY <2>4, CallBegins
    <3>2. Fn(s) = NULL /\ Fn(s)' # NULL
      BY <3>1, Constants DEF Fn, NoCall, Functions, Mutations
    <3>3. ever[s] = {}
      BY <3>2 DEF WalkInv, WatchOK
    <3> QED BY <2>1, <3>2, <3>3
  <2>5. CASE s = t /\ Access(t)
    BY <1>1, <2>2, <2>5, BeforeChange
  <2> QED BY <1>1, <2>3, <2>4, <2>5 DEF Step
<1>2. CASE UNCHANGED vars
  BY <1>2 DEF vars, Undisturbed, Active, Fn
<1> QED BY <1>1, <1>2 DEF Next, Step, Undisturbed

\* A call crashes where it reads a pointer for the second time; that step writes nothing.
LEMMA CrashMovesNothing ==
    ASSUME NEW t \in Threads, Access(t), fault'
    PROVE  Crash /\ UNCHANGED Memory /\ thread[t].pc \notin {"idle", "hung", "clear", "return"}
<1>1. ~fault
  BY DEF Access, Temp, Empty, Check, Advance, InsertFirst, InsertLast, InsertClear, IsNull, Head_, Find,
         Compare, Skip, After, Unlink, Lock, Start, Send, Unlock, Done, At
<1>2. \A r : ~Go(t, r)
  BY <1>1 DEF Go
<1>3. ~WalkEnds(t) /\ \A n : Visit(t, n) => Crash
  <2>1. ~WalkEnds(t)
    BY <1>2, Zenon DEF WalkEnds
  <2>2. ASSUME NEW n, Visit(t, n) PROVE Crash
    BY <1>2, <2>2, Zenon DEF Visit
  <2> QED BY <2>1, <2>2
<1>4. Empty(t) \/ Advance(t) \/ Head_(t) \/ Skip(t) \/ After(t)
  BY <1>1, <1>2, <1>3 DEF Access, Temp, Check, InsertFirst, InsertLast, InsertClear, IsNull, Find,
         Compare, Unlink, Lock, Start, Send, Unlock, Done
<1> QED BY <1>2, <1>3, <1>4 DEF Empty, Advance, Head_, Skip, After, At

\* One change at a time, NULL is followed only by a call under which the list has changed,
\* and never by the call that changes it (the `temp->next' reads of linked_list.c that
\* are not checked).
THEOREM CrashesCorrect ==
    ASSUME ~Overlap
    PROVE  Spec => CrashNeedsChange
<1> DEFINE Inv == TypeInv /\ ListInv /\ WalkInv /\ Undisturbed
           Harmless == \A t \in Threads :
                           fault' /\ Access(t) => always[t] # ever[t] /\ Fn(t) \notin Mutations
<1>1. Init => Undisturbed
  BY DEF Init, Undisturbed
<1>2. TypeInv /\ ListInv /\ WalkInv /\ Undisturbed /\ [Next]_vars => Undisturbed'
  BY UndisturbedStep
<1>3. ASSUME Inv, [Next]_vars, NEW t \in Threads, fault', Access(t)
      PROVE  always[t] # ever[t] /\ Fn(t) \notin Mutations
  <2>1. Crash /\ UNCHANGED Memory /\ thread[t].pc \notin {"idle", "hung", "clear", "return"}
    BY <1>3, CrashMovesNothing
  <2>2. Watch
    <3>1. ~fault
      BY <1>3 DEF Access, Temp, Empty, Check, Advance, InsertFirst, InsertLast, InsertClear, IsNull, Head_,
                  Find, Compare, Skip, After, Unlink, Lock, Start, Send, Unlock, Done, At
    <3> QED BY <1>3, <3>1 DEF Next, vars
  <2>3. always'[t] # ever'[t]
    BY <1>3, <2>2, OwnWalk DEF WalkInv
  <2>4. Fn(t) # NULL /\ Fn(t)' = Fn(t) /\ UNCHANGED links
    BY <1>3, <2>1 DEF Crash, Memory, Fn, TypeInv, LocalOK, NoCall
  <2>5. Noticed(t)
    BY <1>3, <2>2, <2>4, WatchStep DEF Step, WalkInv
  <2>6. always[t] # ever[t]
    BY <2>3, <2>4, <2>5 DEF Noticed
  <2> QED BY <1>3, <2>1, <2>6 DEF Undisturbed, Active, Fn
<1>4. Inv /\ [Next]_vars => [Harmless]_vars
  BY <1>3
<1>5. Spec => [](TypeInv /\ ListInv /\ WalkInv)
  BY WalksInductive
<1>6. Spec => [][Harmless]_vars
  BY <1>1, <1>2, <1>4, <1>5, PTL DEF Spec
<1> QED BY <1>6 DEF CrashNeedsChange

-----------------------------------------------------------------------------
(* The list of users a list of nodes stands for. *)

\* c has the elements of S in their order.
InOrder(c, S) ==
    /\ c \in [1 .. Cardinality(S) -> S]
    /\ \A i, j \in 1 .. Cardinality(S) : i < j => c[i] < c[j]
    /\ \A n \in S : \E i \in 1 .. Cardinality(S) : c[i] = n

\* The elements of a set from n on.
Ahead(n, S) == {m \in S : n <= m}

\* They are one more for each step down, from 1 to all of them.
LEMMA AheadCounts ==
    ASSUME NEW S, IsFiniteSet(S), S \subseteq Nat
    PROVE  /\ \A n \in S : Cardinality(Ahead(n, S)) \in 1 .. Cardinality(S)
           /\ \A m, n \in S : m < n => Cardinality(Ahead(n, S)) < Cardinality(Ahead(m, S))
           /\ \A i \in 1 .. Cardinality(S) : \E n \in S : Cardinality(Ahead(n, S)) = i
<1> DEFINE size == Cardinality(S)
           up == [n \in S |-> Cardinality(Ahead(n, S))]
<1>1. ASSUME NEW n \in S
      PROVE  IsFiniteSet(Ahead(n, S)) /\ up[n] = Cardinality(Ahead(n, S)) /\ up[n] \in 1 .. size
  <2>1. Ahead(n, S) \subseteq S /\ n \in Ahead(n, S)
    BY DEF Ahead
  <2>2. IsFiniteSet(Ahead(n, S)) /\ Cardinality(Ahead(n, S)) <= size
    BY <2>1, FS_Subset
  <2>3. Cardinality(Ahead(n, S)) \in Nat /\ Cardinality(Ahead(n, S)) # 0 /\ size \in Nat
    BY <2>1, <2>2, FS_CardinalityType, FS_EmptySet
  <2> QED BY <2>2, <2>3
<1>2. size \in Nat
  BY FS_CardinalityType
<1>3. ASSUME NEW m \in S, NEW n \in S, m < n PROVE up[n] < up[m]
  <2>1. Ahead(n, S) \subseteq Ahead(m, S)
    <3>1. ASSUME NEW k \in S, n <= k PROVE m <= k
      <4>1. m \in Nat /\ n \in Nat /\ k \in Nat
        OBVIOUS
      <4> QED BY <1>3, <3>1, <4>1
    <3> QED BY <3>1 DEF Ahead
  <2>2. m \in Ahead(m, S) /\ m \notin Ahead(n, S)
    <3>1. m \in Nat /\ n \in Nat
      OBVIOUS
    <3> QED BY <1>3, <3>1 DEF Ahead
  <2>3. Cardinality(Ahead(n, S)) <= Cardinality(Ahead(m, S)) /\ Cardinality(Ahead(n, S)) # Cardinality(Ahead(m, S))
    BY <1>1, <2>1, <2>2, FS_Subset
  <2>4. up[m] \in Nat /\ up[n] \in Nat
    BY <1>1, <1>2
  <2> QED BY <1>1, <2>3, <2>4
<1>4. up \in [S -> 1 .. size]
  BY <1>1
<1>5. ASSUME NEW m \in S, NEW n \in S, up[m] = up[n] PROVE m = n
  <2>1. m \in Nat /\ n \in Nat /\ up[m] \in Nat /\ up[n] \in Nat
    BY <1>1, <1>2
  <2>2. ~ (m < n) /\ ~ (n < m)
    BY <1>3, <1>5, <2>1
  <2> QED BY <2>1, <2>2
<1>6. up \in Injection(S, 1 .. size)
  BY <1>4, <1>5 DEF Injection, IsInjective
<1>7. IsFiniteSet(1 .. size) /\ Cardinality(1 .. size) = size
  BY <1>2, FS_Interval
<1>8. up \in Surjection(S, 1 .. size)
  BY <1>6, <1>7, FS_Injection
<1>9. \A i \in 1 .. size : \E n \in S : up[n] = i
  BY <1>8 DEF Surjection
<1> QED BY <1>1, <1>3, <1>9

\* So counting what lies ahead of each element puts a set into its order.
LEMMA CountsOrder ==
    ASSUME NEW S, IsFiniteSet(S), S \subseteq Nat, NEW c, DOMAIN c = 1 .. Cardinality(S),
           c = [i \in DOMAIN c |-> c[i]],
           \A i \in 1 .. Cardinality(S) : c[i] \in S /\ Cardinality(Ahead(c[i], S)) = 1 + Cardinality(S) - i
    PROVE  InOrder(c, S)
<1> DEFINE size == Cardinality(S)
           up(n) == Cardinality(Ahead(n, S))
<1>1. size \in Nat
  BY FS_CardinalityType
<1>2. /\ \A n \in S : up(n) \in 1 .. size
      /\ \A m, n \in S : m < n => up(n) < up(m)
      /\ \A i \in 1 .. size : \E n \in S : up(n) = i
  BY AheadCounts
<1>3. \A n \in S : up(n) \in Nat
  BY <1>1, <1>2
<1>4. \A i \in 1 .. size : c[i] \in S /\ c[i] \in Nat /\ up(c[i]) = 1 + size - i
  OBVIOUS
<1>5. c \in [1 .. size -> S]
  BY <1>4
<1> HIDE DEF up
<1>6. ASSUME NEW i \in 1 .. size, NEW j \in 1 .. size, i < j PROVE c[i] < c[j]
  <2>1. c[i] \in S /\ c[j] \in S /\ c[i] \in Nat /\ c[j] \in Nat
    BY <1>4
  <2>2. up(c[j]) < up(c[i])
    <3>1. up(c[i]) = 1 + size - i /\ up(c[j]) = 1 + size - j
      BY <1>4
    <3> HIDE DEF size
    <3> QED BY <1>1, <1>6, <3>1
  <2>3. up(c[i]) \in Nat /\ up(c[j]) \in Nat
    BY <1>3, <2>1
  <2>4. c[j] < c[i] => up(c[i]) < up(c[j])
    BY <1>2, <2>1
  <2>5. c[j] = c[i] => up(c[i]) = up(c[j])
    OBVIOUS
  <2>6. ~ (c[j] < c[i]) /\ c[i] # c[j]
    BY <2>2, <2>3, <2>4, <2>5
  <2> QED BY <2>1, <2>6
<1>7. ASSUME NEW n \in S PROVE \E i \in 1 .. size : c[i] = n
  <2> DEFINE i == 1 + size - up(n)
  <2>1. up(n) \in 1 .. size
    BY <1>2
  <2>2. i \in 1 .. size /\ 1 + size - i = up(n)
    <3> HIDE DEF size
    <3> QED BY <1>1, <2>1
  <2> HIDE DEF i
  <2>3. c[i] \in S /\ up(c[i]) = up(n) /\ c[i] \in Nat /\ n \in Nat /\ up(n) \in Nat
    BY <1>3, <1>4, <2>2
  <2>4. ~ (c[i] < n) /\ ~ (n < c[i])
    BY <1>2, <2>3
  <2>5. c[i] = n
    BY <2>3, <2>4
  <2> QED BY <2>2, <2>5
<1> QED BY <1>5, <1>6, <1>7 DEF InOrder

\* A set has one order.
LEMMA OrderOnce ==
    ASSUME NEW S, IsFiniteSet(S), S \subseteq Nat, NEW c, NEW d, InOrder(c, S), InOrder(d, S)
    PROVE  c = d
<1> DEFINE I == 1 .. Cardinality(S)
           Bad == {i \in I : c[i] # d[i]}
<1>1. Cardinality(S) \in Nat
  BY FS_CardinalityType
<1>2. c \in [I -> S] /\ d \in [I -> S] /\ \A i \in I : c[i] \in Nat /\ d[i] \in Nat
  BY DEF InOrder
<1>3. SUFFICES ASSUME Bad # {} PROVE FALSE
  <2>1. Bad = {} => \A i \in I : c[i] = d[i]
    OBVIOUS
  <2> HIDE DEF I
  <2>2. \A g, h \in [I -> S] : (\A i \in I : g[i] = h[i]) => g = h
    OBVIOUS
  <2> QED BY <1>2, <2>1, <2>2
<1>4. PICK i \in Bad : \A j \in Bad : i <= j
  <2>1. Bad \subseteq Nat
    BY <1>1
  <2> HIDE DEF Bad
  <2> QED BY <1>3, <2>1, Least
<1>5. i \in I /\ i \in Nat /\ c[i] # d[i]
  BY <1>1
<1>6. \A j \in I : j < i => c[j] = d[j]
  BY <1>1, <1>4, <1>5
<1>7. ASSUME NEW a, NEW b, InOrder(a, S), InOrder(b, S), \A j \in I : j < i => a[j] = b[j], a[i] < b[i]
      PROVE  FALSE
  <2>1. a[i] \in S
    BY <1>5, <1>7 DEF InOrder
  <2>2. PICK j \in I : b[j] = a[i]
    BY <1>7, <2>1 DEF InOrder
  <2>3. /\ \A k, l \in I : k < l => a[k] < a[l] /\ b[k] < b[l]
        /\ \A k \in I : a[k] \in Nat /\ b[k] \in Nat
    BY <1>7 DEF InOrder
  <2>4. CASE j < i
    <3>1. a[j] = a[i] /\ a[j] < a[i]
      BY <1>5, <1>7, <2>2, <2>3, <2>4
    <3> QED BY <1>5, <2>3, <3>1
  <2>5. CASE j = i
    BY <1>5, <1>7, <2>2, <2>3, <2>5
  <2>6. CASE i < j
    <3>1. b[i] < b[j]
      BY <1>5, <2>3, <2>6
    <3> QED BY <1>5, <1>7, <2>2, <2>3, <3>1
  <2>7. j \in Nat
    BY <1>1
  <2> QED BY <1>5, <2>4, <2>5, <2>6, <2>7
<1>8. c[i] \in Nat /\ d[i] \in Nat
  BY <1>2, <1>5
<1>9. c[i] < d[i] \/ d[i] < c[i]
  BY <1>5, <1>8
<1>10. CASE c[i] < d[i]
  BY <1>6, <1>7, <1>10
<1>11. CASE d[i] < c[i]
  <2>1. \A j \in I : j < i => d[j] = c[j]
    BY <1>6
  <2> QED BY <1>7, <1>11, <2>1
<1> QED BY <1>9, <1>10, <1>11

\* A new greatest element goes to the end.
LEMMA OrderAdds ==
    ASSUME NEW S, IsFiniteSet(S), S \subseteq Nat, NEW n \in Nat, \A m \in S : m < n,
           NEW c, InOrder(c, S), NEW d, InOrder(d, S \cup {n})
    PROVE  /\ Cardinality(S \cup {n}) = Cardinality(S) + 1
           /\ \A i \in 1 .. Cardinality(S) : d[i] = c[i]
           /\ d[Cardinality(S) + 1] = n
<1> DEFINE size == Cardinality(S)
           e == [i \in 1 .. size + 1 |-> IF i = size + 1 THEN n ELSE c[i]]
<1>1. size \in Nat
  BY FS_CardinalityType
<1>2. n \notin S
  OBVIOUS
<1>3. IsFiniteSet(S \cup {n}) /\ Cardinality(S \cup {n}) = size + 1 /\ S \cup {n} \subseteq Nat
  BY <1>2, FS_AddElement
<1>4. /\ c \in [1 .. size -> S] /\ \A i \in 1 .. size : c[i] \in S
      /\ \A i, j \in 1 .. size : i < j => c[i] < c[j]
      /\ \A m \in S : \E i \in 1 .. size : c[i] = m
  BY DEF InOrder
<1> HIDE DEF size
<1>5. /\ \A i \in 1 .. size : i \in 1 .. size + 1 /\ e[i] = c[i]
      /\ size + 1 \in 1 .. size + 1 /\ e[size + 1] = n
      /\ \A i \in 1 .. size + 1 : i \in 1 .. size \/ i = size + 1
  BY <1>1
<1>6. e \in [1 .. size + 1 -> S \cup {n}]
  BY <1>4, <1>5
<1> HIDE DEF e
<1>7. ASSUME NEW i \in 1 .. size + 1, NEW j \in 1 .. size + 1, i < j PROVE e[i] < e[j]
  <2>1. i \in 1 .. size
    BY <1>1, <1>7
  <2>2. CASE j = size + 1
    BY <1>4, <1>5, <2>1, <2>2
  <2>3. CASE j \in 1 .. size
    BY <1>4, <1>5, <1>7, <2>1, <2>3
  <2> QED BY <1>5, <2>2, <2>3
<1>8. \A m \in S \cup {n} : \E i \in 1 .. size + 1 : e[i] = m
  BY <1>4, <1>5
<1>9. InOrder(e, S \cup {n})
  BY <1>3, <1>6, <1>7, <1>8 DEF InOrder
<1>10. d = e
  BY <1>3, <1>9, OrderOnce
<1> QED BY <1>3, <1>5, <1>10 DEF size

\* d is c without its place k.
Without(d, c, k, size) == \A i \in 1 .. size - 1 : d[i] = IF i < k THEN c[i] ELSE c[i + 1]

\* What is behind an element that goes moves up.
LEMMA OrderRemoves ==
    ASSUME NEW S, IsFiniteSet(S), S \subseteq Nat, NEW c, InOrder(c, S),
           NEW k \in 1 .. Cardinality(S), NEW n, n = c[k], NEW d, InOrder(d, S \ {n})
    PROVE  /\ Cardinality(S \ {n}) = Cardinality(S) - 1
           /\ Without(d, c, k, Cardinality(S))
<1> DEFINE size == Cardinality(S)
           e == [i \in 1 .. size - 1 |-> IF i < k THEN c[i] ELSE c[i + 1]]
<1>1. size \in Nat /\ k \in 1 .. size
  BY FS_CardinalityType
<1>2. /\ c \in [1 .. size -> S] /\ \A i \in 1 .. size : c[i] \in S /\ c[i] \in Nat
      /\ \A i, j \in 1 .. size : i < j => c[i] < c[j]
      /\ \A m \in S : \E i \in 1 .. size : c[i] = m
  BY DEF InOrder
<1> DEFINE T == S \ {n}
<1>3. IsFiniteSet(T) /\ Cardinality(T) = size - 1 /\ T \subseteq Nat
  <2>1. c[k] \in S
    BY <1>1, <1>2
  <2> QED BY <2>1, FS_RemoveElement
<1> HIDE DEF size
<1>4. \A i \in 1 .. size : i # k => c[i] \in T
  <2>1. ASSUME NEW i \in 1 .. size, i # k PROVE c[i] # c[k]
    <3>1. i < k \/ k < i
      BY <1>1, <2>1
    <3>2. c[i] < c[k] \/ c[k] < c[i]
      BY <1>1, <1>2, <3>1
    <3> QED BY <1>1, <1>2, <3>2
  <2> QED BY <1>2, <2>1
<1>5. \A i \in 1 .. size - 1 :
          /\ i < k => i \in 1 .. size /\ i # k /\ e[i] = c[i]
          /\ ~ (i < k) => i + 1 \in 1 .. size /\ i + 1 # k /\ e[i] = c[i + 1] /\ k < i + 1
  BY <1>1
<1>6. e \in [1 .. size - 1 -> T]
  BY <1>4, <1>5
<1> HIDE DEF e, T
<1>7. ASSUME NEW i \in 1 .. size - 1, NEW j \in 1 .. size - 1, i < j PROVE e[i] < e[j]
  <2>1. CASE j < k
    <3>1. i < k
      BY <1>1, <1>7, <2>1
    <3> QED BY <1>2, <1>5, <1>7, <2>1, <3>1
  <2>2. CASE ~ (i < k)
    <3>1. ~ (j < k) /\ i + 1 < j + 1
      BY <1>1, <1>7, <2>2
    <3> QED BY <1>2, <1>5, <2>2, <3>1
  <2>3. CASE i < k /\ ~ (j < k)
    <3>1. i < j + 1
      BY <1>1, <1>7
    <3> QED BY <1>2, <1>5, <2>3, <3>1
  <2> QED BY <2>1, <2>2, <2>3
<1>8. ASSUME NEW m \in T PROVE \E i \in 1 .. size - 1 : e[i] = m
  <2>1. PICK j \in 1 .. size : c[j] = m
    BY <1>2 DEF T
  <2>2. j # k
    BY <2>1 DEF T
  <2>3. CASE j < k
    <3>1. j \in 1 .. size - 1
      BY <1>1, <2>3
    <3> QED BY <1>5, <2>1, <2>3, <3>1
  <2>4. CASE k < j
    <3> DEFINE i == j - 1
    <3>1. i \in 1 .. size - 1 /\ ~ (i < k) /\ i + 1 = j
      BY <1>1, <2>4
    <3> HIDE DEF i
    <3> QED BY <1>5, <2>1, <3>1
  <2> QED BY <1>1, <2>2, <2>3, <2>4
<1>9. InOrder(e, T)
  BY <1>3, <1>6, <1>7, <1>8 DEF InOrder
<1>10. d = e
  <2>1. InOrder(d, T)
    BY DEF T
  <2> QED BY <1>3, <1>9, <2>1, OrderOnce
<1>11. Without(e, c, k, size)
  BY <1>5 DEF Without
<1> QED BY <1>3, <1>10, <1>11 DEF size, T

\* From a node of the list one comes to the nodes from there on,
LEMMA ReachAhead ==
    ASSUME NEW nx \in Pointers, Forward(nx), NEW f, IsReach(f, nx),
           NEW h \in Nodes \cup {NULL}, NEW L, Linked(L, h, nx), NEW n \in L
    PROVE  f[n] = Ahead(n, L)
<1>a. n \in Nodes /\ L \subseteq Nodes /\ L \subseteq Nat
  BY Constants DEF Linked
<1>b. \A m \in L : nx[m] # NULL => nx[m] \in L /\ m < nx[m]
  BY <1>a DEF Linked, Forward
<1>1. Linked(f[n], n, nx)
  BY <1>a, ReachLinked
<1>2. Linked(Ahead(n, L), n, nx)
  <2>1. Ahead(n, L) \subseteq Nodes /\ n \in Ahead(n, L) /\ n # NULL
    <3>1. n <= n /\ n # NULL
      BY <1>a, NodeFacts
    <3> QED BY <1>a, <3>1 DEF Ahead
  <2>2. ASSUME NEW m \in Ahead(n, L), nx[m] # NULL PROVE nx[m] \in Ahead(n, L)
    <3>1. m \in L /\ n <= m /\ nx[m] \in L /\ m < nx[m]
      BY <1>b, <2>2 DEF Ahead
    <3>2. n <= nx[m]
      <4>1. n \in Nat /\ m \in Nat /\ nx[m] \in Nat
        BY <1>a, <3>1
      <4> QED BY <3>1, <4>1
    <3> QED BY <3>1, <3>2 DEF Ahead
  <2>3. ASSUME NEW m \in Ahead(n, L), m # n PROVE \E p \in Ahead(n, L) : nx[p] = m
    <3>1. m \in L /\ n < m
      BY <1>a, <2>3 DEF Ahead
    <3>2. \A k \in L : h # NULL /\ h <= k
      BY LinkedOrder
    <3>3. m # h
      <4>1. h <= n /\ h \in Nat
        BY <1>a, <3>2, NodeFacts
      <4> QED BY <1>a, <3>1, <4>1
    <3>4. PICK p \in L : nx[p] = m
      BY <3>1, <3>3 DEF Linked
    <3>5. ~ (p < n)
      <4>1. ASSUME p < n PROVE FALSE
        <5>1. nx[p] <= n
          BY <4>1, LinkedOrder
        <5> QED BY <1>a, <3>1, <3>4, <5>1
      <4> QED BY <4>1
    <3>6. p \in Ahead(n, L)
      BY <1>a, <3>5 DEF Ahead
    <3> QED BY <3>4, <3>6
  <2> QED BY <2>1, <2>2, <2>3 DEF Linked
<1> QED BY <1>1, <1>2, <1>a, LinkedOnce

\* so Chain, which counts them, has the list in its order, now
LEMMA ChainInOrder ==
    ASSUME head \in Nodes \cup {NULL}, next \in Pointers, Forward(next)
    PROVE  InOrder(Chain, InList)
<1> DEFINE size == Cardinality(InList)
<1>1. \E f : IsReach(f, next)
  BY ReachExists
<1>2. IsReach(Reach, next)
  BY <1>1 DEF IsReach, Reach
<1>3. Linked(InList, head, next)
  BY ListIsLinked
<1>4. \A n \in InList : Reach[n] = Ahead(n, InList)
  BY <1>2, <1>3, ReachAhead
<1>5. IsFiniteSet(InList) /\ InList \subseteq Nat
  <2>1. IsFiniteSet(Nodes)
    BY Constants, FS_Interval DEF Nodes
  <2>2. InList \subseteq Nodes
    BY <1>3 DEF Linked
  <2> QED BY <2>1, <2>2, Constants, FS_Subset
<1>6. size \in Nat
  BY <1>5, FS_CardinalityType
<1>7. ASSUME NEW i \in 1 .. size PROVE Chain[i] \in InList /\ Cardinality(Ahead(Chain[i], InList)) = 1 + size - i
  <2> DEFINE P(n) == Cardinality(Reach[n]) = 1 + size - i
  <2>1. Chain[i] = CHOOSE n \in InList : P(n)
    BY DEF Chain
  <2>2. 1 + size - i \in 1 .. size
    <3> HIDE DEF size
    <3> QED BY <1>6
  <2>3. \E n \in InList : P(n)
    BY <1>4, <1>5, <2>2, AheadCounts
  <2>4. Chain[i] \in InList /\ P(Chain[i])
    <3> HIDE DEF P
    <3> QED BY <2>1, <2>3, Zenon
  <2> QED BY <1>4, <2>4
<1>8. DOMAIN Chain = 1 .. size /\ Chain = [i \in DOMAIN Chain |-> Chain[i]]
  BY DEF Chain
<1> QED BY <1>5, <1>7, <1>8, CountsOrder

-----------------------------------------------------------------------------
(* One change at a time, the calls are those of UserList. *)

\* A user is in the list once; and a thread that is about to add one has seen all of the
\* list, or is an insertNode, whose caller knows that he is not in it.
OnceInv ==
    /\ \A m, n \in InList : data[m] = data[n] => m = n
    /\ \A t \in Threads : Active(t) /\ Fn(t) \in Inserts /\ thread[t].pc \notin {"clear", "return"} =>
           /\ always[t] = InList
           /\ Fn(t) = "insertNode" => \A m \in InList : data[m] # thread[t].user

\* Chain has the list in its order.
OrderInv ==
    /\ InOrder(Chain, InList) /\ IsFiniteSet(InList) /\ InList \subseteq Nodes
    /\ Len(Chain) = Cardinality(InList)

LEMMA OrderFollows == TypeInv /\ ListInv => OrderInv
<1> SUFFICES ASSUME TypeInv, ListInv PROVE OrderInv
  OBVIOUS
<1>1. InList \subseteq Nodes
  BY ListFacts
<1>2. IsFiniteSet(InList)
  <2>1. IsFiniteSet(Nodes)
    BY Constants, FS_Interval DEF Nodes
  <2> QED BY <1>1, <2>1, FS_Subset
<1>3. InOrder(Chain, InList)
  <2>1. head \in Nodes \cup {NULL} /\ next \in Pointers /\ Forward(next)
    BY DEF TypeInv, TypeOK, ListInv, Pointers
  <2> QED BY <2>1, ChainInOrder
<1>4. Len(Chain) = Cardinality(InList)
  <2>1. Cardinality(InList) \in Nat
    BY <1>2, FS_CardinalityType
  <2>2. DOMAIN Chain = 1 .. Cardinality(InList) /\ Chain \in Seq(InList)
    BY <1>3, <2>1 DEF InOrder
  <2> HIDE DEF Chain
  <2> QED BY <2>1, <2>2, LenProperties
<1> QED BY <1>1, <1>2, <1>3, <1>4 DEF OrderInv

\* The nodes of the list keep their users.
LEMMA DataStays ==
    ASSUME TypeInv, ListInv, NEW t \in Threads, Step(t)
    PROVE  \A m \in InList : data'[m] = data[m]
<1>1. CASE Access(t)
  BY <1>1, AccessKeeps
<1>2. ASSUME NEW f \in Functions, NEW u \in IF f \in {"listing", "send_message"} THEN {NULL} ELSE Users,
             Call(t, f, u)
      PROVE  \A m \in InList : data'[m] = data[m]
  <2>1. InList \subseteq Nodes /\ \A m \in InList : data[m] # NULL
    BY ListFacts DEF ListInv, Allocated
  <2>2. \/ data' = data
        \/ \E n \in Nodes : data[n] = NULL /\ data' = [data EXCEPT ![n] = u]
    BY <1>2, CallBegins
  <2> QED BY <2>1, <2>2 DEF TypeInv, TypeOK
<1> QED BY <1>1, <1>2 DEF Step

\* Who is added is not in the list.
LEMMA AddedIsNew ==
    ASSUME TypeInv, ListInv, WalkInv, OnceInv, NEW t \in Threads, InsertFirst(t) \/ InsertLast(t)
    PROVE  \A m \in InList : data[m] # data[thread[t].node]
<1>1. /\ LocalOK(thread[t]) /\ thread[t].pc \in {"first", "link"}
      /\ InsertFirst(t) => thread[t].pc = "first"
      /\ InsertLast(t) => thread[t].pc = "link"
  BY DEF TypeInv, InsertFirst, InsertLast, At
<1>2. Active(t) /\ Fn(t) \in Inserts /\ data[thread[t].node] = thread[t].user
  <2>1. Active(t) /\ Fn(t) \in Inserts
    BY <1>1 DEF LocalOK, Active, Fn, Mutations
  <2> QED BY <2>1 DEF ListInv, AdderOK, Fn
<1>3. always[t] = InList /\ (Fn(t) = "insertNode" => \A m \in InList : data[m] # thread[t].user)
  BY <1>1, <1>2 DEF OnceInv
<1>4. CASE Fn(t) = "insertUser" /\ thread[t].pc = "link"
  <2>1. Must(t) = {}
    BY <1>4 DEF WalkInv, WalkOK, Fn
  <2> QED BY <1>2, <1>3, <2>1 DEF Must
<1>5. CASE thread[t].pc = "first"
  <2>1. always[t] = {}
    BY <1>5 DEF WalkInv, WalkOK
  <2> QED BY <1>3, <2>1
<1> QED BY <1>1, <1>2, <1>3, <1>4, <1>5 DEF Inserts

LEMMA OnceStep ==
    ASSUME TypeInv, ListInv, WalkInv, OnceInv, ~Overlap, [Next]_vars
    PROVE  OnceInv'
<1>1. ASSUME NEW t \in Threads, Step(t), Watch PROVE OnceInv'
  <2>a. InList \subseteq Nodes /\ \A m \in InList : data'[m] = data[m]
    BY <1>1, ListFacts, DataStays
  <2>b. \A s \in Threads :
            /\ Fn(s)' # NULL /\ Fn(s) = NULL => always'[s] = InList'
            /\ Fn(s)' # NULL /\ Fn(s) # NULL => always'[s] = always[s] \cap InList'
    BY <1>1 DEF Watch, Fn
  <2>c. \A s \in Threads : Active(s) => Fn(s) # NULL
    BY Constants DEF Active, Mutations, Inserts, Functions
  <2>1. \A m, n \in InList' : data'[m] = data'[n] => m = n
    <3>1. CASE InList' \subseteq InList
      BY <2>a, <3>1 DEF OnceInv
    <3>2. CASE (InsertFirst(t) \/ InsertLast(t)) /\ Adds(t)
      <4>1. data' = data
        BY <3>2, AccessKeeps DEF Access
      <4>2. \A m \in InList : data[m] # data[thread[t].node]
        BY <3>2, AddedIsNew
      <4> QED BY <3>2, <4>1, <4>2 DEF Adds, OnceInv
    <3>3. Removes(t) => InList' \subseteq InList
      BY DEF Removes
    <3> QED BY <1>1, <3>1, <3>2, <3>3, LinksMove
  <2>2. ASSUME NEW s \in Threads, s # t,
               Active(s)', Fn(s)' \in Inserts, thread'[s].pc \notin {"clear", "return"}
        PROVE  /\ always'[s] = InList'
               /\ Fn(s)' = "insertNode" => \A m \in InList' : data'[m] # thread'[s].user
    <3>1. thread'[s] = thread[s]
      BY <1>1, <2>2, StepTyped DEF Typed
    <3>2. Active(s) /\ Fn(s) \in Inserts /\ thread[s].pc \notin {"clear", "return"} /\ Fn(s)' = Fn(s)
      BY <2>2, <3>1 DEF Active, Fn
    <3>3. UNCHANGED <<links, data>> /\ InList' = InList
      BY <1>1, <2>2, <3>2, ActiveStep
    <3>4. always'[s] = always[s] \cap InList'
      BY <2>b, <2>c, <3>2
    <3> QED BY <3>1, <3>2, <3>3, <3>4 DEF OnceInv
  <2>3. ASSUME NEW f \in Functions, NEW u \in IF f \in {"listing", "send_message"} THEN {NULL} ELSE Users,
               Call(t, f, u), Fn(t)' \in Inserts
        PROVE  /\ always'[t] = InList'
               /\ Fn(t)' = "insertNode" => \A m \in InList' : data'[m] # thread'[t].user
    <3>1. thread[t] = NoCall /\ UNCHANGED links /\ thread'[t].fn = f /\ thread'[t].user = u
      BY <2>3, CallBegins
    <3>2. InList' = InList
      BY <3>1, LinksStill
    <3>3. Fn(t) = NULL /\ Fn(t)' # NULL
      BY <2>3, <3>1, Constants DEF Fn, NoCall, Functions, Mutations
    <3>4. f = "insertNode" => \A m \in InList : data[m] # u
      BY <2>3 DEF Call, MayCall
    <3> QED BY <2>a, <2>b, <3>1, <3>2, <3>3, <3>4 DEF Fn
  <2>4. ASSUME Access(t), Active(t)', Fn(t)' \in Inserts, thread'[t].pc \notin {"clear", "return"}
        PROVE  /\ always'[t] = InList'
               /\ Fn(t)' = "insertNode" => \A m \in InList' : data'[m] # thread'[t].user
    <3>1. /\ Active(t) /\ thread[t].pc \notin {"clear", "return"}
          /\ Fn(t)' = Fn(t) /\ thread'[t].user = thread[t].user /\ data' = data /\ InList' = InList
      BY <2>4, BeforeChange
    <3>2. always'[t] = always[t] \cap InList'
      BY <2>b, <2>c, <3>1
    <3> QED BY <2>4, <3>1, <3>2 DEF OnceInv
  <2> QED BY <1>1, <2>1, <2>2, <2>3, <2>4 DEF OnceInv, Step
<1>2. CASE UNCHANGED vars
  <2>1. UNCHANGED <<links, data, thread, always>>
    BY <1>2 DEF vars
  <2>2. InList' = InList
    BY <2>1, LinksStill
  <2> QED BY <2>1, <2>2 DEF OnceInv, Active, Fn
<1> QED BY <1>1, <1>2 DEF Next, Step

\* It holds of every initial list.
LEMMA OnceInit == Init => OnceInv
<1> SUFFICES ASSUME Init PROVE OnceInv
  OBVIOUS
<1>a. TypeInv /\ ListInv
  BY TypeInit, ListInit
<1>1. PICK len \in 0 .. Min({MaxNodes, Cardinality(Users)}) :
           data = [n \in Nodes |-> IF n <= len THEN SetToSeq(Users)[n] ELSE NULL]
  BY DEF Init
<1>2. /\ \A n \in InList : n \in Nodes /\ data[n] # NULL
      /\ len <= Cardinality(Users)
  <2>1. /\ Cardinality(Users) \in Nat /\ MaxNodes \in Nat
    BY UserOrder, Constants
  <2> DEFINE size == Cardinality(Users)
  <2>2. len \in 0 .. Min({MaxNodes, size})
    OBVIOUS
  <2> HIDE DEF size
  <2>3. {MaxNodes, size} \subseteq Nat
    BY <2>1 DEF size
  <2>4. Min({MaxNodes, size}) \in {MaxNodes, size} /\ \A n \in {MaxNodes, size} : Min({MaxNodes, size}) <= n
    BY <2>3, MinIsLeast
  <2>5. len <= size
    BY <2>2, <2>3, <2>4
  <2> QED BY <1>a, <2>5, ListFacts DEF ListInv, Allocated, size
<1>3. \A m, n \in 1 .. Cardinality(Users) : SetToSeq(Users)[m] = SetToSeq(Users)[n] => m = n
  BY UserOrder
<1>4. ASSUME NEW m \in InList, NEW n \in InList, data[m] = data[n] PROVE m = n
  <2>1. m <= len /\ n <= len /\ data[m] = SetToSeq(Users)[m] /\ data[n] = SetToSeq(Users)[n]
    BY <1>1, <1>2
  <2>2. m \in 1 .. Cardinality(Users) /\ n \in 1 .. Cardinality(Users)
    <3>1. Cardinality(Users) \in Nat /\ len \in Int
      BY UserOrder
    <3>2. m \in Nat \ {0} /\ n \in Nat \ {0}
      BY <1>2, Constants
    <3> QED BY <1>2, <2>1, <3>1, <3>2
  <2> QED BY <1>3, <1>4, <2>1, <2>2
<1>5. \A t \in Threads : ~Active(t)
  BY Constants DEF Init, NoCall, Active, Fn, Functions
<1> QED BY <1>4, <1>5 DEF OnceInv

\* The list of users.
Listed == [i \in 1 .. Len(Chain) |-> data[Chain[i]]]

LEMMA ListedTyped ==
    ASSUME TypeInv, ListInv, OrderInv
    PROVE  /\ Listed \in Seq(Users) /\ Len(Listed) = Cardinality(InList) /\ Cardinality(InList) \in Nat
           /\ \A i \in 1 .. Cardinality(InList) : Chain[i] \in InList /\ Listed[i] = data[Chain[i]]
<1> DEFINE size == Cardinality(InList)
<1>1. size \in Nat
  BY FS_CardinalityType DEF OrderInv
<1>2. \A i \in 1 .. size : Chain[i] \in InList
  BY DEF OrderInv, InOrder
<1>3. \A n \in InList : data[n] \in Users
  BY ListFacts DEF ListInv, Allocated, TypeInv, TypeOK
<1>4. Listed = [i \in 1 .. size |-> data[Chain[i]]]
  BY DEF Listed, OrderInv
<1> HIDE DEF size
<1>5. Listed \in [1 .. size -> Users] /\ \A i \in 1 .. size : Listed[i] = data[Chain[i]]
  BY <1>2, <1>3, <1>4
<1>6. Listed \in Seq(Users) /\ DOMAIN Listed = 1 .. size
  BY <1>1, <1>5
<1>7. Len(Listed) = size
  BY <1>1, <1>6, LenProperties
<1> QED BY <1>1, <1>2, <1>5, <1>6, <1>7 DEF size

\* Initially it is a list as UserList has it.
LEMMA ListedInit ==
    ASSUME TypeInv, ListInv, OnceInv, OrderInv
    PROVE  Listed \in Seq(Users) /\ IsInjective(Listed)
<1> DEFINE size == Cardinality(InList)
<1>1. /\ Listed \in Seq(Users) /\ Len(Listed) = size /\ size \in Nat
      /\ \A i \in 1 .. size : Chain[i] \in InList /\ Listed[i] = data[Chain[i]]
  BY ListedTyped
<1>2. DOMAIN Listed = 1 .. size
  BY <1>1, LenProperties
<1>3. \A i, j \in 1 .. size : i < j => Chain[i] < Chain[j]
  BY DEF OrderInv, InOrder
<1>4. \A i \in 1 .. size : Chain[i] \in Nat
  BY <1>1, Constants DEF OrderInv
<1> HIDE DEF size
<1>5. ASSUME NEW i \in 1 .. size, NEW j \in 1 .. size, Listed[i] = Listed[j] PROVE i = j
  <2>1. Chain[i] = Chain[j]
    BY <1>1, <1>5 DEF OnceInv
  <2>2. ~ (i < j) /\ ~ (j < i)
    BY <1>3, <1>4, <2>1
  <2> QED BY <1>1, <2>2
<1> QED BY <1>1, <1>2, <1>5 DEF IsInjective

\* What RemoveFirst does to a sequence that has the element once.
LEMMA RemovedOnce ==
    ASSUME NEW S, NEW s \in Seq(S), NEW k \in 1 .. Len(s), \A i \in 1 .. Len(s) : s[i] = s[k] => i = k,
           NEW r \in Seq(S), Len(r) = Len(s) - 1,
           \A i \in 1 .. Len(s) - 1 : r[i] = IF i < k THEN s[i] ELSE s[i + 1]
    PROVE  Abstract!RemoveFirst(s, s[k]) = r
<1> DEFINE size == Len(s)
           front == SubSeq(s, 1, k - 1)
           back == SubSeq(s, k + 1, size)
<1>1. size \in Nat /\ k \in Nat /\ 1 <= k /\ k <= size /\ \A i \in 1 .. size : s[i] \in S
  BY LenProperties
<1>2. Abstract!RemoveFirst(s, s[k]) = Abstract!RemoveAt(s, k)
  <2> DEFINE I == {i \in 1 .. Len(s) : s[i] = s[k]}
  <2>1. I = {k}
    OBVIOUS
  <2>2. Abstract!Min(I) = k
    <3>1. {k} \subseteq Nat
      BY <1>1
    <3>2. Min({k}) \in {k} /\ Abstract!Min({k}) = Min({k})
      BY <3>1, MinIsLeast, Zenon DEF Abstract!Min, Min
    <3> HIDE DEF I
    <3> QED BY <2>1, <3>2
  <2>3. Abstract!SelectInSeq(s, LAMBDA v : v = s[k]) = k
    BY <2>1, <2>2 DEF Abstract!SelectInSeq
  <2>4. \E i \in 1 .. Len(s) : s[i] = s[k]
    OBVIOUS
  <2> QED BY <2>3, <2>4 DEF Abstract!RemoveFirst
<1>3. Abstract!RemoveAt(s, k) = front \o back
  BY DEF Abstract!RemoveAt
<1> HIDE DEF size
<1>4. /\ front \in Seq(S) /\ Len(front) = k - 1
      /\ \A i \in 1 .. k - 1 : front[i] = s[i]
  <2>1. \A i \in 1 .. k - 1 : s[i] \in S
    BY <1>1
  <2>2. /\ front \in Seq(S) /\ Len(front) = IF 1 <= k - 1 THEN (k - 1) - 1 + 1 ELSE 0
        /\ \A i \in 1 .. (k - 1) - 1 + 1 : front[i] = s[1 + i - 1]
    BY <1>1, <2>1, SubSeqProperties
  <2> HIDE DEF front
  <2> QED BY <1>1, <2>2
<1>5. /\ back \in Seq(S) /\ Len(back) = size - k
      /\ \A i \in 1 .. size - k : back[i] = s[k + i]
  <2>1. \A i \in k + 1 .. size : s[i] \in S
    BY <1>1
  <2>2. /\ back \in Seq(S) /\ Len(back) = IF k + 1 <= size THEN size - (k + 1) + 1 ELSE 0
        /\ \A i \in 1 .. size - (k + 1) + 1 : back[i] = s[k + 1 + i - 1]
    BY <1>1, <2>1, SubSeqProperties
  <2> HIDE DEF back
  <2> QED BY <1>1, <2>2
<1> HIDE DEF front, back
<1> DEFINE e == front \o back
<1>6. /\ e \in Seq(S) /\ Len(e) = Len(front) + Len(back)
      /\ \A i \in 1 .. Len(front) + Len(back) : e[i] = IF i <= Len(front) THEN front[i] ELSE back[i - Len(front)]
  BY <1>4, <1>5, ConcatProperties
<1>7. /\ e \in Seq(S) /\ Len(e) = size - 1
      /\ \A i \in 1 .. size - 1 : e[i] = IF i <= k - 1 THEN front[i] ELSE back[i - (k - 1)]
  <2>1. (k - 1) + (size - k) = size - 1
    BY <1>1
  <2> HIDE DEF e
  <2> QED BY <1>4, <1>5, <1>6, <2>1
<1> HIDE DEF e
<1>8. ASSUME NEW i \in 1 .. size - 1 PROVE e[i] = IF i < k THEN s[i] ELSE s[i + 1]
  <2>1. CASE i < k
    <3>1. i <= k - 1 /\ i \in 1 .. k - 1
      BY <1>1, <2>1
    <3> QED BY <1>4, <1>7, <2>1, <3>1
  <2>2. CASE ~ (i < k)
    <3>1. ~ (i <= k - 1) /\ i - (k - 1) \in 1 .. size - k /\ k + (i - (k - 1)) = i + 1
      BY <1>1, <2>2
    <3> QED BY <1>5, <1>7, <2>2, <3>1
  <2> QED BY <2>1, <2>2
<1>9. Len(r) = Len(e) /\ \A i \in 1 .. Len(r) : r[i] = e[i]
  BY <1>7, <1>8 DEF size
<1>10. r = e
  BY <1>7, <1>9, SeqEqual
<1> QED BY <1>2, <1>3, <1>10 DEF e

\* Every step is a call of UserList or leaves the list of users as it is.
LEMMA ListedStep ==
    ASSUME TypeInv, ListInv, WalkInv, OnceInv, OrderInv, (TypeInv /\ ListInv /\ OrderInv)', [Next]_vars
    PROVE  [Abstract!Next]_Listed
<1> DEFINE size == Cardinality(InList)
<1>a. /\ Listed \in Seq(Users) /\ Len(Listed) = size /\ size \in Nat
      /\ \A i \in 1 .. size : Chain[i] \in InList /\ Listed[i] = data[Chain[i]]
  BY ListedTyped
<1>b. /\ InOrder(Chain, InList) /\ IsFiniteSet(InList) /\ InList \subseteq Nat
      /\ InOrder(Chain', InList') /\ Len(Chain') = Cardinality(InList')
      /\ \A m \in InList : \E i \in 1 .. size : Chain[i] = m
  BY Constants DEF OrderInv, InOrder
<1>c. Listed' = [i \in 1 .. Cardinality(InList') |-> data'[Chain'[i]]]
  BY <1>b DEF Listed
<1>d. \A n \in InList' : data'[n] \in Users
  <2>1. \A n \in InList' : n \in Nodes
    BY DEF OrderInv
  <2> QED BY <2>1 DEF ListInv, Allocated, TypeInv, TypeOK
<1>e. /\ DOMAIN Listed = 1 .. size /\ Listed = [i \in 1 .. size |-> Listed[i]]
      /\ ToSet(Listed) = {data[m] : m \in InList}
  <2>1. DOMAIN Listed = 1 .. size
    BY <1>a, LenProperties
  <2>2. Listed = [i \in 1 .. size |-> Listed[i]]
    BY <1>a
  <2> HIDE DEF size
  <2>3. ToSet(Listed) = {data[m] : m \in InList}
    <3>1. ASSUME NEW u \in ToSet(Listed) PROVE u \in {data[m] : m \in InList}
      <4>1. PICK i \in 1 .. size : u = Listed[i]
        BY <2>1 DEF ToSet
      <4> QED BY <1>a, <4>1
    <3>2. ASSUME NEW m \in InList PROVE data[m] \in ToSet(Listed)
      <4>1. PICK i \in 1 .. size : Chain[i] = m
        BY <1>b
      <4>2. Listed[i] = data[m]
        BY <1>a, <4>1
      <4> QED BY <2>1, <4>2 DEF ToSet
    <3> QED BY <3>1, <3>2
  <2> QED BY <2>1, <2>2, <2>3
<1>1. ASSUME InList' = InList, \A m \in InList : data'[m] = data[m] PROVE Listed' = Listed
  <2>1. Chain' = Chain
    BY <1>1, <1>b, OrderOnce
  <2>2. Listed' = [i \in 1 .. size |-> data'[Chain[i]]]
    BY <1>1, <1>c, <2>1
  <2> HIDE DEF size
  <2> QED BY <1>1, <1>a, <1>e, <2>2
<1>2. ASSUME NEW t \in Threads, InsertFirst(t) \/ InsertLast(t), Adds(t), data' = data
      PROVE  Abstract!Next
  <2> DEFINE n == thread[t].node
  <2>0. PICK u \in Users : u = data[n]
    BY <1>2 DEF Adds, TypeInv, TypeOK
  <2> DEFINE r == Append(Listed, u)
  <2>1. /\ n \in Nodes /\ n \in Nat /\ InList' = InList \cup {n} /\ \A m \in InList : m < n
    BY <1>2, NodeFacts DEF Adds
  <2>2. u \notin ToSet(Listed)
    BY <1>2, <1>e, <2>0, AddedIsNew
  <2>3. /\ Cardinality(InList') = size + 1
        /\ \A i \in 1 .. size : Chain'[i] = Chain[i]
        /\ Chain'[size + 1] = n
    <3> HIDE DEF n
    <3>1. InOrder(Chain', InList \cup {n})
      BY <1>b, <2>1
    <3>2. /\ Cardinality(InList \cup {n}) = Cardinality(InList) + 1
          /\ \A i \in 1 .. Cardinality(InList) : Chain'[i] = Chain[i]
          /\ Chain'[Cardinality(InList) + 1] = n
      BY <1>b, <2>1, <3>1, OrderAdds
    <3> QED BY <2>1, <3>2
  <2>4. /\ r \in Seq(Users) /\ Len(r) = size + 1
        /\ \A i \in 1 .. size : r[i] = Listed[i]
        /\ r[size + 1] = u
    BY <1>a, <2>1, AppendProperties
  <2> HIDE DEF r, n
  <2>5. Listed' = [i \in 1 .. size + 1 |-> data[Chain'[i]]]
    BY <1>2, <1>c, <2>3
  <2> HIDE DEF size
  <2>6. DOMAIN r = 1 .. size + 1 /\ r = [i \in 1 .. size + 1 |-> r[i]]
    BY <2>4, LenProperties
  <2>7. ASSUME NEW i \in 1 .. size + 1 PROVE r[i] = data[Chain'[i]]
    <3>1. i \in 1 .. size \/ i = size + 1
      BY <1>a
    <3> QED BY <1>a, <2>0, <2>3, <2>4, <3>1
  <2>8. Listed' = r
    BY <2>5, <2>6, <2>7
  <2>9. Abstract!insert(u)
    BY <2>2, <2>8 DEF Abstract!insert, Listed, r, Abstract!ToSet, ToSet
  <2> QED BY <2>1, <2>9 DEF Abstract!Next
<1>3. ASSUME NEW t \in Threads, Removes(t), data' = data
      PROVE  Abstract!Next
  <2> DEFINE n == thread[t].node
  <2>0. PICK u \in Users : u = data[n]
    BY <1>3 DEF Removes, ListInv, Allocated, OrderInv, TypeInv, TypeOK
  <2>1. n \in InList /\ InList' = InList \ {n} /\ u \in ToSet(Listed)
    BY <1>3, <1>e, <2>0 DEF Removes
  <2>2. PICK k \in 1 .. size : Chain[k] = n
    BY <1>b, <2>1
  <2>3. Listed[k] = u
    BY <1>a, <2>0, <2>2
  <2>4. /\ Cardinality(InList') = size - 1
        /\ \A i \in 1 .. size - 1 : Chain'[i] = IF i < k THEN Chain[i] ELSE Chain[i + 1]
    <3> HIDE DEF n
    <3>1. InOrder(Chain', InList \ {n}) /\ n = Chain[k] /\ k \in 1 .. Cardinality(InList)
      BY <1>b, <2>1, <2>2
    <3>2. /\ Cardinality(InList \ {n}) = Cardinality(InList) - 1
          /\ Without(Chain', Chain, k, Cardinality(InList))
      BY <1>b, <3>1, OrderRemoves
    <3> QED BY <2>1, <3>2 DEF Without
  <2>5. ASSUME NEW i \in 1 .. size, Listed[i] = Listed[k] PROVE i = k
    <3>1. Chain[i] = Chain[k]
      BY <1>a, <2>5 DEF OnceInv
    <3>2. \A p, q \in 1 .. size : p < q => Chain[p] < Chain[q]
      BY DEF OrderInv, InOrder
    <3>3. Chain[k] \in Nat
      BY <1>a, <1>b
    <3> HIDE DEF size
    <3>4. ~ (i < k) /\ ~ (k < i)
      BY <3>1, <3>2, <3>3
    <3> QED BY <1>a, <3>4
  <2>6. Listed' = [i \in 1 .. size - 1 |-> data[Chain'[i]]]
    BY <1>3, <1>c, <2>4
  <2>7. \A i \in 1 .. size - 1 : Chain'[i] \in InList /\ data[Chain'[i]] \in Users
    <3>1. \A i \in 1 .. Cardinality(InList') : Chain'[i] \in InList'
      BY <1>b DEF InOrder
    <3> QED BY <1>3, <1>d, <2>1, <2>4, <3>1
  <2> HIDE DEF size, n
  <2>8. Listed' \in Seq(Users) /\ Len(Listed') = size - 1
    <3>1. size - 1 \in Nat
      BY <1>a
    <3>2. Listed' \in [1 .. size - 1 -> Users]
      BY <2>6, <2>7
    <3> QED BY <3>1, <3>2, LenProperties
  <2>9. ASSUME NEW i \in 1 .. size - 1 PROVE Listed'[i] = IF i < k THEN Listed[i] ELSE Listed[i + 1]
    <3>1. i \in 1 .. size /\ i + 1 \in 1 .. size
      BY <1>a
    <3>2. Listed'[i] = data[Chain'[i]]
      BY <2>6
    <3> QED BY <1>a, <2>4, <3>1, <3>2
  <2>10. Abstract!RemoveFirst(Listed, u) = Listed'
    <3>1. Abstract!RemoveFirst(Listed, Listed[k]) = Listed'
      BY <1>a, <2>5, <2>8, <2>9, RemovedOnce
    <3> QED BY <2>3, <3>1
  <2>11. Abstract!remove(u)
    BY <2>1, <2>10 DEF Abstract!remove, Listed, Abstract!ToSet, ToSet
  <2> QED BY <2>3, <2>11 DEF Abstract!Next
<1>4. ASSUME NEW t \in Threads, Step(t) PROVE [Abstract!Next]_Listed
  <2>1. CASE UNCHANGED links /\ InList' = InList
    BY <1>1, <1>4, <2>1, DataStays
  <2>2. CASE (InsertFirst(t) \/ InsertLast(t)) /\ Adds(t)
    <3>1. data' = data
      BY <2>2 DEF InsertFirst, InsertLast
    <3> QED BY <1>2, <2>2, <3>1
  <2>3. CASE Unlink(t) /\ Removes(t)
    <3>1. data' = data
      BY <2>3 DEF Unlink
    <3> QED BY <1>3, <2>3, <3>1
  <2> QED BY <1>4, <2>1, <2>2, <2>3, LinksMove
<1>5. CASE UNCHANGED vars
  <2>1. UNCHANGED <<links, data>>
    BY <1>5 DEF vars
  <2>2. InList' = InList
    BY <2>1, LinksStill
  <2> QED BY <1>1, <2>1, <2>2
<1> QED BY <1>4, <1>5 DEF Next, Step

\* One change at a time, the code's calls are those of UserList, for any number of threads:
\* each insertion and each removal takes effect at one write of its own (linked_list.c's
\* `temp->next = ...', `*head = ...'), and nothing else changes the list.
THEOREM UserListImplemented ==
    ASSUME ~Overlap
    PROVE  Spec => ImplementsUserList
<1> DEFINE Inv == TypeInv /\ ListInv /\ WalkInv /\ OnceInv /\ OrderInv
<1>1. Init => Inv
  BY TypeInit, ListInit, WalkInit, OnceInit, OrderFollows
<1>2. Spec => [](TypeInv /\ ListInv /\ WalkInv)
  BY WalksInductive, PTL
<1>3. TypeInv /\ ListInv /\ WalkInv /\ OnceInv /\ [Next]_vars => OnceInv'
  BY OnceStep
<1>4. Spec => []Inv
  BY <1>1, <1>2, <1>3, OrderFollows, PTL DEF Spec
<1>5. Inv => Listed \in Seq(Users) /\ IsInjective(Listed)
  BY ListedInit
<1>6. Init => Abstract!Init
  BY <1>1, <1>5, Zenon DEF Abstract!Init, Listed, Abstract!IsInjective, IsInjective
<1>7. Inv /\ Inv' /\ [Next]_vars => [Abstract!Next]_Listed
  BY ListedStep
<1>8. Inv /\ Inv' /\ [Next]_vars => [Abstract!Next]_([i \in 1 .. Len(Chain) |-> data[Chain[i]]])
  BY <1>7 DEF Listed
<1> HIDE DEF Inv
<1> QED BY <1>4, <1>6, <1>8, PTL DEF Spec, ImplementsUserList, Abstract!Spec

=============================================================================
