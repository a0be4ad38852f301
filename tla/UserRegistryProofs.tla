------------------------- MODULE UserRegistryProofs -------------------------
(***************************************************************************)
(* The accounts for every number of connections, users, passwords and      *)
(* descriptors: types, the uniqueness of registrations in memory and in    *)
(* the file, the file following the list, and passwords staying their      *)
(* users'.  All rest on IInv, which adds to the types and to the order of  *)
(* the file what each thread holds at each step of its handler and how far *)
(* its writeUserFile has come.                                             *)
(***************************************************************************)
EXTENDS UserRegistry, TLAPS, FiniteSetTheorems

\* What the thread of c holds.
ThreadInv(c) ==
    /\ pc[c] # "recv" => req[c].user \in Names
    /\ pc[c] = "reg_insert" => req[c].op = "register" /\ req[c].pass \in Passwords
    /\ pc[c] \in {"pass_clear", "pass_set"} =>
           req[c].op = "setpass" /\ req[c].arg \in Passwords
    /\ pc[c] \in {"name_clear", "name_set"} => req[c].op = "setname" /\ req[c].arg \in RealNames
    /\ pc[c] \notin {"recv", "reg_insert"} => Listed(req[c].user)

\* How far writeUserFile of c has come: every slot before pos[c] is written.
WriteInv(c) ==
    /\ pos[c] # NULL => /\ pc[c] = "write" /\ pos[c] <= Len(list) + 1
                        /\ \A j \in Slots : j < pos[c] => file[j] # NULL
    /\ pc[c] = "write" /\ pos[c] = NULL => opens > MaxFiles

IInv ==
    /\ TypeOK
    /\ SingleRegistration
    /\ \A c \in Clients : ThreadInv(c) /\ WriteInv(c)

-----------------------------------------------------------------------------
(* Facts about the list and the file. *)

\* NULL is none of the values it is compared with.
LEMMA NullFacts ==
    /\ NULL \notin Nat /\ NULL \notin Names /\ NULL \notin Passwords /\ NULL \notin RealNames
    /\ NULL \notin FileRecords
    /\ Cardinality(Names) \in Nat
<1>1. Cardinality(Names) \in Nat
  BY RegistryAssumption, FS_CardinalityType
<1> QED BY <1>1, RegistryAssumption

\* A list without repetitions is not longer than there are users, so every record
\* has a slot in the file.
LEMMA ListFits ==
    ASSUME TypeOK, SingleRegistration
    PROVE  Len(list) \in Nat /\ Len(list) <= Cardinality(Names) /\ DOMAIN list \subseteq Slots
<1>1. list \in Seq(Names) /\ Len(list) \in Nat /\ DOMAIN list = 1 .. Len(list)
  BY DEF TypeOK
<1>2. list \in Injection(1 .. Len(list), Names)
  BY <1>1 DEF SingleRegistration, Injection, IsInjective
<1>3. Cardinality(1 .. Len(list)) <= Cardinality(Names)
  BY <1>2, RegistryAssumption, FS_Injection
<1>4. Cardinality(1 .. Len(list)) = Len(list)
  BY <1>1, FS_Interval
<1> QED BY <1>1, <1>3, <1>4, NullFacts DEF Slots

\* The records in the file are those of its first FileLength slots.
LEMMA FilePrefix ==
    ASSUME TypeOK, SingleRegistration
    PROVE  /\ FileLength \in Nat /\ FileLength <= Len(list)
           /\ \A i \in Slots : file[i] # NULL <=> i <= FileLength
<1> DEFINE S == {i \in Slots : file[i] # NULL}
<1>1. Slots \subseteq Nat \ {0} /\ IsFiniteSet(Slots)
  <2>1. Slots = 1 .. Cardinality(Names) /\ Cardinality(Names) \in Int /\ 1 \in Int
    BY NullFacts DEF Slots
  <2>2. IsFiniteSet(1 .. Cardinality(Names))
    BY <2>1, FS_Interval
  <2> QED BY <2>1, <2>2
<1>2. IsFiniteSet(S) /\ FileLength = Cardinality(S) /\ FileLength \in Nat
  BY <1>1, FS_Subset, FS_CardinalityType DEF FileLength
<1>3. ASSUME NEW i \in S PROVE i <= FileLength
  <2>1. 1 .. i \in SUBSET S
    BY NullFacts DEF SingleRegistration, Slots
  <2>2. Cardinality(1 .. i) <= Cardinality(S)
    BY <1>2, <2>1, FS_Subset
  <2>3. Cardinality(1 .. i) = i
    BY <1>1, FS_Interval
  <2> QED BY <1>2, <2>2, <2>3
<1>4. S \in SUBSET (1 .. FileLength)
  <2>1. S \subseteq Nat \ {0}
    BY <1>1
  <2> QED BY <1>2, <1>3, <2>1
<1>5. IsFiniteSet(1 .. FileLength) /\ Cardinality(1 .. FileLength) = Cardinality(S)
  BY <1>2, FS_Interval
<1>6. 1 .. FileLength = S
  BY <1>4, <1>5, FS_Subset
<1>7. FileLength <= Len(list)
  <2>1. CASE FileLength = 0 BY <2>1 DEF TypeOK
  <2>2. CASE FileLength # 0
    <3>1. FileLength \in S BY <1>2, <1>6, <2>2
    <3> QED BY <3>1 DEF SingleRegistration
  <2> QED BY <2>1, <2>2
<1> QED BY <1>1, <1>2, <1>6, <1>7

\* get_user finds users only, in particular nobody for an empty name.
LEMMA ListedAreNames ==
    ASSUME TypeOK, NEW n \in Names \cup {NULL}, Listed(n)
    PROVE  n \in Names
BY NullFacts DEF TypeOK, Listed, ToSet

\* What handlers put into req, and what they read from it.
LEMMA RequestTypes ==
    /\ NoReq \in Requests
    /\ \A n \in Names, p \in Passwords :
           /\ [op |-> "register", user |-> n, pass |-> p, arg |-> NULL] \in Requests
           /\ [op |-> "login", user |-> n, pass |-> p, arg |-> NULL] \in Requests
    /\ \A n \in Names, p, q \in Passwords :
           [op |-> "setpass", user |-> n, pass |-> p, arg |-> q] \in Requests
    /\ \A n \in Names, x \in RealNames :
           [op |-> "setname", user |-> n, pass |-> NULL, arg |-> x] \in Requests
    /\ \A r \in Requests : [r EXCEPT !.pass = NULL, !.arg = NULL] \in Requests
BY DEF Requests, NoReq

\* The records of the list, their fields written one at a time, and of the file.
LEMMA RecordTypes ==
    /\ NoRec \in Records
    /\ \A n \in Names, p \in Passwords : [pass |-> p, real |-> n] \in Records
    /\ \A r \in Records, p \in Passwords \cup {NULL} : [r EXCEPT !.pass = p] \in Records
    /\ \A r \in Records, x \in RealNames \cup {NULL} : [r EXCEPT !.real = x] \in Records
    /\ \A n \in Names, r \in Records : [user |-> n, pass |-> r.pass, real |-> r.real] \in FileRecords
    /\ \A r \in FileRecords : r.user \in Names /\ [pass |-> r.pass, real |-> r.real] \in Records
BY DEF Records, FileRecords, NoRec

-----------------------------------------------------------------------------
(* Every step keeps the types. *)

\* A step of the thread of c takes it to label l, with request r, or leaves either alone.
LEMMA ThreadTypes ==
    ASSUME TypeOK, NEW c \in Clients, NEW l \in Labels, NEW r \in Requests,
           pc' \in {pc, [pc EXCEPT ![c] = l], [pc EXCEPT ![c] = "recv"]},
           req' \in {req, [req EXCEPT ![c] = r], [req EXCEPT ![c] = NoReq]}
    PROVE  pc' \in [Clients -> Labels] /\ req' \in [Clients -> Requests]
BY RequestTypes DEF TypeOK, Labels

LEMMA TypesKept ==
    ASSUME IInv, [Next]_vars
    PROVE  TypeOK'
<1> USE NullFacts
<1>0. TypeOK /\ SingleRegistration /\ \A c \in Clients : ThreadInv(c) /\ WriteInv(c)
  BY DEF IInv
<1>1. ASSUME NEW c \in Clients, NEW n \in Names, NEW p \in Passwords, Register(c, n, p) PROVE TypeOK'
  <2>1. [op |-> "register", user |-> n, pass |-> p, arg |-> NULL] \in Requests
    BY RequestTypes
  <2>2. /\ pc' \in {pc, [pc EXCEPT ![c] = "reg_insert"]}
        /\ req' \in {req, [req EXCEPT ![c] = [op |-> "register", user |-> n, pass |-> p, arg |-> NULL]]}
        /\ UNCHANGED <<pos, session, active, list, rec, file, opens, misnamed, fault>>
    BY <1>1 DEF Register, Goto, Take, memory
  <2>3. pc' \in [Clients -> Labels] /\ req' \in [Clients -> Requests]
    BY <1>0, <2>1, <2>2, ThreadTypes DEF Labels
  <2> QED BY <1>0, <2>2, <2>3 DEF TypeOK
<1>2. ASSUME NEW c \in Clients, NEW n \in Names, NEW p \in Passwords, Login(c, n, p) PROVE TypeOK'
  <2>1. [op |-> "login", user |-> n, pass |-> p, arg |-> NULL] \in Requests
    BY RequestTypes
  <2>2. /\ pc' \in {pc, [pc EXCEPT ![c] = "login_match"]}
        /\ req' \in {req, [req EXCEPT ![c] = [op |-> "login", user |-> n, pass |-> p, arg |-> NULL]]}
        /\ UNCHANGED <<pos, session, active, list, rec, file, opens, misnamed, fault>>
    BY <1>2 DEF Login, Goto, Take, memory
  <2>3. pc' \in [Clients -> Labels] /\ req' \in [Clients -> Requests]
    BY <1>0, <2>1, <2>2, ThreadTypes DEF Labels
  <2> QED BY <1>0, <2>2, <2>3 DEF TypeOK
<1>3. ASSUME NEW c \in Clients, NEW n \in Names \cup {NULL}, NEW p \in Passwords, NEW q \in Passwords,
             SetPass(c, n, p, q)
      PROVE  TypeOK'
  <2>1. CASE ~Matches(n, p)
    BY <1>0, <1>3, <2>1 DEF TypeOK, SetPass, memory
  <2>2. CASE Matches(n, p)
    <3> DEFINE r == [op |-> "setpass", user |-> n, pass |-> p, arg |-> q]
    <3>1. r \in Requests
      BY <1>0, <2>2, ListedAreNames, RequestTypes DEF Matches
    <3>2. /\ pc' = [pc EXCEPT ![c] = "pass_clear"] /\ req' = [req EXCEPT ![c] = r]
          /\ UNCHANGED <<pos, session, active, list, rec, file, opens, fault>>
          /\ misnamed' = (misnamed \/ n # session[c])
      BY <1>3, <2>2 DEF SetPass, Goto, Take, Misnames, memory
    <3> HIDE DEF r
    <3>3. pc' \in [Clients -> Labels] /\ req' \in [Clients -> Requests]
      BY <1>0, <3>1, <3>2, ThreadTypes DEF Labels
    <3>4. misnamed' \in BOOLEAN
      BY <3>2
    <3> QED BY <1>0, <3>2, <3>3, <3>4 DEF TypeOK
  <2> QED BY <2>1, <2>2
<1>4. ASSUME NEW c \in Clients, NEW n \in Names \cup {NULL}, NEW x \in RealNames, SetName(c, n, x)
      PROVE  TypeOK'
  <2>1. CASE ~Listed(n)
    BY <1>0, <1>4, <2>1 DEF TypeOK, SetName, memory
  <2>2. CASE Listed(n)
    <3> DEFINE r == [op |-> "setname", user |-> n, pass |-> NULL, arg |-> x]
    <3>1. r \in Requests
      BY <1>0, <2>2, ListedAreNames, RequestTypes
    <3>2. /\ pc' = [pc EXCEPT ![c] = "name_clear"] /\ req' = [req EXCEPT ![c] = r]
          /\ UNCHANGED <<pos, session, active, list, rec, file, opens, misnamed, fault>>
      BY <1>4, <2>2 DEF SetName, Goto, Take, memory
    <3> HIDE DEF r
    <3>3. pc' \in [Clients -> Labels] /\ req' \in [Clients -> Requests]
      BY <1>0, <3>1, <3>2, ThreadTypes DEF Labels
    <3> QED BY <1>0, <3>2, <3>3 DEF TypeOK
  <2> QED BY <2>1, <2>2
<1>5. ASSUME NEW c \in Clients, NEW n \in Names \cup {NULL}, Exit(c, n) PROVE TypeOK'
  BY <1>0, <1>5 DEF TypeOK, Exit, Misnames
<1>6. ASSUME NEW c \in Clients, RegInsert(c) PROVE TypeOK'
  <2>1. req[c].user \in Names /\ req[c].pass \in Passwords
    BY <1>0, <1>6 DEF ThreadInv, RegInsert, Running
  <2>2. [pass |-> req[c].pass, real |-> req[c].user] \in Records
    BY <2>1, RecordTypes
  <2>3. /\ list' = list \/ list' = Append(list, req[c].user)
        /\ rec' = rec \/ rec' = [rec EXCEPT ![req[c].user] = [pass |-> req[c].pass, real |-> req[c].user]]
        /\ pc' = [pc EXCEPT ![c] = "open"]
    BY <1>6 DEF RegInsert, Goto
  <2>4. list' \in Seq(Names)
    <3>1. list \in Seq(Names)
      BY <1>0 DEF TypeOK
    <3>2. Append(list, req[c].user) \in Seq(Names)
      BY <2>1, <3>1
    <3> QED BY <2>3, <3>1, <3>2
  <2>6. rec' \in [Names -> Records]
    BY <1>0, <2>1, <2>2, <2>3 DEF TypeOK
  <2>7. pc' \in [Clients -> Labels]
    BY <1>0, <2>3 DEF TypeOK, Labels
  <2>5. UNCHANGED <<req, pos, session, active, file, opens, misnamed, fault>>
    BY <1>6 DEF RegInsert
  <2> QED BY <1>0, <2>4, <2>5, <2>6, <2>7 DEF TypeOK
<1>7. ASSUME NEW c \in Clients, WriteOpen(c) PROVE TypeOK'
  <2>1. 1 \in Positions /\ NULL \in Positions
    BY DEF Positions
  <2>2. pos' \in [Clients -> Positions] /\ pc' \in [Clients -> Labels]
    BY <1>0, <1>7, <2>1 DEF TypeOK, Labels, WriteOpen, Goto
  <2>3. opens' \in Nat
    BY <1>0, <1>7 DEF TypeOK, WriteOpen
  <2>4. UNCHANGED <<req, session, active, list, rec, file, misnamed, fault>>
    BY <1>7 DEF WriteOpen, memory
  <2> QED BY <1>0, <2>2, <2>3, <2>4 DEF TypeOK
<1>8. ASSUME NEW c \in Clients, WriteRecord(c) PROVE TypeOK'
  <2>1. /\ pos[c] \in Nat \ {0} /\ pos[c] <= Len(list) /\ pos[c] \in Slots
        /\ Len(list) <= Cardinality(Names) /\ list[pos[c]] \in Names
    <3>1. pos[c] # NULL /\ pos[c] <= Len(list)
      BY <1>8 DEF WriteRecord, MoreToWrite
    <3>2. pos[c] \in Nat \ {0}
      BY <1>0, <3>1 DEF TypeOK, Positions
    <3> QED BY <1>0, <3>1, <3>2, ListFits DEF TypeOK, Slots
  <2>2. Record(list[pos[c]]) \in FileRecords
    BY <1>0, <2>1, RecordTypes DEF TypeOK, Record
  <2>3. pos[c] + 1 \in Positions
    BY <2>1 DEF Positions
  <2>4. /\ file' = [file EXCEPT ![pos[c]] = Record(list[pos[c]])]
        /\ pos' = [pos EXCEPT ![c] = pos[c] + 1]
        /\ UNCHANGED <<pc, req, session, active, list, rec, opens, misnamed, fault>>
    BY <1>0, <1>8 DEF TypeOK, WriteRecord, memory
  <2>5. file' \in [Slots -> FileRecords \cup {NULL}] /\ pos' \in [Clients -> Positions]
    BY <1>0, <2>2, <2>3, <2>4 DEF TypeOK
  <2> QED BY <1>0, <2>4, <2>5 DEF TypeOK
<1>9. ASSUME NEW c \in Clients, WriteEnd(c) PROVE TypeOK'
  <2>1. /\ pos' = [pos EXCEPT ![c] = NULL]
        /\ pc' \in {[pc EXCEPT ![c] = "login_find"], [pc EXCEPT ![c] = "recv"]}
        /\ req' \in {req, [req EXCEPT ![c] = NoReq]}
        /\ fault' \in {fault, "noRoomFollowed"}
        /\ UNCHANGED <<session, active, list, rec, file, opens, misnamed>>
    BY <1>9 DEF WriteEnd, Goto, Return, Take, memory
  <2>2. pc' \in [Clients -> Labels] /\ pos' \in [Clients -> Positions]
    BY <1>0, <2>1 DEF TypeOK, Labels, Positions
  <2>3. req' \in [Clients -> Requests]
    BY <1>0, <2>1, RequestTypes DEF TypeOK
  <2> QED BY <1>0, <2>1, <2>2, <2>3 DEF TypeOK
<1>10. ASSUME NEW c \in Clients, LoginFind(c) PROVE TypeOK'
  <2>1. /\ pc' \in {[pc EXCEPT ![c] = "login_match"], [pc EXCEPT ![c] = "recv"]}
        /\ req' \in {req, [req EXCEPT ![c] = NoReq]}
        /\ UNCHANGED <<pos, session, active, list, rec, file, opens, misnamed, fault>>
    BY <1>10 DEF LoginFind, Goto, Return, Take, memory
  <2>2. pc' \in [Clients -> Labels] /\ req' \in [Clients -> Requests]
    BY <1>0, <2>1, RequestTypes, ThreadTypes DEF Labels
  <2> QED BY <1>0, <2>1, <2>2 DEF TypeOK
<1>11. ASSUME NEW c \in Clients, LoginMatch(c) PROVE TypeOK'
  <2>1. /\ pc' \in {[pc EXCEPT ![c] = "login_insert"], [pc EXCEPT ![c] = "recv"]}
        /\ req' \in {req, [req EXCEPT ![c] = NoReq]}
        /\ UNCHANGED <<pos, session, active, list, rec, file, opens, misnamed, fault>>
    BY <1>11 DEF LoginMatch, Goto, Return, Take, memory
  <2>2. pc' \in [Clients -> Labels] /\ req' \in [Clients -> Requests]
    BY <1>0, <2>1, RequestTypes, ThreadTypes DEF Labels
  <2> QED BY <1>0, <2>1, <2>2 DEF TypeOK
<1>12. ASSUME NEW c \in Clients, LoginInsert(c) PROVE TypeOK'
  <2>1. /\ pc' \in {pc, [pc EXCEPT ![c] = "recv"]} /\ req' \in {req, [req EXCEPT ![c] = NoReq]}
        /\ active' \in {active, active \cup {req[c].user}}
        /\ session' \in {session, [session EXCEPT ![c] = req[c].user]}
        /\ fault' \in {fault, "listedRecordFreed"}
        /\ UNCHANGED <<pos, list, rec, file, opens, misnamed>>
    BY <1>12 DEF LoginInsert, Goto, Return, Take
  <2>2. req[c].user \in Names
    BY <1>0, <1>12 DEF ThreadInv, LoginInsert, Running
  <2>3. pc' \in [Clients -> Labels] /\ req' \in [Clients -> Requests]
    BY <1>0, <2>1, RequestTypes, ThreadTypes DEF Labels
  <2>4. session' \in [Clients -> Names \cup {NULL}] /\ active' \subseteq Names
    BY <1>0, <2>1, <2>2 DEF TypeOK
  <2> QED BY <1>0, <2>1, <2>3, <2>4 DEF TypeOK
<1>13. ASSUME NEW c \in Clients, PassClear(c) PROVE TypeOK'
  BY <1>0, <1>13, RecordTypes DEF TypeOK, ThreadInv, Labels, PassClear, Running, Goto
<1>14. ASSUME NEW c \in Clients, PassSet(c) PROVE TypeOK'
  BY <1>0, <1>14, RecordTypes, RequestTypes
  DEF TypeOK, ThreadInv, Labels, PassSet, Running, Goto, DropArguments, Take
<1>15. ASSUME NEW c \in Clients, NameClear(c) PROVE TypeOK'
  BY <1>0, <1>15, RecordTypes DEF TypeOK, ThreadInv, Labels, NameClear, Running, Goto
<1>16. ASSUME NEW c \in Clients, NameSet(c) PROVE TypeOK'
  BY <1>0, <1>16, RecordTypes, RequestTypes
  DEF TypeOK, ThreadInv, Labels, NameSet, Running, Goto, DropArguments, Take
<1>17. ASSUME Restart PROVE TypeOK'
  <2>1. \A i \in 1 .. FileLength : i \in Slots /\ file[i] \in FileRecords
    BY <1>0, FilePrefix, ListFits DEF TypeOK, Slots
  <2>2. list' \in Seq(Names)
    <3>1. list' \in [1 .. FileLength -> Names]
      BY <1>17, <2>1 DEF Restart, FileRecords
    <3> QED BY <1>0, <3>1, FilePrefix
  <2>3. rec' \in [Names -> Records]
    <3> DEFINE From(n) == CHOOSE i \in 1 .. FileLength : file[i].user = n
    <3>1. ASSUME NEW n \in Names, \E i \in 1 .. FileLength : file[i].user = n
          PROVE  [pass |-> file[From(n)].pass, real |-> file[From(n)].real] \in Records
      <4>1. From(n) \in 1 .. FileLength
        BY <3>1
      <4> HIDE DEF From
      <4>2. file[From(n)] \in FileRecords
        BY <2>1, <4>1
      <4> QED BY <4>2 DEF FileRecords, Records
    <3>2. rec' = [n \in Names |-> IF \E i \in 1 .. FileLength : file[i].user = n
                                  THEN [pass |-> file[From(n)].pass, real |-> file[From(n)].real]
                                  ELSE NoRec]
      BY <1>17 DEF Restart
    <3> HIDE DEF From
    <3> QED BY <3>1, <3>2, RecordTypes
  <2>4. NULL \in Positions
    BY DEF Positions
  <2> QED BY <1>0, <1>17, <2>2, <2>3, <2>4, RequestTypes DEF TypeOK, Restart, Labels
<1>18. ASSUME UNCHANGED vars PROVE TypeOK'
  BY <1>0, <1>18 DEF TypeOK, vars, memory
<1> QED
  BY <1>1, <1>2, <1>3, <1>4, <1>5, <1>6, <1>7, <1>8, <1>9, <1>10, <1>11, <1>12, <1>13,
     <1>14, <1>15, <1>16, <1>17, <1>18 DEF Next, Request, Handler

-----------------------------------------------------------------------------
(* What a step leaves alone. *)

Step(c) == Request(c) \/ Handler(c)

OthersKeep(c) ==
    \A d \in Clients \ {c} :
        pc'[d] = pc[d] /\ req'[d] = req[d] /\ pos'[d] = pos[d] /\ session'[d] = session[d]

\* A thread writes its own locals only.
LEMMA ThreadsOwnTheirLocals ==
    ASSUME TypeOK, NEW c \in Clients, Step(c)
    PROVE  OthersKeep(c)
<1> USE DEF TypeOK, OthersKeep, Goto, Take, Return, DropArguments, memory
<1>1. ASSUME \E n \in Names, p \in Passwords : Register(c, n, p) PROVE OthersKeep(c)
  BY <1>1 DEF Register
<1>2. ASSUME \E n \in Names, p \in Passwords : Login(c, n, p) PROVE OthersKeep(c)
  BY <1>2 DEF Login
<1>3. ASSUME \E n \in Names \cup {NULL}, p, q \in Passwords : SetPass(c, n, p, q) PROVE OthersKeep(c)
  BY <1>3 DEF SetPass
<1>4. ASSUME \E n \in Names \cup {NULL}, x \in RealNames : SetName(c, n, x) PROVE OthersKeep(c)
  BY <1>4 DEF SetName
<1>5. ASSUME \E n \in Names \cup {NULL} : Exit(c, n) PROVE OthersKeep(c)
  BY <1>5 DEF Exit
<1>6. ASSUME RegInsert(c) PROVE OthersKeep(c)
  BY <1>6 DEF RegInsert
<1>7. ASSUME WriteOpen(c) PROVE OthersKeep(c)
  BY <1>7 DEF WriteOpen
<1>8. ASSUME WriteRecord(c) PROVE OthersKeep(c)
  BY <1>8 DEF WriteRecord
<1>9. ASSUME WriteEnd(c) PROVE OthersKeep(c)
  BY <1>9 DEF WriteEnd
<1>10. ASSUME LoginFind(c) PROVE OthersKeep(c)
  BY <1>10 DEF LoginFind
<1>11. ASSUME LoginMatch(c) PROVE OthersKeep(c)
  BY <1>11 DEF LoginMatch
<1>12. ASSUME LoginInsert(c) PROVE OthersKeep(c)
  BY <1>12 DEF LoginInsert
<1>13. ASSUME PassClear(c) PROVE OthersKeep(c)
  BY <1>13 DEF PassClear
<1>14. ASSUME PassSet(c) PROVE OthersKeep(c)
  BY <1>14 DEF PassSet
<1>15. ASSUME NameClear(c) PROVE OthersKeep(c)
  BY <1>15 DEF NameClear
<1>16. ASSUME NameSet(c) PROVE OthersKeep(c)
  BY <1>16 DEF NameSet
<1> QED
  BY <1>1, <1>2, <1>3, <1>4, <1>5, <1>6, <1>7, <1>8, <1>9, <1>10, <1>11, <1>12, <1>13,
     <1>14, <1>15, <1>16 DEF Step, Request, Handler

Unwritten == UNCHANGED <<list, file>>

\* Only an insertion, a write and a restart change the list or the file.
LEMMA ListAndFileWriters ==
    ASSUME [Next]_vars
    PROVE  Unwritten \/ Restart \/ \E c \in Clients : RegInsert(c) \/ WriteRecord(c)
<1> USE DEF Unwritten, memory
<1>1. ASSUME NEW c \in Clients, \E n \in Names, p \in Passwords : Register(c, n, p) PROVE Unwritten
  BY <1>1 DEF Register
<1>2. ASSUME NEW c \in Clients, \E n \in Names, p \in Passwords : Login(c, n, p) PROVE Unwritten
  BY <1>2 DEF Login
<1>3. ASSUME NEW c \in Clients, \E n \in Names \cup {NULL}, p, q \in Passwords : SetPass(c, n, p, q)
      PROVE  Unwritten
  BY <1>3 DEF SetPass
<1>4. ASSUME NEW c \in Clients, \E n \in Names \cup {NULL}, x \in RealNames : SetName(c, n, x)
      PROVE  Unwritten
  BY <1>4 DEF SetName
<1>5. ASSUME NEW c \in Clients, \E n \in Names \cup {NULL} : Exit(c, n) PROVE Unwritten
  BY <1>5 DEF Exit
<1>6. ASSUME NEW c \in Clients, WriteOpen(c) PROVE Unwritten
  BY <1>6 DEF WriteOpen
<1>7. ASSUME NEW c \in Clients, WriteEnd(c) PROVE Unwritten
  BY <1>7 DEF WriteEnd
<1>8. ASSUME NEW c \in Clients, LoginFind(c) PROVE Unwritten
  BY <1>8 DEF LoginFind
<1>9. ASSUME NEW c \in Clients, LoginMatch(c) PROVE Unwritten
  BY <1>9 DEF LoginMatch
<1>10. ASSUME NEW c \in Clients, LoginInsert(c) PROVE Unwritten
  BY <1>10 DEF LoginInsert
<1>11. ASSUME NEW c \in Clients, PassClear(c) PROVE Unwritten
  BY <1>11 DEF PassClear
<1>12. ASSUME NEW c \in Clients, PassSet(c) PROVE Unwritten
  BY <1>12 DEF PassSet
<1>13. ASSUME NEW c \in Clients, NameClear(c) PROVE Unwritten
  BY <1>13 DEF NameClear
<1>14. ASSUME NEW c \in Clients, NameSet(c) PROVE Unwritten
  BY <1>14 DEF NameSet
<1>15. ASSUME UNCHANGED vars PROVE Unwritten
  BY <1>15 DEF vars
<1> QED
  BY <1>1, <1>2, <1>3, <1>4, <1>5, <1>6, <1>7, <1>8, <1>9, <1>10, <1>11, <1>12, <1>13, <1>14, <1>15
  DEF Next, Request, Handler

\* An insertion appends a user who is not in the list.
LEMMA Insertion ==
    ASSUME IInv, NEW c \in Clients, RegInsert(c)
    PROVE  /\ file' = file
           /\ \/ list' = list /\ rec' = rec
              \/ /\ req[c].user \in Names /\ ~Listed(req[c].user)
                 /\ list' = Append(list, req[c].user)
                 /\ \A n \in Names : Listed(n) => rec'[n] = rec[n]
<1>1. req[c].user \in Names
  BY DEF IInv, ThreadInv, RegInsert, Running
<1> QED BY <1>1 DEF IInv, TypeOK, RegInsert

\* A write puts the record of a listed user into the slot of his place in the list.
LEMMA Writing ==
    ASSUME IInv, NEW c \in Clients, WriteRecord(c)
    PROVE  /\ UNCHANGED <<list, rec>>
           /\ pos[c] \in Slots /\ pos[c] \in 1 .. Len(list)
           /\ file' = [file EXCEPT ![pos[c]] = Record(list[pos[c]])]
           /\ \A j \in Slots : j < pos[c] => file[j] # NULL
<1>1. pos[c] # NULL /\ pos[c] <= Len(list)
  BY DEF WriteRecord, MoreToWrite
<1>2. pos[c] \in Nat \ {0}
  BY <1>1, NullFacts DEF IInv, TypeOK, Positions
<1>3. Len(list) \in Nat /\ Len(list) <= Cardinality(Names)
  BY ListFits DEF IInv
<1>4. pos[c] \in Slots /\ pos[c] \in 1 .. Len(list)
  BY <1>1, <1>2, <1>3, NullFacts DEF Slots
<1>5. \A j \in Slots : j < pos[c] => file[j] # NULL
  BY <1>1 DEF IInv, WriteInv
<1> QED BY <1>4, <1>5 DEF WriteRecord, memory

\* A restart shortens the list to what is in the file.
LEMMA Restarting ==
    ASSUME IInv, Restart
    PROVE  /\ file' = file
           /\ Len(list') = FileLength /\ DOMAIN list' = 1 .. FileLength
           /\ 1 .. FileLength \subseteq Slots
           /\ \A i \in 1 .. FileLength : file[i] # NULL /\ list'[i] = list[i]
<1>1. FileLength \in Nat /\ FileLength <= Len(list)
      /\ \A i \in Slots : file[i] # NULL <=> i <= FileLength
  BY FilePrefix DEF IInv
<1>2. 1 .. FileLength \subseteq Slots
  BY <1>1, ListFits, NullFacts DEF IInv, Slots
<1>3. DOMAIN list' = 1 .. FileLength /\ Len(list') = FileLength
      /\ \A i \in 1 .. FileLength : list'[i] = file[i].user
  BY <1>1 DEF Restart
<1>4. ASSUME NEW i \in 1 .. FileLength PROVE file[i] # NULL /\ file[i].user = list[i]
  BY <1>1, <1>2 DEF IInv, SingleRegistration
<1> QED BY <1>2, <1>3, <1>4 DEF Restart

-----------------------------------------------------------------------------
(* Registrations stay unique. *)

LEMMA UniquenessKept ==
    ASSUME IInv, [Next]_vars
    PROVE  SingleRegistration'
<1>0. SingleRegistration /\ list \in Seq(Names) /\ Len(list) \in Nat /\ DOMAIN list = 1 .. Len(list)
  BY DEF IInv, TypeOK
<1>1. ASSUME Unwritten PROVE SingleRegistration'
  BY <1>0, <1>1 DEF Unwritten, SingleRegistration
<1>2. ASSUME NEW c \in Clients, RegInsert(c) PROVE SingleRegistration'
  <2>1. CASE list' = list
    BY <1>0, <1>2, <2>1, Insertion DEF SingleRegistration
  <2>2. CASE list' # list
    <3>1. /\ req[c].user \in Names /\ ~Listed(req[c].user) /\ file' = file
          /\ list' = Append(list, req[c].user)
      BY <1>2, <2>2, Insertion
    <3>2. /\ Len(list') = Len(list) + 1 /\ DOMAIN list' = 1 .. Len(list) + 1
          /\ \A i \in 1 .. Len(list) : list'[i] = list[i]
          /\ list'[Len(list) + 1] = req[c].user
      BY <1>0, <3>1
    <3>3. \A i \in 1 .. Len(list) : list[i] # req[c].user
      BY <1>0, <3>1 DEF Listed, ToSet
    <3>4. \A i, j \in DOMAIN list' : list'[i] = list'[j] => i = j
      BY <1>0, <3>2, <3>3 DEF SingleRegistration
    <3>5. ASSUME NEW i \in Slots, file'[i] # NULL
          PROVE  i <= Len(list') /\ file'[i].user = list'[i] /\ \A j \in 1 .. i : file'[j] # NULL
      BY <1>0, <3>1, <3>2, <3>5, NullFacts DEF SingleRegistration, Slots
    <3> QED BY <3>4, <3>5 DEF SingleRegistration
  <2> QED BY <2>1, <2>2
<1>3. ASSUME NEW c \in Clients, WriteRecord(c) PROVE SingleRegistration'
  <2>1. /\ list' = list /\ pos[c] \in Slots /\ pos[c] \in 1 .. Len(list)
        /\ file' = [file EXCEPT ![pos[c]] = Record(list[pos[c]])]
        /\ \A j \in Slots : j < pos[c] => file[j] # NULL
    BY <1>3, Writing
  <2>2. Record(list[pos[c]]).user = list[pos[c]] /\ Record(list[pos[c]]) # NULL
    <3>1. list[pos[c]] \in Names
      BY <1>0, <2>1
    <3>2. Record(list[pos[c]]) \in FileRecords
      BY <1>0, <3>1, RecordTypes DEF Record, IInv, TypeOK
    <3> QED BY <3>2, NullFacts DEF Record
  <2>3. ASSUME NEW i \in Slots, file'[i] # NULL
        PROVE  i <= Len(list) /\ file'[i].user = list[i] /\ \A j \in 1 .. i : file'[j] # NULL
    BY <1>0, <2>1, <2>2, <2>3, NullFacts DEF SingleRegistration, Slots, IInv, TypeOK
  <2> QED BY <1>0, <2>1, <2>3 DEF SingleRegistration
<1>4. ASSUME Restart PROVE SingleRegistration'
  BY <1>0, <1>4, Restarting, FilePrefix DEF SingleRegistration, IInv, Slots
<1> QED BY <1>1, <1>2, <1>3, <1>4, ListAndFileWriters

-----------------------------------------------------------------------------
(* What each thread holds. *)

\* Short of a restart nobody is forgotten: the list and the file only grow, and
\* descriptors that ran out stay out.
Grows ==
    /\ Len(list) <= Len(list')
    /\ \A n \in Names : Listed(n) => Listed(n)'
    /\ \A j \in Slots : file[j] # NULL => file'[j] # NULL
    /\ opens <= opens' /\ (opens > MaxFiles => opens' > MaxFiles)

LEMMA StepsGrow ==
    ASSUME IInv, NEW c \in Clients, Step(c)
    PROVE  Grows
<1>0. /\ list \in Seq(Names) /\ Len(list) \in Nat /\ DOMAIN list = 1 .. Len(list)
      /\ file \in [Slots -> FileRecords \cup {NULL}] /\ rec \in [Names -> Records]
  BY DEF IInv, TypeOK
<1>1. opens <= opens' /\ (opens > MaxFiles => opens' > MaxFiles)
  <2>1. opens' = opens \/ WriteOpen(c)
    BY DEF Step, Request, Handler, Register, Login, SetPass, SetName, Exit, RegInsert, WriteRecord,
        WriteEnd, LoginFind, LoginMatch, LoginInsert, PassClear, PassSet, NameClear, NameSet
  <2>2. opens \in Nat /\ MaxFiles \in Nat
    BY RegistryAssumption DEF IInv, TypeOK
  <2> QED BY <2>1, <2>2 DEF WriteOpen
<1>2. Unwritten \/ RegInsert(c) \/ WriteRecord(c)
  BY DEF Unwritten, memory,
      Step, Request, Handler, Register, Login, SetPass, SetName, Exit, WriteOpen,
      WriteEnd, LoginFind, LoginMatch, LoginInsert, PassClear, PassSet, NameClear, NameSet
<1>3. CASE Unwritten
  BY <1>0, <1>1, <1>3 DEF Grows, Unwritten, Listed
<1>4. CASE RegInsert(c)
  <2>1. file' = file /\ (list' = list \/ (req[c].user \in Names /\ list' = Append(list, req[c].user)))
    BY <1>4, Insertion
  <2>2. Len(list) <= Len(list') /\ \A i \in DOMAIN list : i \in DOMAIN list' /\ list'[i] = list[i]
    BY <1>0, <2>1
  <2>3. \A n \in Names : Listed(n) => Listed(n)'
    BY <2>2 DEF Listed, ToSet
  <2> QED BY <1>1, <2>1, <2>2, <2>3 DEF Grows
<1>5. CASE WriteRecord(c)
  <2>1. /\ list' = list /\ pos[c] \in Slots /\ pos[c] \in 1 .. Len(list)
        /\ file' = [file EXCEPT ![pos[c]] = Record(list[pos[c]])]
    BY <1>5, Writing
  <2>2. Record(list[pos[c]]) # NULL
    <3>1. Record(list[pos[c]]) \in FileRecords
      BY <1>0, <2>1, RecordTypes DEF Record
    <3> QED BY <3>1, NullFacts
  <2>3. \A j \in Slots : file[j] # NULL => file'[j] # NULL
    BY <1>0, <2>1, <2>2
  <2> QED BY <1>0, <1>1, <2>1, <2>3 DEF Grows, Listed
<1> QED BY <1>2, <1>3, <1>4, <1>5

\* A thread that does not take the step keeps what it holds.
LEMMA OthersKept ==
    ASSUME IInv, NEW c \in Clients, Step(c), NEW d \in Clients \ {c}
    PROVE  ThreadInv(d)' /\ WriteInv(d)'
<1>1. pc'[d] = pc[d] /\ req'[d] = req[d] /\ pos'[d] = pos[d] /\ session'[d] = session[d]
  BY ThreadsOwnTheirLocals DEF OthersKeep, IInv
<1>2. Grows /\ Len(list) \in Nat /\ Len(list') \in Nat
  BY StepsGrow, TypesKept DEF IInv, TypeOK, Next, Step
<1>3. ThreadInv(d) /\ WriteInv(d) /\ TypeOK
  BY DEF IInv
<1>4. ThreadInv(d)'
  <2>1. Listed(req[d].user) /\ req[d].user \in Names => Listed(req[d].user)'
    BY <1>1, <1>2 DEF Grows, Listed
  <2> QED BY <1>1, <1>3, <2>1 DEF ThreadInv, Listed
<1>5. WriteInv(d)'
  <2>1. pos[d] # NULL => pos[d] \in Nat
    BY <1>3 DEF TypeOK, Positions
  <2> QED BY <1>1, <1>2, <1>3, <2>1 DEF WriteInv, Grows
<1> QED BY <1>4, <1>5

\* Nor does the thread that takes it lose what its next step needs.
LEMMA OwnKept ==
    ASSUME IInv, NEW c \in Clients, Step(c)
    PROVE  ThreadInv(c)' /\ WriteInv(c)'
<1> DEFINE Own == ThreadInv(c)' /\ WriteInv(c)'
<1>0. /\ ThreadInv(c) /\ WriteInv(c) /\ SingleRegistration /\ TypeOK
      /\ pc \in [Clients -> Labels] /\ req \in [Clients -> Requests]
      /\ pos \in [Clients -> Positions] /\ opens \in Nat /\ MaxFiles \in Nat
      /\ list \in Seq(Names) /\ Len(list) \in Nat
      /\ file \in [Slots -> FileRecords \cup {NULL}] /\ rec \in [Names -> Records]
  BY RegistryAssumption DEF IInv, TypeOK
<1> USE <1>0 DEF ThreadInv, WriteInv, Goto, Take, Return, Idle, Running, memory, Listed
<1>1. ASSUME NEW n \in Names, NEW p \in Passwords, Register(c, n, p) PROVE Own
  <2>1. /\ pos'[c] = NULL /\ list' = list
        /\ \/ pc'[c] = "recv"
           \/ pc'[c] = "reg_insert" /\ req'[c].op = "register" /\ req'[c].user = n /\ req'[c].pass = p
    BY <1>1 DEF Register
  <2> QED BY <2>1
<1>2. ASSUME NEW n \in Names, NEW p \in Passwords, Login(c, n, p) PROVE Own
  <2>1. /\ pos'[c] = NULL /\ list' = list
        /\ \/ pc'[c] = "recv"
           \/ pc'[c] = "login_match" /\ req'[c].user = n /\ Listed(n)
    BY <1>2 DEF Login, Known, get_real_name
  <2> QED BY <2>1
<1>3. ASSUME NEW n \in Names \cup {NULL}, NEW p \in Passwords, NEW q \in Passwords, SetPass(c, n, p, q)
      PROVE  Own
  <2>1. /\ pos'[c] = NULL /\ list' = list
        /\ \/ pc'[c] = "recv"
           \/ /\ pc'[c] = "pass_clear" /\ Listed(n)
              /\ req'[c] = [op |-> "setpass", user |-> n, pass |-> p, arg |-> q]
    BY <1>3 DEF SetPass, Asks, Matches
  <2> QED BY <2>1, ListedAreNames
<1>4. ASSUME NEW n \in Names \cup {NULL}, NEW x \in RealNames, SetName(c, n, x) PROVE Own
  <2>1. /\ pos'[c] = NULL /\ list' = list
        /\ \/ pc'[c] = "recv"
           \/ /\ pc'[c] = "name_clear" /\ Listed(n)
              /\ req'[c] = [op |-> "setname", user |-> n, pass |-> NULL, arg |-> x]
    BY <1>4 DEF SetName, Asks
  <2> QED BY <2>1, ListedAreNames
<1>5. ASSUME NEW n \in Names \cup {NULL}, Exit(c, n) PROVE Own
  BY <1>5 DEF Exit, Asks
<1>6. ASSUME RegInsert(c) PROVE Own
  <2>1. /\ req[c].user \in Names /\ pos'[c] = NULL /\ req' = req /\ pc'[c] = "open"
        /\ \/ list' = list /\ Listed(req[c].user)
           \/ list' = Append(list, req[c].user)
    BY <1>6 DEF RegInsert
  <2>2. Listed(req[c].user)'
    <3>1. CASE list' = Append(list, req[c].user)
      <4>1. Len(list) + 1 \in DOMAIN list' /\ list'[Len(list) + 1] = req[c].user
        BY <2>1, <3>1
      <4> QED BY <2>1, <4>1 DEF ToSet
    <3> QED BY <2>1, <3>1
  <2> QED BY <2>1, <2>2
<1>7. ASSUME WriteOpen(c) PROVE Own
  <2>1. /\ pc[c] = "open" /\ pc'[c] = "write" /\ UNCHANGED <<req, list, file>>
        /\ \/ pos'[c] = 1
           \/ pos'[c] = NULL /\ opens' > MaxFiles
    BY <1>7 DEF WriteOpen
  <2>2. 1 # NULL /\ 1 <= Len(list) + 1 /\ \A j \in Slots : ~(j < 1)
    BY NullFacts DEF Slots
  <2>3. WriteInv(c)'
    BY <2>1, <2>2
  <2>4. ThreadInv(c)'
    BY <2>1
  <2> QED BY <2>3, <2>4
<1>8. ASSUME WriteRecord(c) PROVE Own
  <2>1. /\ pc[c] = "write" /\ pc'[c] = "write" /\ UNCHANGED <<req, list>>
        /\ pos'[c] = pos[c] + 1
    BY <1>8 DEF WriteRecord
  <2>2. /\ pos[c] \in Slots /\ pos[c] \in 1 .. Len(list)
        /\ file' = [file EXCEPT ![pos[c]] = Record(list[pos[c]])]
        /\ \A j \in Slots : j < pos[c] => file[j] # NULL
    BY <1>8, Writing
  <2>3. Record(list[pos[c]]) # NULL
    <3>1. Record(list[pos[c]]) \in FileRecords
      BY <2>2, RecordTypes DEF Record
    <3> QED BY <3>1, NullFacts
  <2>4. \A j \in Slots : j < pos[c] + 1 => file'[j] # NULL
    BY <2>2, <2>3, NullFacts DEF Slots
  <2>5. pos'[c] <= Len(list) + 1 /\ pos'[c] # NULL
    BY <2>1, <2>2, NullFacts
  <2> QED BY <2>1, <2>4, <2>5
<1>9. ASSUME WriteEnd(c) PROVE Own
  <2>1. /\ pc[c] = "write" /\ pos'[c] = NULL /\ list' = list /\ opens' = opens
        /\ \/ pc'[c] = "recv"
           \/ req' = req /\ pc'[c] = "login_find"
    BY <1>9 DEF WriteEnd
  <2> QED BY <2>1
<1>10. ASSUME LoginFind(c) PROVE Own
  BY <1>10 DEF LoginFind, Known, get_real_name
<1>11. ASSUME LoginMatch(c) PROVE Own
  BY <1>11 DEF LoginMatch
<1>12. ASSUME LoginInsert(c) PROVE Own
  BY <1>12 DEF LoginInsert
<1>13. ASSUME PassClear(c) PROVE Own
  BY <1>13 DEF PassClear
<1>14. ASSUME PassSet(c) PROVE Own
  BY <1>14 DEF PassSet, DropArguments
<1>15. ASSUME NameClear(c) PROVE Own
  BY <1>15 DEF NameClear
<1>16. ASSUME NameSet(c) PROVE Own
  BY <1>16 DEF NameSet, DropArguments
<1> QED
  BY <1>1, <1>2, <1>3, <1>4, <1>5, <1>6, <1>7, <1>8, <1>9, <1>10, <1>11, <1>12, <1>13,
     <1>14, <1>15, <1>16 DEF Step, Request, Handler

-----------------------------------------------------------------------------
(* The invariant. *)

LEMMA IInvInit == Init => IInv
<1> SUFFICES ASSUME Init PROVE IInv
  OBVIOUS
<1>1. TypeOK
  <2>1. pos \in [Clients -> Positions] /\ file \in [Slots -> FileRecords \cup {NULL}]
    BY DEF Init, Positions
  <2>2. list \in Seq(Names) /\ opens \in Nat
    BY DEF Init
  <2> QED BY <2>1, <2>2, RequestTypes, RecordTypes DEF Init, TypeOK, Labels
<1>2. SingleRegistration
  BY DEF Init, SingleRegistration
<1>3. \A c \in Clients : ThreadInv(c) /\ WriteInv(c)
  BY DEF Init, ThreadInv, WriteInv
<1> QED BY <1>1, <1>2, <1>3 DEF IInv

LEMMA IInvKept == IInv /\ [Next]_vars => IInv'
<1> SUFFICES ASSUME IInv, [Next]_vars PROVE IInv'
  OBVIOUS
<1>1. TypeOK' /\ SingleRegistration'
  BY TypesKept, UniquenessKept
<1>2. ASSUME NEW d \in Clients PROVE ThreadInv(d)' /\ WriteInv(d)'
  <2>1. CASE Restart
    BY <2>1 DEF Restart, ThreadInv, WriteInv
  <2>2. CASE UNCHANGED vars
    BY <2>2 DEF IInv, vars, memory, ThreadInv, WriteInv, Listed
  <2>3. ASSUME NEW c \in Clients, Step(c) PROVE ThreadInv(d)' /\ WriteInv(d)'
    BY <2>3, OwnKept, OthersKept
  <2> QED BY <2>1, <2>2, <2>3 DEF Next, Step
<1> QED BY <1>1, <1>2 DEF IInv

LEMMA Invariant == Spec => []IInv
BY IInvInit, IInvKept, PTL DEF Spec

\* The variables keep their types; in particular the list never has more users
\* than the file has slots for.
THEOREM RegistryTypes == Spec => []TypeOK
<1>1. IInv => TypeOK
  BY DEF IInv
<1> QED BY <1>1, Invariant, PTL

\* Users are registered once, in memory and in the file, whatever the threads and
\* restarts do (insertUser's check, writeUserFile's order, readUserFile).
THEOREM RegistrationsUnique == Spec => []SingleRegistration
<1>1. IInv => SingleRegistration
  BY DEF IInv
<1> QED BY <1>1, Invariant, PTL

-----------------------------------------------------------------------------
(* The passwords of users. *)

\* A user online has one session.
SessionsApart ==
    /\ \A c \in Clients : session[c] # NULL => session[c] \in active
    /\ \A c, d \in Clients : session[c] = session[d] /\ session[c] # NULL => c = d

\* A set_pass under way is its session's, and the password is what it was given, then cleared.
PassInv(c) ==
    /\ pc[c] \in {"pass_clear", "pass_set"} => session[c] = req[c].user
    /\ pc[c] = "pass_clear" => rec[req[c].user].pass = req[c].pass
    /\ pc[c] = "pass_set" => rec[req[c].user].pass = NULL

Alone == ~misnamed => SessionsApart /\ \A c \in Clients : PassInv(c)

\* Who writes passwords: the two steps of set_pass, that of the user they name.
LEMMA PasswordWriters ==
    ASSUME IInv, NEW c \in Clients, Step(c), NEW n \in Names, Listed(n), rec'[n].pass # rec[n].pass
    PROVE  (PassClear(c) \/ PassSet(c)) /\ req[c].user = n
<1>0. rec \in [Names -> Records] /\ ThreadInv(c)
  BY DEF IInv, TypeOK
<1>1. ASSUME PassClear(c) \/ PassSet(c) PROVE req[c].user = n
  <2>1. req[c].user \in Names
    BY <1>0, <1>1 DEF PassClear, PassSet, Running, ThreadInv
  <2> QED BY <1>0, <1>1, <2>1 DEF PassClear, PassSet
<1>2. ~NameClear(c) /\ ~NameSet(c)
  BY <1>0 DEF NameClear, NameSet, Records
<1>3. ~RegInsert(c)
  BY Insertion
<1>4. rec' = rec \/ PassClear(c) \/ PassSet(c) \/ NameClear(c) \/ NameSet(c) \/ RegInsert(c)
  BY DEF memory, Step, Request, Handler, Register, Login, SetPass, SetName, Exit, WriteOpen, WriteRecord,
      WriteEnd, LoginFind, LoginMatch, LoginInsert
<1> QED BY <1>1, <1>2, <1>3, <1>4

\* Sessions stay apart: insertUser refuses a user who is online, and an EXIT takes its
\* own user off the list.
LEMMA SessionsApartKept ==
    ASSUME IInv, SessionsApart, NEW c \in Clients, Step(c), ~misnamed'
    PROVE  SessionsApart'
<1>0. session \in [Clients -> Names \cup {NULL}] /\ active \subseteq Names /\ ThreadInv(c)
  BY DEF IInv, TypeOK
<1>1. CASE LoginInsert(c)
  <2>1. UNCHANGED <<session, active>>
        \/ /\ req[c].user \notin active /\ active' = active \cup {req[c].user}
           /\ session' = [session EXCEPT ![c] = req[c].user]
    BY <1>1 DEF LoginInsert
  <2> QED BY <1>0, <2>1 DEF SessionsApart
<1>2. ASSUME NEW n \in Names \cup {NULL}, Exit(c, n) PROVE SessionsApart'
  <2>1. /\ session[c] # NULL /\ session' = [session EXCEPT ![c] = NULL]
        /\ active' = active \/ (n = session[c] /\ active' = active \ {n})
    BY <1>2 DEF Exit, Asks, Misnames
  <2> QED BY <1>0, <2>1 DEF SessionsApart
<1>3. UNCHANGED <<session, active>> \/ LoginInsert(c) \/ \E n \in Names \cup {NULL} : Exit(c, n)
  BY DEF memory, Step, Request, Handler, Register, Login, SetPass, SetName, RegInsert, WriteOpen, WriteRecord,
      WriteEnd, LoginFind, LoginMatch, PassClear, PassSet, NameClear, NameSet
<1>4. CASE UNCHANGED <<session, active>>
  BY <1>4 DEF SessionsApart
<1> QED BY <1>1, <1>2, <1>3, <1>4

\* What the step does to the set_pass of its own thread.
LEMMA OwnPassKept ==
    ASSUME IInv, NEW c \in Clients, PassInv(c), Step(c), ~misnamed'
    PROVE  PassInv(c)'
<1>0. /\ ThreadInv(c) /\ pc \in [Clients -> Labels] /\ req \in [Clients -> Requests]
      /\ rec \in [Names -> Records] /\ session \in [Clients -> Names \cup {NULL}]
  BY DEF IInv, TypeOK
<1>1. ASSUME NEW n \in Names \cup {NULL}, NEW p \in Passwords, NEW q \in Passwords, SetPass(c, n, p, q)
      PROVE  PassInv(c)'
  <2>1. /\ UNCHANGED <<session, rec>>
        /\ \/ pc'[c] = "recv"
           \/ /\ pc'[c] = "pass_clear" /\ n = session[c] /\ rec[n].pass = p
              /\ req'[c] = [op |-> "setpass", user |-> n, pass |-> p, arg |-> q]
    BY <1>0, <1>1 DEF SetPass, Asks, Idle, Matches, Misnames, Goto, Take, memory
  <2> QED BY <2>1 DEF PassInv
<1>2. CASE PassClear(c)
  <2>1. /\ pc'[c] = "pass_set" /\ UNCHANGED <<req, session>> /\ session[c] = req[c].user
        /\ req[c].user \in Names /\ rec' = [rec EXCEPT ![req[c].user].pass = NULL]
    BY <1>0, <1>2 DEF PassClear, PassInv, ThreadInv, Running, Goto
  <2>2. rec'[req[c].user].pass = NULL
    BY <1>0, <2>1 DEF Records
  <2> QED BY <2>1, <2>2 DEF PassInv
<1>3. pc'[c] \notin {"pass_clear", "pass_set"} \/ PassClear(c)
      \/ \E n \in Names \cup {NULL}, p, q \in Passwords : SetPass(c, n, p, q)
  BY <1>0 DEF Step, Request, Handler, Register, Login, SetName, Exit, RegInsert, WriteOpen, WriteRecord, WriteEnd,
      LoginFind, LoginMatch, LoginInsert, PassSet, NameClear, NameSet, Asks, Idle, Running, Goto, Return
<1>4. CASE pc'[c] \notin {"pass_clear", "pass_set"}
  BY <1>4 DEF PassInv
<1> QED BY <1>1, <1>2, <1>3, <1>4

LEMMA AloneKept ==
    ASSUME IInv, Alone, NEW c \in Clients, Step(c)
    PROVE  Alone'
<1> SUFFICES ASSUME ~misnamed' PROVE SessionsApart' /\ \A d \in Clients : PassInv(d)'
  BY DEF Alone
<1>1. ~misnamed
  BY DEF Step, Request, Handler, Register, Login, SetPass, SetName, Exit, Misnames, RegInsert, WriteOpen, WriteRecord,
      WriteEnd, LoginFind, LoginMatch, LoginInsert, PassClear, PassSet, NameClear, NameSet
<1>2. SessionsApart /\ \A d \in Clients : PassInv(d)
  BY <1>1 DEF Alone
<1>3. ASSUME NEW d \in Clients \ {c} PROVE PassInv(d)'
  <2>1. pc'[d] = pc[d] /\ req'[d] = req[d] /\ session'[d] = session[d]
    BY ThreadsOwnTheirLocals DEF OthersKeep, IInv
  <2>2. ASSUME pc[d] \in {"pass_clear", "pass_set"} PROVE rec'[req[d].user].pass = rec[req[d].user].pass
    <3>1. req[d].user \in Names /\ Listed(req[d].user) /\ session[d] = req[d].user /\ NULL \notin Names
      BY <1>2, <2>2, NullFacts DEF IInv, ThreadInv, PassInv
    <3>2. SUFFICES ASSUME PassClear(c) \/ PassSet(c), req[c].user = req[d].user PROVE FALSE
      BY <3>1, PasswordWriters
    <3>3. session[c] = session[d]
      BY <1>2, <3>1, <3>2 DEF PassInv, PassClear, PassSet, Running
    <3> QED BY <1>2, <3>1, <3>3 DEF SessionsApart
  <2> QED BY <1>2, <2>1, <2>2 DEF PassInv
<1> QED BY <1>2, <1>3, SessionsApartKept, OwnPassKept

LEMMA AloneInvariant == Spec => []Alone
<1>1. Init => Alone
  BY DEF Init, Alone, SessionsApart, PassInv
<1>2. IInv /\ Alone /\ [Next]_vars => Alone'
  <2> SUFFICES ASSUME IInv, Alone, [Next]_vars PROVE Alone'
    OBVIOUS
  <2>1. CASE Restart
    BY <2>1 DEF Restart, Alone, SessionsApart, PassInv
  <2>2. CASE UNCHANGED vars
    BY <2>2 DEF vars, memory, Alone, SessionsApart, PassInv
  <2> QED BY <2>1, <2>2, AloneKept DEF Next, Step
<1> QED BY <1>1, <1>2, Invariant, PTL DEF Spec

\* What PasswordIsTheUsers asks of a step that changes the password of user n.
ByHisSetPass(n) ==
    \/ Restart
    \/ \E c \in Clients :
           /\ req[c].user = n /\ (misnamed \/ session[c] = n)
           /\ \/ pc[c] = "pass_clear" /\ (misnamed \/ rec[n].pass = req[c].pass)
              \/ pc[c] = "pass_set" /\ (misnamed \/ rec[n].pass = NULL)

\* A listed user's password changes in a set_pass that names him, and as long as no packet
\* has acted on another user than its session's, in his own session's and from the
\* password that was given: check, clearing and filling work as one.
THEOREM PasswordsStayTheirUsers == Spec => PasswordIsTheUsers
<1>1. IInv /\ Alone /\ [Next]_vars
      => [\A n \in Names : Listed(n) /\ rec'[n].pass # rec[n].pass => ByHisSetPass(n)]_vars
  <2> SUFFICES ASSUME IInv, Alone, Next, NEW n \in Names, Listed(n), rec'[n].pass # rec[n].pass
               PROVE  ByHisSetPass(n)
    OBVIOUS
  <2>1. ASSUME NEW c \in Clients, Step(c) PROVE ByHisSetPass(n)
    <3>1. (PassClear(c) \/ PassSet(c)) /\ req[c].user = n
      BY <2>1, PasswordWriters
    <3> QED BY <3>1 DEF Alone, PassInv, PassClear, PassSet, Running, ByHisSetPass
  <2> QED BY <2>1 DEF Next, Step, ByHisSetPass
<1> QED BY <1>1, Invariant, AloneInvariant, PTL DEF Spec, PasswordIsTheUsers, ByHisSetPass

-----------------------------------------------------------------------------
(* The file and the list. *)

\* What FileFollowsList says, with the fault left out: memory that can no longer be
\* relied upon is not what holds the file back.
FileCurrent ==
    opens <= MaxFiles =>
        \A i \in DOMAIN list : file[i] = Record(list[i]) \/ \E c \in Clients : Pending(c, i)

\* Slot i is current, or the thread of c will see to it.
Covered(c, i) == file[i] = Record(list[i]) \/ Pending(c, i)

\* A thread that changes a record, or has changed one, covers its slot until it has
\* written it.
LEMMA CoverKept ==
    ASSUME IInv, NEW c \in Clients, Step(c), opens' <= MaxFiles,
           NEW i \in DOMAIN list, Covered(c, i)
    PROVE  Covered(c, i)'
<1>0. /\ ThreadInv(c) /\ WriteInv(c)
      /\ pc \in [Clients -> Labels] /\ req \in [Clients -> Requests] /\ pos \in [Clients -> Positions]
      /\ list \in Seq(Names) /\ rec \in [Names -> Records]
      /\ file \in [Slots -> FileRecords \cup {NULL}]
      /\ i \in Slots /\ i \in 1 .. Len(list) /\ list[i] \in Names /\ Len(list) \in Nat
      /\ opens \in Nat /\ MaxFiles \in Nat
  BY ListFits, RegistryAssumption DEF IInv, TypeOK
<1>1. ASSUME \/ \E n \in Names, p \in Passwords : Register(c, n, p) \/ Login(c, n, p)
             \/ \E n \in Names \cup {NULL}, p, q \in Passwords : SetPass(c, n, p, q)
             \/ \E n \in Names \cup {NULL}, x \in RealNames : SetName(c, n, x)
             \/ \E n \in Names \cup {NULL} : Exit(c, n)
             \/ LoginFind(c) \/ LoginMatch(c) \/ LoginInsert(c)
      PROVE  Covered(c, i)'
  <2>1. UNCHANGED <<list, rec, file>>
    BY <1>1 DEF Register, Login, SetPass, SetName, Exit, LoginFind, LoginMatch, LoginInsert, memory
  <2>2. pc[c] \in {"recv", "login_find", "login_match", "login_insert"}
    BY <1>1 DEF Register, Login, SetPass, SetName, Exit, LoginFind, LoginMatch, LoginInsert, Asks, Idle, Running
  <2>3. file[i] = Record(list[i])
    BY <2>2 DEF Covered, Pending
  <2> QED BY <2>1, <2>3 DEF Covered, Record
<1>2. ASSUME RegInsert(c) PROVE Covered(c, i)'
  <2>1. file[i] = Record(list[i])
    BY <1>2 DEF Covered, Pending, RegInsert, Running
  <2>2. file' = file /\ list'[i] = list[i]
    BY <1>0, <1>2, Insertion
  <2>3. rec'[list[i]] = rec[list[i]]
    <3>1. Listed(list[i])
      BY <1>0 DEF Listed, ToSet
    <3> QED BY <1>0, <1>2, <3>1, Insertion
  <2> QED BY <2>1, <2>2, <2>3 DEF Covered, Record
<1>3. ASSUME WriteOpen(c) PROVE Covered(c, i)'
  <2>1. UNCHANGED <<req, list, rec, file>> /\ pc[c] = "open" /\ pc'[c] = "write"
    BY <1>0, <1>3 DEF WriteOpen, Running, Goto, memory
  <2>2. pos'[c] = 1
    BY <1>0, <1>3 DEF WriteOpen
  <2> QED BY <1>0, <2>1, <2>2, NullFacts DEF Covered, Pending, Record
<1>4. ASSUME WriteRecord(c) PROVE Covered(c, i)'
  <2>1. /\ UNCHANGED <<list, rec>> /\ pos[c] \in Slots /\ pos[c] \in 1 .. Len(list)
        /\ file' = [file EXCEPT ![pos[c]] = Record(list[pos[c]])]
    BY <1>4, Writing
  <2>2. UNCHANGED <<pc, req>> /\ pos'[c] = pos[c] + 1
    BY <1>0, <1>4 DEF WriteRecord
  <2>3. CASE i = pos[c]
    BY <1>0, <2>1, <2>3 DEF Covered, Record
  <2>4. CASE i # pos[c]
    <3>1. file'[i] = file[i]
      BY <1>0, <2>1, <2>4
    <3>2. pos[c] <= i => pos[c] + 1 <= i /\ pos[c] + 1 # NULL
      BY <1>0, <2>1, <2>4, NullFacts
    <3> QED BY <2>1, <2>2, <3>1, <3>2 DEF Covered, Pending, Record
  <2> QED BY <2>3, <2>4
<1>5. ASSUME WriteEnd(c) PROVE Covered(c, i)'
  <2>1. UNCHANGED <<list, rec, file, opens>> /\ pc[c] = "write"
    BY <1>5 DEF WriteEnd, Running, memory
  <2>2. pos[c] # NULL
    BY <1>0, <2>1 DEF WriteInv
  <2>3. ~(pos[c] <= i)
    <3>1. ~(pos[c] <= Len(list)) /\ pos[c] \in Nat
      BY <1>0, <1>5, <2>2 DEF WriteEnd, MoreToWrite, Positions
    <3> QED BY <1>0, <3>1
  <2> QED BY <2>1, <2>3 DEF Covered, Pending, Record
<1>6. ASSUME PassClear(c) \/ PassSet(c) \/ NameClear(c) \/ NameSet(c) PROVE Covered(c, i)'
  <2>1. /\ UNCHANGED <<list, file>> /\ req'[c].user = req[c].user /\ req[c].user \in Names
        /\ pc'[c] \in {"pass_set", "name_set", "open"}
        /\ \A n \in Names \ {req[c].user} : rec'[n] = rec[n]
    BY <1>0, <1>6
    DEF PassClear, PassSet, NameClear, NameSet, Running, Goto, DropArguments, Take, ThreadInv, Requests
  <2>2. CASE list[i] = req[c].user
    BY <2>1, <2>2 DEF Covered, Pending
  <2>3. CASE list[i] # req[c].user
    <3>1. file[i] = Record(list[i])
      BY <2>3 DEF Covered, Pending
    <3> QED BY <1>0, <2>1, <2>3, <3>1 DEF Covered, Record
  <2> QED BY <2>2, <2>3
<1> QED BY <1>1, <1>2, <1>3, <1>4, <1>5, <1>6 DEF Step, Request, Handler

\* Threads that do not take the step cover what they covered, and a new user is
\* covered by the thread that inserted him.
LEMMA FileCurrentStep ==
    ASSUME IInv, FileCurrent, NEW c \in Clients, Step(c)
    PROVE  FileCurrent'
<1> SUFFICES ASSUME opens' <= MaxFiles, NEW i \in DOMAIN list'
             PROVE  \E d \in Clients : Covered(d, i)'
  BY DEF FileCurrent, Covered
<1>0. list \in Seq(Names) /\ rec \in [Names -> Records] /\ opens \in Nat /\ opens' \in Nat /\ MaxFiles \in Nat
  BY RegistryAssumption, TypesKept DEF IInv, TypeOK, Next, Step
<1>1. CASE i \in DOMAIN list
  <2>1. opens <= MaxFiles
    BY <1>0, StepsGrow DEF Grows
  <2>2. PICK d \in Clients : Covered(d, i)
    BY <1>1, <2>1 DEF FileCurrent, Covered
  <2>3. CASE Covered(c, i)
    BY <1>1, <2>3, CoverKept
  <2>4. CASE d # c /\ Pending(d, i)
    <3>1. list'[i] = list[i]
      <4>1. Unwritten \/ Restart \/ \E b \in Clients : RegInsert(b) \/ WriteRecord(b)
        BY ListAndFileWriters DEF Next, Step
      <4>2. CASE Restart
        BY <1>0, <1>1, <4>2, Restarting
      <4>3. CASE Unwritten
        BY <4>3 DEF Unwritten
      <4>4. ASSUME NEW b \in Clients, RegInsert(b) \/ WriteRecord(b) PROVE list'[i] = list[i]
        BY <1>0, <1>1, <4>4, Insertion, Writing
      <4> QED BY <4>1, <4>2, <4>3, <4>4
    <3>2. pc'[d] = pc[d] /\ req'[d] = req[d] /\ pos'[d] = pos[d]
      BY <2>4, ThreadsOwnTheirLocals DEF OthersKeep, IInv
    <3>3. Covered(d, i)'
      BY <2>4, <3>1, <3>2 DEF Covered, Pending
    <3> QED BY <3>3
  <2> QED BY <2>2, <2>3, <2>4 DEF Covered
<1>2. CASE i \notin DOMAIN list
  <2>1. PICK b \in Clients : RegInsert(b) /\ list' = Append(list, req[b].user)
    <3>1. Unwritten \/ Restart \/ \E b \in Clients : RegInsert(b) \/ WriteRecord(b)
      BY ListAndFileWriters DEF Next, Step
    <3>2. ~Restart
      BY <1>0, <1>2, Restarting, FilePrefix DEF IInv
    <3>3. ~Unwritten /\ \A b \in Clients : ~WriteRecord(b)
      BY <1>2, Writing DEF Unwritten
    <3> QED BY <1>2, <3>1, <3>2, <3>3, Insertion
  <2>2. i = Len(list) + 1 /\ list'[i] = req[b].user
    BY <1>0, <1>2, <2>1
  <2>3. pc'[b] = "open" /\ req' = req
    BY <2>1 DEF RegInsert, Goto, IInv, TypeOK
  <2> QED BY <2>2, <2>3 DEF Covered, Pending
<1> QED BY <1>1, <1>2

\* After a restart the list is the file.
LEMMA FileCurrentRestart ==
    ASSUME IInv, Restart
    PROVE  FileCurrent'
<1>0. /\ SingleRegistration /\ SingleRegistration' /\ file \in [Slots -> FileRecords \cup {NULL}]
      /\ list \in Seq(Names) /\ list' \in Seq(Names) /\ NULL \notin FileRecords
  BY TypesKept, UniquenessKept, NullFacts DEF IInv, TypeOK, Next
<1>1. /\ file' = file /\ DOMAIN list' = 1 .. FileLength /\ 1 .. FileLength \subseteq Slots
      /\ \A i \in 1 .. FileLength : file[i] # NULL /\ list'[i] = file[i].user
  BY Restarting DEF Restart
<1>2. ASSUME NEW i \in 1 .. FileLength PROVE (file[i] = Record(list[i]))'
  <2> DEFINE n == file[i].user
             k == CHOOSE k \in 1 .. FileLength : file[k].user = n
  <2>1. n \in Names /\ file[i] \in FileRecords
    BY <1>0, <1>1 DEF FileRecords
  <2>2. k \in 1 .. FileLength /\ file[k].user = n
    OBVIOUS
  <2>3. k = i
    BY <1>0, <1>1, <2>2 DEF SingleRegistration
  <2>4. rec'[n] = [pass |-> file[k].pass, real |-> file[k].real]
    <3>1. \E j \in 1 .. FileLength : file[j].user = n
      BY <2>2
    <3> QED BY <2>1, <3>1 DEF Restart
  <2>5. file[i] = [user |-> n, pass |-> file[i].pass, real |-> file[i].real]
    <3>1. \A r \in FileRecords : r = [user |-> r.user, pass |-> r.pass, real |-> r.real]
      BY DEF FileRecords
    <3> QED BY <2>1, <3>1
  <2>6. file'[i] = [user |-> n, pass |-> rec'[n].pass, real |-> rec'[n].real] /\ list'[i] = n
    <3> HIDE DEF k
    <3> QED BY <1>1, <2>3, <2>4, <2>5
  <2> HIDE DEF n, k
  <2> QED BY <2>6 DEF Record
<1> QED BY <1>1, <1>2 DEF FileCurrent

\* While Users.bin can be opened it holds every registration and change that is not
\* still being carried out, whatever threads write it at once and after every restart
\* (register_user, set_pass, set_name, writeUserFile, readUserFile).
THEOREM FileFollowsTheList == Spec => []FileFollowsList
<1>1. Init => FileCurrent
  BY DEF Init, FileCurrent
<1>2. IInv /\ FileCurrent /\ [Next]_vars => FileCurrent'
  <2> SUFFICES ASSUME IInv, FileCurrent, [Next]_vars PROVE FileCurrent'
    OBVIOUS
  <2>1. CASE UNCHANGED vars
    BY <2>1 DEF vars, memory, FileCurrent, Pending, Record
  <2> QED BY <2>1, FileCurrentRestart, FileCurrentStep DEF Next, Step
<1>3. FileCurrent => FileFollowsList
  BY DEF FileCurrent, FileFollowsList
<1> QED BY <1>1, <1>2, <1>3, Invariant, PTL DEF Spec

=============================================================================
