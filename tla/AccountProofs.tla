--------------------------- MODULE AccountProofs ---------------------------
(***************************************************************************)
(* Proofs about accounts: the system administrator, the users who sign up  *)
(* and their friends, as the parts of module Agreement.                    *)
(***************************************************************************)
EXTENDS Agreement, FiniteSets, FiniteSetTheorems, TLAPS

-----------------------------------------------------------------------------
(* The system administrator (SysAdmin). *)

\* The account is an old one under an address that nobody deletes.
Occupied == row.by = "before" /\ row.email \notin {email, Default}

\* An instance that is yet to see to the administrator: nobody who is through
\* has left it to him in vain.
Responsible(i) ==
    \/ node[i].pc \in {"down", "users", "delete", "delete default"}
    \/ node[i].pc = "create role" /\ ~role
    \/ node[i].pc \in {"get", "save"} /\ row = Y!NoRow
    \/ node[i].pc = "write" /\ mode[i] = "insert" /\ row = Y!NoRow

\* What an instance knows at its place: the role is there, and an old account
\* that it was to delete is gone.
Knows(i) ==
    /\ node[i].pc \notin {"down", "create role", "done"} => role
    /\ node[i].pc = "delete default" /\ row.by = "before" => row.email # email
    /\ node[i].pc \in {"get", "save", "write"} /\ row.by = "before" => Occupied
    /\ node[i].pc = "write" /\ mode[i] = "update" => node[i].found # "none"

\* The inductive invariant.  An instance deletes the account only if it goes on
\* to create one, so there is a system administrator or somebody responsible.
SysInv ==
    /\ Y!TypeOK
    /\ row.by = "none" => row = Y!NoRow
    /\ row.by \in Server => row.sys
    /\ \A i \in Server : Knows(i)
    /\ row.sys \/ Occupied \/ \E i \in Server : Responsible(i)

\* The instances have this shape.
Instances ==
    [pc : {"down", "create role", "users", "delete", "delete default", "get", "save",
           "write", "done"},
     found : Server \cup {"none", "before"}]
Accounts == [by : Server \cup {"none", "before"}, email : Address, sys : BOOLEAN]

\* Type correctness, part by part.
LEMMA SysTypes ==
    Y!TypeOK <=> /\ email \in Configured /\ role \in BOOLEAN
                 /\ row \in Accounts /\ (row.sys => role) /\ (row.sys => row.by # "none")
                 /\ node \in [Server -> Instances]
                 /\ mode \in [Server -> {"none", "insert", "update"}]
                 /\ yCrashes \in 0 .. MaxFail
BY DEF Y!TypeOK, Instances, Accounts

\* It holds in the beginning.
LEMMA InitSysInv == ASSUME Y!SysAdminAssumption, Y!Init PROVE SysInv
<1> USE DEF Y!SysAdminAssumption, Y!Init
<1>1. Y!NoRow \in Accounts
  BY DEF Y!NoRow, Accounts
<1>2. \/ row = Y!NoRow
      \/ row \in [by : {"before"}, email : Address, sys : BOOLEAN] /\ (row.sys => role)
  OBVIOUS
<1>3. row \in Accounts /\ (row.sys => role) /\ (row.sys => row.by # "none")
  BY <1>1, <1>2 DEF Accounts, Y!NoRow
<1>4. node \in [Server -> Instances]
  BY DEF Y!Down, Instances
<1>5. Y!TypeOK
  BY <1>3, <1>4, SysTypes
<1>6. row.by = "none" => row = Y!NoRow
  BY <1>2
<1>7. row.by \in Server => row.sys
  BY <1>2 DEF Y!NoRow
<1>8. \A i \in Server : Knows(i) /\ Responsible(i)
  BY DEF Knows, Responsible, Y!Down
<1> QED BY <1>5, <1>6, <1>7, <1>8 DEF SysInv

\* What the other instances know is not disturbed: the role stays, and an old
\* account is kept as it was or deleted.
LEMMA OthersKnow ==
    ASSUME SysInv, NEW i \in Server, NEW j \in Server \ {i}, Knows(j),
           node'[j] = node[j], mode'[j] = mode[j], email' = email, role => role',
           row'.by = "before" => row' = [row EXCEPT !.sys = row'.sys]
    PROVE  Knows(j)'
<1>1. row \in Accounts
  BY SysTypes DEF SysInv
<1>2. row'.by = "before" => row.by = "before" /\ row'.email = row.email
  BY <1>1 DEF Accounts
<1> QED BY <1>2 DEF Knows, Occupied

\* It is kept by every step of an instance.
LEMMA StepSysInv ==
    ASSUME Y!SysAdminAssumption, SysInv, NEW i \in Server,
           \/ Y!FindRole(i) \/ Y!SaveRole(i) \/ Y!CountUsers(i) \/ Y!DeleteConfigured(i)
           \/ Y!DeleteDefault(i) \/ Y!GetUser(i) \/ Y!Diff(i) \/ Y!Write(i) \/ Y!Crash(i)
    PROVE  SysInv'
<1> DEFINE Ok == /\ Y!TypeOK'
                 /\ row'.by = "none" => row' = Y!NoRow
                 /\ row'.by \in Server => row'.sys
                 /\ Knows(i)'
                 /\ \A j \in Server \ {i} : node'[j] = node[j] /\ mode'[j] = mode[j]
                 /\ email' = email /\ (role => role')
                 /\ row'.by = "before" => row' = [row EXCEPT !.sys = row'.sys]
                 /\ row'.sys \/ Occupied' \/ \E j \in Server : Responsible(j)'
<1>1. /\ email \in Configured /\ role \in BOOLEAN
      /\ row \in Accounts /\ (row.sys => role) /\ (row.sys => row.by # "none")
      /\ node \in [Server -> Instances]
      /\ mode \in [Server -> {"none", "insert", "update"}]
      /\ yCrashes \in 0 .. MaxFail
  BY SysTypes DEF SysInv
<1>2. /\ row.by = "none" => row = Y!NoRow
      /\ row.by \in Server => row.sys
      /\ Knows(i)
      /\ row.sys \/ Occupied \/ \E j \in Server : Responsible(j)
  BY DEF SysInv
<1>3. SUFFICES Ok
  <2>1. \A j \in Server \ {i} : Knows(j)
    BY DEF SysInv
  <2>2. \A j \in Server : Knows(j)'
    BY <1>3, <2>1, OthersKnow
  <2> QED BY <1>3, <2>2 DEF SysInv
<1>4. ASSUME NEW pc \in {"create role", "users", "delete", "delete default", "get",
                         "save", "write", "done"},
             node' = [node EXCEPT ![i].pc = pc],
             mode' = [mode EXCEPT ![i] = mode'[i]],
             mode'[i] \in {"none", "insert", "update"},
             row' \in Accounts, row' = row \/ row' = Y!NoRow \/ row'.sys,
             role' \in BOOLEAN, role => role', row'.sys => role' /\ row'.by # "none",
             row'.by = "before" => row' = [row EXCEPT !.sys = row'.sys],
             UNCHANGED <<email, yCrashes>>
      PROVE  /\ Y!TypeOK'
             /\ node'[i].pc = pc /\ node'[i].found = node[i].found
             /\ \A j \in Server \ {i} : node'[j] = node[j] /\ mode'[j] = mode[j]
             /\ row'.by = "none" => row' = Y!NoRow
             /\ row'.by \in Server => row'.sys
             /\ email' = email /\ (role => role')
             /\ row'.by = "before" => row' = [row EXCEPT !.sys = row'.sys]
  <2>0. node' = [node EXCEPT ![i].pc = pc] /\ node \in [Server -> Instances]
    BY <1>1, <1>4
  <2>1. node' \in [Server -> Instances] /\ node'[i].pc = pc /\ node'[i].found = node[i].found
    <3>1. node[i] \in Instances /\ pc \in {"create role", "users", "delete",
              "delete default", "get", "save", "write", "done"}
      BY <2>0, <1>4
    <3>2. [node[i] EXCEPT !.pc = pc] \in Instances
      BY <3>1 DEF Instances
    <3>3. node'[i] = [node[i] EXCEPT !.pc = pc]
      BY <2>0
    <3>4. node'[i].pc = pc /\ node'[i].found = node[i].found
      BY <3>1, <3>3 DEF Instances
    <3> QED BY <2>0, <3>2, <3>4
  <2>2. mode' \in [Server -> {"none", "insert", "update"}]
    BY <1>1, <1>4
  <2>3. Y!TypeOK'
    BY <1>1, <1>4, <2>1, <2>2 DEF Y!TypeOK, Instances, Accounts
  <2>4. \A j \in Server \ {i} : node'[j] = node[j] /\ mode'[j] = mode[j]
    BY <1>1, <1>4
  <2>5. (row'.by = "none" => row' = Y!NoRow) /\ (row'.by \in Server => row'.sys)
    <3>1. CASE row' = row
      BY <1>2, <3>1
    <3>2. CASE row' = Y!NoRow
      BY <3>2 DEF Y!NoRow, Y!SysAdminAssumption
    <3>3. CASE row'.sys
      BY <1>4, <3>3
    <3> QED BY <1>4, <3>1, <3>2, <3>3
  <2> QED BY <1>4, <2>1, <2>3, <2>4, <2>5
<1>5. row = [row EXCEPT !.sys = row.sys] /\ Y!NoRow \in Accounts /\ ~Y!NoRow.sys
      /\ Y!NoRow.by \notin Server \cup {"before"} /\ mode = [mode EXCEPT ![i] = mode[i]]
  BY <1>1 DEF Accounts, Y!NoRow, Y!SysAdminAssumption
<1>6. CASE Y!FindRole(i)
  <2>1. node' = [node EXCEPT ![i].pc = IF role THEN "users" ELSE "create role"]
        /\ UNCHANGED <<email, role, row, mode, yCrashes>>
    BY <1>6 DEF Y!FindRole, Y!Goto
  <2> DEFINE pc == IF role THEN "users" ELSE "create role"
  <2>2. Knows(i)' /\ Responsible(i)'
    BY <1>1, <2>1 DEF Knows, Responsible, Instances
  <2> QED BY <1>1, <1>4, <1>5, <2>1, <2>2
<1>7. CASE Y!SaveRole(i)
  <2>1. node' = [node EXCEPT ![i].pc = IF role THEN "done" ELSE "users"]
        /\ role' = TRUE /\ UNCHANGED <<email, row, mode, yCrashes>>
    BY <1>7 DEF Y!SaveRole, Y!Goto
  <2>2. Knows(i)'
    BY <1>1, <2>1 DEF Knows, Instances
  <2>3. row.sys \/ Occupied' \/ \E j \in Server : Responsible(j)'
    <3>1. Occupied' = Occupied
      BY <2>1 DEF Occupied
    <3>2. CASE ~role
      BY <1>1, <2>1, <3>2 DEF Responsible, Instances
    <3>3. CASE role
      <4>1. ~Responsible(i)
        BY <1>7, <3>3 DEF Y!SaveRole, Responsible
      <4>2. ASSUME NEW j \in Server, Responsible(j)
            PROVE  Responsible(j)'
        BY <1>1, <2>1, <3>3, <4>1, <4>2 DEF Responsible
      <4> QED BY <1>2, <3>1, <4>2
    <3> QED BY <1>1, <3>2, <3>3
  <2> QED BY <1>1, <1>4, <1>5, <2>1, <2>2, <2>3
<1>8. CASE Y!CountUsers(i)
  <2>1. node' = [node EXCEPT ![i].pc = IF row.sys THEN "done" ELSE "delete"]
        /\ UNCHANGED <<email, role, row, mode, yCrashes>> /\ node[i].pc = "users"
    BY <1>8 DEF Y!CountUsers, Y!Goto
  <2>2. Knows(i)' /\ (row.sys \/ Responsible(i)')
    BY <1>1, <1>2, <2>1 DEF Knows, Responsible, Instances
  <2> QED BY <1>1, <1>4, <1>5, <2>1, <2>2
<1>9. CASE Y!DeleteConfigured(i)
  <2>1. node' = [node EXCEPT ![i].pc = "delete default"]
        /\ row' = (IF row.email = email THEN Y!NoRow ELSE row)
        /\ UNCHANGED <<email, role, mode, yCrashes>> /\ node[i].pc = "delete"
    BY <1>9 DEF Y!DeleteConfigured, Y!Goto
  <2>2. Knows(i)' /\ Responsible(i)'
    BY <1>1, <1>2, <1>5, <2>1 DEF Knows, Responsible, Instances
  <2> QED BY <1>1, <1>4, <1>5, <2>1, <2>2
<1>10. CASE Y!DeleteDefault(i)
  <2>1. node' = [node EXCEPT ![i].pc = "get"]
        /\ row' = (IF row.email = Default THEN Y!NoRow ELSE row)
        /\ UNCHANGED <<email, role, mode, yCrashes>> /\ node[i].pc = "delete default"
    BY <1>10 DEF Y!DeleteDefault, Y!Goto
  <2>2. Knows(i)'
    BY ZenonT(60), <1>1, <1>2, <1>5, <2>1 DEF Knows, Instances, Occupied
  <2>3. row'.sys \/ Occupied' \/ Responsible(i)'
    <3>1. row' = Y!NoRow => Responsible(i)'
      BY <1>1, <2>1 DEF Responsible, Instances, Y!NoRow
    <3>2. ASSUME row' = row PROVE row'.sys \/ Occupied' \/ row' = Y!NoRow
      BY <1>1, <1>2, <2>1, <3>2 DEF Knows, Occupied, Accounts
    <3> QED BY <2>1, <3>1, <3>2
  <2> QED BY <1>1, <1>4, <1>5, <2>1, <2>2, <2>3
<1>11. CASE Y!Diff(i)
  <2>1. /\ node' = [node EXCEPT ![i].pc = "write"]
        /\ mode' = [mode EXCEPT ![i] = IF node[i].found # "none" /\ row.by = node[i].found
                                       THEN "update" ELSE "insert"]
        /\ UNCHANGED <<email, role, row, yCrashes>> /\ node[i].pc = "save"
    BY <1>11 DEF Y!Diff, Y!Goto
  <2>2. mode'[i] = (IF node[i].found # "none" /\ row.by = node[i].found
                    THEN "update" ELSE "insert")
        /\ mode' = [mode EXCEPT ![i] = mode'[i]]
    BY <1>1, <2>1
  <2>3. Occupied' = Occupied /\ node'[i].pc = "write" /\ node'[i].found = node[i].found
    BY <1>1, <2>1 DEF Occupied, Instances
  <2>4. Knows(i)'
    BY <1>1, <1>2, <2>1, <2>2, <2>3 DEF Knows
  <2>5. ASSUME NEW j \in Server, Responsible(j) PROVE Responsible(j)'
    <3>1. CASE j = i
      <4>1. row = Y!NoRow
        BY <2>1, <2>5, <3>1 DEF Responsible
      <4>2. mode'[i] = "insert"
        BY <2>2, <4>1 DEF Y!NoRow
      <4> QED BY <2>1, <2>3, <3>1, <4>1, <4>2 DEF Responsible, Y!NoRow
    <3>2. CASE j # i
      BY <1>1, <2>1, <2>5, <3>2 DEF Responsible
    <3> QED BY <3>1, <3>2
  <2>6. row.sys \/ Occupied' \/ \E j \in Server : Responsible(j)'
    BY <1>2, <2>3, <2>5
  <2> QED BY <1>1, <1>4, <1>5, <2>1, <2>2, <2>4, <2>6
<1>12. CASE Y!Write(i)
  <2>1. /\ node' = [node EXCEPT ![i].pc = "done"]
        /\ UNCHANGED <<email, role, mode, yCrashes>> /\ node[i].pc = "write"
    BY <1>12 DEF Y!Write, Y!Goto
  <2>2. /\ mode[i] = "insert" /\ row = Y!NoRow
             => row' = [by |-> i, email |-> email, sys |-> TRUE]
        /\ ~(mode[i] = "insert" /\ row = Y!NoRow)
             => row' = IF mode[i] = "update" /\ row.by = node[i].found
                       THEN [row EXCEPT !.sys = TRUE] ELSE row
    BY <1>12 DEF Y!Write
  <2>3. role /\ Knows(i)'
    BY <1>1, <1>2, <2>1 DEF Knows, Instances
  <2>4. CASE mode[i] = "insert" /\ row = Y!NoRow
    <3>0. row' = [by |-> i, email |-> email, sys |-> TRUE] /\ email \in Address
      BY <1>1, <2>2, <2>4 DEF Y!SysAdminAssumption
    <3>1. row' \in Accounts /\ row'.sys /\ row'.by = i
      BY <3>0 DEF Accounts
    <3>2. row'.by # "before" /\ row'.by # "none"
      BY <3>1 DEF Y!SysAdminAssumption
    <3> QED BY <1>1, <1>4, <1>5, <2>1, <2>3, <3>1, <3>2
  <2>5. CASE mode[i] = "update" /\ row.by = node[i].found
    <3>1. row' = [row EXCEPT !.sys = TRUE] /\ row.by # "none"
      BY <1>2, <2>1, <2>2, <2>5 DEF Knows
    <3>2. row' \in Accounts /\ row'.sys /\ row' = [row EXCEPT !.sys = row'.sys] /\ row'.by = row.by
      BY <1>1, <3>1 DEF Accounts
    <3> QED BY <1>1, <1>4, <1>5, <2>1, <2>3, <3>1, <3>2
  <2>6. CASE ~(mode[i] = "insert" /\ row = Y!NoRow) /\ ~(mode[i] = "update" /\ row.by = node[i].found)
    <3>1. row' = row /\ Occupied' = Occupied
      BY <2>1, <2>2, <2>6 DEF Occupied
    <3>2. ~Responsible(i)
      BY <2>1, <2>6 DEF Responsible
    <3>3. \A j \in Server : Responsible(j) => Responsible(j)'
      BY <1>1, <2>1, <3>1, <3>2 DEF Responsible
    <3>4. row.sys \/ Occupied' \/ \E j \in Server : Responsible(j)'
      BY <1>2, <3>1, <3>3
    <3> QED BY <1>1, <1>4, <1>5, <2>1, <2>3, <3>1, <3>4
  <2> QED BY <2>4, <2>5, <2>6
<1>13. CASE Y!GetUser(i)
  <2>1. /\ node' = [node EXCEPT ![i].pc = "save",
                                ![i].found = IF row.email = email THEN row.by ELSE "none"]
        /\ UNCHANGED <<email, role, row, mode, yCrashes>> /\ node[i].pc = "get"
    BY <1>13 DEF Y!GetUser
  <2>2. node[i] \in Instances /\ (IF row.email = email THEN row.by ELSE "none")
                                  \in Server \cup {"none", "before"}
    BY <1>1 DEF Accounts
  <2> DEFINE n == [node[i] EXCEPT !.pc = "save",
                                  !.found = IF row.email = email THEN row.by ELSE "none"]
  <2>3. n \in Instances /\ n.pc = "save"
    BY <2>2 DEF Instances
  <2>4. node' \in [Server -> Instances] /\ node'[i] = n
        /\ \A j \in Server \ {i} : node'[j] = node[j] /\ mode'[j] = mode[j]
    BY <1>1, <2>1, <2>3
  <2>5. node'[i].pc = "save"
    BY <2>3, <2>4
  <2>6. Y!TypeOK'
    BY <1>1, <2>1, <2>4 DEF Y!TypeOK, Instances, Accounts
  <2>7. Knows(i)' /\ Occupied' = Occupied
    BY <1>1, <1>2, <2>1, <2>5 DEF Knows, Occupied
  <2>8. \A j \in Server : Responsible(j) => Responsible(j)'
    BY <1>1, <2>1, <2>4, <2>5 DEF Responsible
  <2>9. row'.sys \/ Occupied' \/ \E j \in Server : Responsible(j)'
    BY <1>2, <2>1, <2>7, <2>8
  <2>10. row' = [row EXCEPT !.sys = row'.sys] /\ row' = row /\ role' = role /\ email' = email
    BY <1>5, <2>1
  <2> QED BY <1>2, <2>4, <2>6, <2>7, <2>9, <2>10
<1>14. CASE Y!Crash(i)
  <2>1. /\ node' = [node EXCEPT ![i] = Y!Down] /\ mode' = [mode EXCEPT ![i] = "none"]
        /\ UNCHANGED <<email, role, row>> /\ yCrashes < MaxFail /\ yCrashes' = yCrashes + 1
    BY <1>14 DEF Y!Crash
  <2>2. Y!Down \in Instances
    BY DEF Instances, Y!Down
  <2>3. /\ node' \in [Server -> Instances] /\ node'[i] = Y!Down
        /\ mode' \in [Server -> {"none", "insert", "update"}]
        /\ \A j \in Server \ {i} : node'[j] = node[j] /\ mode'[j] = mode[j]
    BY <1>1, <2>1, <2>2
  <2>4. yCrashes' \in 0 .. MaxFail
    BY <1>1, <2>1 DEF Y!SysAdminAssumption
  <2>5. Y!TypeOK'
    BY <1>1, <2>1, <2>3, <2>4 DEF Y!TypeOK, Instances, Accounts
  <2>6. Knows(i)' /\ Responsible(i)'
    BY <2>3 DEF Knows, Responsible, Y!Down
  <2>7. row' = [row EXCEPT !.sys = row'.sys] /\ row' = row /\ role' = role /\ email' = email
    BY <1>5, <2>1
  <2> QED BY <1>2, <2>3, <2>5, <2>6, <2>7
<1> QED BY <1>6, <1>7, <1>8, <1>9, <1>10, <1>11, <1>12, <1>13, <1>14

\* The part of the composite is a behaviour of its own, of its own steps.
LEMMA SystemPart ==
    /\ Init => Y!Init
    /\ [Next]_vars => Y!Next \/ UNCHANGED system
<1>1. Init => Y!Init
  BY DEF Init
<1>2. [Next]_vars => Y!Next \/ UNCHANGED system
  BY DEF Next, vars
<1> QED BY <1>1, <1>2

\* Whatever the instances do at the same time and wherever they stop, their
\* shape and the invariant are kept.
LEMMA SysInvariance == Spec => []SysInv
<1>1. Y!SysAdminAssumption
  BY AgreementAssumption
<1>2. Init => SysInv
  BY <1>1, SystemPart, InitSysInv
<1>3. SysInv /\ [Next]_vars => SysInv'
  <2> SUFFICES ASSUME SysInv, [Next]_vars PROVE SysInv'
    OBVIOUS
  <2>1. CASE Y!Next
    BY <1>1, <2>1, StepSysInv DEF Y!Next
  <2>2. CASE UNCHANGED system
    <3>1. \A i \in Server : Knows(i)' = Knows(i) /\ Responsible(i)' = Responsible(i)
      BY <2>2 DEF system, Knows, Responsible, Occupied
    <3>2. Y!TypeOK' = Y!TypeOK /\ Occupied' = Occupied
      BY <2>2 DEF system, Y!TypeOK, Occupied
    <3> QED BY <2>2, <3>1, <3>2 DEF SysInv, system
  <2> QED BY <2>1, <2>2, SystemPart
<1> QED BY <1>2, <1>3, PTL DEF Spec

\* Once all instances are through there is a system administrator, whatever they
\* deleted of each other and however often they had to start, for any number
\* of them: unless the name was taken by an old account nobody deletes.
THEOREM AdministratorInTheEnd == Spec => []AdminInTheEnd
<1>1. SysInv => AdminInTheEnd
  <2> SUFFICES ASSUME SysInv, \A i \in Server : node[i].pc = "done"
               PROVE  row.sys \/ (row.by = "before" /\ row.email \notin {email, Default})
    BY DEF AdminInTheEnd, Y!AdminInTheEnd
  <2>1. \A i \in Server : ~Responsible(i)
    BY DEF Responsible
  <2> QED BY <2>1 DEF SysInv, Occupied
<1> QED BY <1>1, SysInvariance, PTL

-----------------------------------------------------------------------------
(* Profiles, users and codes (SignUp). *)

Visits ==
    [pc : {"idle", "find", "look", "profile", "user", "mail", "mail in vain", "obtain",
           "insert"}, op : {"verify", "signUp"}, email : Email \cup {"none"}, code : Nat]

\* A visit that is going to mail a code, and one that has mailed it and is to
\* store it.
WillMail(v) == v.op = "verify" /\ v.pc \in {"find", "profile", "user", "mail", "mail in vain"}
Waiting(e) == {q \in E!At(e) : WillMail(eReq[q])}
InHand(e) == {q \in E!At(e) : eReq[q].pc \in {"obtain", "insert"}}

\* What holds of a visit wherever it is.
VisitOk(v) ==
    /\ v.pc = "idle" <=> v = E!Idle
    /\ v.email = "none" <=> v = E!Idle
    /\ v.pc = "look" => v.op = "signUp"
    /\ v.pc \in {"mail", "mail in vain", "obtain", "insert"} => v.op = "verify"
    /\ v.pc = "user" => v.email \in profile
    /\ v.pc \in {"obtain", "insert"} => v.code \in 1 .. MaxMails
    /\ v.code <= MaxMails

\* The visits of an address that come one after the other: the code in hand is
\* the first one, if no code is stored.
First(e) ==
    /\ \A p, q \in E!At(e) : p = q
    /\ codes[e] \subseteq {since[e]}
    /\ \A q \in E!At(e) : /\ eReq[q].pc # "mail in vain"
                          /\ eReq[q].pc = "insert" => codes[e] = {}
    /\ codes[e] = {} => /\ InHand(e) = {} => since[e] = mails[e] + 1
                        /\ InHand(e) # {} => since[e] = mails[e]
                        /\ \A q \in InHand(e) : eReq[q].code = since[e]

\* What holds of an address: the bound of its mails counts the visits that are
\* going to mail.
AddressOk(e) ==
    /\ mails[e] + Cardinality(Waiting(e)) <= MaxMails
    /\ e \in profile \ (user \cup eBroken) => \E q \in E!At(e) : eReq[q].pc = "user"
    /\ e \notin eCrossed \cup eBroken => First(e)

AccountTypes ==
    /\ profile \subseteq Email /\ user \subseteq profile
    /\ codes \in [Email -> SUBSET (1 .. MaxMails)]
    /\ mails \in [Email -> Nat] /\ since \in [Email -> 1 .. MaxMails + 1]
    /\ eReq \in [Visitor -> Visits]
    /\ eCrossed \subseteq Email /\ eBroken \subseteq Email /\ eFails \in 0 .. MaxFail

\* The inductive invariant.
SignInv ==
    /\ AccountTypes
    /\ \A q \in Visitor : VisitOk(eReq[q])
    /\ \A e \in Email : AddressOk(e)

\* The operators on finite sets of the instance are the ones of the library.
LEMMA FiniteVisitors ==
    /\ E!SignUpAssumption => IsFiniteSet(Visitor)
    /\ \A S : E!Cardinality(S) = Cardinality(S)
<1>1. E!SignUpAssumption => IsFiniteSet(Visitor)
  BY DEF E!SignUpAssumption, E!IsFiniteSet, IsFiniteSet
<1>2. \A S : E!Cardinality(S) = Cardinality(S)
  BY DEF E!Cardinality, Cardinality
<1> QED BY <1>1, <1>2

\* It holds in the beginning.
LEMMA InitSignInv == ASSUME E!SignUpAssumption, E!Init PROVE SignInv
<1> USE DEF E!SignUpAssumption, E!Init
<1>1. E!Idle \in Visits /\ E!Idle.email = "none"
  BY DEF E!Idle, Visits
<1>2. AccountTypes
  BY <1>1 DEF AccountTypes
<1>3. \A q \in Visitor : VisitOk(eReq[q])
  <2>1. VisitOk(E!Idle)
    BY DEF VisitOk, E!Idle
  <2> QED BY <2>1
<1>4. ASSUME NEW e \in Email PROVE AddressOk(e)
  <2>1. E!At(e) = {} /\ Waiting(e) = {} /\ InHand(e) = {}
    BY <1>1 DEF E!At, Waiting, InHand
  <2>2. Cardinality(Waiting(e)) = 0
    BY <2>1, FS_EmptySet
  <2> QED BY <2>1, <2>2 DEF AddressOk, First
<1> QED BY <1>2, <1>3, <1>4 DEF SignInv

\* A step of a visitor at one address leaves what holds of the others alone.
LEMMA OtherAddress ==
    ASSUME NEW q \in Visitor, NEW n, eReq' = [eReq EXCEPT ![q] = n],
           eReq \in [Visitor -> Visits], NEW f \in Email, AddressOk(f),
           eReq[q].email # f, n.email # f,
           mails'[f] = mails[f], codes'[f] = codes[f], since'[f] = since[f],
           f \in profile' <=> f \in profile, f \in user' <=> f \in user,
           f \in eCrossed' <=> f \in eCrossed, f \in eBroken' <=> f \in eBroken
    PROVE  AddressOk(f)'
<1>1. E!At(f)' = E!At(f) /\ \A p \in E!At(f) : eReq'[p] = eReq[p]
  BY DEF E!At
<1>2. Waiting(f)' = Waiting(f) /\ InHand(f)' = InHand(f)
  BY <1>1 DEF Waiting, InHand
<1>3. First(f) => First(f)'
  <2> SUFFICES ASSUME First(f) PROVE First(f)'
    OBVIOUS
  <2>1. \A p \in InHand(f) : eReq'[p] = eReq[p]
    BY <1>1 DEF InHand
  <2>2. \A p \in E!At(f)' : /\ eReq'[p].pc # "mail in vain"
                            /\ eReq'[p].pc = "insert" => codes'[f] = {}
    BY <1>1 DEF First
  <2>3. \A p \in InHand(f)' : eReq[p].code = since[f] => eReq'[p].code = since'[f]
    BY <1>2, <2>1
  <2> QED BY <1>1, <1>2, <2>2, <2>3 DEF First
<1>4. (\E p \in E!At(f) : eReq[p].pc = "user")
          => \E p \in E!At(f)' : eReq'[p].pc = "user"
  BY <1>1
<1> QED BY <1>2, <1>3, <1>4 DEF AddressOk

\* A step of a visitor at an address keeps the invariant, if it keeps the types,
\* and what holds of himself and of that address.
LEMMA VisitorStep ==
    ASSUME SignInv, NEW q \in Visitor, NEW n \in Visits, NEW e \in Email,
           eReq' = [eReq EXCEPT ![q] = n],
           eReq[q].email \in {e, "none"}, n.email \in {e, "none"},
           "none" \notin Email, profile \subseteq profile',
           \A f \in Email \ {e} :
              /\ mails'[f] = mails[f] /\ codes'[f] = codes[f] /\ since'[f] = since[f]
              /\ f \in profile' <=> f \in profile
              /\ f \in user' <=> f \in user
              /\ f \in eCrossed' <=> f \in eCrossed
              /\ f \in eBroken' <=> f \in eBroken,
           AccountTypes', VisitOk(n)', AddressOk(e)'
    PROVE  SignInv'
<1>1. eReq \in [Visitor -> Visits]
  BY DEF SignInv, AccountTypes
<1>2. ASSUME NEW p \in Visitor PROVE VisitOk(eReq[p])'
  <2>1. CASE p = q
    BY <1>1, <2>1
  <2>2. CASE p # q
    <3>1. VisitOk(eReq[p]) /\ eReq'[p] = eReq[p]
      BY <1>1, <2>2 DEF SignInv
    <3> QED BY <3>1 DEF VisitOk
  <2> QED BY <2>1, <2>2
<1>3. ASSUME NEW f \in Email PROVE AddressOk(f)'
  <2>1. CASE f # e
    <3>1. AddressOk(f) /\ eReq[q].email # f /\ n.email # f
      BY <2>1 DEF SignInv
    <3> QED BY <1>1, <2>1, <3>1, OtherAddress
  <2> QED BY <2>1
<1> QED BY <1>2, <1>3 DEF SignInv

\* Fewer visits that are going to mail a code do not break the bound of the mails.
LEMMA FewerWait ==
    ASSUME IsFiniteSet(Visitor), NEW e \in Email,
           mails[e] + Cardinality(Waiting(e)) <= MaxMails, MaxMails \in Nat,
           mails[e] \in Nat, mails'[e] = mails[e], Waiting(e)' \subseteq Waiting(e)
    PROVE  mails'[e] + Cardinality(Waiting(e)') <= MaxMails
<1>1. Waiting(e) \subseteq Visitor
  BY DEF Waiting, E!At
<1>2. IsFiniteSet(Waiting(e))
  BY <1>1, FS_Subset
<1>3. /\ IsFiniteSet(Waiting(e)')
      /\ Cardinality(Waiting(e)') <= Cardinality(Waiting(e))
  BY <1>2, FS_Subset
<1>4. Cardinality(Waiting(e)') \in Nat /\ Cardinality(Waiting(e)) \in Nat
  BY <1>2, <1>3, FS_CardinalityType
<1> QED BY <1>3, <1>4

\* A visit that goes on at its address, without a mail, a code stored or a failure.
LEMMA GoesOn ==
    ASSUME E!SignUpAssumption, SignInv, NEW q \in Visitor, NEW n \in Visits,
           eReq' = [eReq EXCEPT ![q] = n], eReq[q] # E!Idle,
           n = E!Idle \/ n.email = eReq[q].email,
           UNCHANGED <<codes, mails, since, eCrossed>>, eFails' \in 0 .. MaxFail,
           profile \subseteq profile', user \subseteq user', eBroken \subseteq eBroken',
           profile' \subseteq profile \cup {eReq[q].email},
           user' \subseteq user \cup {eReq[q].email}, user' \subseteq profile',
           eBroken' \subseteq eBroken \cup {eReq[q].email},
           VisitOk(n)', WillMail(n) => WillMail(eReq[q]),
           \/ eReq[q].email \in eBroken'
           \/ /\ n.pc \notin {"obtain", "mail in vain"}
              /\ eReq[q].pc \in {"obtain", "insert"} /\ codes[eReq[q].email] = {}
                    => n.pc = "insert" /\ n.code = eReq[q].code
              /\ n.pc = "insert" => eReq[q].pc = "obtain" /\ codes[eReq[q].email] = {}
              /\ eReq[q].email \in profile' \ user' =>
                    \/ n.pc = "user"
                    \/ eReq[q].email \in profile /\ eReq[q].pc # "user"
    PROVE  SignInv'
<1> PICK e : e = eReq[q].email
  OBVIOUS
<1>1. AccountTypes /\ VisitOk(eReq[q])
  BY DEF SignInv
<1>2. eReq[q] \in Visits /\ e \in Email
  BY <1>1 DEF AccountTypes, VisitOk, Visits
<1>3. AddressOk(e)
  BY <1>2 DEF SignInv
<1>4. n.email \in {e, "none"} /\ (n.pc # "idle" => n.email = e)
  <2>1. E!Idle.email = "none" /\ E!Idle.pc = "idle"
    BY DEF E!Idle
  <2> QED BY <2>1
<1>5. AccountTypes'
  BY <1>1, <1>2 DEF AccountTypes
<1>6. AddressOk(e)'
  <2>1. E!At(e)' \subseteq E!At(e) /\ q \in E!At(e)
        /\ \A p \in E!At(e)' : p # q => eReq'[p] = eReq[p]
    BY <1>1, <1>2, <1>4 DEF E!At, AccountTypes, E!SignUpAssumption
  <2>2. eReq'[q] = n
    BY <1>1 DEF AccountTypes
  <2>3. Waiting(e)' \subseteq Waiting(e)
    BY <2>1, <2>2 DEF Waiting
  <2>4. mails'[e] + Cardinality(Waiting(e)') <= MaxMails
    <3>1. /\ IsFiniteSet(Visitor) /\ MaxMails \in Nat /\ mails[e] \in Nat
          /\ mails[e] + Cardinality(Waiting(e)) <= MaxMails /\ mails'[e] = mails[e]
      <4>1. mails[e] + Cardinality(Waiting(e)) <= MaxMails
        BY <1>3 DEF AddressOk
      <4>2. IsFiniteSet(Visitor) /\ MaxMails \in Nat
        BY FiniteVisitors DEF E!SignUpAssumption
      <4>3. mails[e] \in Nat /\ mails'[e] = mails[e]
        BY <1>1, <1>2 DEF AccountTypes
      <4> QED BY <4>1, <4>2, <4>3
    <3> QED BY <1>2, <2>3, <3>1, FewerWait
  <2>5. e \in profile' \ (user' \cup eBroken') => \E p \in E!At(e)' : eReq'[p].pc = "user"
    <3> SUFFICES ASSUME e \in profile' \ (user' \cup eBroken')
                 PROVE  \E p \in E!At(e)' : eReq'[p].pc = "user"
      OBVIOUS
    <3>1. CASE n.pc = "user"
      <4>1. n.email = e
        BY <3>1 DEF E!Idle
      <4> QED BY <1>1, <2>2, <3>1, <4>1 DEF E!At, AccountTypes
    <3>2. CASE e \in profile /\ eReq[q].pc # "user"
      <4>1. PICK p \in E!At(e) : eReq[p].pc = "user"
        BY <1>3, <3>2 DEF AddressOk
      <4> QED BY <1>1, <3>2, <4>1 DEF E!At, AccountTypes
    <3> QED BY <3>1, <3>2
  <2>6. ASSUME e \notin eCrossed' \cup eBroken' PROVE First(e)'
    <3>1. First(e)
      BY <1>3, <2>6 DEF AddressOk
    <3>2. E!At(e) = {q} /\ E!At(e)' \subseteq {q}
      BY <2>1, <3>1 DEF First
    <3>3. InHand(e)' # {} => n.pc = "insert" /\ eReq[q].pc = "obtain"
                              /\ n.code = eReq[q].code /\ codes[e] = {}
      BY <2>2, <2>6, <3>2 DEF InHand
    <3>4. codes[e] = {} /\ InHand(e)' = {} => InHand(e) = {}
      <4> SUFFICES ASSUME codes[e] = {}, NEW p \in InHand(e) PROVE InHand(e)' # {}
        OBVIOUS
      <4>1. p = q /\ eReq[q].pc \in {"obtain", "insert"}
        BY <3>2 DEF InHand
      <4>2. n.pc = "insert" /\ n.email = e
        BY <1>4, <2>6, <4>1
      <4> QED BY <2>2, <4>2 DEF InHand, E!At
    <3>5. InHand(e)' # {} => InHand(e) = {q} /\ InHand(e)' = {q}
      BY <3>2, <3>3 DEF InHand
    <3> QED BY ZenonT(60), <2>2, <2>6, <3>1, <3>2, <3>3, <3>4, <3>5 DEF First
  <2> QED BY <2>4, <2>5, <2>6 DEF AddressOk
<1>7. \A f \in Email \ {e} :
         /\ mails'[f] = mails[f] /\ codes'[f] = codes[f] /\ since'[f] = since[f]
         /\ f \in profile' <=> f \in profile
         /\ f \in user' <=> f \in user
         /\ f \in eCrossed' <=> f \in eCrossed
         /\ f \in eBroken' <=> f \in eBroken
  OBVIOUS
<1> QED BY <1>2, <1>4, <1>5, <1>6, <1>7, VisitorStep DEF E!SignUpAssumption

\* A visit begins.
LEMMA BeginVisit ==
    ASSUME E!SignUpAssumption, SignInv, NEW q \in Visitor, NEW e \in Email,
           NEW op \in {"verify", "signUp"}, E!Begin(q, e, op)
    PROVE  SignInv'
<1>n. PICK n : n = [E!Idle EXCEPT !.pc = "find", !.op = op, !.email = e]
  OBVIOUS
<1>0. n \in Visits /\ n.pc = "find" /\ n.op = op /\ n.email = e /\ n.code = 0
      /\ E!Idle.pc = "idle" /\ E!Idle.email = "none"
  BY <1>n DEF E!Idle, Visits
<1>1. AccountTypes /\ AddressOk(e) /\ "none" \notin Email
      /\ IsFiniteSet(Visitor) /\ MaxMails \in Nat
  BY FiniteVisitors DEF SignInv, E!SignUpAssumption
<1>2. n \in Visits /\ VisitOk(n)'
  <2>1. n # E!Idle /\ n.email # "none" /\ n.code <= MaxMails
    BY <1>0, <1>1
  <2> QED BY <1>0, <2>1 DEF VisitOk
<1>3. eReq[q] = E!Idle /\ eReq[q].email = "none" /\ eReq' = [eReq EXCEPT ![q] = n]
      /\ UNCHANGED <<profile, user, codes, mails, since, eBroken, eFails>>
      /\ (op = "verify" => mails[e] + Cardinality(E!At(e)) < MaxMails)
      /\ eCrossed' = IF E!At(e) = {} THEN eCrossed ELSE eCrossed \cup {e}
  <2>2. eReq[q] = E!Idle
    BY DEF E!Begin
  <2>3. op = "verify" => mails[e] + Cardinality(E!At(e)) < MaxMails
    BY FiniteVisitors DEF E!Begin
  <2>4. eReq' = [eReq EXCEPT ![q] = n]
    BY <1>n DEF E!Begin
  <2> QED BY <1>0, <2>2, <2>3, <2>4 DEF E!Begin
<1>4. AccountTypes'
  BY <1>1, <1>2, <1>3 DEF AccountTypes
<1>5. E!At(e)' = E!At(e) \cup {q} /\ q \notin E!At(e) /\ eReq'[q] = n
      /\ \A p \in E!At(e) : eReq'[p] = eReq[p]
  BY <1>0, <1>1, <1>3 DEF E!At, AccountTypes
<1>10. (WillMail(n) <=> op = "verify") /\ n.pc = "find"
  BY <1>0 DEF WillMail
<1>6. mails'[e] + Cardinality(Waiting(e)') <= MaxMails
  <2>1. IsFiniteSet(E!At(e)) /\ IsFiniteSet(Waiting(e)) /\ Waiting(e) \subseteq E!At(e)
    BY <1>1, FS_Subset DEF E!At, Waiting
  <2>2. Cardinality(Waiting(e)) <= Cardinality(E!At(e))
        /\ Cardinality(E!At(e)) \in Nat /\ Cardinality(Waiting(e)) \in Nat
    BY <2>1, FS_Subset, FS_CardinalityType
  <2>3. CASE op = "verify"
    <3>1. Waiting(e)' = Waiting(e) \cup {q} /\ q \notin Waiting(e)
      BY <1>5, <1>10, <2>3 DEF Waiting
    <3>2. Cardinality(Waiting(e)') = Cardinality(Waiting(e)) + 1
      BY <2>1, <3>1, FS_AddElement
    <3>3. mails[e] \in Nat /\ mails'[e] = mails[e]
      BY <1>1, <1>3 DEF AccountTypes
    <3> QED BY <1>1, <1>3, <2>2, <2>3, <3>2, <3>3
  <2>4. CASE op = "signUp"
    <3>1. Waiting(e)' = Waiting(e)
      BY <1>5, <1>10, <2>4 DEF Waiting
    <3> QED BY <1>1, <1>3, <3>1 DEF AddressOk
  <2> QED BY <2>3, <2>4
<1>7. e \in profile' \ (user' \cup eBroken') => \E p \in E!At(e)' : eReq'[p].pc = "user"
  BY <1>1, <1>3, <1>5 DEF AddressOk
<1>8. ASSUME e \notin eCrossed' \cup eBroken' PROVE First(e)'
  <2>1. E!At(e) = {} /\ First(e)
    BY <1>1, <1>3, <1>8 DEF AddressOk
  <2>2. E!At(e)' = {q} /\ InHand(e) = {} /\ InHand(e)' = {}
    BY <1>5, <1>10, <2>1 DEF InHand
  <2>3. since'[e] = mails'[e] + 1 \/ codes'[e] # {}
    BY <1>3, <2>1, <2>2 DEF First
  <2> QED BY <1>3, <1>5, <1>10, <2>1, <2>2, <2>3 DEF First
<1>9. AddressOk(e)'
  BY <1>6, <1>7, <1>8 DEF AddressOk
<1> QED BY <1>0, <1>1, <1>2, <1>3, <1>4, <1>9, VisitorStep

\* A code is mailed.
LEMMA MailVisit ==
    ASSUME E!SignUpAssumption, SignInv, NEW q \in Visitor, E!Mail(q)
    PROVE  SignInv'
<1> PICK e : e = eReq[q].email
  OBVIOUS
<1>1. AccountTypes /\ VisitOk(eReq[q]) /\ "none" \notin Email
      /\ IsFiniteSet(Visitor) /\ MaxMails \in Nat
  BY FiniteVisitors DEF SignInv, E!SignUpAssumption
<1>2. eReq[q].pc \in {"mail", "mail in vain"} /\ mails' = [mails EXCEPT ![e] = @ + 1]
      /\ UNCHANGED <<profile, user, codes, since, eCrossed, eBroken, eFails>>
  BY DEF E!Mail
<1>3. eReq[q] \in Visits /\ e \in Email /\ eReq[q].op = "verify" /\ q \in E!At(e)
  BY <1>1, <1>2 DEF AccountTypes, VisitOk, Visits, E!Idle, E!At
<1>4. AddressOk(e)
  BY <1>3 DEF SignInv
<1>5. /\ q \in Waiting(e) /\ IsFiniteSet(Waiting(e)) /\ Cardinality(Waiting(e)) \in Nat
      /\ Cardinality(Waiting(e) \ {q}) = Cardinality(Waiting(e)) - 1
      /\ Cardinality(Waiting(e) \ {q}) \in Nat
  <2>1. q \in Waiting(e) /\ Waiting(e) \subseteq Visitor
    BY <1>2, <1>3 DEF Waiting, WillMail, E!At
  <2>2. IsFiniteSet(Waiting(e)) /\ IsFiniteSet(Waiting(e) \ {q})
    BY <1>1, <2>1, FS_Subset
  <2> QED BY <2>1, <2>2, FS_RemoveElement, FS_CardinalityType
<1>6. mails[e] \in Nat /\ mails'[e] = mails[e] + 1 /\ mails' \in [Email -> Nat]
      /\ mails[e] + Cardinality(Waiting(e)) <= MaxMails
  <2>1. mails \in [Email -> Nat]
    BY <1>1 DEF AccountTypes
  <2>2. mails[e] + Cardinality(Waiting(e)) <= MaxMails
    BY <1>4 DEF AddressOk
  <2>3. mails' = [mails EXCEPT ![e] = @ + 1] /\ e \in Email
    BY <1>2, <1>3
  <2> QED BY <2>1, <2>2, <2>3
<1>7. mails[e] + 1 \in 1 .. MaxMails
  BY <1>1, <1>5, <1>6
<1> PICK n : n = IF eReq[q].pc = "mail"
                 THEN [eReq[q] EXCEPT !.pc = "obtain", !.code = mails[e] + 1]
                 ELSE E!Idle
  OBVIOUS
<1>8. eReq' = [eReq EXCEPT ![q] = n]
  BY <1>1, <1>3 DEF E!Mail, E!Answer, AccountTypes
<1>9. n \in Visits /\ n.email \in {e, "none"} /\ ~WillMail(n)
      /\ \/ n = E!Idle
         \/ /\ n.pc = "obtain" /\ n.op = "verify" /\ n.email = e
            /\ n.code = mails[e] + 1
  BY <1>3, <1>6 DEF Visits, E!Idle, WillMail
<1>10. VisitOk(n)'
  <2>1. VisitOk(E!Idle)'
    <3>1. MaxMails \in Nat
      BY <1>1
    <3> QED BY <3>1 DEF VisitOk, E!Idle
  <2>2. CASE n # E!Idle
    <3>1. n.pc = "obtain" /\ n.op = "verify" /\ n.email = e /\ n.code \in 1 .. MaxMails
      BY <1>7, <1>9, <2>2
    <3>2. n.pc # "idle" /\ n.email # "none" /\ n.code <= MaxMails /\ n # E!Idle
      BY <1>1, <1>3, <2>2, <3>1
    <3> QED BY <3>1, <3>2 DEF VisitOk
  <2> QED BY <2>1, <2>2
<1>11. AccountTypes'
  BY <1>1, <1>2, <1>6, <1>8, <1>9 DEF AccountTypes
<1>12. eReq'[q] = n /\ \A p \in Visitor \ {q} : eReq'[p] = eReq[p]
  BY <1>1, <1>8 DEF AccountTypes
<1>13. AddressOk(e)'
  <2>1. Waiting(e)' = Waiting(e) \ {q}
    BY <1>9, <1>12 DEF Waiting, E!At
  <2>2. mails'[e] + Cardinality(Waiting(e)') <= MaxMails
    BY <1>1, <1>5, <1>6, <2>1
  <2>3. e \in profile' \ (user' \cup eBroken') => \E p \in E!At(e)' : eReq'[p].pc = "user"
    BY <1>2, <1>4, <1>12 DEF AddressOk, E!At
  <2>4. ASSUME e \notin eCrossed' \cup eBroken' PROVE First(e)'
    <3>1. First(e) /\ E!At(e) = {q} /\ E!At(e)' \subseteq {q}
      BY ZenonT(60), <1>2, <1>3, <1>4, <1>9, <1>12, <2>4 DEF AddressOk, First, E!At
    <3>2. eReq[q].pc = "mail" /\ InHand(e) = {}
      BY <1>2, <1>3, <3>1 DEF First, InHand
    <3>3. n.pc = "obtain" /\ n.email = e /\ n.code = mails[e] + 1
      BY <1>3, <3>2 DEF Visits
    <3>4. InHand(e)' = {q}
      BY <1>12, <3>1, <3>3 DEF InHand, E!At
    <3> QED BY <1>2, <1>6, <1>12, <3>1, <3>2, <3>3, <3>4 DEF First
  <2> QED BY <2>2, <2>3, <2>4 DEF AddressOk
<1>14. \A f \in Email \ {e} : mails'[f] = mails[f]
  BY <1>1, <1>2 DEF AccountTypes
<1> QED BY <1>1, <1>2, <1>3, <1>8, <1>9, <1>10, <1>11, <1>13, <1>14, VisitorStep

\* What holds of a visit holds of one that is over, and of one that goes on.
LEMMA VisitOver ==
    ASSUME E!SignUpAssumption
    PROVE  E!Idle \in Visits /\ VisitOk(E!Idle)' /\ ~WillMail(E!Idle) /\ E!Idle.pc = "idle"
<1>1. MaxMails \in Nat
  BY DEF E!SignUpAssumption
<1> QED BY <1>1 DEF VisitOk, WillMail, E!Idle, Visits

\* A visit goes on at another point.
LEMMA VisitMoves ==
    ASSUME E!SignUpAssumption, SignInv, NEW q \in Visitor, eReq[q] # E!Idle,
           NEW pc \in {"look", "profile", "user", "mail", "mail in vain", "insert"},
           eReq' = [eReq EXCEPT ![q].pc = pc],
           pc = "look" => eReq[q].op = "signUp",
           pc \in {"mail", "mail in vain"} => eReq[q].op # "signUp",
           pc = "user" => eReq[q].email \in profile',
           pc = "insert" => eReq[q].pc = "obtain"
    PROVE  \E n \in Visits :
              /\ eReq' = [eReq EXCEPT ![q] = n] /\ VisitOk(n)'
              /\ n.pc = pc /\ n.op = eReq[q].op /\ n.email = eReq[q].email
              /\ n.code = eReq[q].code
<1> PICK n : n = [eReq[q] EXCEPT !.pc = pc]
  OBVIOUS
<1>1. eReq[q] \in Visits /\ VisitOk(eReq[q]) /\ eReq \in [Visitor -> Visits]
  BY DEF SignInv, AccountTypes
<1>2. n \in Visits /\ n.pc = pc /\ n.op = eReq[q].op /\ n.email = eReq[q].email
      /\ n.code = eReq[q].code
  BY <1>1 DEF Visits
<1>3. eReq' = [eReq EXCEPT ![q] = n]
  BY <1>1
<1>4. n # E!Idle /\ n.pc # "idle"
  BY <1>2 DEF E!Idle
<1>5. /\ n.email # "none" /\ n.code <= MaxMails
      /\ pc = "insert" => n.code \in 1 .. MaxMails /\ n.op = "verify"
  BY <1>1, <1>2 DEF VisitOk
<1>6. pc \in {"mail", "mail in vain"} => n.op = "verify"
  BY <1>1, <1>2 DEF Visits
<1>7. VisitOk(n)'
  BY <1>2, <1>4, <1>5, <1>6 DEF VisitOk
<1> QED BY <1>2, <1>3, <1>7

\* What a step of a visit at work finds.
LEMMA VisitAtWork ==
    ASSUME E!SignUpAssumption, SignInv, NEW q \in Visitor, eReq[q].pc # "idle"
    PROVE  /\ eReq[q] # E!Idle /\ eReq[q] \in Visits /\ eReq[q].email \in Email
           /\ VisitOk(eReq[q]) /\ profile \subseteq Email /\ user \subseteq profile
           /\ eReq[q].op \in {"verify", "signUp"} /\ "none" \notin Email
           /\ eReq \in [Visitor -> Visits] /\ eFails \in 0 .. MaxFail
           /\ MaxFail \in Nat
<1>1. AccountTypes /\ VisitOk(eReq[q]) /\ "none" \notin Email /\ MaxFail \in Nat
  BY DEF SignInv, E!SignUpAssumption
<1>2. eReq[q] \in Visits /\ eReq[q] # E!Idle
  BY <1>1 DEF AccountTypes, E!Idle
<1> QED BY <1>1, <1>2 DEF AccountTypes, VisitOk, Visits

\* The account is looked for.
LEMMA FindVisit ==
    ASSUME E!SignUpAssumption, SignInv, NEW q \in Visitor, E!Find(q)
    PROVE  SignInv'
<1>1. UNCHANGED <<profile, user, codes, mails, since, eCrossed, eBroken, eFails>>
      /\ eReq[q].pc \in {"find", "look"}
  BY DEF E!Find
<1>2. /\ eReq[q] # E!Idle /\ VisitOk(eReq[q]) /\ user \subseteq profile /\ eFails \in 0 .. MaxFail
  BY <1>1, VisitAtWork
<1>3. \/ eReq' = [eReq EXCEPT ![q] = E!Idle]
      \/ \E pc \in {"look", "profile", "mail"} :
            /\ eReq' = [eReq EXCEPT ![q].pc = pc]
            /\ pc = "look" => eReq[q].op = "signUp" /\ eReq[q].pc = "find"
            /\ pc = "mail" => eReq[q].op # "signUp"
            /\ pc = "profile" => eReq[q].op # "signUp" \/ eReq[q].pc = "look"
            /\ pc \in {"look", "profile"} => eReq[q].email \notin profile
  BY DEF E!Find, E!Goto, E!Answer
<1>4. CASE eReq' = [eReq EXCEPT ![q] = E!Idle]
  <2> PICK n : n = E!Idle
    OBVIOUS
  <2> QED BY <1>1, <1>2, <1>4, VisitOver, GoesOn
<1>5. ASSUME NEW pc \in {"look", "profile", "mail"},
             eReq' = [eReq EXCEPT ![q].pc = pc],
             pc = "look" => eReq[q].op = "signUp" /\ eReq[q].pc = "find",
             pc = "mail" => eReq[q].op # "signUp"
      PROVE  SignInv'
  <2>1. PICK n \in Visits :
           /\ eReq' = [eReq EXCEPT ![q] = n] /\ VisitOk(n)'
           /\ n.pc = pc /\ n.op = eReq[q].op /\ n.email = eReq[q].email
           /\ n.code = eReq[q].code
    <3>1. /\ pc \in {"look", "profile", "user", "mail", "mail in vain", "insert"}
          /\ pc = "look" => eReq[q].op = "signUp"
          /\ pc \in {"mail", "mail in vain"} => eReq[q].op # "signUp"
          /\ pc # "user" /\ pc # "insert"
      BY <1>5
    <3> QED BY <1>2, <1>5, <3>1, VisitMoves
  <2>2. WillMail(n) => WillMail(eReq[q])
    BY <1>1, <1>2, <2>1 DEF WillMail, VisitOk
  <2> QED BY <1>1, <1>2, <1>5, <2>1, <2>2, GoesOn
<1> QED BY <1>3, <1>4, <1>5

\* The profile is inserted, or refused.
LEMMA InsertProfileVisit ==
    ASSUME E!SignUpAssumption, SignInv, NEW q \in Visitor, E!InsertProfile(q)
    PROVE  SignInv'
<1>1. UNCHANGED <<user, codes, mails, since, eCrossed, eBroken, eFails>>
      /\ eReq[q].pc = "profile" /\ profile' = profile \cup {eReq[q].email}
  BY DEF E!InsertProfile
<1>2. /\ eReq[q] # E!Idle /\ VisitOk(eReq[q]) /\ user \subseteq profile /\ eFails \in 0 .. MaxFail
  BY <1>1, VisitAtWork
<1>3. CASE eReq[q].email \in profile
  <2> PICK n : n = E!Idle
    OBVIOUS
  <2>1. eReq' = [eReq EXCEPT ![q] = n]
    BY <1>3 DEF E!InsertProfile, E!Answer
  <2> QED BY <1>1, <1>2, <1>3, <2>1, VisitOver, GoesOn
<1>4. CASE eReq[q].email \notin profile
  <2> PICK pc : pc = "user"
    OBVIOUS
  <2>0. eReq' = [eReq EXCEPT ![q].pc = pc]
    BY <1>4 DEF E!InsertProfile, E!Goto
  <2>1. PICK n \in Visits :
           /\ eReq' = [eReq EXCEPT ![q] = n] /\ VisitOk(n)'
           /\ n.pc = pc /\ n.op = eReq[q].op /\ n.email = eReq[q].email
           /\ n.code = eReq[q].code
    BY ZenonT(60), <1>1, <1>2, <2>0, VisitMoves
  <2>2. WillMail(n) => WillMail(eReq[q])
    BY <1>1, <2>1 DEF WillMail
  <2> QED BY <1>1, <1>2, <2>1, <2>2, GoesOn
<1> QED BY <1>3, <1>4

\* The user is inserted, and the visit goes on to the mail or is over; or the
\* insert fails.
LEMMA InsertUserVisit ==
    ASSUME E!SignUpAssumption, SignInv, NEW q \in Visitor,
           E!InsertUser(q) \/ E!InsertUserFails(q)
    PROVE  SignInv'
<1>1. /\ UNCHANGED <<profile, codes, mails, since, eCrossed>> /\ eReq[q].pc = "user"
      /\ \/ UNCHANGED <<eBroken, eFails>> /\ user' = user \cup {eReq[q].email}
         \/ /\ eBroken' = eBroken \cup {eReq[q].email} /\ UNCHANGED user
            /\ eFails < MaxFail /\ eFails' = eFails + 1
      /\ \/ eReq' = [eReq EXCEPT ![q] = E!Idle]
         \/ /\ eReq[q].op = "verify"
            /\ \E pc \in {"mail", "mail in vain"} :
                  /\ eReq' = [eReq EXCEPT ![q].pc = pc]
                  /\ pc = "mail in vain" => eReq[q].email \in eBroken'
  BY DEF E!InsertUser, E!InsertUserFails, E!Goto, E!Answer
<1>2. /\ eReq[q] # E!Idle /\ VisitOk(eReq[q]) /\ user \subseteq profile
      /\ eReq[q].email \in profile /\ eReq[q].email \in Email
      /\ eFails' \in 0 .. MaxFail
  <2>1. eReq[q].pc = "user" /\ eReq[q].pc # "idle"
    BY <1>1
  <2>2. eFails \in 0 .. MaxFail /\ MaxFail \in Nat
    BY <2>1, VisitAtWork
  <2>3. eFails' = eFails \/ (eFails < MaxFail /\ eFails' = eFails + 1)
    BY <1>1
  <2>4. eFails' \in 0 .. MaxFail
    BY <2>2, <2>3
  <2> QED BY <1>1, <2>1, <2>4, VisitAtWork DEF VisitOk
<1>3. CASE eReq' = [eReq EXCEPT ![q] = E!Idle]
  <2> PICK n : n = E!Idle
    OBVIOUS
  <2> QED BY <1>1, <1>2, <1>3, VisitOver, GoesOn
<1>4. ASSUME NEW pc \in {"mail", "mail in vain"}, eReq[q].op = "verify",
             eReq' = [eReq EXCEPT ![q].pc = pc],
             pc = "mail in vain" => eReq[q].email \in eBroken'
      PROVE  SignInv'
  <2>1. PICK n \in Visits :
           /\ eReq' = [eReq EXCEPT ![q] = n] /\ VisitOk(n)'
           /\ n.pc = pc /\ n.op = eReq[q].op /\ n.email = eReq[q].email
           /\ n.code = eReq[q].code
    <3>1. /\ pc \in {"look", "profile", "user", "mail", "mail in vain", "insert"}
          /\ pc # "look" /\ pc # "user" /\ pc # "insert" /\ eReq[q].op # "signUp"
      BY <1>4
    <3> QED BY ZenonT(60), <1>2, <1>4, <3>1, VisitMoves
  <2>2. WillMail(eReq[q])
    <3>1. eReq[q].pc = "user"
      BY <1>1
    <3> QED BY <1>4, <3>1 DEF WillMail
  <2>3. eReq[q].email \in eBroken' \/ n.pc \notin {"obtain", "mail in vain"}
    BY <1>4, <2>1
  <2> QED BY <1>1, <1>2, <1>4, <2>1, <2>2, <2>3, GoesOn
<1> QED BY <1>1, <1>3, <1>4

\* The token is obtained.
LEMMA SetVerifyCodeVisit ==
    ASSUME E!SignUpAssumption, SignInv, NEW q \in Visitor, E!SetVerifyCode(q)
    PROVE  SignInv'
<1>1. UNCHANGED <<profile, user, codes, mails, since, eCrossed, eBroken, eFails>>
      /\ eReq[q].pc = "obtain"
  BY DEF E!SetVerifyCode
<1>2. /\ eReq[q] # E!Idle /\ VisitOk(eReq[q]) /\ user \subseteq profile /\ eFails \in 0 .. MaxFail
      /\ eReq[q].op = "verify"
  BY <1>1, VisitAtWork DEF VisitOk
<1>3. CASE codes[eReq[q].email] # {}
  <2> PICK n : n = E!Idle
    OBVIOUS
  <2>1. eReq' = [eReq EXCEPT ![q] = n]
    BY <1>3 DEF E!SetVerifyCode, E!Answer
  <2> QED BY <1>1, <1>2, <1>3, <2>1, VisitOver, GoesOn
<1>4. CASE codes[eReq[q].email] = {}
  <2> PICK pc : pc = "insert"
    OBVIOUS
  <2>0. eReq' = [eReq EXCEPT ![q].pc = pc]
    BY <1>4 DEF E!SetVerifyCode, E!Goto
  <2>1. PICK n \in Visits :
           /\ eReq' = [eReq EXCEPT ![q] = n] /\ VisitOk(n)'
           /\ n.pc = pc /\ n.op = eReq[q].op /\ n.email = eReq[q].email
           /\ n.code = eReq[q].code
    BY ZenonT(60), <1>1, <1>2, <2>0, VisitMoves
  <2>2. ~WillMail(n)
    BY <2>1 DEF WillMail
  <2> QED BY <1>1, <1>2, <1>4, <2>1, <2>2, GoesOn
<1> QED BY <1>3, <1>4

\* A visit breaks off.
LEMMA BreakVisit ==
    ASSUME E!SignUpAssumption, SignInv, NEW q \in Visitor, E!Break(q)
    PROVE  SignInv'
<1>1. /\ UNCHANGED <<profile, user, codes, mails, since, eCrossed>>
      /\ eReq[q] # E!Idle /\ eFails < MaxFail /\ eFails' = eFails + 1
      /\ eBroken' = eBroken \cup {eReq[q].email}
      /\ eReq' = [eReq EXCEPT ![q] = E!Idle]
  BY DEF E!Break, E!Answer
<1>2. eReq[q].pc # "idle" /\ user \subseteq profile /\ eFails \in 0 .. MaxFail
      /\ MaxFail \in Nat
  BY <1>1 DEF SignInv, VisitOk, AccountTypes, E!SignUpAssumption
<1>3. eFails' \in 0 .. MaxFail
  BY <1>1, <1>2
<1> PICK n : n = E!Idle
  OBVIOUS
<1> QED BY <1>1, <1>2, <1>3, VisitOver, GoesOn

\* The code is stored, and is the first one unless visits overlapped or failed.
LEMMA InsertCodeVisit ==
    ASSUME E!SignUpAssumption, SignInv, NEW q \in Visitor, E!InsertCode(q)
    PROVE  SignInv'
<1> PICK e : e = eReq[q].email
  OBVIOUS
<1> PICK n : n = E!Idle
  OBVIOUS
<1>1. /\ UNCHANGED <<profile, user, mails, since, eCrossed, eBroken, eFails>>
      /\ eReq[q].pc = "insert" /\ codes' = [codes EXCEPT ![e] = @ \cup {eReq[q].code}]
      /\ eReq' = [eReq EXCEPT ![q] = n]
  BY DEF E!InsertCode, E!Answer
<1>2. /\ eReq[q] # E!Idle /\ VisitOk(eReq[q]) /\ e \in Email /\ "none" \notin Email
      /\ eReq \in [Visitor -> Visits]
  BY <1>1, VisitAtWork
<1>3. eReq[q].code \in 1 .. MaxMails /\ AccountTypes /\ AddressOk(e)
  BY <1>1, <1>2 DEF VisitOk, SignInv
<1>4. n \in Visits /\ VisitOk(n)' /\ ~WillMail(n) /\ n.email = "none"
  BY VisitOver DEF E!Idle
<1>5. codes \in [Email -> SUBSET (1 .. MaxMails)]
  BY <1>3 DEF AccountTypes
<1>6. codes' \in [Email -> SUBSET (1 .. MaxMails)]
      /\ codes'[e] = codes[e] \cup {eReq[q].code}
      /\ \A f \in Email \ {e} : codes'[f] = codes[f]
  BY <1>1, <1>2, <1>3, <1>5
<1>7. AccountTypes'
  BY <1>1, <1>2, <1>3, <1>4, <1>6 DEF AccountTypes
<1>8. /\ E!At(e)' = E!At(e) \ {q} /\ q \in E!At(e)
      /\ \A p \in E!At(e)' : eReq'[p] = eReq[p]
  BY <1>1, <1>2, <1>4 DEF E!At
<1>9. mails'[e] + Cardinality(Waiting(e)') <= MaxMails
  <2>1. Waiting(e)' \subseteq Waiting(e)
    BY <1>8 DEF Waiting
  <2>2. /\ IsFiniteSet(Visitor) /\ MaxMails \in Nat /\ mails[e] \in Nat
        /\ mails[e] + Cardinality(Waiting(e)) <= MaxMails /\ mails'[e] = mails[e]
    BY <1>1, <1>2, <1>3, FiniteVisitors DEF AddressOk, AccountTypes, E!SignUpAssumption
  <2> QED BY <1>2, <2>1, <2>2, FewerWait
<1>10. e \in profile' \ (user' \cup eBroken') => \E p \in E!At(e)' : eReq'[p].pc = "user"
  <2> SUFFICES ASSUME e \in profile \ (user \cup eBroken)
               PROVE  \E p \in E!At(e)' : eReq'[p].pc = "user"
    BY <1>1
  <2>1. PICK p \in E!At(e) : eReq[p].pc = "user"
    BY <1>3 DEF AddressOk
  <2> QED BY <1>1, <1>8, <2>1
<1>11. ASSUME e \notin eCrossed' \cup eBroken' PROVE First(e)'
  <2>1. First(e) /\ E!At(e) = {q} /\ E!At(e)' = {}
    BY <1>1, <1>3, <1>8, <1>11 DEF AddressOk, First
  <2>2. codes[e] = {} /\ q \in InHand(e) /\ eReq[q].code = since[e]
    BY <1>1, <1>8, <2>1 DEF First, InHand
  <2>3. codes'[e] = {since'[e]}
    BY <1>1, <1>6, <2>2
  <2> QED BY <2>1, <2>3 DEF First
<1>12. AddressOk(e)'
  BY <1>9, <1>10, <1>11 DEF AddressOk
<1>13. \A f \in Email \ {e} :
          /\ mails'[f] = mails[f] /\ codes'[f] = codes[f] /\ since'[f] = since[f]
          /\ f \in profile' <=> f \in profile
          /\ f \in user' <=> f \in user
          /\ f \in eCrossed' <=> f \in eCrossed
          /\ f \in eBroken' <=> f \in eBroken
  BY <1>1, <1>6
<1> QED BY <1>1, <1>2, <1>4, <1>7, <1>12, <1>13, VisitorStep

\* The token of an address expires.
LEMMA ExpireToken ==
    ASSUME E!SignUpAssumption, SignInv, NEW e \in Email, E!Expire(e)
    PROVE  SignInv'
<1>1. /\ UNCHANGED <<profile, user, mails, eReq, eCrossed, eBroken, eFails>>
      /\ E!At(e) = {} /\ codes' = [codes EXCEPT ![e] = {}]
      /\ since' = [since EXCEPT ![e] = mails[e] + 1]
  BY DEF E!Expire
<1>2. AccountTypes /\ AddressOk(e) /\ MaxMails \in Nat /\ IsFiniteSet(Visitor)
  BY FiniteVisitors DEF SignInv, E!SignUpAssumption
<1>3. /\ codes \in [Email -> SUBSET (1 .. MaxMails)] /\ mails \in [Email -> Nat]
      /\ since \in [Email -> 1 .. MaxMails + 1]
  BY <1>2 DEF AccountTypes
<1>4. mails[e] + 1 \in 1 .. MaxMails + 1
  <2>1. Waiting(e) = {}
    BY <1>1 DEF Waiting
  <2>2. Cardinality(Waiting(e)) = 0
    BY <2>1, FS_EmptySet
  <2>3. mails[e] + Cardinality(Waiting(e)) <= MaxMails
    BY <1>2 DEF AddressOk
  <2>4. mails[e] \in Nat /\ mails[e] <= MaxMails
    BY <1>3, <2>2, <2>3
  <2> QED BY <1>2, <2>4
<1>5. /\ codes' \in [Email -> SUBSET (1 .. MaxMails)] /\ codes'[e] = {}
      /\ \A f \in Email \ {e} : codes'[f] = codes[f] /\ since'[f] = since[f]
  BY <1>1, <1>3
<1>6. since' \in [Email -> 1 .. MaxMails + 1] /\ since'[e] = mails[e] + 1
  BY <1>1, <1>3, <1>4
<1>7. AccountTypes'
  BY <1>1, <1>2, <1>5, <1>6 DEF AccountTypes
<1>8. ASSUME NEW q \in Visitor PROVE VisitOk(eReq[q])'
  <2>1. VisitOk(eReq[q])
    BY DEF SignInv
  <2> QED BY <1>1, <2>1 DEF VisitOk
<1>9. ASSUME NEW f \in Email PROVE AddressOk(f)'
  <2>1. AddressOk(f) /\ E!At(f)' = E!At(f) /\ Waiting(f)' = Waiting(f)
        /\ InHand(f)' = InHand(f)
    BY <1>1 DEF SignInv, E!At, Waiting, InHand
  <2>2. First(f) => First(f)'
    <3>1. CASE f = e
      <4>1. InHand(e) = {}
        BY <1>1 DEF InHand
      <4> QED BY ZenonT(60), <1>1, <1>5, <1>6, <2>1, <3>1, <4>1 DEF First
    <3>2. CASE f # e
      <4>1. codes'[f] = codes[f] /\ since'[f] = since[f]
        BY <1>5, <3>2
      <4> QED BY <1>1, <2>1, <4>1 DEF First
    <3> QED BY <3>1, <3>2
  <2> QED BY <1>1, <2>1, <2>2 DEF AddressOk
<1> QED BY <1>7, <1>8, <1>9 DEF SignInv

\* Every step of the service keeps it.
LEMMA StepSignInv ==
    ASSUME E!SignUpAssumption, SignInv, E!Next
    PROVE  SignInv'
<1>1. ASSUME NEW q \in Visitor, NEW e \in Email, NEW op \in {"verify", "signUp"},
             E!Begin(q, e, op)
      PROVE  SignInv'
  BY <1>1, BeginVisit
<1>2. ASSUME NEW q \in Visitor, E!Find(q) PROVE SignInv'
  BY <1>2, FindVisit
<1>3. ASSUME NEW q \in Visitor, E!InsertProfile(q) PROVE SignInv'
  BY <1>3, InsertProfileVisit
<1>4. ASSUME NEW q \in Visitor, E!InsertUser(q) \/ E!InsertUserFails(q) PROVE SignInv'
  BY <1>4, InsertUserVisit
<1>5. ASSUME NEW q \in Visitor, E!Mail(q) PROVE SignInv'
  BY <1>5, MailVisit
<1>6. ASSUME NEW q \in Visitor, E!SetVerifyCode(q) PROVE SignInv'
  BY <1>6, SetVerifyCodeVisit
<1>7. ASSUME NEW q \in Visitor, E!InsertCode(q) PROVE SignInv'
  BY <1>7, InsertCodeVisit
<1>8. ASSUME NEW q \in Visitor, E!Break(q) PROVE SignInv'
  BY <1>8, BreakVisit
<1>9. ASSUME NEW e \in Email, E!Expire(e) PROVE SignInv'
  BY <1>9, ExpireToken
<1> QED BY <1>1, <1>2, <1>3, <1>4, <1>5, <1>6, <1>7, <1>8, <1>9 DEF E!Next

\* Every step of the composite, of this part or of another, keeps it.
LEMMA SignInvariance == Spec => []SignInv
<1>1. E!SignUpAssumption
  BY AgreementAssumption
<1>2. Init => SignInv
  BY <1>1, InitSignInv DEF Init
<1>3. SignInv /\ [Next]_vars => SignInv'
  <2> SUFFICES ASSUME SignInv, [Next]_vars PROVE SignInv'
    OBVIOUS
  <2>1. CASE E!Next
    BY <1>1, <2>1, StepSignInv
  <2>2. CASE UNCHANGED account
    <3>1. \A e \in Email : /\ E!At(e)' = E!At(e) /\ Waiting(e)' = Waiting(e)
                           /\ InHand(e)' = InHand(e)
      BY <2>2 DEF account, E!At, Waiting, InHand
    <3>2. ASSUME NEW e \in Email PROVE AddressOk(e)'
      <4>1. AddressOk(e)
        BY DEF SignInv
      <4>2. First(e) => First(e)'
        BY <2>2, <3>1 DEF First, account
      <4> QED BY <2>2, <3>1, <4>1, <4>2 DEF AddressOk, account
    <3>3. ASSUME NEW q \in Visitor PROVE VisitOk(eReq[q])'
      <4>1. VisitOk(eReq[q])
        BY DEF SignInv
      <4> QED BY <2>2, <4>1 DEF VisitOk, account
    <3>4. AccountTypes'
      BY <2>2 DEF SignInv, AccountTypes, account
    <3> QED BY <3>2, <3>3, <3>4 DEF SignInv
  <2>3. E!Next \/ UNCHANGED account
    BY DEF Next, vars
  <2> QED BY <2>1, <2>2, <2>3
<1> QED BY <1>2, <1>3, PTL DEF Spec

\* However many visits there are of however many addresses, and wherever they
\* fail, a profile without a user has a visit that is about to insert one, unless
\* one of its address failed.
THEOREM ProfilesGetUsers == Spec => []ProfilesHaveUsers
<1>1. SignInv => ProfilesHaveUsers
  <2> SUFFICES ASSUME SignInv, NEW e \in profile \ (user \cup eBroken)
               PROVE  \E q \in E!At(e) : eReq[q].pc = "user"
    BY DEF ProfilesHaveUsers, E!ProfilesHaveUsers
  <2>1. e \in Email
    BY DEF SignInv, AccountTypes
  <2> QED BY <2>1 DEF SignInv, AddressOk
<1> QED BY <1>1, SignInvariance, PTL

\* The code that is good is the first that was mailed since the last one expired,
\* for an address whose visits came one after the other and did not fail,
\* whatever the visits of the others did.
THEOREM FirstMailedCounts == Spec => []FirstCodeCounts
<1>1. SignInv => FirstCodeCounts
  <2> SUFFICES ASSUME SignInv, NEW e \in Email, e \notin eCrossed \cup eBroken
               PROVE  codes[e] \subseteq {since[e]}
    BY DEF FirstCodeCounts, E!FirstCodeCounts
  <2> QED BY DEF SignInv, AddressOk, First
<1> QED BY <1>1, SignInvariance, PTL

-----------------------------------------------------------------------------
(* Friends (Friends). *)

Types == {"none", "request", "accepted", "ignored", "blocked"}

Relation == [profile : User \cup {"none"}, requester : User \cup {"none"}, type : Types]

FriendCalls ==
    [pc : {"idle", "diff", "write", "reverse", "insert", "commit"}, accepts : BOOLEAN,
     profile : User \cup {"none"}, requester : User \cup {"none"},
     row : Relations \cup {"none"}, type : Types, wrote : SUBSET Relations]

Reverse(p) == <<p[2], p[1]>>

\* A relation was accepted, or somebody ignored or blocked since.
Settled(p) ==
    p \in touched \/ \E r \in Relations : rel[r].type = "accepted" /\ F!Pair(r) = p

\* It is, or will be when the transaction of the request is committed.
Granted(v, p) == Settled(p) \/ \E r \in v.wrote : F!Pair(r) = p

Asked(v) == <<v.profile, v.requester>>

\* A row is empty or complete; what is ignored or blocked is remembered; what is
\* accepted is so in both directions, if it was not unblocked.
RowOk(r) ==
    /\ rel[r] = F!NoRow \/ (rel[r].profile \in User /\ rel[r].requester \in User)
    /\ rel[r].type \in {"ignored", "blocked"} => F!Pair(r) \in touched
    /\ rel[r].type = "accepted" => F!Pair(r) \in unblocked \/ Settled(Reverse(F!Pair(r)))

\* The row a request is at, and the type it is about to get.
TargetOk(v) ==
    /\ v.row \in Relations /\ rel[v.row] # F!NoRow
    /\ v.accepts => \/ F!Pair(v.row) = Asked(v)
                    \/ F!Pair(v.row) = Reverse(Asked(v)) /\ Granted(v, Asked(v))
    /\ ~v.accepts /\ v.type = "accepted" => F!Pair(v.row) \in unblocked
    /\ ~v.accepts /\ v.type # "accepted" => F!Pair(v.row) \in touched

\* Only accept writes in a transaction, rows of the two directions; past a row it
\* has granted it.
RequestOk(v) ==
    v # F!Idle =>
        /\ v.profile \in User /\ v.requester \in User
        /\ \A r \in v.wrote : rel[r] # F!NoRow /\ F!Pair(r) \in {Asked(v), Reverse(Asked(v))}
        /\ v.accepts => v.type = "accepted"
        /\ ~v.accepts => v.wrote = {} /\ v.pc \in {"diff", "write", "insert"}
        /\ ~v.accepts /\ v.pc = "insert" => v.type = "request"
        /\ v.pc \in {"diff", "write"} => TargetOk(v)
        /\ v.accepts /\ v.pc \in {"reverse", "insert", "commit"} => Granted(v, Asked(v))
        /\ v.pc = "commit" => Granted(v, Reverse(Asked(v)))

FriendTypes == rel \in [Relations -> Relation] /\ fReq \in [Request -> FriendCalls]

\* The inductive invariant.
FriendInv ==
    /\ FriendTypes
    /\ \A r \in Relations : RowOk(r)
    /\ \A q \in Request : RequestOk(fReq[q])

\* It holds in the beginning.
LEMMA InitFriendInv == ASSUME F!Init PROVE FriendInv
<1> USE DEF F!Init
<1>1. F!Idle \in FriendCalls /\ F!NoRow \in Relation
  BY DEF F!Idle, FriendCalls, F!NoRow, Relation, Types
<1>2. FriendTypes
  BY <1>1 DEF FriendTypes
<1>3. \A r \in Relations : RowOk(r)
  <2>1. \A r \in Relations : rel[r] = F!NoRow /\ rel[r].type = "none"
    BY DEF F!NoRow
  <2> QED BY <2>1 DEF RowOk
<1>4. \A q \in Request : RequestOk(fReq[q])
  BY DEF RequestOk
<1> QED BY <1>2, <1>3, <1>4 DEF FriendInv

\* What a step may do to a row: fill it, accept it, or change one of a pair that
\* was ignored or blocked.
Moves ==
    /\ touched \subseteq touched' /\ unblocked \subseteq unblocked'
    /\ \A r \in Relations :
          rel[r] # F!NoRow =>
             /\ rel'[r].profile = rel[r].profile /\ rel'[r].requester = rel[r].requester
             /\ \/ rel'[r].type = rel[r].type
                \/ rel'[r].type = "accepted"
                \/ F!Pair(r) \in touched

\* A row that is there keeps its pair, and stays there; what is settled stays so.
LEMMA SettledStays ==
    ASSUME F!FriendsAssumption, FriendInv, Moves
    PROVE  /\ \A r \in Relations : rel[r] # F!NoRow =>
                 F!Pair(r)' = F!Pair(r) /\ rel'[r] # F!NoRow
           /\ \A p : Settled(p) => Settled(p)'
           /\ \A v, p : v \in FriendCalls /\ RequestOk(v) /\ Granted(v, p) => Granted(v, p)'
<1>1. ASSUME NEW r \in Relations, rel[r] # F!NoRow
      PROVE  F!Pair(r)' = F!Pair(r) /\ rel'[r] # F!NoRow
  <2>1. rel[r].profile \in User
    BY <1>1 DEF FriendInv, RowOk
  <2>2. "none" \notin User
    BY DEF F!FriendsAssumption
  <2>3. rel'[r].profile = rel[r].profile /\ rel'[r].requester = rel[r].requester
    BY <1>1 DEF Moves
  <2> QED BY <2>1, <2>2, <2>3 DEF F!Pair, F!NoRow
<1>2. ASSUME NEW p, Settled(p) PROVE Settled(p)'
  <2>1. CASE p \in touched
    BY <2>1 DEF Settled, Moves
  <2>2. ASSUME NEW r \in Relations, rel[r].type = "accepted", F!Pair(r) = p PROVE Settled(p)'
    <3>1. rel[r] # F!NoRow
      BY <2>2 DEF F!NoRow
    <3>2. F!Pair(r)' = p
      BY <1>1, <2>2, <3>1
    <3>3. rel'[r].type = "accepted" \/ p \in touched
      BY <2>2, <3>1 DEF Moves
    <3> QED BY <3>2, <3>3 DEF Settled, Moves
  <2> QED BY <1>2, <2>1, <2>2 DEF Settled
<1>3. ASSUME NEW v \in FriendCalls, NEW p, RequestOk(v), Granted(v, p) PROVE Granted(v, p)'
  <2>1. CASE Settled(p)
    BY <1>2, <2>1 DEF Granted
  <2>2. ASSUME NEW r \in v.wrote, F!Pair(r) = p PROVE Granted(v, p)'
    <3>1. r \in Relations /\ v # F!Idle
      BY <2>2 DEF FriendCalls, F!Idle
    <3>2. rel[r] # F!NoRow
      BY <1>3, <2>2, <3>1 DEF RequestOk
    <3>3. F!Pair(r)' = p
      BY <1>1, <2>2, <3>1, <3>2
    <3> QED BY <2>2, <3>3 DEF Granted
  <2> QED BY <1>3, <2>1, <2>2 DEF Granted
<1> QED BY <1>1, <1>2, <1>3

\* What holds of a request keeps to.
LEMMA RequestStays ==
    ASSUME F!FriendsAssumption, FriendInv, Moves, NEW v \in FriendCalls, RequestOk(v)
    PROVE  RequestOk(v)'
<1>1. SUFFICES ASSUME v # F!Idle PROVE RequestOk(v)'
  BY DEF RequestOk
<1>2. \A r \in Relations : rel[r] # F!NoRow => F!Pair(r)' = F!Pair(r) /\ rel'[r] # F!NoRow
  BY SettledStays
<1>3. \A p : Granted(v, p) => Granted(v, p)'
  BY SettledStays
<1>4. v.wrote \subseteq Relations
  BY DEF FriendCalls
<1>5. \A r \in v.wrote : rel'[r] # F!NoRow /\ F!Pair(r)' \in {Asked(v), Reverse(Asked(v))}
  BY <1>1, <1>2, <1>4 DEF RequestOk
<1>6. ASSUME v.pc \in {"diff", "write"} PROVE TargetOk(v)'
  <2>1. TargetOk(v)
    BY <1>1, <1>6 DEF RequestOk
  <2>2. F!Pair(v.row)' = F!Pair(v.row) /\ rel'[v.row] # F!NoRow
    BY <1>2, <2>1 DEF TargetOk
  <2>3. touched \subseteq touched' /\ unblocked \subseteq unblocked'
    BY DEF Moves
  <2> QED BY <1>3, <2>1, <2>2, <2>3 DEF TargetOk
<1>7. /\ v.accepts /\ v.pc \in {"reverse", "insert", "commit"} => Granted(v, Asked(v))'
      /\ v.pc = "commit" => Granted(v, Reverse(Asked(v)))'
  BY <1>1, <1>3 DEF RequestOk
<1> QED BY <1>1, <1>5, <1>6, <1>7 DEF RequestOk

\* A step of one request keeps the invariant if it moves rows as it may, and what
\* holds of it and of the rows it changes.
LEMMA FriendStep ==
    ASSUME F!FriendsAssumption, FriendInv, NEW q \in Request, NEW n \in FriendCalls,
           fReq' = [fReq EXCEPT ![q] = n], Moves, rel' \in [Relations -> Relation],
           \A r \in Relations : rel'[r] # rel[r] => RowOk(r)', RequestOk(n)'
    PROVE  FriendInv'
<1>1. fReq \in [Request -> FriendCalls]
  BY DEF FriendInv, FriendTypes
<1>2. FriendTypes'
  BY <1>1 DEF FriendTypes
<1>3. ASSUME NEW r \in Relations, rel'[r] = rel[r] PROVE RowOk(r)'
  <2>1. RowOk(r)
    BY DEF FriendInv
  <2>2. F!Pair(r)' = F!Pair(r)
    BY <1>3 DEF F!Pair
  <2>3. Settled(Reverse(F!Pair(r))) => Settled(Reverse(F!Pair(r)))'
    BY <2>2, SettledStays
  <2>4. touched \subseteq touched' /\ unblocked \subseteq unblocked'
    BY DEF Moves
  <2> QED BY <1>3, <2>1, <2>2, <2>3, <2>4 DEF RowOk
<1>4. ASSUME NEW p \in Request PROVE RequestOk(fReq[p])'
  <2>1. CASE p = q
    BY <1>1, <2>1
  <2>2. CASE p # q
    <3>1. fReq'[p] = fReq[p] /\ fReq[p] \in FriendCalls /\ RequestOk(fReq[p])
      BY <1>1, <2>2 DEF FriendInv
    <3>2. PICK v \in FriendCalls : v = fReq[p]
      BY <3>1
    <3>3. RequestOk(v)'
      BY <3>1, <3>2, RequestStays
    <3> QED BY <3>1, <3>2, <3>3
  <2> QED BY <2>1, <2>2
<1> QED BY <1>2, <1>3, <1>4 DEF FriendInv

\* The request of the step.
LEMMA RequestFacts ==
    ASSUME F!FriendsAssumption, FriendInv, NEW q \in Request
    PROVE  /\ fReq[q] \in FriendCalls /\ RequestOk(fReq[q])
           /\ F!Idle \in FriendCalls /\ RequestOk(F!Idle)'
           /\ rel \in [Relations -> Relation] /\ "none" \notin User
<1>1. F!Idle \in FriendCalls
  BY DEF F!Idle, FriendCalls, Types
<1>2. RequestOk(F!Idle)'
  BY DEF RequestOk
<1> QED BY <1>1, <1>2 DEF FriendInv, FriendTypes, F!FriendsAssumption

\* A request for a row that is not there yet.
LEMMA AskNew ==
    ASSUME F!FriendsAssumption, FriendInv, NEW q \in Request, NEW me \in User, NEW other \in User,
           fReq' = [fReq EXCEPT ![q] = [F!Idle EXCEPT !.pc = "insert", !.type = "request",
                                           !.profile = other, !.requester = me]],
           UNCHANGED <<rel, unblocked, touched>>
    PROVE  FriendInv'
<1>1. Moves
  BY DEF Moves
<1>2. F!Idle \in FriendCalls /\ rel \in [Relations -> Relation]
  BY RequestFacts
<1>3. PICK n : n = [F!Idle EXCEPT !.pc = "insert", !.type = "request",
                                  !.profile = other, !.requester = me]
  OBVIOUS
<1>4. fReq' = [fReq EXCEPT ![q] = n]
  BY <1>3
<1>5. /\ n \in FriendCalls /\ n.pc = "insert" /\ n.type = "request" /\ n.profile = other
      /\ n.requester = me /\ n.accepts = FALSE /\ n.wrote = {}
  BY <1>2, <1>3 DEF FriendCalls, F!Idle, Types
<1> HIDE <1>3
<1>6. RequestOk(n)'
  BY <1>5 DEF RequestOk
<1> QED BY <1>1, <1>2, <1>4, <1>5, <1>6, FriendStep

\* A row is found, and its new type chosen.
LEMMA SaveCall ==
    ASSUME F!FriendsAssumption, FriendInv, NEW q \in Request, NEW r \in Relations,
           NEW accepts \in BOOLEAN, NEW type \in Types, F!Save(q, accepts, r, type),
           rel' = rel, touched \subseteq touched', unblocked \subseteq unblocked',
           accepts => type = "accepted",
           ~accepts /\ type = "accepted" => F!Pair(r) \in unblocked',
           ~accepts /\ type # "accepted" => F!Pair(r) \in touched'
    PROVE  FriendInv'
<1>1. Moves
  BY DEF Moves
<1>2. rel \in [Relations -> Relation] /\ RowOk(r) /\ rel[r] # F!NoRow /\ rel[r] \in Relation
  BY RequestFacts DEF F!Save, FriendInv
<1>3. rel[r].profile \in User /\ rel[r].requester \in User
  BY <1>2 DEF RowOk
<1>4. PICK n : n = [pc |-> "diff", accepts |-> accepts, profile |-> rel[r].profile,
                    requester |-> rel[r].requester, row |-> r, type |-> type, wrote |-> {}]
  OBVIOUS
<1>5. fReq' = [fReq EXCEPT ![q] = n]
  BY <1>4 DEF F!Save
<1>6. /\ n \in FriendCalls /\ n.pc = "diff" /\ n.accepts = accepts /\ n.row = r /\ n.type = type
      /\ n.profile = rel[r].profile /\ n.requester = rel[r].requester /\ n.wrote = {}
  BY <1>3, <1>4 DEF FriendCalls
<1> HIDE <1>4
<1>7. F!Pair(r)' = F!Pair(r) /\ Asked(n) = F!Pair(r)
  BY <1>6 DEF F!Pair, Asked
<1>8. TargetOk(n)'
  BY <1>2, <1>6, <1>7 DEF TargetOk
<1>9. RequestOk(n)'
  BY <1>3, <1>6, <1>8 DEF RequestOk
<1> QED BY <1>1, <1>2, <1>5, <1>6, <1>9, FriendStep

\* It ends without a trace.
LEMMA DropCall ==
    ASSUME F!FriendsAssumption, FriendInv, NEW q \in Request,
           fReq' = [fReq EXCEPT ![q] = F!Idle], UNCHANGED <<rel, unblocked, touched>>
    PROVE  FriendInv'
<1>1. Moves
  BY DEF Moves
<1> QED BY <1>1, RequestFacts, FriendStep

\* It only moves on.
LEMMA WriteNext ==
    ASSUME F!FriendsAssumption, FriendInv, NEW q \in Request, fReq[q].pc = "diff",
           fReq' = [fReq EXCEPT ![q].pc = "write"], UNCHANGED <<rel, unblocked, touched>>
    PROVE  FriendInv'
<1>1. Moves
  BY DEF Moves
<1>2. fReq[q] \in FriendCalls /\ RequestOk(fReq[q]) /\ rel \in [Relations -> Relation]
  BY RequestFacts
<1>3. PICK n : n = [fReq[q] EXCEPT !.pc = "write"]
  OBVIOUS
<1>4. fReq' = [fReq EXCEPT ![q] = n]
  BY <1>3
<1>5. /\ n \in FriendCalls /\ n.pc = "write" /\ n.accepts = fReq[q].accepts
      /\ n.row = fReq[q].row /\ n.type = fReq[q].type /\ n.profile = fReq[q].profile
      /\ n.requester = fReq[q].requester /\ n.wrote = fReq[q].wrote
  BY <1>2, <1>3 DEF FriendCalls
<1> HIDE <1>3
<1>6. fReq[q] # F!Idle
  BY DEF F!Idle
<1>7. TargetOk(n) /\ \A r \in n.wrote : rel[r] # F!NoRow /\ F!Pair(r) \in {Asked(n), Reverse(Asked(n))}
  BY <1>2, <1>5, <1>6 DEF RequestOk, TargetOk, Asked, Granted
<1>8. RequestOk(n)
  BY <1>2, <1>5, <1>6, <1>7 DEF RequestOk
<1>9. RequestOk(n)'
  BY <1>1, <1>5, <1>8, RequestStays
<1> QED BY <1>1, <1>2, <1>4, <1>5, <1>9, FriendStep

\* accept goes on: its row is accepted already, or will be when it commits.
LEMMA GrantedCall ==
    ASSUME F!FriendsAssumption, FriendInv, NEW q \in Request, fReq[q].pc \in {"diff", "write"},
           fReq[q].accepts, NEW wrote \in SUBSET Relations,
           fReq[q].wrote \subseteq wrote, wrote \subseteq fReq[q].wrote \cup {fReq[q].row},
           Settled(F!Pair(fReq[q].row)) \/ fReq[q].row \in wrote,
           fReq' = [fReq EXCEPT ![q] = [F!Saved(q) EXCEPT !.wrote = wrote]],
           UNCHANGED <<rel, unblocked, touched>>
    PROVE  FriendInv'
<1>1. Moves
  BY DEF Moves
<1>2. fReq[q] \in FriendCalls /\ RequestOk(fReq[q]) /\ rel \in [Relations -> Relation]
      /\ fReq[q] # F!Idle
  BY RequestFacts DEF F!Idle
<1>3. PICK v \in FriendCalls : v = fReq[q]
  BY <1>2
<1>4. TargetOk(v) /\ v.type = "accepted" /\ v.accepts
  BY <1>2, <1>3 DEF RequestOk
<1>5. PICK pc : pc = IF F!Pair(v.row) = Asked(v) THEN "reverse" ELSE "commit"
  OBVIOUS
<1>6. PICK n : n = [v EXCEPT !.pc = pc, !.wrote = wrote]
  OBVIOUS
<1>7. fReq' = [fReq EXCEPT ![q] = n]
  <2>1. v.row \in F!Of(v.profile, v.requester) <=> F!Pair(v.row) = Asked(v)
    BY <1>4 DEF F!Of, F!Pair, Asked, TargetOk
  <2>2. F!Saved(q) = [v EXCEPT !.pc = pc]
    BY <1>3, <1>4, <1>5, <2>1 DEF F!Saved
  <2>3. [F!Saved(q) EXCEPT !.wrote = wrote] = n
    BY <1>3, <1>6, <2>2 DEF FriendCalls
  <2> QED BY <2>3
<1>8. /\ n \in FriendCalls /\ n.pc = pc /\ n.accepts /\ n.row = v.row /\ n.type = v.type
      /\ n.profile = v.profile /\ n.requester = v.requester /\ n.wrote = wrote
  BY ZenonT(60), <1>3, <1>4, <1>5, <1>6 DEF FriendCalls
<1> HIDE <1>6
<1>9. Asked(n) = Asked(v) /\ \A p : Granted(v, p) => Granted(n, p)
  BY <1>3, <1>8 DEF Asked, Granted
<1>10. Granted(n, F!Pair(v.row))
  BY <1>3, <1>8 DEF Granted
<1>11. /\ F!Pair(v.row) = Asked(v) \/ F!Pair(v.row) = Reverse(Asked(v))
       /\ F!Pair(v.row) = Asked(v) \/ Granted(v, Asked(v))
  BY <1>4 DEF TargetOk
<1>12. /\ Granted(n, Asked(n))
       /\ pc = "commit" => Granted(n, Reverse(Asked(n)))
  BY <1>5, <1>9, <1>10, <1>11
<1>13. \A r \in wrote : rel[r] # F!NoRow /\ F!Pair(r) \in {Asked(n), Reverse(Asked(n))}
  BY <1>2, <1>3, <1>4, <1>9, <1>11 DEF RequestOk, TargetOk
<1>14. RequestOk(n)
  BY <1>2, <1>3, <1>4, <1>5, <1>8, <1>12, <1>13 DEF RequestOk
<1>15. RequestOk(n)'
  BY <1>1, <1>8, <1>14, RequestStays
<1> QED BY <1>1, <1>2, <1>7, <1>8, <1>15, FriendStep

\* A row is found equal to what it should be, or its new type is written.
LEMMA DiffNoneKeeps ==
    ASSUME F!FriendsAssumption, FriendInv, NEW q \in Request, F!DiffNone(q) PROVE FriendInv'
<1>1. /\ fReq[q].pc = "diff" /\ rel[fReq[q].row].type = fReq[q].type
      /\ fReq' = [fReq EXCEPT ![q] = F!Saved(q)] /\ UNCHANGED <<rel, unblocked, touched>>
  BY DEF F!DiffNone
<1>2. fReq[q] \in FriendCalls /\ RequestOk(fReq[q]) /\ fReq[q] # F!Idle
  BY <1>1, RequestFacts DEF F!Idle
<1>3. CASE ~fReq[q].accepts
  <2>1. F!Saved(q) = F!Idle
    BY <1>3 DEF F!Saved
  <2> QED BY <1>1, <2>1, DropCall
<1>4. CASE fReq[q].accepts
  <2>1. fReq[q].row \in Relations /\ fReq[q].type = "accepted"
    BY <1>1, <1>2, <1>4 DEF RequestOk, TargetOk
  <2>2. Settled(F!Pair(fReq[q].row))
    BY <1>1, <2>1 DEF Settled
  <2>3. PICK wrote \in SUBSET Relations : wrote = fReq[q].wrote
    BY <1>2 DEF FriendCalls
  <2>4. [F!Saved(q) EXCEPT !.wrote = wrote] = F!Saved(q)
    <3>1. PICK v \in FriendCalls : v = fReq[q]
      BY <1>2
    <3>2. PICK pc : F!Saved(q) = [v EXCEPT !.pc = pc]
      BY <1>4, <3>1 DEF F!Saved
    <3> QED BY <2>3, <3>1, <3>2 DEF FriendCalls
  <2>5. fReq' = [fReq EXCEPT ![q] = [F!Saved(q) EXCEPT !.wrote = wrote]]
    BY <1>1, <2>4
  <2> QED BY <1>1, <1>4, <2>2, <2>3, <2>5, GrantedCall
<1> QED BY <1>3, <1>4

\* A row is written, by an endpoint or within the transaction of an acceptance.
LEMMA WriteKeeps ==
    ASSUME F!FriendsAssumption, FriendInv, NEW q \in Request, F!Write(q) PROVE FriendInv'
<1>1. fReq[q].pc = "write" /\ UNCHANGED <<unblocked, touched>>
  BY DEF F!Write
<1>2. /\ fReq[q] \in FriendCalls /\ RequestOk(fReq[q]) /\ fReq[q] # F!Idle
      /\ rel \in [Relations -> Relation] /\ F!Idle \in FriendCalls /\ RequestOk(F!Idle)'
  BY <1>1, RequestFacts DEF F!Idle
<1>3. PICK r \in Relations : r = fReq[q].row
  BY <1>1, <1>2 DEF RequestOk, TargetOk
<1>4. CASE fReq[q].accepts
  <2>1. PICK wrote \in SUBSET Relations : wrote = fReq[q].wrote \cup {r}
    BY <1>2 DEF FriendCalls
  <2>2. /\ fReq' = [fReq EXCEPT ![q] = [F!Saved(q) EXCEPT !.wrote = @ \cup {r}]] /\ rel' = rel
    BY <1>3, <1>4 DEF F!Write, F!InTransaction
  <2>3. [F!Saved(q) EXCEPT !.wrote = @ \cup {r}] = [F!Saved(q) EXCEPT !.wrote = wrote]
    <3>1. PICK v \in FriendCalls : v = fReq[q]
      BY <1>2
    <3>2. PICK pc : F!Saved(q) = [v EXCEPT !.pc = pc]
      BY <1>4, <3>1 DEF F!Saved
    <3>3. F!Saved(q).wrote = fReq[q].wrote
      BY <3>1, <3>2 DEF FriendCalls
    <3> QED BY <2>1, <3>3
  <2>4. fReq' = [fReq EXCEPT ![q] = [F!Saved(q) EXCEPT !.wrote = wrote]]
    BY <2>2, <2>3
  <2>5. fReq[q].row \in wrote /\ wrote \subseteq fReq[q].wrote \cup {fReq[q].row}
        /\ fReq[q].wrote \subseteq wrote
    BY <1>3, <2>1
  <2> QED BY <1>1, <1>4, <2>2, <2>4, <2>5, GrantedCall
<1>5. CASE ~fReq[q].accepts
  <2>1. fReq' = [fReq EXCEPT ![q] = F!Idle] /\ rel' = [rel EXCEPT ![r].type = fReq[q].type]
    BY <1>3, <1>5 DEF F!Write, F!InTransaction, F!Saved
  <2>2. /\ rel[r] # F!NoRow /\ RowOk(r) /\ rel[r] \in Relation
        /\ fReq[q].type = "accepted" => F!Pair(r) \in unblocked
        /\ fReq[q].type # "accepted" => F!Pair(r) \in touched
    BY <1>1, <1>2, <1>3, <1>5 DEF RequestOk, TargetOk, FriendInv
  <2>3. /\ rel' \in [Relations -> Relation] /\ \A s \in Relations \ {r} : rel'[s] = rel[s]
        /\ rel'[r].type = fReq[q].type /\ rel'[r].profile = rel[r].profile
        /\ rel'[r].requester = rel[r].requester
    BY <1>2, <2>1 DEF Relation, FriendCalls
  <2>4. Moves
    BY <1>1, <2>2, <2>3 DEF Moves
  <2>5. F!Pair(r)' = F!Pair(r) /\ rel[r].profile \in User /\ rel[r].requester \in User
    BY <2>2, <2>3 DEF F!Pair, RowOk
  <2>6. RowOk(r)'
    BY <1>1, <2>2, <2>3, <2>5 DEF RowOk
  <2>7. \A s \in Relations : rel'[s] # rel[s] => RowOk(s)'
    BY <2>3, <2>6
  <2> QED BY <1>2, <2>1, <2>3, <2>4, <2>7, FriendStep
<1> QED BY <1>4, <1>5

\* The row of the other direction.
LEMMA FindReverseKeeps ==
    ASSUME F!FriendsAssumption, FriendInv, NEW q \in Request, F!FindReverse(q) PROVE FriendInv'
<1>1. fReq[q].pc = "reverse" /\ UNCHANGED <<rel, unblocked, touched>>
  BY DEF F!FindReverse
<1>2. /\ fReq[q] \in FriendCalls /\ RequestOk(fReq[q]) /\ fReq[q] # F!Idle
      /\ rel \in [Relations -> Relation] /\ "none" \notin User
  BY <1>1, RequestFacts DEF F!Idle
<1>3. PICK v \in FriendCalls : v = fReq[q]
  BY <1>2
<1>4. /\ v.accepts /\ v.type = "accepted" /\ v.profile \in User /\ v.requester \in User
      /\ Granted(v, Asked(v))
      /\ \A r \in v.wrote : rel[r] # F!NoRow /\ F!Pair(r) \in {Asked(v), Reverse(Asked(v))}
  BY <1>1, <1>2, <1>3 DEF RequestOk
<1>5. Moves
  BY <1>1 DEF Moves
<1>6. ASSUME NEW n \in FriendCalls, fReq' = [fReq EXCEPT ![q] = n], RequestOk(n) PROVE FriendInv'
  <2>1. RequestOk(n)'
    BY <1>5, <1>6, RequestStays
  <2> QED BY <1>1, <1>2, <1>5, <1>6, <2>1, FriendStep
<1>7. CASE fReq' = [fReq EXCEPT ![q].pc = "insert"]
  <2>1. PICK n : n = [v EXCEPT !.pc = "insert"]
    OBVIOUS
  <2>2. fReq' = [fReq EXCEPT ![q] = n]
    BY <1>3, <1>7, <2>1
  <2>3. /\ n \in FriendCalls /\ n.pc = "insert" /\ n.accepts /\ n.type = v.type
        /\ n.profile = v.profile /\ n.requester = v.requester /\ n.wrote = v.wrote
    BY <1>4, <2>1 DEF FriendCalls
  <2> HIDE <2>1
  <2>4. RequestOk(n)
    BY <1>4, <2>3 DEF RequestOk, Granted, Asked
  <2> QED BY <1>6, <2>2, <2>3, <2>4
<1>8. ASSUME NEW r \in F!Of(v.requester, v.profile),
             fReq' = [fReq EXCEPT ![q] = [v EXCEPT !.pc = "diff", !.row = r]]
      PROVE  FriendInv'
  <2>1. r \in Relations /\ F!Pair(r) = Reverse(Asked(v)) /\ rel[r] # F!NoRow
    BY <1>2, <1>4 DEF F!Of, F!Pair, Asked, Reverse, F!NoRow
  <2>2. PICK n : n = [v EXCEPT !.pc = "diff", !.row = r]
    OBVIOUS
  <2>3. fReq' = [fReq EXCEPT ![q] = n]
    BY <1>8, <2>2
  <2>4. /\ n \in FriendCalls /\ n.pc = "diff" /\ n.accepts /\ n.type = v.type /\ n.row = r
        /\ n.profile = v.profile /\ n.requester = v.requester /\ n.wrote = v.wrote
    BY <1>4, <2>1, <2>2 DEF FriendCalls
  <2> HIDE <2>2
  <2>5. Asked(n) = Asked(v) /\ Granted(n, Asked(n))
    BY <1>4, <2>4 DEF Granted, Asked
  <2>6. TargetOk(n)
    BY <2>1, <2>4, <2>5 DEF TargetOk
  <2>7. RequestOk(n)
    BY <1>4, <2>4, <2>5, <2>6 DEF RequestOk
  <2> QED BY <1>6, <2>3, <2>4, <2>7
<1>9. CASE fReq' = [fReq EXCEPT ![q] = F!Idle]
  BY <1>1, <1>9, DropCall
<1>10. \/ fReq' = [fReq EXCEPT ![q].pc = "insert"]
       \/ fReq' = [fReq EXCEPT ![q] = F!Idle]
       \/ \E r \in F!Of(v.requester, v.profile) :
             fReq' = [fReq EXCEPT ![q] = [v EXCEPT !.pc = "diff", !.row = r]]
  <2>1. CASE fReq' = [fReq EXCEPT ![q].pc = "insert"]
    BY <2>1
  <2>2. ASSUME NEW r \in F!Of(v.requester, v.profile),
               fReq' = [fReq EXCEPT ![q] = IF rel[r].type = "blocked" THEN F!Idle
                                           ELSE [@ EXCEPT !.pc = "diff", !.row = r]]
        PROVE  \/ fReq' = [fReq EXCEPT ![q] = F!Idle]
               \/ fReq' = [fReq EXCEPT ![q] = [v EXCEPT !.pc = "diff", !.row = r]]
    <3>1. CASE rel[r].type = "blocked"
      BY <2>2, <3>1
    <3>2. CASE rel[r].type # "blocked"
      BY <1>3, <2>2, <3>2
    <3> QED BY <3>1, <3>2
  <2> QED BY <1>3, <2>1, <2>2 DEF F!FindReverse
<1> QED BY <1>7, <1>8, <1>9, <1>10

\* What a committed transaction wrote is accepted, and so is what it was granted.
LEMMA Commits ==
    ASSUME F!FriendsAssumption, FriendInv, Moves, NEW v \in FriendCalls, RequestOk(v), v.accepts,
           \A r \in v.wrote : rel'[r].type = "accepted", NEW p, Granted(v, p)
    PROVE  Settled(p)'
<1>1. CASE Settled(p)
  BY <1>1, SettledStays
<1>2. ASSUME NEW r \in v.wrote, F!Pair(r) = p PROVE Settled(p)'
  <2>1. r \in Relations /\ v # F!Idle
    BY <1>2 DEF FriendCalls, F!Idle
  <2>2. rel[r] # F!NoRow
    BY <1>2, <2>1 DEF RequestOk
  <2>3. F!Pair(r)' = p
    BY <1>2, <2>1, <2>2, SettledStays
  <2> QED BY <1>2, <2>1, <2>3 DEF Settled
<1> QED BY <1>1, <1>2 DEF Granted

\* The rows a transaction wrote are as they should be when both directions are
\* settled.
LEMMA CommittedOk ==
    ASSUME F!FriendsAssumption, FriendInv, Moves, NEW v \in FriendCalls, RequestOk(v), v.accepts,
           NEW r \in v.wrote, rel'[r].type = "accepted",
           Settled(Asked(v))', Settled(Reverse(Asked(v)))'
    PROVE  RowOk(r)'
<1>1. r \in Relations /\ v # F!Idle
  BY DEF FriendCalls, F!Idle
<1>2. rel[r] # F!NoRow /\ F!Pair(r) \in {Asked(v), Reverse(Asked(v))} /\ RowOk(r)
  BY <1>1 DEF RequestOk, FriendInv
<1>3. F!Pair(r)' \in {Asked(v), Reverse(Asked(v))}
  BY <1>1, <1>2, SettledStays
<1>4. Reverse(Reverse(Asked(v))) = Asked(v)
  BY DEF Reverse, Asked
<1>5. Settled(Reverse(F!Pair(r)))'
  BY <1>3, <1>4 DEF Reverse
<1>6. rel'[r].profile \in User /\ rel'[r].requester \in User
  BY <1>1, <1>2 DEF RowOk, Moves
<1> QED BY <1>5, <1>6 DEF RowOk

\* An acceptance commits both of its rows.
LEMMA CommitKeeps ==
    ASSUME F!FriendsAssumption, FriendInv, NEW q \in Request, F!Commit(q) PROVE FriendInv'
<1>1. /\ fReq[q].pc = "commit" /\ fReq' = [fReq EXCEPT ![q] = F!Idle]
      /\ UNCHANGED <<unblocked, touched>>
      /\ rel' = [r \in Relations |-> IF r \in fReq[q].wrote
                                     THEN [rel[r] EXCEPT !.type = "accepted"] ELSE rel[r]]
  BY DEF F!Commit, F!Committed
<1>2. /\ fReq[q] \in FriendCalls /\ RequestOk(fReq[q]) /\ fReq[q] # F!Idle
      /\ rel \in [Relations -> Relation] /\ F!Idle \in FriendCalls /\ RequestOk(F!Idle)'
  BY <1>1, RequestFacts DEF F!Idle
<1>3. PICK v \in FriendCalls : v = fReq[q]
  BY <1>2
<1>4. v.accepts /\ RequestOk(v) /\ Granted(v, Asked(v)) /\ Granted(v, Reverse(Asked(v)))
  BY <1>1, <1>2, <1>3 DEF RequestOk
<1>5. /\ rel' \in [Relations -> Relation]
      /\ \A r \in v.wrote : /\ rel'[r].type = "accepted" /\ rel'[r].profile = rel[r].profile
                            /\ rel'[r].requester = rel[r].requester
      /\ \A r \in Relations \ v.wrote : rel'[r] = rel[r]
  <2>1. v.wrote \subseteq Relations
    BY DEF FriendCalls
  <2> QED BY <1>1, <1>2, <1>3, <2>1 DEF Relation, Types
<1>6. Moves
  BY <1>1, <1>5 DEF Moves
<1>7. Settled(Asked(v))' /\ Settled(Reverse(Asked(v)))'
  BY <1>4, <1>5, <1>6, Commits
<1>8. ASSUME NEW r \in Relations, rel'[r] # rel[r] PROVE RowOk(r)'
  <2>1. r \in v.wrote
    BY <1>5, <1>8
  <2> QED BY <1>4, <1>5, <1>6, <1>7, <2>1, CommittedOk
<1> QED BY <1>1, <1>2, <1>5, <1>6, <1>8, FriendStep

\* A row is inserted that was not found.
LEMMA InsertKeeps ==
    ASSUME F!FriendsAssumption, FriendInv, NEW q \in Request, F!Insert(q) PROVE FriendInv'
<1>1. /\ fReq[q].pc = "insert" /\ fReq' = [fReq EXCEPT ![q] = F!Idle]
      /\ UNCHANGED <<unblocked, touched>>
  BY DEF F!Insert
<1>2. /\ fReq[q] \in FriendCalls /\ RequestOk(fReq[q]) /\ fReq[q] # F!Idle
      /\ rel \in [Relations -> Relation] /\ F!Idle \in FriendCalls /\ RequestOk(F!Idle)'
  BY <1>1, RequestFacts DEF F!Idle
<1>3. PICK v \in FriendCalls : v = fReq[q]
  BY <1>2
<1>4. PICK new : new = [profile   |-> IF v.accepts THEN v.requester ELSE v.profile,
                        requester |-> IF v.accepts THEN v.profile ELSE v.requester,
                        type      |-> v.type]
  OBVIOUS
<1>5. PICK s \in Relations : rel[s] = F!NoRow /\ rel' = [F!Committed(q) EXCEPT ![s] = new]
  BY <1>3, <1>4 DEF F!Insert
<1>6. /\ v.profile \in User /\ v.requester \in User /\ v.wrote \subseteq Relations
      /\ \A r \in v.wrote : rel[r] # F!NoRow
      /\ v.accepts => v.type = "accepted" /\ Granted(v, Asked(v))
      /\ ~v.accepts => v.type = "request" /\ v.wrote = {}
  BY <1>1, <1>2, <1>3 DEF RequestOk, FriendCalls
<1>7. /\ new \in Relation /\ new.type = v.type
      /\ v.accepts => new.profile = v.requester /\ new.requester = v.profile
      /\ ~v.accepts => new.profile = v.profile /\ new.requester = v.requester
  <2>1. CASE v.accepts
    BY <1>4, <1>6, <2>1 DEF Relation, Types
  <2>2. CASE ~v.accepts
    BY <1>4, <1>6, <2>2 DEF Relation, Types
  <2> QED BY <2>1, <2>2
<1> HIDE <1>4
<1>8. /\ rel' \in [Relations -> Relation] /\ rel'[s] = new
      /\ \A r \in v.wrote : /\ rel'[r].type = "accepted" /\ rel'[r].profile = rel[r].profile
                            /\ rel'[r].requester = rel[r].requester
      /\ \A r \in Relations : r \notin v.wrote /\ r # s => rel'[r] = rel[r]
  <2>1. PICK f : f = F!Committed(q)
    OBVIOUS
  <2>2. /\ f \in [Relations -> Relation]
        /\ \A r \in v.wrote : /\ f[r].type = "accepted" /\ f[r].profile = rel[r].profile
                              /\ f[r].requester = rel[r].requester
        /\ \A r \in Relations \ v.wrote : f[r] = rel[r]
    BY <1>2, <1>3, <1>6, <2>1 DEF F!Committed, Relation, Types
  <2>3. s \notin v.wrote
    BY <1>5, <1>6
  <2> QED BY <1>5, <1>7, <2>1, <2>2, <2>3
<1>9. Moves
  BY <1>1, <1>5, <1>8 DEF Moves
<1>10. ASSUME v.accepts PROVE Settled(Asked(v))' /\ Settled(Reverse(Asked(v)))'
  <2>1. Settled(Asked(v))'
    BY <1>2, <1>3, <1>6, <1>8, <1>9, <1>10, Commits
  <2>2. F!Pair(s)' = Reverse(Asked(v)) /\ rel'[s].type = "accepted"
    BY <1>6, <1>7, <1>8, <1>10 DEF F!Pair, Reverse, Asked
  <2> QED BY <2>1, <2>2 DEF Settled
<1>11. RowOk(s)'
  <2>1. rel'[s].profile \in User /\ rel'[s].requester \in User
    BY <1>6, <1>7, <1>8
  <2>2. CASE v.accepts
    <3>1. F!Pair(s)' = Reverse(Asked(v)) /\ Reverse(Reverse(Asked(v))) = Asked(v)
      BY <1>7, <1>8, <2>2 DEF F!Pair, Reverse, Asked
    <3>2. Settled(Reverse(F!Pair(s)))'
      BY <1>10, <2>2, <3>1 DEF Reverse
    <3> QED BY <1>6, <1>7, <1>8, <2>1, <2>2, <3>2 DEF RowOk
  <2>3. CASE ~v.accepts
    BY <1>6, <1>7, <1>8, <2>1, <2>3 DEF RowOk
  <2> QED BY <2>2, <2>3
<1>12. ASSUME NEW r \in Relations, rel'[r] # rel[r] PROVE RowOk(r)'
  <2>1. CASE r = s
    BY <1>11, <2>1
  <2>2. CASE r # s
    <3>1. r \in v.wrote /\ v.accepts
      BY <1>6, <1>8, <1>12, <2>2
    <3> QED BY <1>2, <1>3, <1>8, <1>9, <1>10, <3>1, CommittedOk
  <2> QED BY <2>1, <2>2
<1> QED BY <1>1, <1>2, <1>8, <1>9, <1>12, FriendStep

\* Every step of the component keeps it.
LEMMA FriendKeeps == ASSUME F!FriendsAssumption, FriendInv, F!Next PROVE FriendInv'
<1>1. PICK q \in Request :
         \/ \E me, other \in User : F!Ask(q, me, other)
         \/ \E r \in Relations :
               F!Accept(q, r) \/ F!Ignore(q, r) \/ F!Block(q, r) \/ F!Unblock(q, r)
         \/ F!DiffNone(q) \/ F!Diff(q) \/ F!Write(q) \/ F!Deadlock(q) \/ F!FindReverse(q)
         \/ F!Commit(q) \/ F!Insert(q) \/ F!Break(q)
  BY DEF F!Next
<1>2. {"request", "accepted", "ignored", "blocked"} \subseteq Types
  BY DEF Types
<1>3. ASSUME NEW me \in User, NEW other \in User, F!Ask(q, me, other) PROVE FriendInv'
  <2>1. UNCHANGED <<rel, unblocked, touched>>
    BY <1>3 DEF F!Ask
  <2>2. ASSUME NEW r \in F!Of(other, me), rel[r].type = "ignored",
               F!Save(q, FALSE, r, "request")
        PROVE  FriendInv'
    <3>1. r \in Relations /\ RowOk(r)
      BY <2>2 DEF F!Of, FriendInv
    <3>2. F!Pair(r) \in touched
      BY <2>2, <3>1 DEF RowOk
    <3> QED BY <1>2, <2>1, <2>2, <3>1, <3>2, SaveCall
  <2> QED BY <1>3, <2>1, <2>2, AskNew DEF F!Ask
<1>4. ASSUME NEW r \in Relations, F!Accept(q, r) PROVE FriendInv'
  <2>1. F!Save(q, TRUE, r, "accepted") /\ UNCHANGED <<rel, unblocked, touched>>
    BY <1>4 DEF F!Accept
  <2> QED BY <1>2, <2>1, SaveCall
<1>5. ASSUME NEW r \in Relations, F!Ignore(q, r) PROVE FriendInv'
  <2>1. /\ F!Save(q, FALSE, r, "ignored") /\ UNCHANGED <<rel, unblocked>>
        /\ touched' = touched \cup {F!Pair(r)}
    BY <1>5 DEF F!Ignore
  <2> QED BY <1>2, <2>1, SaveCall
<1>6. ASSUME NEW r \in Relations, F!Block(q, r) PROVE FriendInv'
  <2>1. /\ F!Save(q, FALSE, r, "blocked") /\ UNCHANGED <<rel, unblocked>>
        /\ touched' = touched \cup {F!Pair(r)}
    BY <1>6 DEF F!Block
  <2> QED BY <1>2, <2>1, SaveCall
<1>7. ASSUME NEW r \in Relations, F!Unblock(q, r) PROVE FriendInv'
  <2>1. /\ F!Save(q, FALSE, r, "accepted") /\ UNCHANGED <<rel, touched>>
        /\ unblocked' = unblocked \cup {F!Pair(r)}
    BY <1>7 DEF F!Unblock
  <2> QED BY <1>2, <2>1, SaveCall
<1>8. CASE F!Diff(q)
  BY <1>8, WriteNext DEF F!Diff
<1>9. CASE F!Deadlock(q) \/ F!Break(q)
  BY <1>9, DropCall DEF F!Deadlock, F!Break
<1> QED BY <1>1, <1>3, <1>4, <1>5, <1>6, <1>7, <1>8, <1>9, DiffNoneKeeps, WriteKeeps,
           FindReverseKeeps, CommitKeeps, InsertKeeps

\* Every step of the composite keeps it.
LEMMA FriendInvariance == Spec => []FriendInv
<1>1. F!FriendsAssumption
  BY AgreementAssumption
<1>2. Init => FriendInv
  BY InitFriendInv DEF Init
<1>3. FriendInv /\ [Next]_vars => FriendInv'
  <2>1. SUFFICES ASSUME FriendInv, [Next]_vars PROVE FriendInv'
    OBVIOUS
  <2>2. CASE F!Next
    BY <1>1, <2>1, <2>2, FriendKeeps
  <2>3. CASE UNCHANGED friends
    <3>1. UNCHANGED <<rel, fReq, unblocked, touched>> /\ Moves
      BY <2>3 DEF friends, Moves
    <3>2. FriendTypes' /\ \A q \in Request : fReq'[q] = fReq[q] /\ fReq[q] \in FriendCalls
      BY <2>1, <3>1 DEF FriendInv, FriendTypes
    <3>3. ASSUME NEW q \in Request PROVE RequestOk(fReq[q])'
      BY <1>1, <2>1, <3>1, <3>2, RequestStays DEF FriendInv
    <3>4. ASSUME NEW r \in Relations PROVE RowOk(r)'
      <4>1. RowOk(r)
        BY <2>1 DEF FriendInv
      <4> QED BY <3>1, <4>1 DEF RowOk, Settled, F!Pair, Reverse
    <3> QED BY <3>2, <3>3, <3>4 DEF FriendInv
  <2> QED BY <2>1, <2>2, <2>3 DEF Next, vars
<1> QED BY <1>2, <1>3, PTL DEF Spec

\* Friendship goes both ways, for any number of users, rows and requests, however
\* acceptances overlap, wait for each other and break off (accept, with its
\* transaction), unless somebody ignored, blocked or unblocked.
THEOREM FriendsAreMutual == Spec => []FriendsBothWays
<1>1. ASSUME FriendInv, NEW r \in Relations, rel[r].type = "accepted",
             F!Pair(r) \notin unblocked
      PROVE  \/ <<rel[r].requester, rel[r].profile>> \in touched
             \/ \E s \in F!Of(rel[r].requester, rel[r].profile) : rel[s].type = "accepted"
  <2>1. Reverse(F!Pair(r)) = <<rel[r].requester, rel[r].profile>>
    BY DEF Reverse, F!Pair
  <2>2. Settled(Reverse(F!Pair(r)))
    BY <1>1 DEF FriendInv, RowOk
  <2>3. ASSUME NEW s \in Relations, F!Pair(s) = <<rel[r].requester, rel[r].profile>>
        PROVE  s \in F!Of(rel[r].requester, rel[r].profile)
    BY <2>3 DEF F!Pair, F!Of
  <2> QED BY <2>1, <2>2, <2>3 DEF Settled
<1>2. FriendInv => FriendsBothWays
  BY <1>1 DEF FriendsBothWays, F!FriendsBothWays
<1> QED BY <1>2, FriendInvariance, PTL

-----------------------------------------------------------------------------
(* The types of accounts and relations.                                     *)

\* The account of the administrator and the instances are well formed throughout.
LEMMA SystemIsTyped == Spec => []Y!TypeOK
<1>1. SysInv => Y!TypeOK
  BY DEF SysInv
<1> QED BY <1>1, SysInvariance, PTL

\* Accounts, codes and requests are well formed throughout every behaviour: no more
\* codes are mailed than the requests that wait for one allow.
LEMMA AccountsAreTyped == Spec => []E!TypeOK
<1>1. E!SignUpAssumption
  BY AgreementAssumption
<1>2. ASSUME SignInv PROVE E!TypeOK
  <2>1. AccountTypes /\ MaxMails \in Nat
    BY <1>1, <1>2 DEF SignInv, E!SignUpAssumption
  <2>2. ASSUME NEW e \in Email PROVE mails[e] \in 0 .. MaxMails
    <3>1. Waiting(e) \subseteq Visitor
      BY DEF Waiting, E!At
    <3>2. Cardinality(Waiting(e)) \in Nat
      BY <1>1, <3>1, FiniteVisitors, FS_Subset, FS_CardinalityType
    <3>3. mails[e] \in Nat /\ mails[e] + Cardinality(Waiting(e)) <= MaxMails
      BY <1>2, <2>1 DEF SignInv, AccountTypes, AddressOk
    <3> QED BY <2>1, <3>2, <3>3
  <2>3. mails \in [Email -> 0 .. MaxMails]
    BY <2>1, <2>2 DEF AccountTypes
  <2>4. eReq \in [Visitor -> [pc : {"idle", "find", "look", "profile", "user", "mail",
                                    "mail in vain", "obtain", "insert"},
                              op : {"verify", "signUp"}, email : Email \cup {"none"},
                              code : 0 .. MaxMails]]
    <3>1. ASSUME NEW q \in Visitor PROVE eReq[q].code \in 0 .. MaxMails /\ eReq[q] \in Visits
      <4>1. eReq[q] \in Visits /\ eReq[q].code <= MaxMails
        BY <1>2 DEF SignInv, AccountTypes, VisitOk
      <4>2. eReq[q].code \in Nat
        BY <4>1 DEF Visits
      <4> QED BY <2>1, <4>1, <4>2
    <3>2. eReq = [q \in Visitor |-> eReq[q]]
      BY <2>1 DEF AccountTypes
    <3> QED BY <3>1, <3>2 DEF Visits
  <2> QED BY <2>1, <2>3, <2>4 DEF E!TypeOK, AccountTypes
<1> QED BY <1>2, SignInvariance, PTL

\* Who was unblocked, ignored or blocked is two users.
FriendBounds ==
    unblocked \subseteq F!Pairs /\ touched \subseteq F!Pairs /\ fFails \in 0 .. MaxFail

\* Relations and requests are well formed throughout every behaviour.
LEMMA FriendsAreTyped == Spec => []F!TypeOK
<1>1. F!FriendsAssumption /\ MaxFail \in Nat
  BY AgreementAssumption DEF F!FriendsAssumption
<1>2. Init => FriendBounds
  BY <1>1 DEF Init, F!Init, FriendBounds
<1>3. FriendInv /\ FriendBounds /\ [Next]_vars => FriendBounds'
  <2> SUFFICES ASSUME FriendInv, FriendBounds, [Next]_vars PROVE FriendBounds'
    OBVIOUS
  <2>1. \A r \in Relations : rel[r] # F!NoRow => F!Pair(r) \in F!Pairs
    BY DEF FriendInv, RowOk, F!Pair, F!Pairs
  <2>2. ASSUME NEW q \in Request, NEW r \in Relations,
               F!Accept(q, r) \/ F!Ignore(q, r) \/ F!Block(q, r) \/ F!Unblock(q, r)
        PROVE  FriendBounds'
    <3>1. /\ F!Pair(r) \in F!Pairs /\ fFails' = fFails
          /\ unblocked' \subseteq unblocked \cup {F!Pair(r)}
          /\ touched' \subseteq touched \cup {F!Pair(r)}
      BY <2>1, <2>2 DEF F!Accept, F!Ignore, F!Block, F!Unblock, F!Save
    <3> QED BY <3>1 DEF FriendBounds, F!Pairs
  <2>3. ASSUME UNCHANGED <<unblocked, touched>>, fFails' \in 0 .. MaxFail
        PROVE  FriendBounds'
    BY <2>3 DEF FriendBounds, F!Pairs
  <2>4. ASSUME NEW q \in Request,
               \/ \E me, other \in User : F!Ask(q, me, other)
               \/ F!DiffNone(q) \/ F!Diff(q) \/ F!Write(q) \/ F!Deadlock(q)
               \/ F!FindReverse(q) \/ F!Commit(q) \/ F!Insert(q)
        PROVE  FriendBounds'
    <3>1. UNCHANGED <<unblocked, touched, fFails>>
      BY <2>4 DEF F!Ask, F!DiffNone, F!Diff, F!Write, F!Deadlock, F!FindReverse, F!Commit,
                  F!Insert
    <3> QED BY <2>3, <3>1 DEF FriendBounds
  <2>5. ASSUME NEW q \in Request, F!Break(q) PROVE FriendBounds'
    BY <1>1, <2>3, <2>5 DEF F!Break, FriendBounds
  <2>6. CASE UNCHANGED friends
    BY <2>3, <2>6 DEF friends, FriendBounds
  <2>7. F!Next \/ UNCHANGED friends
    BY DEF Next, vars
  <2> QED BY <2>2, <2>4, <2>5, <2>6, <2>7 DEF F!Next
<1>4. FriendInv /\ FriendBounds => F!TypeOK
  BY DEF F!TypeOK, FriendInv, FriendTypes, FriendBounds, Relation, FriendCalls, Types, F!Names
<1> QED BY <1>2, <1>3, <1>4, FriendInvariance, PTL DEF Spec
=============================================================================
