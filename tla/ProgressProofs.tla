--------------------------- MODULE ProgressProofs ---------------------------
(***************************************************************************)
(* Proofs about the start of instances and about uploads, as the parts of  *)
(* module Progress.                                                        *)
(***************************************************************************)
EXTENDS Progress, Sequences, FiniteSets, FiniteSetTheorems, WellFoundedInduction, TLAPS

-----------------------------------------------------------------------------
(* The start of instances (Startup). *)

Nodes ==
    [pc : S!SyncPc \cup {"down", "wait", "init", "listen", "up"}, age : Nat,
     from : BOOLEAN, to : BOOLEAN]

StartTypes ==
    /\ sConfig \in Starts
    /\ sLock.by \in Instance \cup {"none"} /\ sLock.left \in Nat
    /\ sLock.by = "none" <=> sLock = S!NoLock
    /\ sLock = [by |-> sLock.by, left |-> sLock.left]
    /\ sOld \in BOOLEAN /\ sNew \in {"absent", "empty", "full"} /\ sVersion \in 0 .. 1
    /\ sNode \in [Instance -> Nodes]

\* Who synchronises has the lock, or has been at it for as long as it lasts.
Syncs(i) ==
    \/ sNode[i].age >= 3
    \/ sLock.by = i /\ sLock.left = S!SyncTtl - S!Minute * sNode[i].age

\* How far the schema is where an instance is: what it saw of the tables when it
\* looked says too little, never too much.
SchemaAt(v) ==
    /\ v.pc \notin S!SyncPc => v.age = 0
    /\ v.pc = "rename" => (v.to => sNew # "absent") /\ (~v.from => ~sOld)
    /\ v.pc = "create" => ~sOld
    /\ v.pc \in {"check", "migrate", "update", "unlock"} => sNew # "absent"
    /\ v.pc = "unlock" => sVersion = 1
    /\ sConfig.sync /\ v.pc \in {"init", "listen", "up"} => sNew # "absent" /\ sVersion = 1

\* The inductive invariant.
StartInv ==
    /\ StartTypes
    /\ ~(sOld /\ sNew # "absent")
    /\ \A i \in Instance : SchemaAt(sNode[i])
    /\ sConfig.redis => \A i \in S!Syncing : Syncs(i)

\* The lock lasts for three minutes, in milliseconds.
LEMMA Times ==
    /\ S!Minute \in Nat /\ S!Minute * 0 = 0 /\ S!SyncTtl \in Nat
    /\ S!SyncTtl = 3 * S!Minute
BY SMT DEF S!Minute, S!SyncTtl

\* It holds in the beginning.
LEMMA InitStartInv == ASSUME S!StartupAssumption, S!Init PROVE StartInv
<1> USE DEF S!Init, S!StartupAssumption
<1>1. S!Down \in Nodes /\ SchemaAt(S!Down) /\ S!Down.pc = "down"
  BY DEF S!Down, Nodes, SchemaAt, S!SyncPc
<1>2. S!Syncing = {}
  BY <1>1 DEF S!Syncing, S!SyncPc
<1>3. StartTypes
  BY <1>1 DEF StartTypes, S!NoLock
<1> QED BY <1>1, <1>2, <1>3 DEF StartInv

\* A step of an instance, which may give back its own lock or take a free one,
\* and only brings the schema on.
LEMMA NodeStep ==
    ASSUME S!StartupAssumption, StartInv, NEW i \in Instance, NEW n \in Nodes,
           sNode' = [sNode EXCEPT ![i] = n], sConfig' = sConfig,
           \/ sLock' = sLock
           \/ sLock' = S!Released(sLock, i)
           \/ sLock = S!NoLock /\ sLock' = S!Taken(i, S!SyncTtl),
           sOld' \in BOOLEAN, sNew' \in {"absent", "empty", "full"}, sVersion' \in 0 .. 1,
           sOld' => sOld, sNew # "absent" => sNew' # "absent", sVersion' >= sVersion,
           ~(sOld' /\ sNew' # "absent"),
           SchemaAt(n)', n.pc \in S!SyncPc => n.age = sNode[i].age,
           n.pc \in S!SyncPc /\ sConfig.redis =>
              \/ sNode[i].pc \in S!SyncPc /\ sLock' = sLock
              \/ sNode[i].age = 0 /\ sLock' = S!Taken(i, S!SyncTtl)
    PROVE  StartInv'
<1>1. StartTypes /\ i # "none" /\ sNode[i] \in Nodes
  BY DEF StartInv, StartTypes, S!StartupAssumption
<1>2. sNode'[i] = n /\ \A j \in Instance \ {i} : sNode'[j] = sNode[j]
  BY <1>1 DEF StartTypes
<1>3. /\ sLock'.by \in Instance \cup {"none"} /\ sLock'.left \in Nat
      /\ sLock'.by = "none" <=> sLock' = S!NoLock
      /\ sLock' = [by |-> sLock'.by, left |-> sLock'.left]
  <2>1. CASE sLock' = sLock
    BY <1>1, <2>1 DEF StartTypes
  <2>2. CASE sLock' = S!NoLock
    BY <2>2 DEF S!NoLock
  <2>3. CASE sLock' = S!Taken(i, S!SyncTtl)
    BY <1>1, <2>3, Times DEF S!Taken, S!NoLock
  <2> QED BY <2>1, <2>2, <2>3 DEF S!Released
<1>4. StartTypes'
  BY <1>1, <1>3 DEF StartTypes
<1>5. ASSUME NEW j \in Instance PROVE SchemaAt(sNode[j])'
  <2>1. CASE j = i
    BY <1>2, <2>1
  <2>2. CASE j # i
    <3>1. SchemaAt(sNode[j]) /\ sNode'[j] = sNode[j]
      BY <1>2, <2>2 DEF StartInv
    <3>2. sVersion = 1 => sVersion' = 1
      OBVIOUS
    <3> QED BY <3>1, <3>2 DEF SchemaAt
  <2> QED BY <2>1, <2>2
<1>6. ASSUME sConfig'.redis, NEW j \in S!Syncing' PROVE Syncs(j)'
  <2>1. CASE j = i
    <3>1. n.pc \in S!SyncPc /\ n.age = sNode[i].age
      BY <1>2, <1>6, <2>1 DEF S!Syncing
    <3>2. CASE sNode[i].pc \in S!SyncPc /\ sLock' = sLock
      <4>1. Syncs(i)
        BY <1>6, <3>2 DEF StartInv, S!Syncing
      <4> QED BY <1>2, <2>1, <3>1, <3>2, <4>1 DEF Syncs
    <3>3. CASE sNode[i].age = 0 /\ sLock' = S!Taken(i, S!SyncTtl)
      <4>1. sLock'.by = i /\ sLock'.left = S!SyncTtl /\ sNode'[i].age = 0
        BY <1>2, <3>1, <3>3 DEF S!Taken
      <4> QED BY <2>1, <4>1, Times DEF Syncs
    <3> QED BY <1>6, <3>1, <3>2, <3>3
  <2>2. CASE j # i
    <3>1. j \in S!Syncing /\ sNode'[j] = sNode[j] /\ j # "none"
      BY <1>2, <1>6, <2>2 DEF S!Syncing, S!StartupAssumption
    <3>2. Syncs(j)
      BY <1>6, <3>1 DEF StartInv
    <3>3. sLock.by = j => sLock' = sLock
      BY <2>2, <3>1 DEF S!Released, S!NoLock
    <3> QED BY <3>1, <3>2, <3>3 DEF Syncs
  <2> QED BY <2>1, <2>2
<1> QED BY <1>4, <1>5, <1>6 DEF StartInv

\* An instance that goes on is at another point, and otherwise as it was.
LEMMA NodeGoes ==
    ASSUME sNode \in [Instance -> Nodes], NEW i \in Instance,
           NEW pc \in S!SyncPc \cup {"wait", "init", "listen", "up"}, S!Goto(i, pc)
    PROVE  \E n \in Nodes : /\ n.pc = pc /\ n.age = sNode[i].age
                            /\ sNode' = [sNode EXCEPT ![i] = n]
<1> PICK v \in Nodes : v = sNode[i]
  OBVIOUS
<1> DEFINE n == [v EXCEPT !.pc = pc]
<1>1. n \in Nodes /\ n.pc = pc /\ n.age = v.age
  BY DEF Nodes
<1>2. sNode' = [sNode EXCEPT ![i] = n]
  BY DEF S!Goto
<1> QED BY <1>1, <1>2

\* An instance goes on at another point, and brings the schema there.
LEMMA NodeMoves ==
    ASSUME S!StartupAssumption, StartInv, NEW i \in Instance,
           NEW pc \in S!SyncPc \cup {"wait", "init", "listen", "up"},
           pc # "rename",
           S!Goto(i, pc), sConfig' = sConfig,
           \/ sLock' = sLock
           \/ sLock = S!NoLock /\ sLock' = S!Taken(i, S!SyncTtl),
           sOld' \in BOOLEAN, sNew' \in {"absent", "empty", "full"}, sVersion' \in 0 .. 1,
           sOld' => sOld, sNew # "absent" => sNew' # "absent", sVersion' >= sVersion,
           ~(sOld' /\ sNew' # "absent"),
           pc = "create" => ~sOld',
           pc \in {"check", "migrate", "update", "unlock"} => sNew' # "absent",
           pc = "unlock" => sVersion' = 1,
           sConfig.sync /\ pc \in {"init", "listen", "up"} => sNew' # "absent" /\ sVersion' = 1,
           pc \notin S!SyncPc => sNode[i].age = 0,
           pc \in S!SyncPc /\ sConfig.redis =>
              \/ sNode[i].pc \in S!SyncPc /\ sLock' = sLock
              \/ sNode[i].age = 0 /\ sLock' = S!Taken(i, S!SyncTtl)
    PROVE  StartInv'
<1>1. PICK n \in Nodes : /\ n.pc = pc /\ n.age = sNode[i].age
                        /\ sNode' = [sNode EXCEPT ![i] = n]
  <2>1. sNode \in [Instance -> Nodes]
    BY DEF StartInv, StartTypes
  <2> QED BY <2>1, NodeGoes
<1>2. SchemaAt(n)'
  BY <1>1 DEF SchemaAt
<1> QED BY <1>1, <1>2, NodeStep

\* What holds of an instance that goes on.
LEMMA NodeFacts ==
    ASSUME S!StartupAssumption, StartInv, NEW i \in Instance
    PROVE  /\ sOld \in BOOLEAN /\ sNew \in {"absent", "empty", "full"} /\ sVersion \in 0 .. 1
           /\ ~(sOld /\ sNew # "absent") /\ SchemaAt(sNode[i]) /\ sNode[i] \in Nodes
BY DEF StartInv, StartTypes, S!StartupAssumption

\* Before and after the synchronisation.
LEMMA OutsideSync ==
    ASSUME S!StartupAssumption, StartInv, NEW i \in Instance,
           \/ S!Preload(i) \/ S!SyncAlone(i) \/ S!TakeLock(i) \/ S!OnInit(i) \/ S!Listen(i)
    PROVE  StartInv'
<1>0. /\ sOld \in BOOLEAN /\ sNew \in {"absent", "empty", "full"} /\ sVersion \in 0 .. 1
      /\ ~(sOld /\ sNew # "absent") /\ SchemaAt(sNode[i]) /\ sNode[i] \in Nodes
  BY NodeFacts
<1>1. UNCHANGED <<sConfig, sOld, sNew, sVersion>>
  BY DEF S!Preload, S!SyncAlone, S!TakeLock, S!OnInit, S!Listen, S!schema
<1>2. sNode[i].age = 0
  <2>1. sNode[i].pc \in {"down", "wait", "init", "listen"}
    BY DEF S!Preload, S!SyncAlone, S!TakeLock, S!OnInit, S!Listen
  <2> QED BY <1>0, <2>1 DEF SchemaAt, S!SyncPc
<1>3. \E pc \in {"wait", "look", "init", "listen", "up"} :
         /\ S!Goto(i, pc)
         /\ sLock' = sLock \/ (sLock = S!NoLock /\ sLock' = S!Taken(i, S!SyncTtl))
         /\ pc = "look" /\ sConfig.redis => sLock' = S!Taken(i, S!SyncTtl)
         /\ sConfig.sync /\ pc \in {"init", "listen", "up"} => sNew # "absent" /\ sVersion = 1
  <2>1. CASE S!Preload(i)
    <3>1. /\ S!Goto(i, IF sConfig.sync THEN "wait" ELSE "init")
          /\ sLock' = sLock
      BY <2>1 DEF S!Preload
    <3>2. CASE sConfig.sync
      BY <3>1, <3>2
    <3>3. CASE ~sConfig.sync
      BY <3>1, <3>3
    <3> QED BY <3>2, <3>3
  <2>2. CASE S!SyncAlone(i)
    <3>1. /\ S!Goto(i, "look") /\ sLock' = sLock
          /\ ~sConfig.redis
      BY <2>2 DEF S!SyncAlone
    <3> QED BY <3>1
  <2>3. CASE S!TakeLock(i)
    <3>1. sLock = S!NoLock /\ sLock' = S!Taken(i, S!SyncTtl)
          /\ S!Goto(i, "look")
      BY <2>3 DEF S!TakeLock, S!Free
    <3> QED BY <3>1
  <2>4. CASE S!OnInit(i)
    <3>1. /\ S!Goto(i, "listen") /\ sLock' = sLock
          /\ sConfig.sync => sNew # "absent" /\ sVersion = 1
      BY <1>0, <2>4 DEF S!OnInit, SchemaAt
    <3> QED BY <3>1
  <2>5. CASE S!Listen(i)
    <3>1. /\ S!Goto(i, "up") /\ sLock' = sLock
          /\ sConfig.sync => sNew # "absent" /\ sVersion = 1
      BY <1>0, <2>5 DEF S!Listen, SchemaAt
    <3> QED BY <3>1
  <2> QED BY <2>1, <2>2, <2>3, <2>4, <2>5
<1>4. PICK pc \in {"wait", "look", "init", "listen", "up"} :
         /\ S!Goto(i, pc)
         /\ sLock' = sLock \/ (sLock = S!NoLock /\ sLock' = S!Taken(i, S!SyncTtl))
         /\ pc = "look" /\ sConfig.redis => sLock' = S!Taken(i, S!SyncTtl)
         /\ sConfig.sync /\ pc \in {"init", "listen", "up"} => sNew # "absent" /\ sVersion = 1
  BY <1>3
<1>5. /\ pc \in S!SyncPc \cup {"wait", "init", "listen", "up"}
      /\ pc \notin {"rename", "create", "check", "migrate", "update", "unlock"}
      /\ pc \in S!SyncPc => pc = "look"
  BY DEF S!SyncPc
<1>6. sVersion' >= sVersion /\ (pc = "unlock" => sVersion' = 1)
  BY <1>0, <1>1, <1>5
<1> QED BY <1>0, <1>1, <1>2, <1>4, <1>5, <1>6, NodeMoves

\* The tables are looked at.
LEMMA LookNode ==
    ASSUME S!StartupAssumption, StartInv, NEW i \in Instance, S!LookTables(i)
    PROVE  StartInv'
<1>0. /\ sOld \in BOOLEAN /\ sNew \in {"absent", "empty", "full"} /\ sVersion \in 0 .. 1
      /\ ~(sOld /\ sNew # "absent") /\ SchemaAt(sNode[i]) /\ sNode[i] \in Nodes
  BY NodeFacts
<1>1. /\ UNCHANGED <<sConfig, sLock, sOld, sNew, sVersion>> /\ sNode[i].pc = "look"
      /\ sNode \in [Instance -> Nodes]
  BY DEF S!LookTables, S!schema, StartInv, StartTypes
<1>2. PICK n \in Nodes : /\ n.pc = "rename" /\ n.age = sNode[i].age /\ n.from = sOld
                         /\ n.to = (sNew # "absent")
                         /\ sNode' = [sNode EXCEPT ![i] = n]
  <2> PICK v \in Nodes : v = sNode[i]
    BY <1>0
  <2> PICK t \in BOOLEAN : t = (sNew # "absent")
    OBVIOUS
  <2> PICK f \in BOOLEAN : f = sOld
    BY <1>0
  <2> DEFINE n == [v EXCEPT !.pc = "rename", !.from = f, !.to = t]
  <2>1. n \in Nodes /\ n.pc = "rename" /\ n.age = v.age /\ n.from = f /\ n.to = t
    BY DEF Nodes, S!SyncPc
  <2>2. sNode' = [sNode EXCEPT ![i] = n]
    BY <1>1 DEF S!LookTables
  <2> HIDE DEF n
  <2> QED BY <2>1, <2>2
<1>4. SchemaAt(n)'
  BY <1>0, <1>1, <1>2 DEF SchemaAt, S!SyncPc
<1>5. n.pc \in S!SyncPc /\ sNode[i].pc \in S!SyncPc
  BY <1>1, <1>2 DEF S!SyncPc
<1>6. /\ sOld' \in BOOLEAN /\ sNew' \in {"absent", "empty", "full"} /\ sVersion' \in 0 .. 1
      /\ sOld' => sOld
      /\ sNew # "absent" => sNew' # "absent"
      /\ sVersion' >= sVersion
      /\ ~(sOld' /\ sNew' # "absent")
      /\ sConfig' = sConfig /\ sLock' = sLock
  BY <1>0, <1>1
<1>7. /\ n.pc \in S!SyncPc => n.age = sNode[i].age
      /\ n.pc \in S!SyncPc /\ sConfig.redis =>
            \/ sNode[i].pc \in S!SyncPc /\ sLock' = sLock
            \/ sNode[i].age = 0 /\ sLock' = S!Taken(i, S!SyncTtl)
      /\ sNode' = [sNode EXCEPT ![i] = n] /\ n \in Nodes
  BY <1>2, <1>5, <1>6
<1> QED BY <1>4, <1>6, <1>7, NodeStep

\* The tables are renamed and created, and the migrations run.
LEMMA InsideSync ==
    ASSUME S!StartupAssumption, StartInv, NEW i \in Instance,
           \/ S!Rename(i) \/ S!Synchronize(i) \/ S!CheckVersion(i) \/ S!Migrate(i)
           \/ S!UpdateVersion(i)
    PROVE  StartInv'
<1>0. /\ sOld \in BOOLEAN /\ sNew \in {"absent", "empty", "full"} /\ sVersion \in 0 .. 1
      /\ ~(sOld /\ sNew # "absent") /\ SchemaAt(sNode[i]) /\ sNode[i] \in Nodes
  BY NodeFacts
<1>1. UNCHANGED <<sConfig, sLock>> /\ sNode[i].pc \in S!SyncPc
  BY DEF S!Rename, S!Synchronize, S!CheckVersion, S!Migrate, S!UpdateVersion, S!SyncPc,
         S!schema
<1>2. \E pc \in {"create", "check", "migrate", "update", "unlock"} :
         /\ S!Goto(i, pc)
         /\ sOld' \in BOOLEAN /\ sNew' \in {"absent", "empty", "full"}
         /\ sVersion' \in 0 .. 1
         /\ sOld' => sOld
         /\ sNew # "absent" => sNew' # "absent"
         /\ sVersion' >= sVersion
         /\ ~(sOld' /\ sNew' # "absent")
         /\ pc = "create" => ~sOld'
         /\ pc \in {"check", "migrate", "update", "unlock"} => sNew' # "absent"
         /\ pc = "unlock" => sVersion' = 1
  <2>1. CASE S!Rename(i)
    <3>1. S!Goto(i, "create") /\ sVersion' = sVersion
          /\ sNode[i].pc = "rename"
      BY <2>1 DEF S!Rename
    <3>2. \/ (sNode[i].to \/ ~sNode[i].from) /\ sOld' = sOld /\ sNew' = sNew
          \/ sOld' = FALSE /\ sNew' = "full"
      BY <2>1 DEF S!Rename
    <3>3. sNode[i].to \/ ~sNode[i].from => ~sOld
      BY <1>0, <3>1 DEF SchemaAt
    <3>4. ~sOld' /\ sOld' \in BOOLEAN
      <4>1. CASE sOld' = FALSE
        BY <4>1
      <4>2. CASE sOld' = sOld /\ ~sOld
        BY <1>0, <4>2
      <4> QED BY <3>2, <3>3, <4>1, <4>2
    <3>5. sNew' \in {"absent", "empty", "full"} /\ (sNew # "absent" => sNew' # "absent")
      BY <1>0, <3>2
    <3> QED BY <1>0, <3>1, <3>4, <3>5
  <2>2. CASE S!Synchronize(i)
    <3>1. S!Goto(i, "check") /\ sVersion' = sVersion
          /\ sOld' = sOld /\ sNew' \in {"empty", "full"} /\ ~sOld
      BY <1>0, <2>2 DEF S!Synchronize, SchemaAt
    <3> QED BY <1>0, <3>1
  <2>3. CASE S!CheckVersion(i)
    <3>1. /\ UNCHANGED <<sOld, sNew, sVersion>> /\ sNew # "absent"
          /\ S!Goto(i, IF sVersion < 1 THEN "migrate" ELSE "unlock")
      BY <1>0, <2>3 DEF S!CheckVersion, S!Migration, S!schema, SchemaAt
    <3>2. CASE sVersion < 1
      BY <1>0, <3>1, <3>2
    <3>3. CASE ~(sVersion < 1)
      BY <1>0, <3>1, <3>3
    <3> QED BY <3>2, <3>3
  <2>4. CASE S!Migrate(i)
    <3>1. /\ UNCHANGED <<sOld, sNew, sVersion>> /\ sNew # "absent"
          /\ S!Goto(i, "update")
      BY <1>0, <2>4 DEF S!Migrate, S!schema, SchemaAt
    <3> QED BY <1>0, <3>1
  <2>5. CASE S!UpdateVersion(i)
    <3>1. /\ UNCHANGED <<sOld, sNew>> /\ sVersion' = 1 /\ sNew # "absent"
          /\ S!Goto(i, "unlock")
      BY <1>0, <2>5 DEF S!UpdateVersion, S!Migration, SchemaAt
    <3> QED BY <1>0, <3>1
  <2> QED BY <2>1, <2>2, <2>3, <2>4, <2>5
<1>3. PICK pc \in {"create", "check", "migrate", "update", "unlock"} :
         /\ S!Goto(i, pc)
         /\ sOld' \in BOOLEAN /\ sNew' \in {"absent", "empty", "full"}
         /\ sVersion' \in 0 .. 1
         /\ sOld' => sOld
         /\ sNew # "absent" => sNew' # "absent"
         /\ sVersion' >= sVersion
         /\ ~(sOld' /\ sNew' # "absent")
         /\ pc = "create" => ~sOld'
         /\ pc \in {"check", "migrate", "update", "unlock"} => sNew' # "absent"
         /\ pc = "unlock" => sVersion' = 1
  BY <1>2
<1>4. pc \in S!SyncPc /\ pc # "rename" /\ pc \notin {"init", "listen", "up"}
  BY DEF S!SyncPc
<1> QED BY <1>0, <1>1, <1>3, <1>4, NodeMoves

\* An instance is through, fails or is stopped: it gives its lock back or leaves
\* it behind.
LEMMA LeaveSync ==
    ASSUME S!StartupAssumption, StartInv, NEW i \in Instance,
           S!RenameFails(i) \/ S!Unlock(i) \/ S!Stop(i)
    PROVE  StartInv'
<1>0. /\ sOld \in BOOLEAN /\ sNew \in {"absent", "empty", "full"} /\ sVersion \in 0 .. 1
      /\ ~(sOld /\ sNew # "absent") /\ SchemaAt(sNode[i]) /\ sNode[i] \in Nodes
  BY NodeFacts
<1>1. /\ UNCHANGED <<sConfig, sOld, sNew, sVersion>>
      /\ sLock' = sLock \/ sLock' = S!Released(sLock, i)
  BY DEF S!RenameFails, S!Unlock, S!Stop, S!schema
<1>2. \/ sNode' = [sNode EXCEPT ![i] = S!Down]
      \/ /\ sNode' = [sNode EXCEPT ![i] = [S!Down EXCEPT !.pc = "init"]]
         /\ sNew # "absent" /\ sVersion = 1
  BY <1>0 DEF S!RenameFails, S!Unlock, S!Stop, SchemaAt
<1>3. S!Down \in Nodes /\ S!Down.pc = "down" /\ S!Down.age = 0
      /\ [S!Down EXCEPT !.pc = "init"] \in Nodes
      /\ [S!Down EXCEPT !.pc = "init"].pc = "init"
      /\ [S!Down EXCEPT !.pc = "init"].age = 0
  BY DEF S!Down, Nodes
<1>6. sVersion' >= sVersion
  BY <1>0, <1>1
<1>4. CASE sNode' = [sNode EXCEPT ![i] = S!Down]
  <2> PICK n : n = S!Down
    OBVIOUS
  <2>1. SchemaAt(n)' /\ n.pc \notin S!SyncPc
    BY <1>3 DEF SchemaAt, S!SyncPc
  <2> QED BY <1>0, <1>1, <1>3, <1>4, <1>6, <2>1, NodeStep
<1>5. CASE /\ sNode' = [sNode EXCEPT ![i] = [S!Down EXCEPT !.pc = "init"]]
           /\ sNew # "absent" /\ sVersion = 1
  <2> PICK n : n = [S!Down EXCEPT !.pc = "init"]
    OBVIOUS
  <2>1. SchemaAt(n)' /\ n.pc \notin S!SyncPc
    BY <1>1, <1>3, <1>5 DEF SchemaAt, S!SyncPc
  <2> QED BY <1>0, <1>1, <1>3, <1>5, <1>6, <2>1, NodeStep
<1> QED BY <1>2, <1>4, <1>5

\* A minute passes for the lock and for who synchronises.
LEMMA TickNodes ==
    ASSUME S!StartupAssumption, StartInv, S!Tick
    PROVE  StartInv'
<1>1. /\ StartTypes /\ UNCHANGED <<sConfig, sOld, sNew, sVersion>>
      /\ sLock' = S!Aged(sLock, S!Minute)
      /\ sNode' = [i \in Instance |-> IF i \in S!Syncing
                                      THEN [sNode[i] EXCEPT !.age = @ + 1] ELSE sNode[i]]
  BY DEF StartInv, S!Tick, S!schema
<1>2. ASSUME NEW i \in Instance
      PROVE  /\ sNode'[i] \in Nodes /\ sNode'[i].pc = sNode[i].pc
             /\ sNode'[i].from = sNode[i].from /\ sNode'[i].to = sNode[i].to
             /\ sNode'[i].age = IF i \in S!Syncing THEN sNode[i].age + 1 ELSE sNode[i].age
             /\ sNode[i].age \in Nat
  <2>1. sNode[i] \in Nodes
    BY <1>1 DEF StartTypes
  <2>2. sNode'[i] = IF i \in S!Syncing THEN [sNode[i] EXCEPT !.age = @ + 1] ELSE sNode[i]
    BY <1>1
  <2> QED BY <2>1, <2>2 DEF Nodes
<1>3. /\ sLock'.by \in Instance \cup {"none"} /\ sLock'.left \in Nat
      /\ sLock'.by = "none" <=> sLock' = S!NoLock
      /\ sLock' = [by |-> sLock'.by, left |-> sLock'.left]
      /\ sLock.left > S!Minute => sLock'.by = sLock.by /\ sLock'.left = sLock.left - S!Minute
  <2>1. CASE sLock.left > S!Minute
    <3> PICK b, l : b = sLock.by /\ l = sLock.left
      OBVIOUS
    <3>1. sLock = [by |-> b, left |-> l] /\ b \in Instance \cup {"none"} /\ l \in Nat
          /\ (b = "none" => sLock = S!NoLock)
      BY <1>1 DEF StartTypes
    <3>2. b # "none"
      BY <2>1, <3>1, Times DEF S!NoLock
    <3>3. sLock' = [by |-> b, left |-> l - S!Minute]
      BY <1>1, <2>1, <3>1 DEF S!Aged
    <3>4. l - S!Minute \in Nat
      BY <2>1, <3>1, Times
    <3> QED BY <3>1, <3>2, <3>3, <3>4 DEF S!NoLock
  <2>2. CASE ~(sLock.left > S!Minute)
    <3>1. sLock' = S!NoLock
      BY <1>1, <2>2 DEF S!Aged
    <3> QED BY <2>2, <3>1 DEF S!NoLock
  <2> QED BY <2>1, <2>2
<1>4. StartTypes'
  <2>1. sNode' \in [Instance -> Nodes]
    BY <1>1, <1>2
  <2> QED BY <1>1, <1>3, <2>1 DEF StartTypes
<1>5. S!Syncing' = S!Syncing /\ S!Syncing \subseteq Instance
      /\ \A i \in Instance : i \in S!Syncing <=> sNode[i].pc \in S!SyncPc
  BY <1>2 DEF S!Syncing
<1>6. \A i \in Instance : SchemaAt(sNode[i])'
  BY <1>1, <1>2, <1>5 DEF StartInv, SchemaAt
<1>7. ASSUME sConfig'.redis, NEW i \in S!Syncing' PROVE Syncs(i)'
  <2>1. i \in S!Syncing /\ Syncs(i) /\ i \in Instance
    BY <1>1, <1>5, <1>7 DEF StartInv
  <2>2. sNode'[i].age = sNode[i].age + 1 /\ sNode[i].age \in Nat
    BY <1>2, <2>1
  <2>3. CASE sNode[i].age >= 2
    BY <2>2, <2>3 DEF Syncs
  <2>4. CASE ~(sNode[i].age >= 2)
    <3>1. sLock.by = i /\ sLock.left = S!SyncTtl - S!Minute * sNode[i].age
      BY <2>1, <2>2, <2>4 DEF Syncs
    <3>2. sLock.left > S!Minute
      BY <2>2, <2>4, <3>1, SMT DEF S!Minute, S!SyncTtl
    <3>3. sLock'.by = i /\ sLock'.left = S!SyncTtl - S!Minute * sNode'[i].age
      BY <1>3, <2>2, <3>1, <3>2, SMT DEF S!Minute, S!SyncTtl
    <3> QED BY <3>3 DEF Syncs
  <2> QED BY <2>3, <2>4
<1> QED BY <1>1, <1>4, <1>6, <1>7 DEF StartInv

\* Every step of the composite keeps it.
LEMMA StartInvariance == Spec => []StartInv
<1>1. S!StartupAssumption
  BY ProgressAssumption
<1>2. Init => StartInv
  BY <1>1, InitStartInv DEF Init
<1>3. StartInv /\ [Next]_vars => StartInv'
  <2> SUFFICES ASSUME StartInv, [Next]_vars PROVE StartInv'
    OBVIOUS
  <2>1. CASE S!Next
    <3>1. CASE S!Tick
      BY <1>1, <3>1, TickNodes
    <3>2. ASSUME NEW i \in Instance, S!Advance(i) PROVE StartInv'
      BY <1>1, <3>2, OutsideSync, LookNode, InsideSync, LeaveSync DEF S!Advance
    <3>3. ASSUME NEW i \in Instance, S!Stop(i) PROVE StartInv'
      BY <1>1, <3>3, LeaveSync
    <3> QED BY <2>1, <3>1, <3>2, <3>3 DEF S!Next
  <2>2. CASE UNCHANGED startup
    <3>1. StartTypes' = StartTypes /\ S!Syncing' = S!Syncing
      BY <2>2 DEF startup, StartTypes, S!Syncing
    <3>2. \A i : Syncs(i) => Syncs(i)'
      BY <2>2 DEF startup, Syncs
    <3>3. \A i \in Instance : SchemaAt(sNode[i])'
      <4>1. ASSUME NEW i \in Instance PROVE SchemaAt(sNode[i])'
        <5>1. SchemaAt(sNode[i])
          BY DEF StartInv
        <5> QED BY <2>2, <5>1 DEF startup, SchemaAt
      <4> QED BY <4>1
    <3> QED BY <2>2, <3>1, <3>2, <3>3 DEF StartInv, startup
  <2>3. S!Next \/ UNCHANGED startup
    BY DEF Next, vars, Starting, Uploading, Paying
  <2> QED BY <2>1, <2>2, <2>3
<1> QED BY <1>2, <1>3, PTL DEF Spec

\* For any number of instances, stops and restarts, two of them synchronise at a
\* time only if one has been at it for three minutes.
THEOREM OneSynchronises == Spec => []SyncOneByOne
<1>1. StartInv => SyncOneByOne
  <2> SUFFICES ASSUME StartInv, sConfig.redis, NEW i \in S!Syncing, NEW j \in S!Syncing,
                      i # j
               PROVE  \E late \in {i, j} : sNode[late].age >= 3
    BY DEF SyncOneByOne, S!SyncOneByOne
  <2>1. Syncs(i) /\ Syncs(j)
    BY DEF StartInv
  <2> QED BY <2>1 DEF Syncs
<1> QED BY <1>1, StartInvariance, PTL

\* Wherever instances were stopped and however they overlapped, none that
\* synchronises serves requests before the rows are under their new name and the
\* migrations have run.
THEOREM MigratedBeforeUp == Spec => []UpIsMigrated
<1>1. StartInv => UpIsMigrated
  BY DEF StartInv, SchemaAt, UpIsMigrated, S!UpIsMigrated, S!Migration
<1> QED BY <1>1, StartInvariance, PTL

-----------------------------------------------------------------------------
(* Uploads (Upload). *)

Bodies == [name : Name \cup {"none"}, total : Nat, finished : SUBSET Nat]
Reqs == [pc : {"idle", "store", "diff", "write", "sum", "merge", "move"},
         by : Session \cup {"none"}, chunk : Nat, body : Bodies, dirty : BOOLEAN,
         parts : SUBSET Nat]
Clients == [phase : {"new", "send", "merge", "done"}, todo : SUBSET Nat,
            acked : SUBSET Nat, slow : BOOLEAN]

UploadTypes ==
    /\ plan \in [Session -> U!Plan]
    /\ tokens \in [Key -> Bodies] /\ req \in [Request -> Reqs]
    /\ client \in [Session -> Clients]
    /\ folder = [n \in Name |-> folder[n]] /\ \A n \in Name : DOMAIN folder[n] \subseteq Nat
    /\ merged = [n \in Name |-> merged[n]]

\* A body was made by a task for that key, of whichever session.
MadeFor(key, body) ==
    \E u \in Session : plan[u].key = key /\ body.name = plan[u].name /\ body.total = plan[u].total

\* A session that has sent anything has a token.
HasToken(s) == client[s].phase # "new" => MadeFor(plan[s].key, U!Token(s))

RequestOk(q) ==
    req[q].pc # "idle" =>
       /\ req[q].by \in Session /\ client[req[q].by].phase # "new"
       /\ MadeFor(plan[req[q].by].key, req[q].body)
       /\ req[q].pc \in {"store", "diff", "write"} => req[q].chunk \in U!Chunks(req[q].by)

\* What is stored of a session that shares nothing.
Parts(s) == DOMAIN folder[plan[s].name]

\* Its parts are the chunks it sent, whatever is counted as finished is among them,
\* and a merge that has begun found them all.
PartsOk(s) ==
    U!Alone(s) =>
       /\ Parts(s) \subseteq U!Chunks(s)
       /\ U!Token(s).finished \subseteq Parts(s)
       /\ \A q \in U!Flying(s) :
             /\ req[q].body.finished \subseteq Parts(s)
             /\ req[q].pc \in {"merge", "move"} => Parts(s) = U!Chunks(s)

\* While its chunks are saved one at a time, none works on an old body.
SavedOk(s) ==
    U!Alone(s) /\ s \notin overlap =>
       /\ client[s].acked \subseteq U!Token(s).finished
       /\ \A q, r \in U!Saving(s) : q = r
       /\ \A q \in U!Saving(s) :
             /\ req[q].pc = "store" => req[q].body = U!Token(s)
             /\ req[q].pc \in {"diff", "write"} =>
                   /\ U!Token(s).finished \subseteq req[q].body.finished
                   /\ req[q].chunk \in req[q].body.finished
             /\ req[q].pc = "write" /\ ~req[q].dirty => req[q].body = U!Token(s)

\* The inductive invariant.
UploadInv ==
    /\ UploadTypes
    /\ \A s \in Session : HasToken(s) /\ PartsOk(s) /\ SavedOk(s)
    /\ \A k \in Key : tokens[k] = U!NoToken \/ MadeFor(k, tokens[k])
    /\ \A q \in Request : RequestOk(q)

\* The chunks of a session are as many as it announced.
LEMMA ChunksOf ==
    ASSUME U!UploadAssumption, NEW p \in U!Plan
    PROVE  /\ p.first .. (p.first + p.total - 1) \subseteq Nat
           /\ p.first .. (p.first + p.total - 1) \subseteq 0 .. MaxTotal
           /\ p.first .. (p.first + p.total - 1) # {}
           /\ IsFiniteSet(p.first .. (p.first + p.total - 1))
           /\ Cardinality(p.first .. (p.first + p.total - 1)) = p.total
           /\ p.key \in Key /\ p.name \in Name /\ p.total \in Nat \ {0}
<1> PICK f, t : f = p.first /\ t = p.total
  OBVIOUS
<1>1. f \in {0, 1} /\ t \in 1 .. MaxTotal /\ MaxTotal \in Nat /\ p.key \in Key /\ p.name \in Name
  BY DEF U!Plan, U!UploadAssumption
<1>2. f .. (f + t - 1) \subseteq 0 .. MaxTotal /\ 0 .. MaxTotal \subseteq Nat
  BY <1>1
<1>3. f \in f .. (f + t - 1)
  BY <1>1
<1>4. IsFiniteSet(f .. (f + t - 1)) /\ Cardinality(f .. (f + t - 1)) = t
  <2> PICK b : b = f + t - 1
    OBVIOUS
  <2>1. f \in Int /\ b \in Int /\ ~(f > b) /\ b - f + 1 = t
    BY <1>1
  <2>2. IsFiniteSet(f .. b) /\ Cardinality(f .. b) = IF f > b THEN 0 ELSE b - f + 1
    BY <2>1, FS_Interval
  <2>3. IsFiniteSet(f .. b) /\ Cardinality(f .. b) = t
    BY <2>1, <2>2
  <2> QED BY <2>3
<1> QED BY <1>1, <1>2, <1>3, <1>4

\* It holds in the beginning.
LEMMA InitUploadInv == ASSUME U!UploadAssumption, U!Init PROVE UploadInv
<1> USE DEF U!Init
<1>1. plan \in [Session -> U!Plan]
  BY DEF U!UploadAssumption
<1>2. U!NoToken \in Bodies /\ U!Idle \in Reqs /\ U!Idle.pc = "idle"
      /\ U!NoToken.finished = {} /\ U!Idle.body = U!NoToken
  BY DEF U!NoToken, U!Idle, U!None, Bodies, Reqs
<1>3. UploadTypes
  <2>1. tokens \in [Key -> Bodies] /\ req \in [Request -> Reqs]
    BY <1>2
  <2>2. client \in [Session -> Clients]
    BY DEF Clients
  <2>3. \A n \in Name : folder[n] = <<>> /\ DOMAIN folder[n] \subseteq Nat
    OBVIOUS
  <2> QED BY <1>1, <2>1, <2>2, <2>3 DEF UploadTypes
<1>4. \A q \in Request : req[q].pc = "idle"
  BY <1>2
<1>5. \A s : U!Flying(s) = {} /\ U!Saving(s) = {}
  BY <1>4 DEF U!Flying, U!Saving
<1>6. ASSUME NEW s \in Session PROVE HasToken(s) /\ PartsOk(s) /\ SavedOk(s)
  <2>1. plan[s] \in U!Plan
    BY <1>1
  <2>2. plan[s].key \in Key /\ plan[s].name \in Name
    BY <2>1 DEF U!Plan
  <2>3. U!Token(s) = U!NoToken /\ U!Token(s).finished = {}
    BY <1>2, <2>2 DEF U!Token
  <2>4. Parts(s) = {}
    BY <2>2 DEF Parts
  <2>5. client[s].phase = "new" /\ client[s].acked = {}
    OBVIOUS
  <2> QED BY <1>5, <2>3, <2>4, <2>5 DEF HasToken, PartsOk, SavedOk
<1>7. \A k \in Key : tokens[k] = U!NoToken
  OBVIOUS
<1> QED BY <1>3, <1>4, <1>6, <1>7 DEF UploadInv, RequestOk

\* What a step of session t leaves alone of the others.
Frame(t) ==
    /\ plan' = plan
    /\ \A s \in Session \ {t} : client'[s] = client[s] /\ (s \in overlap' <=> s \in overlap)
    /\ \A k \in Key \ {plan[t].key} : tokens'[k] = tokens[k]
    /\ \A n \in Name \ {plan[t].name} : DOMAIN folder'[n] = DOMAIN folder[n]
    /\ \A q \in Request :
          \/ req'[q] = req[q]
          \/ /\ req[q].pc = "idle" \/ req[q].by = t
             /\ req'[q].pc = "idle" \/ req'[q].by = t

\* Who shares nothing, and what a token was made for, depends on the plans alone.
LEMMA PlanStays ==
    ASSUME plan' = plan
    PROVE  /\ \A s : (U!Alone(s) <=> U!Alone(s)') /\ U!Chunks(s)' = U!Chunks(s)
           /\ \A k, b : MadeFor(k, b) <=> MadeFor(k, b)'
           /\ \A s : plan'[s] = plan[s]
BY DEF U!Alone, U!Chunks, MadeFor

\* The others keep their files and what they know of them.
LEMMA OtherSession ==
    ASSUME UploadTypes, NEW t \in Session, Frame(t), NEW s \in Session \ {t},
           HasToken(s), PartsOk(s), SavedOk(s),
           \A k \in Key : tokens'[k] = tokens[k] \/ MadeFor(k, tokens'[k])
    PROVE  HasToken(s)' /\ PartsOk(s)' /\ SavedOk(s)'
<1>1. plan[s] \in U!Plan /\ plan[t] \in U!Plan /\ plan' = plan
  BY DEF UploadTypes, Frame
<1>2. plan[s].key \in Key /\ plan[s].name \in Name
  BY <1>1 DEF U!Plan
<1>3. client'[s] = client[s] /\ (s \in overlap' <=> s \in overlap)
  BY DEF Frame
<1>4. HasToken(s)'
  <2>1. U!Token(s)' = U!Token(s) \/ MadeFor(plan[s].key, U!Token(s)')
    BY <1>1, <1>2 DEF U!Token
  <2>2. MadeFor(plan[s].key, U!Token(s)) => MadeFor(plan[s].key, U!Token(s)')
    BY <2>1
  <2>3. client[s].phase # "new" => MadeFor(plan[s].key, U!Token(s)')
    BY <2>2 DEF HasToken
  <2> QED BY <1>1, <1>3, <2>3 DEF HasToken, MadeFor
<1>5. SUFFICES ASSUME U!Alone(s) PROVE PartsOk(s)' /\ SavedOk(s)'
  BY <1>1, <1>4, PlanStays DEF PartsOk, SavedOk
<1>6. plan[s].key # plan[t].key /\ plan[s].name # plan[t].name
  BY <1>5 DEF U!Alone
<1>7. U!Token(s)' = U!Token(s) /\ Parts(s)' = Parts(s) /\ U!Chunks(s)' = U!Chunks(s)
  BY <1>1, <1>2, <1>6, PlanStays DEF Frame, U!Token, Parts
<1>8. U!Flying(s)' = U!Flying(s) /\ U!Saving(s)' = U!Saving(s)
      /\ \A q \in U!Flying(s) : req'[q] = req[q]
  <2>1. \A q \in Request : req[q].pc # "idle" /\ req[q].by = s => req'[q] = req[q]
    BY DEF Frame
  <2>2. \A q \in Request : req'[q].pc # "idle" /\ req'[q].by = s => req'[q] = req[q]
    BY DEF Frame
  <2> QED BY <2>1, <2>2 DEF U!Flying, U!Saving
<1>9. U!Saving(s) \subseteq U!Flying(s)
  BY DEF U!Saving
<1>10. PartsOk(s)'
  BY <1>5, <1>7, <1>8 DEF PartsOk
<1>11. SavedOk(s)'
  BY <1>3, <1>5, <1>7, <1>8, <1>9 DEF SavedOk
<1> QED BY <1>10, <1>11

\* A step of a session keeps the invariant if it does so for the session.
LEMMA SessionStep ==
    ASSUME UploadInv, UploadTypes', NEW t \in Session, Frame(t),
           \A k \in Key : tokens'[k] = tokens[k] \/ MadeFor(k, tokens'[k]),
           client[t].phase # "new" => client'[t].phase # "new",
           HasToken(t)', PartsOk(t)', SavedOk(t)',
           \A q \in Request : req'[q] = req[q] \/ RequestOk(q)'
    PROVE  UploadInv'
<1>1. plan' = plan /\ UploadTypes
  BY DEF Frame, UploadInv
<1>2. ASSUME NEW s \in Session PROVE HasToken(s)' /\ PartsOk(s)' /\ SavedOk(s)'
  <2>1. CASE s = t
    BY <2>1
  <2>2. CASE s # t
    <3>1. s \in Session \ {t} /\ HasToken(s) /\ PartsOk(s) /\ SavedOk(s)
      BY <2>2 DEF UploadInv
    <3> QED BY <1>1, <3>1, OtherSession
  <2> QED BY <2>1, <2>2
<1>3. ASSUME NEW k \in Key PROVE (tokens[k] = U!NoToken \/ MadeFor(k, tokens[k]))'
  <2>1. tokens[k] = U!NoToken \/ MadeFor(k, tokens[k])
    BY DEF UploadInv
  <2>2. tokens'[k] = U!NoToken \/ MadeFor(k, tokens'[k])
    BY <2>1
  <2> QED BY <1>1, <2>2 DEF MadeFor
<1>4. ASSUME NEW q \in Request PROVE RequestOk(q)'
  <2>1. CASE req'[q] = req[q]
    <3>1. RequestOk(q)
      BY DEF UploadInv
    <3>2. \A s \in Session : client[s].phase # "new" => client'[s].phase # "new"
      BY DEF Frame
    <3> QED BY <1>1, <2>1, <3>1, <3>2, PlanStays DEF RequestOk, MadeFor
  <2> QED BY <2>1
<1>5. U!NoToken' = U!NoToken
  BY DEF U!NoToken, U!None
<1> QED BY <1>2, <1>3, <1>4, <1>5 DEF UploadInv

\* The chunks of a session that shares nothing, when one request of it moves.
LEMMA PartsStay ==
    ASSUME UploadTypes, NEW t \in Session, PartsOk(t), plan' = plan,
           NEW q \in Request, NEW r \in Reqs, req' = [req EXCEPT ![q] = r],
           U!Alone(t) =>
              /\ Parts(t) \subseteq Parts(t)' /\ Parts(t)' \subseteq U!Chunks(t)
              /\ U!Token(t)'.finished \subseteq Parts(t)'
              /\ r.pc # "idle" =>
                    /\ r.body.finished \subseteq Parts(t)'
                    /\ r.pc \in {"merge", "move"} => Parts(t)' = U!Chunks(t)
    PROVE  PartsOk(t)'
<1>1. SUFFICES ASSUME U!Alone(t) PROVE PartsOk(t)'
  BY PlanStays DEF PartsOk
<1>2. U!Chunks(t)' = U!Chunks(t)
  BY PlanStays
<1>3. ASSUME NEW p \in U!Flying(t)'
      PROVE  /\ req'[p].body.finished \subseteq Parts(t)'
             /\ req'[p].pc \in {"merge", "move"} => Parts(t)' = U!Chunks(t)
  <2>1. p \in Request /\ req'[p].pc # "idle" /\ req'[p].by = t
    BY DEF U!Flying
  <2>2. CASE p = q
    BY <1>1, <2>1, <2>2 DEF UploadTypes
  <2>3. CASE p # q
    <3>1. req'[p] = req[p] /\ p \in U!Flying(t)
      BY <2>1, <2>3 DEF UploadTypes, U!Flying
    <3>2. /\ req[p].body.finished \subseteq Parts(t)
          /\ req[p].pc \in {"merge", "move"} => Parts(t) = U!Chunks(t)
      BY <1>1, <3>1 DEF PartsOk
    <3> QED BY <1>1, <3>1, <3>2
  <2> QED BY <2>2, <2>3
<1> QED BY <1>1, <1>2, <1>3 DEF PartsOk

\* Who saves after a request has moved.
LEMMA SavingAfter ==
    ASSUME NEW q \in Request, \A o \in Request \ {q} : req'[o] = req[o],
           NEW t \in Session, NEW p \in U!Saving(t)'
    PROVE  \/ p = q /\ req'[q].by = t /\ req'[q].pc \in {"store", "diff", "write"}
           \/ p # q /\ p \in U!Saving(t) /\ req'[p] = req[p]
<1>1. p \in Request /\ req'[p].pc # "idle" /\ req'[p].by = t
      /\ req'[p].pc \in {"store", "diff", "write"}
  BY DEF U!Saving, U!Flying
<1>2. QED
  <2>1. CASE p = q
    BY <1>1, <2>1
  <2>2. CASE p # q
    <3>1. req'[p] = req[p]
      BY <1>1, <2>2
    <3> QED BY <1>1, <2>2, <3>1 DEF U!Saving, U!Flying
  <2> QED BY <2>1, <2>2

\* A request moves and its client with it; tokens and chunks stay as they are.
LEMMA QuietStep ==
    ASSUME U!UploadAssumption, UploadInv, NEW t \in Session, NEW q \in Request,
           NEW r \in Reqs, req' = [req EXCEPT ![q] = r],
           NEW d \in Clients, client' = [client EXCEPT ![t] = d],
           UNCHANGED <<plan, tokens, folder>>, merged' = [n \in Name |-> merged'[n]],
           \A s \in Session \ {t} : s \in overlap' <=> s \in overlap,
           client[t].phase # "new", d.phase # "new",
           req[q].pc = "idle" \/ req[q].by = t,
           r.pc # "idle" =>
              /\ r.by = t /\ MadeFor(plan[t].key, r.body)
              /\ r.pc \in {"store", "diff", "write"} => r.chunk \in U!Chunks(t)
              /\ U!Alone(t) =>
                    /\ r.body.finished \subseteq Parts(t)
                    /\ r.pc \in {"merge", "move"} => Parts(t) = U!Chunks(t),
           SavedOk(t)'
    PROVE  UploadInv'
<1>1. UploadTypes /\ HasToken(t) /\ PartsOk(t)
  BY DEF UploadInv
<1>2. /\ req'[q] = r /\ \A p \in Request \ {q} : req'[p] = req[p]
      /\ client'[t] = d /\ \A s \in Session \ {t} : client'[s] = client[s]
  BY <1>1 DEF UploadTypes
<1>3. UploadTypes'
  BY <1>1 DEF UploadTypes
<1>4. Frame(t)
  BY <1>2 DEF Frame
<1>5. U!Token(t)' = U!Token(t) /\ Parts(t)' = Parts(t) /\ U!Chunks(t)' = U!Chunks(t)
  BY DEF U!Token, Parts, U!Chunks
<1>6. HasToken(t)'
  <2>1. MadeFor(plan[t].key, U!Token(t))
    BY <1>1 DEF HasToken
  <2> QED BY <1>5, <2>1 DEF HasToken, MadeFor
<1>7. U!Alone(t) => Parts(t) \subseteq U!Chunks(t) /\ U!Token(t).finished \subseteq Parts(t)
  BY <1>1 DEF PartsOk
<1>8. PartsOk(t)'
  BY <1>1, <1>5, <1>7, PartsStay
<1>9. RequestOk(q)'
  <2>1. CASE r.pc = "idle"
    BY <1>2, <2>1 DEF RequestOk
  <2>2. CASE r.pc # "idle"
    BY <1>2, <1>5, <2>2 DEF RequestOk, MadeFor
  <2> QED BY <2>1, <2>2
<1>10. \A p \in Request : req'[p] = req[p] \/ RequestOk(p)'
  BY <1>2, <1>9
<1>11. /\ \A k \in Key : tokens'[k] = tokens[k] \/ MadeFor(k, tokens'[k])
       /\ client[t].phase # "new" => client'[t].phase # "new"
  BY <1>2
<1> QED BY <1>3, <1>4, <1>6, <1>8, <1>10, <1>11, SessionStep

\* Nobody of the session begins to save, and none of its chunks is forgotten.
LEMMA SavedStays ==
    ASSUME UploadTypes, NEW t \in Session, SavedOk(t), NEW q \in Request,
           NEW r \in Reqs, req' = [req EXCEPT ![q] = r],
           r.pc \notin {"store", "diff", "write"},
           UNCHANGED <<plan, tokens>>,
           \/ /\ t \notin overlap' => t \notin overlap
              /\ client'[t].acked = client[t].acked
           \/ client'[t].acked = {} /\ U!Flying(t) = {q}
    PROVE  SavedOk(t)'
<1>1. SUFFICES ASSUME U!Alone(t), t \notin overlap' PROVE SavedOk(t)'
  BY PlanStays DEF SavedOk
<1>2. U!Token(t)' = U!Token(t)
  BY DEF U!Token
<1>6. req'[q] = r /\ \A o \in Request \ {q} : req'[o] = req[o]
  BY DEF UploadTypes
<1>3. ASSUME NEW p \in U!Saving(t)'
      PROVE  p # q /\ p \in U!Saving(t) /\ req'[p] = req[p]
  BY <1>6, SavingAfter
<1>4. CASE t \notin overlap /\ client'[t].acked = client[t].acked
  BY <1>1, <1>2, <1>3, <1>4 DEF SavedOk
<1>5. CASE client'[t].acked = {} /\ U!Flying(t) = {q}
  <2>1. U!Saving(t)' = {}
    BY <1>3, <1>5 DEF U!Saving
  <2> QED BY <1>5, <2>1 DEF SavedOk
<1> QED BY <1>1, <1>4, <1>5

\* A request of a session begins: for a chunk, or for the merge.
LEMMA BeginSteps ==
    ASSUME U!UploadAssumption, UploadInv, NEW q \in Request, NEW t \in Session,
           \/ \E c \in U!Chunks(t) : U!BeginChunk(q, t, c)
           \/ U!BeginMerge(q, t)
    PROVE  UploadInv'
<1>1. UploadTypes /\ HasToken(t) /\ PartsOk(t) /\ SavedOk(t) /\ plan[t] \in U!Plan
  BY DEF UploadInv, UploadTypes
<1>2. /\ U!Token(t) \in Bodies /\ U!Idle \in Reqs /\ U!Idle.pc = "idle"
      /\ U!Chunks(t) \subseteq Nat /\ client[t] \in Clients
  <2>1. plan[t].key \in Key /\ U!Chunks(t) \subseteq Nat
    BY <1>1, ChunksOf DEF U!Chunks
  <2>2. U!Idle \in Reqs /\ U!Idle.pc = "idle"
    BY DEF U!Idle, U!NoToken, U!None, Bodies, Reqs
  <2> QED BY <1>1, <2>1, <2>2 DEF UploadTypes, U!Token
<1>3. client[t].phase = "send" /\ req[q].pc = "idle"
  BY <1>2 DEF U!BeginChunk, U!BeginMerge
<1>4. MadeFor(plan[t].key, U!Token(t))
  BY <1>1, <1>3 DEF HasToken
<1>5. U!Alone(t) => U!Token(t).finished \subseteq Parts(t)
  BY <1>1 DEF PartsOk
<1>6. UNCHANGED <<plan, tokens, folder, merged>> /\ merged' = [n \in Name |-> merged'[n]]
  BY <1>1 DEF U!BeginChunk, U!BeginMerge, UploadTypes
<1>7. CASE U!BeginMerge(q, t)
  <2>1. PICK r \in Reqs : /\ req' = [req EXCEPT ![q] = r] /\ r.pc = "sum" /\ r.by = t
                          /\ r.body = U!Token(t)
    <3> PICK i \in Reqs, b \in Bodies : i = U!Idle /\ b = U!Token(t)
      BY <1>2
    <3> DEFINE r == [i EXCEPT !.pc = "sum", !.by = t, !.body = b]
    <3>1. r \in Reqs /\ r.pc = "sum" /\ r.by = t /\ r.body = b
      BY DEF Reqs
    <3>2. req' = [req EXCEPT ![q] = r]
      BY <1>7 DEF U!BeginMerge
    <3> HIDE DEF r
    <3> QED BY <3>1, <3>2
  <2>2. PICK d \in Clients : /\ client' = [client EXCEPT ![t] = d] /\ d.phase = "merge"
                             /\ d.acked = client[t].acked
    <3> PICK v \in Clients : v = client[t]
      BY <1>2
    <3> DEFINE d == [v EXCEPT !.phase = "merge"]
    <3>1. d \in Clients /\ d.phase = "merge" /\ d.acked = v.acked
      BY DEF Clients
    <3>2. client' = [client EXCEPT ![t] = d]
      BY <1>7 DEF U!BeginMerge
    <3> HIDE DEF d
    <3> QED BY <3>1, <3>2
  <2>3. overlap' = overlap
    BY <1>7 DEF U!BeginMerge
  <2>4. client'[t].acked = client[t].acked
    BY <1>1, <2>2 DEF UploadTypes
  <2>5. SavedOk(t)'
    BY <1>1, <1>6, <2>1, <2>3, <2>4, SavedStays
  <2>6. r.pc \notin {"store", "diff", "write"} /\ r.pc \notin {"merge", "move"}
    BY <2>1
  <2> QED BY <1>3, <1>4, <1>5, <1>6, <2>1, <2>2, <2>3, <2>5, <2>6, QuietStep
<1>8. ASSUME NEW c \in U!Chunks(t), U!BeginChunk(q, t, c) PROVE UploadInv'
  <2>1. PICK r \in Reqs : /\ req' = [req EXCEPT ![q] = r] /\ r.pc = "store" /\ r.by = t
                          /\ r.chunk = c /\ r.body = U!Token(t)
    <3> PICK i \in Reqs, b \in Bodies : i = U!Idle /\ b = U!Token(t)
      BY <1>2
    <3> DEFINE r == [i EXCEPT !.pc = "store", !.by = t, !.chunk = c, !.body = b]
    <3>1. r \in Reqs /\ r.pc = "store" /\ r.by = t /\ r.chunk = c /\ r.body = b
      BY <1>2 DEF Reqs
    <3>2. req' = [req EXCEPT ![q] = r]
      BY <1>8 DEF U!BeginChunk
    <3> HIDE DEF r
    <3> QED BY <3>1, <3>2
  <2>2. PICK d \in Clients : /\ client' = [client EXCEPT ![t] = d] /\ d.phase = "send"
                             /\ d.acked = client[t].acked
    <3> PICK v \in Clients : v = client[t]
      BY <1>2
    <3> DEFINE d == [v EXCEPT !.todo = @ \ {c}]
    <3>1. d \in Clients /\ d.phase = v.phase /\ d.acked = v.acked
      BY DEF Clients
    <3>2. client' = [client EXCEPT ![t] = d]
      BY <1>8 DEF U!BeginChunk
    <3> HIDE DEF d
    <3> QED BY <1>3, <3>1, <3>2
  <2>3. overlap' = IF U!Saving(t) = {} THEN overlap ELSE overlap \cup {t}
    BY <1>8 DEF U!BeginChunk
  <2>4. client'[t].acked = client[t].acked /\ U!Token(t)' = U!Token(t)
    BY <1>1, <1>6, <2>2 DEF UploadTypes, U!Token
  <2>5. SavedOk(t)'
    <3>1. SUFFICES ASSUME U!Alone(t), t \notin overlap' PROVE SavedOk(t)'
      BY <1>6, PlanStays DEF SavedOk
    <3>2. U!Saving(t) = {} /\ t \notin overlap
      BY <2>3, <3>1
    <3>3. client[t].acked \subseteq U!Token(t).finished
      BY <1>1, <3>1, <3>2 DEF SavedOk
    <3>4. req'[q] = r /\ \A o \in Request \ {q} : req'[o] = req[o]
      BY <1>1, <2>1 DEF UploadTypes
    <3>5. \A p \in U!Saving(t)' : p = q
      BY <3>2, <3>4, SavingAfter
    <3> QED BY <2>1, <2>4, <3>3, <3>4, <3>5 DEF SavedOk
  <2>6. r.pc \notin {"merge", "move"} /\ d.phase # "new"
        /\ \A s \in Session \ {t} : s \in overlap' <=> s \in overlap
    BY <2>1, <2>2, <2>3
  <2> QED BY <1>3, <1>4, <1>5, <1>6, <1>8, <2>1, <2>2, <2>5, <2>6, QuietStep
<1> QED BY <1>7, <1>8

\* Who a request that is under way belongs to, and what is known of it.
LEMMA Busy ==
    ASSUME U!UploadAssumption, UploadInv, NEW q \in Request, req[q].pc # "idle"
    PROVE  \E t \in Session :
              /\ req[q].by = t /\ client[t].phase # "new" /\ q \in U!Flying(t)
              /\ MadeFor(plan[t].key, req[q].body)
              /\ req[q].pc \in {"store", "diff", "write"} =>
                    req[q].chunk \in U!Chunks(t) /\ q \in U!Saving(t)
              /\ U!Alone(t) =>
                    /\ req[q].body.finished \subseteq Parts(t)
                    /\ req[q].pc \in {"merge", "move"} => Parts(t) = U!Chunks(t)
              /\ UploadTypes /\ req[q] \in Reqs /\ client[t] \in Clients
              /\ plan[t] \in U!Plan /\ HasToken(t) /\ PartsOk(t) /\ SavedOk(t)
<1>1. RequestOk(q) /\ UploadTypes
  BY DEF UploadInv
<1> PICK t \in Session : t = req[q].by
  BY <1>1 DEF RequestOk
<1>2. /\ client[t].phase # "new" /\ MadeFor(plan[t].key, req[q].body)
      /\ req[q].pc \in {"store", "diff", "write"} => req[q].chunk \in U!Chunks(t)
  BY <1>1 DEF RequestOk
<1>3. q \in U!Flying(t) /\ (req[q].pc \in {"store", "diff", "write"} => q \in U!Saving(t))
  BY DEF U!Flying, U!Saving
<1>4. HasToken(t) /\ PartsOk(t) /\ SavedOk(t)
  BY DEF UploadInv
<1>5. U!Alone(t) => /\ req[q].body.finished \subseteq Parts(t)
                    /\ req[q].pc \in {"merge", "move"} => Parts(t) = U!Chunks(t)
  BY <1>3, <1>4 DEF PartsOk
<1>6. req[q] \in Reqs /\ client[t] \in Clients /\ plan[t] \in U!Plan
  BY <1>1 DEF UploadTypes
<1> QED BY <1>1, <1>2, <1>3, <1>4, <1>5, <1>6

\* It is the only one of its session that saves.
LEMMA OneSaver ==
    ASSUME NEW q \in Request, \A o \in Request \ {q} : req'[o] = req[o],
           NEW t \in Session, q \in U!Saving(t), SavedOk(t), U!Alone(t), t \notin overlap
    PROVE  /\ \A p \in U!Saving(t)' : p = q
           /\ req'[q].pc = "idle" => U!Saving(t)' = {}
<1>1. \A p \in U!Saving(t) : p = q
  BY DEF SavedOk
<1>2. \A p \in U!Saving(t)' : p = q /\ req'[q].pc \in {"store", "diff", "write"}
  BY <1>1, SavingAfter
<1> QED BY <1>2

\* The body of the token is compared with the row.
LEMMA DiffStep ==
    ASSUME U!UploadAssumption, UploadInv, NEW q \in Request, U!SaveDiff(q)
    PROVE  UploadInv'
<1>1. req[q].pc = "diff"
  BY DEF U!SaveDiff
<1>2. PICK t \in Session :
              /\ req[q].by = t /\ client[t].phase # "new" /\ q \in U!Flying(t)
              /\ MadeFor(plan[t].key, req[q].body)
              /\ req[q].chunk \in U!Chunks(t) /\ q \in U!Saving(t)
              /\ U!Alone(t) => req[q].body.finished \subseteq Parts(t)
              /\ UploadTypes /\ req[q] \in Reqs /\ client[t] \in Clients
              /\ SavedOk(t)
  BY <1>1, Busy
<1>3. PICK r \in Reqs : /\ req' = [req EXCEPT ![q] = r] /\ r.pc = "write" /\ r.by = t
                        /\ r.chunk = req[q].chunk /\ r.body = req[q].body
                        /\ ~r.dirty => req[q].body = U!Token(t)
  <2> PICK v \in Reqs : v = req[q]
    BY <1>2
  <2> PICK x \in BOOLEAN : x = (v.body # U!Token(t))
    OBVIOUS
  <2> DEFINE r == [v EXCEPT !.pc = "write", !.dirty = x]
  <2>1. r \in Reqs /\ r.pc = "write" /\ r.by = v.by /\ r.chunk = v.chunk /\ r.body = v.body
        /\ r.dirty = x
    BY DEF Reqs
  <2>2. req' = [req EXCEPT ![q] = r]
    BY <1>2 DEF U!SaveDiff
  <2> HIDE DEF r
  <2> QED BY <1>2, <2>1, <2>2
<1>4. /\ UNCHANGED <<plan, tokens, folder, merged, client, overlap>>
      /\ merged' = [n \in Name |-> merged'[n]]
      /\ client' = [client EXCEPT ![t] = client[t]]
  BY <1>2 DEF U!SaveDiff, UploadTypes
<1>5. req'[q] = r /\ \A o \in Request \ {q} : req'[o] = req[o]
  BY <1>2, <1>3 DEF UploadTypes
<1>6. SavedOk(t)'
  <2>1. SUFFICES ASSUME U!Alone(t), t \notin overlap PROVE SavedOk(t)'
    BY <1>4, PlanStays DEF SavedOk
  <2>2. \A p \in U!Saving(t)' : p = q
    BY <1>2, <1>5, <2>1, OneSaver
  <2>3. /\ client[t].acked \subseteq U!Token(t).finished
        /\ U!Token(t).finished \subseteq req[q].body.finished
        /\ req[q].chunk \in req[q].body.finished
    BY <1>1, <1>2, <2>1 DEF SavedOk
  <2>4. U!Token(t)' = U!Token(t) /\ client'[t] = client[t]
    BY <1>4 DEF U!Token
  <2> QED BY <1>3, <1>5, <2>2, <2>3, <2>4 DEF SavedOk
<1>7. r.pc \notin {"merge", "move"}
  BY <1>3
<1> QED BY ZenonT(60), <1>2, <1>3, <1>4, <1>6, <1>7, QuietStep

\* A chunk is moved into its folder.
LEMMA StoreStep ==
    ASSUME U!UploadAssumption, UploadInv, NEW q \in Request, U!Store(q)
    PROVE  UploadInv'
<1>1. req[q].pc = "store"
  BY DEF U!Store
<1>2. PICK t \in Session :
              /\ req[q].by = t /\ client[t].phase # "new" /\ q \in U!Flying(t)
              /\ MadeFor(plan[t].key, req[q].body)
              /\ req[q].chunk \in U!Chunks(t) /\ q \in U!Saving(t)
              /\ U!Alone(t) => req[q].body.finished \subseteq Parts(t)
              /\ UploadTypes /\ req[q] \in Reqs /\ client[t] \in Clients
              /\ plan[t] \in U!Plan /\ HasToken(t) /\ PartsOk(t) /\ SavedOk(t)
  BY <1>1, Busy
<1>3. PICK c \in Nat : c = req[q].chunk /\ c \in U!Chunks(t)
  BY <1>2 DEF Reqs
<1>4. PICK r \in Reqs : /\ req' = [req EXCEPT ![q] = r] /\ r.pc = "diff" /\ r.by = t
                        /\ r.chunk = c
                        /\ r.body.name = req[q].body.name /\ r.body.total = req[q].body.total
                        /\ r.body.finished = req[q].body.finished \cup {c}
  <2> PICK v \in Reqs : v = req[q]
    BY <1>2
  <2> PICK b \in Bodies : b = v.body
    BY DEF Reqs
  <2> DEFINE f == [b EXCEPT !.finished = @ \cup {c}]
  <2>1. f \in Bodies /\ f.name = b.name /\ f.total = b.total /\ f.finished = b.finished \cup {c}
    BY DEF Bodies
  <2>2. f = U!Finish(v.body, c)
    BY DEF U!Finish
  <2> HIDE DEF f
  <2> DEFINE r == [v EXCEPT !.pc = "diff", !.body = f]
  <2>3. r \in Reqs /\ r.pc = "diff" /\ r.by = v.by /\ r.chunk = v.chunk /\ r.body = f
    BY <2>1 DEF Reqs
  <2>4. req' = [req EXCEPT ![q] = r]
    BY <1>2, <1>3, <2>2 DEF U!Store
  <2> HIDE DEF r
  <2> QED BY <1>2, <1>3, <2>1, <2>3, <2>4
<1>5. UNCHANGED <<plan, tokens, merged, client, overlap>>
  BY DEF U!Store
<1>6. /\ folder' = [n \in Name |-> folder'[n]]
      /\ plan[t].name \in Name /\ Parts(t)' = Parts(t) \cup {c}
      /\ \A n \in Name \ {plan[t].name} : DOMAIN folder'[n] = DOMAIN folder[n]
  <2> PICK m \in Name : m = plan[t].name
    BY <1>2, ChunksOf
  <2> PICK g : g = [d \in DOMAIN folder[m] \cup {c} |-> IF d = c THEN t ELSE folder[m][d]]
    OBVIOUS
  <2>1. DOMAIN g = DOMAIN folder[m] \cup {c}
    OBVIOUS
  <2>2. folder' = [folder EXCEPT ![m] = g]
    BY <1>2, <1>3 DEF U!Store
  <2>3. folder = [n \in Name |-> folder[n]]
    BY <1>2 DEF UploadTypes
  <2>4. folder' = [n \in Name |-> IF n = m THEN g ELSE folder[n]]
    BY <2>2, <2>3
  <2>5. folder'[m] = g /\ \A n \in Name \ {m} : folder'[n] = folder[n]
    BY <2>4
  <2>6. folder' = [n \in Name |-> folder'[n]]
    BY <2>4
  <2>7. Parts(t)' = Parts(t) \cup {c}
    <3>1. Parts(t) = DOMAIN folder[m] /\ Parts(t)' = DOMAIN folder'[m]
      BY <1>5 DEF Parts
    <3> QED BY <2>1, <2>5, <3>1
  <2>8. \A n \in Name \ {m} : DOMAIN folder'[n] = DOMAIN folder[n]
    BY <2>5
  <2> QED BY <2>6, <2>7, <2>8
<1>7. req'[q] = r /\ \A o \in Request \ {q} : req'[o] = req[o]
  BY <1>2, <1>4 DEF UploadTypes
<1>8. UploadTypes'
  <2>1. ASSUME NEW n \in Name PROVE DOMAIN folder'[n] \subseteq Nat
    <3>1. DOMAIN folder[n] \subseteq Nat
      BY <1>2 DEF UploadTypes
    <3>2. CASE n = plan[t].name
      BY <1>5, <1>6, <3>1, <3>2 DEF Parts
    <3>3. CASE n # plan[t].name
      BY <1>6, <3>1, <3>3
    <3> QED BY <3>2, <3>3
  <2>2. req' \in [Request -> Reqs]
    BY <1>2, <1>4 DEF UploadTypes
  <2> QED BY <1>2, <1>5, <1>6, <2>1, <2>2 DEF UploadTypes
<1>9. Frame(t)
  BY <1>2, <1>4, <1>5, <1>6, <1>7 DEF Frame
<1>10. U!Token(t)' = U!Token(t) /\ client'[t] = client[t]
  BY <1>5 DEF U!Token
<1>11. HasToken(t)'
  BY <1>2, <1>5, <1>10, PlanStays DEF HasToken, MadeFor
<1>12. PartsOk(t)'
  <2>1. U!Alone(t) =>
           /\ Parts(t) \subseteq Parts(t)' /\ Parts(t)' \subseteq U!Chunks(t)
           /\ U!Token(t)'.finished \subseteq Parts(t)'
           /\ r.body.finished \subseteq Parts(t)'
    BY <1>2, <1>3, <1>4, <1>6, <1>10 DEF PartsOk
  <2> QED BY <1>2, <1>4, <1>5, <2>1, PartsStay
<1>13. SavedOk(t)'
  <2>1. SUFFICES ASSUME U!Alone(t), t \notin overlap PROVE SavedOk(t)'
    BY <1>5, PlanStays DEF SavedOk
  <2>2. \A p \in U!Saving(t)' : p = q
    BY <1>2, <1>7, <2>1, OneSaver
  <2>3. client[t].acked \subseteq U!Token(t).finished /\ req[q].body = U!Token(t)
    BY <1>1, <1>2, <2>1 DEF SavedOk
  <2> QED BY <1>4, <1>7, <1>10, <2>2, <2>3 DEF SavedOk
<1>14. RequestOk(q)'
  <2>1. MadeFor(plan[t].key, r.body)
    BY <1>2, <1>4 DEF MadeFor
  <2> QED BY <1>2, <1>3, <1>4, <1>5, <1>7, <2>1, PlanStays DEF RequestOk, MadeFor
<1>15. \A p \in Request : req'[p] = req[p] \/ RequestOk(p)'
  BY <1>7, <1>14
<1> QED BY <1>5, <1>8, <1>9, <1>10, <1>11, <1>12, <1>13, <1>15, SessionStep

\* The row is written, and the chunk answered.
LEMMA WriteStep ==
    ASSUME U!UploadAssumption, UploadInv, NEW q \in Request, U!SaveWrite(q)
    PROVE  UploadInv'
<1>1. req[q].pc = "write"
  BY DEF U!SaveWrite
<1>2. PICK t \in Session :
              /\ req[q].by = t /\ client[t].phase # "new" /\ q \in U!Flying(t)
              /\ MadeFor(plan[t].key, req[q].body)
              /\ req[q].chunk \in U!Chunks(t) /\ q \in U!Saving(t)
              /\ U!Alone(t) => req[q].body.finished \subseteq Parts(t)
              /\ UploadTypes /\ req[q] \in Reqs /\ client[t] \in Clients
              /\ plan[t] \in U!Plan /\ HasToken(t) /\ PartsOk(t) /\ SavedOk(t)
  BY <1>1, Busy
<1>3. PICK c \in Nat : c = req[q].chunk
  BY <1>2 DEF Reqs
<1>4. PICK b \in Bodies : b = req[q].body
  BY <1>2 DEF Reqs
<1>5. PICK r \in Reqs : req' = [req EXCEPT ![q] = r] /\ r.pc = "idle"
  <2>1. U!Idle \in Reqs /\ U!Idle.pc = "idle"
    BY DEF U!Idle, U!NoToken, U!None, Bodies, Reqs
  <2>2. req' = [req EXCEPT ![q] = U!Idle]
    BY DEF U!SaveWrite
  <2> QED BY <2>1, <2>2
<1>6. PICK d \in Clients : /\ client' = [client EXCEPT ![t] = d] /\ d.phase = client[t].phase
                           /\ d.acked = client[t].acked \cup {c}
  <2> PICK v \in Clients : v = client[t]
    BY <1>2
  <2> DEFINE d == [v EXCEPT !.acked = @ \cup {c}]
  <2>1. d \in Clients /\ d.phase = v.phase /\ d.acked = v.acked \cup {c}
    BY DEF Clients
  <2>2. client' = [client EXCEPT ![t] = d]
    BY <1>2, <1>3 DEF U!SaveWrite
  <2> HIDE DEF d
  <2> QED BY <2>1, <2>2
<1>7. UNCHANGED <<plan, folder, merged, overlap>>
  BY DEF U!SaveWrite
<1>8. PICK k \in Key : k = plan[t].key
  BY <1>2, ChunksOf
<1>9. /\ tokens \in [Key -> Bodies] /\ tokens' \in [Key -> Bodies]
      /\ \A j \in Key \ {k} : tokens'[j] = tokens[j]
      /\ req[q].dirty => tokens'[k] = b
      /\ ~req[q].dirty => tokens'[k] = tokens[k]
  <2>1. tokens \in [Key -> Bodies]
    BY <1>2 DEF UploadTypes
  <2>2. CASE req[q].dirty
    <3>1. tokens' = [tokens EXCEPT ![k] = b]
      BY <1>2, <1>4, <1>8, <2>2 DEF U!SaveWrite
    <3> QED BY <2>1, <2>2, <3>1
  <2>3. CASE ~req[q].dirty
    <3>1. tokens' = tokens
      BY <2>3 DEF U!SaveWrite
    <3> QED BY <2>1, <2>3, <3>1
  <2> QED BY <2>2, <2>3
<1>10. /\ req'[q] = r /\ \A o \in Request \ {q} : req'[o] = req[o]
       /\ client'[t] = d /\ \A s \in Session \ {t} : client'[s] = client[s]
  BY <1>2, <1>5, <1>6 DEF UploadTypes
<1>11. UploadTypes'
  <2>1. req' \in [Request -> Reqs] /\ client' \in [Session -> Clients]
    BY <1>2, <1>5, <1>6 DEF UploadTypes
  <2> QED BY <1>2, <1>7, <1>9, <2>1 DEF UploadTypes
<1>12. Frame(t)
  BY <1>2, <1>5, <1>7, <1>8, <1>9, <1>10 DEF Frame
<1>13. U!Token(t) = tokens[k] /\ U!Token(t)' = tokens'[k]
  BY <1>7, <1>8 DEF U!Token
<1>14. MadeFor(k, tokens[k]) /\ MadeFor(k, tokens'[k])
  <2>1. MadeFor(k, tokens[k]) /\ MadeFor(k, b)
    BY <1>2, <1>4, <1>8, <1>13 DEF HasToken
  <2> QED BY <1>9, <2>1
<1>15. HasToken(t)'
  BY <1>7, <1>8, <1>13, <1>14 DEF HasToken, MadeFor
<1>16. Parts(t)' = Parts(t)
  BY <1>7 DEF Parts
<1>17. PartsOk(t)'
  <2>1. U!Alone(t) => /\ Parts(t) \subseteq U!Chunks(t)
                      /\ U!Token(t)'.finished \subseteq Parts(t)
    BY <1>2, <1>4, <1>9, <1>13 DEF PartsOk
  <2> QED BY <1>2, <1>5, <1>7, <1>16, <2>1, PartsStay
<1>18. SavedOk(t)'
  <2>1. SUFFICES ASSUME U!Alone(t), t \notin overlap PROVE SavedOk(t)'
    BY <1>7, PlanStays DEF SavedOk
  <2>2. U!Saving(t)' = {}
    BY <1>2, <1>5, <1>10, <2>1, OneSaver
  <2>3. /\ client[t].acked \subseteq tokens[k].finished
        /\ tokens[k].finished \subseteq b.finished /\ c \in b.finished
        /\ ~req[q].dirty => b = tokens[k]
    BY <1>1, <1>2, <1>3, <1>4, <1>13, <2>1 DEF SavedOk
  <2>4. tokens'[k] = b
    BY <1>9, <2>3
  <2>5. client'[t].acked \subseteq U!Token(t)'.finished
    BY <1>6, <1>10, <1>13, <2>3, <2>4
  <2> QED BY <2>2, <2>5 DEF SavedOk
<1>19. \A p \in Request : req'[p] = req[p] \/ RequestOk(p)'
  BY <1>5, <1>10 DEF RequestOk
<1>20. /\ \A j \in Key : tokens'[j] = tokens[j] \/ MadeFor(j, tokens'[j])
       /\ client[t].phase # "new" => client'[t].phase # "new"
  BY <1>6, <1>9, <1>10, <1>14
<1> QED BY <1>11, <1>12, <1>15, <1>17, <1>18, <1>19, <1>20, SessionStep

\* A body that was made for the key of a session that shares nothing is its own.
LEMMA OwnBody ==
    ASSUME NEW t \in Session, U!Alone(t), NEW b, MadeFor(plan[t].key, b)
    PROVE  b.name = plan[t].name /\ b.total = plan[t].total
BY DEF MadeFor, U!Alone

\* The chunks are listed, and the file is written from them.
LEMMA MergeSteps ==
    ASSUME U!UploadAssumption, UploadInv, NEW q \in Request,
           U!ListChunks(q) \/ U!WriteMerged(q)
    PROVE  UploadInv'
<1>1. req[q].pc \in {"sum", "merge"}
  BY DEF U!ListChunks, U!WriteMerged
<1>2. PICK t \in Session :
              /\ req[q].by = t /\ client[t].phase # "new" /\ q \in U!Flying(t)
              /\ MadeFor(plan[t].key, req[q].body)
              /\ U!Alone(t) =>
                    /\ req[q].body.finished \subseteq Parts(t)
                    /\ req[q].pc \in {"merge", "move"} => Parts(t) = U!Chunks(t)
              /\ UploadTypes /\ req[q] \in Reqs /\ client[t] \in Clients
              /\ plan[t] \in U!Plan /\ PartsOk(t) /\ SavedOk(t)
  BY <1>1, Busy
<1>3. \E r \in Reqs : /\ req' = [req EXCEPT ![q] = r] /\ r.pc \in {"merge", "move"}
                      /\ r.by = t /\ r.body = req[q].body
  <2> PICK v \in Reqs : v = req[q]
    BY <1>2
  <2>1. CASE U!ListChunks(q)
    <3> PICK x \in SUBSET Nat : x = DOMAIN folder[req[q].body.name]
      <4>1. req[q].body.name \in Name
        BY <1>2, ChunksOf DEF MadeFor, UploadTypes
      <4> QED BY <1>2, <4>1 DEF UploadTypes
    <3> DEFINE r == [v EXCEPT !.pc = "merge", !.parts = x]
    <3>1. r \in Reqs /\ r.pc = "merge" /\ r.by = v.by /\ r.body = v.body
      BY DEF Reqs
    <3>2. req' = [req EXCEPT ![q] = r]
      BY <2>1 DEF U!ListChunks
    <3> HIDE DEF r
    <3> QED BY <1>2, <3>1, <3>2
  <2>2. CASE U!WriteMerged(q)
    <3> DEFINE r == [v EXCEPT !.pc = "move"]
    <3>1. r \in Reqs /\ r.pc = "move" /\ r.by = v.by /\ r.body = v.body
      BY DEF Reqs
    <3>2. req' = [req EXCEPT ![q] = r]
      BY <2>2 DEF U!WriteMerged
    <3> HIDE DEF r
    <3> QED BY <1>2, <3>1, <3>2
  <2> QED BY <2>1, <2>2
<1>4. PICK r \in Reqs : /\ req' = [req EXCEPT ![q] = r] /\ r.pc \in {"merge", "move"}
                        /\ r.by = t /\ r.body = req[q].body
  BY <1>3
<1>5. /\ UNCHANGED <<plan, tokens, folder, merged, client, overlap>>
      /\ merged' = [n \in Name |-> merged'[n]]
      /\ client' = [client EXCEPT ![t] = client[t]]
  BY <1>2 DEF U!ListChunks, U!WriteMerged, UploadTypes
<1>6. U!Alone(t) => Parts(t) = U!Chunks(t)
  <2>1. CASE U!WriteMerged(q)
    BY <1>2, <2>1 DEF U!WriteMerged
  <2>2. CASE U!ListChunks(q)
    <3> SUFFICES ASSUME U!Alone(t) PROVE Parts(t) = U!Chunks(t)
      OBVIOUS
    <3> PICK f : f = req[q].body.finished
      OBVIOUS
    <3>1. Cardinality(f) = plan[t].total
      <4>1. req[q].body.total = plan[t].total
        BY <1>2, OwnBody
      <4>2. U!Complete(req[q].body)
        BY <2>2 DEF U!ListChunks
      <4>3. Cardinality(f) = req[q].body.total
        BY <4>2 DEF U!Complete, U!Cardinality, Cardinality
      <4> QED BY <4>1, <4>3
    <3>2. f \subseteq Parts(t) /\ Parts(t) \subseteq U!Chunks(t)
      BY <1>2 DEF PartsOk
    <3>3. IsFiniteSet(U!Chunks(t)) /\ Cardinality(U!Chunks(t)) = plan[t].total
      BY <1>2, ChunksOf DEF U!Chunks
    <3>4. f = U!Chunks(t)
      BY <3>1, <3>2, <3>3, FS_Subset
    <3> QED BY <3>2, <3>4
  <2> QED BY <2>1, <2>2
<1>7. r.pc \notin {"store", "diff", "write"} /\ client'[t].acked = client[t].acked
  BY <1>4, <1>5
<1>8. SavedOk(t)'
  BY <1>2, <1>4, <1>5, <1>7, SavedStays
<1>9. r.by = t /\ MadeFor(plan[t].key, r.body) /\ client[t].phase # "new" /\ req[q].by = t
      /\ (U!Alone(t) => r.body.finished \subseteq Parts(t))
      /\ \A s \in Session \ {t} : s \in overlap' <=> s \in overlap
  BY <1>2, <1>4, <1>5
<1> QED BY ZenonT(60), <1>2, <1>4, <1>5, <1>6, <1>7, <1>8, <1>9, QuietStep

\* A request ends: refused, broken off, or with the file in place.
LEMMA EndSteps ==
    ASSUME U!UploadAssumption, UploadInv, NEW q \in Request,
           \/ U!RefuseMerge(q) \/ U!NoChunks(q) \/ U!NothingToMove(q)
           \/ U!StoreMerged(q) \/ U!Break(q)
    PROVE  UploadInv'
<1>1. req[q].pc # "idle"
  BY DEF U!RefuseMerge, U!NoChunks, U!NothingToMove, U!StoreMerged, U!Break
<1>2. PICK t \in Session :
              /\ req[q].by = t /\ client[t].phase # "new" /\ q \in U!Flying(t)
              /\ UploadTypes /\ req[q] \in Reqs /\ client[t] \in Clients
              /\ plan[t] \in U!Plan /\ SavedOk(t)
  BY <1>1, Busy
<1>3. PICK r \in Reqs : req' = [req EXCEPT ![q] = r] /\ r.pc = "idle"
  <2>1. U!Idle \in Reqs /\ U!Idle.pc = "idle"
    BY DEF U!Idle, U!NoToken, U!None, Bodies, Reqs
  <2>2. req' = [req EXCEPT ![q] = U!Idle]
    BY DEF U!RefuseMerge, U!NoChunks, U!NothingToMove, U!StoreMerged, U!Break, U!Refuse
  <2> QED BY <2>1, <2>2
<1>4. PICK v \in Clients : v = client[t]
  BY <1>2
<1>5. U!Chunks(t) \subseteq Nat
  BY <1>2, ChunksOf DEF U!Chunks
<1>6. \E d \in Clients :
         /\ client' = [client EXCEPT ![t] = d] /\ d.phase # "new"
         /\ \/ d.acked = v.acked /\ overlap' = overlap
            \/ d.acked = {} /\ U!Flying(t) = {q} /\ overlap' = overlap \ {t}
  <2>1. ASSUME client' = [client EXCEPT ![t] = U!SendAgain(@, t)]
        PROVE  \E d \in Clients : /\ client' = [client EXCEPT ![t] = d] /\ d.phase = "send"
                                  /\ d.acked = {}
    <3> DEFINE d == [v EXCEPT !.phase = "send", !.todo = U!Chunks(t), !.acked = {},
                              !.slow = TRUE]
    <3>1. d \in Clients /\ d.phase = "send" /\ d.acked = {}
      BY <1>5 DEF Clients
    <3>2. d = U!SendAgain(client[t], t)
      BY <1>4 DEF U!SendAgain
    <3> HIDE DEF d
    <3>3. client' = [client EXCEPT ![t] = d]
      BY <2>1, <3>2
    <3> QED BY <3>1, <3>3
  <2>2. CASE U!Refuse(q)
    <3>1. /\ client' = [client EXCEPT ![t] = U!SendAgain(@, t)]
          /\ U!Flying(t) = {q} /\ overlap' = overlap \ {t}
      BY <1>2, <2>2 DEF U!Refuse
    <3> QED BY <2>1, <3>1
  <2>3. CASE U!StoreMerged(q)
    <3> DEFINE d == [v EXCEPT !.phase = "done"]
    <3>1. d \in Clients /\ d.phase = "done" /\ d.acked = v.acked
      BY DEF Clients
    <3>2. client' = [client EXCEPT ![t] = d] /\ overlap' = overlap
      BY <1>2, <1>4, <2>3 DEF U!StoreMerged
    <3> HIDE DEF d
    <3> QED BY <3>1, <3>2
  <2>4. CASE U!Break(q)
    <3>1. CASE /\ client' = [client EXCEPT ![t].todo = @ \cup {req[q].chunk}]
               /\ overlap' = overlap
      <4> PICK c \in Nat : c = req[q].chunk
        BY <1>2 DEF Reqs
      <4> DEFINE d == [v EXCEPT !.todo = @ \cup {c}]
      <4>1. d \in Clients /\ d.phase = v.phase /\ d.acked = v.acked
        BY DEF Clients
      <4>2. client' = [client EXCEPT ![t] = d]
        BY <1>4, <3>1
      <4> HIDE DEF d
      <4> QED BY <1>2, <1>4, <3>1, <4>1, <4>2
    <3>2. CASE /\ client' = [client EXCEPT ![t] = U!SendAgain(@, t)]
               /\ U!Flying(t) = {q} /\ overlap' = overlap \ {t}
      BY <2>1, <3>2
    <3> QED BY <1>2, <2>4, <3>1, <3>2 DEF U!Break
  <2> QED BY <2>2, <2>3, <2>4 DEF U!RefuseMerge, U!NoChunks, U!NothingToMove
<1>7. PICK d \in Clients :
         /\ client' = [client EXCEPT ![t] = d] /\ d.phase # "new"
         /\ \/ d.acked = v.acked /\ overlap' = overlap
            \/ d.acked = {} /\ U!Flying(t) = {q} /\ overlap' = overlap \ {t}
  BY <1>6
<1>8. UNCHANGED <<plan, tokens, folder>> /\ merged' = [n \in Name |-> merged'[n]]
  <2>1. UNCHANGED <<plan, tokens, folder>>
    BY DEF U!RefuseMerge, U!NoChunks, U!NothingToMove, U!StoreMerged, U!Break, U!Refuse
  <2>2. merged = [n \in Name |-> merged[n]]
    BY <1>2 DEF UploadTypes
  <2>3. CASE U!StoreMerged(q)
    <3> PICK m, f : merged' = [merged EXCEPT ![m] = f]
      BY <2>3 DEF U!StoreMerged
    <3> QED BY <2>1, <2>2
  <2>4. CASE ~U!StoreMerged(q)
    <3>1. merged' = merged
      BY <2>4 DEF U!RefuseMerge, U!NoChunks, U!NothingToMove, U!Break, U!Refuse
    <3> QED BY <2>1, <2>2, <3>1
  <2> QED BY <2>3, <2>4
<1>9. client'[t] = d
  BY <1>2, <1>7 DEF UploadTypes
<1>10. /\ r.pc \notin {"store", "diff", "write"}
       /\ \A s \in Session \ {t} : s \in overlap' <=> s \in overlap
       /\ \/ /\ t \notin overlap' => t \notin overlap
             /\ client'[t].acked = client[t].acked
          \/ client'[t].acked = {} /\ U!Flying(t) = {q}
  BY <1>3, <1>4, <1>7, <1>9
<1>11. SavedOk(t)'
  BY <1>2, <1>3, <1>8, <1>10, SavedStays
<1> QED BY <1>2, <1>3, <1>7, <1>8, <1>10, <1>11, QuietStep

\* A task obtains the token of its key.
LEMMA TaskStep ==
    ASSUME U!UploadAssumption, UploadInv, NEW t \in Session, U!CreateTask(t)
    PROVE  UploadInv'
<1>1. UploadTypes /\ PartsOk(t) /\ SavedOk(t) /\ plan[t] \in U!Plan /\ client[t] \in Clients
  BY DEF UploadInv, UploadTypes
<1>2. client[t].phase = "new" /\ UNCHANGED <<plan, folder, merged, req, overlap>>
  BY DEF U!CreateTask
<1> PICK p \in U!Plan : p = plan[t]
  BY <1>1
<1>3. p.key \in Key /\ p.name \in Name /\ p.total \in Nat /\ U!Chunks(t) \subseteq Nat
  BY <1>1, ChunksOf DEF U!Chunks
<1> PICK k \in Key : k = p.key
  BY <1>3
<1>4. PICK d \in Clients : /\ client' = [client EXCEPT ![t] = d] /\ d.phase = "send"
                           /\ d.acked = client[t].acked
  <2> PICK v \in Clients : v = client[t]
    BY <1>1
  <2> DEFINE d == [v EXCEPT !.phase = "send", !.todo = U!Chunks(t)]
  <2>1. d \in Clients /\ d.phase = "send" /\ d.acked = v.acked
    BY <1>3 DEF Clients
  <2>2. client' = [client EXCEPT ![t] = d]
    BY <1>1 DEF U!CreateTask, UploadTypes
  <2> HIDE DEF d
  <2> QED BY <2>1, <2>2
<1>5. PICK b \in Bodies : b = U!Payload(t) /\ b.finished = {} /\ MadeFor(k, b)
  <2>1. U!Payload(t) \in Bodies /\ U!Payload(t).finished = {}
        /\ U!Payload(t).name = p.name /\ U!Payload(t).total = p.total
    BY <1>3 DEF U!Payload, Bodies
  <2> QED BY <2>1 DEF MadeFor
<1>6. PICK o \in Bodies : o = tokens[k]
  BY <1>1 DEF UploadTypes
<1>7. o = U!NoToken \/ MadeFor(k, o)
  BY <1>6 DEF UploadInv
<1>8. PICK n \in Bodies : /\ tokens' = [tokens EXCEPT ![k] = n] /\ MadeFor(k, n)
                          /\ (n = b /\ o = U!NoToken) \/ n = o
  <2>1. tokens' = [tokens EXCEPT ![k] = IF o = U!NoToken THEN b ELSE o]
    BY <1>5, <1>6 DEF U!CreateTask
  <2>2. CASE o = U!NoToken
    BY <1>5, <2>1, <2>2
  <2>3. CASE o # U!NoToken
    BY <1>7, <2>1, <2>3
  <2> QED BY <2>2, <2>3
<1>9. o.finished = n.finished
  BY <1>5, <1>8 DEF U!NoToken
<1>10. /\ tokens' \in [Key -> Bodies] /\ tokens'[k] = n
       /\ \A j \in Key \ {k} : tokens'[j] = tokens[j]
       /\ client' \in [Session -> Clients] /\ client'[t] = d
       /\ \A s \in Session \ {t} : client'[s] = client[s]
  BY <1>1, <1>4, <1>8 DEF UploadTypes
<1>11. UploadTypes'
  BY <1>1, <1>2, <1>10 DEF UploadTypes
<1>12. Frame(t)
  BY <1>2, <1>10 DEF Frame
<1>13. U!Token(t) = o /\ U!Token(t)' = n
  BY <1>2, <1>6, <1>10 DEF U!Token
<1>14. HasToken(t)'
  BY <1>2, <1>8, <1>13 DEF HasToken, MadeFor
<1>15. Parts(t)' = Parts(t) /\ U!Chunks(t)' = U!Chunks(t)
  BY <1>2 DEF Parts, U!Chunks
<1>16. U!Flying(t)' = {} /\ U!Saving(t)' = {}
  <2>1. \A q \in Request : RequestOk(q)
    BY DEF UploadInv
  <2>2. \A q \in Request : req[q].pc # "idle" => req[q].by # t
    BY <1>2, <2>1 DEF RequestOk
  <2>3. U!Flying(t)' = {}
    BY <1>2, <2>2 DEF U!Flying
  <2> QED BY <2>3 DEF U!Saving
<1>17. PartsOk(t)'
  BY <1>1, <1>2, <1>9, <1>13, <1>15, <1>16, PlanStays DEF PartsOk
<1>18. SavedOk(t)'
  BY <1>1, <1>2, <1>4, <1>9, <1>10, <1>13, <1>16, PlanStays DEF SavedOk
<1>19. /\ \A j \in Key : tokens'[j] = tokens[j] \/ MadeFor(j, tokens'[j])
       /\ \A q \in Request : req'[q] = req[q] \/ RequestOk(q)'
       /\ client[t].phase # "new" => client'[t].phase # "new"
  BY <1>2, <1>8, <1>10
<1> QED BY <1>11, <1>12, <1>14, <1>17, <1>18, <1>19, SessionStep

\* Every step of the composite keeps it.
LEMMA UploadInvariance == Spec => []UploadInv
<1>1. U!UploadAssumption
  BY ProgressAssumption
<1>2. Init => UploadInv
  BY <1>1, InitUploadInv DEF Init
<1>3. UploadInv /\ [Next]_vars => UploadInv'
  <2> SUFFICES ASSUME UploadInv, [Next]_vars PROVE UploadInv'
    OBVIOUS
  <2>1. CASE U!Next
    <3>1. ASSUME NEW q \in Request, U!Handle(q) PROVE UploadInv'
      BY <1>1, <3>1, StoreStep, DiffStep, WriteStep, MergeSteps, EndSteps DEF U!Handle
    <3>2. ASSUME NEW q \in Request, U!Break(q) PROVE UploadInv'
      BY <1>1, <3>2, EndSteps
    <3>3. ASSUME NEW s \in Session, U!Send(s) PROVE UploadInv'
      BY <1>1, <3>3, TaskStep, BeginSteps DEF U!Send
    <3> QED BY <2>1, <3>1, <3>2, <3>3 DEF U!Next
  <2>2. CASE UNCHANGED upload
    <3>1. UNCHANGED <<plan, tokens, folder, merged, client, req, overlap>>
      BY <2>2 DEF upload
    <3>2. /\ \A s : /\ HasToken(s)' = HasToken(s) /\ PartsOk(s)' = PartsOk(s)
                    /\ SavedOk(s)' = SavedOk(s)
          /\ \A q : RequestOk(q)' = RequestOk(q)
          /\ UploadTypes' = UploadTypes
      BY <3>1 DEF HasToken, PartsOk, SavedOk, RequestOk, UploadTypes, MadeFor, Parts,
                  U!Token, U!Chunks, U!Alone, U!Flying, U!Saving
    <3> QED BY <3>1, <3>2 DEF UploadInv, MadeFor, U!NoToken, U!None
  <2>3. U!Next \/ UNCHANGED upload
    BY DEF Next, vars, Starting, Uploading, Paying
  <2> QED BY <2>1, <2>2, <2>3
<1> QED BY <1>2, <1>3, PTL DEF Spec

\* For any clients and files: as long as no two chunks of a session are saved at a
\* time, each one that was answered is counted in the token, whatever was sent
\* twice, broke off or was sent again.
THEOREM AnsweredCounts == Spec => []NothingForgotten
<1>1. UploadInv => NothingForgotten
  BY DEF UploadInv, SavedOk, NothingForgotten, U!NothingForgotten
<1> QED BY <1>1, UploadInvariance, PTL

\* What the assembly of files is about, of the sessions that share nothing.
Wanted == [s \in Session |-> IF U!Alone(s) THEN U!Chunks(s) ELSE {}]
Arrived == [s \in Session |-> IF U!Alone(s) THEN Parts(s) ELSE {}]
Whole == {s \in Session : U!Alone(s) /\ merged[plan[s].name] # <<>>}

\* A chunk that is stored arrives, if its session shares nothing.
LEMMA StoreArrives ==
    ASSUME U!UploadAssumption, UploadInv, NEW q \in Request, U!Store(q)
    PROVE  /\ Wanted' = Wanted /\ Whole' = Whole
           /\ \/ Arrived' = Arrived
              \/ \E t \in Session, c \in U!Chunk :
                    c \in Wanted[t] /\ Arrived' = [Arrived EXCEPT ![t] = @ \cup {c}]
<1>1. req[q].pc = "store" /\ UNCHANGED <<plan, merged>>
  BY DEF U!Store
<1>2. PICK t \in Session :
              /\ req[q].by = t /\ req[q].chunk \in U!Chunks(t) /\ UploadTypes
              /\ plan[t] \in U!Plan
  BY <1>1, Busy
<1>3. /\ \A s : (U!Alone(s) <=> U!Alone(s)') /\ U!Chunks(s)' = U!Chunks(s)
      /\ \A s : plan'[s] = plan[s]
  BY <1>1, PlanStays
<1>4. Wanted' = Wanted /\ Whole' = Whole
  BY <1>1, <1>3 DEF Wanted, Whole
<1> PICK c : c = req[q].chunk
  OBVIOUS
<1>5. c \in U!Chunk
  BY <1>2, ChunksOf DEF U!Chunks, U!Chunk
<1>6. /\ Parts(t)' = Parts(t) \cup {c}
      /\ \A n \in Name \ {plan[t].name} : DOMAIN folder'[n] = DOMAIN folder[n]
  <2> PICK m \in Name : m = plan[t].name
    BY <1>2, ChunksOf
  <2> PICK g : g = [d \in DOMAIN folder[m] \cup {c} |-> IF d = c THEN t ELSE folder[m][d]]
    OBVIOUS
  <2>1. DOMAIN g = DOMAIN folder[m] \cup {c}
    OBVIOUS
  <2>2. folder' = [folder EXCEPT ![m] = g]
    BY <1>2 DEF U!Store
  <2>3. folder = [n \in Name |-> folder[n]]
    BY <1>2 DEF UploadTypes
  <2>4. folder' = [n \in Name |-> IF n = m THEN g ELSE folder[n]]
    BY <2>2, <2>3
  <2>5. folder'[m] = g /\ \A n \in Name \ {m} : folder'[n] = folder[n]
    BY <2>4
  <2> QED BY <1>3, <2>1, <2>5 DEF Parts
<1>7. ASSUME NEW s \in Session, U!Alone(s), s # t PROVE Parts(s)' = Parts(s)
  <2>1. plan[s].name # plan[t].name /\ plan[s] \in U!Plan
    BY <1>2, <1>7 DEF U!Alone, UploadTypes
  <2>2. plan[s].name \in Name
    BY <2>1, ChunksOf
  <2> QED BY <1>3, <1>6, <2>1, <2>2 DEF Parts
<1>8. CASE U!Alone(t)
  <2>1. Arrived' = [Arrived EXCEPT ![t] = @ \cup {c}]
    <3>1. Arrived' = [s \in Session |-> IF U!Alone(s) THEN Parts(s)' ELSE {}]
      BY <1>3 DEF Arrived
    <3>2. \A s \in Session : (IF U!Alone(s) THEN Parts(s)' ELSE {}) =
             IF s = t THEN Arrived[t] \cup {c} ELSE Arrived[s]
      BY <1>6, <1>7, <1>8 DEF Arrived
    <3>3. Arrived = [s \in Session |-> Arrived[s]]
      BY DEF Arrived
    <3> QED BY <3>1, <3>2, <3>3
  <2>2. c \in Wanted[t]
    BY <1>2, <1>8 DEF Wanted
  <2> QED BY <1>4, <1>5, <2>1, <2>2
<1>9. CASE ~U!Alone(t)
  <2>1. Arrived' = [s \in Session |-> IF U!Alone(s) THEN Parts(s)' ELSE {}]
    BY <1>3 DEF Arrived
  <2>2. Arrived' = Arrived
    BY <1>7, <1>9, <2>1 DEF Arrived
  <2> QED BY <1>4, <2>2
<1> QED BY <1>8, <1>9

\* A file that is moved into place is put together from all of its chunks.
LEMMA MoveAssembles ==
    ASSUME U!UploadAssumption, UploadInv, NEW q \in Request, U!StoreMerged(q)
    PROVE  /\ Wanted' = Wanted /\ Arrived' = Arrived
           /\ \/ Whole' = Whole
              \/ \E t \in Session : /\ Wanted[t] # {} /\ Arrived[t] = Wanted[t]
                                    /\ Whole' = Whole \cup {t}
<1>1. /\ req[q].pc = "move" /\ UNCHANGED <<plan, folder>>
      /\ temp[req[q].body.name] # <<>>
      /\ merged' = [merged EXCEPT ![req[q].body.name] = temp[req[q].body.name]]
  BY DEF U!StoreMerged
<1>2. PICK t \in Session :
              /\ req[q].by = t /\ MadeFor(plan[t].key, req[q].body)
              /\ U!Alone(t) => Parts(t) = U!Chunks(t)
              /\ UploadTypes /\ plan[t] \in U!Plan
  BY <1>1, Busy
<1>3. /\ \A s : (U!Alone(s) <=> U!Alone(s)') /\ U!Chunks(s)' = U!Chunks(s)
      /\ \A s : plan'[s] = plan[s]
  BY <1>1, PlanStays
<1>4. \A s : Parts(s)' = Parts(s)
  BY <1>1 DEF Parts
<1>5. Wanted' = Wanted /\ Arrived' = Arrived
  BY <1>3, <1>4 DEF Wanted, Arrived
<1>6. PICK u \in Session : plan[u].key = plan[t].key /\ req[q].body.name = plan[u].name
  BY <1>2 DEF MadeFor
<1> PICK m, f : m = plan[u].name /\ f = temp[m]
  OBVIOUS
<1>7. m \in Name /\ f # <<>> /\ merged' = [merged EXCEPT ![m] = f]
  <2>1. plan[u] \in U!Plan
    BY <1>2 DEF UploadTypes
  <2> QED BY <1>1, <1>6, <2>1, ChunksOf
<1>8. merged'[m] = f /\ \A n \in Name \ {m} : merged'[n] = merged[n]
  <2>1. merged = [n \in Name |-> merged[n]]
    BY <1>2 DEF UploadTypes
  <2>2. merged' = [n \in Name |-> IF n = m THEN f ELSE merged[n]]
    BY <1>7, <2>1
  <2> QED BY <1>7, <2>2
<1>9. ASSUME NEW s \in Session, U!Alone(s), plan[s].name = m PROVE s = u
  BY <1>9 DEF U!Alone
<1>10. ASSUME NEW s \in Session, U!Alone(s), s # u PROVE merged'[plan[s].name] = merged[plan[s].name]
  <2>1. plan[s] \in U!Plan /\ plan[s].name # m
    BY <1>2, <1>9, <1>10 DEF UploadTypes
  <2>2. plan[s].name \in Name
    BY <2>1, ChunksOf
  <2> QED BY <1>8, <2>1, <2>2
<1>11. Whole' = {s \in Session : U!Alone(s) /\ merged'[plan[s].name] # <<>>}
  BY <1>3 DEF Whole
<1>12. CASE U!Alone(u)
  <2>1. u = t
    BY <1>6, <1>12 DEF U!Alone
  <2>2. Wanted[u] # {} /\ Arrived[u] = Wanted[u]
    <3>1. U!Chunks(t) # {}
      BY <1>2, ChunksOf DEF U!Chunks
    <3> QED BY <1>2, <1>12, <2>1, <3>1 DEF Wanted, Arrived
  <2>3. Whole' = Whole \cup {u}
    <3>1. u \in Whole'
      BY <1>7, <1>8, <1>11, <1>12
    <3>2. \A s \in Session : s # u => (s \in Whole' <=> s \in Whole)
      BY <1>10, <1>11 DEF Whole
    <3>3. Whole \subseteq Session /\ Whole' \subseteq Session
      BY <1>11 DEF Whole
    <3> QED BY <3>1, <3>2, <3>3
  <2> QED BY <1>5, <2>2, <2>3
<1>13. CASE ~U!Alone(u)
  <2>1. \A s \in Session : s \in Whole' <=> s \in Whole
    BY <1>10, <1>11, <1>13 DEF Whole
  <2>2. Whole \subseteq Session /\ Whole' \subseteq Session
    BY <1>11 DEF Whole
  <2> QED BY <1>5, <2>1, <2>2
<1> QED BY <1>12, <1>13

\* The other steps leave the files as they are.
LEMMA FilesStay ==
    ASSUME UNCHANGED <<plan, folder, merged>>
    PROVE  UNCHANGED <<Wanted, Arrived, Whole>>
<1>1. /\ \A s : (U!Alone(s) <=> U!Alone(s)') /\ U!Chunks(s)' = U!Chunks(s)
      /\ \A s : Parts(s)' = Parts(s)
  BY PlanStays DEF Parts
<1> QED BY <1>1 DEF Wanted, Arrived, Whole

\* For any clients and files: a file that shares neither its name nor the key of its
\* task is put together from all of its chunks or not at all, however often and in
\* whatever order they are sent, saved over each other or lost.
THEOREM UploadsAssemble == Spec => IsAssembly
<1>1. U!UploadAssumption
  BY ProgressAssumption
<1>2. Init => U!A!Init
  <2> SUFFICES ASSUME Init PROVE U!A!Init
    OBVIOUS
  <2>1. UploadInv /\ UploadTypes
    BY <1>1, InitUploadInv DEF Init, UploadInv
  <2>2. ASSUME NEW s \in Session
        PROVE  U!Chunks(s) \subseteq U!Chunk /\ Parts(s) = {} /\ merged[plan[s].name] = <<>>
    <3>1. plan[s] \in U!Plan
      BY <2>1 DEF UploadTypes
    <3>2. plan[s].name \in Name /\ U!Chunks(s) \subseteq U!Chunk
      BY <1>1, <3>1, ChunksOf DEF U!Chunks, U!Chunk
    <3>3. folder[plan[s].name] = <<>> /\ merged[plan[s].name] = <<>>
      BY <3>2 DEF Init, U!Init
    <3> QED BY <3>2, <3>3 DEF Parts
  <2>3. Wanted \in [Session -> SUBSET U!Chunk] /\ Arrived = [s \in Session |-> {}] /\ Whole = {}
    BY <2>2 DEF Wanted, Arrived, Whole
  <2> QED BY <2>3 DEF U!A!Init, Wanted, Arrived, Whole, Parts
<1>3. UploadInv /\ [Next]_vars => [U!A!Next]_(U!A!vars)
  <2> SUFFICES ASSUME UploadInv, [Next]_vars PROVE U!A!Next \/ UNCHANGED U!A!vars
    OBVIOUS
  <2>1. ASSUME NEW q \in Request, U!Store(q) PROVE U!A!Next \/ UNCHANGED U!A!vars
    BY <1>1, <2>1, StoreArrives DEF U!A!Next, U!A!Arrive, U!A!vars, Wanted, Arrived, Whole, Parts
  <2>2. ASSUME NEW q \in Request, U!StoreMerged(q) PROVE U!A!Next \/ UNCHANGED U!A!vars
    BY <1>1, <2>2, MoveAssembles
       DEF U!A!Next, U!A!Assemble, U!A!vars, Wanted, Arrived, Whole, Parts
  <2>3. CASE UNCHANGED <<plan, folder, merged>>
    BY <2>3, FilesStay DEF U!A!vars, Wanted, Arrived, Whole, Parts
  <2>4. \/ \E q \in Request : U!Store(q) \/ U!StoreMerged(q)
        \/ UNCHANGED <<plan, folder, merged>>
    <3>1. CASE U!Next
      <4>1. ASSUME NEW q \in Request, U!Handle(q)
            PROVE  U!Store(q) \/ U!StoreMerged(q) \/ UNCHANGED <<plan, folder, merged>>
        BY <4>1 DEF U!Handle, U!SaveDiff, U!SaveWrite, U!RefuseMerge, U!ListChunks,
                    U!NoChunks, U!WriteMerged, U!NothingToMove, U!Refuse
      <4>2. ASSUME NEW q \in Request, U!Break(q) PROVE UNCHANGED <<plan, folder, merged>>
        BY <4>2 DEF U!Break
      <4>3. ASSUME NEW s \in Session, U!Send(s) PROVE UNCHANGED <<plan, folder, merged>>
        BY <4>3 DEF U!Send, U!CreateTask, U!BeginMerge, U!BeginChunk
      <4> QED BY <3>1, <4>1, <4>2, <4>3 DEF U!Next
    <3>2. CASE UNCHANGED upload
      BY <3>2 DEF upload
    <3> QED BY <3>1, <3>2 DEF Next, vars, Starting, Uploading, Paying
  <2> QED BY <2>1, <2>2, <2>3, <2>4
<1> QED BY <1>2, <1>3, UploadInvariance, PTL DEF Spec, IsAssembly, U!IsAssembly, U!A!Spec

-----------------------------------------------------------------------------
(* The types of the start. *)

\* The lock never lasts for longer than it was taken for, nobody synchronises for
\* longer than that takes, and only so many instances stop.
StartBounds ==
    /\ sLock.left \in 0 .. S!SyncTtl
    /\ \A i \in Instance : sNode[i].age \in 0 .. sConfig.work
    /\ sFails \in 0 .. MaxStops

\* With these bounds the types of StartInv are those of Startup.
LEMMA StartTypesBounded ==
    ASSUME S!StartupAssumption, StartTypes, StartBounds PROVE S!TypeOK
<1>1. sLock \in [by : Instance \cup {"none"}, left : 0 .. S!SyncTtl]
  BY DEF StartTypes, StartBounds
<1>2. ASSUME NEW i \in Instance
      PROVE  sNode[i] \in [pc : S!SyncPc \cup {"down", "wait", "init", "listen", "up"},
                           age : 0 .. sConfig.work, from : BOOLEAN, to : BOOLEAN]
  <2>1. sNode[i] \in Nodes /\ sNode[i].age \in 0 .. sConfig.work
    BY DEF StartTypes, StartBounds
  <2> QED BY <2>1 DEF Nodes
<1>3. sNode \in [Instance -> [pc : S!SyncPc \cup {"down", "wait", "init", "listen", "up"},
                              age : 0 .. sConfig.work, from : BOOLEAN, to : BOOLEAN]]
  BY <1>2 DEF StartTypes
<1> QED BY <1>1, <1>3 DEF StartTypes, StartBounds, S!TypeOK, S!Migration

\* An instance that moves keeps its age or starts anew, and keeps the lock, gives
\* it back or takes it.
LEMMA BoundsMove ==
    ASSUME S!StartupAssumption, StartTypes, StartBounds, NEW i \in Instance,
           S!Advance(i) \/ S!Stop(i)
    PROVE  StartBounds'
<1>1. sConfig' = sConfig /\ sConfig.work \in Nat /\ MaxStops \in Nat
  BY DEF StartTypes, S!StartupAssumption, S!Advance, S!Stop, S!Preload, S!SyncAlone, S!TakeLock,
         S!LookTables, S!Rename, S!RenameFails, S!Synchronize, S!CheckVersion, S!Migrate,
         S!UpdateVersion, S!Unlock, S!OnInit, S!Listen
<1>2. sFails' \in 0 .. MaxStops
  <2>1. sFails' = sFails \/ (sFails < MaxStops /\ sFails' = sFails + 1)
    BY DEF S!Advance, S!Stop, S!Preload, S!SyncAlone, S!TakeLock, S!LookTables, S!Rename,
           S!RenameFails, S!Synchronize, S!CheckVersion, S!Migrate, S!UpdateVersion,
           S!Unlock, S!OnInit, S!Listen
  <2> QED BY <1>1, <2>1 DEF StartBounds
<1>3. sLock' \in {sLock, S!NoLock, S!Taken(i, S!SyncTtl)}
  BY DEF S!Advance, S!Stop, S!Preload, S!SyncAlone, S!TakeLock, S!LookTables, S!Rename,
         S!RenameFails, S!Synchronize, S!CheckVersion, S!Migrate, S!UpdateVersion,
         S!Unlock, S!OnInit, S!Listen, S!Released
<1>4. sLock'.left \in 0 .. S!SyncTtl
  BY <1>3, Times DEF StartBounds, S!NoLock, S!Taken
<1>5. \E n : sNode' = [sNode EXCEPT ![i] = n] /\ n.age \in {0, sNode[i].age}
  <2> DEFINE Moves == \E n : sNode' = [sNode EXCEPT ![i] = n] /\ n.age \in {0, sNode[i].age}
  <2>1. sNode[i] \in Nodes
    BY DEF StartTypes
  <2>2. ASSUME NEW pc, S!Goto(i, pc) PROVE Moves
    <3> PICK n : n = [sNode[i] EXCEPT !.pc = pc]
      OBVIOUS
    <3>1. n.age = sNode[i].age /\ sNode' = [sNode EXCEPT ![i] = n]
      BY <2>1, <2>2 DEF S!Goto, Nodes
    <3> QED BY <3>1
  <2>3. S!LookTables(i) => Moves
    <3> PICK n : n = [sNode[i] EXCEPT !.pc = "rename", !.from = sOld, !.to = (sNew # "absent")]
      OBVIOUS
    <3>1. n.age = sNode[i].age /\ (S!LookTables(i) => sNode' = [sNode EXCEPT ![i] = n])
      BY <2>1 DEF S!LookTables, Nodes
    <3> QED BY <3>1
  <2>4. S!Down.age = 0 /\ [S!Down EXCEPT !.pc = "init"].age = 0
    BY DEF S!Down
  <2>5. S!RenameFails(i) \/ S!Unlock(i) \/ S!Stop(i) => Moves
    BY <2>4 DEF S!RenameFails, S!Unlock, S!Stop
  <2>6. S!LookTables(i) \/ S!RenameFails(i) \/ S!Unlock(i) \/ S!Stop(i) \/ \E pc : S!Goto(i, pc)
    BY DEF S!Advance, S!Preload, S!SyncAlone, S!TakeLock, S!Rename, S!Synchronize,
           S!CheckVersion, S!Migrate, S!UpdateVersion, S!OnInit, S!Listen
  <2> HIDE DEF Moves
  <2>7. Moves
    BY <2>2, <2>3, <2>5, <2>6
  <2> QED BY <2>7 DEF Moves
<1>6. ASSUME NEW j \in Instance PROVE sNode'[j].age \in {0, sNode[j].age}
  BY <1>5 DEF StartTypes
<1>7. \A j \in Instance : sNode'[j].age \in 0 .. sConfig'.work
  BY <1>1, <1>6 DEF StartBounds
<1> QED BY <1>2, <1>4, <1>7 DEF StartBounds

\* Nobody who synchronises outlasts the work there is.
LEMMA BoundsTick ==
    ASSUME S!StartupAssumption, StartTypes, StartBounds, S!Tick
    PROVE  StartBounds'
<1>1. /\ UNCHANGED <<sConfig, sFails>> /\ sConfig.work \in Nat
      /\ sLock' = S!Aged(sLock, S!Minute)
      /\ \A i \in S!Syncing : sNode[i].age < sConfig.work
      /\ sNode' = [i \in Instance |-> IF i \in S!Syncing
                                      THEN [sNode[i] EXCEPT !.age = @ + 1] ELSE sNode[i]]
  BY DEF S!Tick, StartTypes, S!StartupAssumption
<1>2. ASSUME NEW i \in Instance PROVE sNode'[i].age \in 0 .. sConfig.work
  <2>1. sNode[i] \in Nodes /\ sNode[i].age \in 0 .. sConfig.work
    BY DEF StartTypes, StartBounds
  <2>2. CASE i \in S!Syncing
    <3>1. sNode'[i].age = sNode[i].age + 1 /\ sNode[i].age < sConfig.work
      BY <1>1, <2>1, <2>2 DEF Nodes
    <3> QED BY <1>1, <2>1, <3>1
  <2>3. CASE i \notin S!Syncing
    BY <1>1, <2>1, <2>3
  <2> QED BY <2>2, <2>3
<1>3. sLock'.left \in 0 .. S!SyncTtl
  <2> PICK b, l : b = sLock.by /\ l = sLock.left
    OBVIOUS
  <2>1. sLock = [by |-> b, left |-> l] /\ l \in 0 .. S!SyncTtl
    BY DEF StartTypes, StartBounds
  <2>2. CASE l > S!Minute
    <3>1. sLock' = [by |-> b, left |-> l - S!Minute]
      BY <1>1, <2>1, <2>2 DEF S!Aged
    <3> QED BY <2>1, <2>2, <3>1, Times
  <2>3. CASE ~(l > S!Minute)
    BY <1>1, <2>1, <2>3, Times DEF S!Aged, S!NoLock
  <2> QED BY <2>2, <2>3
<1> QED BY <1>1, <1>2, <1>3 DEF StartBounds

\* The start is well formed throughout every behaviour.
LEMMA StartIsTyped == Spec => []S!TypeOK
<1>1. S!StartupAssumption
  BY ProgressAssumption
<1>2. Init => StartBounds
  <2> SUFFICES ASSUME Init PROVE StartBounds
    OBVIOUS
  <2>1. sLock = S!NoLock /\ sFails = 0 /\ sNode = [i \in Instance |-> S!Down]
        /\ sConfig \in Starts
    BY DEF Init, S!Init
  <2>2. sConfig.work \in Nat /\ MaxStops \in Nat
    BY <1>1, <2>1 DEF S!StartupAssumption
  <2> QED BY <2>1, <2>2, Times DEF StartBounds, S!NoLock, S!Down
<1>3. StartInv /\ StartBounds /\ [Next]_vars => StartBounds'
  <2> SUFFICES ASSUME StartInv, StartBounds, [Next]_vars PROVE StartBounds'
    OBVIOUS
  <2>1. StartTypes
    BY DEF StartInv
  <2>2. ASSUME NEW i \in Instance, S!Advance(i) \/ S!Stop(i) PROVE StartBounds'
    BY <1>1, <2>1, <2>2, BoundsMove
  <2>3. CASE S!Tick
    BY <1>1, <2>1, <2>3, BoundsTick
  <2>4. CASE UNCHANGED startup
    BY <2>4 DEF startup, StartBounds
  <2>5. S!Next \/ UNCHANGED startup
    BY DEF Next, vars, Starting, Uploading, Paying
  <2> QED BY <2>2, <2>3, <2>4, <2>5 DEF S!Next
<1>4. StartInv /\ StartBounds => S!TypeOK
  BY <1>1, StartTypesBounded DEF StartInv
<1> QED BY <1>2, <1>3, <1>4, StartInvariance, PTL DEF Spec

-----------------------------------------------------------------------------
(* The order of chunks.  Ordered is a choice: that there is a sequence to     *)
(* choose is proved for every finite set of numbers, in the form of a minimal *)
(* counterexample.                                                            *)

\* A set of numbers has a least one.
LEMMA LeastOf == ASSUME NEW Z, Z \subseteq Nat, Z # {}
                 PROVE  \E m \in Z : \A x \in Z : m <= x
<1>0. PICK R : R = OpToRel(<, Nat)
  OBVIOUS
<1>1. IsWellFoundedOn(R, Nat)
  BY <1>0, NatLessThanWellFounded
<1>2. PICK m \in Z : \A x \in Z : ~(<<x, m>> \in R)
  BY <1>1, WFMin
<1>3. ASSUME NEW x \in Z PROVE m <= x
  <2>1. x \in Nat /\ m \in Nat
    OBVIOUS
  <2>2. x < m => <<x, m>> \in R
    BY <1>0, <2>1 DEF OpToRel
  <2> QED BY <1>2, <2>1, <2>2
<1> QED BY <1>3

\* The sequences of all elements of a set of numbers in ascending order.
Ascending(Z) ==
    {s \in [1 .. Cardinality(Z) -> Z] : \A i, j \in DOMAIN s : i < j => s[i] < s[j]}

\* Every finite set of numbers can be put in order.
LEMMA AscendingExists ==
    ASSUME NEW Z, Z \subseteq Nat, IsFiniteSet(Z)
    PROVE  Ascending(Z) # {}
<1> DEFINE Bad == {T \in SUBSET Z : Ascending(T) = {}}
<1>1. SUFFICES ASSUME Bad # {} PROVE FALSE
  <2>1. Z \notin Bad => Ascending(Z) # {}
    OBVIOUS
  <2> QED BY <2>1
<1>2. \A T \in SUBSET Z : IsFiniteSet(T)
  BY FS_Subset
<1>3. PICK T \in Bad : \A R \in Bad : ~(R \subseteq T /\ R # T)
  <2>1. Bad \subseteq FiniteSubsetsOf(Z)
    BY <1>2 DEF FiniteSubsetsOf
  <2>2. IsWellFoundedOn(StrictSubsetOrdering(Z), FiniteSubsetsOf(Z))
    BY FS_StrictSubsetOrderingWellFounded
  <2>3. PICK x \in Bad : \A y \in Bad : ~(<<y, x>> \in StrictSubsetOrdering(Z))
    BY <1>1, <2>1, <2>2, WFMin
  <2>4. ASSUME NEW y \in Bad, y \subseteq x, y # x PROVE FALSE
    BY <2>1, <2>3, <2>4 DEF StrictSubsetOrdering, FiniteSubsetsOf
  <2> QED BY <2>4
<1>4. T \subseteq Nat /\ IsFiniteSet(T) /\ Ascending(T) = {}
  BY <1>2
<1>5. CASE T = {}
  <2>1. Cardinality(T) = 0
    BY <1>5, FS_EmptySet
  <2>2. 1 .. 0 = {}
    OBVIOUS
  <2>3. [i \in {} |-> i] \in Ascending(T)
    BY <2>1, <2>2 DEF Ascending
  <2> QED BY <1>4, <2>3
<1>6. CASE T # {}
  <2>1. PICK m \in T : \A x \in T : m <= x
    BY <1>4, <1>6, LeastOf
  <2> DEFINE R == T \ {m}
  <2>2. IsFiniteSet(R) /\ R \subseteq Nat /\ m \in Nat /\ \A x \in R : m < x
    BY <1>2, <1>4, <2>1
  <2>3. PICK k \in Nat : Cardinality(R) = k /\ Cardinality(T) = k + 1
    <3>1. Cardinality(R) = Cardinality(T) - 1 /\ Cardinality(R) \in Nat /\ Cardinality(T) \in Nat
      BY <1>4, <2>2, FS_RemoveElement, FS_CardinalityType
    <3> QED BY <3>1
  <2>4. PICK f : f \in Ascending(R)
    <3>1. R \notin Bad
      BY <1>3, <2>1
    <3> QED BY <3>1
  <2>5. f \in [1 .. k -> R] /\ \A i, j \in 1 .. k : i < j => f[i] < f[j]
    BY <2>3, <2>4 DEF Ascending
  <2> DEFINE g == [i \in 1 .. k + 1 |-> IF i = 1 THEN m ELSE f[i - 1]]
  <2>6. ASSUME NEW i \in 1 .. k + 1
        PROVE  /\ g[i] = IF i = 1 THEN m ELSE f[i - 1]
               /\ i # 1 => i - 1 \in 1 .. k /\ f[i - 1] \in R
    BY <2>3, <2>5
  <2>7. g \in [1 .. k + 1 -> T]
    BY <2>1, <2>6
  <2>8. ASSUME NEW i \in 1 .. k + 1, NEW j \in 1 .. k + 1, i < j PROVE g[i] < g[j]
    <3>1. j # 1 /\ g[j] = f[j - 1] /\ j - 1 \in 1 .. k /\ f[j - 1] \in R
      BY <2>6, <2>8
    <3>2. CASE i = 1
      BY <2>2, <2>6, <3>1, <3>2
    <3>3. CASE i # 1
      <4>1. g[i] = f[i - 1] /\ i - 1 \in 1 .. k /\ i - 1 < j - 1
        BY <2>6, <2>8, <3>3
      <4> QED BY <2>5, <3>1, <4>1
    <3> QED BY <3>2, <3>3
  <2> HIDE DEF g
  <2>9. g \in Ascending(T)
    BY <2>3, <2>7, <2>8 DEF Ascending
  <2> QED BY <1>4, <2>9
<1> QED BY <1>5, <1>6

\* The chunks of a file are ordered: each one once, and by number.
LEMMA ChunksAreOrdered ==
    ASSUME NEW Z, Z \subseteq Nat, IsFiniteSet(Z)
    PROVE  U!Ordered(Z) \in Ascending(Z)
<1> DEFINE D == [1 .. Cardinality(Z) -> Z]
          Up(s) == \A i, j \in DOMAIN s : i < j => s[i] < s[j]
<1>1. PICK a \in D : Up(a)
  BY AscendingExists DEF Ascending
<1>2. U!Ordered(Z) = CHOOSE s \in D : Up(s)
  BY DEF U!Ordered, U!Cardinality, Cardinality
<1> HIDE DEF D, Up
<1>3. U!Ordered(Z) \in D /\ Up(U!Ordered(Z))
  BY <1>1, <1>2
<1> QED BY <1>3 DEF Ascending, D, Up

-----------------------------------------------------------------------------
(* The types of uploads. *)

TypedReqs ==
    [pc : {"idle", "store", "diff", "write", "sum", "merge", "move"},
     by : Session \cup {"none"}, chunk : U!Chunk, body : U!TokenType,
     dirty : BOOLEAN, parts : SUBSET U!Chunk]
TypedClients(s) ==
    [phase : {"new", "send", "merge", "done"}, todo : SUBSET U!Chunks(s),
     acked : SUBSET U!Chunks(s), slow : BOOLEAN]

\* The files under a name: chunks of sessions, in whatever order.
FilesTyped ==
    /\ temp = [n \in Name |-> temp[n]]
    /\ \A n \in Name : /\ DOMAIN folder[n] \subseteq U!Chunk
                       /\ \A c \in DOMAIN folder[n] : folder[n][c] \in Session
                       /\ temp[n] \in Seq(U!Chunk \X Session)
                       /\ merged[n] \in Seq(U!Chunk \X Session)

\* A merge has listed chunks that are there, and stay.
ReqTyped(q) ==
    /\ req[q] \in TypedReqs
    /\ req[q].pc = "merge" => req[q].parts \subseteq DOMAIN folder[req[q].body.name]

\* The types with what the merge relies on.
UploadTyped ==
    /\ plan \in Plans /\ tokens \in [Key -> U!TokenType]
    /\ FilesTyped
    /\ \A s \in Session : client[s] \in TypedClients(s)
    /\ \A q \in Request : ReqTyped(q)
    /\ overlap \subseteq Session /\ uFails \in 0 .. MaxFail /\ haste \in 0 .. MaxHaste

\* It is at least what Upload says of types.
LEMMA UploadTypedIsTypeOK == UploadTyped => U!TypeOK
BY DEF UploadTyped, FilesTyped, ReqTyped, TypedReqs, TypedClients, U!TypeOK, U!None

\* It holds in the beginning.
LEMMA InitUploadTyped == ASSUME U!UploadAssumption, U!Init PROVE UploadTyped
<1> USE DEF U!Init
<1>1. U!NoToken \in U!TokenType /\ U!Idle \in TypedReqs /\ U!Idle.pc = "idle"
  <2>1. 0 \in U!Chunk
    BY DEF U!Chunk, U!UploadAssumption
  <2>2. U!NoToken \in U!TokenType
    BY DEF U!NoToken, U!TokenType
  <2> QED BY <2>1, <2>2 DEF U!Idle, TypedReqs, U!None
<1>2. \A q \in Request : ReqTyped(q)
  BY <1>1 DEF ReqTyped
<1>3. \A s \in Session : client[s] \in TypedClients(s)
  BY DEF TypedClients
<1>4. FilesTyped
  <2>1. <<>> \in Seq(U!Chunk \X Session) /\ DOMAIN <<>> = {}
    OBVIOUS
  <2> QED BY <2>1 DEF FilesTyped
<1>5. MaxFail \in Nat /\ MaxHaste \in Nat
  BY DEF U!UploadAssumption
<1> QED BY <1>1, <1>2, <1>3, <1>4, <1>5 DEF UploadTyped

\* What a step has to show: the requests and clients that it moves are well
\* formed, no chunk disappears.
LEMMA TypedStep ==
    ASSUME U!UploadAssumption, UploadInv, UploadTyped, plan' = plan,
           tokens' \in [Key -> U!TokenType], FilesTyped',
           \A n \in Name : DOMAIN folder[n] \subseteq DOMAIN folder'[n],
           \A q \in Request : req'[q] = req[q] \/ ReqTyped(q)',
           \A s \in Session : client'[s] = client[s] \/ client'[s] \in TypedClients(s),
           overlap' \subseteq Session, uFails' \in 0 .. MaxFail, haste' \in 0 .. MaxHaste
    PROVE  UploadTyped'
<1>1. ASSUME NEW q \in Request PROVE ReqTyped(q)'
  <2>1. CASE req'[q] = req[q]
    <3>1. ReqTyped(q) /\ RequestOk(q) /\ UploadTypes
      BY DEF UploadTyped, UploadInv
    <3>2. req[q].pc = "merge" => req[q].body.name \in Name
      <4> SUFFICES ASSUME req[q].pc = "merge" PROVE req[q].body.name \in Name
        OBVIOUS
      <4>1. PICK u \in Session : req[q].body.name = plan[u].name
        BY <3>1 DEF RequestOk, MadeFor
      <4>2. plan[u] \in U!Plan
        BY <3>1 DEF UploadTypes
      <4> QED BY <4>1, <4>2, ChunksOf
    <3> QED BY <2>1, <3>1, <3>2 DEF ReqTyped, TypedReqs, U!Chunk, U!TokenType
  <2> QED BY <2>1
<1>2. ASSUME NEW s \in Session PROVE client'[s] \in TypedClients(s)'
  <2>1. TypedClients(s)' = TypedClients(s)
    BY DEF TypedClients, U!Chunks
  <2> QED BY <2>1 DEF UploadTyped
<1> QED BY <1>1, <1>2 DEF UploadTyped, U!TokenType, U!Chunk

\* What there is of a session that sends, and of a request of it.
LEMMA TypedSession ==
    ASSUME U!UploadAssumption, UploadInv, UploadTyped, NEW t \in Session
    PROVE  /\ plan[t] \in U!Plan /\ plan[t].key \in Key /\ plan[t].name \in Name
           /\ U!Chunks(t) \subseteq U!Chunk /\ U!Token(t) \in U!TokenType
           /\ client[t] \in TypedClients(t) /\ U!Idle \in TypedReqs /\ U!Idle.pc = "idle"
           /\ MaxFail \in Nat /\ MaxHaste \in Nat
<1>1. plan[t] \in U!Plan
  BY DEF UploadInv, UploadTypes
<1>2. plan[t].key \in Key /\ plan[t].name \in Name /\ U!Chunks(t) \subseteq U!Chunk
  BY <1>1, ChunksOf DEF U!Chunks, U!Chunk
<1>3. U!Token(t) \in U!TokenType
  BY <1>2 DEF U!Token, UploadTyped
<1>4. U!Idle \in TypedReqs /\ U!Idle.pc = "idle"
  <2>1. 0 \in U!Chunk
    BY DEF U!Chunk, U!UploadAssumption
  <2>2. U!NoToken \in U!TokenType
    BY DEF U!NoToken, U!TokenType
  <2> QED BY <2>1, <2>2 DEF U!Idle, TypedReqs, U!None
<1> QED BY <1>1, <1>2, <1>3, <1>4 DEF UploadTyped, U!UploadAssumption

\* Functions of which one value is changed.
LEMMA OneChanges ==
    ASSUME UploadTypes
    PROVE  /\ \A q \in Request : \A r : req' = [req EXCEPT ![q] = r] =>
                 req'[q] = r /\ \A p \in Request : p # q => req'[p] = req[p]
           /\ \A t \in Session : \A d : client' = [client EXCEPT ![t] = d] =>
                 client'[t] = d /\ \A s \in Session : s # t => client'[s] = client[s]
BY DEF UploadTypes

\* A session begins its task, a chunk or the merge.
LEMMA SendTyped ==
    ASSUME U!UploadAssumption, UploadInv, UploadTyped, NEW t \in Session, U!Send(t)
    PROVE  UploadTyped'
<1>1. /\ plan[t] \in U!Plan /\ plan[t].key \in Key /\ plan[t].name \in Name
      /\ U!Chunks(t) \subseteq U!Chunk /\ U!Token(t) \in U!TokenType
      /\ client[t] \in TypedClients(t) /\ U!Idle \in TypedReqs /\ U!Idle.pc = "idle"
      /\ MaxFail \in Nat /\ MaxHaste \in Nat
  BY TypedSession
<1>2. UploadTypes
  BY DEF UploadInv
<1>3. UNCHANGED <<plan, folder, temp, merged, uFails>>
  BY DEF U!Send, U!CreateTask, U!BeginChunk, U!BeginMerge
<1>4. FilesTyped' /\ \A n \in Name : DOMAIN folder[n] \subseteq DOMAIN folder'[n]
  BY <1>3 DEF UploadTyped, FilesTyped, U!Chunk
<1>5. CASE U!CreateTask(t)
  <2>1. PICK v \in TypedClients(t) : v = client[t]
    BY <1>1
  <2>2. client' = [client EXCEPT ![t] = [v EXCEPT !.phase = "send", !.todo = U!Chunks(t)]]
    BY <1>5, <2>1 DEF U!CreateTask
  <2>3. [v EXCEPT !.phase = "send", !.todo = U!Chunks(t)] \in TypedClients(t)
    BY <2>1 DEF TypedClients
  <2>4. \A s \in Session : client'[s] = client[s] \/ client'[s] \in TypedClients(s)
    BY <1>2, <2>2, <2>3, OneChanges
  <2>5. PICK b \in U!TokenType : tokens' = [tokens EXCEPT ![plan[t].key] = b]
    <3>1. U!Payload(t) \in U!TokenType
      BY <1>1 DEF U!Payload, U!TokenType, U!Plan, U!UploadAssumption
    <3>2. CASE U!Token(t) = U!NoToken
      BY <1>5, <3>1, <3>2 DEF U!CreateTask, U!Token
    <3>3. CASE U!Token(t) # U!NoToken
      BY <1>1, <1>5, <3>3 DEF U!CreateTask, U!Token
    <3> QED BY <3>2, <3>3
  <2>6. tokens' \in [Key -> U!TokenType]
    BY <1>1, <2>5 DEF UploadTyped
  <2>7. UNCHANGED <<req, overlap, haste>>
    BY <1>5 DEF U!CreateTask
  <2> QED BY <1>3, <1>4, <2>4, <2>6, <2>7, TypedStep DEF UploadTyped
<1>6. ASSUME NEW q \in Request, U!BeginMerge(q, t) PROVE UploadTyped'
  <2>1. PICK v \in TypedClients(t), i \in TypedReqs, b \in U!TokenType :
             v = client[t] /\ i = U!Idle /\ b = U!Token(t)
    BY <1>1
  <2>2. /\ client' = [client EXCEPT ![t] = [v EXCEPT !.phase = "merge"]]
        /\ req' = [req EXCEPT ![q] = [i EXCEPT !.pc = "sum", !.by = t, !.body = b]]
        /\ UNCHANGED <<tokens, overlap>>
        /\ haste' = haste \/ (haste < MaxHaste /\ haste' = haste + 1)
    BY <1>6, <2>1 DEF U!BeginMerge
  <2>3. [v EXCEPT !.phase = "merge"] \in TypedClients(t)
    BY DEF TypedClients
  <2>4. PICK r \in TypedReqs : req' = [req EXCEPT ![q] = r] /\ r.pc = "sum"
    <3> DEFINE r == [i EXCEPT !.pc = "sum", !.by = t, !.body = b]
    <3>1. r \in TypedReqs /\ r.pc = "sum"
      BY DEF TypedReqs
    <3>2. req' = [req EXCEPT ![q] = r]
      BY <2>2
    <3> HIDE DEF r
    <3> QED BY <3>1, <3>2
  <2>5. \A s \in Session : client'[s] = client[s] \/ client'[s] \in TypedClients(s)
    BY <1>2, <2>2, <2>3, OneChanges
  <2>6. \A p \in Request : req'[p] = req[p] \/ ReqTyped(p)'
    <3>1. req'[q] \in TypedReqs /\ req'[q].pc = "sum"
      BY <1>2, <2>4, OneChanges
    <3> QED BY <1>2, <2>4, <3>1, OneChanges DEF ReqTyped
  <2>7. haste' \in 0 .. MaxHaste
    BY <1>1, <2>2 DEF UploadTyped
  <2> QED BY <1>3, <1>4, <2>2, <2>5, <2>6, <2>7, TypedStep DEF UploadTyped
<1>7. ASSUME NEW q \in Request, NEW c \in U!Chunks(t), U!BeginChunk(q, t, c)
      PROVE  UploadTyped'
  <2>1. PICK v \in TypedClients(t), i \in TypedReqs, b \in U!TokenType :
             v = client[t] /\ i = U!Idle /\ b = U!Token(t)
    BY <1>1
  <2>2. /\ client' = [client EXCEPT ![t] = [v EXCEPT !.todo = @ \ {c}]]
        /\ req' = [req EXCEPT ![q] = [i EXCEPT !.pc = "store", !.by = t, !.chunk = c,
                                               !.body = b]]
        /\ UNCHANGED <<tokens, haste>>
        /\ overlap' \subseteq overlap \cup {t}
    BY <1>7, <2>1 DEF U!BeginChunk
  <2>3. [v EXCEPT !.todo = @ \ {c}] \in TypedClients(t)
    BY DEF TypedClients
  <2>4. PICK r \in TypedReqs : req' = [req EXCEPT ![q] = r] /\ r.pc = "store"
    <3> DEFINE r == [i EXCEPT !.pc = "store", !.by = t, !.chunk = c, !.body = b]
    <3>1. r \in TypedReqs /\ r.pc = "store"
      BY <1>1 DEF TypedReqs
    <3>2. req' = [req EXCEPT ![q] = r]
      BY <2>2
    <3> HIDE DEF r
    <3> QED BY <3>1, <3>2
  <2>5. \A s \in Session : client'[s] = client[s] \/ client'[s] \in TypedClients(s)
    BY <1>2, <2>2, <2>3, OneChanges
  <2>6. \A p \in Request : req'[p] = req[p] \/ ReqTyped(p)'
    <3>1. req'[q] \in TypedReqs /\ req'[q].pc = "store"
      BY <1>2, <2>4, OneChanges
    <3> QED BY <1>2, <2>4, <3>1, OneChanges DEF ReqTyped
  <2>7. overlap' \subseteq Session
    BY <2>2 DEF UploadTyped
  <2> QED BY <1>3, <1>4, <2>2, <2>5, <2>6, <2>7, TypedStep DEF UploadTyped
<1> QED BY <1>5, <1>6, <1>7 DEF U!Send

\* The same for a step of one request.
LEMMA TypedMove ==
    ASSUME U!UploadAssumption, UploadInv, UploadTyped, plan' = plan,
           NEW q \in Request, NEW r \in TypedReqs, req' = [req EXCEPT ![q] = r],
           r.pc = "merge" => r.parts \subseteq DOMAIN folder'[r.body.name],
           NEW t \in Session,
           client' = client \/ \E d \in TypedClients(t) : client' = [client EXCEPT ![t] = d],
           tokens' \in [Key -> U!TokenType], FilesTyped',
           \A n \in Name : DOMAIN folder[n] \subseteq DOMAIN folder'[n],
           overlap' \subseteq overlap, uFails' \in 0 .. MaxFail, haste' = haste
    PROVE  UploadTyped'
<1>1. UploadTypes
  BY DEF UploadInv
<1>2. \A s \in Session : client'[s] = client[s] \/ client'[s] \in TypedClients(s)
  BY <1>1, OneChanges
<1>3. \A p \in Request : req'[p] = req[p] \/ ReqTyped(p)'
  <2>1. req'[q] = r /\ \A p \in Request : p # q => req'[p] = req[p]
    BY <1>1, OneChanges
  <2> QED BY <2>1 DEF ReqTyped
<1>4. overlap' \subseteq Session /\ haste' \in 0 .. MaxHaste
  BY DEF UploadTyped
<1> QED BY <1>2, <1>3, <1>4, TypedStep

\* What is known of a request under way and of whose it is.
LEMMA TypedBusy ==
    ASSUME U!UploadAssumption, UploadInv, UploadTyped, NEW q \in Request,
           req[q].pc # "idle"
    PROVE  \E t \in Session :
              /\ req[q].by = t /\ req[q] \in TypedReqs /\ client[t] \in TypedClients(t)
              /\ req[q].body.name \in Name /\ plan[t].key \in Key /\ plan[t].name \in Name
              /\ req[q].pc \in {"store", "diff", "write"} => req[q].chunk \in U!Chunks(t)
<1>1. PICK t \in Session : /\ req[q].by = t /\ MadeFor(plan[t].key, req[q].body)
                           /\ req[q].pc \in {"store", "diff", "write"} =>
                                 req[q].chunk \in U!Chunks(t)
  BY Busy
<1>2. PICK u \in Session : req[q].body.name = plan[u].name
  BY <1>1 DEF MadeFor
<1>3. plan[u].name \in Name /\ plan[t].key \in Key /\ plan[t].name \in Name
  BY TypedSession
<1>4. req[q] \in TypedReqs /\ client[t] \in TypedClients(t)
  BY DEF UploadTyped, ReqTyped
<1> QED BY <1>1, <1>2, <1>3, <1>4

\* The client is to send everything again.
LEMMA SentAgain ==
    ASSUME NEW t \in Session, client[t] \in TypedClients(t)
    PROVE  U!SendAgain(client[t], t) \in TypedClients(t)
BY DEF U!SendAgain, TypedClients

\* A request ends for good or ill, and what it leaves to its client.
LEMMA EndTyped ==
    ASSUME U!UploadAssumption, UploadInv, UploadTyped, NEW q \in Request,
           \/ U!RefuseMerge(q) \/ U!NoChunks(q) \/ U!NothingToMove(q) \/ U!Break(q)
    PROVE  UploadTyped'
<1>1. req[q].pc # "idle"
  BY DEF U!RefuseMerge, U!NoChunks, U!NothingToMove, U!Break
<1>2. PICK t \in Session :
              /\ req[q].by = t /\ client[t] \in TypedClients(t)
              /\ req[q].pc \in {"store", "diff", "write"} => req[q].chunk \in U!Chunks(t)
  BY <1>1, TypedBusy
<1>3. U!Idle \in TypedReqs /\ U!Idle.pc = "idle" /\ MaxFail \in Nat
  BY TypedSession
<1>4. /\ UNCHANGED <<plan, tokens, folder, temp, merged, haste>>
      /\ req' = [req EXCEPT ![q] = U!Idle] /\ overlap' \subseteq overlap
      /\ uFails' = uFails \/ (uFails < MaxFail /\ uFails' = uFails + 1)
  BY DEF U!RefuseMerge, U!NoChunks, U!NothingToMove, U!Break, U!Refuse
<1>5. \E d \in TypedClients(t) : client' = [client EXCEPT ![t] = d]
  <2>1. CASE client' = [client EXCEPT ![t] = U!SendAgain(@, t)]
    BY <1>2, <2>1, SentAgain
  <2>2. CASE /\ req[q].pc \in {"store", "diff", "write"}
             /\ client' = [client EXCEPT ![t].todo = @ \cup {req[q].chunk}]
    <3> PICK v \in TypedClients(t), c \in U!Chunks(t) : v = client[t] /\ c = req[q].chunk
      BY <1>2, <2>2
    <3>1. [v EXCEPT !.todo = @ \cup {c}] \in TypedClients(t)
      BY DEF TypedClients
    <3>2. client' = [client EXCEPT ![t] = [v EXCEPT !.todo = @ \cup {c}]]
      BY <2>2
    <3> QED BY <3>1, <3>2
  <2> QED BY <1>2, <2>1, <2>2
          DEF U!RefuseMerge, U!NoChunks, U!NothingToMove, U!Break, U!Refuse
<1>6. /\ tokens' \in [Key -> U!TokenType] /\ FilesTyped'
      /\ \A n \in Name : DOMAIN folder[n] \subseteq DOMAIN folder'[n]
  BY <1>4 DEF UploadTyped, FilesTyped, U!Chunk
<1>7. uFails' \in 0 .. MaxFail
  BY <1>3, <1>4 DEF UploadTyped
<1> QED BY <1>3, <1>4, <1>5, <1>6, <1>7, TypedMove

\* A chunk is stored.
LEMMA StoreTyped ==
    ASSUME U!UploadAssumption, UploadInv, UploadTyped, NEW q \in Request, U!Store(q)
    PROVE  UploadTyped'
<1>1. req[q].pc = "store"
  BY DEF U!Store
<1>2. PICK t \in Session :
              /\ req[q].by = t /\ req[q] \in TypedReqs /\ client[t] \in TypedClients(t)
              /\ plan[t].name \in Name /\ req[q].chunk \in U!Chunks(t)
  BY <1>1, TypedBusy
<1>3. PICK w \in TypedReqs, c \in U!Chunk, n \in Name :
           w = req[q] /\ c = req[q].chunk /\ n = plan[t].name
  BY <1>2, TypedSession
<1>4. PICK b \in U!TokenType : b = U!Finish(w.body, c)
  <2> PICK a \in U!TokenType : a = w.body
    BY DEF TypedReqs
  <2>1. [a EXCEPT !.finished = @ \cup {c}] \in U!TokenType
    BY DEF U!TokenType
  <2> QED BY <2>1 DEF U!Finish
<1>5. PICK r \in TypedReqs : req' = [req EXCEPT ![q] = r] /\ r.pc = "diff"
  <2> DEFINE r == [w EXCEPT !.pc = "diff", !.body = b]
  <2>1. r \in TypedReqs /\ r.pc = "diff"
    BY DEF TypedReqs
  <2>2. req' = [req EXCEPT ![q] = r]
    BY <1>3, <1>4 DEF U!Store
  <2> HIDE DEF r
  <2> QED BY <2>1, <2>2
<1>6. UNCHANGED <<plan, tokens, temp, merged, client, overlap, uFails, haste>>
  BY DEF U!Store
<1>7. folder' = [folder EXCEPT ![n] =
                    [d \in DOMAIN folder[n] \cup {c} |-> IF d = c THEN t ELSE folder[n][d]]]
  BY <1>2, <1>3 DEF U!Store
<1>8. folder = [m \in Name |-> folder[m]]
  BY DEF UploadInv, UploadTypes
<1>9. /\ \A m \in Name : m # n => folder'[m] = folder[m]
      /\ folder'[n] = [d \in DOMAIN folder[n] \cup {c} |-> IF d = c THEN t ELSE folder[n][d]]
  BY <1>7, <1>8
<1>10. \A m \in Name : DOMAIN folder[m] \subseteq DOMAIN folder'[m]
  BY <1>9
<1>11. \A m \in Name : /\ DOMAIN folder'[m] \subseteq U!Chunk
                       /\ \A d \in DOMAIN folder'[m] : folder'[m][d] \in Session
  <2>1. \A m \in Name : /\ DOMAIN folder[m] \subseteq U!Chunk
                        /\ \A d \in DOMAIN folder[m] : folder[m][d] \in Session
    BY DEF UploadTyped, FilesTyped
  <2>2. \A d \in DOMAIN folder'[n] : folder'[n][d] \in Session
    BY <1>9, <2>1
  <2> QED BY <1>9, <2>1, <2>2
<1>12. FilesTyped'
  BY <1>6, <1>11 DEF UploadTyped, FilesTyped, U!Chunk
<1>13. tokens' \in [Key -> U!TokenType] /\ uFails' \in 0 .. MaxFail
  BY <1>6 DEF UploadTyped
<1> QED BY <1>5, <1>6, <1>10, <1>12, <1>13, TypedMove

\* A chunk is compared and counted.
LEMMA SaveTyped ==
    ASSUME U!UploadAssumption, UploadInv, UploadTyped, NEW q \in Request,
           U!SaveDiff(q) \/ U!SaveWrite(q)
    PROVE  UploadTyped'
<1>1. req[q].pc \in {"diff", "write"}
  BY DEF U!SaveDiff, U!SaveWrite
<1>2. PICK t \in Session :
              /\ req[q].by = t /\ req[q] \in TypedReqs /\ client[t] \in TypedClients(t)
              /\ plan[t].key \in Key /\ req[q].chunk \in U!Chunks(t)
  BY <1>1, TypedBusy
<1>3. UNCHANGED <<plan, folder, temp, merged, overlap, uFails, haste>>
  BY DEF U!SaveDiff, U!SaveWrite
<1>4. /\ FilesTyped' /\ uFails' \in 0 .. MaxFail
      /\ \A n \in Name : DOMAIN folder[n] \subseteq DOMAIN folder'[n]
  BY <1>3 DEF UploadTyped, FilesTyped, U!Chunk
<1>5. CASE U!SaveDiff(q)
  <2>1. PICK w \in TypedReqs, x \in BOOLEAN :
             w = req[q] /\ x = (req[q].body # U!Token(req[q].by))
    BY <1>2
  <2>2. PICK r \in TypedReqs : req' = [req EXCEPT ![q] = r] /\ r.pc = "write"
    <3> DEFINE r == [w EXCEPT !.pc = "write", !.dirty = x]
    <3>1. r \in TypedReqs /\ r.pc = "write"
      BY DEF TypedReqs
    <3>2. req' = [req EXCEPT ![q] = r]
      BY <1>5, <2>1 DEF U!SaveDiff
    <3> HIDE DEF r
    <3> QED BY <3>1, <3>2
  <2>3. client' = client /\ tokens' \in [Key -> U!TokenType]
    BY <1>5 DEF U!SaveDiff, UploadTyped
  <2> QED BY <1>3, <1>4, <2>2, <2>3, TypedMove
<1>6. CASE U!SaveWrite(q)
  <2>1. U!Idle \in TypedReqs /\ U!Idle.pc = "idle" /\ req' = [req EXCEPT ![q] = U!Idle]
    BY <1>6, TypedSession DEF U!SaveWrite
  <2>2. tokens' \in [Key -> U!TokenType]
    <3>1. req[q].body \in U!TokenType
      BY <1>2 DEF TypedReqs
    <3> QED BY <1>2, <1>6, <3>1 DEF U!SaveWrite, UploadTyped
  <2>3. \E d \in TypedClients(t) : client' = [client EXCEPT ![t] = d]
    <3> PICK v \in TypedClients(t), c \in U!Chunks(t) : v = client[t] /\ c = req[q].chunk
      BY <1>2
    <3>1. [v EXCEPT !.acked = @ \cup {c}] \in TypedClients(t)
      BY DEF TypedClients
    <3>2. client' = [client EXCEPT ![t] = [v EXCEPT !.acked = @ \cup {c}]]
      BY <1>2, <1>6 DEF U!SaveWrite
    <3> QED BY <3>1, <3>2
  <2> QED BY <1>3, <1>4, <2>1, <2>2, <2>3, TypedMove
<1> QED BY <1>5, <1>6

\* The chunks that are there are listed.
LEMMA ListTyped ==
    ASSUME U!UploadAssumption, UploadInv, UploadTyped, NEW q \in Request, U!ListChunks(q)
    PROVE  UploadTyped'
<1>1. req[q].pc = "sum"
  BY DEF U!ListChunks
<1>2. PICK t \in Session :
              req[q].by = t /\ req[q] \in TypedReqs /\ req[q].body.name \in Name
  BY <1>1, TypedBusy
<1>3. UNCHANGED <<plan, tokens, folder, temp, merged, client, overlap, uFails, haste>>
  BY DEF U!ListChunks
<1>4. PICK w \in TypedReqs, a \in SUBSET U!Chunk :
           w = req[q] /\ a = DOMAIN folder[req[q].body.name]
  BY <1>2 DEF UploadTyped, FilesTyped
<1>5. PICK r \in TypedReqs : /\ req' = [req EXCEPT ![q] = r]
                             /\ r.parts = DOMAIN folder[r.body.name]
  <2> DEFINE r == [w EXCEPT !.pc = "merge", !.parts = a]
  <2>1. r \in TypedReqs /\ r.body = w.body /\ r.parts = a
    BY DEF TypedReqs
  <2>2. req' = [req EXCEPT ![q] = r]
    BY <1>4 DEF U!ListChunks
  <2> HIDE DEF r
  <2> QED BY <1>4, <2>1, <2>2
<1>6. /\ FilesTyped' /\ uFails' \in 0 .. MaxFail /\ tokens' \in [Key -> U!TokenType]
      /\ \A n \in Name : DOMAIN folder[n] \subseteq DOMAIN folder'[n]
  BY <1>3 DEF UploadTyped, FilesTyped, U!Chunk
<1>7. r.parts \subseteq DOMAIN folder'[r.body.name]
  BY <1>3, <1>5
<1> QED BY <1>3, <1>5, <1>6, <1>7, TypedMove

\* A sequence of the chunks of a file, each with the session it is of.
LEMMA MergedFile ==
    ASSUME NEW a \in SUBSET U!Chunk, U!UploadAssumption,
           NEW f, a \subseteq DOMAIN f, \A c \in DOMAIN f : f[c] \in Session,
           NEW o, o = U!Ordered(a)
    PROVE  [i \in DOMAIN o |-> <<o[i], f[o[i]]>>] \in Seq(U!Chunk \X Session)
<1>1. a \subseteq Nat /\ IsFiniteSet(a) /\ Cardinality(a) \in Nat
  <2>1. MaxTotal \in Nat /\ IsFiniteSet(0 .. MaxTotal) /\ 0 .. MaxTotal \subseteq Nat
    BY FS_Interval DEF U!UploadAssumption
  <2>2. a \subseteq 0 .. MaxTotal
    BY DEF U!Chunk
  <2>3. IsFiniteSet(a)
    BY <2>1, <2>2, FS_Subset
  <2> QED BY <2>1, <2>2, <2>3, FS_CardinalityType
<1>2. PICK n \in Nat : o \in [1 .. n -> a]
  BY <1>1, ChunksAreOrdered DEF Ascending
<1>3. \A i \in 1 .. n : o[i] \in U!Chunk /\ f[o[i]] \in Session
  BY <1>2
<1>4. [i \in 1 .. n |-> <<o[i], f[o[i]]>>] \in [1 .. n -> U!Chunk \X Session]
  BY <1>3
<1>5. DOMAIN o = 1 .. n
  BY <1>2
<1> QED BY <1>4, <1>5

\* The chunks are put together, and the file is moved.
LEMMA MergeTyped ==
    ASSUME U!UploadAssumption, UploadInv, UploadTyped, NEW q \in Request,
           U!WriteMerged(q) \/ U!StoreMerged(q)
    PROVE  UploadTyped'
<1>1. req[q].pc \in {"merge", "move"}
  BY DEF U!WriteMerged, U!StoreMerged
<1>2. PICK t \in Session :
              /\ req[q].by = t /\ req[q] \in TypedReqs /\ client[t] \in TypedClients(t)
              /\ req[q].body.name \in Name
  BY <1>1, TypedBusy
<1>3. UNCHANGED <<plan, tokens, folder, overlap, uFails, haste>>
  BY DEF U!WriteMerged, U!StoreMerged
<1>4. /\ tokens' \in [Key -> U!TokenType] /\ uFails' \in 0 .. MaxFail
      /\ \A n \in Name : DOMAIN folder[n] \subseteq DOMAIN folder'[n]
  BY <1>3 DEF UploadTyped
<1>5. PICK n \in Name : n = req[q].body.name
  BY <1>2
<1>6. /\ temp = [m \in Name |-> temp[m]] /\ merged = [m \in Name |-> merged[m]]
      /\ \A m \in Name : /\ DOMAIN folder[m] \subseteq U!Chunk
                         /\ \A c \in DOMAIN folder[m] : folder[m][c] \in Session
                         /\ temp[m] \in Seq(U!Chunk \X Session)
                         /\ merged[m] \in Seq(U!Chunk \X Session)
  BY DEF UploadTyped, FilesTyped, UploadInv, UploadTypes
<1>7. ASSUME NEW f \in Seq(U!Chunk \X Session), temp' = [temp EXCEPT ![n] = f],
             NEW g \in Seq(U!Chunk \X Session), merged' = [merged EXCEPT ![n] = g]
      PROVE  FilesTyped'
  <2>1. temp' = [m \in Name |-> IF m = n THEN f ELSE temp[m]]
        /\ merged' = [m \in Name |-> IF m = n THEN g ELSE merged[m]]
    BY <1>6, <1>7
  <2>2. \A m \in Name : /\ temp'[m] \in Seq(U!Chunk \X Session)
                        /\ merged'[m] \in Seq(U!Chunk \X Session)
    BY <1>6, <1>7, <2>1
  <2>3. temp' = [m \in Name |-> temp'[m]]
    BY <2>1
  <2> QED BY <1>3, <1>6, <2>2, <2>3 DEF FilesTyped, U!Chunk
<1>8. CASE U!WriteMerged(q)
  <2>1. PICK a \in SUBSET U!Chunk : a = req[q].parts /\ a \subseteq DOMAIN folder[n]
    BY <1>2, <1>5, <1>8 DEF U!WriteMerged, UploadTyped, ReqTyped, TypedReqs
  <2>2. PICK o : o = U!Ordered(a)
    OBVIOUS
  <2>3. PICK f \in Seq(U!Chunk \X Session) :
             f = [i \in DOMAIN o |-> <<o[i], folder[n][o[i]]>>]
    <3>1. PICK h : h = folder[n]
      OBVIOUS
    <3>2. a \subseteq DOMAIN h /\ \A c \in DOMAIN h : h[c] \in Session
      BY <1>6, <2>1, <3>1
    <3>3. [i \in DOMAIN o |-> <<o[i], h[o[i]]>>] \in Seq(U!Chunk \X Session)
      BY <2>2, <3>2, MergedFile
    <3> QED BY <3>1, <3>3
  <2>4. /\ temp' = [temp EXCEPT ![n] = f] /\ merged' = [merged EXCEPT ![n] = merged[n]]
        /\ client' = client
    BY <1>5, <1>6, <1>8, <2>1, <2>2, <2>3 DEF U!WriteMerged
  <2>5. FilesTyped'
    BY <1>6, <1>7, <2>4
  <2>6. PICK r \in TypedReqs : req' = [req EXCEPT ![q] = r] /\ r.pc = "move"
    <3> PICK w \in TypedReqs : w = req[q]
      BY <1>2
    <3> DEFINE r == [w EXCEPT !.pc = "move"]
    <3>1. r \in TypedReqs /\ r.pc = "move"
      BY DEF TypedReqs
    <3>2. req' = [req EXCEPT ![q] = r]
      BY <1>8 DEF U!WriteMerged
    <3> HIDE DEF r
    <3> QED BY <3>1, <3>2
  <2> QED BY <1>3, <1>4, <2>4, <2>5, <2>6, TypedMove
<1>9. CASE U!StoreMerged(q)
  <2>1. /\ temp' = [temp EXCEPT ![n] = <<>>] /\ merged' = [merged EXCEPT ![n] = temp[n]]
        /\ req' = [req EXCEPT ![q] = U!Idle]
    BY <1>5, <1>9 DEF U!StoreMerged
  <2>2. <<>> \in Seq(U!Chunk \X Session)
    OBVIOUS
  <2>3. FilesTyped'
    BY <1>6, <1>7, <2>1, <2>2
  <2>4. \E d \in TypedClients(t) : client' = [client EXCEPT ![t] = d]
    <3> PICK v \in TypedClients(t) : v = client[t]
      BY <1>2
    <3>1. [v EXCEPT !.phase = "done"] \in TypedClients(t)
      BY DEF TypedClients
    <3>2. client' = [client EXCEPT ![t] = [v EXCEPT !.phase = "done"]]
      BY <1>2, <1>9 DEF U!StoreMerged
    <3> QED BY <3>1, <3>2
  <2>5. U!Idle \in TypedReqs /\ U!Idle.pc = "idle"
    BY TypedSession
  <2> QED BY <1>3, <1>4, <2>1, <2>3, <2>4, <2>5, TypedMove
<1> QED BY <1>8, <1>9

\* Uploads are well formed throughout every behaviour.
LEMMA UploadTypedInvariance == Spec => []UploadTyped
<1>1. U!UploadAssumption
  BY ProgressAssumption
<1>2. Init => UploadTyped
  BY <1>1, InitUploadTyped DEF Init
<1>3. UploadInv /\ UploadTyped /\ [Next]_vars => UploadTyped'
  <2> SUFFICES ASSUME UploadInv, UploadTyped, [Next]_vars PROVE UploadTyped'
    OBVIOUS
  <2>1. ASSUME NEW q \in Request, U!Handle(q) PROVE UploadTyped'
    BY <1>1, <2>1, EndTyped, StoreTyped, SaveTyped, ListTyped, MergeTyped DEF U!Handle
  <2>2. ASSUME NEW q \in Request, U!Break(q) PROVE UploadTyped'
    BY <1>1, <2>2, EndTyped
  <2>3. ASSUME NEW s \in Session, U!Send(s) PROVE UploadTyped'
    BY <1>1, <2>3, SendTyped
  <2>4. CASE UNCHANGED upload
    BY <1>1, <2>4, TypedStep DEF upload, UploadTyped, FilesTyped, U!Chunk
  <2>5. U!Next \/ UNCHANGED upload
    BY DEF Next, vars, Starting, Uploading, Paying
  <2> QED BY <2>1, <2>2, <2>3, <2>4, <2>5 DEF U!Next
<1> QED BY <1>2, <1>3, UploadInvariance, PTL DEF Spec

\* So tokens, folders and requests have the shape Upload says.
LEMMA UploadIsTyped == Spec => []U!TypeOK
BY UploadTypedIsTypeOK, UploadTypedInvariance, PTL

-----------------------------------------------------------------------------
(* The contents of files. *)

\* A sequence that climbs through as many numbers as it is long counts them.
LEMMA ClimbsByOne ==
    ASSUME NEW f \in Nat, NEW t \in Nat, NEW o \in [1 .. t -> f .. (f + t - 1)],
           \A i, j \in 1 .. t : i < j => o[i] < o[j]
    PROVE  \A i \in 1 .. t : o[i] = f + i - 1
<1>1. \A i \in 1 .. t : o[i] \in Nat /\ f <= o[i] /\ o[i] <= f + t - 1
  OBVIOUS
<1>2. ASSUME NEW i \in 1 .. t, o[i] < f + i - 1 PROVE FALSE
  <2> DEFINE Low == {k \in 1 .. t : o[k] < f + k - 1}
  <2>1. i \in Low /\ Low \subseteq 1 .. t
    BY <1>2
  <2>0. Low \subseteq Nat /\ Low # {}
    <3> HIDE DEF Low
    <3> QED BY <2>1
  <2>2. PICK m \in Low : \A k \in Low : m <= k
    BY <2>0, LeastOf
  <2>3. m # 1
    BY <1>1, <2>2
  <2>4. m - 1 \in 1 .. t /\ m - 1 < m
    BY <2>2, <2>3
  <2>5. m - 1 \notin Low
    <3> HIDE DEF Low
    <3> QED BY <2>0, <2>2, <2>4
  <2>6. o[m - 1] >= f + m - 2
    BY <1>1, <2>4, <2>5
  <2>7. o[m - 1] < o[m]
    BY <2>2, <2>4
  <2> QED BY <1>1, <2>2, <2>4, <2>6, <2>7
<1>3. ASSUME NEW i \in 1 .. t, o[i] > f + i - 1 PROVE FALSE
  <2> DEFINE High == {k \in 0 .. (t - 1) : o[t - k] > f + (t - k) - 1}
  <2>1. t - i \in High
    <3>1. t - i \in 0 .. (t - 1) /\ t - (t - i) = i
      OBVIOUS
    <3> QED BY <1>3, <3>1
  <2>2. High \subseteq Nat /\ High # {}
    <3>1. High \subseteq 0 .. (t - 1)
      OBVIOUS
    <3> HIDE DEF High
    <3> QED BY <2>1, <3>1
  <2>3. PICK m \in High : \A k \in High : m <= k
    BY <2>2, LeastOf
  <2>4. m # 0
    BY <1>1, <2>3
  <2>5. /\ m - 1 \in 0 .. (t - 1) /\ t - (m - 1) = t - m + 1
        /\ t - m \in 1 .. t /\ t - m + 1 \in 1 .. t /\ t - m < t - m + 1
    BY <2>3, <2>4
  <2>6. m - 1 \notin High
    <3>1. m \in Nat /\ m - 1 < m
      BY <2>2, <2>3, <2>4
    <3> HIDE DEF High
    <3> QED BY <2>3, <3>1
  <2>7. o[t - m + 1] <= f + (t - m)
    BY <1>1, <2>5, <2>6
  <2>8. o[t - m] < o[t - m + 1]
    BY <2>5
  <2> QED BY <1>1, <2>3, <2>5, <2>7, <2>8
<1> QED BY <1>1, <1>2, <1>3

\* The file of a session: its chunks in order, and nobody else's.
File(s) == [i \in 1 .. plan[s].total |-> <<plan[s].first + i - 1, s>>]

\* A session that shares nothing finds nothing but its file in place, and finds it
\* once it was told so.
OwnFile ==
    \A s \in Session : U!Alone(s) =>
       /\ merged[plan[s].name] \in {<<>>, File(s)}
       /\ client[s].phase = "done" => merged[plan[s].name] = File(s)

\* So it is with the file on its way; the chunks in the folder are its own, and a merge
\* has listed all of them.
OnTheWay(s) ==
    U!Alone(s) =>
       /\ temp[plan[s].name] \in {<<>>, File(s)}
       /\ \A c \in Parts(s) : folder[plan[s].name][c] = s
       /\ \A q \in Request :
             req[q].pc = "merge" /\ req[q].by = s => req[q].parts = U!Chunks(s)
FileInv == OwnFile /\ \A s \in Session : OnTheWay(s)

\* What is put together from all chunks of a session is its file.
LEMMA MakesFile ==
    ASSUME U!UploadAssumption, NEW s \in Session, plan[s] \in U!Plan,
           NEW o, o = U!Ordered(U!Chunks(s)),
           NEW g, \A c \in U!Chunks(s) : g[c] = s
    PROVE  [i \in DOMAIN o |-> <<o[i], g[o[i]]>>] = File(s)
<1> PICK p \in U!Plan : p = plan[s]
  OBVIOUS
<1> PICK f, t : f = p.first /\ t = p.total
  OBVIOUS
<1>1. f \in Nat /\ t \in Nat
  BY DEF U!Plan, U!UploadAssumption
<1>2. /\ U!Chunks(s) = f .. (f + t - 1) /\ U!Chunks(s) \subseteq Nat
      /\ IsFiniteSet(U!Chunks(s)) /\ Cardinality(U!Chunks(s)) = t
  BY ChunksOf DEF U!Chunks
<1>3. o \in Ascending(U!Chunks(s))
  BY <1>2, ChunksAreOrdered
<1>4. /\ o \in [1 .. t -> f .. (f + t - 1)] /\ DOMAIN o = 1 .. t
      /\ \A i, j \in 1 .. t : i < j => o[i] < o[j]
  BY <1>2, <1>3 DEF Ascending
<1>5. \A i \in 1 .. t : o[i] = f + i - 1
  <2>1. /\ f \in Nat /\ t \in Nat /\ o \in [1 .. t -> f .. (f + t - 1)]
        /\ \A i, j \in 1 .. t : i < j => o[i] < o[j]
    BY <1>1, <1>4, Zenon
  <2> QED BY ONLY <2>1, ClimbsByOne
<1>6. \A i \in 1 .. t : g[o[i]] = s
  BY <1>2, <1>4
<1>7. [i \in DOMAIN o |-> <<o[i], g[o[i]]>>] = [i \in 1 .. t |-> <<f + i - 1, s>>]
  BY <1>4, <1>5, <1>6
<1> QED BY <1>7 DEF File

\* It holds in the beginning.
LEMMA InitFileInv == ASSUME U!UploadAssumption, U!Init PROVE FileInv
<1>1. ASSUME NEW s \in Session
      PROVE  /\ folder[plan[s].name] = <<>> /\ temp[plan[s].name] = <<>>
             /\ merged[plan[s].name] = <<>> /\ client[s].phase = "new"
  <2>1. plan[s] \in U!Plan
    BY DEF U!Init, U!UploadAssumption
  <2>2. plan[s].name \in Name
    BY <2>1, ChunksOf
  <2> QED BY <2>2 DEF U!Init
<1>2. \A q \in Request : req[q].pc = "idle"
  BY DEF U!Init, U!Idle
<1>3. \A s \in Session : Parts(s) = {}
  BY <1>1 DEF Parts
<1> QED BY <1>1, <1>2, <1>3 DEF FileInv, OwnFile, OnTheWay

\* A step that leaves the files alone: no merge lists anything, and nobody is told that
\* his file is in place.
LEMMA FilesLeftAlone ==
    ASSUME FileInv, UNCHANGED <<plan, folder, temp, merged>>,
           \A q \in Request : req'[q] = req[q] \/ req'[q].pc # "merge",
           \A s \in Session : client'[s].phase = "done" => client[s].phase = "done"
    PROVE  FileInv'
<1>1. /\ \A s : (U!Alone(s) <=> U!Alone(s)') /\ U!Chunks(s)' = U!Chunks(s)
      /\ \A s : plan'[s] = plan[s]
  BY PlanStays
<1>2. \A s : File(s)' = File(s) /\ Parts(s)' = Parts(s)
  BY DEF File, Parts
<1>3. OwnFile'
  BY <1>1, <1>2 DEF FileInv, OwnFile
<1>4. \A s \in Session : OnTheWay(s)'
  BY <1>1, <1>2 DEF FileInv, OnTheWay
<1> QED BY <1>3, <1>4 DEF FileInv

\* Whoever works on the file of a session that shares nothing works for it.
LEMMA WhoseFile ==
    ASSUME U!UploadAssumption, UploadInv, NEW q \in Request, req[q].pc # "idle"
    PROVE  \E t \in Session :
              /\ req[q].by = t /\ UploadTypes /\ req[q].body.name \in Name
              /\ \A s \in Session : U!Alone(s) =>
                    /\ plan[s].name \in Name /\ plan[s] \in U!Plan
                    /\ plan[s].name = req[q].body.name <=> s = t
<1>1. PICK t \in Session : /\ req[q].by = t /\ UploadTypes
                           /\ MadeFor(plan[t].key, req[q].body)
  BY Busy
<1>2. PICK u \in Session : plan[u].key = plan[t].key /\ req[q].body.name = plan[u].name
  BY <1>1 DEF MadeFor
<1>3. \A s \in Session : plan[s] \in U!Plan /\ plan[s].name \in Name
  BY <1>1, ChunksOf DEF UploadTypes
<1>4. ASSUME NEW s \in Session, U!Alone(s)
      PROVE  plan[s].name = req[q].body.name <=> s = t
  <2>1. ASSUME plan[s].name = req[q].body.name PROVE s = t
    <3>1. u = s
      BY <1>2, <1>4, <2>1 DEF U!Alone
    <3> QED BY <1>2, <1>4, <3>1 DEF U!Alone
  <2>2. ASSUME s = t PROVE plan[s].name = req[q].body.name
    <3>1. u = s
      BY <1>2, <1>4, <2>2 DEF U!Alone
    <3> QED BY <1>2, <3>1
  <2> QED BY <2>1, <2>2
<1> QED BY <1>1, <1>2, <1>3, <1>4

\* The chunk that is stored is its session's.
LEMMA StoreKeepsFiles ==
    ASSUME U!UploadAssumption, UploadInv, FileInv, NEW q \in Request, U!Store(q)
    PROVE  FileInv'
<1>1. req[q].pc = "store" /\ UNCHANGED <<plan, temp, merged, client>>
  BY DEF U!Store
<1>2. PICK t \in Session : /\ req[q].by = t /\ UploadTypes /\ req[q] \in Reqs
                           /\ plan[t] \in U!Plan
  BY <1>1, Busy
<1>3. /\ \A s : (U!Alone(s) <=> U!Alone(s)') /\ U!Chunks(s)' = U!Chunks(s)
      /\ \A s : plan'[s] = plan[s] /\ File(s)' = File(s)
  BY <1>1, PlanStays DEF File
<1>4. OwnFile'
  BY <1>1, <1>3 DEF FileInv, OwnFile
<1>5. PICK m \in Name : m = plan[t].name
  BY <1>2, ChunksOf
<1> PICK c : c = req[q].chunk
  OBVIOUS
<1> PICK g : g = [d \in DOMAIN folder[m] \cup {c} |-> IF d = c THEN t ELSE folder[m][d]]
  OBVIOUS
<1>6. folder'[m] = g /\ \A n \in Name \ {m} : folder'[n] = folder[n]
  <2>1. folder = [n \in Name |-> folder[n]]
    BY <1>2 DEF UploadTypes
  <2>2. folder' = [folder EXCEPT ![m] = g]
    BY <1>2, <1>5 DEF U!Store
  <2>3. folder' = [n \in Name |-> IF n = m THEN g ELSE folder[n]]
    BY <2>1, <2>2
  <2> QED BY <2>3
<1>7. \A r \in Request : req'[r] = req[r] \/ req'[r].pc # "merge"
  <2>1. \A r \in Request \ {q} : req'[r] = req[r]
    BY <1>2 DEF U!Store, UploadTypes
  <2>2. req'[q].pc = "diff"
    BY <1>2 DEF U!Store, UploadTypes, Reqs
  <2> QED BY <2>1, <2>2
<1>8. ASSUME NEW s \in Session, U!Alone(s)
      PROVE  \A d \in Parts(s)' : folder'[plan[s].name][d] = s
  <2>1. \A d \in Parts(s) : folder[plan[s].name][d] = s
    BY <1>8 DEF FileInv, OnTheWay
  <2>2. CASE s = t
    <3>1. Parts(s) = DOMAIN folder[m] /\ Parts(s)' = DOMAIN g
      BY <1>1, <1>5, <1>6, <2>2 DEF Parts
    <3> QED BY <1>5, <1>6, <2>1, <2>2, <3>1
  <2>3. CASE s # t
    <3>1. plan[s].name \in Name /\ plan[s].name # m
      BY <1>2, <1>5, <1>8, <2>3, ChunksOf DEF U!Alone, UploadTypes
    <3>2. folder'[plan[s].name] = folder[plan[s].name]
      BY <1>6, <3>1
    <3> QED BY <1>3, <2>1, <3>2 DEF Parts
  <2> QED BY <2>2, <2>3
<1>9. ASSUME NEW s \in Session PROVE OnTheWay(s)'
  <2>1. SUFFICES ASSUME U!Alone(s) PROVE OnTheWay(s)'
    BY <1>3 DEF OnTheWay
  <2>2. OnTheWay(s)
    BY DEF FileInv
  <2>3. temp'[plan'[s].name] \in {<<>>, File(s)'}
    BY <1>1, <1>3, <2>1, <2>2 DEF OnTheWay
  <2>4. \A r \in Request :
           req'[r].pc = "merge" /\ req'[r].by = s => req'[r].parts = U!Chunks(s)'
    BY <1>3, <1>7, <2>1, <2>2 DEF OnTheWay
  <2>5. \A d \in Parts(s)' : folder'[plan'[s].name][d] = s
    BY <1>3, <1>8, <2>1
  <2> QED BY <2>3, <2>4, <2>5 DEF OnTheWay
<1> QED BY <1>4, <1>9 DEF FileInv

\* A merge lists all chunks, since it found as many as there are.
LEMMA ListKeepsFiles ==
    ASSUME U!UploadAssumption, UploadInv, FileInv, NEW q \in Request, U!ListChunks(q)
    PROVE  FileInv'
<1>1. req[q].pc = "sum" /\ UNCHANGED <<plan, folder, temp, merged, client>>
  BY DEF U!ListChunks
<1>2. PICK t \in Session :
         /\ req[q].by = t /\ UploadTypes
         /\ \A s \in Session : U!Alone(s) => (plan[s].name = req[q].body.name <=> s = t)
  BY <1>1, WhoseFile
<1>3. /\ \A s : (U!Alone(s) <=> U!Alone(s)') /\ U!Chunks(s)' = U!Chunks(s)
      /\ \A s : plan'[s] = plan[s] /\ File(s)' = File(s) /\ Parts(s)' = Parts(s)
  BY <1>1, PlanStays DEF File, Parts
<1>4. OwnFile'
  BY <1>1, <1>3 DEF FileInv, OwnFile
<1>5. /\ \A r \in Request \ {q} : req'[r] = req[r]
      /\ req'[q].pc = "merge" /\ req'[q].by = t
      /\ req'[q].parts = DOMAIN folder[req[q].body.name]
  <2>1. req[q] \in Reqs /\ req \in [Request -> Reqs]
    BY <1>2 DEF UploadTypes
  <2> QED BY <1>2, <2>1 DEF U!ListChunks, Reqs
<1>6. ASSUME U!Alone(t) PROVE req'[q].parts = U!Chunks(t)
  <2>1. PartsOk(t)'
    BY MergeSteps DEF UploadInv
  <2>2. q \in U!Flying(t)'
    BY <1>5 DEF U!Flying
  <2>3. Parts(t)' = U!Chunks(t)'
    BY <1>3, <1>5, <1>6, <2>1, <2>2 DEF PartsOk
  <2> QED BY <1>2, <1>3, <1>5, <1>6, <2>3 DEF Parts
<1>7. ASSUME NEW s \in Session PROVE OnTheWay(s)'
  <2>1. SUFFICES ASSUME U!Alone(s) PROVE OnTheWay(s)'
    BY <1>3 DEF OnTheWay
  <2>2. OnTheWay(s)
    BY DEF FileInv
  <2>3. \A r \in Request :
           req'[r].pc = "merge" /\ req'[r].by = s => req'[r].parts = U!Chunks(s)'
    BY <1>3, <1>5, <1>6, <2>1, <2>2 DEF OnTheWay
  <2> QED BY <1>1, <1>3, <2>1, <2>2, <2>3 DEF OnTheWay
<1> QED BY <1>4, <1>7 DEF FileInv

\* The file is put together from them.
LEMMA WriteKeepsFiles ==
    ASSUME U!UploadAssumption, UploadInv, UploadTyped, FileInv, NEW q \in Request,
           U!WriteMerged(q)
    PROVE  FileInv'
<1>1. req[q].pc = "merge" /\ UNCHANGED <<plan, folder, merged, client>>
  BY DEF U!WriteMerged
<1>2. PICK t \in Session :
         /\ req[q].by = t /\ UploadTypes /\ req[q].body.name \in Name
         /\ \A s \in Session : U!Alone(s) =>
               /\ plan[s].name \in Name /\ plan[s] \in U!Plan
               /\ plan[s].name = req[q].body.name <=> s = t
  BY <1>1, WhoseFile
<1>3. /\ \A s : (U!Alone(s) <=> U!Alone(s)') /\ U!Chunks(s)' = U!Chunks(s)
      /\ \A s : plan'[s] = plan[s] /\ File(s)' = File(s) /\ Parts(s)' = Parts(s)
  BY <1>1, PlanStays DEF File, Parts
<1>4. OwnFile'
  BY <1>1, <1>3 DEF FileInv, OwnFile
<1>5. \A r \in Request : req'[r] = req[r] \/ req'[r].pc # "merge"
  <2>1. req[q] \in Reqs /\ req \in [Request -> Reqs]
    BY <1>2 DEF UploadTypes
  <2> QED BY <2>1 DEF U!WriteMerged, Reqs
<1> PICK n \in Name : n = req[q].body.name
  BY <1>2
<1> PICK o, g, f : /\ o = U!Ordered(req[q].parts) /\ g = folder[n]
                   /\ f = [i \in DOMAIN o |-> <<o[i], g[o[i]]>>]
  OBVIOUS
<1>6. temp'[n] = f /\ \A m \in Name \ {n} : temp'[m] = temp[m]
  <2>1. temp = [m \in Name |-> temp[m]]
    BY DEF UploadTyped, FilesTyped
  <2>2. temp' = [temp EXCEPT ![n] = f]
    BY DEF U!WriteMerged
  <2>3. temp' = [m \in Name |-> IF m = n THEN f ELSE temp[m]]
    BY <2>1, <2>2
  <2> QED BY <2>3
<1>7. ASSUME U!Alone(t) PROVE f = File(t)
  <2>1. OnTheWay(t) /\ n = plan[t].name
    BY <1>2, <1>7 DEF FileInv
  <2>2. req[q].parts = U!Chunks(t) /\ Parts(t) = U!Chunks(t)
    <3>1. PartsOk(t) /\ q \in U!Flying(t)
      BY <1>1, <1>2 DEF UploadInv, U!Flying
    <3> QED BY <1>1, <1>2, <1>7, <2>1, <3>1 DEF OnTheWay, PartsOk
  <2>3. \A c \in U!Chunks(t) : g[c] = t
    BY <1>7, <2>1, <2>2 DEF OnTheWay
  <2> QED BY <1>2, <1>7, <2>2, <2>3, MakesFile
<1>8. ASSUME NEW s \in Session PROVE OnTheWay(s)'
  <2>1. SUFFICES ASSUME U!Alone(s) PROVE OnTheWay(s)'
    BY <1>3 DEF OnTheWay
  <2>2. OnTheWay(s)
    BY DEF FileInv
  <2>3. temp'[plan[s].name] \in {<<>>, File(s)}
    <3>1. CASE s = t
      BY <1>2, <1>6, <1>7, <2>1, <3>1
    <3>2. CASE s # t
      <4>1. plan[s].name \in Name \ {n}
        BY <1>2, <2>1, <3>2
      <4> QED BY <1>6, <2>1, <2>2, <4>1 DEF OnTheWay
    <3> QED BY <3>1, <3>2
  <2>4. \A r \in Request :
           req'[r].pc = "merge" /\ req'[r].by = s => req'[r].parts = U!Chunks(s)'
    BY <1>3, <1>5, <2>1, <2>2 DEF OnTheWay
  <2> QED BY <1>1, <1>3, <2>1, <2>2, <2>3, <2>4 DEF OnTheWay
<1> QED BY <1>4, <1>8 DEF FileInv

\* The file is moved into place.
LEMMA MoveKeepsFiles ==
    ASSUME U!UploadAssumption, UploadInv, UploadTyped, FileInv, NEW q \in Request,
           U!StoreMerged(q)
    PROVE  FileInv'
<1>1. req[q].pc = "move" /\ UNCHANGED <<plan, folder>>
  BY DEF U!StoreMerged
<1>2. PICK t \in Session :
         /\ req[q].by = t /\ UploadTypes /\ req[q].body.name \in Name
         /\ \A s \in Session : U!Alone(s) =>
               /\ plan[s].name \in Name /\ plan[s] \in U!Plan
               /\ plan[s].name = req[q].body.name <=> s = t
  BY <1>1, WhoseFile
<1>3. /\ \A s : (U!Alone(s) <=> U!Alone(s)') /\ U!Chunks(s)' = U!Chunks(s)
      /\ \A s : plan'[s] = plan[s] /\ File(s)' = File(s) /\ Parts(s)' = Parts(s)
  BY <1>1, PlanStays DEF File, Parts
<1>4. /\ \A r \in Request : req'[r] = req[r] \/ req'[r].pc # "merge"
      /\ \A s \in Session \ {t} : client'[s] = client[s]
  BY <1>2 DEF U!StoreMerged, UploadTypes, U!Idle
<1> PICK n \in Name : n = req[q].body.name
  BY <1>2
<1>5. temp[n] # <<>>
  BY DEF U!StoreMerged
<1>6. /\ temp'[n] = <<>> /\ merged'[n] = temp[n]
      /\ \A m \in Name \ {n} : temp'[m] = temp[m] /\ merged'[m] = merged[m]
  <2>1. temp = [m \in Name |-> temp[m]] /\ merged = [m \in Name |-> merged[m]]
    BY <1>2 DEF UploadTyped, FilesTyped, UploadTypes
  <2>2. temp' = [temp EXCEPT ![n] = <<>>] /\ merged' = [merged EXCEPT ![n] = temp[n]]
    BY DEF U!StoreMerged
  <2>3. /\ temp' = [m \in Name |-> IF m = n THEN <<>> ELSE temp[m]]
        /\ merged' = [m \in Name |-> IF m = n THEN temp[n] ELSE merged[m]]
    BY <2>1, <2>2
  <2> QED BY <2>3
<1>7. ASSUME NEW s \in Session, U!Alone(s)
      PROVE  /\ merged'[plan[s].name] \in {<<>>, File(s)}
             /\ temp'[plan[s].name] \in {<<>>, File(s)}
             /\ client'[s].phase = "done" => merged'[plan[s].name] = File(s)
  <2>1. OnTheWay(s) /\ temp[plan[s].name] \in {<<>>, File(s)}
    BY <1>7 DEF FileInv, OnTheWay
  <2>2. CASE s = t
    BY <1>2, <1>5, <1>6, <1>7, <2>1, <2>2
  <2>3. CASE s # t
    <3>1. plan[s].name \in Name \ {n} /\ client'[s] = client[s]
      BY <1>2, <1>4, <1>7, <2>3
    <3> QED BY <1>6, <1>7, <2>1, <3>1 DEF FileInv, OwnFile
  <2> QED BY <2>2, <2>3
<1>8. OwnFile'
  BY <1>3, <1>7 DEF OwnFile
<1>9. ASSUME NEW s \in Session PROVE OnTheWay(s)'
  <2>1. SUFFICES ASSUME U!Alone(s) PROVE OnTheWay(s)'
    BY <1>3 DEF OnTheWay
  <2>2. OnTheWay(s)
    BY DEF FileInv
  <2>3. \A r \in Request :
           req'[r].pc = "merge" /\ req'[r].by = s => req'[r].parts = U!Chunks(s)'
    BY <1>3, <1>4, <2>1, <2>2 DEF OnTheWay
  <2> QED BY <1>1, <1>3, <1>7, <2>1, <2>2, <2>3 DEF OnTheWay
<1> QED BY <1>8, <1>9 DEF FileInv

\* What happens to tokens, clients and requests otherwise touches no file.
LEMMA RestKeepsFiles ==
    ASSUME U!UploadAssumption, UploadInv, FileInv,
           \/ \E q \in Request : \/ U!SaveDiff(q) \/ U!SaveWrite(q) \/ U!RefuseMerge(q)
                                 \/ U!NoChunks(q) \/ U!NothingToMove(q) \/ U!Break(q)
           \/ \E s \in Session : U!Send(s)
    PROVE  FileInv'
<1>1. UploadTypes /\ \A q \in Request : RequestOk(q)
  BY DEF UploadInv
<1>2. U!Idle.pc = "idle"
  BY DEF U!Idle
<1>3. ASSUME NEW q \in Request, U!SaveDiff(q) \/ U!SaveWrite(q) PROVE FileInv'
  <2>1. UNCHANGED <<plan, folder, temp, merged>>
    BY <1>3 DEF U!SaveDiff, U!SaveWrite
  <2>2. \A r \in Request : req'[r] = req[r] \/ req'[r].pc # "merge"
    BY <1>1, <1>2, <1>3 DEF U!SaveDiff, U!SaveWrite, UploadTypes, Reqs
  <2>3. \A s \in Session : client'[s].phase = client[s].phase
    <3>1. CASE U!SaveDiff(q)
      BY <3>1 DEF U!SaveDiff
    <3>2. CASE U!SaveWrite(q)
      <4> PICK x, a : client' = [client EXCEPT ![x].acked = a]
        BY <3>2 DEF U!SaveWrite
      <4>1. \A s \in Session : client[s] \in Clients
        BY <1>1 DEF UploadTypes
      <4>2. \A s \in Session :
               client'[s] = IF s = x THEN [client[s] EXCEPT !.acked = a] ELSE client[s]
        BY <1>1 DEF UploadTypes
      <4> QED BY <4>1, <4>2 DEF Clients
    <3> QED BY <1>3, <3>1, <3>2
  <2> QED BY <2>1, <2>2, <2>3, FilesLeftAlone
<1>4. ASSUME NEW q \in Request,
             U!RefuseMerge(q) \/ U!NoChunks(q) \/ U!NothingToMove(q) \/ U!Break(q)
      PROVE  FileInv'
  <2>1. /\ UNCHANGED <<plan, folder, temp, merged>> /\ req' = [req EXCEPT ![q] = U!Idle]
        /\ \/ client' = [client EXCEPT ![req[q].by].todo = @ \cup {req[q].chunk}]
           \/ client' = [client EXCEPT ![req[q].by] = U!SendAgain(@, req[q].by)]
    BY <1>4 DEF U!RefuseMerge, U!NoChunks, U!NothingToMove, U!Refuse, U!Break
  <2>2. \A r \in Request : req'[r] = req[r] \/ req'[r].pc # "merge"
    BY <1>1, <1>2, <2>1 DEF UploadTypes
  <2>3. \A s \in Session : client'[s].phase = "done" => client[s].phase = "done"
    <3>1. \A s \in Session : client[s] \in Clients
      BY <1>1 DEF UploadTypes
    <3> PICK x, c : x = req[q].by /\ c = req[q].chunk
      OBVIOUS
    <3>2. ASSUME NEW s \in Session
          PROVE  \/ client'[s] = client[s]
                 \/ client'[s] = [client[s] EXCEPT !.todo = @ \cup {c}]
                 \/ client'[s] = U!SendAgain(client[s], x)
      BY <1>1, <2>1 DEF UploadTypes
    <3> QED BY <3>1, <3>2 DEF Clients, U!SendAgain
  <2> QED BY <2>1, <2>2, <2>3, FilesLeftAlone
<1>5. ASSUME NEW t \in Session, U!Send(t) PROVE FileInv'
  <2>1. UNCHANGED <<plan, folder, temp, merged>>
    BY <1>5 DEF U!Send, U!CreateTask, U!BeginMerge, U!BeginChunk
  <2>2. \A r \in Request : req'[r] = req[r] \/ req'[r].pc # "merge"
    <3>1. CASE U!CreateTask(t)
      BY <3>1 DEF U!CreateTask
    <3>2. ASSUME NEW q \in Request, NEW c, U!BeginChunk(q, t, c)
          PROVE  \A r \in Request : req'[r] = req[r] \/ req'[r].pc # "merge"
      BY <1>1, <3>2 DEF U!BeginChunk, U!Idle, UploadTypes
    <3>3. ASSUME NEW q \in Request, U!BeginMerge(q, t)
          PROVE  \A r \in Request : req'[r] = req[r] \/ req'[r].pc # "merge"
      BY <1>1, <3>3 DEF U!BeginMerge, U!Idle, UploadTypes
    <3> QED BY <1>5, <3>1, <3>2, <3>3 DEF U!Send
  <2>3. \A s \in Session : client'[s].phase = "done" => client[s].phase = "done"
    <3>1. CASE U!CreateTask(t)
      BY <1>1, <3>1 DEF U!CreateTask, UploadTypes, Clients
    <3>2. ASSUME NEW q \in Request, NEW c, U!BeginChunk(q, t, c)
          PROVE  \A s \in Session : client'[s].phase = "done" => client[s].phase = "done"
      BY <1>1, <3>2 DEF U!BeginChunk, UploadTypes, Clients
    <3>3. ASSUME NEW q \in Request, U!BeginMerge(q, t)
          PROVE  \A s \in Session : client'[s].phase = "done" => client[s].phase = "done"
      BY <1>1, <3>3 DEF U!BeginMerge, UploadTypes, Clients
    <3> QED BY <1>5, <3>1, <3>2, <3>3 DEF U!Send
  <2> QED BY <2>1, <2>2, <2>3, FilesLeftAlone
<1> QED BY <1>3, <1>4, <1>5

\* For any clients and files: a file that shares neither name nor key consists of its
\* own chunks, each one once and by number, or is not there; and it is there once the
\* client was told so, whatever was sent twice, broke off or was sent again.
THEOREM FilesAreWhole == Spec => []OwnFile
<1>1. U!UploadAssumption
  BY ProgressAssumption
<1>2. Init => FileInv
  BY <1>1, InitFileInv DEF Init
<1>3. UploadInv /\ UploadTyped /\ FileInv /\ [Next]_vars => FileInv'
  <2> SUFFICES ASSUME UploadInv, UploadTyped, FileInv, [Next]_vars PROVE FileInv'
    OBVIOUS
  <2>1. ASSUME NEW q \in Request, U!Handle(q) PROVE FileInv'
    BY <1>1, <2>1, StoreKeepsFiles, ListKeepsFiles, WriteKeepsFiles, MoveKeepsFiles,
       RestKeepsFiles DEF U!Handle
  <2>2. ASSUME NEW q \in Request, U!Break(q) PROVE FileInv'
    BY <1>1, <2>2, RestKeepsFiles
  <2>3. ASSUME NEW s \in Session, U!Send(s) PROVE FileInv'
    BY <1>1, <2>3, RestKeepsFiles
  <2>4. CASE UNCHANGED upload
    BY <2>4, FilesLeftAlone DEF upload
  <2>5. U!Next \/ UNCHANGED upload
    BY DEF Next, vars, Starting, Uploading, Paying
  <2> QED BY <2>1, <2>2, <2>3, <2>4, <2>5 DEF U!Next
<1>4. FileInv => OwnFile
  BY DEF FileInv
<1> QED BY <1>2, <1>3, <1>4, UploadInvariance, UploadTypedInvariance, PTL DEF Spec

-----------------------------------------------------------------------------
(* Payments, by the proofs about them.                                       *)

PP == INSTANCE PaymentProofs WITH Request <- Handler, fails <- pFails

\* The payments of PaymentProofs are the ones of Progress, definition by definition.
LEMMA SameAssumption == P!PaymentAssumption => PP!PaymentAssumption
BY DEF P!PaymentAssumption, PP!PaymentAssumption, P!Method, PP!Method, P!ThirdParty,
       PP!ThirdParty

\* They begin alike.
LEMMA SameInit == P!Init => PP!Init
BY DEF P!Init, PP!Init, P!Missing, PP!Missing, P!Blank, PP!Blank, P!Worker, PP!Worker

\* They take the same steps.
LEMMA SameNext == P!Next => PP!Next
BY DEF P!Active, PP!Active, P!Working, PP!Working, P!Blank, PP!Blank, P!At, PP!At,
       P!Goto, PP!Goto, P!Reject, PP!Reject, P!ModeOf, PP!ModeOf, P!Saved, PP!Saved,
       P!SaveTxn, PP!SaveTxn, P!WriteTxn, PP!WriteTxn, P!SaveOrder, PP!SaveOrder,
       P!AfterOrder, PP!AfterOrder, P!WriteOrder, PP!WriteOrder, P!Begin, PP!Begin,
       P!CreateOrder, PP!CreateOrder, P!CreateTxn, PP!CreateTxn, P!StartPay,
       PP!StartPay, P!BeginUpdate, PP!BeginUpdate, P!UpdateOrder, PP!UpdateOrder,
       P!BeginCallback, PP!BeginCallback, P!LoadCallback, PP!LoadCallback,
       P!VerifySign, PP!VerifySign, P!BeginNotify, PP!BeginNotify, P!Settling,
       PP!Settling, P!LoadNotify, PP!LoadNotify, P!Handle, PP!Handle, P!CronBegin,
       PP!CronBegin, P!CronReload, PP!CronReload, P!CronQuery, PP!CronQuery,
       P!CronEnd, PP!CronEnd, P!CleanExpired, PP!CleanExpired, P!BuyerPays,
       PP!BuyerPays, P!Age, PP!Age, P!Fail, PP!Fail, P!Step, PP!Step, P!Next, PP!Next,
       P!ThirdParty, PP!ThirdParty, P!Worker, PP!Worker, P!Missing, PP!Missing,
       P!Fresh, PP!Fresh, P!HandedOver, PP!HandedOver

\* The types that are proved there are the ones that are claimed here.
LEMMA SameTypes == PP!TypeOK => P!TypeOK
BY DEF P!TypeOK, PP!TypeOK, P!WkType, PP!WkType, P!Pc, PP!Pc, P!Op, PP!Op,
       P!OrderStatus, PP!OrderStatus, P!TxnStatus, PP!TxnStatus, P!Mode, PP!Mode,
       P!Worker, PP!Worker

\* What was proved of payments alone holds of them as a part.
LEMMA PaymentInvariance == Spec => []PP!IInv
<1>1. PP!PaymentAssumption
  BY SameAssumption, ProgressAssumption
<1>2. Init => PP!IInv
  BY <1>1, SameInit, PP!InitIInv DEF Init
<1>3. PP!IInv /\ [Next]_vars => PP!IInv'
  <2> SUFFICES ASSUME PP!IInv, [Next]_vars PROVE PP!IInv'
    OBVIOUS
  <2>1. P!Next \/ UNCHANGED payment
    BY DEF Next, vars, Starting, Uploading, Paying
  <2>2. [PP!Next]_(PP!vars)
    BY <2>1, SameNext DEF payment, PP!vars
  <2> QED BY <1>1, <2>2, PP!NextIInv
<1> QED BY <1>2, <1>3, PTL DEF Spec

\* Payments are well formed throughout every behaviour.
LEMMA PaymentIsTyped == Spec => []P!TypeOK
<1>1. PP!IInv => P!TypeOK
  BY SameTypes DEF PP!IInv
<1> QED BY <1>1, PaymentInvariance, PTL

\* For any instances, sessions, orders and handlers: the lock and the tables, the
\* tokens, chunks and files, and the rows and calls of payments are well formed
\* throughout, whatever stops, breaks off or is sent again.
THEOREM PartsAreTyped == Spec => []TypeOK
<1>1. S!TypeOK /\ U!TypeOK /\ P!TypeOK => TypeOK
  BY DEF TypeOK
<1> QED BY <1>1, StartIsTyped, UploadIsTyped, PaymentIsTyped, PTL
=============================================================================
