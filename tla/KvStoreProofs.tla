--------------------------- MODULE KvStoreProofs ---------------------------
(***************************************************************************)
(* Proofs for module KvStore, for any number of calls, readers and server  *)
(* instances: type correctness, that what administrators put in survives   *)
(* initialisers, and that the caches are cleared in time.                  *)
(***************************************************************************)
EXTENDS KvStoreProps, FiniteSetTheorems, TLAPS

-----------------------------------------------------------------------------
(* Type correctness. *)

\* The rows of the key are finitely many, and a call that looks at a row again
\* has found it before.
TypeInv ==
    /\ TypeOK
    /\ IsFiniteSet(Ids)
    /\ \A c \in Call : call[c].pc \in {"model", "diff", "update", "commit"} => call[c].id \in Ids

\* The constants: what initialisers and administrators write are values.
LEMMA ValueTypes ==
    /\ Off \in Value /\ Input \subseteq Value
    /\ \A f \in Form : [form |-> f, data |-> NoData] \in Value
BY KvAssumption DEF Value

\* What set makes of an old value and an initialiser's is a value.
LEMMA MergedType ==
    ASSUME NEW old \in Value, NEW new \in Value \ {Off}
    PROVE  Merged(old, new) \in Value /\ (old # Off => Merged(old, new).data = old.data)
BY DEF Merged, Value

\* Rows are numbered from one.
LEMMA IdsNumbers ==
    ASSUME TypeInv
    PROVE  Cardinality(Ids) \in Nat /\ Ids = 1..Cardinality(Ids) /\ 0 \notin Ids
<1>1. Cardinality(Ids) \in Nat /\ Ids = 1..Cardinality(Ids)
  BY FS_CardinalityType DEF TypeInv, TypeOK
<1> QED BY <1>1

\* What a look-up of the rows yields.
LEMMA VisibleTypes ==
    ASSUME TypeInv
    PROVE  /\ Visible \subseteq Value \cup {NoValue}
           /\ First \subseteq Ids \cup {0}
           /\ \A id \in Present : rows[id] \in Value
BY DEF TypeInv, TypeOK, Visible, First, Present, Missing

\* A step that changes one call, and of the table and the counters only adds to
\* what calls refer to, keeps the types of the calls.
LEMMA OneCall ==
    ASSUME TypeInv, NEW c \in Call, NEW new \in CallType,
           call' = [call EXCEPT ![c] = new],
           new.pc \in {"model", "diff", "update", "commit"} => new.id \in Ids,
           Ids \subseteq Ids', edits \in Nat, edits' \in Nat, edits <= edits'
    PROVE  /\ call' \in [Call -> CallType']
           /\ \A d \in Call : call'[d].pc \in {"model", "diff", "update", "commit"} => call'[d].id \in Ids'
<1>1. ASSUME NEW me \in CallType PROVE me \in CallType'
  BY DEF CallType
<1>2. call \in [Call -> CallType]
  BY DEF TypeInv, TypeOK
<1>3. call' \in [Call -> CallType']
  BY <1>1, <1>2
<1>4. ASSUME NEW d \in Call, call'[d].pc \in {"model", "diff", "update", "commit"}
      PROVE  call'[d].id \in Ids'
  BY <1>2, <1>4 DEF TypeInv
<1> QED BY <1>3, <1>4

\* Where a call goes on, what it knows stays; when it is done it is forgotten.
LEMMA GotoEffect ==
    ASSUME TypeInv, NEW c \in Call, NEW pc, Goto(c, pc),
           pc \in {"diff", "insert", "update", "commit", "clear", "delete", "again", "done"}
    PROVE  \E new \in CallType :
              /\ call' = [call EXCEPT ![c] = new]
              /\ new.pc = pc
              /\ pc # "done" => /\ new.id = call[c].id /\ new.op = call[c].op
                                /\ new.val = call[c].val /\ new.seen = call[c].seen
                                /\ new.final = call[c].final
              /\ pc = "done" => new.op = "none"
<1>1. call[c] \in CallType /\ edits \in Nat /\ Off \in Value
  BY ValueTypes DEF TypeInv, TypeOK
<1>2. CASE pc = "done"
  <2>1. PICK new : new = [IdleCall EXCEPT !.pc = "done", !.link = call[c].link]
    OBVIOUS
  <2>2. call' = [call EXCEPT ![c] = new]
    BY <1>2, <2>1 DEF Goto
  <2>3. new = [pc |-> "done", op |-> "none", id |-> 0, val |-> Off, seen |-> 0,
               skip |-> FALSE, final |-> FALSE, link |-> call[c].link]
    BY <2>1 DEF IdleCall
  <2>4. 0 \in 0..edits /\ call[c].link \in Ids \cup {0}
    BY <1>1 DEF CallType
  <2>5. new \in CallType /\ new.pc = "done" /\ new.op = "none"
    BY <1>1, <2>3, <2>4 DEF CallType
  <2> QED BY <1>2, <2>2, <2>5
<1>3. CASE pc # "done"
  <2>1. PICK new : new = [call[c] EXCEPT !.pc = pc]
    OBVIOUS
  <2>2. call' = [call EXCEPT ![c] = new]
    BY <1>3, <2>1 DEF Goto
  <2>3. new \in CallType /\ new.pc = pc /\ new.id = call[c].id /\ new.op = call[c].op
        /\ new.val = call[c].val /\ new.seen = call[c].seen /\ new.final = call[c].final
    BY <1>1, <2>1 DEF CallType
  <2> QED BY <1>3, <2>2, <2>3
<1> QED BY <1>2, <1>3

\* set found a row, or none, and computed what to save.
LEMMA StartEffect ==
    ASSUME TypeInv, NEW c \in Call, NEW op \in {"merge", "keep", "set"}, NEW new \in Value,
           new # Off \/ op = "set", Start(c, op, new)
    PROVE  \E me \in CallType, id \in First :
              /\ call' = [call EXCEPT ![c] = me]
              /\ me.pc \in {"model", "diff", "insert"} /\ me.id = id
              /\ me.pc \in {"model", "diff"} => me.id \in Ids
              /\ op # "set" /\ id # 0 => me.pc = "model"
              /\ me.op = op /\ me.seen = edits
              /\ me.skip = (op = "keep" /\ ~Falsy(IF id = 0 THEN NoValue ELSE rows[id]))
              /\ me.val = IF op = "merge" /\ id # 0 THEN Merged(rows[id], new) ELSE new
<1>1. PICK id \in First, named \in {TRUE} \cup (IF op = "set" THEN {FALSE} ELSE {}) :
        LET old  == IF id = 0 THEN NoValue ELSE rows[id]
            skip == op = "keep" /\ ~Falsy(old)
        IN  call' = [call EXCEPT ![c] =
                [@ EXCEPT !.op = op, !.id = id, !.seen = edits, !.skip = skip,
                          !.final = op # "merge" \/ id = 0,
                          !.val = IF op = "merge" /\ id # 0 THEN Merged(old, new) ELSE new,
                          !.pc = IF id # 0 /\ named THEN "model"
                                 ELSE AfterLookups(op, id)]]
  BY DEF Start
<1>2. PICK skip \in BOOLEAN :
        skip = (op = "keep" /\ ~Falsy(IF id = 0 THEN NoValue ELSE rows[id]))
  OBVIOUS
<1>3. PICK val : val = IF op = "merge" /\ id # 0 THEN Merged(rows[id], new) ELSE new
  OBVIOUS
<1>4. PICK pc : pc = IF id # 0 /\ named THEN "model" ELSE AfterLookups(op, id)
  OBVIOUS
<1>5. PICK final \in BOOLEAN : final = (op # "merge" \/ id = 0)
  OBVIOUS
<1>6. PICK me : me = [call[c] EXCEPT !.op = op, !.id = id, !.seen = edits, !.skip = skip,
                                     !.final = final, !.val = val, !.pc = pc]
  OBVIOUS
<1>7. call' = [call EXCEPT ![c] = me]
  BY <1>1, <1>2, <1>3, <1>4, <1>5, <1>6
<1>8. id \in Ids \cup {0} /\ (id # 0 => id \in Present)
  BY VisibleTypes DEF First
<1>9. val \in Value
  BY <1>3, <1>8, VisibleTypes, MergedType
<1>10. /\ pc \in {"model", "diff", "insert"} /\ (pc \in {"model", "diff"} => id # 0)
       /\ op # "set" /\ id # 0 => pc = "model"
  BY <1>4 DEF AfterLookups
<1>11. call[c] \in CallType /\ edits \in Nat
  BY DEF TypeInv, TypeOK
<1>12. me \in CallType
  <2>1. edits \in 0..edits /\ id \in Ids \cup {0}
    BY <1>8, <1>11
  <2>2. op \in {"none", "merge", "keep", "set", "update"}
    OBVIOUS
  <2>3. pc \in {"idle", "model", "diff", "insert", "update", "commit", "clear", "delete",
                 "again", "done"}
    BY <1>10
  <2>4. call[c].link \in Ids \cup {0}
    BY <1>11 DEF CallType
  <2>5. me = [pc |-> pc, op |-> op, id |-> id, val |-> val, seen |-> edits,
              skip |-> skip, final |-> final, link |-> call[c].link]
    BY <1>6, <1>11 DEF CallType
  <2> QED BY <1>9, <2>1, <2>2, <2>3, <2>4, <2>5 DEF CallType
<1>13. /\ me.pc = pc /\ me.id = id /\ me.op = op /\ me.seen = edits /\ me.skip = skip
       /\ me.val = val
  BY <1>6, <1>11 DEF CallType
<1> QED BY <1>2, <1>3, <1>7, <1>8, <1>10, <1>12, <1>13

\* A call that is an initialiser about to save what it computed.
Initialising(me) ==
    /\ ~IsAdmin(me.op)
    /\ me.pc \in {"diff", "insert", "update", "commit"} \/ (me.pc = "model" /\ ~me.skip)

\* Call new, an initialiser, computed its value from the rows as they are.
Computed(new) ==
    \E id \in First :
        /\ new.op \in {"merge", "keep"} /\ (id # 0 => new.pc = "model")
        /\ new.skip = (new.op = "keep" /\ ~Falsy(IF id = 0 THEN NoValue ELSE rows[id]))
        /\ new.val.data = IF new.op = "merge" /\ id # 0 /\ rows[id] # Off
                          THEN rows[id].data ELSE NoData

\* A step of call me, new after it, leaves the rows alone: what it is about to
\* save was computed just now, or before, or is not an initialiser's.
Idles(me, new) ==
    /\ UNCHANGED <<rows, kept, edits, stale>>
    /\ \/ ~Initialising(new)
       \/ Initialising(me) /\ new.op = me.op /\ new.val = me.val /\ new.seen = me.seen
       \/ new.seen = edits /\ Computed(new)

\* It saves its value in row id.
Saves(me, new) ==
    /\ me.pc \in {"insert", "commit"} /\ new.pc \in {"clear", "done"}
    /\ new.pc = "done" => slip' \/ (me.pc = "commit" /\ ~me.final)
    /\ \E id \in Ids \cup {Cardinality(Ids) + 1} :
          rows' = [i \in Ids \cup {id} |-> IF i = id THEN me.val ELSE rows[i]]
    /\ IF IsAdmin(me.op)
       THEN kept' = me.val.data /\ edits' = edits + 1 /\ UNCHANGED stale
       ELSE stale' = (stale \/ me.seen # edits) /\ UNCHANGED <<kept, edits>>

\* It deletes all the rows.
Deletes(new) ==
    /\ rows' = [i \in Ids |-> NoValue]
    /\ kept' = NoData /\ edits' = edits + 1 /\ slip' /\ UNCHANGED stale
    /\ new.pc = "again"

\* What a step of call c does to the call, the rows and the caches.
CallEffect(c, new) ==
    /\ new \in CallType
    /\ call' = [call EXCEPT ![c] = new]
    /\ new.pc \in {"model", "diff", "update", "commit"} => new.id \in Ids
    /\ new.pc # "idle" \/ call[c].pc = "idle"
    /\ Idles(call[c], new) \/ Saves(call[c], new) \/ Deletes(new)
    /\ cache' = cache \/ (cache' \in Cleared(c) /\ call[c].pc \in {"update", "clear"})
    /\ call[c].pc = "clear" => cache' \in Cleared(c) \/ slip' \/ new.pc = "clear"
    /\ new.pc = "commit" /\ ~new.final =>
          (cache' \in Cleared(c) /\ call[c].pc = "update") \/ Overdue(c)
    /\ slip => slip'

\* The steps that begin with the look-ups of set.
LEMMA Startup ==
    ASSUME TypeInv, NEW c \in Call, NEW op \in {"merge", "keep"}, NEW f \in Form,
           Start(c, op, [form |-> f, data |-> NoData])
    PROVE  \E new \in CallType :
              /\ call' = [call EXCEPT ![c] = new]
              /\ new.pc \in {"model", "diff", "insert"}
              /\ new.pc \in {"model", "diff"} => new.id \in Ids
              /\ new.seen = edits /\ Computed(new)
<1>1. PICK val : val = [form |-> f, data |-> NoData]
  OBVIOUS
<1>2. val \in Value \ {Off} /\ val.data = NoData
  BY <1>1, ValueTypes, KvAssumption DEF Off
<1>3. PICK me \in CallType, id \in First :
              /\ call' = [call EXCEPT ![c] = me]
              /\ me.pc \in {"model", "diff", "insert"} /\ me.id = id
              /\ me.pc \in {"model", "diff"} => me.id \in Ids
              /\ op # "set" /\ id # 0 => me.pc = "model"
              /\ me.op = op /\ me.seen = edits
              /\ me.skip = (op = "keep" /\ ~Falsy(IF id = 0 THEN NoValue ELSE rows[id]))
              /\ me.val = IF op = "merge" /\ id # 0 THEN Merged(rows[id], val) ELSE val
  BY <1>1, <1>2, StartEffect
<1>4. ASSUME op = "merge", id # 0
      PROVE  /\ rows[id] # Off => me.val.data = rows[id].data
             /\ rows[id] = Off => me.val.data = NoData
  <2>1. id \in Present /\ rows[id] \in Value
    BY <1>4, VisibleTypes DEF First
  <2>2. me.val = [form |-> val.form,
                  data |-> IF rows[id] = Off THEN NoData ELSE rows[id].data]
    BY <1>3, <1>4 DEF Merged
  <2> QED BY <2>2
<1>5. Computed(me)
  BY <1>2, <1>3, <1>4 DEF Computed
<1> QED BY <1>3, <1>5

\* Every step of a call is one of those.
LEMMA CallStepEffect ==
    ASSUME TypeInv, NEW c \in Call, CallStep(c)
    PROVE  /\ \E new : CallEffect(c, new)
           /\ UNCHANGED <<config, thread, got, open, outages>>
<1>1. /\ call \in [Call -> CallType] /\ call[c] \in CallType /\ slip \in BOOLEAN
      /\ edits \in Nat /\ rows \in [Ids -> Value \cup {NoValue}]
      /\ call[c].pc \in {"model", "diff", "update", "commit"} => call[c].id \in Ids
      /\ config.init \in {"merge", "keep", "none"}
  BY KvAssumption DEF TypeInv, TypeOK, ConfigType
<1>2. PICK me : me = call[c]
  OBVIOUS
<1> SUFFICES \E new : CallEffect(c, new)
  BY DEF CallStep, Initialise, Set, Model, Link, Diff, Insert, Update, Commit, Clear, Load,
         Destroy, Delete, Again, Fail, table, caches, ghost
<1>3. ASSUME NEW new, new \in CallType, call' = [call EXCEPT ![c] = new],
             new.pc \in {"model", "diff", "insert"},
             new.pc \in {"model", "diff"} => new.id \in Ids,
             new.seen = edits, Computed(new) \/ ~Initialising(new), me.pc # "clear",
             UNCHANGED <<table, caches, ghost, open, slip, fails, outages>>
      PROVE  CallEffect(c, new)
  BY <1>1, <1>2, <1>3 DEF CallEffect, Idles, table, caches, ghost
<1>4. CASE Initialise(c)
  <2>1. PICK f \in Form : Start(c, config.init, [form |-> f, data |-> NoData])
    BY <1>4 DEF Initialise
  <2>2. /\ config.init \in {"merge", "keep"} /\ me.pc # "clear"
        /\ UNCHANGED <<table, caches, ghost, open, slip, fails, outages>>
    BY <1>1, <1>2, <1>4 DEF Initialise
  <2> QED BY <1>3, <2>1, <2>2, Startup
<1>5. CASE Set(c)
  <2>1. PICK v \in Input : Start(c, "set", v)
    BY <1>5 DEF Set
  <2>2. PICK new \in CallType, id \in First :
              /\ call' = [call EXCEPT ![c] = new]
              /\ new.pc \in {"model", "diff", "insert"}
              /\ new.pc \in {"model", "diff"} => new.id \in Ids
              /\ new.op = "set" /\ new.seen = edits
    <3>1. v \in Value
      BY ValueTypes
    <3> QED BY <2>1, <3>1, StartEffect
  <2>3. me.pc # "clear" /\ UNCHANGED <<table, caches, ghost, open, slip, fails, outages>>
    BY <1>2, <1>5 DEF Set
  <2>4. ~Initialising(new)
    BY <2>2 DEF Initialising, IsAdmin
  <2> QED BY <1>3, <2>2, <2>3, <2>4
<1>6. CASE Again(c) /\ config.init # "none"
  <2>1. PICK f \in Form : Start(c, config.init, [form |-> f, data |-> NoData])
    BY <1>6 DEF Again
  <2>2. /\ config.init \in {"merge", "keep"} /\ me.pc # "clear"
        /\ UNCHANGED <<table, caches, ghost, open, slip, fails, outages>>
    BY <1>1, <1>2, <1>6 DEF Again
  <2> QED BY <1>3, <2>1, <2>2, Startup
<1>7. ASSUME NEW pc, Goto(c, pc), pc \in {"diff", "insert", "update", "commit", "clear", "delete", "again", "done"}
      PROVE  \E new \in CallType :
              /\ call' = [call EXCEPT ![c] = new]
              /\ new.pc = pc
              /\ pc # "done" => /\ new.id = me.id /\ new.op = me.op
                                /\ new.val = me.val /\ new.seen = me.seen
                                /\ new.final = me.final
              /\ pc = "done" => new.op = "none"
  BY <1>2, <1>7, GotoEffect
<1>8. CASE Again(c) /\ config.init = "none"
  <2>1. Goto(c, "done") /\ me.pc # "clear" /\ UNCHANGED <<table, caches, ghost, slip>>
    BY <1>2, <1>8 DEF Again
  <2>2. PICK new \in CallType : call' = [call EXCEPT ![c] = new] /\ new.pc = "done" /\ new.op = "none"
    BY <1>7, <2>1
  <2> QED BY <1>1, <1>2, <2>1, <2>2 DEF CallEffect, Idles, Initialising, IsAdmin, table, caches, ghost
<1>9. CASE Destroy(c)
  <2>1. PICK pc \in {"again", "delete"} : Goto(c, pc)
    BY <1>9 DEF Destroy
  <2>2. PICK new \in CallType : call' = [call EXCEPT ![c] = new] /\ new.pc = pc
    BY <1>7, <2>1
  <2> QED BY <1>1, <1>2, <1>9, <2>2 DEF Destroy, CallEffect, Idles, Initialising, IsAdmin, table, caches, ghost
<1>10. CASE Diff(c)
  <2>1. PICK pc \in {"insert", "update", "clear", "done"} : Goto(c, pc)
    BY <1>10 DEF Diff
  <2>2. /\ me.pc = "diff" /\ me.id \in Ids /\ UNCHANGED <<table, caches, ghost, slip>>
    BY <1>1, <1>2, <1>10 DEF Diff
  <2>3. PICK new \in CallType :
          /\ call' = [call EXCEPT ![c] = new] /\ new.pc = pc
          /\ pc # "done" => /\ new.id = me.id /\ new.op = me.op
                            /\ new.val = me.val /\ new.seen = me.seen
    BY <1>7, <2>1
  <2>4. Idles(me, new)
    BY <2>2, <2>3 DEF Idles, Initialising, IsAdmin, table, ghost
  <2> QED BY <1>1, <1>2, <2>2, <2>3, <2>4 DEF CallEffect, table, caches
<1>11. CASE Load(c)
  <2>1. PICK id \in Present, v \in Input :
            call' = [call EXCEPT ![c] = [@ EXCEPT !.op = "update", !.id = id, !.val = v,
                                                  !.seen = edits, !.pc = "diff"]]
    BY <1>11 DEF Load
  <2>2. PICK new : new = [me EXCEPT !.op = "update", !.id = id, !.val = v,
                                    !.seen = edits, !.pc = "diff"]
    OBVIOUS
  <2>3. v \in Value /\ id \in Ids /\ edits \in 0..edits
    BY <1>1, ValueTypes DEF Present
  <2>4. new \in CallType /\ new.pc = "diff" /\ new.op = "update" /\ new.id = id
    BY <1>1, <1>2, <2>2, <2>3 DEF CallType
  <2>5. call' = [call EXCEPT ![c] = new]
    BY <1>2, <2>1, <2>2
  <2> QED BY <1>1, <1>2, <1>11, <2>3, <2>4, <2>5
         DEF Load, CallEffect, Idles, Initialising, IsAdmin, table, caches, ghost
<1>12. CASE Model(c)
  <2>1. PICK link : link = IF model = 0 THEN me.id ELSE 0
    OBVIOUS
  <2>2. me.id \in Ids /\ link \in Ids \cup {0} /\ me \in CallType /\ me.pc = "model"
    BY <1>1, <1>2, <1>12, <2>1 DEF Model
  <2>3. CASE me.skip
    <3>1. PICK new : new = [IdleCall EXCEPT !.pc = "done", !.link = link]
      OBVIOUS
    <3>2. new = [pc |-> "done", op |-> "none", id |-> 0, val |-> Off, seen |-> 0,
                 skip |-> FALSE, final |-> FALSE, link |-> link]
      BY <3>1 DEF IdleCall
    <3>3. 0 \in 0..edits
      BY <1>1
    <3>4. new \in CallType /\ new.pc = "done"
      BY <2>2, <3>2, <3>3, ValueTypes DEF CallType
    <3>5. call' = [call EXCEPT ![c] = new]
      BY <1>2, <1>12, <2>1, <2>3, <3>1 DEF Model
    <3> QED BY <1>1, <1>2, <1>12, <2>2, <3>4, <3>5
           DEF Model, CallEffect, Idles, Initialising, IsAdmin, table, caches, ghost
  <2>4. CASE ~me.skip
    <3>1. PICK new : new = [me EXCEPT !.pc = "diff", !.link = link]
      OBVIOUS
    <3>2. /\ new \in CallType /\ new.pc = "diff" /\ new.id = me.id /\ new.op = me.op
          /\ new.val = me.val /\ new.seen = me.seen
      BY <2>2, <3>1 DEF CallType
    <3>3. call' = [call EXCEPT ![c] = new]
      BY <1>2, <1>12, <2>1, <2>4, <3>1 DEF Model
    <3>4. Idles(me, new)
      BY <1>12, <2>2, <2>4, <3>2 DEF Model, Idles, Initialising, IsAdmin, table, ghost
    <3> QED BY <1>1, <1>2, <1>12, <2>2, <3>2, <3>3, <3>4
           DEF Model, CallEffect, table, caches, ghost
  <2> QED BY <2>3, <2>4
<1>13. CASE Link(c)
  <2>1. PICK new : new = [me EXCEPT !.link = 0]
    OBVIOUS
  <2>2. /\ new \in CallType /\ new.pc = me.pc /\ new.id = me.id /\ new.op = me.op
        /\ new.val = me.val /\ new.seen = me.seen /\ new.skip = me.skip
        /\ new.final = me.final
    BY <1>1, <1>2, <2>1 DEF CallType
  <2>3. call' = [call EXCEPT ![c] = new]
    BY <1>2, <1>13, <2>1 DEF Link
  <2>4. Idles(me, new)
    BY <1>13, <2>2 DEF Link, Idles, Initialising, IsAdmin, ghost
  <2> QED BY <1>1, <1>2, <1>13, <2>2, <2>3, <2>4
         DEF Link, CallEffect, Overdue, caches
<1>14. CASE Insert(c)
  <2>1. PICK id : id = IF me.id = 0 THEN Cardinality(Ids) + 1 ELSE me.id
    OBVIOUS
  <2>2. /\ me.pc = "insert"
        /\ IF id \in Present THEN UNCHANGED <<rows, ghost, slip>>
           ELSE /\ rows' = [i \in Ids \cup {id} |-> IF i = id THEN me.val ELSE rows[i]]
                /\ Wrote(c)
                /\ slip' = (slip \/ ~me.final)
        /\ Goto(c, IF me.final THEN "clear" ELSE "done")
        /\ UNCHANGED <<config, model, caches, open, fails, outages>>
    BY <1>2, <1>14, <2>1 DEF Insert
  <2>3. id \in Ids \cup {Cardinality(Ids) + 1}
    BY <1>1, <1>2, <2>1 DEF CallType
  <2>4. PICK pc \in {"clear", "done"} : Goto(c, pc) /\ (pc = "done" => ~me.final)
    BY <2>2
  <2>5. PICK new \in CallType : call' = [call EXCEPT ![c] = new] /\ new.pc = pc
    BY <1>7, <2>4
  <2>6. CASE id \in Present
    BY <1>1, <1>2, <2>2, <2>4, <2>5, <2>6 DEF CallEffect, Idles, Initialising, IsAdmin, caches, ghost
  <2>7. CASE id \notin Present
    <3>1. Saves(me, new)
      BY <1>2, <2>2, <2>3, <2>4, <2>5, <2>7 DEF Saves, Wrote
    <3> QED BY <1>1, <1>2, <2>2, <2>4, <2>5, <2>7, <3>1 DEF CallEffect, caches
  <2> QED BY <2>6, <2>7
<1>15. CASE Update(c)
  <2>1. me.pc = "update" /\ me.id \in Ids /\ UNCHANGED <<table, ghost, slip>>
    BY <1>1, <1>2, <1>15 DEF Update
  <2>2. ASSUME NEW new, new \in CallType, call' = [call EXCEPT ![c] = new], new.pc = "commit",
               new.id = me.id, new.op = me.op, new.val = me.val, new.seen = me.seen,
               cache' \in Cleared(c) \/ (cache' = cache /\ new.final)
        PROVE  CallEffect(c, new)
    <3>1. Idles(me, new)
      BY <2>1, <2>2 DEF Idles, Initialising, IsAdmin, table, ghost
    <3> QED BY <1>1, <1>2, <2>1, <2>2, <3>1 DEF CallEffect
  <2>3. CASE cache' \in Cleared(c) /\ Goto(c, "commit")
    <3>1. PICK new \in CallType :
            /\ call' = [call EXCEPT ![c] = new] /\ new.pc = "commit" /\ new.id = me.id
            /\ new.op = me.op /\ new.val = me.val /\ new.seen = me.seen
      BY <1>7, <2>3
    <3> QED BY <2>2, <2>3, <3>1
  <2>4. CASE /\ UNCHANGED cache
             /\ call' = [call EXCEPT ![c].pc = "commit", ![c].final = TRUE]
    <3>1. PICK new : new = [me EXCEPT !.pc = "commit", !.final = TRUE]
      OBVIOUS
    <3>2. /\ new \in CallType /\ new.pc = "commit" /\ new.id = me.id /\ new.op = me.op
          /\ new.val = me.val /\ new.seen = me.seen /\ new.final
      BY <1>1, <1>2, <3>1 DEF CallType
    <3>3. call' = [call EXCEPT ![c] = new]
      BY <1>1, <1>2, <2>4, <3>1
    <3> QED BY <2>2, <2>4, <3>2, <3>3
  <2> QED BY <1>15, <2>3, <2>4 DEF Update
<1>16. CASE Commit(c)
  <2>1. /\ me.pc = "commit" /\ me.id \in Ids /\ UNCHANGED <<slip, cache>>
        /\ IF Missing(me.id) THEN UNCHANGED <<rows, ghost>>
           ELSE rows' = [rows EXCEPT ![me.id] = me.val] /\ Wrote(c)
        /\ Goto(c, IF me.final THEN "clear" ELSE "done")
    BY <1>1, <1>2, <1>16 DEF Commit, caches
  <2>2. PICK pc \in {"clear", "done"} : Goto(c, pc) /\ (pc = "done" => ~me.final)
    BY <2>1
  <2>3. PICK new \in CallType : /\ call' = [call EXCEPT ![c] = new] /\ new.pc = pc
                                /\ pc = "done" => new.op = "none"
    BY <1>7, <2>2
  <2>4. CASE Missing(me.id)
    BY <1>1, <1>2, <2>1, <2>3, <2>4 DEF CallEffect, Idles, Initialising, IsAdmin, ghost
  <2>5. CASE ~Missing(me.id)
    <3>1. rows' = [i \in Ids \cup {me.id} |-> IF i = me.id THEN me.val ELSE rows[i]]
      BY <1>1, <2>1, <2>5
    <3>2. Saves(me, new)
      BY <1>2, <2>1, <2>2, <2>3, <2>5, <3>1 DEF Saves, Wrote
    <3> QED BY <1>1, <1>2, <2>1, <2>3, <3>2 DEF CallEffect
  <2> QED BY <2>4, <2>5
<1>17. CASE Clear(c)
  <2>1. /\ me.pc = "clear" /\ Goto(c, "done") /\ UNCHANGED <<table, ghost, slip>>
        /\ cache' \in Cleared(c)
    BY <1>2, <1>17 DEF Clear
  <2>2. PICK new \in CallType : call' = [call EXCEPT ![c] = new] /\ new.pc = "done"
    BY <1>7, <2>1
  <2> QED BY <1>1, <1>2, <2>1, <2>2 DEF CallEffect, Idles, Initialising, IsAdmin, table, ghost
<1>18. CASE Delete(c)
  <2>1. PICK new \in CallType : call' = [call EXCEPT ![c] = new] /\ new.pc = "again"
    BY <1>7, <1>18 DEF Delete
  <2> QED BY <1>1, <1>18, <2>1 DEF Delete, Deletes, CallEffect, caches
<1>19. CASE Fail(c)
  <2>1. PICK new : new = [IdleCall EXCEPT !.pc = "done"]
    OBVIOUS
  <2>2. new = [pc |-> "done", op |-> "none", id |-> 0, val |-> Off, seen |-> 0,
               skip |-> FALSE, final |-> FALSE, link |-> 0]
    BY <2>1 DEF IdleCall
  <2>3. 0 \in 0..edits
    BY <1>1
  <2>4. new \in CallType /\ new.pc = "done"
    BY <2>2, <2>3, ValueTypes DEF CallType
  <2> QED BY <1>1, <1>2, <1>19, <2>1, <2>4
         DEF Fail, CallEffect, Idles, Initialising, IsAdmin, table, caches, ghost
<1> QED
  BY <1>4, <1>5, <1>6, <1>8, <1>9, <1>10, <1>11, <1>12, <1>13, <1>14, <1>15, <1>16,
     <1>17, <1>18, <1>19 DEF CallStep

\* The types of what a step of a call writes to the table.
TableTypes ==
    /\ Ids = 1..Cardinality(Ids) /\ rows \in [Ids -> Value \cup {NoValue}]
    /\ IsFiniteSet(Ids)
    /\ model \in Present \cup {0}

\* The types of what the readers share.
ReaderTypes ==
    /\ cache \in [Layer -> [Place -> Value \cup {NoValue, Nothing}]]
    /\ thread \in [Thread -> ThreadType] /\ got \in [Reader -> Value \cup {NoValue}]

\* The types of the rest.
OtherTypes ==
    /\ config \in Config /\ open \in BOOLEAN
    /\ edits \in Nat /\ stale \in BOOLEAN /\ slip \in BOOLEAN
    /\ fails \in 0..MaxFail /\ outages \in 0..MaxOutage

\* A key starts without rows or with one, and nobody has called yet.
LEMMA InitTypeInv == Init => TypeInv
<1> SUFFICES ASSUME Init PROVE TypeInv
  OBVIOUS
<1>1. Off \in Value /\ Input \subseteq Value
  BY ValueTypes
<1>2. TableTypes
  <2>1. PICK v \in Input \cup {NoValue} :
          IF v = NoValue THEN rows = << >> /\ kept = NoData
                         ELSE rows = <<v>> /\ kept = v.data
    BY DEF Init
  <2>2. CASE rows = << >>
    <3>1. Ids = {}
      BY <2>2 DEF Ids
    <3>2. IsFiniteSet(Ids) /\ Cardinality(Ids) = 0
      BY <3>1, FS_EmptySet
    <3> QED BY <2>2, <3>1, <3>2 DEF TableTypes, Init, Ids
  <2>3. CASE rows = <<v>> /\ v \in Input
    <3>1. Ids = 1..1
      BY <2>3 DEF Ids
    <3>2. IsFiniteSet(Ids) /\ Cardinality(Ids) = 1
      <4>1. Ids = {1}
        BY <3>1
      <4> QED BY <4>1, FS_Singleton
    <3>3. rows \in [Ids -> Value \cup {NoValue}]
      BY <1>1, <2>3, <3>1 DEF Ids
    <3> QED BY <3>1, <3>2, <3>3 DEF TableTypes, Init
  <2> QED BY <2>1, <2>2, <2>3
<1>3. IdleCall \in CallType
  <2>1. 0 \in 0..edits
    BY DEF Init
  <2> QED BY <1>1, <2>1 DEF IdleCall, CallType
<1>4. ASSUME NEW t \in Thread PROVE IdleThread(t) \in ThreadType
  BY KvAssumption DEF IdleThread, ThreadType, Thread, Place
<1>5. config.redis \in BOOLEAN
  BY KvAssumption DEF Init, ConfigType
<1>6. ReaderTypes
  BY <1>4 DEF Init, ReaderTypes
<1>7. OtherTypes
  <2>1. 0 \in 0..MaxFail /\ 0 \in 0..MaxOutage
    BY KvAssumption
  <2>2. open \in BOOLEAN
    BY <1>5 DEF Init
  <2> QED BY <2>1, <2>2 DEF Init, OtherTypes
<1>8. call = [c \in Call |-> IdleCall] /\ IdleCall.pc = "idle"
  BY DEF Init, IdleCall
<1>9. call \in [Call -> CallType] /\ \A c \in Call : call[c].pc = "idle"
  BY <1>3, <1>8
<1> QED BY <1>2, <1>6, <1>7, <1>9 DEF TypeInv, TypeOK, TableTypes, ReaderTypes, OtherTypes

\* The conjuncts of the invariant.
LEMMA TypeParts ==
    TypeInv <=> /\ TableTypes /\ ReaderTypes /\ OtherTypes
                /\ call \in [Call -> CallType]
                /\ \A c \in Call : call[c].pc \in {"model", "diff", "update", "commit"}
                                     => call[c].id \in Ids
BY DEF TypeInv, TypeOK, TableTypes, ReaderTypes, OtherTypes

\* A step of a call writes well-formed rows, and refers to one that is there.
LEMMA CallTable ==
    ASSUME TypeInv, NEW c \in Call, CallStep(c)
    PROVE  /\ TableTypes' /\ Ids \subseteq Ids'
           /\ edits' \in Nat /\ edits <= edits' /\ stale' \in BOOLEAN
<1>1. PICK new : CallEffect(c, new)
  BY CallStepEffect
<1>2. /\ Cardinality(Ids) \in Nat /\ Ids = 1..Cardinality(Ids) /\ 0 \notin Ids
      /\ IsFiniteSet(Ids) /\ rows \in [Ids -> Value \cup {NoValue}]
      /\ model \in Present \cup {0} /\ call[c] \in CallType
      /\ edits \in Nat /\ stale \in BOOLEAN
  BY IdsNumbers DEF TypeInv, TypeOK
<1>3. call[c].val \in Value /\ Off \in Value
  BY <1>2, ValueTypes DEF CallType
<1>4. /\ Ids' = 1..Cardinality(Ids') /\ IsFiniteSet(Ids') /\ Ids \subseteq Ids'
      /\ rows' \in [Ids' -> Value \cup {NoValue}]
      /\ Deletes(new) \/ Present \subseteq Present'
      /\ edits' \in Nat /\ edits <= edits' /\ stale' \in BOOLEAN
  <2>1. CASE Idles(call[c], new)
    BY <1>2, <2>1 DEF Idles, Ids, Present, Missing
  <2>2. CASE Saves(call[c], new)
    <3>1. PICK id \in Ids \cup {Cardinality(Ids) + 1} :
            rows' = [i \in Ids \cup {id} |-> IF i = id THEN call[c].val ELSE rows[i]]
      BY <2>2 DEF Saves
    <3>2. Ids' = Ids \cup {id}
      BY <3>1 DEF Ids
    <3>3. Ids' = 1..Cardinality(Ids) \/ Ids' = 1..(Cardinality(Ids) + 1)
      BY <1>2, <3>2
    <3>4. IsFiniteSet(Ids') /\ Ids' = 1..Cardinality(Ids')
      BY <1>2, <3>3, FS_Interval
    <3>5. rows' \in [Ids' -> Value \cup {NoValue}]
      BY <1>2, <1>3, <3>1, <3>2
    <3>6. Present \subseteq Present'
      <4>1. call[c].val # NoValue
        BY <1>3, KvAssumption DEF Value, Off, NoValue
      <4> QED BY <3>1, <3>2, <4>1 DEF Present, Missing
    <3>7. edits' \in Nat /\ edits <= edits' /\ stale' \in BOOLEAN
      <4>1. CASE IsAdmin(call[c].op)
        BY <1>2, <2>2, <4>1 DEF Saves
      <4>2. CASE ~IsAdmin(call[c].op)
        <5>1. stale' = (stale \/ call[c].seen # edits) /\ edits' = edits
          BY <2>2, <4>2 DEF Saves
        <5>2. (stale \/ call[c].seen # edits) \in BOOLEAN
          OBVIOUS
        <5> QED BY <1>2, <5>1, <5>2
      <4> QED BY <4>1, <4>2
    <3> QED BY <3>2, <3>4, <3>5, <3>6, <3>7
  <2>3. CASE Deletes(new)
    BY <1>2, <2>3 DEF Deletes, Ids
  <2> QED BY <1>1, <2>1, <2>2, <2>3 DEF CallEffect
<1>5. model' \in Present' \cup {0}
  <2>1. CASE Delete(c)
    BY <2>1 DEF Delete
  <2>2. CASE Link(c)
    <3>1. UNCHANGED rows /\ model' \in {model} \cup Present \cup {0}
      BY <1>2, <2>2 DEF Link, Present, CallType
    <3> QED BY <1>2, <3>1 DEF Present, Ids, Missing
  <2>3. CASE ~Delete(c) /\ ~Link(c)
    <3>1. model' = model
      BY <2>3 DEF CallStep, Initialise, Set, Model, Diff, Insert, Update, Commit, Clear, Load,
                  Destroy, Again, Fail, table
    <3>2. CASE Deletes(new) /\ model # 0
      <4>1. rows' = [i \in Ids |-> NoValue] /\ new.pc = "again" /\ call' = [call EXCEPT ![c] = new]
        BY <1>1, <3>2 DEF Deletes, CallEffect
      <4>2. model \in Present /\ model \in Ids
        BY <1>2, <3>2 DEF Present
      <4>3. rows'[model] # rows[model]
        BY <4>1, <4>2 DEF Present, Missing
      <4>4. Insert(c) \/ Commit(c)
        BY <2>3, <4>3 DEF CallStep, Initialise, Set, Model, Diff, Update, Clear, Load,
                  Destroy, Again, Fail, table
      <4>5. call'[c].pc \in {"clear", "done"}
        <5>1. PICK pc \in {"clear", "done"} : Goto(c, pc)
          BY <4>4 DEF Insert, Commit
        <5>2. \E x \in CallType : call' = [call EXCEPT ![c] = x] /\ x.pc = pc
          BY <5>1, GotoEffect
        <5> QED BY <5>2 DEF TypeInv, TypeOK
      <4>6. call'[c] = new
        BY <4>1 DEF TypeInv, TypeOK
      <4> QED BY <4>1, <4>5, <4>6
    <3> QED BY <1>2, <1>4, <3>1, <3>2
  <2> QED BY <2>1, <2>2, <2>3
<1> QED BY <1>4, <1>5 DEF TableTypes

\* So do all its types hold on.
LEMMA CallTypeInv == ASSUME TypeInv, NEW c \in Call, CallStep(c) PROVE TypeInv'
<1>1. PICK new : CallEffect(c, new)
  BY CallStepEffect
<1>2. UNCHANGED <<config, thread, got, open, outages>>
  BY CallStepEffect
<1>3. TableTypes' /\ Ids \subseteq Ids' /\ edits' \in Nat /\ edits <= edits' /\ stale' \in BOOLEAN
  BY CallTable
<1>4. ReaderTypes /\ OtherTypes /\ call \in [Call -> CallType]
  BY TypeParts
<1>5. /\ call' \in [Call -> CallType']
      /\ \A d \in Call : call'[d].pc \in {"model", "diff", "update", "commit"} => call'[d].id \in Ids'
  BY <1>1, <1>3, <1>4, OneCall DEF CallEffect, OtherTypes
<1>6. ReaderTypes'
  <2>1. cache' = cache \/ \E p \in Place : cache' = [cache EXCEPT !["kv"][p] = Nothing]
    <3>1. Home[c] \in Place /\ "redis" \in Place
      BY KvAssumption DEF Place
    <3> QED BY <1>1, <3>1 DEF CallEffect, Cleared
  <2>2. cache' \in [Layer -> [Place -> Value \cup {NoValue, Nothing}]]
    BY <1>4, <2>1 DEF ReaderTypes, Layer
  <2> QED BY <1>2, <1>4, <2>2 DEF ReaderTypes
<1>7. slip' \in BOOLEAN /\ fails' \in 0..MaxFail
  <2>1. CASE Fail(c)
    BY <1>4, <2>1, KvAssumption DEF Fail, OtherTypes
  <2>2. CASE Insert(c)
    <3>1. slip' = slip \/ slip' = (slip \/ ~call[c].final)
      BY <2>2 DEF Insert
    <3>2. (slip \/ ~call[c].final) \in BOOLEAN
      OBVIOUS
    <3>3. fails' = fails
      BY <2>2 DEF Insert
    <3> QED BY <1>4, <3>1, <3>2, <3>3 DEF OtherTypes
  <2>3. CASE ~Fail(c) /\ ~Insert(c)
    <3>1. fails' = fails /\ slip' \in {slip, TRUE}
      BY <2>3 DEF CallStep, Initialise, Set, Model, Link, Diff, Update, Commit, Clear, Load,
                  Destroy, Delete, Again
    <3> QED BY <1>4, <3>1 DEF OtherTypes
  <2> QED BY <2>1, <2>2, <2>3
<1>8. OtherTypes'
  BY <1>2, <1>3, <1>4, <1>7 DEF OtherTypes
<1> QED BY <1>3, <1>5, <1>6, <1>8, TypeParts DEF TypeInv, TypeOK, TableTypes, ReaderTypes, OtherTypes

\* A step that leaves the rows and the calls alone keeps the invariant if it keeps
\* the types of the readers and of the rest.
LEMMA SameTable ==
    ASSUME TypeInv, UNCHANGED <<rows, model, call, edits>>, ReaderTypes', OtherTypes'
    PROVE  TypeInv'
<1>1. Ids' = Ids /\ Present' = Present /\ CallType' = CallType
  BY DEF Ids, Present, Missing, CallType
<1>2. /\ TableTypes /\ call \in [Call -> CallType]
      /\ \A c \in Call : call[c].pc \in {"model", "diff", "update", "commit"} => call[c].id \in Ids
  BY TypeParts
<1>3. TableTypes'
  BY <1>1, <1>2 DEF TableTypes
<1>4. /\ call' \in [Call -> CallType']
      /\ \A c \in Call : call'[c].pc \in {"model", "diff", "update", "commit"} => call'[c].id \in Ids'
  BY <1>1, <1>2
<1> QED BY <1>3, <1>4 DEF TypeInv, TypeOK, TableTypes, ReaderTypes, OtherTypes

\* What readers keep, and what they got, are values the store once had.
LEMMA ReaderTypeInv ==
    ASSUME TypeInv, NEW r \in Reader,
           Lookup(r) \/ \E k \in Kind : ThreadStep(r, k)
    PROVE  TypeInv'
<1>1. ReaderTypes /\ OtherTypes
  BY TypeParts
<1>2. /\ cache \in [Layer -> [Place -> Value \cup {NoValue, Nothing}]]
      /\ thread \in [Thread -> ThreadType] /\ got \in [Reader -> Value \cup {NoValue}]
  BY <1>1 DEF ReaderTypes
<1>3. UNCHANGED <<config, rows, model, call, kept, edits, stale, open, fails, outages>>
  BY DEF Lookup, ThreadStep, Find, Rows, Keep, Store, table, ghost
<1>4. ASSUME NEW k \in Kind
      PROVE  /\ <<r, k>> \in Thread /\ IdleThread(<<r, k>>) \in ThreadType
             /\ thread[<<r, k>>] \in ThreadType
  <2>1. <<r, k>> \in Thread
    BY DEF Thread, Kind
  <2>2. IdleThread(<<r, k>>) \in ThreadType
    BY KvAssumption DEF IdleThread, ThreadType, Place
  <2> QED BY <1>2, <2>1, <2>2
<1>5. PlaceNow(r) \in Place
  BY KvAssumption DEF PlaceNow, Place
<1>6. ASSUME NEW l \in Layer, NEW p \in Place
      PROVE  cache[l][p] \in Value \cup {NoValue, Nothing}
  BY <1>2
<1>7. ASSUME NEW th \in [Thread -> ThreadType], NEW t \in Thread, NEW pc \in {"get", "rows"}
      PROVE  Refreshed(th, t, pc, PlaceNow(r)) \in [Thread -> ThreadType]
  <2>1. [th[t] EXCEPT !.pc = pc, !.place = PlaceNow(r)] \in ThreadType
    BY <1>5 DEF ThreadType
  <2>2. Refreshed(th, t, pc, PlaceNow(r)) \in
          {th, [th EXCEPT ![t] = [th[t] EXCEPT !.pc = pc, !.place = PlaceNow(r)]]}
    BY DEF Refreshed
  <2> QED BY <2>1, <2>2
<1>8. ASSUME NEW l \in Layer, NEW p \in Place, NEW v \in Value \cup {NoValue, Nothing},
             Entered(l, p, v)
      PROVE  /\ cache' \in [Layer -> [Place -> Value \cup {NoValue, Nothing}]]
             /\ slip' \in BOOLEAN
  BY <1>2, <1>8 DEF Entered
<1>9. "kv" \in Layer /\ "find" \in Layer
  BY DEF Layer
<1>10. slip \in BOOLEAN
  BY <1>1 DEF OtherTypes
<1>11. ASSUME cache' \in [Layer -> [Place -> Value \cup {NoValue, Nothing}]],
              thread' \in [Thread -> ThreadType], got' \in [Reader -> Value \cup {NoValue}],
              slip' \in BOOLEAN
       PROVE  TypeInv'
  <2>1. ReaderTypes'
    BY <1>11 DEF ReaderTypes
  <2>2. OtherTypes'
    BY <1>1, <1>3, <1>11 DEF OtherTypes
  <2> QED BY <1>3, <2>1, <2>2, SameTable
<1>12. CASE Lookup(r)
  <2>1. PICK v : v = cache["kv"][PlaceNow(r)]
    OBVIOUS
  <2>2. UNCHANGED <<cache, slip>>
    BY <1>12 DEF Lookup
  <2>3. CASE v # Nothing
    <3>1. v \in Value \cup {NoValue}
      BY <1>5, <1>6, <1>9, <2>1, <2>3
    <3>2. /\ thread' = Refreshed(thread, <<r, "kv">>, "get", PlaceNow(r))
          /\ got' = [got EXCEPT ![r] = v]
      BY <1>12, <2>1, <2>3 DEF Lookup
    <3>3. thread' \in [Thread -> ThreadType] /\ got' \in [Reader -> Value \cup {NoValue}]
      BY <1>2, <1>4, <1>7, <3>1, <3>2 DEF Kind
    <3> QED BY <1>2, <1>11, <1>10, <2>2, <3>3
  <2>4. CASE v = Nothing
    <3>1. PICK new : new = [thread[<<r, "read">>] EXCEPT !.pc = "get", !.place = PlaceNow(r)]
      OBVIOUS
    <3>2. thread' = [thread EXCEPT ![<<r, "read">>] = new] /\ UNCHANGED got
      BY <1>2, <1>4, <1>12, <2>1, <2>4, <3>1 DEF Lookup, Kind
    <3>3. new \in ThreadType
      BY <1>4, <1>5, <3>1 DEF ThreadType, Kind
    <3>4. thread' \in [Thread -> ThreadType]
      BY <1>2, <3>2, <3>3
    <3> QED BY <1>2, <1>11, <1>10, <2>2, <3>2, <3>4
  <2> QED BY <2>3, <2>4
<1>13. ASSUME NEW k \in Kind, ThreadStep(r, k)
       PROVE  /\ cache' \in [Layer -> [Place -> Value \cup {NoValue, Nothing}]]
              /\ thread' \in [Thread -> ThreadType] /\ got' \in [Reader -> Value \cup {NoValue}]
              /\ slip' \in BOOLEAN
  <2>1. PICK t \in Thread : t = <<r, k>>
    BY <1>4
  <2>2. thread[t] \in ThreadType /\ IdleThread(t) \in ThreadType
    BY <1>4, <2>1
  <2>3. ASSUME NEW new \in ThreadType, thread' = [thread EXCEPT ![t] = new]
        PROVE  thread' \in [Thread -> ThreadType]
    BY <1>2, <2>3
  <2>4. Stop(t) => thread' \in [Thread -> ThreadType]
    BY <2>2, <2>3 DEF Stop
  <2>5. CASE Find(r, k)
    <3>1. PICK p : p = PlaceNow(r)
      OBVIOUS
    <3>2. PICK v : v = cache["find"][p]
      OBVIOUS
    <3>3. UNCHANGED <<cache, got, slip>>
      BY <2>5 DEF Find
    <3>4. CASE v # Nothing
      <4>1. PICK th : th = Refreshed(thread, <<r, "find">>, "rows", p)
        OBVIOUS
      <4>2. th \in [Thread -> ThreadType] /\ v \in Value \cup {NoValue}
        BY <1>2, <1>4, <1>5, <1>6, <1>7, <1>9, <3>1, <3>2, <3>4, <4>1 DEF Kind
      <4>3. thread' = [th EXCEPT ![t].pc = "store", ![t].val = v]
        BY <2>1, <2>5, <3>1, <3>2, <3>4, <4>1 DEF Find
      <4>4. [th[t] EXCEPT !.pc = "store", !.val = v] \in ThreadType
        BY <4>2 DEF ThreadType
      <4>5. thread' \in [Thread -> ThreadType]
        BY <4>2, <4>3, <4>4
      <4> QED BY <1>2, <1>10, <3>3, <4>5
    <3>5. CASE v = Nothing
      <4>1. PICK new : new = [thread[t] EXCEPT !.pc = "rows", !.deep = p]
        OBVIOUS
      <4>2. new \in ThreadType
        BY <1>5, <2>2, <3>1, <4>1 DEF ThreadType
      <4>3. thread' = [thread EXCEPT ![t] = new]
        BY <1>2, <2>1, <2>5, <3>1, <3>2, <3>5, <4>1 DEF Find
      <4> QED BY <1>2, <1>10, <2>3, <3>3, <4>2, <4>3
    <3> QED BY <3>4, <3>5
  <2>6. CASE Rows(r, k)
    <3>1. PICK v \in Visible :
              thread' = [thread EXCEPT ![t].val = v,
                  ![t].pc = IF config.deep THEN "keep" ELSE "store"]
      BY <2>1, <2>6 DEF Rows
    <3>2. PICK new : new = [thread[t] EXCEPT !.val = v,
                                   !.pc = IF config.deep THEN "keep" ELSE "store"]
      OBVIOUS
    <3>3. v \in Value \cup {NoValue}
      BY VisibleTypes
    <3>4. new \in ThreadType
      BY <2>2, <3>2, <3>3 DEF ThreadType
    <3>5. thread' = [thread EXCEPT ![t] = new]
      BY <1>2, <3>1, <3>2
    <3> QED BY <1>2, <1>10, <2>3, <2>6, <3>4, <3>5 DEF Rows
  <2>7. CASE Keep(r, k)
    <3>1. PICK p : p = IF k = "find" THEN thread[t].place ELSE thread[t].deep
      OBVIOUS
    <3>2. p \in Place /\ thread[t].val \in Value \cup {NoValue}
      BY <2>2, <3>1 DEF ThreadType
    <3>3. CASE Refused(p)
      BY <1>2, <1>10, <2>1, <2>4, <2>7, <3>1, <3>3 DEF Keep
    <3>4. CASE ~Refused(p)
      <4>1. Entered("find", p, thread[t].val)
        BY <2>1, <2>7, <3>1, <3>4 DEF Keep
      <4>2. Stop(t) \/ thread' = [thread EXCEPT ![t] = [thread[t] EXCEPT !.pc = "store"]]
        BY <2>1, <2>7, <3>1, <3>4 DEF Keep
      <4>3. [thread[t] EXCEPT !.pc = "store"] \in ThreadType
        BY <2>2 DEF ThreadType
      <4>4. thread' \in [Thread -> ThreadType]
        BY <2>3, <2>4, <4>2, <4>3
      <4> QED BY <1>2, <1>8, <1>9, <2>7, <3>2, <4>1, <4>4 DEF Keep
    <3> QED BY <3>3, <3>4
  <2>8. CASE Store(r, k)
    <3>1. PICK v : v = thread[t].val
      OBVIOUS
    <3>2. v \in Value \cup {NoValue} /\ thread[t].place \in Place
      BY <2>2, <3>1 DEF ThreadType
    <3>3. thread' \in [Thread -> ThreadType]
      BY <2>1, <2>4, <2>8 DEF Store
    <3>4. CASE Refused(thread[t].place)
      BY <1>2, <1>10, <2>1, <2>8, <3>3, <3>4 DEF Store
    <3>5. CASE ~Refused(thread[t].place)
      <4>1. Entered("kv", thread[t].place, IF Falsy(v) THEN Nothing ELSE v)
        BY <2>1, <2>8, <3>1, <3>5 DEF Store
      <4>2. got' = [got EXCEPT ![r] = v] \/ got' = got
        BY <2>1, <2>8, <3>1, <3>5 DEF Store
      <4>3. (IF Falsy(v) THEN Nothing ELSE v) \in Value \cup {NoValue, Nothing}
        BY <3>2
      <4> QED BY <1>2, <1>8, <1>9, <3>2, <3>3, <4>1, <4>2, <4>3
    <3> QED BY <3>4, <3>5
  <2> QED BY <1>13, <2>5, <2>6, <2>7, <2>8 DEF ThreadStep
<1>14. CASE \E k \in Kind : ThreadStep(r, k)
  BY <1>13, <1>14, <1>11
<1> QED BY <1>12, <1>14

\* Every step keeps the types.
LEMMA NextTypeInv == TypeInv /\ [Next]_vars => TypeInv'
<1> SUFFICES ASSUME TypeInv, [Next]_vars PROVE TypeInv'
  OBVIOUS
<1>1. ReaderTypes /\ OtherTypes
  BY TypeParts
<1>2. CASE \E c \in Call : CallStep(c)
  BY <1>2, CallTypeInv
<1>3. CASE \E r \in Reader : Lookup(r) \/ \E k \in Kind : ThreadStep(r, k)
  BY <1>3, ReaderTypeInv
<1>4. CASE \E l \in Layer, p \in Place : Expire(l, p)
  <2>1. PICK l \in Layer, p \in Place : Expire(l, p)
    BY <1>4
  <2>2. cache' \in [Layer -> [Place -> Value \cup {NoValue, Nothing}]]
    BY <1>1, <2>1 DEF Expire, ReaderTypes
  <2>3. ReaderTypes' /\ OtherTypes'
    BY <1>1, <2>1, <2>2 DEF Expire, table, ghost, ReaderTypes, OtherTypes
  <2> QED BY <2>1, <2>3, SameTable DEF Expire, table, ghost
<1>5. CASE Outage
  <2>1. open' \in BOOLEAN /\ outages' \in 0..MaxOutage
    BY <1>1, <1>5, KvAssumption DEF Outage, OtherTypes
  <2>2. ReaderTypes' /\ OtherTypes'
    BY <1>1, <1>5, <2>1 DEF Outage, table, caches, ghost, ReaderTypes, OtherTypes
  <2> QED BY <1>5, <2>2, SameTable DEF Outage, table, ghost
<1>6. CASE UNCHANGED vars
  <2>1. ReaderTypes' /\ OtherTypes'
    BY <1>1, <1>6 DEF vars, ReaderTypes, OtherTypes
  <2> QED BY <1>6, <2>1, SameTable DEF vars
<1> QED BY <1>2, <1>3, <1>4, <1>5, <1>6 DEF Next, Quiet

\* The rows, the caches, the calls and the threads of the readers always have
\* the shape the operations rely on.
THEOREM TypeCorrect == Spec => []TypeOK
<1>1. TypeInv => TypeOK
  BY DEF TypeInv
<1> QED BY <1>1, InitTypeInv, NextTypeInv, PTL DEF Spec

-----------------------------------------------------------------------------
(* What administrators put in survives initialisers. *)

\* The key has more than one row.
Crowded == \E i, j \in Present : i # j

\* An initialiser about to save has read the data that are there, unless there
\* was a choice of rows or an administrator wrote since; a key without rows has
\* no data.
SurviveInv ==
    /\ TypeInv
    /\ Present = {} => kept = NoData
    /\ ~stale /\ kept # "off" =>
          /\ \A id \in Present : Present = {id} => rows[id].data = kept
          /\ \A c \in Call : Initialising(call[c]) /\ call[c].seen = edits
                               => call[c].val.data = kept \/ Crowded

\* What an initialiser computes from the rows are the data that are there.
LEMMA ComputedKept ==
    ASSUME SurviveInv, ~stale, kept # "off", NEW new, Computed(new), Initialising(new)
    PROVE  new.val.data = kept \/ Crowded
<1>1. PICK id \in First :
        /\ new.op \in {"merge", "keep"} /\ (id # 0 => new.pc = "model")
        /\ new.skip = (new.op = "keep" /\ ~Falsy(IF id = 0 THEN NoValue ELSE rows[id]))
        /\ new.val.data = IF new.op = "merge" /\ id # 0 /\ rows[id] # Off
                          THEN rows[id].data ELSE NoData
  BY DEF Computed
<1>2. CASE Present = {}
  <2>1. id = 0 /\ kept = NoData
    BY <1>1, <1>2 DEF First, SurviveInv
  <2> QED BY <1>1, <2>1
<1>3. CASE Present # {} /\ ~Crowded
  <2>1. id \in Present /\ Present = {id}
    BY <1>1, <1>3 DEF First, Crowded
  <2>2. rows[id].data = kept /\ rows[id] # NoValue
    BY <2>1 DEF SurviveInv, Present, Missing
  <2>3. rows[id] # Off
    BY <2>2 DEF Off
  <2>4. id # 0
    BY <2>1, IdsNumbers DEF SurviveInv, Present
  <2>5. new.op # "keep"
    <3>1. ~new.skip
      BY <1>1, <2>4 DEF Initialising
    <3> QED BY <1>1, <2>2, <2>3, <2>4, <3>1 DEF Falsy
  <2> QED BY <1>1, <2>2, <2>3, <2>4, <2>5
<1> QED BY <1>2, <1>3

\* A step of a call keeps the invariant.
LEMMA CallSurvives ==
    ASSUME SurviveInv, NEW c \in Call, CallStep(c), TypeInv'
    PROVE  SurviveInv'
<1>1. TypeInv /\ call \in [Call -> CallType] /\ edits \in Nat
  BY DEF SurviveInv, TypeInv, TypeOK
<1>2. PICK new : CallEffect(c, new)
  BY <1>1, CallStepEffect
<1>3. /\ new \in CallType /\ call' = [call EXCEPT ![c] = new] /\ call'[c] = new
      /\ \A d \in Call : d # c => call'[d] = call[d]
  BY <1>1, <1>2 DEF CallEffect
<1>4. ASSUME NEW d \in Call PROVE call[d].seen <= edits /\ call[d].seen \in Nat
  BY <1>1 DEF CallType
<1>5. CASE Idles(call[c], new)
  <2>1. UNCHANGED <<rows, kept, edits, stale>> /\ Present' = Present /\ Crowded' = Crowded
    BY <1>5 DEF Idles, Present, Missing, Ids, Crowded
  <2>2. ASSUME ~stale, kept # "off", Initialising(new), new.seen = edits
        PROVE  new.val.data = kept \/ Crowded
    <3>1. CASE Initialising(call[c]) /\ new.val = call[c].val /\ new.seen = call[c].seen
      BY <2>2, <3>1 DEF SurviveInv
    <3>2. CASE Computed(new)
      BY <2>2, <3>2, ComputedKept
    <3> QED BY <1>5, <2>2, <3>1, <3>2 DEF Idles
  <2>3. ASSUME ~stale, kept # "off", NEW d \in Call, Initialising(call'[d]), call'[d].seen = edits
        PROVE  call'[d].val.data = kept \/ Crowded
    <3>1. CASE d = c
      BY <1>3, <2>2, <2>3, <3>1
    <3>2. CASE d # c
      BY <1>3, <2>3, <3>2 DEF SurviveInv
    <3> QED BY <3>1, <3>2
  <2>4. ~stale /\ kept # "off" =>
          /\ \A id \in Present : Present = {id} => rows[id].data = kept
          /\ \A d \in Call : Initialising(call'[d]) /\ call'[d].seen = edits
                               => call'[d].val.data = kept \/ Crowded
    BY <2>3 DEF SurviveInv
  <2> QED BY <2>1, <2>4 DEF SurviveInv
<1>6. CASE Saves(call[c], new)
  <2>1. PICK id \in Ids \cup {Cardinality(Ids) + 1} :
          rows' = [i \in Ids \cup {id} |-> IF i = id THEN call[c].val ELSE rows[i]]
    BY <1>6 DEF Saves
  <2>2. call[c].val # NoValue
    <3>1. call[c].val \in Value
      BY <1>1 DEF CallType
    <3> QED BY <3>1, KvAssumption DEF Value, Off, NoValue
  <2>3. /\ Present \subseteq Present' /\ id \in Present' /\ rows'[id] = call[c].val
        /\ Crowded => Crowded'
    BY <2>1, <2>2 DEF Present, Missing, Ids, Crowded
  <2>4. ~Initialising(new)
    BY <1>6 DEF Saves, Initialising
  <2>5. CASE IsAdmin(call[c].op)
    <3>1. kept' = call[c].val.data /\ edits' = edits + 1
      BY <1>6, <2>5 DEF Saves
    <3>2. ASSUME NEW d \in Call PROVE ~(Initialising(call'[d]) /\ call'[d].seen = edits')
      <4>1. d # c => call'[d].seen # edits'
        BY <1>1, <1>3, <1>4, <3>1
      <4> QED BY <1>3, <2>4, <4>1
    <3>3. ASSUME NEW x \in Present', Present' = {x} PROVE rows'[x].data = kept'
      BY <2>3, <3>1, <3>3
    <3> QED BY <2>3, <3>2, <3>3 DEF SurviveInv
  <2>6. CASE ~IsAdmin(call[c].op)
    <3>1. stale' = (stale \/ call[c].seen # edits) /\ UNCHANGED <<kept, edits>>
      BY <1>6, <2>6 DEF Saves
    <3>2. Initialising(call[c])
      BY <1>6, <2>6 DEF Saves, Initialising
    <3>3. ASSUME ~stale', kept # "off"
          PROVE  ~stale /\ (call[c].val.data = kept \/ Crowded)
      BY <3>1, <3>2, <3>3 DEF SurviveInv
    <3>4. ASSUME ~stale', kept # "off", NEW x \in Present', Present' = {x}
          PROVE  rows'[x].data = kept
      <4>1. ~Crowded'
        BY <3>4 DEF Crowded
      <4> QED BY <2>3, <3>3, <3>4, <4>1
    <3>5. ASSUME ~stale', kept # "off", NEW d \in Call, Initialising(call'[d]),
                 call'[d].seen = edits
          PROVE  call'[d].val.data = kept \/ Crowded'
      <4>1. d # c /\ ~stale /\ call'[d] = call[d]
        BY <1>3, <2>4, <3>3, <3>5
      <4> QED BY <2>3, <3>5, <4>1 DEF SurviveInv
    <3> QED BY <2>3, <3>1, <3>4, <3>5 DEF SurviveInv
  <2> QED BY <2>5, <2>6
<1>7. CASE Deletes(new)
  <2>1. Present' = {} /\ kept' = NoData /\ edits' = edits + 1 /\ ~Initialising(new)
    BY <1>7 DEF Deletes, Present, Missing, Ids, Initialising
  <2>2. ASSUME NEW d \in Call PROVE ~(Initialising(call'[d]) /\ call'[d].seen = edits')
    <3>1. d # c => call'[d].seen # edits'
      BY <1>1, <1>3, <1>4, <2>1
    <3> QED BY <1>3, <2>1, <3>1
  <2> QED BY <2>1, <2>2 DEF SurviveInv
<1> QED BY <1>2, <1>5, <1>6, <1>7 DEF CallEffect

\* As long as no initialiser wrote over what it had not read, the data of a key
\* with one row are those an administrator last put in (KvService.set, update,
\* the initialisers of any number of instances and KvController.destroy).
THEOREM DataAreKept == Spec => []DataSurvive
<1>1. Init => SurviveInv
  <2> SUFFICES ASSUME Init PROVE SurviveInv
    OBVIOUS
  <2>1. PICK v \in Input \cup {NoValue} :
          IF v = NoValue THEN rows = << >> /\ kept = NoData
                         ELSE rows = <<v>> /\ kept = v.data
    BY DEF Init
  <2>2. v \in Input => v # NoValue
    BY ValueTypes, KvAssumption DEF Value, Off, NoValue
  <2>3. CASE rows = << >> /\ kept = NoData
    BY <2>3, InitTypeInv DEF SurviveInv, Present, Ids, Init, Initialising, IdleCall
  <2>4. CASE rows = <<v>> /\ kept = v.data /\ v # NoValue
    <3>1. Ids = {1} /\ rows[1] = v
      BY <2>4 DEF Ids
    <3>2. Present = {1}
      BY <2>4, <3>1 DEF Present, Missing
    <3> QED BY <2>4, <3>1, <3>2, InitTypeInv DEF SurviveInv, Init, Initialising, IdleCall
  <2> QED BY <2>1, <2>3, <2>4
<1>2. SurviveInv /\ [Next]_vars => SurviveInv'
  <2> SUFFICES ASSUME SurviveInv, [Next]_vars PROVE SurviveInv'
    OBVIOUS
  <2>1. TypeInv'
    BY NextTypeInv DEF SurviveInv
  <2>2. CASE \E c \in Call : CallStep(c)
    BY <2>1, <2>2, CallSurvives
  <2>3. CASE ~\E c \in Call : CallStep(c)
    <3>1. UNCHANGED <<rows, call, kept, edits, stale>>
      <4> DEFINE Same == UNCHANGED <<rows, call, kept, edits, stale>>
      <4>1. ASSUME NEW r \in Reader, Lookup(r) PROVE Same
        BY <4>1 DEF Lookup, table, ghost
      <4>2. ASSUME NEW r \in Reader, NEW k \in Kind, ThreadStep(r, k) PROVE Same
        <5>1. Find(r, k) => Same
          BY DEF Find, table, ghost
        <5>2. Rows(r, k) => Same
          BY DEF Rows, table, ghost
        <5>3. Keep(r, k) => Same
          BY DEF Keep, table, ghost
        <5>4. Store(r, k) => Same
          BY DEF Store, table, ghost
        <5> QED BY <4>2, <5>1, <5>2, <5>3, <5>4 DEF ThreadStep
      <4>3. ASSUME NEW l \in Layer, NEW p \in Place, Expire(l, p) PROVE Same
        BY <4>3 DEF Expire, table, ghost
      <4>4. Outage => Same
        BY DEF Outage, table, ghost
      <4>5. Quiet \/ UNCHANGED vars => Same
        BY DEF Quiet, vars, table, ghost
      <4> HIDE DEF Same
      <4>6. Same
        BY <2>3, <4>1, <4>2, <4>3, <4>4, <4>5 DEF Next
      <4> QED BY <4>6 DEF Same
    <3>2. Present' = Present /\ Crowded' = Crowded
      BY <3>1 DEF Present, Missing, Ids, Crowded
    <3> QED BY <2>1, <3>1, <3>2 DEF SurviveInv, Initialising
  <2> QED BY <2>2, <2>3
<1>3. SurviveInv => DataSurvive
  <2> SUFFICES ASSUME SurviveInv, ~stale, kept # "off", Cardinality(Present) = 1
               PROVE  \A v \in Visible : v.data = kept
    BY DEF DataSurvive
  <2>1. IsFiniteSet(Present)
    BY FS_Subset DEF SurviveInv, TypeInv, Present
  <2>2. PICK x : Present = {x}
    BY <2>1, FS_Singleton
  <2> QED BY <2>2 DEF Visible, SurviveInv
<1> QED BY <1>1, <1>2, <1>3, PTL DEF Spec

-----------------------------------------------------------------------------
(* The caches are cleared in time. *)

\* As long as nothing slipped, a cache where every write is cleared holds one of
\* the rows, or a call is about to clear it; and it is empty while a write is under
\* way that will not clear it any more.
ClearInv ==
    /\ TypeInv
    /\ config.redis /\ outages = 0 => open
    /\ ~slip => \A p \in Watched :
          /\ (\E c \in Call : Overdue(c)) => cache["kv"][p] = Nothing
          /\ \/ cache["kv"][p] \in Visible \cup {Nothing}
             \/ \E c \in Call : call[c].pc = "clear"

\* Places are only watched until a call comes to another instance, or until the
\* connection is lost.
LEMMA WatchedShrinks ==
    ASSUME ClearInv, UNCHANGED config,
           outages' = 0 => outages = 0,
           \A c \in Call : call'[c].pc = "idle" => call[c].pc = "idle"
    PROVE  Watched' \subseteq Watched
<1>1. CASE config.redis
  BY <1>1 DEF Watched
<1>2. CASE ~config.redis
  BY <1>2 DEF Watched
<1> QED BY <1>1, <1>2

\* A clear empties the places that are watched and no other value appears.
LEMMA ClearedPlace ==
    ASSUME ClearInv, NEW c \in Call, NEW x \in Cleared(c), NEW p \in Watched,
           ~config.redis => p = Home[c]
    PROVE  x["kv"][p] = Nothing
<1>1. cache \in [Layer -> [Place -> Value \cup {NoValue, Nothing}]] /\ "kv" \in Layer
  BY DEF ClearInv, TypeInv, TypeOK, Layer
<1>2. CASE config.redis
  <2>1. p = "redis" /\ p \in Place /\ open
    BY <1>2 DEF Watched, Place, ClearInv
  <2>2. x = [cache EXCEPT !["kv"][p] = Nothing]
    BY <1>2, <2>1 DEF Cleared
  <2> QED BY <1>1, <2>1, <2>2
<1>3. CASE ~config.redis
  <2>1. p = Home[c] /\ p \in Place
    BY <1>3 DEF Watched, Place
  <2>2. x = [cache EXCEPT !["kv"][p] = Nothing]
    BY <1>3, <2>1 DEF Cleared
  <2> QED BY <1>1, <2>1, <2>2
<1> QED BY <1>2, <1>3

\* A step of a call either leaves the rows and the cache as they are, or makes
\* sure the cache is cleared before it or after it.
LEMMA CallClears ==
    ASSUME ClearInv, NEW c \in Call, CallStep(c), TypeInv'
    PROVE  ClearInv'
<1>1. TypeInv /\ call \in [Call -> CallType]
  BY DEF ClearInv, TypeInv, TypeOK
<1>2. PICK new : CallEffect(c, new)
  BY <1>1, CallStepEffect
<1>3. UNCHANGED <<config, open, outages>>
  BY <1>1, CallStepEffect
<1>4. /\ new \in CallType /\ call' = [call EXCEPT ![c] = new] /\ call'[c] = new
      /\ \A d \in Call : d # c => call'[d] = call[d]
  BY <1>1, <1>2 DEF CallEffect
<1>5. Watched' \subseteq Watched
  <2>1. \A d \in Call : call'[d].pc = "idle" => call[d].pc = "idle"
    BY <1>2, <1>4 DEF CallEffect
  <2> QED BY <1>3, <2>1, WatchedShrinks
<1>6. ASSUME NEW p \in Watched', cache' \in Cleared(c), call[c].pc # "idle"
      PROVE  cache'["kv"][p] = Nothing
  <2>1. p \in Watched
    BY <1>5
  <2>2. ~config.redis => p = Home[c]
    BY <1>6, <2>1 DEF Watched
  <2> QED BY <1>6, <2>1, <2>2, ClearedPlace
<1>7. ASSUME NEW p \in Watched' PROVE cache'["kv"][p] \in {cache["kv"][p], Nothing}
  BY <1>2, <1>6 DEF CallEffect
<1>8. slip => slip'
  BY <1>2 DEF CallEffect
<1>9. ASSUME ~slip', NEW p \in Watched', NEW d \in Call, Overdue(d)'
      PROVE  cache'["kv"][p] = Nothing
  <2>1. CASE \E e \in Call : Overdue(e)
    <3>1. cache["kv"][p] = Nothing
      BY <1>5, <1>8, <1>9, <2>1 DEF ClearInv
    <3> QED BY <1>7, <3>1
  <2>2. CASE ~\E e \in Call : Overdue(e)
    <3>1. d = c
      BY <1>4, <1>9, <2>2 DEF Overdue
    <3>2. new.pc = "commit" /\ ~new.final
      BY <1>4, <1>9, <3>1 DEF Overdue
    <3>3. cache' \in Cleared(c) /\ call[c].pc # "idle"
      BY <1>2, <2>2, <3>2 DEF CallEffect
    <3> QED BY <1>6, <3>3
  <2> QED BY <2>1, <2>2
<1>10. ASSUME ~slip', NEW p \in Watched', \A d \in Call : call'[d].pc # "clear"
       PROVE  cache'["kv"][p] \in Visible' \cup {Nothing}
  <2>1. ~slip /\ p \in Watched /\ new.pc # "clear"
    BY <1>4, <1>5, <1>8, <1>10
  <2>2. CASE call[c].pc = "clear"
    <3>1. cache' \in Cleared(c)
      BY <1>2, <1>10, <2>1, <2>2 DEF CallEffect
    <3> QED BY <1>6, <2>2, <3>1
  <2>3. CASE call[c].pc # "clear"
    <3>1. \A d \in Call : call[d].pc # "clear"
      BY <1>4, <1>10, <2>3
    <3>2. cache["kv"][p] \in Visible \cup {Nothing}
      BY <2>1, <3>1 DEF ClearInv
    <3>3. CASE Idles(call[c], new)
      <4>1. Visible' = Visible
        BY <3>3 DEF Idles, Visible, Present, Missing, Ids
      <4> QED BY <1>7, <3>2, <4>1
    <3>4. CASE Saves(call[c], new)
      <4>1. Overdue(c)
        BY <1>10, <2>1, <3>4 DEF Saves, Overdue
      <4>2. cache["kv"][p] = Nothing
        BY <2>1, <4>1 DEF ClearInv
      <4> QED BY <1>7, <4>2
    <3>5. CASE Deletes(new)
      BY <1>10, <3>5 DEF Deletes
    <3> QED BY <1>2, <3>3, <3>4, <3>5 DEF CallEffect
  <2> QED BY <2>2, <2>3
<1>11. config'.redis /\ outages' = 0 => open'
  BY <1>3 DEF ClearInv
<1> QED BY <1>9, <1>10, <1>11 DEF ClearInv

\* What enters the cache of values is one of the rows, or slips.
LEMMA EntryClear ==
    ASSUME ClearInv, TypeInv', UNCHANGED <<config, rows, call, open, outages>>,
           slip => slip',
           \/ cache'["kv"] = cache["kv"]
           \/ \E p \in Place : \E v :
                 /\ cache'["kv"] = [cache["kv"] EXCEPT ![p] = v]
                 /\ v \in Visible \cup {Nothing} \/ slip'
                 /\ v = Nothing \/ (\A c \in Call : ~Overdue(c)) \/ slip'
    PROVE  ClearInv'
<1>1. Visible' = Visible
  BY DEF Visible, Present, Missing, Ids
<1>2. cache["kv"] \in [Place -> Value \cup {NoValue, Nothing}]
  BY DEF ClearInv, TypeInv, TypeOK, Layer
<1>3. Watched' = Watched
  BY DEF Watched
<1>4. ASSUME ~slip', NEW p \in Watched
      PROVE  \/ cache'["kv"][p] = cache["kv"][p]
             \/ cache'["kv"][p] = Nothing
             \/ /\ cache'["kv"][p] \in Visible
                /\ \A c \in Call : ~Overdue(c)
  <2>1. CASE cache'["kv"] = cache["kv"]
    BY <2>1
  <2>2. CASE cache'["kv"] # cache["kv"]
    <3>1. PICK q \in Place : \E v :
            /\ cache'["kv"] = [cache["kv"] EXCEPT ![q] = v]
            /\ v \in Visible \cup {Nothing} \/ slip'
            /\ v = Nothing \/ (\A c \in Call : ~Overdue(c)) \/ slip'
      BY <2>2
    <3>2. PICK v : /\ cache'["kv"] = [cache["kv"] EXCEPT ![q] = v]
                   /\ v \in Visible \cup {Nothing}
                   /\ v = Nothing \/ \A c \in Call : ~Overdue(c)
      BY <1>4, <3>1
    <3>3. p # q => cache'["kv"][p] = cache["kv"][p]
      BY <1>2, <3>2
    <3>4. p = q => cache'["kv"][p] = v
      BY <1>2, <3>2
    <3> QED BY <3>2, <3>3, <3>4
  <2> QED BY <2>1, <2>2
<1>5. ASSUME ~slip', NEW p \in Watched
      PROVE  /\ (\E c \in Call : Overdue(c)) => cache'["kv"][p] = Nothing
             /\ \/ cache'["kv"][p] \in Visible \cup {Nothing}
                \/ \E c \in Call : call[c].pc = "clear"
  <2>1. /\ (\E c \in Call : Overdue(c)) => cache["kv"][p] = Nothing
        /\ \/ cache["kv"][p] \in Visible \cup {Nothing}
           \/ \E c \in Call : call[c].pc = "clear"
    BY <1>5 DEF ClearInv
  <2> QED BY <1>4, <1>5, <2>1
<1>6. \A c \in Call : Overdue(c)' <=> Overdue(c)
  BY DEF Overdue
<1> QED BY <1>1, <1>3, <1>5, <1>6 DEF ClearInv

\* A step of a reader keeps the invariant.
LEMMA ReaderClears ==
    ASSUME ClearInv, TypeInv', NEW r \in Reader,
           Lookup(r) \/ \E k \in Kind : ThreadStep(r, k)
    PROVE  ClearInv'
<1>1. UNCHANGED <<config, rows, call, open, outages>>
  BY DEF Lookup, ThreadStep, Find, Rows, Keep, Store, table, ghost
<1>2. /\ cache \in [Layer -> [Place -> Value \cup {NoValue, Nothing}]]
      /\ thread \in [Thread -> ThreadType]
  BY DEF ClearInv, TypeInv, TypeOK
<1>3. ASSUME UNCHANGED <<cache, slip>> PROVE ClearInv'
  BY <1>1, <1>3, EntryClear
<1>4. ASSUME NEW l \in Layer, NEW p \in Place, NEW v, Entered(l, p, v)
      PROVE  ClearInv'
  <2>1. /\ cache' = [cache EXCEPT ![l][p] = v]
        /\ slip' = (\/ slip
                    \/ v \notin Visible \cup {Nothing}
                    \/ v # Nothing /\ \E c \in Call : Overdue(c))
    BY <1>4 DEF Entered
  <2>2. CASE l = "kv"
    <3>1. cache'["kv"] = [cache["kv"] EXCEPT ![p] = v]
      BY <1>2, <2>1, <2>2
    <3>2. /\ v \in Visible \cup {Nothing} \/ slip'
          /\ v = Nothing \/ (\A c \in Call : ~Overdue(c)) \/ slip'
      BY <2>1
    <3> QED BY <1>1, <2>1, <3>1, <3>2, EntryClear
  <2>3. CASE l # "kv"
    <3>1. cache'["kv"] = cache["kv"]
      BY <1>2, <2>1, <2>3 DEF Layer
    <3> QED BY <1>1, <2>1, <3>1, EntryClear
  <2> QED BY <2>2, <2>3
<1>5. CASE Lookup(r)
  BY <1>3, <1>5 DEF Lookup
<1>6. ASSUME NEW k \in Kind, ThreadStep(r, k) PROVE ClearInv'
  <2>1. <<r, k>> \in Thread /\ thread[<<r, k>>] \in ThreadType
    BY <1>2 DEF Thread, Kind
  <2>2. thread[<<r, k>>].place \in Place /\ thread[<<r, k>>].deep \in Place
    BY <2>1 DEF ThreadType
  <2>3. CASE Find(r, k) \/ Rows(r, k)
    BY <1>3, <2>3 DEF Find, Rows
  <2>4. CASE Keep(r, k)
    <3>1. UNCHANGED <<cache, slip>> \/ \E p \in Place : \E v : Entered("find", p, v)
      BY <2>2, <2>4 DEF Keep
    <3> QED BY <1>3, <1>4, <3>1 DEF Layer
  <2>5. CASE Store(r, k)
    <3>1. UNCHANGED <<cache, slip>> \/ \E p \in Place : \E v : Entered("kv", p, v)
      BY <2>2, <2>5 DEF Store
    <3> QED BY <1>3, <1>4, <3>1 DEF Layer
  <2> QED BY <1>6, <2>3, <2>4, <2>5 DEF ThreadStep
<1> QED BY <1>5, <1>6

\* Between calls a cache where every write is cleared holds one of the rows,
\* unless a value read before a write entered it after the last clear of that
\* write, which may come before the commit, a row was deleted or a call broke off
\* (CacheUtils.clear in AfterUpdate, inside the transaction, and in the finally of
\* KvService.set, next to readers in CacheWrapper and InMemoryDB.save).
THEOREM CachesAreCleared == Spec => []ClearedInTime
<1>1. Init => ClearInv
  <2> SUFFICES ASSUME Init PROVE ClearInv
    OBVIOUS
  <2>1. config.redis => open
    BY KvAssumption DEF Init, ConfigType
  <2>2. Watched \subseteq Place
    BY DEF Watched, Place
  <2>3. \A p \in Watched : cache["kv"][p] = Nothing
    BY <2>2 DEF Init, Layer
  <2>4. \A c \in Call : ~Overdue(c)
    BY DEF Init, IdleCall, Overdue
  <2> QED BY <2>1, <2>3, <2>4, InitTypeInv DEF ClearInv
<1>2. ClearInv /\ [Next]_vars => ClearInv'
  <2> SUFFICES ASSUME ClearInv, [Next]_vars PROVE ClearInv'
    OBVIOUS
  <2>1. TypeInv'
    BY NextTypeInv DEF ClearInv
  <2>2. CASE \E c \in Call : CallStep(c)
    BY <2>1, <2>2, CallClears
  <2>3. CASE \E r \in Reader : Lookup(r) \/ \E k \in Kind : ThreadStep(r, k)
    BY <2>1, <2>3, ReaderClears
  <2>4. CASE \E l \in Layer, p \in Place : Expire(l, p)
    <3>1. PICK l \in Layer, p \in Place : Expire(l, p)
      BY <2>4
    <3>2. /\ cache' = [cache EXCEPT ![l][p] = Nothing]
          /\ UNCHANGED <<config, rows, call, open, outages, slip>>
      BY <3>1 DEF Expire, table
    <3>3. \/ cache'["kv"] = cache["kv"]
          \/ cache'["kv"] = [cache["kv"] EXCEPT ![p] = Nothing]
      BY <3>2 DEF ClearInv, TypeInv, TypeOK, Layer
    <3> QED BY <2>1, <3>2, <3>3, EntryClear
  <2>5. CASE Outage
    <3>1. UNCHANGED <<config, rows, call, cache, slip>> /\ (open => outages' = outages + 1)
      BY <2>5 DEF Outage, table, caches
    <3>2. outages \in Nat /\ outages' \in Nat /\ open' = ~open /\ (~open => outages' = outages)
      BY <2>1, <2>5, KvAssumption DEF Outage, ClearInv, TypeInv, TypeOK
    <3>3. Visible' = Visible
      BY <3>1 DEF Visible, Present, Missing, Ids
    <3>4. Watched' \subseteq Watched
      <4>1. outages' = 0 => outages = 0
        BY <3>1, <3>2
      <4> QED BY <3>1, <4>1, WatchedShrinks
    <3>5. config'.redis /\ outages' = 0 => open'
      BY <3>1, <3>2 DEF ClearInv
    <3>6. \A c \in Call : Overdue(c)' <=> Overdue(c)
      BY <3>1 DEF Overdue
    <3> QED BY <2>1, <3>1, <3>3, <3>4, <3>5, <3>6 DEF ClearInv
  <2>6. CASE UNCHANGED vars
    BY <2>1, <2>6, EntryClear DEF vars
  <2> QED BY <2>2, <2>3, <2>4, <2>5, <2>6 DEF Next, Quiet
<1>3. ClearInv => ClearedInTime
  BY DEF ClearInv, ClearedInTime
<1> QED BY <1>1, <1>2, <1>3, PTL DEF Spec
=============================================================================
