--------------------------- MODULE ServiceProofs ---------------------------
(***************************************************************************)
(* Proofs about the services that requests of users call: the data loaders,*)
(* the tenants and the administrators of the followers, as parts of module *)
(* Agreement.                                                              *)
(***************************************************************************)
EXTENDS LockProofs, AccountProofs, FiniteSets, FiniteSetTheorems, WellFoundedInduction, TLAPS

-----------------------------------------------------------------------------
(* The data loaders (Loader). *)

Loads  == [pc : {"idle", "get", "find", "set"}, at : Instance \cup {"none"},
           seen : Nat \cup {L!None}]
Writes == [at : Instance \cup {"none"}, todo : SUBSET {"commit", "delete", "clear"}]
Copies == [by : Load \cup {"none"}, version : Nat \cup {L!None}]

LoaderTypes ==
    /\ redis \in BOOLEAN /\ lRow \in Nat /\ shared \in Nat \cup {L!None}
    /\ local \in [Instance -> Copies]
    /\ load \in [Load -> Loads] /\ write \in [Writer -> Writes]
    /\ last \in Instance \cup {"none"} /\ lRaced \in BOOLEAN

\* A load is one of an instance, and so is a save that is not done.
LoadOk(v)  == v = L!Resting \/ (v.pc # "idle" /\ v.at \in Instance)
WriteOk(v) == v = L!Done \/ (v.todo # {} /\ v.at \in Instance)

\* As long as no load ran during a save: an instance that saves has no copy, and
\* Redis has none unless it is yet to be deleted; ...
SaveClears(v) ==
    v # L!Done => /\ local[v.at] = L!Empty
                  /\ shared = L!None \/ "delete" \in v.todo

\* ... what the last instance to change the row has is the row, and so is what
\* Redis has, unless it is yet to be deleted, and what a load has read.
Fresh ==
    last # "none" =>
        /\ local[last].version \in {L!None, lRow}
        /\ shared \in {L!None, lRow} \/ \E w \in Writer : "delete" \in write[w].todo
        /\ \A t \in Load : load[t].pc = "set" => load[t].seen = lRow

Orderly ==
    /\ L!Saving = {} \/ L!Loading = {}
    /\ \A w \in Writer : SaveClears(write[w])
    /\ Fresh

\* The inductive invariant.
LoadInv ==
    /\ LoaderTypes
    /\ ~redis => shared = L!None
    /\ \A t \in Load : LoadOk(load[t])
    /\ \A w \in Writer : WriteOk(write[w])
    /\ ~lRaced => Orderly

\* It holds in the beginning.
LEMMA InitLoadInv == ASSUME L!LoaderAssumption, L!Init PROVE LoadInv
<1> USE DEF L!LoaderAssumption, L!Init, L!None
<1>1. L!Resting \in Loads /\ L!Done \in Writes /\ L!Empty \in Copies
  BY DEF L!Resting, L!Done, L!Empty, Loads, Writes, Copies
<1>2. LoaderTypes
  BY <1>1 DEF LoaderTypes
<1>3. /\ \A t \in Load : LoadOk(load[t])
      /\ \A w \in Writer : WriteOk(write[w]) /\ SaveClears(write[w])
  BY DEF LoadOk, WriteOk, SaveClears
<1>4. L!Saving = {} /\ Fresh
  BY DEF L!Saving, Fresh
<1> QED BY <1>2, <1>3, <1>4 DEF LoadInv, Orderly

\* A step of one load, which leaves the row and the saves alone, keeps the
\* invariant if it keeps the types, and what was in order.
LEMMA LoadStep ==
    ASSUME LoadInv, NEW t \in Load, NEW n \in Loads, NEW i \in Instance, NEW c \in Copies,
           load' = [load EXCEPT ![t] = n], LoadOk(n),
           local' = [local EXCEPT ![i] = c],
           UNCHANGED <<redis, lRow, write, last>>,
           shared' \in Nat \cup {L!None}, ~redis => shared' = L!None,
           lRaced' \in BOOLEAN,
           ~lRaced' => ~lRaced /\ L!Saving = {},
           ~lRaced /\ L!Saving = {} /\ last # "none" =>
              /\ c.version \in {L!None, lRow} \/ c = local[i]
              /\ shared' \in {L!None, lRow}
              /\ n.pc = "set" => n.seen = lRow
    PROVE  LoadInv'
<1> USE DEF LoadInv, LoaderTypes
<1>1. LoaderTypes'
  OBVIOUS
<1>2. \A u \in Load : LoadOk(load'[u])
  OBVIOUS
<1>3. ASSUME ~lRaced' PROVE Orderly'
  <2>1. Orderly /\ L!Saving = {} /\ ~lRaced
    BY <1>3
  <2>2. L!Saving' = {} /\ \A w \in Writer : write[w] = L!Done
    BY <2>1 DEF L!Saving
  <2>3. \A w \in Writer : SaveClears(write[w])'
    BY <2>2 DEF SaveClears
  <2>4. ASSUME last # "none"
        PROVE  /\ local'[last].version \in {L!None, lRow}
               /\ shared' \in {L!None, lRow}
               /\ \A u \in Load : load'[u].pc = "set" => load'[u].seen = lRow
    <3>1. Fresh
      BY <2>1 DEF Orderly
    <3>2. last \in Instance
      BY <2>4
    <3>3. local[last].version \in {L!None, lRow}
      BY <2>4, <3>1 DEF Fresh
    <3>4. local'[last].version \in {L!None, lRow}
      BY <2>1, <2>4, <3>2, <3>3
    <3>5. \A u \in Load : load'[u].pc = "set" => load'[u].seen = lRow
      BY <2>1, <2>4, <3>1 DEF Fresh
    <3> QED BY <2>1, <2>4, <3>4, <3>5
  <2> QED BY <2>2, <2>3, <2>4 DEF Orderly, Fresh
<1>4. \A w \in Writer : WriteOk(write'[w])
  OBVIOUS
<1> QED BY <1>1, <1>2, <1>3, <1>4 DEF LoadOk, WriteOk

\* What a load leaves behind is a copy, or what was there.
LEMMA Resolved ==
    ASSUME L!LoaderAssumption, LoadInv, NEW t \in Load, load[t].pc # "idle",
           NEW version \in Nat \cup {L!None}, L!Resolve(t, version)
    PROVE  \E i \in Instance, c \in Copies :
              /\ local' = [local EXCEPT ![i] = c]
              /\ c.version = version \/ c = local[i]
              /\ load' = [load EXCEPT ![t] = L!Resting]
              /\ L!Resting \in Loads /\ LoadOk(L!Resting) /\ L!Resting.pc = "idle"
<1>1. load[t] # L!Resting
  BY DEF L!Resting
<1>2. load[t].at \in Instance
  BY <1>1 DEF LoadInv, LoadOk
<1>3. PICK i \in Instance : i = load[t].at
  BY <1>2
<1>4. L!Resting \in Loads /\ LoadOk(L!Resting) /\ L!Resting.pc = "idle"
  BY DEF L!Resting, Loads, LoadOk, L!None
<1>5. load' = [load EXCEPT ![t] = L!Resting]
  BY DEF L!Resolve
<1>6. local \in [Instance -> Copies]
  BY DEF LoadInv, LoaderTypes
<1>7. CASE redis /\ local[i].by # t
  <2>1. local' = local
    BY <1>3, <1>7 DEF L!Resolve
  <2>2. local' = [local EXCEPT ![i] = local[i]] /\ local[i] \in Copies
    BY <1>6, <2>1
  <2> QED BY <1>4, <1>5, <2>2
<1>8. CASE ~(redis /\ local[i].by # t)
  <2>1. PICK c : c = [by |-> "none", version |-> version]
    OBVIOUS
  <2>2. local' = [local EXCEPT ![i] = c] /\ c \in Copies /\ c.version = version
    BY <1>3, <1>8, <2>1 DEF L!Resolve, Copies
  <2> QED BY <1>4, <1>5, <2>2
<1> QED BY <1>7, <1>8

\* A load begins: during a save it is a race.
LEMMA BeginLoad ==
    ASSUME L!LoaderAssumption, LoadInv, NEW t \in Load, NEW i \in Instance, L!Begin(t, i)
    PROVE  LoadInv'
<1>1. PICK n : n = [L!Resting EXCEPT !.pc = IF redis THEN "get" ELSE "find", !.at = i]
  OBVIOUS
<1>2. n = [pc |-> IF redis THEN "get" ELSE "find", at |-> i, seen |-> L!None]
  BY <1>1 DEF L!Resting
<1>3. n \in Loads /\ LoadOk(n) /\ n.pc # "set"
  BY <1>2 DEF Loads, LoadOk
<1>4. load' = [load EXCEPT ![t] = n]
  BY <1>1 DEF L!Begin
<1>5. local \in [Instance -> Copies] /\ local[i] = L!Empty
  BY DEF LoadInv, LoaderTypes, L!Begin
<1>6. PICK c \in Copies : local' = [local EXCEPT ![i] = c] /\ c.version = L!None
  <2>1. CASE redis
    <3>1. PICK c : c = [local[i] EXCEPT !.by = t]
      OBVIOUS
    <3>2. c = [by |-> t, version |-> L!None]
      BY <1>5, <3>1 DEF L!Empty
    <3>3. c \in Copies /\ c.version = L!None
      BY <3>2 DEF Copies
    <3>4. local' = [local EXCEPT ![i] = c]
      BY <2>1, <3>1 DEF L!Begin
    <3> QED BY <3>3, <3>4
  <2>2. CASE ~redis
    <3>1. local' = [local EXCEPT ![i] = local[i]] /\ local[i] \in Copies
      BY <1>5, <2>2 DEF L!Begin
    <3>2. local[i].version = L!None
      BY <1>5 DEF L!Empty
    <3> QED BY <3>1, <3>2
  <2> QED BY <2>1, <2>2 DEF LoadInv, LoaderTypes
<1>7. /\ UNCHANGED <<redis, lRow, shared, write, last>>
      /\ lRaced' = (lRaced \/ L!Saving # {})
  BY DEF L!Begin
<1>8. lRaced' \in BOOLEAN /\ (~lRaced' => ~lRaced /\ L!Saving = {})
  BY <1>7 DEF LoadInv, LoaderTypes
<1>9. shared' \in Nat \cup {L!None} /\ (~redis => shared' = L!None)
  BY <1>7 DEF LoadInv, LoaderTypes
<1>10. ~lRaced /\ L!Saving = {} /\ last # "none" => shared' \in {L!None, lRow}
  <2>1. L!Saving = {} => \A w \in Writer : write[w].todo = {}
    BY DEF L!Saving, L!Done
  <2> QED BY <1>7, <2>1 DEF LoadInv, Orderly, Fresh
<1> QED BY <1>3, <1>4, <1>6, <1>7, <1>8, <1>9, <1>10, LoadStep

\* While a load is at work and none ran during a save, nobody saves, and Redis has
\* the row of the last change.
LEMMA LoadAlone ==
    ASSUME LoadInv, NEW t \in Load, load[t].pc # "idle"
    PROVE  /\ load[t] # L!Resting /\ load[t].at \in Instance
           /\ ~lRaced => L!Saving = {}
           /\ ~lRaced /\ last # "none" => shared \in {L!None, lRow}
<1>1. load[t] # L!Resting
  BY DEF L!Resting
<1>2. load[t].at \in Instance
  BY <1>1 DEF LoadInv, LoadOk
<1>3. ~lRaced => L!Saving = {}
  BY <1>1 DEF LoadInv, Orderly, L!Loading
<1>4. L!Saving = {} => \A w \in Writer : write[w].todo = {}
  BY DEF L!Saving, L!Done
<1>5. ~lRaced /\ last # "none" => shared \in {L!None, lRow}
  BY <1>3, <1>4 DEF LoadInv, Orderly, Fresh
<1> QED BY <1>1, <1>2, <1>3, <1>5

\* It gets on.
LEMMA AdvanceLoad ==
    ASSUME L!LoaderAssumption, LoadInv, NEW t \in Load, L!Advance(t)
    PROVE  LoadInv'
<1>1. load[t].pc # "idle"
  BY DEF L!Advance, L!Get, L!Find, L!Set
<1>2. /\ load[t] # L!Resting /\ load[t].at \in Instance
      /\ ~lRaced => L!Saving = {}
      /\ ~lRaced /\ last # "none" => shared \in {L!None, lRow}
  BY <1>1, LoadAlone
<1>3. /\ load \in [Load -> Loads] /\ local \in [Instance -> Copies]
      /\ lRow \in Nat /\ shared \in Nat \cup {L!None} /\ lRaced \in BOOLEAN
      /\ ~redis => shared = L!None
  BY DEF LoadInv, LoaderTypes
<1>4. PICK i \in Instance : i = load[t].at
  BY <1>2
<1>5. local = [local EXCEPT ![i] = local[i]] /\ local[i] \in Copies
  BY <1>3
<1>6. CASE L!Get(t)
  <2>1. UNCHANGED <<redis, lRow, shared, write, last, lRaced>>
    BY <1>6 DEF L!Get
  <2>2. CASE L!Resolve(t, shared)
    <3>1. PICK j \in Instance, c \in Copies :
              /\ local' = [local EXCEPT ![j] = c]
              /\ c.version = shared \/ c = local[j]
              /\ load' = [load EXCEPT ![t] = L!Resting]
              /\ L!Resting \in Loads /\ LoadOk(L!Resting) /\ L!Resting.pc = "idle"
      BY <1>1, <1>3, <2>2, Resolved
    <3> QED BY <1>2, <1>3, <2>1, <3>1, LoadStep
  <2>3. CASE load' = [load EXCEPT ![t].pc = "find"] /\ UNCHANGED local
    <3>1. PICK n : n = [load[t] EXCEPT !.pc = "find"]
      OBVIOUS
    <3>2. n \in Loads /\ n.pc = "find" /\ n.at = load[t].at
      BY <1>3, <3>1 DEF Loads
    <3>3. load' = [load EXCEPT ![t] = n]
      BY <2>3, <3>1
    <3>4. LoadOk(n)
      BY <1>2, <3>2 DEF LoadOk
    <3>5. local' = [local EXCEPT ![i] = local[i]]
      BY <1>5, <2>3
    <3> HIDE <3>1
    <3> QED BY <1>2, <1>3, <1>5, <2>1, <3>2, <3>3, <3>4, <3>5, LoadStep
  <2> QED BY <1>6, <2>2, <2>3 DEF L!Get
<1>7. CASE L!Find(t)
  <2>1. UNCHANGED <<redis, lRow, shared, local, write, last, lRaced>>
    BY <1>7 DEF L!Find
  <2>2. PICK n : n = [load[t] EXCEPT !.pc = "set", !.seen = lRow]
    OBVIOUS
  <2>3. n \in Loads /\ n.pc = "set" /\ n.at = load[t].at /\ n.seen = lRow
    BY <1>3, <2>2 DEF Loads
  <2>4. load' = [load EXCEPT ![t] = n]
    BY <1>7, <2>2 DEF L!Find
  <2>5. LoadOk(n)
    BY <1>2, <2>3 DEF LoadOk
  <2>6. local' = [local EXCEPT ![i] = local[i]]
    BY <1>5, <2>1
  <2> HIDE <2>2
  <2> QED BY <1>2, <1>3, <1>5, <2>1, <2>3, <2>4, <2>5, <2>6, LoadStep
<1>8. CASE L!Set(t)
  <2>1. /\ UNCHANGED <<redis, lRow, write, last, lRaced>> /\ L!Resolve(t, load[t].seen)
        /\ shared' = IF redis THEN load[t].seen ELSE shared
        /\ load[t].pc = "set"
    BY <1>8 DEF L!Set
  <2>2. load[t].seen \in Nat \cup {L!None}
    BY <1>3 DEF Loads
  <2>3. ~lRaced /\ last # "none" => load[t].seen = lRow
    BY <2>1 DEF LoadInv, Orderly, Fresh
  <2>4. PICK j \in Instance, c \in Copies :
            /\ local' = [local EXCEPT ![j] = c]
            /\ c.version = load[t].seen \/ c = local[j]
            /\ load' = [load EXCEPT ![t] = L!Resting]
            /\ L!Resting \in Loads /\ LoadOk(L!Resting) /\ L!Resting.pc = "idle"
    BY <1>1, <2>1, <2>2, Resolved
  <2>5. /\ shared' \in Nat \cup {L!None} /\ (~redis => shared' = L!None)
        /\ ~lRaced /\ last # "none" => shared' \in {L!None, lRow}
    BY <1>2, <1>3, <2>1, <2>2, <2>3
  <2> QED BY <1>2, <1>3, <2>1, <2>3, <2>4, <2>5, LoadStep
<1> QED BY <1>6, <1>7, <1>8 DEF L!Advance

\* A step of one save keeps the invariant if it keeps the types and what is in
\* order of this save, of the others, and of the last change.
LEMMA SaveStep ==
    ASSUME LoadInv, NEW w \in Writer, NEW n \in Writes, write' = [write EXCEPT ![w] = n],
           WriteOk(n), redis' = redis, load' = load, lRow' \in Nat,
           shared' \in {L!None, shared}, local' \in [Instance -> Copies],
           \A i \in Instance : local'[i] \in {L!Empty, local[i]},
           last' \in Instance \cup {"none"}, lRaced' \in BOOLEAN,
           ~lRaced' => ~lRaced /\ (n # L!Done => L!Loading = {}),
           ~lRaced' /\ n # L!Done => /\ local'[n.at] = L!Empty
                                     /\ shared' = L!None \/ "delete" \in n.todo,
           ~lRaced' => Fresh'
    PROVE  LoadInv'
<1> USE DEF LoadInv, LoaderTypes
<1>1. LoaderTypes' /\ (~redis' => shared' = L!None)
  OBVIOUS
<1>2. \A v \in Writer : WriteOk(write'[v])
  OBVIOUS
<1>3. ASSUME ~lRaced' PROVE Orderly'
  <2>1. Orderly /\ ~lRaced
    BY <1>3
  <2>2. L!Loading' = L!Loading
    BY DEF L!Loading
  <2>3. L!Saving' = {} \/ L!Loading' = {}
    <3>1. CASE n = L!Done
      <4>1. L!Saving' \subseteq L!Saving
        BY <3>1 DEF L!Saving
      <4> QED BY <2>1, <2>2, <4>1 DEF Orderly
    <3>2. CASE n # L!Done
      BY <1>3, <2>2, <3>2
    <3> QED BY <3>1, <3>2
  <2>4. ASSUME NEW v \in Writer PROVE SaveClears(write[v])'
    <3>1. CASE v = w
      <4>1. write'[v] = n
        BY <3>1
      <4> QED BY <1>3, <4>1 DEF SaveClears
    <3>2. CASE v # w
      <4>1. write'[v] = write[v] /\ SaveClears(write[v]) /\ WriteOk(write[v])
        BY <2>1, <3>2 DEF Orderly
      <4>2. SUFFICES ASSUME write[v] # L!Done
                     PROVE  /\ local'[write[v].at] = L!Empty
                            /\ shared' = L!None \/ "delete" \in write[v].todo
        BY <4>1 DEF SaveClears
      <4>3. write[v].at \in Instance
        BY <4>1, <4>2 DEF WriteOk
      <4> QED BY <4>1, <4>2, <4>3 DEF SaveClears
    <3> QED BY <3>1, <3>2
  <2> QED BY <1>3, <2>3, <2>4 DEF Orderly
<1>4. \A t \in Load : LoadOk(load'[t])
  OBVIOUS
<1> QED BY <1>1, <1>2, <1>3, <1>4 DEF LoadOk, WriteOk

\* A save that is not done.
LEMMA SaveFacts ==
    ASSUME LoadInv, NEW w \in Writer, write[w].todo # {}
    PROVE  /\ write[w] # L!Done /\ write[w] \in Writes /\ write[w].at \in Instance
           /\ ~lRaced => /\ L!Loading = {} /\ local[write[w].at] = L!Empty
                         /\ shared = L!None \/ "delete" \in write[w].todo
<1>1. write[w] # L!Done
  BY DEF L!Done
<1>2. write[w] \in Writes /\ write[w].at \in Instance
  BY <1>1 DEF LoadInv, LoaderTypes, WriteOk
<1>3. ~lRaced => L!Loading = {}
  BY <1>1 DEF LoadInv, Orderly, L!Saving
<1>4. ~lRaced => /\ local[write[w].at] = L!Empty
                 /\ shared = L!None \/ "delete" \in write[w].todo
  BY <1>1 DEF LoadInv, Orderly, SaveClears
<1> QED BY <1>1, <1>2, <1>3, <1>4

\* What one of its steps leaves to be done.
LEMMA Proceeded ==
    ASSUME LoadInv, NEW w \in Writer, NEW done \in write[w].todo,
           NEW next \in SUBSET {"clear"}, L!Proceed(w, done, next)
    PROVE  \E n \in Writes :
              /\ write' = [write EXCEPT ![w] = n] /\ WriteOk(n)
              /\ n # L!Done => n.at = write[w].at
              /\ n # L!Done => n.todo = (write[w].todo \ {done}) \cup next
              /\ n.todo = (write[w].todo \ {done}) \cup next
<1>1. PICK todo : todo = (write[w].todo \ {done}) \cup next
  OBVIOUS
<1>2. write[w] \in Writes /\ write[w].at \in Instance
  BY SaveFacts
<1>3. todo \in SUBSET {"commit", "delete", "clear"}
  BY <1>1, <1>2 DEF Writes
<1>4. CASE todo = {}
  <2>1. write' = [write EXCEPT ![w] = L!Done]
    BY <1>1, <1>4 DEF L!Proceed
  <2>2. L!Done \in Writes /\ WriteOk(L!Done) /\ L!Done.todo = {}
    BY DEF L!Done, Writes, WriteOk
  <2> QED BY <1>1, <1>4, <2>1, <2>2
<1>5. CASE todo # {}
  <2>1. PICK n : n = [write[w] EXCEPT !.todo = todo]
    OBVIOUS
  <2>2. n \in Writes /\ n.at = write[w].at /\ n.todo = todo
    BY <1>2, <1>3, <2>1 DEF Writes
  <2>3. write' = [write EXCEPT ![w] = n]
    BY <1>1, <1>5, <2>1 DEF L!Proceed
  <2>4. WriteOk(n)
    BY <1>2, <1>5, <2>2 DEF WriteOk
  <2> QED BY <1>1, <2>2, <2>3, <2>4
<1> QED BY <1>4, <1>5

\* A save begins: the copy in memory is cleared, the one in Redis is yet to be.
LEMMA UpdateSave ==
    ASSUME L!LoaderAssumption, LoadInv, NEW w \in Writer, NEW i \in Instance, L!Update(w, i)
    PROVE  LoadInv'
<1>1. PICK n : n = [at |-> i, todo |-> {"commit"} \cup IF redis THEN {"delete"} ELSE {}]
  OBVIOUS
<1>2. /\ n \in Writes /\ WriteOk(n) /\ n.at = i /\ (redis => "delete" \in n.todo)
      /\ n.todo # {}
  BY <1>1 DEF Writes, WriteOk
<1>3. write' = [write EXCEPT ![w] = n] /\ write[w] = L!Done
  BY <1>1 DEF L!Update
<1>4. /\ local' = [local EXCEPT ![i] = L!Empty]
      /\ lRaced' = (lRaced \/ L!Loading # {})
      /\ UNCHANGED <<redis, lRow, shared, load, last>>
  BY DEF L!Update
<1>5. L!Empty \in Copies /\ L!Empty.version = L!None
  BY DEF L!Empty, Copies, L!None
<1>6. /\ local \in [Instance -> Copies] /\ lRaced \in BOOLEAN /\ write \in [Writer -> Writes]
      /\ lRow \in Nat /\ last \in Instance \cup {"none"} /\ (~redis => shared = L!None)
  BY DEF LoadInv, LoaderTypes
<1>7. /\ local' \in [Instance -> Copies] /\ local'[i] = L!Empty
      /\ \A j \in Instance : local'[j] \in {L!Empty, local[j]}
  BY <1>4, <1>5, <1>6
<1>8. ASSUME ~lRaced' PROVE Fresh'
  <2>1. Fresh /\ L!Loading = {}
    BY <1>4, <1>8 DEF LoadInv, Orderly
  <2>2. SUFFICES ASSUME last # "none" PROVE Fresh'
    BY <1>4 DEF Fresh
  <2>3. last \in Instance /\ local'[last].version \in {L!None, lRow}
    BY <1>5, <1>6, <1>7, <2>1, <2>2 DEF Fresh
  <2>4. \A v \in Writer : "delete" \in write[v].todo => "delete" \in write'[v].todo
    BY <1>3, <1>6 DEF L!Done
  <2>5. shared \in {L!None, lRow} \/ \E v \in Writer : "delete" \in write'[v].todo
    BY <2>1, <2>2, <2>4 DEF Fresh
  <2> QED BY <1>4, <2>1, <2>2, <2>3, <2>5 DEF Fresh
<1> QED BY <1>2, <1>3, <1>4, <1>6, <1>7, <1>8, SaveStep

\* It is committed, or rolled back.
LEMMA EndSave ==
    ASSUME L!LoaderAssumption, LoadInv, NEW w \in Writer, L!Commit(w) \/ L!Rollback(w)
    PROVE  LoadInv'
<1>1. "commit" \in write[w].todo /\ L!Proceed(w, "commit", {})
  BY DEF L!Commit, L!Rollback
<1>2. PICK n \in Writes :
         /\ write' = [write EXCEPT ![w] = n] /\ WriteOk(n)
         /\ n # L!Done => n.at = write[w].at
         /\ n.todo = (write[w].todo \ {"commit"}) \cup {}
  BY <1>1, Proceeded
<1>3. /\ write[w] # L!Done /\ write[w] \in Writes /\ write[w].at \in Instance
      /\ ~lRaced => /\ L!Loading = {} /\ local[write[w].at] = L!Empty
                    /\ shared = L!None \/ "delete" \in write[w].todo
  BY <1>1, SaveFacts
<1>4. UNCHANGED <<redis, shared, local, load, lRaced>>
  BY DEF L!Commit, L!Rollback
<1>5. /\ local \in [Instance -> Copies] /\ lRaced \in BOOLEAN /\ write \in [Writer -> Writes]
      /\ lRow \in Nat /\ last \in Instance \cup {"none"}
  BY DEF LoadInv, LoaderTypes
<1>6. \A v \in Writer : "delete" \in write[v].todo => "delete" \in write'[v].todo
  BY <1>2, <1>5
<1>7. CASE L!Commit(w)
  <2>1. lRow' = lRow + 1 /\ last' = write[w].at
    BY <1>7 DEF L!Commit
  <2>2. ASSUME ~lRaced' PROVE Fresh'
    <3>1. L!Loading = {} /\ local[last'] = L!Empty
          /\ (shared = L!None \/ "delete" \in write[w].todo)
      BY <1>3, <1>4, <2>1, <2>2
    <3>2. local'[last'].version = L!None
      BY <1>4, <3>1 DEF L!Empty
    <3>3. \A t \in Load : load'[t].pc # "set"
      BY <1>4, <3>1 DEF L!Loading, L!Resting
    <3>4. shared' = L!None \/ \E v \in Writer : "delete" \in write'[v].todo
      BY <1>4, <1>6, <3>1
    <3> QED BY <3>2, <3>3, <3>4 DEF Fresh
  <2>3. ~lRaced' /\ n # L!Done => /\ local'[n.at] = L!Empty
                                  /\ shared' = L!None \/ "delete" \in n.todo
    BY <1>2, <1>3, <1>4
  <2>4. /\ lRow' \in Nat /\ last' \in Instance \cup {"none"}
        /\ ~lRaced' => ~lRaced /\ (n # L!Done => L!Loading = {})
    BY <1>3, <1>4, <1>5, <2>1
  <2>5. /\ redis' = redis /\ load' = load /\ shared' \in {L!None, shared}
        /\ local' \in [Instance -> Copies] /\ lRaced' \in BOOLEAN
        /\ \A j \in Instance : local'[j] \in {L!Empty, local[j]}
    BY <1>4, <1>5
  <2> QED BY <1>2, <2>2, <2>3, <2>4, <2>5, SaveStep
<1>8. CASE L!Rollback(w)
  <2>1. lRow' = lRow /\ last' = last
    BY <1>8 DEF L!Rollback
  <2>2. ASSUME ~lRaced' PROVE Fresh'
    <3>1. Fresh
      BY <1>4, <2>2 DEF LoadInv, Orderly
    <3> QED BY <1>4, <1>6, <2>1, <3>1 DEF Fresh
  <2> QED BY <1>2, <1>3, <1>4, <1>5, <2>1, <2>2, SaveStep
<1> QED BY <1>7, <1>8

\* Its copies are cleared, in Redis and once more in memory.
LEMMA ClearSave ==
    ASSUME L!LoaderAssumption, LoadInv, NEW w \in Writer, L!Delete(w) \/ L!ClearLocal(w)
    PROVE  LoadInv'
<1>1. PICK done \in write[w].todo, next \in SUBSET {"clear"} :
         /\ L!Proceed(w, done, next)
         /\ \/ done = "delete" /\ shared' = L!None /\ local' = local
            \/ /\ done = "clear" /\ shared' = shared
               /\ local' = [local EXCEPT ![write[w].at] = L!Empty]
  BY DEF L!Delete, L!ClearLocal
<1>2. PICK n \in Writes :
         /\ write' = [write EXCEPT ![w] = n] /\ WriteOk(n)
         /\ n # L!Done => n.at = write[w].at
         /\ n.todo = (write[w].todo \ {done}) \cup next
  BY <1>1, Proceeded
<1>3. /\ write[w] # L!Done /\ write[w] \in Writes /\ write[w].at \in Instance
      /\ ~lRaced => /\ L!Loading = {} /\ local[write[w].at] = L!Empty
                    /\ shared = L!None \/ "delete" \in write[w].todo
  BY SaveFacts
<1>4. UNCHANGED <<redis, lRow, load, last, lRaced>>
  BY DEF L!Delete, L!ClearLocal
<1>5. /\ local \in [Instance -> Copies] /\ lRaced \in BOOLEAN /\ write \in [Writer -> Writes]
      /\ lRow \in Nat /\ last \in Instance \cup {"none"} /\ shared \in Nat \cup {L!None}
  BY DEF LoadInv, LoaderTypes
<1>6. L!Empty \in Copies /\ L!Empty.version = L!None
  BY DEF L!Empty, Copies, L!None
<1>7. /\ local' \in [Instance -> Copies] /\ shared' \in {L!None, shared}
      /\ \A j \in Instance : local'[j] \in {L!Empty, local[j]}
  BY <1>1, <1>3, <1>5, <1>6
<1>8. shared' = L!None \/ \A v \in Writer : "delete" \in write[v].todo => "delete" \in write'[v].todo
  BY <1>1, <1>2, <1>5
<1>9. ASSUME ~lRaced' PROVE Fresh'
  <2>1. Fresh
    BY <1>4, <1>9 DEF LoadInv, Orderly
  <2>2. SUFFICES ASSUME last # "none" PROVE Fresh'
    BY <1>4 DEF Fresh
  <2>3. local'[last].version \in {L!None, lRow}
    BY <1>5, <1>6, <1>7, <2>1, <2>2 DEF Fresh
  <2>4. shared' \in {L!None, lRow} \/ \E v \in Writer : "delete" \in write'[v].todo
    BY <1>7, <1>8, <2>1, <2>2 DEF Fresh
  <2> QED BY <1>4, <2>1, <2>2, <2>3, <2>4 DEF Fresh
<1>10. ~lRaced' /\ n # L!Done => /\ local'[n.at] = L!Empty
                                 /\ shared' = L!None \/ "delete" \in n.todo
  BY <1>1, <1>2, <1>3, <1>4, <1>7
<1>11. ~lRaced' => ~lRaced /\ (n # L!Done => L!Loading = {})
  BY <1>3, <1>4
<1> QED BY <1>2, <1>4, <1>5, <1>7, <1>9, <1>10, <1>11, SaveStep

\* A change nobody hears of, and copies that get too old.
LEMMA OtherChange ==
    ASSUME L!LoaderAssumption, LoadInv,
           L!UpdateByQuery \/ L!ExpireShared \/ \E i \in Instance : L!ExpireLocal(i)
    PROVE  LoadInv'
<1>1. /\ UNCHANGED <<redis, load, write, lRaced>> /\ shared' \in {L!None, shared}
      /\ (lRow' = lRow /\ last' = last) \/ (lRow' = lRow + 1 /\ last' = "none")
      /\ local' = local \/ \E i \in Instance : local' = [local EXCEPT ![i] = L!Empty]
  BY DEF L!UpdateByQuery, L!ExpireShared, L!ExpireLocal
<1>2. /\ local \in [Instance -> Copies] /\ lRow \in Nat /\ last \in Instance \cup {"none"}
      /\ shared \in Nat \cup {L!None} /\ (~redis => shared = L!None)
  BY DEF LoadInv, LoaderTypes
<1>3. L!Empty \in Copies /\ L!Empty.version = L!None
  BY DEF L!Empty, Copies, L!None
<1>4. /\ local' \in [Instance -> Copies]
      /\ \A j \in Instance : local'[j] \in {L!Empty, local[j]}
  BY <1>1, <1>2, <1>3
<1>5. LoaderTypes' /\ (~redis' => shared' = L!None)
  BY <1>1, <1>2, <1>4 DEF LoadInv, LoaderTypes
<1>6. /\ \A t \in Load : LoadOk(load[t])'
      /\ \A w \in Writer : WriteOk(write[w])'
  BY <1>1 DEF LoadInv, LoadOk, WriteOk
<1>7. ASSUME ~lRaced' PROVE Orderly'
  <2>1. Orderly
    BY <1>1, <1>7 DEF LoadInv
  <2>2. L!Saving' = L!Saving /\ L!Loading' = L!Loading
    BY <1>1 DEF L!Saving, L!Loading
  <2>3. ASSUME NEW w \in Writer PROVE SaveClears(write[w])'
    <3>1. SaveClears(write[w]) /\ WriteOk(write[w])
      BY <2>1 DEF Orderly, LoadInv
    <3>2. write[w] # L!Done => write[w].at \in Instance
      BY <3>1 DEF WriteOk
    <3> QED BY <1>1, <1>4, <3>1, <3>2 DEF SaveClears
  <2>4. Fresh'
    <3>1. Fresh
      BY <2>1 DEF Orderly
    <3>2. SUFFICES ASSUME last' # "none" PROVE Fresh'
      BY DEF Fresh
    <3>3. last' = last /\ lRow' = lRow /\ last \in Instance
      BY <1>1, <1>2, <3>2
    <3>4. local'[last].version \in {L!None, lRow}
      BY <1>3, <1>4, <3>1, <3>2, <3>3 DEF Fresh
    <3>5. shared' \in {L!None, lRow} \/ \E v \in Writer : "delete" \in write[v].todo
      BY <1>1, <3>1, <3>2, <3>3 DEF Fresh
    <3> QED BY <1>1, <3>1, <3>2, <3>3, <3>4, <3>5 DEF Fresh
  <2> QED BY <2>1, <2>2, <2>3, <2>4 DEF Orderly
<1> QED BY <1>5, <1>6, <1>7 DEF LoadInv

\* Every step of the composite keeps it.
LEMMA LoadInvariance == Spec => []LoadInv
<1>1. L!LoaderAssumption
  BY AgreementAssumption
<1>2. Init => LoadInv
  BY <1>1, InitLoadInv DEF Init
<1>3. LoadInv /\ [Next]_vars => LoadInv'
  <2> SUFFICES ASSUME LoadInv, [Next]_vars PROVE LoadInv'
    OBVIOUS
  <2>1. CASE L!Next
    <3>1. ASSUME NEW t \in Load, L!Advance(t) \/ \E i \in Instance : L!Begin(t, i)
          PROVE  LoadInv'
      BY <1>1, <3>1, AdvanceLoad, BeginLoad
    <3>2. ASSUME NEW w \in Writer, L!Proceeds(w) PROVE LoadInv'
      BY <1>1, <3>2, EndSave, ClearSave DEF L!Proceeds
    <3>3. ASSUME NEW w \in Writer, NEW i \in Instance, L!Update(w, i) PROVE LoadInv'
      BY <1>1, <3>3, UpdateSave
    <3>4. CASE L!UpdateByQuery \/ L!ExpireShared \/ \E i \in Instance : L!ExpireLocal(i)
      BY <1>1, <3>4, OtherChange
    <3> QED BY <2>1, <3>1, <3>2, <3>3, <3>4 DEF L!Next
  <2>2. CASE UNCHANGED loaders
    <3>1. LoaderTypes' /\ Orderly' = Orderly
      BY <2>2 DEF loaders, LoadInv, LoaderTypes, Orderly, Fresh, SaveClears, L!Saving, L!Loading
    <3>2. /\ \A t \in Load : LoadOk(load[t])'
          /\ \A w \in Writer : WriteOk(write[w])'
      BY <2>2 DEF loaders, LoadInv, LoadOk, WriteOk
    <3> QED BY <2>2, <3>1, <3>2 DEF loaders, LoadInv
  <2>3. L!Next \/ UNCHANGED loaders
    BY DEF Next, vars
  <2> QED BY <2>1, <2>2, <2>3
<1> QED BY <1>2, <1>3, PTL DEF Spec

\* While no load and save overlapped, what the instance that changed the row last
\* has in memory, and what Redis has, is that change, for any number of
\* instances, loads and saves, however these follow each other.
THEOREM OwnWritesAreSeen == Spec => []OwnWritesSeen
<1>1. ASSUME LoadInv PROVE OwnWritesSeen
  <2>1. SUFFICES ASSUME NEW i \in Instance, last = i, ~lRaced, L!Saving = {}
                 PROVE  local[i].version \in {L!None, lRow} /\ shared \in {L!None, lRow}
    BY DEF OwnWritesSeen, L!OwnWritesSeen
  <2>2. "none" \notin Instance
    BY AgreementAssumption DEF L!LoaderAssumption
  <2>3. \A w \in Writer : write[w].todo = {}
    BY <2>1 DEF L!Saving, L!Done
  <2> QED BY <1>1, <2>1, <2>2, <2>3 DEF LoadInv, Orderly, Fresh
<1> QED BY <1>1, LoadInvariance, PTL

-----------------------------------------------------------------------------
(* Sums of the values of a function.  SumFunction is a recursive function over *)
(* the subsets of the domain; that it is one, and that the order in which it   *)
(* takes the elements does not matter, is proved by induction on finite sets,  *)
(* in the form of a minimal counterexample.                                    *)

\* Of finite sets, one has no other one inside.
LEMMA MinimalSet ==
    ASSUME NEW S, NEW B, B \subseteq FiniteSubsetsOf(S), B # {}
    PROVE  \E x \in B : \A y \in B : ~(y \subseteq x /\ y # x)
<1>1. IsWellFoundedOn(StrictSubsetOrdering(S), FiniteSubsetsOf(S))
  BY FS_StrictSubsetOrderingWellFounded
<1>2. PICK x \in B : \A y \in B : ~(<<y, x>> \in StrictSubsetOrdering(S))
  BY <1>1, WFMin
<1>3. ASSUME NEW y \in B, y \subseteq x, y # x PROVE FALSE
  BY <1>2, <1>3 DEF StrictSubsetOrdering, FiniteSubsetsOf
<1> QED BY <1>3

\* The same of the subsets of a finite set.
LEMMA MinimalSubset ==
    ASSUME NEW S, IsFiniteSet(S), NEW B, B \subseteq SUBSET S, B # {}
    PROVE  \E x \in B : IsFiniteSet(x) /\ \A y \in B : ~(y \subseteq x /\ y # x)
<1>1. \A x \in SUBSET S : IsFiniteSet(x)
  BY FS_Subset
<1>2. B \subseteq FiniteSubsetsOf(S)
  BY <1>1 DEF FiniteSubsetsOf
<1> QED BY <1>1, <1>2, MinimalSet

Pick(s) == CHOOSE e \in s : TRUE

\* A set that is not empty has an element to pick.
LEMMA PickOne == \A s : s # {} => Pick(s) \in s
BY DEF Pick

\* g sums up the values of f over every subset of S.
IsSum(g, f, S) ==
    g = [s \in SUBSET S |-> IF s = {} THEN 0 ELSE f[Pick(s)] + g[s \ {Pick(s)}]]

\* The sum of the library in these terms.
SumOver(f, S) == (CHOOSE g : IsSum(g, f, S))[S]

\* The sum of Tenancy is the one the lemmas here are about.
LEMMA SumDef == \A f : T!SumFunction(f) = SumOver(f, DOMAIN f)
BY DEF T!SumFunction, T!SumFunctionOnSet, T!FoldFunctionOnSet, T!MapThenFoldSet,
       SumOver, IsSum, Pick

\* One step of such a function.
LEMMA SumStep ==
    ASSUME NEW f, NEW S, NEW g, IsSum(g, f, S), NEW s \in SUBSET S
    PROVE  /\ s = {} => g[s] = 0
           /\ s # {} => g[s] = f[Pick(s)] + g[s \ {Pick(s)}]
BY DEF IsSum

\* Two such functions agree where both are defined and what they sum up is the same.
LEMMA SumsAgree ==
    ASSUME NEW f1, NEW S1, NEW g, IsSum(g, f1, S1), NEW f2, NEW S2, NEW h, IsSum(h, f2, S2),
           NEW s, \A i \in s : f1[i] = f2[i], s \subseteq S1, s \subseteq S2, IsFiniteSet(s)
    PROVE  g[s] = h[s]
<1> DEFINE B == {t \in SUBSET s : g[t] # h[t]}
<1>1. SUFFICES ASSUME B # {} PROVE FALSE
  OBVIOUS
<1>2. PICK x \in B : \A y \in B : ~(y \subseteq x /\ y # x)
  <2>1. B \subseteq SUBSET s
    OBVIOUS
  <2> HIDE DEF B
  <2> QED BY <1>1, <2>1, MinimalSubset
<1>3. x \in SUBSET S1 /\ x \in SUBSET S2 /\ g[x] # h[x]
  OBVIOUS
<1> HIDE DEF B
<1>31. /\ x = {} => g[x] = 0
       /\ x # {} => g[x] = f1[Pick(x)] + g[x \ {Pick(x)}]
  BY <1>3, SumStep
<1>32. /\ x = {} => h[x] = 0
       /\ x # {} => h[x] = f2[Pick(x)] + h[x \ {Pick(x)}]
  BY <1>3, SumStep
<1>4. x # {}
  BY <1>3, <1>31, <1>32
<1>5. Pick(x) \in x
  BY <1>4, PickOne
<1> USE DEF B
<1>33. Pick(x) \in s
  BY <1>5
<1>6. x \ {Pick(x)} \notin B /\ x \ {Pick(x)} \in SUBSET s
  BY <1>2, <1>5
<1>7. g[x \ {Pick(x)}] = h[x \ {Pick(x)}]
  BY <1>6
<1> HIDE DEF B
<1> QED BY <1>3, <1>4, <1>7, <1>31, <1>32, <1>33

\* On a finite set there is one.
LEMMA SumsExist ==
    ASSUME NEW f, NEW S, IsFiniteSet(S)
    PROVE  \E g : IsSum(g, f, S)
<1> DEFINE B == {t \in SUBSET S : ~\E g : IsSum(g, f, t)}
<1>1. SUFFICES ASSUME B # {} PROVE FALSE
  OBVIOUS
<1>2. PICK x \in B : IsFiniteSet(x) /\ \A y \in B : ~(y \subseteq x /\ y # x)
  <2>1. B \subseteq SUBSET S
    OBVIOUS
  <2> HIDE DEF B
  <2> QED BY <1>1, <2>1, MinimalSubset
<1> DEFINE G(t) == CHOOSE g : IsSum(g, f, t)
           h == [t \in SUBSET x |-> IF t = {} THEN 0
                                    ELSE f[Pick(t)] + SumOver(f, t \ {Pick(t)})]
<1>3. ASSUME NEW t, t \subseteq x, t # x
      PROVE  IsSum(G(t), f, t) /\ IsFiniteSet(t) /\ SumOver(f, t) = G(t)[t]
  <2>1. t \in SUBSET S /\ t \notin B
    BY <1>2, <1>3
  <2>2. \E g : IsSum(g, f, t)
    BY <2>1
  <2>3. IsSum(G(t), f, t)
    BY <2>2
  <2>4. IsFiniteSet(t)
    BY <1>2, <1>3, FS_Subset
  <2> QED BY <2>3, <2>4 DEF SumOver
<1>4. ASSUME NEW t, t \subseteq x, t # x
      PROVE  h[t] = SumOver(f, t)
  <2>1. IsSum(G(t), f, t) /\ SumOver(f, t) = G(t)[t]
    BY <1>3, <1>4
  <2>2. CASE t = {}
    BY <2>1, <2>2, SumStep
  <2>3. CASE t # {}
    <3> DEFINE u == t \ {Pick(t)}
    <3>1. Pick(t) \in t
      BY <2>3, PickOne
    <3>2. u \subseteq x /\ u # x /\ u \subseteq t
      BY <1>4, <3>1
    <3>3. IsSum(G(u), f, u) /\ IsFiniteSet(u) /\ SumOver(f, u) = G(u)[u]
      BY <3>2, <1>3
    <3>4. G(t)[u] = G(u)[u]
      <4> HIDE DEF u, G
      <4> QED BY <2>1, <3>2, <3>3, SumsAgree
    <3>5. G(t)[t] = f[Pick(t)] + G(t)[u]
      <4> HIDE DEF G
      <4> QED BY <2>1, <2>3, SumStep
    <3>6. h[t] = f[Pick(t)] + SumOver(f, u)
      BY <1>4, <2>3
    <3> HIDE DEF h, G, u
    <3> QED BY <2>1, <3>3, <3>4, <3>5, <3>6
  <2> QED BY <2>2, <2>3
<1>5. \A t \in SUBSET x : t # {} =>
          h[t] = f[Pick(t)] + h[t \ {Pick(t)}]
  <2> TAKE t \in SUBSET x
  <2> HAVE t # {}
  <2>1. Pick(t) \in t
    BY PickOne
  <2>2. h[t \ {Pick(t)}] = SumOver(f, t \ {Pick(t)})
    <3> HIDE DEF h
    <3> QED BY <2>1, <1>4
  <2> QED BY <2>2
<1>6. IsSum(h, f, x)
  <2>1. h = [t \in SUBSET x |-> IF t = {} THEN 0 ELSE h[t]]
    OBVIOUS
  <2> HIDE DEF h
  <2>2. [t \in SUBSET x |-> IF t = {} THEN 0 ELSE h[t]]
            = [t \in SUBSET x |-> IF t = {} THEN 0
                                  ELSE f[Pick(t)] + h[t \ {Pick(t)}]]
    BY <1>5
  <2> QED BY <2>1, <2>2 DEF IsSum
<1> QED BY <1>6

\* The sum over a finite set, element by element.
LEMMA SumRec ==
    ASSUME NEW f, NEW S, IsFiniteSet(S)
    PROVE  /\ S = {} => SumOver(f, S) = 0
           /\ S # {} => SumOver(f, S) = f[Pick(S)] + SumOver(f, S \ {Pick(S)})
<1> DEFINE G(t) == CHOOSE g : IsSum(g, f, t)
           u == S \ {Pick(S)}
<1>1. IsFiniteSet(u)
  BY FS_RemoveElement
<1>2. IsSum(G(S), f, S) /\ IsSum(G(u), f, u)
  BY <1>1, SumsExist
<1>3. SumOver(f, S) = G(S)[S] /\ SumOver(f, u) = G(u)[u]
  BY DEF SumOver
<1>4. u \subseteq S
  OBVIOUS
<1> HIDE DEF G
<1>5. G(S)[u] = G(u)[u]
  <2> HIDE DEF u
  <2> QED BY <1>1, <1>2, <1>4, SumsAgree
<1> QED BY <1>2, <1>3, <1>5, SumStep

\* Integers have an integer sum.
LEMMA SumType ==
    ASSUME NEW f, NEW S, IsFiniteSet(S), \A e \in S : f[e] \in Int
    PROVE  SumOver(f, S) \in Int
<1> DEFINE B == {t \in SUBSET S : SumOver(f, t) \notin Int}
<1>1. SUFFICES ASSUME B # {} PROVE FALSE
  OBVIOUS
<1>2. PICK x \in B : IsFiniteSet(x) /\ \A y \in B : ~(y \subseteq x /\ y # x)
  <2>1. B \subseteq SUBSET S
    OBVIOUS
  <2> HIDE DEF B
  <2> QED BY <1>1, <2>1, MinimalSubset
<1>3. x # {}
  <2>1. SumOver(f, {}) = 0
    BY FS_EmptySet, SumRec
  <2> QED BY <2>1
<1>4. Pick(x) \in x
  BY <1>3, PickOne
<1>5. SumOver(f, x \ {Pick(x)}) \in Int
  BY <1>2, <1>4
<1>6. SumOver(f, x) = f[Pick(x)] + SumOver(f, x \ {Pick(x)})
  BY <1>2, <1>3, SumRec
<1>7. f[Pick(x)] \in Int
  BY <1>4
<1> QED BY <1>5, <1>6, <1>7

\* Any element may be taken first.
LEMMA SumRemove ==
    ASSUME NEW f, NEW S, IsFiniteSet(S), \A e \in S : f[e] \in Int,
           NEW e \in S
    PROVE  SumOver(f, S) = f[e] + SumOver(f, S \ {e})
<1> DEFINE B == {t \in SUBSET S : \E r \in t : SumOver(f, t) # f[r] + SumOver(f, t \ {r})}
<1>1. SUFFICES ASSUME B # {} PROVE FALSE
  OBVIOUS
<1>2. PICK x \in B : IsFiniteSet(x) /\ \A y \in B : ~(y \subseteq x /\ y # x)
  <2>1. B \subseteq SUBSET S
    OBVIOUS
  <2> HIDE DEF B
  <2> QED BY <1>1, <2>1, MinimalSubset
<1>3. PICK r \in x : SumOver(f, x) # f[r] + SumOver(f, x \ {r})
  OBVIOUS
<1> DEFINE p == Pick(x)
<1>4. p \in x
  BY <1>3, PickOne
<1>5. SumOver(f, x) = f[p] + SumOver(f, x \ {p})
  BY <1>2, <1>3, SumRec
<1>6. p # r
  BY <1>3, <1>5
<1>7. x \ {p} \notin B /\ x \ {r} \notin B /\ x \in SUBSET S
  BY <1>2, <1>3, <1>4
<1>8. /\ SumOver(f, x \ {p}) = f[r] + SumOver(f, (x \ {p}) \ {r})
      /\ SumOver(f, x \ {r}) = f[p] + SumOver(f, (x \ {r}) \ {p})
  BY <1>3, <1>4, <1>6, <1>7
<1>9. (x \ {p}) \ {r} = (x \ {r}) \ {p}
  OBVIOUS
<1>10. SumOver(f, (x \ {p}) \ {r}) \in Int
  <2>1. IsFiniteSet((x \ {p}) \ {r})
    BY <1>2, FS_RemoveElement
  <2>2. \A q \in (x \ {p}) \ {r} : f[q] \in Int
    BY <1>7
  <2> HIDE DEF p, B
  <2> QED BY <2>1, <2>2, SumType
<1>11. f[p] \in Int /\ f[r] \in Int
  BY <1>3, <1>4, <1>7
<1>12. /\ SumOver(f, x) = f[p] + (f[r] + SumOver(f, (x \ {p}) \ {r}))
       /\ SumOver(f, x) # f[r] + (f[p] + SumOver(f, (x \ {p}) \ {r}))
  BY <1>3, <1>5, <1>8, <1>9
<1> DEFINE s == SumOver(f, (x \ {p}) \ {r})
           a == f[p]
           b == f[r]
<1>13. a \in Int /\ b \in Int /\ s \in Int /\ a + (b + s) # b + (a + s)
  BY <1>10, <1>11, <1>12
<1> HIDE DEF p, B, s, a, b
<1> QED BY <1>13

\* Numbers that are not negative have no negative sum.
LEMMA SumNatural ==
    ASSUME NEW S, IsFiniteSet(S), NEW f \in [S -> Nat]
    PROVE  SumOver(f, S) \in Nat
<1> DEFINE B == {t \in SUBSET S : SumOver(f, t) \notin Nat}
<1>1. SUFFICES ASSUME B # {} PROVE FALSE
  OBVIOUS
<1>2. PICK x \in B : IsFiniteSet(x) /\ \A y \in B : ~(y \subseteq x /\ y # x)
  <2>1. B \subseteq SUBSET S
    OBVIOUS
  <2> HIDE DEF B
  <2> QED BY <1>1, <2>1, MinimalSubset
<1>3. x # {}
  <2>1. SumOver(f, {}) = 0
    BY FS_EmptySet, SumRec
  <2> QED BY <2>1
<1>4. Pick(x) \in x
  BY <1>3, PickOne
<1>5. SumOver(f, x \ {Pick(x)}) \in Nat
  BY <1>2, <1>4
<1>6. SumOver(f, x) = f[Pick(x)] + SumOver(f, x \ {Pick(x)})
  BY <1>2, <1>3, SumRec
<1>7. f[Pick(x)] \in Nat
  BY <1>4
<1> QED BY <1>5, <1>6, <1>7

\* Two functions that agree have the same sum.
LEMMA SameSum ==
    ASSUME NEW S, IsFiniteSet(S), NEW f, NEW g, \A i \in S : f[i] = g[i]
    PROVE  SumOver(f, S) = SumOver(g, S)
<1> DEFINE H(k) == CHOOSE h : IsSum(h, k, S)
<1>1. IsSum(H(f), f, S) /\ IsSum(H(g), g, S)
  BY SumsExist
<1>2. SumOver(f, S) = H(f)[S] /\ SumOver(g, S) = H(g)[S]
  BY DEF SumOver
<1> HIDE DEF H
<1>3. H(f)[S] = H(g)[S]
  BY <1>1, SumsAgree
<1> QED BY <1>2, <1>3

\* A summand is not more than the sum.
LEMMA Summand ==
    ASSUME NEW Dom, IsFiniteSet(Dom), NEW f \in [Dom -> Nat]
    PROVE  T!SumFunction(f) \in Nat /\ \A e \in Dom : f[e] <= T!SumFunction(f)
<1>1. T!SumFunction(f) \in Nat
  BY SumDef, SumNatural
<1>2. ASSUME NEW e \in Dom PROVE f[e] <= T!SumFunction(f)
  <2> DEFINE g == [i \in Dom \ {e} |-> f[i]]
  <2>1. IsFiniteSet(Dom \ {e})
    BY FS_RemoveElement
  <2>2. g \in [Dom \ {e} -> Nat] /\ \A i \in Dom \ {e} : f[i] = g[i]
    OBVIOUS
  <2> HIDE DEF g
  <2>3. SumOver(g, Dom \ {e}) \in Nat
    BY <2>1, <2>2, SumNatural
  <2>4. SumOver(f, Dom \ {e}) = SumOver(g, Dom \ {e})
    BY <2>1, <2>2, SameSum
  <2>5. SumOver(f, Dom) = f[e] + SumOver(f, Dom \ {e})
    BY SumRemove
  <2> QED BY <2>3, <2>4, <2>5, SumDef
<1> QED BY <1>1, <1>2

-----------------------------------------------------------------------------
(* Tenants and the records of their users (Tenancy). *)

Asks ==
    [pc : T!Registration \cup {"idle", "staff", "permit", "count", "insert"},
     user : User \cup {T!Nobody}, tenant : T!Tenant \cup {T!None}, model : T!Model]

\* A request that is at work is a user's.  Who gets as far as making a tenant is no
\* one's staff; the tenant he links, or makes staff of, is one he registered, and
\* the latter is the one he has, unless he registers another one.
AskOk(v) ==
    v # T!Idle =>
        /\ v.pc # "idle" /\ v.user \in User
        /\ v.pc \in T!Registration => tenantOf[v.user] # T!Absent
        /\ v.pc \in {"find", "create", "link", "staff"} => v.user \notin staff
        /\ v.pc \in {"link", "staff"} => v.tenant \in T!Tenant /\ owner[v.tenant] = v.user
        /\ v.pc = "staff" => tenantOf[v.user] = v.tenant \/ v.user \in tCrossed
        /\ v.pc \in {"permit", "count", "insert"} => v.tenant \in T!Tenant

\* Tenants are numbered as they are made, by users who signed up.
Numbered ==
    \E k \in 0 .. MaxTenants : {t \in T!Tenant : owner[t] # T!Nobody} = 1 .. k

OwnerOk(t) == owner[t] # T!Nobody => owner[t] \notin staff /\ tenantOf[owner[t]] # T!Absent

\* Staff have a tenant; and who registers once at a time has none when he is about
\* to make one, or to link it.
UserOk(u) ==
    /\ u \in staff => tenantOf[u] \in T!Tenant
    /\ u \notin tCrossed =>
          /\ \A p, q \in T!Registering(u) : p = q
          /\ \A q \in T!Registering(u) : tReq[q].pc \in {"create", "link"} => tenantOf[u] = T!None

\* The requests that are about to insert a record of a model for a tenant.
Inserting(m, t) ==
    {q \in Request : tReq[q].pc = "insert" /\ tReq[q].model = m /\ tReq[q].tenant = t}

Bounded(m, t) == rows[m][t] + Cardinality(Inserting(m, t)) < T!Limit(m) + Cardinality(Request)

\* The inductive invariant.
TenantInv ==
    /\ T!TypeOK /\ Numbered
    /\ \A q \in Request : AskOk(tReq[q])
    /\ \A t \in T!Tenant : OwnerOk(t)
    /\ \A u \in User : UserOk(u)
    /\ T!TenantsHaveUsers
    /\ \A m \in T!Model, t \in T!Tenant : Bounded(m, t)

\* The requests and the tenants are finitely many, and the operators on finite
\* sets of the instance are the ones of the library.
LEMMA Finite ==
    ASSUME T!TenancyAssumption
    PROVE  /\ Cardinality(Request) \in Nat /\ Cardinality(Request) > 0
           /\ IsFiniteSet(T!Tenant \cup {T!None}) /\ IsFiniteSet(T!Tenant)
           /\ \A S : T!Cardinality(S) = Cardinality(S)
           /\ \A S \in SUBSET Request : /\ IsFiniteSet(S) /\ Cardinality(S) \in Nat
                                        /\ Cardinality(S) <= Cardinality(Request)
           /\ "none" \notin User /\ MaxTenants \in Nat
           /\ \A m \in T!Model : tConfig \in Tenancies => T!Limit(m) \in Nat
<1>1. IsFiniteSet(Request) /\ Request # {}
  BY DEF T!TenancyAssumption, T!IsFiniteSet, IsFiniteSet
<1>2. Cardinality(Request) \in Nat /\ Cardinality(Request) # 0
  BY <1>1, FS_CardinalityType, FS_EmptySet
<1>3. \A S \in SUBSET Request : IsFiniteSet(S) /\ Cardinality(S) \in Nat
                                /\ Cardinality(S) <= Cardinality(Request)
  BY <1>1, FS_Subset, FS_CardinalityType
<1>4. MaxTenants \in Nat /\ "none" \notin User
  BY DEF T!TenancyAssumption
<1>5. IsFiniteSet(T!Tenant)
  BY <1>4, FS_Interval DEF T!Tenant
<1>6. IsFiniteSet(T!Tenant \cup {T!None})
  BY <1>5, FS_AddElement
<1>7. \A S : T!Cardinality(S) = Cardinality(S)
  BY DEF T!Cardinality, Cardinality
<1>8. \A m \in T!Model : tConfig \in Tenancies => T!Limit(m) \in Nat
  BY DEF T!TenancyAssumption, T!Limit
<1> QED BY <1>2, <1>3, <1>4, <1>5, <1>6, <1>7, <1>8

\* The records of a tenant are not more than all that are counted.
LEMMA RowsCount ==
    ASSUME T!TenancyAssumption, T!TypeOK, NEW m \in T!Model, NEW t \in T!Tenant
    PROVE  rows[m][t] \in Nat /\ T!Total(m) \in Nat /\ rows[m][t] <= T!Total(m)
<1>1. IsFiniteSet(T!Tenant \cup {T!None}) /\ IsFiniteSet(T!Tenant) /\ MaxStray \in Nat
  BY Finite DEF T!TenancyAssumption
<1>2. rows[m] \in [T!Tenant -> Nat]
  BY DEF T!TypeOK
<1>3. given[m] \in [T!Tenant \cup {T!None} -> Nat]
  <2>1. given[m] \in [T!Tenant \cup {T!None} -> 0 .. MaxStray]
    BY DEF T!TypeOK
  <2> QED BY <1>1, <2>1
<1>4. stray \in [T!Tenant -> Nat]
  <2>1. stray \in [T!Tenant -> 0 .. MaxStray]
    BY DEF T!TypeOK
  <2> QED BY <1>1, <2>1
<1>5. T!SumFunction(rows[m]) \in Nat /\ rows[m][t] <= T!SumFunction(rows[m])
  BY <1>1, <1>2, Summand
<1>6. T!SumFunction(given[m]) \in Nat
  BY <1>1, <1>3, Summand
<1>7. T!SumFunction(stray) \in Nat
  BY <1>1, <1>4, Summand
<1> QED BY <1>2, <1>5, <1>6, <1>7 DEF T!Total

\* It holds in the beginning.
LEMMA InitTenantInv == ASSUME T!TenancyAssumption, T!Init PROVE TenantInv
<1> USE DEF T!Init
<1>1. /\ T!Idle \in Asks /\ T!Idle.user = "none" /\ T!Idle.pc = "idle"
      /\ "none" \notin User /\ MaxStray \in Nat /\ MaxFail \in Nat
  BY Finite DEF T!Idle, Asks, T!Nobody, T!None, T!Model, T!TenancyAssumption
<1>2. T!TypeOK
  <2>1. tReq \in [Request -> Asks]
    BY <1>1
  <2>2. tenantOf \in [User -> T!Tenant \cup {T!None, T!Absent}]
    OBVIOUS
  <2>3. /\ owner \in [T!Tenant -> User \cup {T!Nobody}]
        /\ rows \in [T!Model -> [T!Tenant -> Nat]]
        /\ given \in [T!Model -> [T!Tenant \cup {T!None} -> 0 .. MaxStray]]
        /\ stray \in [T!Tenant -> 0 .. MaxStray]
    BY <1>1
  <2> QED BY <1>1, <2>1, <2>2, <2>3 DEF T!TypeOK, Asks
<1>3. Numbered
  <2>1. {t \in T!Tenant : owner[t] # T!Nobody} = 1 .. 0 /\ 0 \in 0 .. MaxTenants
    BY Finite
  <2> QED BY <2>1 DEF Numbered
<1>4. \A q \in Request : AskOk(tReq[q])
  BY DEF AskOk
<1>5. \A t \in T!Tenant : OwnerOk(t)
  BY DEF OwnerOk
<1>6. \A u \in User : UserOk(u)
  BY <1>1 DEF UserOk, T!Registering
<1>7. T!TenantsHaveUsers
  BY DEF T!TenantsHaveUsers, T!Tenant, T!None, T!Absent
<1>8. ASSUME NEW m \in T!Model, NEW t \in T!Tenant PROVE Bounded(m, t)
  <2>1. Inserting(m, t) = {}
    BY <1>1 DEF Inserting
  <2>2. Cardinality(Inserting(m, t)) = 0
    BY <2>1, FS_EmptySet
  <2>3. rows[m][t] = 0
    OBVIOUS
  <2>4. T!Limit(m) \in Nat /\ Cardinality(Request) \in Nat /\ Cardinality(Request) > 0
    BY <1>2, Finite
  <2> QED BY <2>2, <2>3, <2>4 DEF Bounded
<1> QED BY <1>2, <1>3, <1>4, <1>5, <1>6, <1>7, <1>8 DEF TenantInv

\* The request of the step.
LEMMA AskFacts ==
    ASSUME T!TenancyAssumption, TenantInv, NEW q \in Request
    PROVE  /\ tReq \in [Request -> Asks] /\ tReq[q] \in Asks /\ AskOk(tReq[q])
           /\ T!Idle \in Asks /\ T!Idle.user = "none" /\ T!Idle.pc = "idle"
           /\ "none" \notin User
           /\ tReq[q] # T!Idle => tReq[q].user \in User
           /\ tReq[q].pc # "idle" => tReq[q] # T!Idle
<1>1. T!Idle \in Asks /\ T!Idle.user = "none" /\ T!Idle.pc = "idle"
  BY DEF T!Idle, Asks, T!Nobody, T!None, T!Model
<1>2. tReq \in [Request -> Asks]
  BY DEF TenantInv, T!TypeOK, Asks
<1> QED BY <1>1, <1>2, Finite DEF TenantInv, AskOk

\* The bounds stay where no record is inserted and no request sets about it.
LEMMA BoundsStay ==
    ASSUME T!TenancyAssumption, TenantInv, NEW q \in Request, NEW n,
           tReq' = [tReq EXCEPT ![q] = n], UNCHANGED <<tConfig, rows>>,
           n.pc # "insert"
    PROVE  \A m \in T!Model, t \in T!Tenant : Bounded(m, t)'
<1> TAKE m \in T!Model, t \in T!Tenant
<1>1. tReq \in [Request -> Asks] /\ T!TypeOK /\ tConfig \in Tenancies
  BY AskFacts DEF TenantInv, T!TypeOK
<1>2. Inserting(m, t)' \subseteq Inserting(m, t) /\ Inserting(m, t) \subseteq Request
  BY <1>1 DEF Inserting
<1>3. IsFiniteSet(Inserting(m, t)) /\ Cardinality(Inserting(m, t)) \in Nat
  BY <1>2, Finite
<1>4. /\ Cardinality(Inserting(m, t)') \in Nat
      /\ Cardinality(Inserting(m, t)') <= Cardinality(Inserting(m, t))
  BY <1>2, <1>3, FS_Subset, FS_CardinalityType
<1>5. Bounded(m, t)
  BY DEF TenantInv
<1>6. rows[m][t] \in Nat /\ T!Limit(m) \in Nat /\ Cardinality(Request) \in Nat
  BY <1>1, RowsCount, Finite
<1>7. T!Limit(m)' = T!Limit(m) /\ rows[m][t]' = rows[m][t]
  BY DEF T!Limit
<1> QED BY <1>3, <1>4, <1>5, <1>6, <1>7 DEF Bounded

\* A step of one request that leaves users and tenants alone.
LEMMA AskStep ==
    ASSUME T!TenancyAssumption, TenantInv, NEW q \in Request, NEW n \in Asks,
           tReq' = [tReq EXCEPT ![q] = n], UNCHANGED <<tConfig, tenantOf, staff, owner>>,
           tCrossed \subseteq tCrossed', tBroken \subseteq tBroken',
           tReq[q].pc = "link" => tReq[q].tenant \in tBroken',
           \/ n.pc \notin T!Registration
           \/ /\ tReq[q].pc \in T!Registration /\ n.user = tReq[q].user
              /\ n.pc \in {"create", "link"} => tenantOf[n.user] = T!None
           \/ n.pc = "info" /\ (T!Registering(n.user) = {} \/ n.user \in tCrossed'),
           T!TypeOK', AskOk(n)', \A m \in T!Model, t \in T!Tenant : Bounded(m, t)'
    PROVE  TenantInv'
<1>1. tReq \in [Request -> Asks]
  BY AskFacts
<1>2. Numbered' /\ \A t \in T!Tenant : OwnerOk(t)'
  BY DEF TenantInv, Numbered, OwnerOk
<1>3. ASSUME NEW p \in Request PROVE AskOk(tReq[p])'
  <2>1. CASE p = q
    BY <1>1, <2>1
  <2>2. CASE p # q
    <3>1. tReq'[p] = tReq[p] /\ AskOk(tReq[p])
      BY <1>1, <2>2 DEF TenantInv
    <3> QED BY <3>1 DEF AskOk
  <2> QED BY <2>1, <2>2
<1>4. ASSUME NEW u \in User, u \notin tCrossed'
      PROVE  /\ \A p, r \in T!Registering(u)' : p = r
             /\ \A p \in T!Registering(u)' : tReq'[p].pc \in {"create", "link"} => tenantOf[u] = T!None
  <2>1. /\ \A p, r \in T!Registering(u) : p = r
        /\ \A p \in T!Registering(u) : tReq[p].pc \in {"create", "link"} => tenantOf[u] = T!None
    BY <1>4 DEF TenantInv, UserOk
  <2>2. \A p \in T!Registering(u)' : p # q => p \in T!Registering(u) /\ tReq'[p] = tReq[p]
    BY <1>1 DEF T!Registering
  <2>3. ASSUME q \in T!Registering(u)'
        PROVE  /\ q \in T!Registering(u) \/ T!Registering(u) = {}
               /\ tReq'[q].pc \in {"create", "link"} => tenantOf[u] = T!None
    <3>1. n.user = u /\ n.pc \in T!Registration /\ tReq'[q] = n
      BY <1>1, <2>3 DEF T!Registering
    <3> QED BY <1>4, <3>1 DEF T!Registering
  <2> QED BY <2>1, <2>2, <2>3
<1>5. \A u \in User : UserOk(u)'
  BY <1>4 DEF TenantInv, UserOk
<1>6. T!TenantsHaveUsers'
  <2>1. ASSUME NEW t \in T!Tenant \ tBroken', owner[t] # T!Nobody,
               NEW p \in T!Registering(owner[t]), tReq[p].pc = "link", tReq[p].tenant = t
        PROVE  p \in T!Registering(owner[t])' /\ tReq'[p] = tReq[p]
    <3>1. p # q
      BY <2>1
    <3> QED BY <1>1, <2>1, <3>1 DEF T!Registering
  <2>2. ASSUME NEW t \in T!Tenant \ tBroken', owner[t] # T!Nobody
        PROVE  \/ tenantOf[owner[t]] = t
               \/ \E p \in T!Registering(owner[t])' : tReq'[p].pc = "link" /\ tReq'[p].tenant = t
               \/ /\ owner[t] \in tCrossed'
                  /\ \E s \in T!Tenant \ {t} : owner[s] = owner[t] /\ tenantOf[owner[t]] = s
    <3>1. \/ tenantOf[owner[t]] = t
          \/ \E p \in T!Registering(owner[t]) : tReq[p].pc = "link" /\ tReq[p].tenant = t
          \/ /\ owner[t] \in tCrossed
             /\ \E s \in T!Tenant \ {t} : owner[s] = owner[t] /\ tenantOf[owner[t]] = s
      BY <2>2 DEF TenantInv, T!TenantsHaveUsers
    <3> QED BY <2>1, <2>2, <3>1
  <2>3. ASSUME NEW u \in User, tenantOf[u] \in T!Tenant
        PROVE  IF u \in staff
               THEN /\ owner[tenantOf[u]] \in User \ staff
                    /\ tenantOf[owner[tenantOf[u]]] = tenantOf[u]
                       \/ owner[tenantOf[u]] \in tCrossed'
               ELSE owner[tenantOf[u]] = u
    BY <2>3 DEF TenantInv, T!TenantsHaveUsers
  <2> QED BY <2>2, <2>3 DEF T!TenantsHaveUsers
<1> QED BY <1>2, <1>3, <1>5, <1>6 DEF TenantInv

\* It goes on, or ends, and nothing else changes.
LEMMA QuietAsk ==
    ASSUME T!TenancyAssumption, TenantInv, NEW q \in Request, tReq[q] # T!Idle,
           tReq[q].pc # "link",
           UNCHANGED <<tConfig, tenantOf, staff, owner, rows, given, stray, tRound, tCrossed,
                       tBroken, tFails>>,
           \/ T!Answer(q)
           \/ /\ tReq[q].pc \in {"info", "find"} /\ tenantOf[tReq[q].user] = T!None
              /\ T!Goto(q, "find") \/ T!Goto(q, "create")
           \/ tReq[q].pc = "permit" /\ T!Goto(q, "count")
    PROVE  TenantInv'
<1>1. /\ tReq[q] \in Asks /\ AskOk(tReq[q]) /\ T!Idle \in Asks /\ T!Idle.pc = "idle"
      /\ tReq \in [Request -> Asks]
  BY AskFacts
<1>2. PICK n \in Asks :
         /\ tReq' = [tReq EXCEPT ![q] = n] /\ n.pc # "insert" /\ AskOk(n)
         /\ \/ n.pc \notin T!Registration
            \/ /\ tReq[q].pc \in T!Registration /\ n.user = tReq[q].user
               /\ n.pc \in {"create", "link"} => tenantOf[n.user] = T!None
  <2>1. CASE T!Answer(q)
    BY <1>1, <2>1 DEF T!Answer, AskOk, T!Registration
  <2>2. ASSUME NEW pc \in {"find", "create", "count"}, T!Goto(q, pc),
               \/ /\ tReq[q].pc \in {"info", "find"} /\ tenantOf[tReq[q].user] = T!None
                  /\ pc \in {"find", "create"}
               \/ tReq[q].pc = "permit" /\ pc = "count"
        PROVE  \E n \in Asks :
         /\ tReq' = [tReq EXCEPT ![q] = n] /\ n.pc # "insert" /\ AskOk(n)
         /\ \/ n.pc \notin T!Registration
            \/ /\ tReq[q].pc \in T!Registration /\ n.user = tReq[q].user
               /\ n.pc \in {"create", "link"} => tenantOf[n.user] = T!None
    <3>1. PICK n : n = [tReq[q] EXCEPT !.pc = pc]
      OBVIOUS
    <3>2. tReq' = [tReq EXCEPT ![q] = n]
      BY <2>2, <3>1 DEF T!Goto
    <3>3. n \in Asks /\ n.pc = pc /\ n.user = tReq[q].user /\ n.tenant = tReq[q].tenant
      BY <1>1, <3>1 DEF Asks, T!Registration
    <3> HIDE <3>1
    <3>4. tReq[q].user \in User /\ (tReq[q].user \in staff => tenantOf[tReq[q].user] \in T!Tenant)
      BY AskFacts DEF TenantInv, UserOk
    <3>5. T!None # T!Absent /\ T!None \notin T!Tenant
      BY DEF T!None, T!Absent, T!Tenant
    <3>6. AskOk(n)
      BY <1>1, <2>2, <3>3, <3>4, <3>5 DEF AskOk, T!Registration
    <3>7. \/ n.pc \notin T!Registration
          \/ /\ tReq[q].pc \in T!Registration /\ n.user = tReq[q].user
             /\ n.pc \in {"create", "link"} => tenantOf[n.user] = T!None
      BY <2>2, <3>3 DEF T!Registration
    <3> QED BY <2>2, <3>2, <3>3, <3>6, <3>7
  <2> QED BY <2>1, <2>2
<1>3. \A m \in T!Model, t \in T!Tenant : Bounded(m, t)'
  BY <1>2, BoundsStay
<1>4. tReq' \in [Request -> Asks]
  BY <1>1, <1>2
<1>5. T!TypeOK'
  BY <1>4 DEF TenantInv, T!TypeOK, Asks
<1>6. AskOk(n)'
  BY <1>2 DEF AskOk
<1> QED BY <1>2, <1>3, <1>5, <1>6, AskStep

\* Looking whether the user has a tenant, and checking the permission.
LEMMA LookAsk ==
    ASSUME T!TenancyAssumption, TenantInv, NEW q \in Request,
           T!Info(q) \/ T!Find(q) \/ T!CheckPermission(q)
    PROVE  TenantInv'
<1>1. tReq[q].pc \in {"info", "find", "permit"}
  BY DEF T!Info, T!Find, T!CheckPermission
<1>2. tReq[q] # T!Idle
  BY <1>1, AskFacts
<1>3. UNCHANGED <<tConfig, tenantOf, staff, owner, rows, given, stray, tRound, tCrossed,
                  tBroken, tFails>>
  BY DEF T!Info, T!Find, T!CheckPermission, T!records
<1>4. \/ T!Answer(q)
      \/ /\ tReq[q].pc \in {"info", "find"} /\ tenantOf[tReq[q].user] = T!None
         /\ T!Goto(q, "find") \/ T!Goto(q, "create")
      \/ tReq[q].pc = "permit" /\ T!Goto(q, "count")
  BY DEF T!Info, T!Find, T!CheckPermission
<1> QED BY <1>1, <1>2, <1>3, <1>4, QuietAsk

\* Checking the limit: whoever passes saw fewer records than the limit.
LEMMA LimitAsk ==
    ASSUME T!TenancyAssumption, TenantInv, NEW q \in Request, T!CheckResourceLimit(q)
    PROVE  TenantInv'
<1>1. tReq[q].pc = "count" /\ tReq[q] # T!Idle
  BY AskFacts DEF T!CheckResourceLimit
<1>2. UNCHANGED <<tConfig, tenantOf, staff, owner, rows, given, stray, tRound, tCrossed,
                  tBroken, tFails>>
  BY DEF T!CheckResourceLimit, T!records
<1>3. CASE T!Answer(q)
  BY <1>1, <1>2, <1>3, QuietAsk
<1>4. CASE T!Total(tReq[q].model) < T!Limit(tReq[q].model) /\ T!Goto(q, "insert")
  <2>1. PICK n : n = [tReq[q] EXCEPT !.pc = "insert"]
    OBVIOUS
  <2>2. tReq' = [tReq EXCEPT ![q] = n]
    BY <1>4, <2>1 DEF T!Goto
  <2>3. tReq[q] \in Asks /\ tReq \in [Request -> Asks] /\ AskOk(tReq[q])
    BY AskFacts
  <2>4. /\ n \in Asks /\ n.pc = "insert" /\ n.user = tReq[q].user
        /\ n.model = tReq[q].model /\ n.tenant = tReq[q].tenant
    BY <2>1, <2>3 DEF Asks
  <2> HIDE <2>1
  <2>5. T!TypeOK /\ tConfig \in Tenancies
    BY DEF TenantInv, T!TypeOK
  <2>6. ASSUME NEW m \in T!Model, NEW t \in T!Tenant PROVE Bounded(m, t)'
    <3>1. T!Limit(m)' = T!Limit(m) /\ rows[m][t]' = rows[m][t]
      BY <1>2 DEF T!Limit
    <3>2. /\ rows[m][t] \in Nat /\ T!Total(m) \in Nat /\ rows[m][t] <= T!Total(m)
          /\ T!Limit(m) \in Nat /\ Cardinality(Request) \in Nat
      BY <2>5, RowsCount, Finite
    <3>3. CASE m = tReq[q].model
      <4>1. rows[m][t] < T!Limit(m)
        BY <1>4, <3>2, <3>3
      <4>2. Inserting(m, t)' \subseteq Request
        BY DEF Inserting
      <4>3. /\ Cardinality(Inserting(m, t)') \in Nat
            /\ Cardinality(Inserting(m, t)') <= Cardinality(Request)
        BY <4>2, Finite
      <4> QED BY <3>1, <3>2, <4>1, <4>3 DEF Bounded
    <3>4. CASE m # tReq[q].model
      <4>1. Inserting(m, t)' = Inserting(m, t)
        BY <1>1, <2>2, <2>3, <2>4, <3>4 DEF Inserting
      <4>2. Bounded(m, t)
        BY DEF TenantInv
      <4> QED BY <3>1, <4>1, <4>2 DEF Bounded
    <3> QED BY <3>3, <3>4
  <2>7. T!TypeOK'
    <3>1. tReq' \in [Request -> Asks]
      BY <2>2, <2>3, <2>4
    <3> QED BY <1>2, <3>1 DEF TenantInv, T!TypeOK, Asks
  <2>8. AskOk(n)'
    BY <1>1, <1>2, <2>3, <2>4 DEF AskOk, T!Registration
  <2>9. n.pc \notin T!Registration /\ tReq[q].pc # "link"
    BY <1>1, <2>4 DEF T!Registration
  <2> QED BY <1>2, <2>2, <2>4, <2>6, <2>7, <2>8, <2>9, AskStep
<1> QED BY <1>3, <1>4 DEF T!CheckResourceLimit

\* A record is inserted, and its request is over.
LEMMA InsertAsk ==
    ASSUME T!TenancyAssumption, TenantInv, NEW q \in Request, T!Insert(q)
    PROVE  TenantInv'
<1>1. tReq[q].pc = "insert" /\ tReq[q] # T!Idle /\ T!Answer(q)
  BY AskFacts DEF T!Insert
<1>2. UNCHANGED <<tConfig, tenantOf, staff, owner, given, stray, tRound, tCrossed, tBroken,
                  tFails>>
  BY DEF T!Insert
<1>3. /\ tReq[q] \in Asks /\ tReq \in [Request -> Asks] /\ T!Idle \in Asks
      /\ T!Idle.pc = "idle" /\ AskOk(tReq[q])
  BY AskFacts
<1>4. tReq' = [tReq EXCEPT ![q] = T!Idle]
  BY <1>1 DEF T!Answer
<1>5. T!TypeOK /\ rows \in [T!Model -> [T!Tenant -> Nat]] /\ tConfig \in Tenancies
  BY DEF TenantInv, T!TypeOK
<1>6. PICK k \in T!Model, s \in T!Tenant : k = tReq[q].model /\ s = tReq[q].tenant
  BY <1>1, <1>3 DEF Asks, AskOk
<1>7. rows' = rows \/ rows' = [rows EXCEPT ![k][s] = @ + 1]
  BY <1>6 DEF T!Insert
<1>8. /\ rows' \in [T!Model -> [T!Tenant -> Nat]]
      /\ rows'[k][s] \in {rows[k][s], rows[k][s] + 1}
      /\ \A m \in T!Model, t \in T!Tenant : m # k \/ t # s => rows'[m][t] = rows[m][t]
  BY <1>5, <1>7
<1>9. ASSUME NEW m \in T!Model, NEW t \in T!Tenant PROVE Bounded(m, t)'
  <2>1. T!Limit(m)' = T!Limit(m)
    BY <1>2 DEF T!Limit
  <2>2. rows[m][t] \in Nat /\ T!Limit(m) \in Nat /\ Cardinality(Request) \in Nat
    BY <1>5, RowsCount, Finite
  <2>3. Bounded(m, t) /\ Inserting(m, t) \subseteq Request
    BY DEF TenantInv, Inserting
  <2>4. IsFiniteSet(Inserting(m, t)) /\ Cardinality(Inserting(m, t)) \in Nat
    BY <2>3, Finite
  <2>5. CASE m = k /\ t = s
    <3>1. Inserting(m, t)' = Inserting(m, t) \ {q} /\ q \in Inserting(m, t)
      BY <1>1, <1>3, <1>4, <1>6, <2>5 DEF Inserting
    <3>2. Cardinality(Inserting(m, t)') = Cardinality(Inserting(m, t)) - 1
      BY <2>4, <3>1, FS_RemoveElement
    <3> QED BY <1>8, <2>1, <2>2, <2>3, <2>4, <2>5, <3>2 DEF Bounded
  <2>6. CASE m # k \/ t # s
    <3>1. Inserting(m, t)' = Inserting(m, t)
      BY <1>1, <1>3, <1>4, <1>6, <2>6 DEF Inserting
    <3>2. rows'[m][t] = rows[m][t]
      BY <1>8, <2>6
    <3> QED BY <2>1, <2>3, <3>1, <3>2 DEF Bounded
  <2> QED BY <2>5, <2>6
<1>10. T!TypeOK'
  <2>1. tReq' \in [Request -> Asks]
    BY <1>3, <1>4
  <2> QED BY <1>2, <1>8, <2>1 DEF TenantInv, T!TypeOK, Asks
<1>11. AskOk(T!Idle)' /\ T!Idle.pc \notin T!Registration
  BY <1>3 DEF AskOk, T!Registration
<1> QED BY <1>1, <1>2, <1>3, <1>4, <1>9, <1>10, <1>11, AskStep

\* A request begins; another registration of the same user is a crossing.
LEMMA AnyAsk ==
    ASSUME T!TenancyAssumption, TenantInv, NEW q \in Request, NEW u \in User,
           NEW pc \in {"info", "staff", "permit"}, NEW t \in T!Tenant \cup {T!None},
           NEW m \in T!Model, tReq[q] = T!Idle,
           tReq' = [tReq EXCEPT ![q] = [pc |-> pc, user |-> u, tenant |-> t, model |-> m]],
           \/ /\ pc = "info" /\ tenantOf[u] # T!Absent
              /\ tCrossed' = IF T!Registering(u) = {} THEN tCrossed ELSE tCrossed \cup {u}
           \/ /\ pc = "staff" /\ t = tenantOf[u] /\ t \in T!Tenant /\ u \notin staff
              /\ tCrossed' = tCrossed
           \/ pc = "permit" /\ t = tenantOf[u] /\ t \in T!Tenant /\ tCrossed' = tCrossed,
           UNCHANGED <<tConfig, tenantOf, staff, owner, rows, given, stray, tRound, tBroken,
                       tFails>>
    PROVE  TenantInv'
<1>1. PICK n : n = [pc |-> pc, user |-> u, tenant |-> t, model |-> m]
  OBVIOUS
<1>2. /\ n \in Asks /\ n.pc = pc /\ n.user = u /\ n.tenant = t
      /\ tReq' = [tReq EXCEPT ![q] = n]
  BY <1>1 DEF Asks, T!Registration
<1> HIDE <1>1
<1>3. /\ tReq \in [Request -> Asks] /\ tReq[q].pc = "idle" /\ "none" \notin User
      /\ tCrossed \subseteq tCrossed' /\ tCrossed' \subseteq User
  BY AskFacts DEF TenantInv, T!TypeOK
<1>4. T!TypeOK'
  <2>1. tReq' \in [Request -> Asks]
    BY <1>2, <1>3
  <2> QED BY <1>3, <2>1 DEF TenantInv, T!TypeOK, Asks
<1>5. AskOk(n)'
  <2>1. tenantOf[u] \in T!Tenant /\ u \notin staff => owner[tenantOf[u]] = u
    BY DEF TenantInv, T!TenantsHaveUsers
  <2> QED BY <1>2, <2>1 DEF AskOk, T!Registration
<1>6. \A k \in T!Model, s \in T!Tenant : Bounded(k, s)'
  <2>1. n.pc # "insert"
    BY <1>2
  <2> QED BY <1>2, <2>1, BoundsStay
<1>7. \/ n.pc \notin T!Registration
      \/ n.pc = "info" /\ (T!Registering(n.user) = {} \/ n.user \in tCrossed')
  BY <1>2 DEF T!Registration
<1> QED BY <1>2, <1>3, <1>4, <1>5, <1>6, <1>7, AskStep

LEMMA BeginAsk ==
    ASSUME T!TenancyAssumption, TenantInv, NEW q \in Request, NEW u \in User,
           \/ T!Register(q, u) \/ T!CreateStaff(q, u)
           \/ \E m \in T!Model : T!SaveRecord(q, u, m)
    PROVE  TenantInv'
<1>1. CASE T!Register(q, u)
  <2>1. PICK n : n = [T!Idle EXCEPT !.pc = "info", !.user = u]
    OBVIOUS
  <2>2. n = [pc |-> "info", user |-> u, tenant |-> T!None, model |-> "first"]
    BY <2>1 DEF T!Idle
  <2>3. tReq[q] = T!Idle /\ tenantOf[u] # T!Absent /\ T!None \in T!Tenant \cup {T!None}
    BY <1>1 DEF T!Register
  <2>4. tReq' = [tReq EXCEPT ![q] = [pc |-> "info", user |-> u, tenant |-> T!None,
                                     model |-> "first"]]
    BY <1>1, <2>1, <2>2 DEF T!Register
  <2>5. /\ tCrossed' = IF T!Registering(u) = {} THEN tCrossed ELSE tCrossed \cup {u}
        /\ UNCHANGED <<tConfig, tenantOf, staff, owner, rows, given, stray, tRound, tBroken,
                       tFails>>
    BY <1>1 DEF T!Register, T!records
  <2>6. "first" \in T!Model
    BY DEF T!Model
  <2> HIDE <2>1, <2>2
  <2> QED BY <2>3, <2>4, <2>5, <2>6, AnyAsk
<1>2. CASE T!CreateStaff(q, u)
  <2>1. PICK n : n = [T!Idle EXCEPT !.pc = "staff", !.user = u, !.tenant = tenantOf[u]]
    OBVIOUS
  <2>2. n = [pc |-> "staff", user |-> u, tenant |-> tenantOf[u], model |-> "first"]
    BY <2>1 DEF T!Idle
  <2>3. tReq[q] = T!Idle /\ tenantOf[u] \in T!Tenant /\ u \notin staff
    BY <1>2 DEF T!CreateStaff, T!Role
  <2>4. tReq' = [tReq EXCEPT ![q] = [pc |-> "staff", user |-> u, tenant |-> tenantOf[u],
                                     model |-> "first"]]
    BY <1>2, <2>1, <2>2 DEF T!CreateStaff
  <2>5. /\ tCrossed' = tCrossed
        /\ UNCHANGED <<tConfig, tenantOf, staff, owner, rows, given, stray, tRound, tBroken,
                       tFails>>
    BY <1>2 DEF T!CreateStaff, T!records
  <2>6. "first" \in T!Model
    BY DEF T!Model
  <2> HIDE <2>1, <2>2
  <2> QED BY <2>3, <2>4, <2>5, <2>6, AnyAsk
<1>3. ASSUME NEW m \in T!Model, T!SaveRecord(q, u, m) PROVE TenantInv'
  <2>1. PICK n : n = [T!Idle EXCEPT !.pc = "permit", !.user = u, !.tenant = tenantOf[u],
                                    !.model = m]
    OBVIOUS
  <2>2. n = [pc |-> "permit", user |-> u, tenant |-> tenantOf[u], model |-> m]
    BY <2>1 DEF T!Idle
  <2>3. tenantOf[u] \in T!Tenant \cup {T!None} /\ tReq[q] = T!Idle
    BY <1>3 DEF T!SaveRecord
  <2>4. tReq' = [tReq EXCEPT ![q] = [pc |-> "permit", user |-> u, tenant |-> tenantOf[u],
                                     model |-> m]]
    BY <1>3, <2>1, <2>2 DEF T!SaveRecord
  <2>5. /\ tCrossed' = tCrossed /\ tenantOf[u] \in T!Tenant
        /\ UNCHANGED <<tConfig, tenantOf, staff, owner, rows, given, stray, tRound, tBroken,
                       tFails>>
    BY <1>3 DEF T!SaveRecord, T!records
  <2> HIDE <2>1, <2>2
  <2> QED BY <2>3, <2>4, <2>5, AnyAsk
<1> QED BY <1>1, <1>2, <1>3

\* A request breaks off; the tenant it was about to link is remembered.
LEMMA BreakAsk ==
    ASSUME T!TenancyAssumption, TenantInv, NEW q \in Request, T!Break(q)
    PROVE  TenantInv'
<1>1. /\ tReq[q] # T!Idle /\ tFails' = tFails + 1 /\ tFails < MaxFail
      /\ tReq' = [tReq EXCEPT ![q] = T!Idle]
      /\ tBroken' = IF tReq[q].pc = "link" THEN tBroken \cup {tReq[q].tenant} ELSE tBroken
      /\ UNCHANGED <<tConfig, tenantOf, staff, owner, rows, given, stray, tRound, tCrossed>>
  BY DEF T!Break, T!Answer, T!records
<1>2. /\ tReq[q] \in Asks /\ tReq \in [Request -> Asks] /\ T!Idle \in Asks
      /\ T!Idle.pc = "idle" /\ AskOk(tReq[q])
  BY AskFacts
<1>3. tFails' \in 0 .. MaxFail
  BY <1>1 DEF TenantInv, T!TypeOK, T!TenancyAssumption
<1>4. tBroken' \subseteq T!Tenant
  BY <1>1, <1>2 DEF TenantInv, T!TypeOK, AskOk
<1>5. T!TypeOK'
  <2>1. tReq' \in [Request -> Asks]
    BY <1>1, <1>2
  <2> QED BY <1>1, <1>3, <1>4, <2>1 DEF TenantInv, T!TypeOK, Asks
<1>6. AskOk(T!Idle)' /\ T!Idle.pc \notin T!Registration
  BY <1>2 DEF AskOk, T!Registration
<1>7. \A m \in T!Model, t \in T!Tenant : Bounded(m, t)'
  BY <1>1, <1>2, BoundsStay
<1> QED BY <1>1, <1>2, <1>5, <1>6, <1>7, AskStep

\* A tenant is made: the next number is free, and of a user who registers once
\* at a time it is the only one that is not left to no one.
LEMMA CreateAsk ==
    ASSUME T!TenancyAssumption, TenantInv, NEW q \in Request, T!Create(q)
    PROVE  TenantInv'
<1>1. PICK t : t = 1 + T!Cardinality({s \in T!Tenant : owner[s] # T!Nobody})
  OBVIOUS
<1>2. /\ tReq[q].pc = "create" /\ t \in T!Tenant
      /\ owner' = [owner EXCEPT ![t] = tReq[q].user]
      /\ tReq' = [tReq EXCEPT ![q].pc = "link", ![q].tenant = t]
      /\ UNCHANGED <<tConfig, tenantOf, staff, rows, given, stray, tRound, tCrossed, tBroken,
                     tFails>>
  BY <1>1 DEF T!Create, T!records
<1>3. PICK u \in User : u = tReq[q].user
  BY <1>2, AskFacts
<1>4. /\ tReq[q] \in Asks /\ tReq \in [Request -> Asks] /\ "none" \notin User
      /\ u \notin staff /\ tenantOf[u] # T!Absent
  BY <1>2, <1>3, AskFacts DEF AskOk, T!Registration
<1>5. PICK n : n = [tReq[q] EXCEPT !.pc = "link", !.tenant = t]
  OBVIOUS
<1>6. n \in Asks /\ n.pc = "link" /\ n.tenant = t /\ n.user = u
  BY <1>2, <1>3, <1>4, <1>5 DEF Asks, T!Registration
<1>7. tReq' = [tReq EXCEPT ![q] = n]
  BY <1>2, <1>5
<1> HIDE <1>5
<1>8. PICK k \in 0 .. MaxTenants : {s \in T!Tenant : owner[s] # T!Nobody} = 1 .. k
  BY DEF TenantInv, Numbered
<1>9. t = k + 1 /\ MaxTenants \in Nat /\ k \in Nat
  <2>1. MaxTenants \in Nat
    BY Finite
  <2>2. k \in Nat /\ Cardinality(1 .. k) = k
    BY <1>8, <2>1, FS_Interval
  <2>3. T!Cardinality({s \in T!Tenant : owner[s] # T!Nobody}) = k
    BY <1>8, <2>2, Finite
  <2> QED BY <1>1, <2>1, <2>2, <2>3
<1>10. owner[t] = T!Nobody /\ k + 1 \in 0 .. MaxTenants
  <2>1. t \notin 1 .. k
    BY <1>9
  <2>2. t <= MaxTenants
    BY <1>2 DEF T!Tenant
  <2> QED BY <1>2, <1>8, <1>9, <2>1, <2>2
<1>11. owner \in [T!Tenant -> User \cup {T!Nobody}] /\ T!Nobody \notin User
  BY <1>4 DEF TenantInv, T!TypeOK, T!Nobody
<1>12. owner'[t] = u /\ \A s \in T!Tenant : s # t => owner'[s] = owner[s]
  BY <1>2, <1>3, <1>11
<1>13. Numbered'
  <2>1. {s \in T!Tenant : owner'[s] # T!Nobody}
            = {s \in T!Tenant : owner[s] # T!Nobody} \cup {t}
    BY <1>2, <1>11, <1>12
  <2>2. (1 .. k) \cup {t} = 1 .. (k + 1)
    BY <1>9
  <2>3. {s \in T!Tenant : owner'[s] # T!Nobody} = 1 .. (k + 1)
    BY <1>8, <2>1, <2>2
  <2> QED BY <1>10, <2>3 DEF Numbered
<1>14. T!TypeOK'
  <2>1. tReq' \in [Request -> Asks]
    BY <1>4, <1>6, <1>7
  <2>2. owner' \in [T!Tenant -> User \cup {T!Nobody}]
    BY <1>2, <1>3, <1>11
  <2> QED BY <1>2, <2>1, <2>2 DEF TenantInv, T!TypeOK, Asks
<1>15. ASSUME NEW p \in Request PROVE AskOk(tReq[p])'
  <2>1. CASE p = q
    <3>1. tReq'[p] = n
      BY <1>4, <1>7, <2>1
    <3>2. tenantOf' = tenantOf /\ staff' = staff /\ owner'[n.tenant] = n.user
      BY <1>2, <1>6, <1>12
    <3>3. AskOk(n)'
      BY <1>2, <1>4, <1>6, <3>2 DEF AskOk
    <3> QED BY <3>1, <3>3
  <2>2. CASE p # q
    <3>1. tReq'[p] = tReq[p] /\ AskOk(tReq[p])
      BY <1>4, <1>7, <2>2 DEF TenantInv
    <3>2. \A s \in T!Tenant, v \in User : owner[s] = v => owner'[s] = v
      BY <1>10, <1>11, <1>12
    <3>3. tenantOf' = tenantOf /\ staff' = staff /\ tCrossed' = tCrossed
      BY <1>2
    <3>4. AskOk(tReq[p]) => AskOk(tReq'[p])
      BY <3>1
    <3> QED BY <3>1, <3>2, <3>3 DEF AskOk
  <2> QED BY <2>1, <2>2
<1>16. \A s \in T!Tenant : OwnerOk(s)'
  BY <1>2, <1>4, <1>12 DEF TenantInv, OwnerOk
<1>17. q \in T!Registering(u) /\ \A v \in User : T!Registering(v)' = T!Registering(v)
  BY <1>2, <1>3, <1>4, <1>6, <1>7 DEF T!Registering, T!Registration
<1>18. \A p \in Request : p # q => tReq'[p] = tReq[p]
  BY <1>4, <1>7
<1>19. ASSUME NEW v \in User PROVE UserOk(v)'
  <2>1. \A p \in T!Registering(v) : p \in Request
    BY DEF T!Registering
  <2>2. q \in T!Registering(v) => v = u
    BY <1>3 DEF T!Registering
  <2>3. UserOk(v)
    BY DEF TenantInv
  <2> QED BY <1>2, <1>17, <1>18, <2>1, <2>2, <2>3 DEF UserOk
<1>20. T!TenantsHaveUsers'
  <2>1. ASSUME NEW s \in T!Tenant \ tBroken, owner'[s] # T!Nobody
        PROVE  (\/ tenantOf[owner[s]] = s
                \/ \E p \in T!Registering(owner[s]) : tReq[p].pc = "link" /\ tReq[p].tenant = s
                \/ /\ owner[s] \in tCrossed
                   /\ \E r \in T!Tenant \ {s} : owner[r] = owner[s] /\ tenantOf[owner[s]] = r)'
    <3>1. CASE s = t
      <4>1. tReq'[q] = n /\ owner'[s] = u /\ q \in T!Registering(u)'
        BY <1>4, <1>7, <1>12, <1>17, <3>1
      <4>2. T!Registering(owner[s])' = T!Registering(u)'
        BY <4>1 DEF T!Registering
      <4> QED BY <1>6, <3>1, <4>1, <4>2
    <3>2. CASE s # t
      <4>1. PICK v \in User : owner[s] = v /\ owner'[s] = v
        BY <1>11, <1>12, <2>1, <3>2
      <4>2. \/ tenantOf[v] = s
            \/ \E p \in T!Registering(v) : tReq[p].pc = "link" /\ tReq[p].tenant = s
            \/ v \in tCrossed /\ \E r \in T!Tenant \ {s} : owner[r] = v /\ tenantOf[v] = r
        BY <2>1, <4>1 DEF TenantInv, T!TenantsHaveUsers, T!Nobody
      <4>3. \A r \in T!Tenant : owner[r] = v => owner'[r] = v
        BY <1>10, <1>11, <1>12
      <4>4. \A p \in T!Registering(v) : tReq[p].pc = "link" =>
                p \in T!Registering(v)' /\ tReq'[p] = tReq[p]
        BY <1>2, <1>17, <1>18 DEF T!Registering
      <4>5. T!Registering(owner[s])' = T!Registering(v)'
        BY <4>1 DEF T!Registering
      <4>6. tenantOf' = tenantOf /\ tCrossed' = tCrossed
        BY <1>2
      <4>7. CASE tenantOf[v] = s
        BY <4>1, <4>6, <4>7
      <4>8. CASE \E p \in T!Registering(v) : tReq[p].pc = "link" /\ tReq[p].tenant = s
        BY <4>4, <4>5, <4>8
      <4>9. CASE v \in tCrossed /\ \E r \in T!Tenant \ {s} : owner[r] = v /\ tenantOf[v] = r
        BY <4>1, <4>3, <4>6, <4>9
      <4> QED BY <4>2, <4>7, <4>8, <4>9
    <3> QED BY <3>1, <3>2
  <2>2. ASSUME NEW v \in User, tenantOf[v] \in T!Tenant
        PROVE  IF v \in staff
               THEN /\ owner'[tenantOf[v]] \in User \ staff
                    /\ tenantOf[owner'[tenantOf[v]]] = tenantOf[v]
                       \/ owner'[tenantOf[v]] \in tCrossed
               ELSE owner'[tenantOf[v]] = v
    <3>1. IF v \in staff
          THEN /\ owner[tenantOf[v]] \in User \ staff
               /\ tenantOf[owner[tenantOf[v]]] = tenantOf[v]
                  \/ owner[tenantOf[v]] \in tCrossed
          ELSE owner[tenantOf[v]] = v
      BY <2>2 DEF TenantInv, T!TenantsHaveUsers
    <3>2. owner'[tenantOf[v]] = owner[tenantOf[v]]
      BY <1>10, <1>11, <1>12, <2>2, <3>1
    <3> QED BY <3>1, <3>2
  <2>3. tenantOf' = tenantOf /\ tCrossed' = tCrossed /\ tBroken' = tBroken /\ staff' = staff
    BY <1>2
  <2> QED BY <2>1, <2>2, <2>3 DEF T!TenantsHaveUsers
<1>21. \A m \in T!Model, s \in T!Tenant : Bounded(m, s)'
  <2>1. n.pc # "insert"
    BY <1>6
  <2> QED BY <1>2, <1>7, <2>1, BoundsStay
<1> QED BY <1>13, <1>14, <1>15, <1>16, <1>19, <1>20, <1>21 DEF TenantInv

\* It is linked to its user, who has none if he registers once at a time, so that
\* his staff, if he has any, have the one he linked before.
LEMMA LinkAsk ==
    ASSUME T!TenancyAssumption, TenantInv, NEW q \in Request, T!Link(q)
    PROVE  TenantInv'
<1>1. /\ tReq[q].pc = "link" /\ tReq' = [tReq EXCEPT ![q] = T!Idle]
      /\ tenantOf' = [tenantOf EXCEPT ![tReq[q].user] = tReq[q].tenant]
      /\ UNCHANGED <<tConfig, staff, owner, rows, given, stray, tRound, tCrossed, tBroken,
                     tFails>>
  BY DEF T!Link, T!Answer, T!records
<1>2. /\ tReq[q] \in Asks /\ tReq \in [Request -> Asks] /\ AskOk(tReq[q])
      /\ T!Idle \in Asks /\ T!Idle.user = "none" /\ T!Idle.pc = "idle" /\ "none" \notin User
      /\ tReq[q] # T!Idle
  BY <1>1, AskFacts
<1>3. PICK u \in User, t \in T!Tenant :
         u = tReq[q].user /\ t = tReq[q].tenant /\ owner[t] = u /\ u \notin staff
  BY <1>1, <1>2 DEF AskOk
<1>4. tenantOf \in [User -> T!Tenant \cup {T!None, T!Absent}] /\ tConfig \in Tenancies
  BY DEF TenantInv, T!TypeOK
<1>5. /\ tenantOf'[u] = t /\ \A v \in User : v # u => tenantOf'[v] = tenantOf[v]
      /\ tenantOf' \in [User -> T!Tenant \cup {T!None, T!Absent}]
  BY <1>1, <1>3, <1>4
<1>6. T!None \notin T!Tenant /\ T!Absent \notin T!Tenant /\ T!None # T!Absent
  BY DEF T!Tenant, T!None, T!Absent
<1>7. q \in T!Registering(u)
  BY <1>1, <1>3 DEF T!Registering, T!Registration
<1>8. u \notin tCrossed => tenantOf[u] = T!None /\ T!Registering(u) = {q}
  <2>1. UserOk(u)
    BY DEF TenantInv
  <2> QED BY <1>1, <1>7, <2>1 DEF UserOk
<1>9. \A p \in Request : p # q => tReq'[p] = tReq[p]
  BY <1>1, <1>2
<1>10. \A v \in User : T!Registering(v)' = T!Registering(v) \ {q}
  BY <1>1, <1>2, <1>9 DEF T!Registering, T!Registration
<1>11. T!TypeOK'
  <2>1. tReq' \in [Request -> Asks]
    BY <1>1, <1>2
  <2> QED BY <1>1, <1>5, <2>1 DEF TenantInv, T!TypeOK, Asks
<1>12. Numbered'
  BY <1>1 DEF TenantInv, Numbered
<1>13. ASSUME NEW p \in Request PROVE AskOk(tReq[p])'
  <2>1. CASE p = q
    <3>1. tReq'[p] = T!Idle
      BY <1>1, <1>2, <2>1
    <3> QED BY <3>1 DEF AskOk
  <2>2. CASE p # q
    <3>1. tReq'[p] = tReq[p] /\ AskOk(tReq[p])
      BY <1>9, <2>2 DEF TenantInv
    <3>2. staff' = staff /\ owner' = owner /\ tCrossed' = tCrossed
      BY <1>1
    <3>3. CASE tReq[p].user = u
      <4>1. tReq[p].pc = "staff" => u \in tCrossed
        <5>1. tReq[p].pc = "staff" => tenantOf[u] \in T!Tenant \/ u \in tCrossed
          BY <1>2, <3>1, <3>3, AskFacts DEF AskOk
        <5> QED BY <1>6, <1>8, <5>1
      <4> QED BY <1>5, <1>6, <3>1, <3>2, <3>3, <4>1 DEF AskOk
    <3>4. CASE tReq[p].user # u
      <4>1. tReq[p] # T!Idle => tenantOf'[tReq[p].user] = tenantOf[tReq[p].user]
        BY <1>5, <3>1, <3>4 DEF AskOk
      <4> QED BY <3>1, <3>2, <4>1 DEF AskOk
    <3> QED BY <3>3, <3>4
  <2> QED BY <2>1, <2>2
<1>14. ASSUME NEW s \in T!Tenant PROVE OwnerOk(s)'
  <2>1. OwnerOk(s) /\ owner \in [T!Tenant -> User \cup {T!Nobody}]
    BY DEF TenantInv, T!TypeOK
  <2> QED BY <1>1, <1>5, <1>6, <2>1 DEF OwnerOk
<1>15. ASSUME NEW v \in User PROVE UserOk(v)'
  <2>1. UserOk(v)
    BY DEF TenantInv
  <2>2. v \in staff' => tenantOf'[v] \in T!Tenant
    BY <1>1, <1>5, <2>1 DEF UserOk
  <2>3. \A p \in T!Registering(v)' : p \in T!Registering(v) /\ tReq'[p] = tReq[p]
    BY <1>9, <1>10 DEF T!Registering
  <2>4. CASE v = u
    BY <1>1, <1>8, <1>10, <2>2, <2>4 DEF UserOk
  <2>5. CASE v # u
    BY <1>1, <1>5, <2>1, <2>2, <2>3, <2>5 DEF UserOk
  <2> QED BY <2>4, <2>5
<1>16. T!TenantsHaveUsers'
  <2>1. ASSUME NEW s \in T!Tenant \ tBroken, owner[s] # T!Nobody
        PROVE  (\/ tenantOf[owner[s]] = s
                \/ \E p \in T!Registering(owner[s]) : tReq[p].pc = "link" /\ tReq[p].tenant = s
                \/ /\ owner[s] \in tCrossed
                   /\ \E r \in T!Tenant \ {s} : owner[r] = owner[s] /\ tenantOf[owner[s]] = r)'
    <3>1. PICK v \in User : owner[s] = v /\ owner'[s] = v
      BY <1>1, <2>1 DEF TenantInv, T!TypeOK
    <3>2. \/ tenantOf[v] = s
          \/ \E p \in T!Registering(v) : tReq[p].pc = "link" /\ tReq[p].tenant = s
          \/ v \in tCrossed /\ \E r \in T!Tenant \ {s} : owner[r] = v /\ tenantOf[v] = r
      BY <2>1, <3>1 DEF TenantInv, T!TenantsHaveUsers
    <3>3. T!Registering(owner[s])' = T!Registering(v)'
      BY <3>1 DEF T!Registering
    <3>4. owner' = owner /\ tCrossed' = tCrossed
      BY <1>1
    <3>5. CASE v = u /\ s = t
      BY <1>5, <3>1, <3>5
    <3>6. CASE v = u /\ s # t /\ u \in tCrossed
      BY <1>3, <1>5, <3>1, <3>4, <3>6
    <3>7. CASE v = u /\ s # t /\ u \notin tCrossed
      BY <1>3, <1>6, <1>8, <3>2, <3>7
    <3>8. CASE v # u
      <4>1. tenantOf'[v] = tenantOf[v] /\ q \notin T!Registering(v)
        BY <1>3, <1>5, <3>8 DEF T!Registering
      <4>2. \A p \in T!Registering(v) : p \in T!Registering(v)' /\ tReq'[p] = tReq[p]
        BY <1>9, <1>10, <4>1 DEF T!Registering
      <4> QED BY <3>1, <3>2, <3>3, <3>4, <4>1, <4>2
    <3> QED BY <3>5, <3>6, <3>7, <3>8
  <2>2. ASSUME NEW v \in User, tenantOf'[v] \in T!Tenant
        PROVE  IF v \in staff
               THEN /\ owner[tenantOf'[v]] \in User \ staff
                    /\ tenantOf'[owner[tenantOf'[v]]] = tenantOf'[v]
                       \/ owner[tenantOf'[v]] \in tCrossed
               ELSE owner[tenantOf'[v]] = v
    <3>1. CASE v = u
      BY <1>3, <1>5, <3>1
    <3>2. CASE v # u
      <4>1. tenantOf'[v] = tenantOf[v]
        BY <1>5, <3>2
      <4>2. IF v \in staff
            THEN /\ owner[tenantOf[v]] \in User \ staff
                 /\ tenantOf[owner[tenantOf[v]]] = tenantOf[v]
                    \/ owner[tenantOf[v]] \in tCrossed
            ELSE owner[tenantOf[v]] = v
        BY <2>2, <4>1 DEF TenantInv, T!TenantsHaveUsers
      <4>3. owner[tenantOf[v]] = u /\ v \in staff => u \in tCrossed
        BY <1>6, <1>8, <2>2, <4>1, <4>2
      <4> QED BY <1>5, <4>1, <4>2, <4>3
    <3> QED BY <3>1, <3>2
  <2>3. owner' = owner /\ tCrossed' = tCrossed /\ tBroken' = tBroken /\ staff' = staff
    BY <1>1
  <2> QED BY <2>1, <2>2, <2>3 DEF T!TenantsHaveUsers
<1>17. \A m \in T!Model, s \in T!Tenant : Bounded(m, s)'
  BY <1>1, <1>2, BoundsStay
<1> QED BY <1>11, <1>12, <1>13, <1>14, <1>15, <1>16, <1>17 DEF TenantInv

\* A user is made, who had registered nothing, with the tenant of who makes him.
LEMMA EmployAsk ==
    ASSUME T!TenancyAssumption, TenantInv, NEW q \in Request, T!Employ(q)
    PROVE  TenantInv'
<1>1. /\ tReq[q].pc = "staff" /\ tReq' = [tReq EXCEPT ![q] = T!Idle]
      /\ UNCHANGED <<tConfig, owner, rows, given, stray, tRound, tCrossed, tBroken, tFails>>
  BY DEF T!Employ, T!Answer, T!records
<1>2. /\ tReq[q] \in Asks /\ tReq \in [Request -> Asks] /\ AskOk(tReq[q])
      /\ T!Idle \in Asks /\ T!Idle.pc = "idle" /\ "none" \notin User /\ tReq[q] # T!Idle
  BY <1>1, AskFacts
<1>3. PICK w \in User : \/ /\ tenantOf[w] = T!Absent /\ staff' = staff \cup {w}
                           /\ tenantOf' = [tenantOf EXCEPT ![w] = tReq[q].tenant]
                        \/ UNCHANGED <<tenantOf, staff>>
  BY DEF T!Employ
<1>4. CASE UNCHANGED <<tenantOf, staff>>
  BY <1>1, <1>2, <1>4, QuietAsk DEF T!Answer
<1>5. CASE /\ tenantOf[w] = T!Absent /\ staff' = staff \cup {w}
           /\ tenantOf' = [tenantOf EXCEPT ![w] = tReq[q].tenant]
  <2>1. PICK t \in T!Tenant, a \in User \ staff :
           /\ t = tReq[q].tenant /\ a = tReq[q].user /\ owner[t] = a
           /\ tenantOf[a] = t \/ a \in tCrossed
    BY <1>1, <1>2 DEF AskOk
  <2>2. tenantOf \in [User -> T!Tenant \cup {T!None, T!Absent}] /\ tConfig \in Tenancies
    BY DEF TenantInv, T!TypeOK
  <2>3. /\ tenantOf'[w] = t /\ \A v \in User : v # w => tenantOf'[v] = tenantOf[v]
        /\ tenantOf' \in [User -> T!Tenant \cup {T!None, T!Absent}]
    BY <1>5, <2>1, <2>2
  <2>4. T!None \notin T!Tenant /\ T!Absent \notin T!Tenant /\ T!None # T!Absent
    BY DEF T!Tenant, T!None, T!Absent
  <2>5. w \notin staff
    BY <1>5, <2>4 DEF TenantInv, UserOk
  <2>6. \A s \in T!Tenant : owner[s] # w
    <3>1. w # T!Nobody
      BY <1>2 DEF T!Nobody
    <3> QED BY <1>5, <3>1 DEF TenantInv, OwnerOk
  <2>7. \A p \in Request : p # q => tReq'[p] = tReq[p]
    BY <1>1, <1>2
  <2>8. \A v \in User : /\ T!Registering(v)' = T!Registering(v) /\ q \notin T!Registering(v)
                        /\ v = w => T!Registering(v) = {}
    <3>1. \A v \in User : T!Registering(v)' = T!Registering(v) /\ q \notin T!Registering(v)
      BY <1>1, <1>2, <2>7 DEF T!Registering, T!Registration
    <3>2. \A p \in Request : AskOk(tReq[p]) /\ (tReq[p].pc \in T!Registration => tReq[p] # T!Idle)
      BY <1>2 DEF TenantInv, T!Registration
    <3>3. \A p \in Request : ~(tReq[p].user = w /\ tReq[p].pc \in T!Registration)
      BY <1>5, <3>2 DEF AskOk
    <3> QED BY <3>1, <3>3 DEF T!Registering
  <2>9. T!TypeOK'
    <3>1. tReq' \in [Request -> Asks]
      BY <1>1, <1>2
    <3> QED BY <1>1, <1>5, <2>3, <3>1 DEF TenantInv, T!TypeOK, Asks
  <2>10. Numbered'
    BY <1>1 DEF TenantInv, Numbered
  <2>11. ASSUME NEW p \in Request PROVE AskOk(tReq[p])'
    <3>1. CASE p = q
      <4>1. tReq'[p] = T!Idle
        BY <1>1, <1>2, <3>1
      <4> QED BY <4>1 DEF AskOk
    <3>2. CASE p # q
      <4>1. tReq'[p] = tReq[p] /\ AskOk(tReq[p])
        BY <2>7, <3>2 DEF TenantInv
      <4>2. owner' = owner /\ tCrossed' = tCrossed
        BY <1>1
      <4>3. CASE tReq[p].user = w
        <5>1. tReq[p].pc \notin T!Registration
          BY <2>8, <4>3 DEF T!Registering
        <5>2. tReq[p].pc # "staff"
          BY <1>2, <2>6, <4>1, <4>3 DEF AskOk
        <5> QED BY <4>1, <4>2, <4>3, <5>1, <5>2 DEF AskOk, T!Registration
      <4>4. CASE tReq[p].user # w
        <5>1. tReq[p] # T!Idle => /\ tenantOf'[tReq[p].user] = tenantOf[tReq[p].user]
                                  /\ tReq[p].user \in staff' => tReq[p].user \in staff
          BY <1>5, <2>3, <4>1, <4>4 DEF AskOk
        <5> QED BY <4>1, <4>2, <5>1 DEF AskOk
      <4> QED BY <4>3, <4>4
    <3> QED BY <3>1, <3>2
  <2>12. ASSUME NEW s \in T!Tenant PROVE OwnerOk(s)'
    <3>1. OwnerOk(s) /\ owner \in [T!Tenant -> User \cup {T!Nobody}]
      BY DEF TenantInv, T!TypeOK
    <3> QED BY <1>1, <1>5, <2>3, <2>6, <3>1 DEF OwnerOk
  <2>13. ASSUME NEW v \in User PROVE UserOk(v)'
    <3>1. UserOk(v)
      BY DEF TenantInv
    <3>2. v \in staff' => tenantOf'[v] \in T!Tenant
      BY <1>5, <2>3, <3>1 DEF UserOk
    <3>3. \A p \in T!Registering(v) : tReq'[p] = tReq[p]
      BY <2>7, <2>8 DEF T!Registering
    <3> QED BY <1>1, <2>3, <2>8, <3>1, <3>2, <3>3 DEF UserOk
  <2>14. T!TenantsHaveUsers'
    <3>1. ASSUME NEW s \in T!Tenant \ tBroken, owner[s] # T!Nobody
          PROVE  (\/ tenantOf[owner[s]] = s
                  \/ \E p \in T!Registering(owner[s]) : tReq[p].pc = "link" /\ tReq[p].tenant = s
                  \/ /\ owner[s] \in tCrossed
                     /\ \E r \in T!Tenant \ {s} : owner[r] = owner[s] /\ tenantOf[owner[s]] = r)'
      <4>1. PICK v \in User : owner[s] = v /\ owner'[s] = v /\ tenantOf'[v] = tenantOf[v]
        BY <1>1, <2>3, <2>6, <3>1 DEF TenantInv, T!TypeOK
      <4>2. \/ tenantOf[v] = s
            \/ \E p \in T!Registering(v) : tReq[p].pc = "link" /\ tReq[p].tenant = s
            \/ v \in tCrossed /\ \E r \in T!Tenant \ {s} : owner[r] = v /\ tenantOf[v] = r
        BY <3>1, <4>1 DEF TenantInv, T!TenantsHaveUsers
      <4>3. T!Registering(owner[s])' = T!Registering(v)
        BY <2>8, <4>1 DEF T!Registering
      <4>4. owner' = owner /\ tCrossed' = tCrossed
        BY <1>1
      <4>5. \A p \in T!Registering(v) : tReq'[p] = tReq[p]
        BY <2>7, <2>8 DEF T!Registering
      <4> QED BY <4>1, <4>2, <4>3, <4>4, <4>5
    <3>2. ASSUME NEW v \in User, tenantOf'[v] \in T!Tenant
          PROVE  IF v \in staff'
                 THEN /\ owner[tenantOf'[v]] \in User \ staff'
                      /\ tenantOf'[owner[tenantOf'[v]]] = tenantOf'[v]
                         \/ owner[tenantOf'[v]] \in tCrossed
                 ELSE owner[tenantOf'[v]] = v
      <4>1. CASE v = w
        <5>1. a # w /\ tenantOf'[a] = tenantOf[a] /\ a \notin staff'
          BY <1>5, <2>1, <2>3, <2>6
        <5> QED BY <1>5, <2>1, <2>3, <4>1, <5>1
      <4>2. CASE v # w
        <5>1. tenantOf'[v] = tenantOf[v] /\ (v \in staff' <=> v \in staff)
          BY <1>5, <2>3, <4>2
        <5>2. IF v \in staff
              THEN /\ owner[tenantOf[v]] \in User \ staff
                   /\ tenantOf[owner[tenantOf[v]]] = tenantOf[v]
                      \/ owner[tenantOf[v]] \in tCrossed
              ELSE owner[tenantOf[v]] = v
          BY <3>2, <5>1 DEF TenantInv, T!TenantsHaveUsers
        <5>3. owner[tenantOf[v]] # w
          BY <2>6, <3>2, <5>1
        <5> QED BY <1>5, <2>3, <5>1, <5>2, <5>3
      <4> QED BY <4>1, <4>2
    <3>3. owner' = owner /\ tCrossed' = tCrossed /\ tBroken' = tBroken
      BY <1>1
    <3> QED BY <3>1, <3>2, <3>3 DEF T!TenantsHaveUsers
  <2>15. \A m \in T!Model, s \in T!Tenant : Bounded(m, s)'
    BY <1>1, <1>2, BoundsStay
  <2> QED BY <2>9, <2>10, <2>11, <2>12, <2>13, <2>14, <2>15 DEF TenantInv
<1> QED BY <1>3, <1>4, <1>5

\* What is saved without a check is not more than the bound.
LEMMA UncheckedBounds ==
    ASSUME T!TenancyAssumption, T!TypeOK, T!Unchecked < MaxStray
    PROVE  /\ \A m \in T!Model, t \in T!Tenant \cup {T!None} : given[m][t] + 1 \in 0 .. MaxStray
           /\ \A t \in T!Tenant : stray[t] + 1 \in 0 .. MaxStray
<1>1. IsFiniteSet(T!Tenant \cup {T!None}) /\ IsFiniteSet(T!Tenant) /\ MaxStray \in Nat
  BY Finite DEF T!TenancyAssumption
<1>2. /\ "first" \in T!Model /\ "other" \in T!Model
      /\ \A m \in T!Model : m = "first" \/ m = "other"
  BY DEF T!Model
<1>3. \A m \in T!Model : given[m] \in [T!Tenant \cup {T!None} -> Nat]
  <2>1. \A m \in T!Model : given[m] \in [T!Tenant \cup {T!None} -> 0 .. MaxStray]
    BY DEF T!TypeOK
  <2> QED BY <1>1, <2>1
<1>4. stray \in [T!Tenant -> Nat]
  <2>1. stray \in [T!Tenant -> 0 .. MaxStray]
    BY DEF T!TypeOK
  <2> QED BY <1>1, <2>1
<1>5. \A m \in T!Model : /\ T!SumFunction(given[m]) \in Nat
                         /\ \A t \in T!Tenant \cup {T!None} :
                               given[m][t] <= T!SumFunction(given[m])
  BY <1>1, <1>3, Summand
<1>6. T!SumFunction(stray) \in Nat /\ \A t \in T!Tenant : stray[t] <= T!SumFunction(stray)
  BY <1>1, <1>4, Summand
<1>7. \A m \in T!Model : T!SumFunction(given[m]) < MaxStray
  BY <1>1, <1>2, <1>5, <1>6 DEF T!Unchecked
<1>8. T!SumFunction(stray) < MaxStray
  BY <1>1, <1>2, <1>5, <1>6 DEF T!Unchecked
<1>9. ASSUME NEW m \in T!Model, NEW t \in T!Tenant \cup {T!None}
      PROVE  given[m][t] + 1 \in 0 .. MaxStray
  <2>1. given[m][t] \in Nat /\ given[m][t] <= T!SumFunction(given[m])
    BY <1>3, <1>5
  <2>2. T!SumFunction(given[m]) \in Nat /\ T!SumFunction(given[m]) < MaxStray
    BY <1>5, <1>7
  <2> QED BY <1>1, <2>1, <2>2
<1>10. ASSUME NEW t \in T!Tenant PROVE stray[t] + 1 \in 0 .. MaxStray
  BY <1>1, <1>4, <1>6, <1>8
<1> QED BY <1>9, <1>10

\* Records without a check and the crons touch none of the rest.
LEMMA Population ==
    ASSUME T!TenancyAssumption, TenantInv,
           UNCHANGED <<tConfig, tenantOf, staff, owner, rows, tReq, tCrossed, tBroken, tFails>>,
           given' \in [T!Model -> [T!Tenant \cup {T!None} -> 0 .. MaxStray]],
           stray' \in [T!Tenant -> 0 .. MaxStray], tRound' \in {"idle", "due"}
    PROVE  TenantInv'
<1>1. \A m \in T!Model, t \in T!Tenant :
         Inserting(m, t)' = Inserting(m, t) /\ T!Limit(m)' = T!Limit(m)
  BY DEF Inserting, T!Limit
<1>2. \A m \in T!Model, t \in T!Tenant : Bounded(m, t)'
  BY <1>1 DEF TenantInv, Bounded
<1>3. T!TypeOK'
  BY DEF TenantInv, T!TypeOK
<1>4. Numbered' /\ \A t \in T!Tenant : OwnerOk(t)'
  BY DEF TenantInv, Numbered, OwnerOk
<1>5. \A q \in Request : AskOk(tReq[q])'
  BY DEF TenantInv, AskOk
<1>6. \A u : T!Registering(u)' = T!Registering(u)
  BY DEF T!Registering
<1>7. \A u \in User : UserOk(u)'
  BY <1>6 DEF TenantInv, UserOk
<1>8. T!TenantsHaveUsers'
  BY <1>6 DEF TenantInv, T!TenantsHaveUsers
<1> QED BY <1>2, <1>3, <1>4, <1>5, <1>7, <1>8 DEF TenantInv

\* Every step of the composite keeps it.
LEMMA TenantInvariance == Spec => []TenantInv
<1>1. T!TenancyAssumption
  BY AgreementAssumption
<1>2. Init => TenantInv
  BY <1>1, InitTenantInv DEF Init
<1>3. TenantInv /\ [Next]_vars => TenantInv'
  <2> SUFFICES ASSUME TenantInv, [Next]_vars PROVE TenantInv'
    OBVIOUS
  <2>1. /\ given \in [T!Model -> [T!Tenant \cup {T!None} -> 0 .. MaxStray]]
        /\ stray \in [T!Tenant -> 0 .. MaxStray] /\ tRound \in {"idle", "due"} /\ T!TypeOK
    BY DEF TenantInv, T!TypeOK
  <2>2. ASSUME NEW q \in Request, T!Handle(q) PROVE TenantInv'
    BY <1>1, <2>2, LookAsk, CreateAsk, LinkAsk, EmployAsk, LimitAsk, InsertAsk DEF T!Handle
  <2>3. ASSUME NEW q \in Request, T!Break(q) PROVE TenantInv'
    BY <1>1, <2>3, BreakAsk
  <2>4. ASSUME NEW q \in Request, NEW u \in User,
               \/ T!Register(q, u) \/ T!CreateStaff(q, u)
               \/ \E m \in T!Model : T!SaveRecord(q, u, m)
        PROVE  TenantInv'
    BY <1>1, <2>4, BeginAsk
  <2>5. CASE T!AdminSave
    <3>1. /\ T!Unchecked < MaxStray
          /\ UNCHANGED <<tConfig, tenantOf, staff, owner, rows, tRound, tReq, tCrossed, tBroken,
                         tFails>>
      BY <2>5 DEF T!AdminSave
    <3>2. /\ given' \in [T!Model -> [T!Tenant \cup {T!None} -> 0 .. MaxStray]]
          /\ stray' \in [T!Tenant -> 0 .. MaxStray]
      <4>1. ASSUME NEW m \in T!Model, NEW t \in T!Tenant \cup {T!None},
                   given' = [given EXCEPT ![m][t] = @ + 1], UNCHANGED stray
            PROVE  /\ given' \in [T!Model -> [T!Tenant \cup {T!None} -> 0 .. MaxStray]]
                   /\ stray' \in [T!Tenant -> 0 .. MaxStray]
        <5>1. given[m][t] + 1 \in 0 .. MaxStray
          BY <1>1, <2>1, <3>1, UncheckedBounds
        <5> QED BY <2>1, <4>1, <5>1
      <4>2. ASSUME NEW t \in T!Tenant, stray' = [stray EXCEPT ![t] = @ + 1], UNCHANGED given
            PROVE  /\ given' \in [T!Model -> [T!Tenant \cup {T!None} -> 0 .. MaxStray]]
                   /\ stray' \in [T!Tenant -> 0 .. MaxStray]
        <5>1. stray[t] + 1 \in 0 .. MaxStray
          BY <1>1, <2>1, <3>1, UncheckedBounds
        <5> QED BY <2>1, <4>2, <5>1
      <4> QED BY <2>5, <4>1, <4>2 DEF T!AdminSave
    <3> QED BY <1>1, <2>1, <3>1, <3>2, Population
  <2>6. CASE T!CronDue \/ T!Populate
    <3>1. /\ tRound' \in {"idle", "due"}
          /\ UNCHANGED <<tConfig, tenantOf, staff, owner, rows, given, stray, tReq, tCrossed,
                         tBroken, tFails>>
      BY <2>6 DEF T!CronDue, T!Populate, T!records
    <3> QED BY <1>1, <2>1, <3>1, Population
  <2>7. CASE UNCHANGED tenants
    BY <1>1, <2>1, <2>7, Population DEF tenants
  <2>8. T!Next \/ UNCHANGED tenants
    BY DEF Next, vars
  <2> QED BY <2>2, <2>3, <2>4, <2>5, <2>6, <2>7, <2>8 DEF T!Next
<1> QED BY <1>2, <1>3, PTL DEF Spec

\* Tenants, records and requests are well formed throughout every behaviour.
LEMMA TenantsAreTyped == Spec => []T!TypeOK
<1>1. TenantInv => T!TypeOK
  BY DEF TenantInv
<1> QED BY <1>1, TenantInvariance, PTL

\* For any number of users, requests and tenants: whose registration did not break
\* off has the tenant, or is about to get it, or has another one that he registered
\* at the same time; and nobody has a tenant but who registered it and the staff of
\* his, who have the same as he unless he registered two at a time.
THEOREM TenantsGetUsers == Spec => []TenantsHaveUsers
<1>1. TenantInv => TenantsHaveUsers
  BY DEF TenantInv, TenantsHaveUsers
<1> QED BY <1>1, TenantInvariance, PTL

\* The users of a tenant exceed a limit by less than the requests there may be at a
\* time: whoever inserts saw fewer than the limit, of all tenants together.
THEOREM LimitIsNearlyKept == Spec => []LimitNearlyKept
<1>1. T!TenancyAssumption
  BY AgreementAssumption
<1>2. ASSUME TenantInv, NEW m \in T!Model, NEW t \in T!Tenant
      PROVE  rows[m][t] < T!Limit(m) + T!Cardinality(Request)
  <2>1. Bounded(m, t) /\ T!TypeOK /\ tConfig \in Tenancies
    BY <1>2 DEF TenantInv, T!TypeOK
  <2>2. rows[m][t] \in Nat /\ T!Limit(m) \in Nat /\ Cardinality(Request) \in Nat
    BY <1>1, <2>1, RowsCount, Finite
  <2>3. Cardinality(Inserting(m, t)) \in Nat
    <3>1. Inserting(m, t) \subseteq Request
      BY DEF Inserting
    <3> QED BY <1>1, <3>1, Finite
  <2>4. T!Cardinality(Request) = Cardinality(Request)
    BY <1>1, Finite
  <2> QED BY <2>1, <2>2, <2>3, <2>4 DEF Bounded
<1>3. TenantInv => LimitNearlyKept
  BY <1>2 DEF LimitNearlyKept, T!LimitNearlyKept
<1> QED BY <1>3, TenantInvariance, PTL

-----------------------------------------------------------------------------
(* The administrators of the followers (WeChat). *)

AdminCalls ==
    [pc : {"idle", "ask", "find", "look", "update", "insert", "reload", "admin", "link"},
     user : OpenId \cup {"none"}, info : BOOLEAN, linked : BOOLEAN, found : BOOLEAN,
     alone : BOOLEAN, batch : BOOLEAN]

AdminTypes ==
    /\ follows \subseteq OpenId /\ synced \subseteq OpenId
    /\ wx \in [OpenId -> [there : BOOLEAN, subscribe : BOOLEAN, linked : BOOLEAN]]
    /\ admin \in [OpenId -> [there : BOOLEAN, active : BOOLEAN]]
    /\ aReq \in [Request -> AdminCalls]

Informed == {"find", "look", "update", "insert", "admin"}

\* A synchronisation is one of a user; past the user's row the row is there, at
\* the link the administrator, and the link it has seen stays.
SyncOk(v) ==
    v # A!Idle =>
        /\ v.user \in OpenId
        /\ v.linked => wx[v.user].linked
        /\ v.pc \in {"reload", "admin", "link"} => wx[v.user].there
        /\ v.pc = "link" => admin[v.user].there

\* One that nothing interfered with knows what WeChat knows, and so does what it
\* has written.
AloneOk(q) ==
    LET u == aReq[q].user
    IN  aReq[q] # A!Idle /\ aReq[q].alone =>
            /\ A!Busy(u) = {q}
            /\ aReq[q].pc \in Informed => (aReq[q].info <=> u \in follows)
            /\ aReq[q].pc \in {"reload", "admin", "link"} => (wx[u].subscribe <=> u \in follows)
            /\ aReq[q].pc = "link" => (admin[u].active <=> u \in follows)

\* An administrator who is linked is there; one who is not has somebody about to
\* link him, or was left alone.
LinkOk(u) ==
    /\ wx[u].linked => wx[u].there /\ admin[u].there
    /\ admin[u].there /\ ~wx[u].linked =>
          u \in aBroken \/ \E q \in A!Busy(u) : aReq[q].pc = "link"

\* What a user was left with by the last synchronisation is right, and those that
\* have begun since, none of which has ended, write the same again.
SyncedOk(u) ==
    u \in synced =>
        /\ wx[u].there /\ wx[u].linked /\ (wx[u].subscribe <=> u \in follows)
        /\ admin[u].there /\ (admin[u].active <=> u \in follows)
        /\ \A q \in A!Busy(u) : aReq[q].pc \in Informed => (aReq[q].info <=> u \in follows)

\* The inductive invariant.
AdminInv ==
    /\ AdminTypes
    /\ \A q \in Request : SyncOk(aReq[q]) /\ AloneOk(q)
    /\ \A u \in OpenId : LinkOk(u) /\ SyncedOk(u)

\* Whether a user is in a set is true or false.
LEMMA Membership == ASSUME NEW S, NEW u PROVE \E f \in BOOLEAN : f = (u \in S)
<1>1. CASE u \in S
  <2>1. TRUE = (u \in S)
    BY <1>1
  <2> QED BY <2>1
<1>2. CASE u \notin S
  <2>1. FALSE = (u \in S)
    BY <1>2
  <2> QED BY <2>1
<1> QED BY <1>1, <1>2

\* It holds in the beginning.
LEMMA InitAdminInv == ASSUME A!WeChatAssumption, A!Init PROVE AdminInv
<1> USE DEF A!Init
<1>1. A!Idle \in AdminCalls /\ ~A!Idle.alone
  BY DEF A!Idle, AdminCalls
<1>2. AdminTypes
  BY <1>1 DEF AdminTypes, A!NoRow, A!NoAdmin
<1>3. \A q \in Request : SyncOk(aReq[q]) /\ AloneOk(q)
  BY DEF SyncOk, AloneOk
<1>4. \A u \in OpenId : LinkOk(u) /\ SyncedOk(u)
  BY DEF LinkOk, SyncedOk, A!NoRow, A!NoAdmin
<1> QED BY <1>2, <1>3, <1>4 DEF AdminInv

\* The synchronisation of the step.
LEMMA CallFacts ==
    ASSUME A!WeChatAssumption, AdminInv, NEW q \in Request, aReq[q] # A!Idle
    PROVE  /\ aReq[q] \in AdminCalls /\ aReq[q].user \in OpenId /\ q \in A!Busy(aReq[q].user)
           /\ SyncOk(aReq[q]) /\ AloneOk(q)
           /\ LinkOk(aReq[q].user) /\ SyncedOk(aReq[q].user)
           /\ A!Idle \in AdminCalls /\ A!Idle.user = "none" /\ ~A!Idle.alone
           /\ "none" \notin OpenId
           /\ AdminTypes
<1>1. A!Idle \in AdminCalls /\ A!Idle.user = "none" /\ ~A!Idle.alone
  BY DEF A!Idle, AdminCalls
<1> QED BY <1>1 DEF AdminInv, AdminTypes, SyncOk, A!Busy, A!WeChatAssumption

\* A step of the synchronisation of one user keeps the invariant if it takes no
\* row away, keeps the types, and what holds of it and of that user.
LEMMA CallStep ==
    ASSUME A!WeChatAssumption, AdminInv, NEW q \in Request, aReq[q] # A!Idle,
           NEW u \in OpenId, u = aReq[q].user, NEW n \in AdminCalls,
           aReq' = [aReq EXCEPT ![q] = n], n = A!Idle \/ n.user = u, follows' = follows,
           AdminTypes',
           \A v \in OpenId \ {u} : /\ wx'[v] = wx[v] /\ admin'[v] = admin[v]
                                   /\ v \in synced' <=> v \in synced,
           aBroken \subseteq aBroken',
           wx[u].there => wx'[u].there, wx[u].linked => wx'[u].linked,
           admin[u].there => admin'[u].there,
           SyncOk(n)', n.alone => AloneOk(q)', LinkOk(u)', SyncedOk(u)'
    PROVE  AdminInv'
<1>1. aReq \in [Request -> AdminCalls] /\ "none" \notin OpenId /\ A!Idle.user = "none"
      /\ ~A!Idle.alone
  BY CallFacts DEF AdminTypes
<1>2. aReq'[q] = n /\ \A p \in Request \ {q} : aReq'[p] = aReq[p]
  BY <1>1
<1>3. ASSUME NEW p \in Request PROVE SyncOk(aReq[p])' /\ AloneOk(p)'
  <2>1. CASE p = q
    <3>1. AloneOk(q)'
      BY <1>1, <1>2 DEF AloneOk
    <3> QED BY <1>2, <2>1, <3>1
  <2>2. CASE p # q
    <3>1. aReq'[p] = aReq[p] /\ SyncOk(aReq[p]) /\ AloneOk(p)
      BY <1>2, <2>2 DEF AdminInv
    <3>2. SUFFICES ASSUME aReq[p] # A!Idle PROVE SyncOk(aReq[p])' /\ AloneOk(p)'
      BY <3>1 DEF SyncOk, AloneOk
    <3>3. PICK v \in OpenId : v = aReq[p].user
      BY <3>1, <3>2 DEF SyncOk
    <3>4. SyncOk(aReq[p])'
      BY <3>1, <3>3 DEF SyncOk
    <3>5. AloneOk(p)'
      <4>1. CASE v = u
        <5>1. p \in A!Busy(u) /\ q \in A!Busy(u)
          BY <3>3, <4>1 DEF A!Busy
        <5>2. ~aReq[p].alone
          BY <2>2, <3>1, <3>2, <3>3, <4>1, <5>1 DEF AloneOk
        <5> QED BY <3>1, <5>2 DEF AloneOk
      <4>2. CASE v # u
        <5>1. A!Busy(v)' = A!Busy(v)
          BY <1>1, <1>2, <3>3, <4>2 DEF A!Busy
        <5> QED BY <3>1, <3>3, <4>2, <5>1 DEF AloneOk
      <4> QED BY <4>1, <4>2
    <3> QED BY <3>4, <3>5
  <2> QED BY <2>1, <2>2
<1>4. ASSUME NEW v \in OpenId PROVE LinkOk(v)' /\ SyncedOk(v)'
  <2>1. CASE v = u
    BY <2>1
  <2>2. CASE v # u
    <3>1. LinkOk(v) /\ SyncedOk(v)
      BY DEF AdminInv
    <3>2. A!Busy(v)' = A!Busy(v) /\ q \notin A!Busy(v)
      BY <1>1, <1>2, <2>2 DEF A!Busy
    <3>3. \A p \in A!Busy(v) : aReq'[p] = aReq[p]
      BY <1>2, <3>2 DEF A!Busy
    <3>4. LinkOk(v)'
      BY <2>2, <3>1, <3>2, <3>3 DEF LinkOk
    <3>5. SyncedOk(v)'
      BY <2>2, <3>1, <3>2, <3>3 DEF SyncedOk
    <3> QED BY <3>4, <3>5
  <2> QED BY <2>1, <2>2
<1> QED BY <1>3, <1>4 DEF AdminInv

\* Whoever is alone stays so, until it is over.
LEMMA BusyStays ==
    ASSUME A!WeChatAssumption, AdminInv, NEW q \in Request, aReq[q] # A!Idle,
           NEW u \in OpenId, u = aReq[q].user, NEW n, aReq' = [aReq EXCEPT ![q] = n]
    PROVE  /\ n.user = u => A!Busy(u)' = A!Busy(u)
           /\ n = A!Idle => A!Busy(u)' = A!Busy(u) \ {q}
           /\ aReq[q].alone => A!Busy(u) = {q}
           /\ \A p \in A!Busy(u) \ {q} : aReq'[p] = aReq[p]
           /\ aReq'[q] = n
<1>1. aReq \in [Request -> AdminCalls] /\ "none" \notin OpenId /\ A!Idle.user = "none"
  BY CallFacts DEF AdminTypes
<1>2. aReq'[q] = n /\ \A p \in Request \ {q} : aReq'[p] = aReq[p]
  BY <1>1
<1> QED BY <1>1, <1>2, CallFacts DEF A!Busy, AloneOk

\* A synchronisation that reads, ends or breaks off.
LEMMA QuietCall ==
    ASSUME A!WeChatAssumption, AdminInv, NEW q \in Request, aReq[q] # A!Idle,
           NEW u \in OpenId, u = aReq[q].user, NEW n \in AdminCalls,
           aReq' = [aReq EXCEPT ![q] = n], UNCHANGED <<follows, wx, admin>>,
           synced' \subseteq synced, synced \subseteq synced' \cup {u},
           aBroken \subseteq aBroken', aReq[q].pc = "link" => u \in aBroken',
           \/ n = A!Idle
           \/ /\ n.user = u /\ n.alone = aReq[q].alone
              /\ n.linked => wx[u].linked
              /\ n.pc \in {"reload", "admin"} => wx[u].there
              /\ n.pc # "link"
              /\ n.alone /\ n.pc \in Informed => (n.info <=> u \in follows)
              /\ n.alone /\ n.pc \in {"reload", "admin"} => (wx[u].subscribe <=> u \in follows)
              /\ u \in synced /\ n.pc \in Informed => (n.info <=> u \in follows)
    PROVE  AdminInv'
<1>1. /\ n.user = u => A!Busy(u)' = A!Busy(u)
      /\ n = A!Idle => A!Busy(u)' = A!Busy(u) \ {q}
      /\ aReq[q].alone => A!Busy(u) = {q}
      /\ \A p \in A!Busy(u) \ {q} : aReq'[p] = aReq[p]
      /\ aReq'[q] = n
  BY ZenonT(60), BusyStays
<1>2. /\ SyncOk(aReq[q]) /\ AloneOk(q) /\ LinkOk(u) /\ SyncedOk(u) /\ AdminTypes
      /\ ~A!Idle.alone /\ q \in A!Busy(u)
  BY CallFacts
<1>3. AdminTypes'
  BY <1>2 DEF AdminTypes
<1>4. SyncOk(n)'
  BY DEF SyncOk
<1>5. n.alone => AloneOk(q)'
  <2>1. SUFFICES ASSUME n.alone, n # A!Idle PROVE AloneOk(q)'
    BY <1>1, <1>2
  <2>2. /\ A!Busy(u)' = {q} /\ aReq'[q] = n /\ n.user = u /\ n.pc # "link"
        /\ follows' = follows /\ wx' = wx /\ admin' = admin
    BY <1>1, <2>1
  <2>3. /\ n.pc \in Informed => (n.info <=> u \in follows)
        /\ n.pc \in {"reload", "admin"} => (wx[u].subscribe <=> u \in follows)
    BY <2>1
  <2> QED BY <2>2, <2>3 DEF AloneOk
<1>6. LinkOk(u)'
  <2>1. SUFFICES ASSUME admin[u].there, ~wx[u].linked, u \notin aBroken'
                 PROVE  \E p \in A!Busy(u)' : aReq'[p].pc = "link"
    BY <1>2 DEF LinkOk
  <2>2. PICK p \in A!Busy(u) : aReq[p].pc = "link"
    BY <1>2, <2>1 DEF LinkOk
  <2>3. p # q
    BY <2>1, <2>2
  <2> QED BY <1>1, <2>2, <2>3
<1>7. SyncedOk(u)'
  <2>1. SUFFICES ASSUME u \in synced' PROVE SyncedOk(u)'
    BY DEF SyncedOk
  <2>2. ASSUME NEW p \in A!Busy(u)', aReq'[p].pc \in Informed
        PROVE  aReq'[p].info <=> u \in follows
    <3>1. CASE p = q
      <4>1. n # A!Idle
        BY <1>1, <2>2, <3>1
      <4> QED BY <1>1, <2>1, <2>2, <3>1, <4>1
    <3>2. CASE p # q
      <4>1. p \in A!Busy(u)
        BY <1>1, <2>2
      <4> QED BY <1>1, <1>2, <2>1, <2>2, <3>2, <4>1 DEF SyncedOk
    <3> QED BY <3>1, <3>2
  <2> QED BY <1>2, <2>1, <2>2 DEF SyncedOk
<1>8. \A v \in OpenId \ {u} : v \in synced' <=> v \in synced
  OBVIOUS
<1> QED BY <1>3, <1>4, <1>5, <1>6, <1>7, <1>8, CallStep

\* WeChat is asked, the row is looked for, or read again.
LEMMA ReadCall ==
    ASSUME A!WeChatAssumption, AdminInv, NEW q \in Request,
           A!GetUserInfo(q) \/ A!FindUser(q) \/ A!ReloadUser(q)
    PROVE  AdminInv'
<1>1. /\ aReq[q].pc \in {"ask", "find", "look", "reload"}
      /\ UNCHANGED <<follows, wx, admin, synced, aBroken>>
  BY DEF A!GetUserInfo, A!FindUser, A!ReloadUser
<1>2. aReq[q] # A!Idle
  BY <1>1 DEF A!Idle
<1>3. PICK u \in OpenId : u = aReq[q].user
  BY <1>2, CallFacts
<1>4. /\ SyncOk(aReq[q]) /\ AloneOk(q) /\ LinkOk(u) /\ SyncedOk(u) /\ AdminTypes
      /\ q \in A!Busy(u) /\ aReq[q] \in AdminCalls
  BY <1>2, <1>3, CallFacts
<1>5. wx[u].there \in BOOLEAN /\ wx[u].subscribe \in BOOLEAN /\ wx[u].linked \in BOOLEAN
  BY <1>4 DEF AdminTypes
<1>6. CASE A!GetUserInfo(q)
  <2>1. PICK info \in BOOLEAN : info = (u \in follows)
    BY Membership
  <2>2. PICK n : n = [aReq[q] EXCEPT !.pc = "find", !.info = info, !.linked = FALSE]
    OBVIOUS
  <2>3. aReq' = [aReq EXCEPT ![q] = n]
    BY <1>3, <1>6, <2>1, <2>2 DEF A!GetUserInfo
  <2>4. /\ n \in AdminCalls /\ n.pc = "find" /\ n.info = info /\ n.linked = FALSE
        /\ n.user = u /\ n.alone = aReq[q].alone
    BY <1>3, <1>4, <2>2 DEF AdminCalls
  <2> HIDE <2>2
  <2>5. n.info <=> u \in follows
    BY <2>1, <2>4
  <2> QED BY <1>1, <1>2, <1>3, <2>3, <2>4, <2>5, QuietCall
<1>7. CASE A!FindUser(q)
  <2>1. PICK pc \in {"update", "look", "insert"} :
           pc = IF wx[u].there THEN "update"
                ELSE IF aReq[q].pc = "find" THEN "look" ELSE "insert"
    OBVIOUS
  <2>2. PICK found \in BOOLEAN : found = (aReq[q].pc = "find" /\ wx[u].there)
    BY <1>5
  <2>3. PICK n : n = [aReq[q] EXCEPT !.pc = pc, !.found = found]
    OBVIOUS
  <2>4. aReq' = [aReq EXCEPT ![q] = n]
    BY <1>3, <1>7, <2>1, <2>2, <2>3 DEF A!FindUser
  <2>5. /\ n \in AdminCalls /\ n.pc \in {"update", "look", "insert"} /\ n.info = aReq[q].info
        /\ n.linked = aReq[q].linked /\ n.user = u /\ n.alone = aReq[q].alone
    BY ZenonT(60), <1>3, <1>4, <2>1, <2>2, <2>3 DEF AdminCalls
  <2> HIDE <2>3
  <2>6. aReq[q].pc \in Informed
    BY <1>7 DEF A!FindUser, Informed
  <2>7. aReq[q].alone => (aReq[q].info <=> u \in follows)
    BY <1>2, <1>3, <1>4, <2>6 DEF AloneOk
  <2>8. u \in synced => (aReq[q].info <=> u \in follows)
    BY <1>4, <2>6 DEF SyncedOk
  <2>9. aReq[q].linked => wx[u].linked
    BY <1>2, <1>3, <1>4 DEF SyncOk
  <2> QED BY ZenonT(60), <1>1, <1>2, <1>3, <2>4, <2>5, <2>7, <2>8, <2>9, QuietCall
<1>8. CASE A!ReloadUser(q)
  <2>1. PICK pc \in {"ask", "admin"} : pc = A!AfterRow(q)
    BY DEF A!AfterRow
  <2>2. PICK n : n = [aReq[q] EXCEPT !.pc = pc, !.batch = FALSE, !.info = wx[u].subscribe,
                                     !.linked = wx[u].linked]
    OBVIOUS
  <2>3. aReq' = [aReq EXCEPT ![q] = n]
    BY <1>3, <1>8, <2>1, <2>2 DEF A!ReloadUser
  <2>4. /\ n \in AdminCalls /\ n.pc \in {"ask", "admin"} /\ n.info = wx[u].subscribe
        /\ n.linked = wx[u].linked /\ n.user = u /\ n.alone = aReq[q].alone
    BY ZenonT(60), <1>3, <1>4, <1>5, <2>1, <2>2 DEF AdminCalls
  <2> HIDE <2>2
  <2>5. aReq[q].pc = "reload"
    BY <1>8 DEF A!ReloadUser
  <2>6. wx[u].there
    BY <1>2, <1>3, <1>4, <2>5 DEF SyncOk
  <2>7. aReq[q].alone => (wx[u].subscribe <=> u \in follows)
    BY <1>2, <1>3, <1>4, <2>5 DEF AloneOk
  <2>8. u \in synced => (wx[u].subscribe <=> u \in follows)
    BY <1>4 DEF SyncedOk
  <2> QED BY <1>1, <1>2, <1>3, <2>3, <2>4, <2>5, <2>6, <2>7, <2>8, QuietCall
<1> QED BY <1>6, <1>7, <1>8

\* It collides with another one, or breaks off.
LEMMA LostCall ==
    ASSUME A!WeChatAssumption, AdminInv, NEW q \in Request, A!Collide(q) \/ A!Break(q)
    PROVE  AdminInv'
<1>1. /\ aReq[q] # A!Idle /\ aReq' = [aReq EXCEPT ![q] = A!Idle]
      /\ UNCHANGED <<follows, wx, admin>>
  BY DEF A!Collide, A!Break, A!Idle
<1>2. PICK u \in OpenId : u = aReq[q].user
  BY <1>1, CallFacts
<1>3. A!Idle \in AdminCalls
  BY <1>1, CallFacts
<1>4. /\ synced' \subseteq synced /\ synced \subseteq synced' \cup {u}
      /\ aBroken \subseteq aBroken' /\ (aReq[q].pc = "link" => u \in aBroken')
  BY <1>2 DEF A!Collide, A!Break
<1> QED BY <1>1, <1>2, <1>3, <1>4, QuietCall

\* The row of the user is written, as WeChat told.
LEMMA RowCall ==
    ASSUME A!WeChatAssumption, AdminInv, NEW q \in Request, A!UpdateUser(q) \/ A!InsertUser(q)
    PROVE  AdminInv'
<1>1. /\ aReq[q].pc \in {"update", "insert"}
      /\ UNCHANGED <<follows, admin, synced, aBroken>>
      /\ wx' = [wx EXCEPT ![aReq[q].user] = A!Row(q)]
  BY DEF A!UpdateUser, A!InsertUser
<1>2. aReq[q] # A!Idle /\ aReq[q].pc \in Informed
  BY <1>1 DEF A!Idle, Informed
<1>3. PICK u \in OpenId : u = aReq[q].user
  BY <1>2, CallFacts
<1>4. /\ SyncOk(aReq[q]) /\ AloneOk(q) /\ LinkOk(u) /\ SyncedOk(u) /\ AdminTypes
      /\ q \in A!Busy(u) /\ aReq[q] \in AdminCalls
  BY <1>2, <1>3, CallFacts
<1>5. PICK pc \in {"reload", "ask", "admin"}, batch \in BOOLEAN :
         aReq' = [aReq EXCEPT ![q].pc = pc, ![q].batch = batch]
  <2>1. A!AfterRow(q) \in {"ask", "admin"}
    BY DEF A!AfterRow
  <2>2. aReq[q].batch \in BOOLEAN /\ aReq[q].found \in BOOLEAN
        /\ aReq \in [Request -> AdminCalls]
    BY <1>4 DEF AdminCalls, AdminTypes
  <2>3. CASE A!UpdateUser(q)
    <3>1. PICK pc \in {"reload", "ask", "admin"} :
             pc = IF aReq[q].found THEN "reload" ELSE A!AfterRow(q)
      BY <2>1
    <3>2. PICK batch \in BOOLEAN : batch = (aReq[q].batch /\ aReq[q].found)
      BY <2>2
    <3> QED BY <2>2, <2>3, <3>1, <3>2 DEF A!UpdateUser
  <2>4. CASE A!InsertUser(q)
    BY <2>1, <2>4 DEF A!InsertUser
  <2> QED BY <2>3, <2>4
<1>6. PICK n : n = [aReq[q] EXCEPT !.pc = pc, !.batch = batch]
  OBVIOUS
<1>7. /\ n \in AdminCalls /\ n.pc \in {"reload", "ask", "admin"} /\ n.user = u
      /\ n.info = aReq[q].info /\ n.linked = aReq[q].linked /\ n.alone = aReq[q].alone
  BY <1>3, <1>4, <1>6 DEF AdminCalls
<1>8. aReq' = [aReq EXCEPT ![q] = n]
  BY <1>5, <1>6
<1> HIDE <1>6
<1>9. /\ wx'[u].there /\ (wx'[u].subscribe <=> aReq[q].info)
      /\ wx'[u].linked = wx[u].linked /\ \A v \in OpenId \ {u} : wx'[v] = wx[v]
      /\ wx' \in [OpenId -> [there : BOOLEAN, subscribe : BOOLEAN, linked : BOOLEAN]]
  BY <1>1, <1>3, <1>4 DEF A!Row, AdminTypes, AdminCalls
<1>10. /\ A!Busy(u)' = A!Busy(u)
       /\ \A p \in A!Busy(u) \ {q} : aReq'[p] = aReq[p]
       /\ aReq'[q] = n
  <2>1. n.user = u
    BY <1>7
  <2> QED BY <1>2, <1>3, <1>8, <2>1, BusyStays
<1>17. aReq[q].alone => A!Busy(u) = {q}
  BY <1>2, <1>3, <1>4 DEF AloneOk
<1>11. AdminTypes'
  BY <1>1, <1>4, <1>7, <1>8, <1>9 DEF AdminTypes
<1>12. SyncOk(n)'
  BY <1>2, <1>3, <1>4, <1>7, <1>9 DEF SyncOk
<1>13. aReq[q].alone => (aReq[q].info <=> u \in follows)
  BY <1>2, <1>3, <1>4 DEF AloneOk
<1>14. n.alone => AloneOk(q)'
  BY <1>1, <1>7, <1>9, <1>10, <1>13, <1>17 DEF AloneOk
<1>15. LinkOk(u)'
  <2>1. \A p \in A!Busy(u) : aReq[p].pc = "link" => p # q
    BY <1>1
  <2> QED BY <1>1, <1>4, <1>9, <1>10, <2>1 DEF LinkOk
<1>16. SyncedOk(u)'
  <2>1. SUFFICES ASSUME u \in synced PROVE SyncedOk(u)'
    BY <1>1 DEF SyncedOk
  <2>2. aReq[q].info <=> u \in follows
    BY <1>2, <1>4, <2>1 DEF SyncedOk
  <2>3. ASSUME NEW p \in A!Busy(u), aReq'[p].pc \in Informed
        PROVE  aReq'[p].info <=> u \in follows
    BY <1>4, <1>7, <1>10, <2>1, <2>2, <2>3 DEF SyncedOk
  <2> QED BY <1>1, <1>4, <1>9, <1>10, <2>1, <2>2, <2>3 DEF SyncedOk
<1> QED BY <1>1, <1>2, <1>3, <1>7, <1>8, <1>9, <1>11, <1>12, <1>14, <1>15, <1>16, CallStep

\* The administrator is inserted, and will be linked.
LEMMA InsertCall ==
    ASSUME A!WeChatAssumption, AdminInv, NEW q \in Request, A!InsertAdmin(q)
    PROVE  AdminInv'
<1>1. /\ aReq[q].pc = "admin" /\ ~aReq[q].linked /\ ~admin[aReq[q].user].there
      /\ UNCHANGED <<follows, wx, synced, aBroken>>
      /\ admin' = [admin EXCEPT ![aReq[q].user] =
                      [there |-> TRUE, active |-> aReq[q].info]]
      /\ aReq' = [aReq EXCEPT ![q].pc = "link"]
  BY DEF A!InsertAdmin, A!IsActive, A!Goto
<1>2. aReq[q] # A!Idle
  BY <1>1 DEF A!Idle
<1>3. PICK u \in OpenId : u = aReq[q].user
  BY <1>2, CallFacts
<1>4. /\ SyncOk(aReq[q]) /\ AloneOk(q) /\ LinkOk(u) /\ SyncedOk(u) /\ AdminTypes
      /\ q \in A!Busy(u) /\ aReq[q] \in AdminCalls
  BY <1>2, <1>3, CallFacts
<1>5. PICK n : n = [aReq[q] EXCEPT !.pc = "link"]
  OBVIOUS
<1>6. /\ n \in AdminCalls /\ n.pc = "link" /\ n.user = u
      /\ n.info = aReq[q].info /\ n.linked = aReq[q].linked /\ n.alone = aReq[q].alone
  BY <1>3, <1>4, <1>5 DEF AdminCalls
<1>7. aReq' = [aReq EXCEPT ![q] = n]
  BY <1>1, <1>5
<1> HIDE <1>5
<1>8. /\ admin'[u].there /\ (admin'[u].active <=> aReq[q].info)
      /\ \A v \in OpenId \ {u} : admin'[v] = admin[v]
      /\ admin' \in [OpenId -> [there : BOOLEAN, active : BOOLEAN]]
  BY <1>1, <1>3, <1>4 DEF AdminTypes, AdminCalls
<1>9. /\ A!Busy(u)' = A!Busy(u)
      /\ \A p \in A!Busy(u) \ {q} : aReq'[p] = aReq[p]
      /\ aReq'[q] = n
  <2>1. n.user = u
    BY <1>6
  <2> QED BY <1>2, <1>3, <1>7, <2>1, BusyStays
<1>10. AdminTypes'
  BY SMTT(30), <1>1, <1>4, <1>6, <1>7, <1>8 DEF AdminTypes
<1>11. SyncOk(n)'
  BY <1>1, <1>2, <1>3, <1>4, <1>6, <1>8 DEF SyncOk
<1>12. n.alone => AloneOk(q)'
  <2>1. SUFFICES ASSUME n.alone PROVE AloneOk(q)'
    OBVIOUS
  <2>2. /\ A!Busy(u) = {q} /\ (aReq[q].info <=> u \in follows)
        /\ (wx[u].subscribe <=> u \in follows)
    BY <1>1, <1>2, <1>3, <1>4, <1>6, <2>1 DEF AloneOk, Informed
  <2> QED BY <1>1, <1>6, <1>8, <1>9, <2>2 DEF AloneOk, Informed
<1>13. LinkOk(u)'
  <2>1. ~wx[u].linked
    BY <1>1, <1>3, <1>4 DEF LinkOk
  <2> QED BY <1>1, <1>4, <1>6, <1>9, <2>1 DEF LinkOk
<1>14. u \notin synced
  BY <1>1, <1>3, <1>4 DEF SyncedOk
<1>15. SyncedOk(u)'
  BY <1>1, <1>14 DEF SyncedOk
<1> QED BY <1>1, <1>2, <1>3, <1>6, <1>7, <1>8, <1>10, <1>11, <1>12, <1>13, <1>15, CallStep

\* The administrator is linked, or the one who is is updated: it is done.
LEMMA LastCall ==
    ASSUME A!WeChatAssumption, AdminInv, NEW q \in Request,
           A!LinkAdmin(q) \/ A!UpdateAdmin(q)
    PROVE  AdminInv'
<1>1. /\ aReq[q].pc \in {"admin", "link"} /\ aReq' = [aReq EXCEPT ![q] = A!Idle]
      /\ UNCHANGED <<follows, aBroken>>
      /\ synced' = IF aReq[q].alone THEN synced \cup {aReq[q].user}
                   ELSE synced \ {aReq[q].user}
  BY DEF A!LinkAdmin, A!UpdateAdmin, A!Finish
<1>2. aReq[q] # A!Idle
  BY <1>1 DEF A!Idle
<1>3. PICK u \in OpenId : u = aReq[q].user
  BY <1>2, CallFacts
<1>4. /\ SyncOk(aReq[q]) /\ AloneOk(q) /\ LinkOk(u) /\ SyncedOk(u) /\ AdminTypes
      /\ q \in A!Busy(u) /\ aReq[q] \in AdminCalls
      /\ A!Idle \in AdminCalls /\ ~A!Idle.alone
  BY <1>2, <1>3, CallFacts
<1>5. /\ A!Busy(u)' = A!Busy(u) \ {q}
      /\ \A p \in A!Busy(u) \ {q} : aReq'[p] = aReq[p]
  BY <1>1, <1>2, <1>3, BusyStays
<1>6. \A v \in OpenId \ {u} : v \in synced' <=> v \in synced
  BY <1>1, <1>3
<1>7. /\ wx'[u].there /\ wx'[u].linked /\ wx'[u].subscribe = wx[u].subscribe
      /\ admin'[u].there
      /\ aReq[q].pc = "admin" => (admin'[u].active <=> aReq[q].info)
      /\ aReq[q].pc = "link" => admin'[u].active = admin[u].active
      /\ \A v \in OpenId \ {u} : wx'[v] = wx[v] /\ admin'[v] = admin[v]
      /\ wx' \in [OpenId -> [there : BOOLEAN, subscribe : BOOLEAN, linked : BOOLEAN]]
      /\ admin' \in [OpenId -> [there : BOOLEAN, active : BOOLEAN]]
  <2>1. CASE A!LinkAdmin(q)
    <3>1. /\ aReq[q].pc = "link" /\ wx' = [wx EXCEPT ![u].linked = TRUE] /\ admin' = admin
      BY <1>3, <2>1 DEF A!LinkAdmin
    <3>2. wx[u].there /\ admin[u].there
      BY <1>2, <1>3, <1>4, <3>1 DEF SyncOk
    <3> QED BY <1>4, <3>1, <3>2 DEF AdminTypes
  <2>2. CASE A!UpdateAdmin(q)
    <3>1. /\ aReq[q].pc = "admin" /\ aReq[q].linked /\ wx' = wx
          /\ admin' = [admin EXCEPT ![u].active = aReq[q].info]
      BY <1>3, <2>2 DEF A!UpdateAdmin, A!IsActive
    <3>2. wx[u].there /\ wx[u].linked /\ admin[u].there
      BY <1>2, <1>3, <1>4, <3>1 DEF SyncOk, LinkOk
    <3> QED BY <1>4, <3>1, <3>2 DEF AdminTypes, AdminCalls
  <2> QED BY <2>1, <2>2, <1>1
<1>8. AdminTypes'
  <2>1. synced' \subseteq OpenId
    BY <1>1, <1>3, <1>4 DEF AdminTypes
  <2>2. aReq' \in [Request -> AdminCalls]
    BY <1>1, <1>4 DEF AdminTypes
  <2> QED BY <1>1, <1>4, <1>7, <2>1, <2>2 DEF AdminTypes
<1>9. SyncOk(A!Idle)'
  BY DEF SyncOk
<1>10. LinkOk(u)'
  BY <1>7 DEF LinkOk
<1>11. SyncedOk(u)'
  <2>1. SUFFICES ASSUME u \in synced' PROVE SyncedOk(u)'
    BY DEF SyncedOk
  <2>2. aReq[q].alone
    BY <1>1, <1>3, <2>1
  <2>3. A!Busy(u) = {q} /\ (wx[u].subscribe <=> u \in follows)
        /\ (aReq[q].pc = "admin" => (aReq[q].info <=> u \in follows))
        /\ (aReq[q].pc = "link" => (admin[u].active <=> u \in follows))
    BY <1>1, <1>2, <1>3, <1>4, <2>2 DEF AloneOk, Informed
  <2>4. A!Busy(u)' = {}
    BY <1>5, <2>3
  <2> QED BY <1>1, <1>7, <2>3, <2>4 DEF SyncedOk
<1> QED
  <2>1. /\ wx[u].there => wx'[u].there
        /\ wx[u].linked => wx'[u].linked
        /\ admin[u].there => admin'[u].there
    BY <1>7
  <2>2. A!Idle.alone => AloneOk(q)'
    BY <1>4
  <2> QED BY <1>1, <1>2, <1>3, <1>4, <1>6, <1>7, <1>8, <1>9, <1>10, <1>11, <2>1, <2>2, CallStep

\* Somebody follows or leaves: nobody who is at him is alone any more.
LEMMA ChangeKeeps ==
    ASSUME A!WeChatAssumption, AdminInv, NEW u \in OpenId, A!Change(u)
    PROVE  AdminInv'
<1>1. /\ UNCHANGED <<wx, admin, aBroken>> /\ synced' = synced \ {u}
      /\ \A v \in OpenId \ {u} : v \in follows' <=> v \in follows
      /\ follows' \subseteq OpenId
      /\ aReq' = [q \in Request |-> IF q \in A!Busy(u) THEN [aReq[q] EXCEPT !.alone = FALSE]
                                    ELSE aReq[q]]
  BY DEF A!Change, AdminInv, AdminTypes
<1>2. AdminTypes /\ "none" \notin OpenId /\ A!Idle.user = "none" /\ ~A!Idle.alone
  BY DEF AdminInv, A!Idle, A!WeChatAssumption
<1>3. ASSUME NEW q \in Request
      PROVE  /\ aReq'[q] \in AdminCalls
             /\ aReq[q].user # u => aReq'[q] = aReq[q]
             /\ aReq[q].user = u => ~aReq'[q].alone
             /\ aReq'[q].pc = aReq[q].pc /\ aReq'[q].user = aReq[q].user
             /\ aReq'[q].info = aReq[q].info /\ aReq'[q].linked = aReq[q].linked
             /\ aReq[q] = A!Idle => aReq'[q] = A!Idle
  BY ZenonT(60), <1>1, <1>2 DEF A!Busy, AdminTypes, AdminCalls
<1>4. AdminTypes'
  BY <1>1, <1>2, <1>3 DEF AdminTypes
<1>5. \A v \in OpenId : A!Busy(v)' = A!Busy(v)
  BY <1>3 DEF A!Busy
<1>6. ASSUME NEW q \in Request PROVE SyncOk(aReq[q])' /\ AloneOk(q)'
  <2>1. SyncOk(aReq[q]) /\ AloneOk(q)
    BY DEF AdminInv
  <2>2. SyncOk(aReq[q])'
    BY <1>1, <1>3, <2>1 DEF SyncOk
  <2>3. CASE aReq[q].user = u
    BY <1>3, <2>2, <2>3 DEF AloneOk
  <2>4. CASE aReq[q].user # u
    <3>1. SUFFICES ASSUME aReq[q] # A!Idle PROVE AloneOk(q)'
      BY <1>3, <2>2, <2>4 DEF AloneOk
    <3>2. PICK v \in OpenId : v = aReq[q].user
      BY <2>1, <3>1 DEF SyncOk
    <3> QED BY <1>1, <1>3, <1>5, <2>1, <2>2, <2>4, <3>1, <3>2 DEF AloneOk
  <2> QED BY <2>3, <2>4, <2>2
<1>7. ASSUME NEW v \in OpenId PROVE LinkOk(v)' /\ SyncedOk(v)'
  <2>1. LinkOk(v) /\ SyncedOk(v)
    BY DEF AdminInv
  <2>2. \A q \in A!Busy(v) : aReq'[q].pc = aReq[q].pc /\ aReq'[q].info = aReq[q].info
    BY <1>3 DEF A!Busy
  <2>3. LinkOk(v)'
    BY <1>1, <1>5, <2>1, <2>2 DEF LinkOk
  <2>4. SyncedOk(v)'
    BY <1>1, <1>5, <2>1, <2>2 DEF SyncedOk
  <2> QED BY <2>3, <2>4
<1> QED BY <1>4, <1>6, <1>7 DEF AdminInv

\* A synchronisation begins; whoever is at that user is not alone any more.
LEMMA BeginKeeps ==
    ASSUME A!WeChatAssumption, AdminInv, NEW q \in Request, NEW u \in OpenId,
           NEW batch \in BOOLEAN, aReq[q] = A!Idle, A!Begin(q, u, batch),
           UNCHANGED <<follows, wx, admin, synced, aBroken>>
    PROVE  AdminInv'
<1>1. AdminTypes /\ "none" \notin OpenId /\ A!Idle.user = "none" /\ ~A!Idle.alone
      /\ A!Idle \in AdminCalls
  BY DEF AdminInv, A!Idle, A!WeChatAssumption, AdminCalls
<1>2. PICK alone \in BOOLEAN : alone = (A!Busy(u) = {})
  <2>1. CASE A!Busy(u) = {}
    <3>1. TRUE = (A!Busy(u) = {})
      BY <2>1
    <3> QED BY <3>1
  <2>2. CASE A!Busy(u) # {}
    <3>1. FALSE = (A!Busy(u) = {})
      BY <2>2
    <3> QED BY <3>1
  <2> QED BY <2>1, <2>2
<1>3. PICK n : n = [A!Idle EXCEPT !.pc = "ask", !.user = u, !.batch = batch, !.alone = alone]
  OBVIOUS
<1>4. aReq' = [p \in Request |-> IF p = q THEN n
                                 ELSE IF p \in A!Busy(u) THEN [aReq[p] EXCEPT !.alone = FALSE]
                                 ELSE aReq[p]]
  BY <1>2, <1>3 DEF A!Begin
<1>5. /\ n \in AdminCalls /\ n.pc = "ask" /\ n.user = u /\ n.alone = alone /\ n.linked = FALSE
  BY <1>1, <1>3 DEF AdminCalls, A!Idle
<1> HIDE <1>3
<1>6. ASSUME NEW p \in Request, p # q
      PROVE  /\ aReq'[p] \in AdminCalls
             /\ aReq[p].user # u => aReq'[p] = aReq[p]
             /\ aReq[p].user = u => ~aReq'[p].alone
             /\ aReq'[p].pc = aReq[p].pc /\ aReq'[p].user = aReq[p].user
             /\ aReq'[p].info = aReq[p].info /\ aReq'[p].linked = aReq[p].linked
             /\ aReq[p] = A!Idle => aReq'[p] = A!Idle
  BY ZenonT(60), <1>1, <1>4, <1>6 DEF A!Busy, AdminTypes, AdminCalls
<1>7. aReq'[q] = n
  BY <1>4
<1>8. AdminTypes'
  <2>1. \A p \in Request : aReq'[p] \in AdminCalls
    BY <1>5, <1>6, <1>7
  <2> QED BY <1>1, <1>4, <2>1 DEF AdminTypes
<1>9. ASSUME NEW v \in OpenId PROVE A!Busy(v)' = IF v = u THEN A!Busy(v) \cup {q} ELSE A!Busy(v)
  <2>1. q \notin A!Busy(v)
    BY <1>1 DEF A!Busy
  <2> QED BY <1>5, <1>6, <1>7, <2>1 DEF A!Busy
<1>10. ASSUME NEW p \in Request PROVE SyncOk(aReq[p])' /\ AloneOk(p)'
  <2>1. CASE p = q
    <3>1. SyncOk(n)'
      BY <1>5 DEF SyncOk
    <3>2. AloneOk(q)'
      <4>1. SUFFICES ASSUME n.alone PROVE AloneOk(q)'
        BY <1>7 DEF AloneOk
      <4>2. A!Busy(u)' = {q}
        BY <1>2, <1>5, <1>9, <4>1
      <4> QED BY <1>5, <1>7, <4>2 DEF AloneOk, Informed
    <3> QED BY <1>7, <2>1, <3>1, <3>2
  <2>2. CASE p # q
    <3>1. SyncOk(aReq[p]) /\ AloneOk(p)
      BY DEF AdminInv
    <3>2. SyncOk(aReq[p])'
      BY <1>6, <2>2, <3>1 DEF SyncOk
    <3>3. AloneOk(p)'
      <4>1. CASE aReq[p].user = u
        BY <1>6, <2>2, <4>1 DEF AloneOk
      <4>2. CASE aReq[p].user # u
        <5>1. SUFFICES ASSUME aReq[p] # A!Idle PROVE AloneOk(p)'
          BY <1>1, <1>6, <2>2, <4>2 DEF AloneOk
        <5>2. PICK v \in OpenId : v = aReq[p].user
          BY <3>1, <5>1 DEF SyncOk
        <5>3. A!Busy(v)' = A!Busy(v)
          BY <1>9, <4>2, <5>2
        <5> QED BY <1>6, <2>2, <3>1, <4>2, <5>1, <5>2, <5>3 DEF AloneOk
      <4> QED BY <4>1, <4>2
    <3> QED BY <3>2, <3>3
  <2> QED BY <2>1, <2>2
<1>11. ASSUME NEW v \in OpenId PROVE LinkOk(v)' /\ SyncedOk(v)'
  <2>1. LinkOk(v) /\ SyncedOk(v)
    BY DEF AdminInv
  <2>2. /\ A!Busy(v) \subseteq A!Busy(v)' /\ A!Busy(v)' \subseteq A!Busy(v) \cup {q}
        /\ q \notin A!Busy(v)
    BY <1>1, <1>9 DEF A!Busy
  <2>3. \A p \in A!Busy(v) : aReq'[p].pc = aReq[p].pc /\ aReq'[p].info = aReq[p].info
    BY <1>6, <2>2 DEF A!Busy
  <2>4. LinkOk(v)'
    BY <2>1, <2>2, <2>3 DEF LinkOk
  <2>5. aReq'[q].pc \notin Informed
    BY <1>5, <1>7 DEF Informed
  <2>6. SyncedOk(v)'
    BY <2>1, <2>2, <2>3, <2>5 DEF SyncedOk
  <2> QED BY <2>4, <2>6
<1> QED BY <1>8, <1>10, <1>11 DEF AdminInv

\* Whatever touches none of it keeps it.
LEMMA AdminStutters ==
    ASSUME AdminInv, UNCHANGED <<follows, wx, admin, aReq, synced, aBroken>>
    PROVE  AdminInv'
<1>1. \A u \in OpenId : A!Busy(u)' = A!Busy(u)
  BY DEF A!Busy
<1>2. AdminTypes'
  BY DEF AdminInv, AdminTypes
<1>3. ASSUME NEW q \in Request PROVE SyncOk(aReq[q])' /\ AloneOk(q)'
  <2>1. SyncOk(aReq[q]) /\ AloneOk(q)
    BY DEF AdminInv
  <2>2. SyncOk(aReq[q])'
    BY <2>1 DEF SyncOk
  <2> QED BY <1>1, <2>1, <2>2 DEF SyncOk, AloneOk, A!Busy
<1>4. ASSUME NEW u \in OpenId PROVE LinkOk(u)' /\ SyncedOk(u)'
  BY <1>1 DEF AdminInv, LinkOk, SyncedOk
<1> QED BY <1>2, <1>3, <1>4 DEF AdminInv

\* Every step of the component keeps it.
LEMMA AdminKeeps == ASSUME A!WeChatAssumption, AdminInv, A!Next PROVE AdminInv'
<1>1. ASSUME NEW u \in OpenId, A!Change(u) PROVE AdminInv'
  BY <1>1, ChangeKeeps
<1>2. ASSUME NEW q \in Request, A!Sync(q) PROVE AdminInv'
  <2>1. CASE A!GetUserInfo(q) \/ A!FindUser(q) \/ A!ReloadUser(q)
    BY <2>1, ReadCall
  <2>2. CASE A!UpdateUser(q) \/ A!InsertUser(q)
    BY <2>2, RowCall
  <2>3. CASE A!InsertAdmin(q)
    BY <2>3, InsertCall
  <2>4. CASE A!LinkAdmin(q) \/ A!UpdateAdmin(q)
    BY <2>4, LastCall
  <2>5. CASE A!Collide(q)
    BY <2>5, LostCall
  <2> QED BY <1>2, <2>1, <2>2, <2>3, <2>4, <2>5 DEF A!Sync
<1>3. ASSUME NEW q \in Request, A!Break(q) PROVE AdminInv'
  BY <1>3, LostCall
<1>4. ASSUME NEW q \in Request, NEW u \in OpenId, A!SyncAdminUsers(q, u) PROVE AdminInv'
  <2>1. /\ aReq[q] = A!Idle /\ A!Begin(q, u, TRUE)
        /\ UNCHANGED <<follows, wx, admin, synced, aBroken>>
    BY <1>4 DEF A!SyncAdminUsers
  <2> QED BY <2>1, BeginKeeps
<1>5. ASSUME NEW q \in Request, NEW u \in OpenId, NEW e \in A!Event, A!HandleEvent(q, u, e)
      PROVE  AdminInv'
  <2>1. /\ aReq[q] = A!Idle
        /\ A!Begin(q, u, FALSE) \/ UNCHANGED aReq
        /\ UNCHANGED <<follows, wx, admin, synced, aBroken>>
    BY <1>5 DEF A!HandleEvent
  <2> QED BY <2>1, BeginKeeps, AdminStutters
<1> QED BY <1>1, <1>2, <1>3, <1>4, <1>5 DEF A!Next

\* Every step of the composite keeps it.
LEMMA AdminInvariance == Spec => []AdminInv
<1>1. A!WeChatAssumption
  BY AgreementAssumption
<1>2. Init => AdminInv
  BY <1>1, InitAdminInv DEF Init
<1>3. AdminInv /\ [Next]_vars => AdminInv'
  <2>1. SUFFICES ASSUME AdminInv, [Next]_vars PROVE AdminInv'
    OBVIOUS
  <2>2. CASE A!Next
    BY <1>1, <2>1, <2>2, AdminKeeps
  <2>3. CASE UNCHANGED admins
    BY <2>1, <2>3, AdminStutters DEF admins
  <2> QED BY <2>1, <2>2, <2>3 DEF Next, vars
<1> QED BY <1>2, <1>3, PTL DEF Spec

\* A user who was last synchronised alone has an administrator, who is active if
\* and only if the user follows; one who is not linked was left alone by a request
\* that broke off, or is about to be linked (updateAdmin, handleEvent).
THEOREM AdminsFollow == Spec => []AdminFollowsUser
<1>1. AdminInv => AdminFollowsUser
  <2>1. SUFFICES ASSUME AdminInv PROVE A!AdminFollowsUser
    BY DEF AdminFollowsUser
  <2>2. ASSUME NEW u \in synced
        PROVE  /\ wx[u] = [there |-> TRUE, subscribe |-> u \in follows, linked |-> TRUE]
               /\ admin[u] = [there |-> TRUE, active |-> u \in follows]
    <3>1. u \in OpenId
      BY <2>1, <2>2 DEF AdminInv, AdminTypes
    <3>2. /\ wx[u] \in [there : BOOLEAN, subscribe : BOOLEAN, linked : BOOLEAN]
          /\ admin[u] \in [there : BOOLEAN, active : BOOLEAN]
      BY <2>1, <3>1 DEF AdminInv, AdminTypes
    <3>3. /\ wx[u].there /\ wx[u].linked /\ (wx[u].subscribe <=> u \in follows)
          /\ admin[u].there /\ (admin[u].active <=> u \in follows)
      BY <2>1, <2>2, <3>1 DEF AdminInv, SyncedOk
    <3>4. PICK f \in BOOLEAN : f = (u \in follows)
      BY Membership
    <3>5. wx[u].subscribe = f /\ admin[u].active = f
      BY <3>2, <3>3, <3>4
    <3>6. wx[u] = [there |-> TRUE, subscribe |-> f, linked |-> TRUE]
      BY <3>2, <3>3, <3>5
    <3>7. admin[u] = [there |-> TRUE, active |-> f]
      BY <3>2, <3>3, <3>5
    <3> QED BY <3>4, <3>6, <3>7
  <2>3. \A u \in OpenId : admin[u].there /\ ~wx[u].linked =>
           u \in aBroken \/ \E q \in A!Busy(u) : aReq[q].pc = "link"
    BY <2>1 DEF AdminInv, LinkOk
  <2> QED BY <2>2, <2>3 DEF A!AdminFollowsUser
<1> QED BY <1>1, AdminInvariance, PTL

-----------------------------------------------------------------------------
(* The types of the services: what their numbers are bounded by.             *)

Committing == {w \in Writer : "commit" \in write[w].todo}

\* No copy and no load has a version that was never committed; one save is yet to
\* be committed at a time, which makes the next version.
LoadBounds ==
    /\ lRow \in L!Version /\ shared \in L!Version \cup {L!None}
    /\ \A i \in Instance : local[i].version \in L!Version \cup {L!None}
    /\ \A t \in Load : load[t].seen \in L!Version \cup {L!None}
    /\ Committing # {} => lRow < MaxVersion
    /\ \A v, w \in Committing : v = w

\* A load that is through.
LEMMA ResolvedBounds ==
    ASSUME L!LoaderAssumption, LoadInv, LoadBounds, NEW t \in Load, load[t].pc # "idle",
           NEW version \in L!Version \cup {L!None}, L!Resolve(t, version)
    PROVE  /\ \A i \in Instance : local'[i] = local[i] \/ local'[i].version = version
           /\ \A s \in Load : load'[s] = load[s] \/ load'[s].seen = L!None
<1>1. version \in Nat \cup {L!None}
  BY DEF L!Version, L!LoaderAssumption
<1>2. PICK i \in Instance, c \in Copies :
              /\ local' = [local EXCEPT ![i] = c]
              /\ c.version = version \/ c = local[i]
              /\ load' = [load EXCEPT ![t] = L!Resting]
  BY <1>1, Resolved
<1>3. local \in [Instance -> Copies] /\ load \in [Load -> Loads]
  BY DEF LoadInv, LoaderTypes
<1> QED BY <1>2, <1>3 DEF L!Resting

\* Copies, loads and saves are well formed throughout every behaviour.
LEMMA LoadersAreTyped == Spec => []L!TypeOK
<1>1. L!LoaderAssumption
  BY AgreementAssumption
<1>2. Init => LoadBounds
  <2> SUFFICES ASSUME L!Init PROVE LoadBounds
    BY DEF Init
  <2>1. 0 \in L!Version
    BY <1>1 DEF L!LoaderAssumption, L!Version
  <2>2. L!Init => Committing = {}
    BY DEF L!Init, Committing, L!Done
  <2> QED BY <2>1, <2>2 DEF L!Init, LoadBounds, L!Empty, L!Resting
<1>3. LoadInv /\ LoadBounds /\ [Next]_vars => LoadBounds'
  <2> SUFFICES ASSUME LoadInv, LoadBounds, [Next]_vars PROVE LoadBounds'
    OBVIOUS
  <2> DEFINE V == L!Version \cup {L!None}
  <2>1. /\ local \in [Instance -> Copies] /\ load \in [Load -> Loads] /\ lRow \in L!Version
        /\ shared \in V /\ L!None \in V /\ lRow \in Nat /\ MaxVersion \in Nat
        /\ L!Version \subseteq V
        /\ \A i \in Instance : local[i].version \in V
        /\ \A t \in Load : load[t].seen \in V
    BY <1>1 DEF LoadInv, LoaderTypes, LoadBounds, L!LoaderAssumption, L!Version
  <2>2. ASSUME lRow' \in L!Version, shared' \in V,
               \/ lRow' = lRow /\ Committing' \subseteq Committing
               \/ Committing' = {}
               \/ lRow' < MaxVersion /\ \A v, w \in Committing' : v = w,
               \A i \in Instance : local'[i] = local[i] \/ local'[i].version \in V,
               \A t \in Load : load'[t] = load[t] \/ load'[t].seen \in V
        PROVE  LoadBounds'
    <3>1. Committing' # {} => lRow' < MaxVersion
      BY <2>2 DEF LoadBounds
    <3>2. \A v, w \in Committing' : v = w
      BY <2>2 DEF LoadBounds
    <3> QED BY <2>1, <2>2, <3>1, <3>2 DEF LoadBounds, L!Version
  <2>3. write' = write => Committing' = Committing
    BY DEF Committing
  <2> HIDE DEF V
  <2>4. ASSUME NEW t \in Load, NEW i \in Instance, L!Begin(t, i) PROVE LoadBounds'
    <3>1. UNCHANGED <<lRow, shared, write>>
      BY <2>4 DEF L!Begin
    <3>2. \A s \in Load : load'[s] = load[s] \/ load'[s].seen = L!None
      <4>1. PICK n : /\ n = [L!Resting EXCEPT !.pc = IF redis THEN "get" ELSE "find", !.at = i]
                     /\ load' = [load EXCEPT ![t] = n]
        BY <2>4 DEF L!Begin
      <4>2. n.seen = L!None
        BY <4>1 DEF L!Resting
      <4> QED BY <2>1, <4>1, <4>2
    <3>3. \A j \in Instance : local'[j] = local[j] \/ local'[j].version = L!None
      <4>1. local' \in {local, [local EXCEPT ![i] = [L!Empty EXCEPT !.by = t]]}
        BY <2>4 DEF L!Begin
      <4> QED BY <2>1, <4>1 DEF L!Empty
    <3> QED BY <2>1, <2>2, <2>3, <3>1, <3>2, <3>3
  <2>5. ASSUME NEW t \in Load, L!Advance(t) PROVE LoadBounds'
    <3>1. CASE L!Find(t)
      <4>1. UNCHANGED <<lRow, shared, local, write>>
            /\ load' = [load EXCEPT ![t].pc = "set", ![t].seen = lRow]
        BY <3>1 DEF L!Find
      <4>2. \A s \in Load : load'[s] = load[s] \/ load'[s].seen = lRow
        BY <2>1, <4>1 DEF Loads
      <4> QED BY <2>1, <2>2, <2>3, <4>1, <4>2
    <3>2. CASE L!Get(t) /\ shared = L!None
      <4>1. UNCHANGED <<lRow, shared, local, write>> /\ load' = [load EXCEPT ![t].pc = "find"]
        BY <3>2 DEF L!Get
      <4>2. \A s \in Load : load'[s] = load[s] \/ load'[s].seen = load[s].seen
        BY <2>1, <4>1 DEF Loads
      <4> QED BY <2>1, <2>2, <2>3, <4>1, <4>2
    <3>3. CASE L!Get(t) /\ shared # L!None
      <4>1. /\ UNCHANGED <<lRow, shared, write>> /\ L!Resolve(t, shared) /\ load[t].pc # "idle"
        BY <3>3 DEF L!Get
      <4> QED BY <1>1, <2>1, <2>2, <2>3, <4>1, ResolvedBounds DEF V
    <3>4. CASE L!Set(t)
      <4>1. /\ UNCHANGED <<lRow, write>> /\ shared' \in {load[t].seen, shared}
            /\ L!Resolve(t, load[t].seen) /\ load[t].pc # "idle"
        BY <3>4 DEF L!Set
      <4> QED BY <1>1, <2>1, <2>2, <2>3, <4>1, ResolvedBounds DEF V
    <3> QED BY <2>5, <3>1, <3>2, <3>3, <3>4 DEF L!Advance
  <2>6. ASSUME NEW w \in Writer, L!Proceeds(w) PROVE LoadBounds'
    <3>1. load' = load /\ shared' \in {shared, L!None}
      BY <2>6 DEF L!Proceeds, L!Commit, L!Rollback, L!Delete, L!ClearLocal
    <3>2. \A j \in Instance : local'[j] = local[j] \/ local'[j].version = L!None
      BY <2>1, <2>6 DEF L!Proceeds, L!Commit, L!Rollback, L!Delete, L!ClearLocal, L!Empty
    <3>3. PICK done \in write[w].todo, next \in SUBSET {"clear"} :
               /\ L!Proceed(w, done, next)
               /\ lRow' = lRow \/ (done = "commit" /\ lRow' = lRow + 1)
      BY <2>6 DEF L!Proceeds, L!Commit, L!Rollback, L!Delete, L!ClearLocal
    <3>4. PICK n \in Writes : /\ write' = [write EXCEPT ![w] = n]
                             /\ n.todo = (write[w].todo \ {done}) \cup next
      BY <3>3, Proceeded
    <3>5. write \in [Writer -> Writes]
      BY DEF LoadInv, LoaderTypes
    <3>6. Committing' \subseteq Committing /\ (done = "commit" => w \notin Committing')
      BY <3>4, <3>5 DEF Committing
    <3>7. CASE lRow' = lRow
      BY <2>1, <2>2, <3>1, <3>2, <3>6, <3>7
    <3>8. CASE done = "commit" /\ lRow' = lRow + 1
      <4>1. w \in Committing
        BY <3>8 DEF Committing
      <4>2. Committing' = {} /\ lRow < MaxVersion
        BY <3>6, <3>8, <4>1 DEF LoadBounds
      <4>3. lRow' \in L!Version
        BY <2>1, <3>8, <4>2 DEF L!Version
      <4> QED BY <2>1, <2>2, <3>1, <3>2, <4>2, <4>3
    <3> QED BY <3>3, <3>7, <3>8
  <2>7. ASSUME NEW w \in Writer, NEW i \in Instance, L!Update(w, i) PROVE LoadBounds'
    <3>1. /\ UNCHANGED <<lRow, shared, load>> /\ local' = [local EXCEPT ![i] = L!Empty]
          /\ lRow < MaxVersion
      BY <2>7 DEF L!Update
    <3>2. \A j \in Instance : local'[j] = local[j] \/ local'[j].version = L!None
      BY <2>1, <3>1 DEF L!Empty
    <3>3. \A v \in Committing' : v = w
      BY <2>7 DEF L!Update, Committing, LoadInv, LoaderTypes
    <3> QED BY <2>1, <2>2, <3>1, <3>2, <3>3
  <2>8. CASE L!UpdateByQuery
    <3>1. /\ UNCHANGED <<shared, local, load, write>>
          /\ lRow' = lRow + 1 /\ lRow < MaxVersion /\ Committing = {}
      BY <2>8 DEF L!UpdateByQuery, Committing
    <3>2. lRow' \in L!Version
      BY <2>1, <3>1 DEF L!Version
    <3> QED BY <2>1, <2>2, <2>3, <3>1, <3>2
  <2>9. CASE L!ExpireShared \/ \E i \in Instance : L!ExpireLocal(i)
    <3>1. UNCHANGED <<lRow, load, write>> /\ shared' \in {shared, L!None}
      BY <2>9 DEF L!ExpireShared, L!ExpireLocal
    <3>2. \A j \in Instance : local'[j] = local[j] \/ local'[j].version = L!None
      BY <2>1, <2>9 DEF L!ExpireShared, L!ExpireLocal, L!Empty
    <3> QED BY <2>1, <2>2, <2>3, <3>1, <3>2
  <2>10. CASE UNCHANGED loaders
    BY <2>1, <2>2, <2>10, <2>3 DEF loaders
  <2>11. L!Next \/ UNCHANGED loaders
    BY DEF Next, vars
  <2> QED BY <2>4, <2>5, <2>6, <2>7, <2>8, <2>10, <2>9, <2>11 DEF L!Next
<1>4. ASSUME LoadInv, LoadBounds PROVE L!TypeOK
  <2>1. LoaderTypes
    BY <1>4 DEF LoadInv
  <2>2. local \in [Instance -> [by : Load \cup {"none"}, version : L!Version \cup {L!None}]]
    BY <1>4, <2>1 DEF LoaderTypes, LoadBounds, Copies
  <2>3. load \in [Load -> [pc : {"idle", "get", "find", "set"}, at : Instance \cup {"none"},
                           seen : L!Version \cup {L!None}]]
    BY <1>4, <2>1 DEF LoaderTypes, LoadBounds, Loads
  <2> QED BY <1>4, <2>1, <2>2, <2>3 DEF L!TypeOK, LoaderTypes, LoadBounds, Writes
<1> QED BY <1>2, <1>3, <1>4, LoadInvariance, PTL DEF Spec

\* The messages that are under way are not more than the changes they tell of.
AdminBounds ==
    /\ saveToAdmin \in BOOLEAN /\ aBroken \subseteq OpenId
    /\ inbox \in [OpenId -> [A!Event -> Nat]]
    /\ \A u \in OpenId, e \in A!Event : inbox[u][e] <= changes
    /\ changes \in 0 .. MaxChanges /\ rounds \in 0 .. MaxSweeps /\ aFails \in 0 .. MaxFail

\* Rows, messages and synchronisations are well formed throughout every behaviour.
LEMMA AdminsAreTyped == Spec => []A!TypeOK
<1>1. A!WeChatAssumption
  BY AgreementAssumption
<1>2. MaxChanges \in Nat /\ MaxSweeps \in Nat /\ MaxFail \in Nat
  BY <1>1 DEF A!WeChatAssumption
<1>3. Init => AdminBounds
  <2> SUFFICES ASSUME A!Init PROVE AdminBounds
    BY DEF Init
  <2> QED BY <1>2 DEF A!Init, AdminBounds
<1>4. AdminInv /\ AdminBounds /\ [Next]_vars => AdminBounds'
  <2> SUFFICES ASSUME AdminInv, AdminBounds, [Next]_vars PROVE AdminBounds'
    OBVIOUS
  <2>1. ASSUME UNCHANGED <<saveToAdmin, inbox, changes>>, aBroken' \subseteq OpenId,
               rounds' \in 0 .. MaxSweeps, aFails' \in 0 .. MaxFail
        PROVE  AdminBounds'
    BY <2>1 DEF AdminBounds, A!Event
  <2>2. ASSUME NEW u \in OpenId, NEW e \in A!Event, NEW n \in Nat, changes' \in 0 .. MaxChanges,
               inbox' = [inbox EXCEPT ![u][e] = n], n <= changes', changes <= changes',
               UNCHANGED <<saveToAdmin, aBroken, rounds, aFails>>
        PROVE  AdminBounds'
    <3>1. /\ inbox \in [OpenId -> [A!Event -> Nat]] /\ changes \in Nat
          /\ \A v \in OpenId, d \in A!Event : inbox[v][d] <= changes
      BY <1>2 DEF AdminBounds
    <3>2. inbox' \in [OpenId -> [A!Event -> Nat]]
      BY <2>2, <3>1
    <3>3. \A v \in OpenId, d \in A!Event : inbox'[v][d] \in {inbox[v][d], n}
      BY <2>2, <3>1
    <3>4. \A v \in OpenId, d \in A!Event : inbox'[v][d] <= changes'
      BY <1>2, <2>2, <3>1, <3>3
    <3> QED BY <2>2, <3>2, <3>4 DEF AdminBounds, A!Event
  <2>3. ASSUME NEW u \in OpenId, A!Change(u) PROVE AdminBounds'
    <3>1. PICK e \in A!Event :
               /\ inbox' = [inbox EXCEPT ![u][e] = @ + 1]
               /\ changes < MaxChanges /\ changes' = changes + 1
               /\ UNCHANGED <<saveToAdmin, aBroken, rounds, aFails>>
      BY <2>3 DEF A!Change, A!Event
    <3>2. inbox[u][e] \in Nat /\ inbox[u][e] <= changes /\ changes \in Nat
      BY <1>2 DEF AdminBounds
    <3>3. PICK n \in Nat : n = inbox[u][e] + 1
      BY <3>2
    <3>4. inbox' = [inbox EXCEPT ![u][e] = n]
      BY <3>1, <3>3
    <3>5. changes' \in 0 .. MaxChanges /\ n <= changes' /\ changes <= changes'
      BY <1>2, <3>1, <3>2, <3>3
    <3> QED BY <2>2, <3>1, <3>4, <3>5
  <2>4. ASSUME NEW q \in Request, NEW u \in OpenId, NEW e \in A!Event, A!HandleEvent(q, u, e)
        PROVE  AdminBounds'
    <3>1. /\ inbox' = [inbox EXCEPT ![u][e] = inbox[u][e] - 1] /\ inbox[u][e] > 0
          /\ UNCHANGED <<saveToAdmin, aBroken, changes, rounds, aFails>>
      BY <2>4 DEF A!HandleEvent
    <3>2. inbox[u][e] \in Nat /\ inbox[u][e] <= changes /\ changes \in 0 .. MaxChanges
      BY <1>2 DEF AdminBounds
    <3>3. PICK n \in Nat : n = inbox[u][e] - 1
      BY <3>1, <3>2
    <3>4. inbox' = [inbox EXCEPT ![u][e] = n]
      BY <3>1, <3>3
    <3>5. changes' \in 0 .. MaxChanges /\ n <= changes' /\ changes <= changes'
      BY <1>2, <3>1, <3>2, <3>3
    <3> QED BY <2>2, <3>1, <3>4, <3>5
  <2>5. ASSUME NEW q \in Request, NEW u \in OpenId, A!SyncAdminUsers(q, u)
        PROVE  AdminBounds'
    BY <1>2, <2>1, <2>5 DEF A!SyncAdminUsers, AdminBounds
  <2>6. ASSUME NEW q \in Request, A!Sync(q) PROVE AdminBounds'
    <3>1. UNCHANGED <<saveToAdmin, inbox, changes, aBroken, rounds, aFails>>
      BY <2>6 DEF A!Sync, A!GetUserInfo, A!FindUser, A!UpdateUser, A!InsertUser,
                  A!ReloadUser, A!InsertAdmin, A!LinkAdmin, A!UpdateAdmin, A!Collide
    <3> QED BY <2>1, <3>1 DEF AdminBounds
  <2>7. ASSUME NEW q \in Request, A!Break(q) PROVE AdminBounds'
    <3>1. /\ UNCHANGED <<saveToAdmin, inbox, changes, rounds>> /\ aReq[q] # A!Idle
          /\ aFails < MaxFail /\ aFails' = aFails + 1 /\ aBroken' = aBroken \cup {aReq[q].user}
      BY <2>7 DEF A!Break
    <3>2. aReq[q].user \in OpenId
      BY <1>1, <3>1, CallFacts
    <3> QED BY <1>2, <2>1, <3>1, <3>2 DEF AdminBounds
  <2>8. CASE UNCHANGED admins
    BY <2>1, <2>8 DEF admins, AdminBounds
  <2>9. A!Next \/ UNCHANGED admins
    BY DEF Next, vars
  <2> QED BY <2>3, <2>4, <2>5, <2>6, <2>7, <2>8, <2>9 DEF A!Next
<1>5. ASSUME AdminInv, AdminBounds PROVE A!TypeOK
  <2>1. inbox \in [OpenId -> [A!Event -> 0 .. MaxChanges]]
    <3>1. \A u \in OpenId : inbox[u] \in [A!Event -> 0 .. MaxChanges]
      BY <1>2, <1>5 DEF AdminBounds
    <3> QED BY <1>5, <3>1 DEF AdminBounds
  <2> QED BY <1>5, <2>1 DEF A!TypeOK, AdminInv, AdminTypes, AdminBounds, AdminCalls
<1> QED BY <1>3, <1>4, <1>5, AdminInvariance, PTL DEF Spec

-----------------------------------------------------------------------------
(* The types of all parts, from the proofs about each.                       *)

\* For any instances, callers, users, requests and bounds: the rounds, tokens,
\* rows, requests and copies of whatever part runs are well formed throughout.
THEOREM AgreementIsTyped == Spec => []TypeOK
<1>1. /\ J!TypeOK /\ W!TypeOK /\ A!TypeOK /\ T!TypeOK
      /\ Y!TypeOK /\ E!TypeOK /\ F!TypeOK /\ L!TypeOK
      => TypeOK
  BY DEF TypeOK
<1> QED BY <1>1, JobsAreTyped, TokenIsTyped, AdminsAreTyped, TenantsAreTyped, SystemIsTyped,
           AccountsAreTyped, FriendsAreTyped, LoadersAreTyped, PTL
=============================================================================
