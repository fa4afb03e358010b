------------------------------- MODULE Loader -------------------------------
(***************************************************************************)
(* The data loaders (dataloader.ts) over one row, and how they hear of its *)
(* changes (EntitySubscriber, CacheHelper).                                *)
(*                                                                         *)
(* Without Redis an instance keeps what it loaded for a minute.  With it   *)
(* the row is kept in Redis for two minutes, and in the memory of each     *)
(* instance until that instance saves the row: a load in progress is kept  *)
(* there as well, for others to join.  The event that clears the copies is *)
(* raised before the transaction commits, and what is published for the    *)
(* other instances reaches nobody, since no one ever subscribes to the     *)
(* channel.  An update by query raises no event about the row at all.      *)
(***************************************************************************)
EXTENDS Integers, FiniteSets

CONSTANTS
    Instance,
    Load, Write,    \* the loads and the saves in flight at a time
    MaxVersion      \* bound of the changes of the row

LoaderAssumption == MaxVersion \in Nat /\ "none" \notin Instance \cup Load

VARIABLES
    redis,          \* whether Redis is enabled
    row,            \* the version of the row that is committed
    shared,         \* the version Redis has, or None
    local,          \* what each instance has: a version, or None and the load it
                    \* waits for
    load,           \* the loads: where they are, on which instance, what they read
    write,          \* the saves: on which instance, and what is left to be done
    last,           \* remembers the instance of the last change
    raced           \* remembers that a load ran during a save

vars == <<redis, row, shared, local, load, write, last, raced>>

None == -1
Empty == [by |-> "none", version |-> None]
Resting == [pc |-> "idle", at |-> "none", seen |-> None]
Done == [at |-> "none", todo |-> {}]

Loading == {t \in Load : load[t] # Resting}
Saving == {w \in Write : write[w] # Done}

Init ==
    /\ redis \in BOOLEAN
    /\ row = 0 /\ shared = None
    /\ local = [i \in Instance |-> Empty]
    /\ load = [t \in Load |-> Resting]
    /\ write = [w \in Write |-> Done]
    /\ last = "none" /\ raced = FALSE

-----------------------------------------------------------------------------
(* Loads. *)

\* A load that finds neither a copy nor, with Redis, another load to join.
Begin(t, i) ==
    /\ load[t] = Resting /\ local[i] = Empty
    /\ load' = [load EXCEPT ![t] = [Resting EXCEPT !.pc = IF redis THEN "get" ELSE "find",
                                                   !.at = i]]
    /\ local' = IF redis THEN [local EXCEPT ![i].by = t] ELSE local
    /\ raced' = (raced \/ Saving # {})
    /\ UNCHANGED <<redis, row, shared, write, last>>

\* A load is through: its instance keeps the version, unless its promise was
\* cleared meanwhile.
Resolve(t, version) ==
    LET i == load[t].at
    IN  /\ load' = [load EXCEPT ![t] = Resting]
        /\ local' = IF redis /\ local[i].by # t THEN local
                    ELSE [local EXCEPT ![i] = [by |-> "none", version |-> version]]

Get(t) ==
    /\ load[t].pc = "get"
    /\ \/ /\ shared # None
          /\ Resolve(t, shared)
       \/ /\ shared = None
          /\ load' = [load EXCEPT ![t].pc = "find"]
          /\ UNCHANGED local
    /\ UNCHANGED <<redis, row, shared, write, last, raced>>

Find(t) ==
    /\ load[t].pc = "find"
    /\ load' = [load EXCEPT ![t].pc = "set", ![t].seen = row]
    /\ UNCHANGED <<redis, row, shared, local, write, last, raced>>

Set(t) ==
    /\ load[t].pc = "set"
    /\ shared' = IF redis THEN load[t].seen ELSE shared
    /\ Resolve(t, load[t].seen)
    /\ UNCHANGED <<redis, row, write, last, raced>>

-----------------------------------------------------------------------------
(* Changes of the row. *)

\* save writes the row, which locks it until the transaction ends, and raises
\* the event: the copy in memory is cleared at once, the one in Redis by a
\* command nobody waits for.
FaultyUpdate(w, i) ==
    /\ Saving = {} /\ row < MaxVersion
    /\ write' = [write EXCEPT ![w] = [at |-> i, todo |-> {"commit"}]]
    /\ local' = [local EXCEPT ![i] = Empty]
    /\ raced' = (raced \/ Loading # {})
    /\ UNCHANGED <<redis, row, shared, load, last>>

Update(w, i) ==
    /\ write[w] = Done /\ row < MaxVersion
    /\ \A v \in Write : "commit" \notin write[v].todo
    /\ write' = [write EXCEPT ![w] =
                    [at |-> i, todo |-> {"commit"} \cup IF redis THEN {"delete"} ELSE {}]]
    /\ local' = [local EXCEPT ![i] = Empty]
    /\ raced' = (raced \/ Loading # {})
    /\ UNCHANGED <<redis, row, shared, load, last>>

\* What is left to be done of a save, after one of its steps.
Proceed(w, done, next) ==
    LET todo == (write[w].todo \ {done}) \cup next
    IN  write' = [write EXCEPT ![w] = IF todo = {} THEN Done ELSE [@ EXCEPT !.todo = todo]]

Commit(w) ==
    /\ "commit" \in write[w].todo
    /\ row' = row + 1 /\ last' = write[w].at
    /\ Proceed(w, "commit", {})
    /\ UNCHANGED <<redis, shared, local, load, raced>>

Rollback(w) ==
    /\ "commit" \in write[w].todo
    /\ Proceed(w, "commit", {})
    /\ UNCHANGED <<redis, row, shared, local, load, last, raced>>

\* The key is deleted from Redis; when the answer is there, the copy in memory
\* is cleared once more.
Delete(w) ==
    /\ "delete" \in write[w].todo
    /\ shared' = None
    /\ Proceed(w, "delete", {"clear"})
    /\ UNCHANGED <<redis, row, local, load, last, raced>>

ClearLocal(w) ==
    /\ "clear" \in write[w].todo
    /\ local' = [local EXCEPT ![write[w].at] = Empty]
    /\ Proceed(w, "clear", {})
    /\ UNCHANGED <<redis, row, shared, load, last, raced>>

\* An update by query, about which no subscriber learns the row's id.
UpdateByQuery ==
    /\ row < MaxVersion /\ \A v \in Write : "commit" \notin write[v].todo
    /\ row' = row + 1 /\ last' = "none"
    /\ UNCHANGED <<redis, shared, local, load, write, raced>>

-----------------------------------------------------------------------------
\* Two minutes are over in Redis, or one in the memory of an instance.
ExpireShared ==
    /\ shared # None
    /\ shared' = None
    /\ UNCHANGED <<redis, row, local, load, write, last, raced>>

ExpireLocal(i) ==
    /\ ~redis /\ local[i] # Empty
    /\ local' = [local EXCEPT ![i] = Empty]
    /\ UNCHANGED <<redis, row, shared, load, write, last, raced>>

Advance(t) == Get(t) \/ Find(t) \/ Set(t)
Proceeds(w) == Commit(w) \/ Rollback(w) \/ Delete(w) \/ ClearLocal(w)

Next ==
    \/ \E t \in Load : Advance(t) \/ \E i \in Instance : Begin(t, i)
    \/ \E w \in Write : Proceeds(w) \/ \E i \in Instance : Update(w, i)
    \/ UpdateByQuery \/ ExpireShared \/ \E i \in Instance : ExpireLocal(i)

\* Loads and saves get on, and what is kept for a time gets too old.
Fairness ==
    /\ \A t \in Load : WF_vars(Advance(t))
    /\ \A w \in Write : WF_vars(Proceeds(w))
    /\ WF_vars(ExpireShared) /\ \A i \in Instance : WF_vars(ExpireLocal(i))

Spec == Init /\ [][Next]_vars /\ Fairness

-----------------------------------------------------------------------------
Version == 0 .. MaxVersion

\* Copies, loads and saves have the shape the loaders rely on.
TypeOK ==
    /\ redis \in BOOLEAN /\ row \in Version /\ shared \in Version \cup {None}
    /\ local \in [Instance -> [by : Load \cup {"none"}, version : Version \cup {None}]]
    /\ load \in [Load -> [pc : {"idle", "get", "find", "set"},
                          at : Instance \cup {"none"}, seen : Version \cup {None}]]
    /\ write \in [Write -> [at : Instance \cup {"none"},
                            todo : SUBSET {"commit", "delete", "clear"}]]
    /\ last \in Instance \cup {"none"} /\ raced \in BOOLEAN

\* While no load and save overlap, the instance that changed the row last loads
\* its own change, and so does everybody who asks Redis.  (An overlapping load
\* may read the row before the commit and keep it after the event.)
OwnWritesSeen ==
    \A i \in Instance :
        last = i /\ ~raced /\ Saving = {} =>
            local[i].version \in {None, row} /\ shared \in {None, row}

\* What EntitySubscriber subscribes for (core/bus/entity.subscriber.ts:46): after
\* a save on one instance the others clear what they have in memory, too.
PeersCatchUp ==
    \A i \in Instance :
        LET stale == local[i].version \notin {None, row}
        IN  last # "none" /\ ~raced /\ stale ~> ~stale
=============================================================================
