------------------------------ MODULE Startup ------------------------------
(***************************************************************************)
(* How the instances of the server start (src/src/bootstrap.ts, helper.ts, *)
(* lifecycle.ts) and bring the schema up to date.                          *)
(*                                                                         *)
(* Each instance, before it listens, renames the old tables, lets TypeORM  *)
(* create what is missing and runs the migrations.  With Redis this is     *)
(* done under the lock sync-db, for which instances wait; it lasts three   *)
(* minutes.  An error anywhere ends the process, as signals do; whoever    *)
(* runs the server starts it again.                                        *)
(***************************************************************************)
EXTENDS RedisLock, FiniteSets

CONSTANTS
    Instance,
    Config,         \* sync: DB_SYNCHRONIZE; redis: whether it is enabled;
                    \* work: minutes a synchronisation takes at most
    MaxFail         \* bound of the errors and signals

StartupAssumption ==
    /\ Config \subseteq [sync : BOOLEAN, redis : BOOLEAN, work : Nat]
    /\ MaxFail \in Nat /\ "none" \notin Instance

VARIABLES
    config,
    lock,           \* the lock sync-db
    old, new,       \* the table under its old name, is it there; under its new
                    \* name: absent, empty or full
    version,        \* the version of the migrations in the key-value store
    node,           \* the instances: where they are, for how long they have
                    \* synchronised, which tables they saw, the version they read
    fails

vars == <<config, lock, old, new, version, node, fails>>

Minute == 60 * 1000     \* the clock moves on by a minute, in milliseconds
Migration == 1          \* the version of the migrations in the code

Down == [pc |-> "down", age |-> 0, from |-> FALSE, to |-> FALSE]

\* Inside syncDb.
SyncPc == {"look", "rename", "create", "check", "migrate", "update", "unlock"}
Syncing == {i \in Instance : node[i].pc \in SyncPc}

\* A database of the release before, or an empty one.
Init ==
    /\ config \in Config
    /\ lock = NoLock
    /\ old \in BOOLEAN /\ new = "absent" /\ version = 0
    /\ node = [i \in Instance |-> Down]
    /\ fails = 0

Goto(i, pc) == node' = [node EXCEPT ![i].pc = pc]
schema == <<old, new, version>>

-----------------------------------------------------------------------------
\* Preload connects to Redis and empties the caches; then the modules start.
Preload(i) ==
    /\ node[i].pc = "down"
    /\ Goto(i, IF config.sync THEN "wait" ELSE "init")
    /\ UNCHANGED <<config, lock, schema, fails>>

FaultyTtl == 3

SyncTtl == 3 * Minute

SyncAlone(i) ==
    /\ node[i].pc = "wait" /\ ~config.redis
    /\ Goto(i, "look")
    /\ UNCHANGED <<config, lock, schema, fails>>

\* The instance waits until the lock is free.
TakeLock(i) ==
    /\ node[i].pc = "wait" /\ config.redis /\ Free(lock)
    /\ lock' = Taken(i, SyncTtl)
    /\ Goto(i, "look")
    /\ UNCHANGED <<config, schema, fails>>

-----------------------------------------------------------------------------
(* syncDb. *)

FaultyLookTables(i) ==
    /\ node[i].pc = "look"
    /\ node' = [node EXCEPT ![i].pc = "rename", ![i].from = TRUE, ![i].to = (new # "absent")]
    /\ UNCHANGED <<config, lock, schema, fails>>

LookTables(i) ==
    /\ node[i].pc = "look"
    /\ node' = [node EXCEPT ![i].pc = "rename", ![i].from = old, ![i].to = (new # "absent")]
    /\ UNCHANGED <<config, lock, schema, fails>>

Rename(i) ==
    /\ node[i].pc = "rename"
    /\ \/ /\ node[i].to \/ ~node[i].from
          /\ UNCHANGED <<old, new>>
       \/ /\ ~node[i].to /\ node[i].from
          /\ old /\ new = "absent"
          /\ old' = FALSE /\ new' = "full"
    /\ Goto(i, "create")
    /\ UNCHANGED <<config, lock, version, fails>>

\* Another instance has renamed the table, or created it, since it was seen.
RenameFails(i) ==
    /\ node[i].pc = "rename"
    /\ ~node[i].to /\ node[i].from /\ (~old \/ new # "absent")
    /\ node' = [node EXCEPT ![i] = Down]
    /\ lock' \in {lock, Released(lock, i)}
    /\ UNCHANGED <<config, schema, fails>>

FaultySynchronize(i) ==
    /\ node[i].pc = "create"
    /\ new' = IF new = "absent" THEN "empty" ELSE new
    /\ Goto(i, "unlock")
    /\ UNCHANGED <<config, lock, old, version, fails>>

\* TypeORM creates the tables of the entities that are missing.
Synchronize(i) ==
    /\ node[i].pc = "create"
    /\ new' = IF new = "absent" THEN "empty" ELSE new
    /\ Goto(i, "check")
    /\ UNCHANGED <<config, lock, old, version, fails>>

CheckVersion(i) ==
    /\ node[i].pc = "check"
    /\ Goto(i, IF version < Migration THEN "migrate" ELSE "unlock")
    /\ UNCHANGED <<config, lock, schema, fails>>

Migrate(i) ==
    /\ node[i].pc = "migrate"
    /\ Goto(i, "update")
    /\ UNCHANGED <<config, lock, schema, fails>>

UpdateVersion(i) ==
    /\ node[i].pc = "update"
    /\ version' = Migration
    /\ Goto(i, "unlock")
    /\ UNCHANGED <<config, lock, old, new, fails>>

Unlock(i) ==
    /\ node[i].pc = "unlock"
    /\ lock' = Released(lock, i)
    /\ node' = [node EXCEPT ![i] = [Down EXCEPT !.pc = "init"]]
    /\ UNCHANGED <<config, schema, fails>>

-----------------------------------------------------------------------------
\* The signal handlers are installed, the handlers of beforeBootstrap run.
OnInit(i) ==
    /\ node[i].pc = "init"
    /\ Goto(i, "listen")
    /\ UNCHANGED <<config, lock, schema, fails>>

Listen(i) ==
    /\ node[i].pc = "listen"
    /\ Goto(i, "up")
    /\ UNCHANGED <<config, lock, schema, fails>>

\* An error of a step, or a signal, at any time: SIGTERM exits without any
\* clean-up.  Whether an error in syncDb gives the lock back lies in the
\* provider; a process that is killed leaves it behind.
Stop(i) ==
    /\ node[i].pc # "down" /\ fails < MaxFail
    /\ fails' = fails + 1
    /\ node' = [node EXCEPT ![i] = Down]
    /\ lock' \in {lock, Released(lock, i)}
    /\ UNCHANGED <<config, schema>>

\* A minute passes.
Tick ==
    /\ ~Free(lock) \/ Syncing # {}
    /\ \A i \in Syncing : node[i].age < config.work
    /\ lock' = Aged(lock, Minute)
    /\ node' = [i \in Instance |-> IF i \in Syncing
                                   THEN [node[i] EXCEPT !.age = @ + 1] ELSE node[i]]
    /\ UNCHANGED <<config, schema, fails>>

Advance(i) ==
    \/ Preload(i) \/ SyncAlone(i) \/ TakeLock(i)
    \/ LookTables(i) \/ Rename(i) \/ RenameFails(i) \/ Synchronize(i)
    \/ CheckVersion(i) \/ Migrate(i) \/ UpdateVersion(i) \/ Unlock(i)
    \/ OnInit(i) \/ Listen(i)

Next == Tick \/ \E i \in Instance : Advance(i) \/ Stop(i)

\* Time passes and a process goes on.
Fairness == WF_vars(Tick) /\ \A i \in Instance : WF_vars(Advance(i))

Spec == Init /\ [][Next]_vars /\ Fairness

-----------------------------------------------------------------------------
\* The lock, the tables and the instances have the shape the start relies on.
TypeOK ==
    /\ config \in Config
    /\ lock \in [by : Instance \cup {"none"}, left : 0 .. SyncTtl]
    /\ old \in BOOLEAN /\ new \in {"absent", "empty", "full"} /\ version \in 0 .. Migration
    /\ node \in [Instance -> [pc : SyncPc \cup {"down", "wait", "init", "listen", "up"},
                              age : 0 .. config.work, from : BOOLEAN, to : BOOLEAN]]
    /\ fails \in 0 .. MaxFail

\* With Redis two instances change the schema at a time only if one of them has
\* been at it for three minutes.
SyncOneByOne ==
    config.redis => \A i, j \in Syncing :
                       i # j => \E late \in {i, j} : node[late].age >= 3

\* No instance that synchronises serves requests before the old rows are under
\* their new name and the migrations have run; and no empty table ever takes
\* the place of the full one, whoever was stopped where.
UpIsMigrated ==
    /\ ~(old /\ new # "absent")
    /\ config.sync => \A i \in Instance : node[i].pc \in {"init", "listen", "up"} =>
                                             new # "absent" /\ version = Migration

\* Every instance comes up in the end and stays up, though another one was
\* stopped and left the lock behind.
EveryoneComesUp == \A i \in Instance : <>[](node[i].pc = "up")
=============================================================================
