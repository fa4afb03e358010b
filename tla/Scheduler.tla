----------------------------- MODULE Scheduler -----------------------------
(***************************************************************************)
(* The rounds of one cron (CronHelper, CronService) on several instances,  *)
(* and the statistics they leave (StatsHelper).                            *)
(*                                                                         *)
(* Each instance starts a round when its clock says so, whether or not an  *)
(* earlier one is still at work.  With Redis a round runs its handler      *)
(* under a lock with a ttl in seconds; the others pass it over.  What the  *)
(* lock answers is an object, so a round that was passed over is reported  *)
(* as a success too; the error of a handler is caught and logged before    *)
(* anything could report it.                                               *)
(*                                                                         *)
(* The statistics of the cron are one record, in Redis for a day after it  *)
(* was saved last, in the memory of an instance for an hour or as long as  *)
(* there is room for it.                                                   *)
(***************************************************************************)
EXTENDS RedisLock, FiniteSets

CONSTANTS
    Instance, Round,    \* server instances; the rounds that may run at a time
    Config,             \* redis: whether it is enabled; ttl: seconds of the lock;
                        \* work: seconds a handler takes at most
    MaxRounds,          \* bound of the rounds that are started
    MaxCrash            \* bound of the crashes

SchedulerAssumption ==
    /\ Config \subseteq [redis : BOOLEAN, ttl : Nat \ {0}, work : Nat]
    /\ MaxRounds \in Nat /\ MaxCrash \in Nat
    /\ "none" \notin Round /\ "redis" \notin Instance

VARIABLES
    config,
    lock,       \* the lock named after the operation
    round,      \* the rounds: where they are, on which instance, for how long
    success,    \* the counters of successes, in Redis or in memory
    reported,   \* remembers how many rounds have saved each counter since it
                \* was not there
    raced,      \* remembers which counters were read by a round before another
                \* changed them or they ran out
    started, crashes

vars == <<config, lock, round, success, reported, raced, started, crashes>>

None == -1
Second == 1000      \* the clock moves on by a second, in milliseconds
Asleep == [pc |-> "asleep", at |-> "none", age |-> 0, seen |-> None]

\* Where the statistics are kept and read; None is a counter that is not there.
Place == Instance \cup {"redis"}
Kept(r) == IF config.redis THEN "redis" ELSE round[r].at
Read == IF config.redis THEN {"redis"} ELSE Instance

\* Where they are saved: reading asks whether Redis is enabled, saving whether its
\* client is open.  What goes to memory then is not read again.
Saved(r) == {Kept(r)} \cup IF config.redis THEN {round[r].at} ELSE {}

At(pc) == {r \in Round : round[r].pc = pc}

Init ==
    /\ config \in Config
    /\ lock = NoLock
    /\ round = [r \in Round |-> Asleep]
    /\ success = [p \in Place |-> None] /\ reported = [p \in Place |-> 0]
    /\ raced = {}
    /\ started = 0 /\ crashes = 0

\* The milliseconds a lock lasts.
FaultyTtl == config.ttl
Ttl == config.ttl * 1000

OnTick(i, r) ==
    /\ round[r] = Asleep /\ started < MaxRounds
    /\ started' = started + 1
    /\ round' = [round EXCEPT ![r] = [Asleep EXCEPT !.pc = "ask", !.at = i]]
    /\ UNCHANGED <<config, lock, success, reported, raced, crashes>>

Work(r) ==
    /\ round[r].pc = "ask"
    /\ \/ /\ config.redis /\ Free(lock)
          /\ lock' = Taken(r, Ttl)
       \/ /\ ~config.redis
          /\ UNCHANGED lock
    /\ round' = [round EXCEPT ![r].pc = "work"]
    /\ UNCHANGED <<config, success, reported, raced, started, crashes>>

\* Somebody else is at it: the round ends with an answer, and is reported.
PassOver(r) ==
    /\ round[r].pc = "ask" /\ config.redis /\ ~Free(lock)
    /\ round' = [round EXCEPT ![r].pc = "report"]
    /\ UNCHANGED <<config, lock, success, reported, raced, started, crashes>>

\* Without Redis a handler that returns nothing is not reported.
Succeed(r) ==
    /\ round[r].pc = "work"
    /\ lock' = Released(lock, r)
    /\ round' \in {[round EXCEPT ![r].pc = "report"]}
                  \cup IF config.redis THEN {} ELSE {[round EXCEPT ![r] = Asleep]}
    /\ UNCHANGED <<config, success, reported, raced, started, crashes>>

\* The error of a handler is logged, nothing else.  The lock is given back or
\* left to run out, which lies in the lock provider.
Fail(r) ==
    /\ round[r].pc = "work"
    /\ lock' \in {lock, Released(lock, r)}
    /\ round' = [round EXCEPT ![r] = Asleep]
    /\ UNCHANGED <<config, success, reported, raced, started, crashes>>

-----------------------------------------------------------------------------
(* The statistics: the counter is read, and saved in another step. *)

Report(r) ==
    /\ round[r].pc = "report"
    /\ round' = [round EXCEPT ![r].pc = "save", ![r].seen = success[Kept(r)]]
    /\ raced' = raced \cup {Kept(r) : q \in {q \in At("save") : Kept(q) = Kept(r)}}
    /\ UNCHANGED <<config, lock, success, reported, started, crashes>>

\* The counter after a round that read seen.
FaultyCounted(seen) == 1
Counted(seen) == IF seen = None THEN 1 ELSE seen + 1

\* In memory the statistics go through CacheManager.cacheable, which keeps a value
\* that is there.
Save(r) ==
    /\ round[r].pc = "save"
    /\ \E p \in Saved(r) :
          /\ success' = [success EXCEPT ![p] =
                 IF p = "redis" \/ @ = None THEN Counted(round[r].seen) ELSE @]
          /\ reported' = [reported EXCEPT ![p] = @ + 1]
    /\ round' = [round EXCEPT ![r] = Asleep]
    /\ UNCHANGED <<config, lock, raced, started, crashes>>

\* Redis does not answer: the error is logged, the round is not counted.
Reject(r) ==
    /\ round[r].pc \in {"report", "save"} /\ config.redis
    /\ round' = [round EXCEPT ![r] = Asleep]
    /\ UNCHANGED <<config, lock, success, reported, raced, started, crashes>>

\* The statistics run out or make room for others; counting starts again.
Expire(p) ==
    /\ success[p] # None
    /\ success' = [success EXCEPT ![p] = None] /\ reported' = [reported EXCEPT ![p] = 0]
    /\ raced' = IF \E q \in At("save") : Kept(q) = p THEN raced \cup {p} ELSE raced \ {p}
    /\ UNCHANGED <<config, lock, round, started, crashes>>

-----------------------------------------------------------------------------
\* An instance stops in the middle of its rounds; their lock stays behind, the
\* statistics in its memory are lost.
Crash(i) ==
    /\ crashes < MaxCrash
    /\ crashes' = crashes + 1
    /\ round' = [r \in Round |-> IF round[r].at = i THEN Asleep ELSE round[r]]
    /\ success' = [success EXCEPT ![i] = None]
    /\ reported' = [reported EXCEPT ![i] = 0]
    /\ UNCHANGED <<config, lock, raced, started>>

\* A second passes: handlers at work get older, until they must have ended.
Tick ==
    /\ \A r \in At("work") : round[r].age < config.work
    /\ At("work") # {} \/ ~Free(lock)
    /\ lock' = Aged(lock, Second)
    /\ round' = [r \in Round |-> IF round[r].pc = "work"
                                 THEN [round[r] EXCEPT !.age = @ + 1] ELSE round[r]]
    /\ UNCHANGED <<config, success, reported, raced, started, crashes>>

Next ==
    \/ Tick
    \/ \E p \in Place : Expire(p)
    \/ \E i \in Instance : Crash(i) \/ \E r \in Round : OnTick(i, r)
    \/ \E r \in Round : Work(r) \/ PassOver(r) \/ Succeed(r) \/ Fail(r)
                           \/ Report(r) \/ Save(r) \/ Reject(r)

Spec == Init /\ [][Next]_vars

-----------------------------------------------------------------------------
\* Locks, rounds and counters have the shape the scheduler relies on.
TypeOK ==
    /\ config \in Config
    /\ lock \in [by : Round \cup {"none"}, left : 0 .. Ttl]
    /\ round \in [Round -> [pc : {"asleep", "ask", "work", "report", "save"},
                            at : Instance \cup {"none"}, age : 0 .. config.work,
                            seen : Nat \cup {None}]]
    /\ success \in [Place -> Nat \cup {None}] /\ reported \in [Place -> 0 .. started]
    /\ raced \subseteq Place
    /\ started \in 0 .. MaxRounds /\ crashes \in 0 .. MaxCrash

\* With Redis two rounds work at a time only if one of them has worked for as
\* long as its lock lasts, on one instance or on two, whatever crashed before.
OverlapOnlyWhenLate ==
    config.redis =>
        \A r, q \in At("work") :
            r # q => \E late \in {r, q} : round[late].age >= config.ttl

\* A counter of successes says how many rounds have reported, worked without an
\* error or been passed over, since it was not there: until one counts while
\* another does, whose report is lost then, or while the counter runs out, and
\* again from the next time it runs out with nobody counting.  In memory it stays
\* at one.
CountsAddUp ==
    \A p \in Read \ raced :
        success[p] = IF reported[p] = 0 THEN None
                     ELSE IF p = "redis" THEN reported[p] ELSE 1
=============================================================================
