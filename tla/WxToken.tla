------------------------------ MODULE WxToken ------------------------------
(***************************************************************************)
(* The access token of a WeChat account (WxHelper.getAccessToken).         *)
(*                                                                         *)
(* Everybody who calls the WeChat API asks for the token.  It is kept in   *)
(* Redis for as long as WeChat says; who finds none there fetches one,     *)
(* under a lock of 60 milliseconds, and who finds the lock taken fails.    *)
(* Without Redis every instance keeps one of its own in memory, for two    *)
(* hours, and nothing keeps two callers from fetching.  A token that is    *)
(* issued ends the earlier ones, which is how WeChat works.                *)
(***************************************************************************)
EXTENDS RedisLock, FiniteSets

CONSTANTS
    Caller, Instance,
    Config,         \* redis: whether it is enabled; work: ticks a fetch takes at most
    MaxIssued,      \* bound of the tokens WeChat issues
    MaxFail         \* bound of the calls that break off

WxTokenAssumption ==
    /\ Config \subseteq [redis : BOOLEAN, work : Nat]
    /\ MaxIssued \in Nat /\ MaxFail \in Nat
    /\ "none" \notin Caller /\ "redis" \notin Instance

VARIABLES
    config,
    lock,           \* the lock named as the token
    stored,         \* the tokens in Redis and in the memories, 0 if there is none
    issued,         \* the last token WeChat issued, which is the valid one
    last,           \* remembers the place it was issued for
    call,           \* the callers: where they are, on which instance, their token
    crossed,        \* remembers the places two fetches ran for at a time, since
                    \* the newest token was stored there with no other fetch running
    lost,           \* remembers that the last token was issued but never stored
    fails

vars == <<config, lock, stored, issued, last, call, crossed, lost, fails>>

\* Where tokens are kept: the one place with Redis, one per instance without.
Place == Instance \cup {"redis"}
Kept(i) == IF config.redis THEN "redis" ELSE i

Tick20 == 20        \* the clock moves on by 20 milliseconds
Ready == [pc |-> "ready", at |-> "redis", token |-> 0, age |-> 0]
Fetching == {c \in Caller : call[c].pc \in {"fetch", "keep"}}
FetchingFor(p) == {c \in Fetching : call[c].at = p}

Init ==
    /\ config \in Config
    /\ lock = NoLock
    /\ stored = [p \in Place |-> 0] /\ issued = 0 /\ last = "redis"
    /\ call = [c \in Caller |-> Ready]
    /\ crossed = {} /\ lost = FALSE /\ fails = 0

-----------------------------------------------------------------------------
\* The milliseconds of the lock: 60, though a fetch takes seconds.
Ttl == 60

\* A token that is there is the answer; otherwise the caller goes on.
Look(c, i) ==
    LET p == Kept(i)
    IN  /\ call[c] = Ready
        /\ stored[p] = 0 /\ issued < MaxIssued
        /\ call' = [call EXCEPT ![c].at = p,
                                ![c].pc = IF config.redis THEN "lock" ELSE "fetch"]
        /\ crossed' = IF ~config.redis /\ FetchingFor(p) # {} THEN crossed \cup {p} ELSE crossed
        /\ UNCHANGED <<config, lock, stored, issued, last, lost, fails>>

Slow(c) == call[c].age * Tick20 >= Ttl

FaultyTakeLock(c) ==
    /\ call[c].pc = "lock"
    /\ lock' = Taken(c, Ttl)
    /\ call' = [call EXCEPT ![c].pc = "fetch"]
    /\ crossed' = IF \E d \in Fetching : Slow(d) THEN crossed \cup {"redis"} ELSE crossed
    /\ UNCHANGED <<config, stored, issued, last, lost, fails>>

TakeLock(c) ==
    /\ call[c].pc = "lock" /\ Free(lock)
    /\ lock' = Taken(c, Ttl)
    /\ call' = [call EXCEPT ![c].pc = "fetch"]
    /\ crossed' = IF \E d \in Fetching : Slow(d) THEN crossed \cup {"redis"} ELSE crossed
    /\ UNCHANGED <<config, stored, issued, last, lost, fails>>

\* The lock is somebody's: no access token got.
Refuse(c) ==
    /\ call[c].pc = "lock" /\ ~Free(lock)
    /\ call' = [call EXCEPT ![c] = Ready]
    /\ UNCHANGED <<config, lock, stored, issued, last, crossed, lost, fails>>

\* WeChat issues a token, whether or not somebody stored one meanwhile.
Issue(c) ==
    /\ call[c].pc = "fetch" /\ issued < MaxIssued
    /\ issued' = issued + 1 /\ last' = call[c].at /\ lost' = FALSE
    /\ call' = [call EXCEPT ![c].pc = "keep", ![c].token = issued + 1]
    /\ UNCHANGED <<config, lock, stored, crossed, fails>>

\* The token is stored, and the lock given back.
Keep(c) ==
    LET p == call[c].at
    IN  /\ call[c].pc = "keep"
        /\ stored' = [stored EXCEPT ![p] = call[c].token]
        /\ lock' = Released(lock, c)
        /\ call' = [call EXCEPT ![c] = Ready]
        /\ crossed' = IF call[c].token = issued /\ FetchingFor(p) = {c}
                      THEN crossed \ {p} ELSE crossed
        /\ UNCHANGED <<config, issued, last, lost, fails>>

\* The fetch or the storing fails, or the process stops.
Break(c) ==
    /\ call[c].pc \in {"fetch", "keep"} /\ fails < MaxFail
    /\ fails' = fails + 1
    /\ lock' \in {lock, Released(lock, c)}
    /\ call' = [call EXCEPT ![c] = Ready]
    /\ lost' = (lost \/ (call[c].pc = "keep" /\ call[c].token = issued))
    /\ UNCHANGED <<config, stored, issued, last, crossed>>

\* A token in Redis runs out as WeChat said it would, one in memory after two
\* hours, or to make room for something else, or with its instance.
Expire(p) ==
    /\ stored[p] # 0
    /\ stored' = [stored EXCEPT ![p] = 0]
    /\ UNCHANGED <<config, lock, issued, last, call, crossed, lost, fails>>

Tick ==
    /\ ~Free(lock) \/ Fetching # {}
    /\ \A c \in Fetching : call[c].age < config.work
    /\ lock' = Aged(lock, Tick20)
    /\ call' = [c \in Caller |-> IF c \in Fetching
                                 THEN [call[c] EXCEPT !.age = @ + 1] ELSE call[c]]
    /\ UNCHANGED <<config, stored, issued, last, crossed, lost, fails>>

Next == \/ Tick
        \/ \E p \in Place : Expire(p)
        \/ \E c \in Caller : \/ \E i \in Instance : Look(c, i)
                             \/ TakeLock(c) \/ Refuse(c) \/ Issue(c) \/ Keep(c) \/ Break(c)

Spec == Init /\ [][Next]_vars

-----------------------------------------------------------------------------
\* Tokens, lock and callers have the shape the helper relies on.
TypeOK ==
    /\ config \in Config
    /\ lock \in [by : Caller \cup {"none"}, left : 0 .. Ttl]
    /\ issued \in 0 .. MaxIssued /\ stored \in [Place -> 0 .. issued] /\ last \in Place
    /\ call \in [Caller -> [pc : {"ready", "lock", "fetch", "keep"}, at : Place,
                            token : 0 .. issued, age : 0 .. config.work]]
    /\ crossed \subseteq Place /\ lost \in BOOLEAN /\ fails \in 0 .. MaxFail

\* A token is answered from where the newest one was issued for only if it is the
\* newest, the one WeChat accepts, unless that is about to be stored, or was lost
\* when its fetch broke off; or two fetches ran for this place at a time, which
\* with Redis takes one that was slower than its lock.  With Redis this is all
\* there is; without, what every other instance answers has ended.
StoredIsNewest ==
    /\ last \notin crossed /\ ~lost /\ stored[last] # 0 =>
          stored[last] = issued \/ \E c \in FetchingFor(last) : call[c].token = issued
    /\ \A p \in Place \ {last} : stored[p] # 0 => stored[p] < issued /\ ~config.redis
=============================================================================
