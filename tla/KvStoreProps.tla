---------------------------- MODULE KvStoreProps ----------------------------
(***************************************************************************)
(* What the key-value store promises, stated over module KvStore.          *)
(***************************************************************************)
EXTENDS KvStore

CallType ==
    [pc : {"idle", "model", "diff", "insert", "update", "commit", "clear", "delete", "again",
          "done"},
     op : {"none", "merge", "keep", "set", "update"}, id : Ids \cup {0}, val : Value,
     seen : 0..edits, skip : BOOLEAN, final : BOOLEAN, link : Ids \cup {0}]

ThreadType ==
    [pc : {"idle", "get", "rows", "keep", "store"}, place : Place, deep : Place,
     val : Value \cup {NoValue}]

\* Types of the rows, the caches, the calls and the threads of the readers.
TypeOK ==
    /\ config \in Config /\ open \in BOOLEAN
    /\ Ids = 1..Cardinality(Ids) /\ rows \in [Ids -> Value \cup {NoValue}]
    /\ model \in Present \cup {0}
    /\ call \in [Call -> CallType]
    /\ cache \in [Layer -> [Place -> Value \cup {NoValue, Nothing}]]
    /\ thread \in [Thread -> ThreadType] /\ got \in [Reader -> Value \cup {NoValue}]
    /\ edits \in Nat /\ stale \in BOOLEAN /\ slip \in BOOLEAN
    /\ fails \in 0..MaxFail /\ outages \in 0..MaxOutage

\* The data of a key with one row are what administrators last put in, none if
\* they never did: initialisers of any number of instances, calls that break
\* off, and keys destroyed and set up again in between do not touch them.  The
\* exceptions are an initialiser that read before an administrator wrote and
\* wrote after (stale), and data that count as false.
DataSurvive ==
    ~stale /\ kept # "off" /\ Cardinality(Present) = 1
        => \A v \in Visible : v.data = kept

\* Where every write is cleared: in Redis that never lost its connection, or in
\* the memory of the one instance that calls come to.
Watched ==
    IF config.redis THEN IF outages = 0 THEN {"redis"} ELSE {}
    ELSE {i \in Instance : \A c \in Call : call[c].pc # "idle" => Home[c] = i}

\* Between calls a cache of values holds one of the rows, although AfterUpdate
\* clears it before the commit and only set clears it after: unless a value read
\* before a write entered it after the last clear of that write (the old row, while
\* its transaction is open, which update and initialisers never clear again), a row
\* was deleted (nothing is cleared then) or a call broke off before its clear.
ClearedInTime ==
    ~slip /\ (\A c \in Call : call[c].pc # "clear")
        => \A p \in Watched : cache["kv"][p] \in Visible \cup {Nothing}

\* Once the rows do not change any more, every reader ends up with the value of
\* a row, whatever stale values entered which caches in between: with or
\* without Redis, when it goes and comes, and with one cache above the other.
ReadersCatchUp == \A r \in Reader : <>[](got[r] \in Visible)
=============================================================================
