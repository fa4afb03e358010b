------------------------------ MODULE KvStore ------------------------------
(***************************************************************************)
(* One key of the key-value store (src/src/modules/core/kv) and the caches *)
(* in front of it (src/src/modules/cache).                                 *)
(*                                                                         *)
(* Calls of KvService, on any server instance, change the rows; no index   *)
(* makes (collection, key) unique.  Readers look a value up again and      *)
(* again through CacheWrapper: in Redis while it is connected, otherwise   *)
(* in the memory of their instance.  A hit in Redis starts a refresh       *)
(* behind the reader's back (cache-first).  Settings read with the older   *)
(* KvHelper have a second cache under the first, around find.              *)
(*                                                                         *)
(* A value has a form, which initialisers bring along, and the data that   *)
(* administrators fill in; Off is one that JavaScript takes for false.     *)
(***************************************************************************)
EXTENDS Integers, FiniteSets

CONSTANTS
    Call, Reader,   \* calls, each runs once; readers, which go on for ever
    Instance, Home, \* the server instances; the one of each call and reader
    Form, Data,     \* the forms and the data there are
    Input,          \* the values administrators put in
    Config,         \* the configurations of the deployment
    MaxFail,        \* bound of the calls that break off in the middle
    MaxOutage       \* bound of the times Redis loses its connection

NoData == "none"
Off    == [form |-> "none", data |-> "off"]
Value  == [form : Form, data : Data \cup {NoData}] \cup {Off}

\* What find returns for a key without rows, and a cache that holds nothing.
NoValue == [form |-> "none", data |-> "absent"]
Nothing == [form |-> "none", data |-> "nothing"]

\* The calls that are made, and the options an initialiser was registered with,
\* "none" if there is none; whether Redis is enabled and whether its connection
\* may be lost; whether find is cached too.
ConfigType ==
    [ops : SUBSET {"init", "set", "update", "destroy"}, init : {"merge", "keep", "none"},
     redis : BOOLEAN, loses : BOOLEAN, deep : BOOLEAN]

ASSUME KvAssumption ==
    /\ Home \in [Call \cup Reader -> Instance] /\ "redis" \notin Instance
    /\ Form \cap {"none"} = {} /\ Data \cap {NoData, "off", "absent", "nothing"} = {}
    /\ Input \subseteq Value
    /\ Config \subseteq ConfigType
    /\ MaxFail \in Nat /\ MaxOutage \in Nat

VARIABLES
    config,     \* the configuration of this deployment
    rows,       \* the rows of KeyValuePair for this key, by id
    model,      \* the row of KeyValueModel: the id it refers to
    call,       \* the calls
    cache,      \* the caches: [layer -> [place -> value]]
    thread,     \* the threads of the readers: reading, refreshing either cache
    got,        \* what each reader got last
    open,       \* whether Redis is connected
    kept, edits, stale,   \* remember: the data last put in by an administrator,
                          \* how often that happened, whether an initialiser
                          \* wrote over what it had not read
    slip,       \* remembers whether a cache could fall behind the rows
    fails, outages

table  == <<config, rows, model>>
caches == <<cache, thread, got>>
ghost  == <<kept, edits, stale>>
vars == <<config, rows, model, call, cache, thread, got, open, kept, edits,
          stale, slip, fails, outages>>

Layer == {"kv", "find"}
Place == Instance \cup {"redis"}
Thread == Reader \X {"read", "kv", "find"}

Ids == DOMAIN rows
Missing(id) == rows[id] = NoValue
Present == {id \in Ids : ~Missing(id)}

\* findBy has no order: which of several rows comes first is up to the database.
First == IF Present = {} THEN {0} ELSE Present
Visible == IF Present = {} THEN {NoValue} ELSE {rows[id] : id \in Present}

Falsy(v) == v \in {Off, NoValue}

-----------------------------------------------------------------------------
(* KvService.set, also as an initialiser *)

\* Faulty: the initialiser's values are not omitted.
MergedWhole(old, new) == new

\* { ...exists.value, ..._.omit(value, 'values') }
Merged(old, new) ==
    [form |-> new.form, data |-> IF old = Off THEN NoData ELSE old.data]

IdleCall == [pc |-> "idle", op |-> "none", id |-> 0, val |-> Off, seen |-> 0,
             skip |-> FALSE, final |-> FALSE, link |-> 0]

\* A call that is done keeps nothing but a model on its way.
Goto(c, pc) ==
    call' = [call EXCEPT ![c] =
        IF pc = "done" THEN [IdleCall EXCEPT !.pc = "done", !.link = call[c].link]
        ELSE [@ EXCEPT !.pc = pc]]

\* Where set goes on after its look-ups.
AfterLookups(op, id) == IF id = 0 THEN "insert" ELSE "diff"

\* set finds the row and computes what to save.  With a name it looks for the
\* model next, if there is a row.
Start(c, op, new) ==
    \E id \in First : \E named \in {TRUE} \cup (IF op = "set" THEN {FALSE} ELSE {}) :
        LET old  == IF id = 0 THEN NoValue ELSE rows[id]
            skip == op = "keep" /\ ~Falsy(old)
        IN  call' = [call EXCEPT ![c] =
                [@ EXCEPT !.op = op, !.id = id, !.seen = edits, !.skip = skip,
                          !.final = op # "merge" \/ id = 0,
                          !.val = IF op = "merge" /\ id # 0 THEN Merged(old, new) ELSE new,
                          !.pc = IF id # 0 /\ named THEN "model"
                                 ELSE AfterLookups(op, id)]]

\* An instance starts: regInitializer.
Initialise(c) ==
    /\ call[c].pc = "idle" /\ "init" \in config.ops /\ config.init # "none"
    /\ \E f \in Form : Start(c, config.init, [form |-> f, data |-> NoData])
    /\ UNCHANGED <<table, caches, ghost, open, slip, fails, outages>>

\* POST api/kv.
Set(c) ==
    /\ call[c].pc = "idle" /\ "set" \in config.ops
    /\ \E v \in Input : Start(c, "set", v)
    /\ UNCHANGED <<table, caches, ghost, open, slip, fails, outages>>

\* KeyValueModel.findOneBy; nobody waits for the save of a missing one.
Model(c) ==
    /\ call[c].pc = "model"
    /\ LET link == IF model = 0 THEN call[c].id ELSE 0
       IN  call' = [call EXCEPT ![c] =
               IF call[c].skip THEN [IdleCall EXCEPT !.pc = "done", !.link = link]
               ELSE [@ EXCEPT !.pc = "diff", !.link = link]]
    /\ UNCHANGED <<table, caches, ghost, open, slip, fails, outages>>

\* The names of models are unique, and the row referred to must be there.
Link(c) ==
    /\ call[c].link # 0
    /\ model' = IF model = 0 /\ ~Missing(call[c].link) THEN call[c].link ELSE model
    /\ call' = [call EXCEPT ![c].link = 0]
    /\ UNCHANGED <<config, rows, caches, ghost, open, slip, fails, outages>>

\* First round trip of save: the row as it is now.
Diff(c) ==
    /\ call[c].pc = "diff"
    /\ Goto(c, IF Missing(call[c].id) THEN "insert"
               ELSE IF rows[call[c].id] # call[c].val THEN "update"
               ELSE IF call[c].final THEN "clear" ELSE "done")
    /\ UNCHANGED <<table, caches, ghost, open, slip, fails, outages>>

IsAdmin(op) == op \in {"set", "update"}

\* Call c wrote its value: remembers who put in the data.
Wrote(c) ==
    LET me == call[c]
    IN  IF IsAdmin(me.op)
        THEN kept' = me.val.data /\ edits' = edits + 1 /\ UNCHANGED stale
        ELSE /\ stale' = (stale \/ me.seen # edits)
             /\ UNCHANGED <<kept, edits>>

\* A row found before keeps its id; an id taken meanwhile is an error.  The
\* finally of set clears the cache, the event AfterUpdate does not fire.
Insert(c) ==
    LET id == IF call[c].id = 0 THEN Cardinality(Ids) + 1 ELSE call[c].id
    IN  /\ call[c].pc = "insert"
        /\ IF id \in Present THEN UNCHANGED <<rows, ghost, slip>>
           ELSE /\ rows' = [i \in Ids \cup {id} |-> IF i = id THEN call[c].val ELSE rows[i]]
                /\ Wrote(c)
                /\ slip' = (slip \/ ~call[c].final)
        /\ Goto(c, IF call[c].final THEN "clear" ELSE "done")
        /\ UNCHANGED <<config, model, caches, open, fails, outages>>

\* CacheUtils.clear: of Redis if it is enabled, whether it is connected or not
\* (the client then rejects, or delivers later); otherwise of this instance.
\* The key it also clears in memory is one nothing is stored under.
Cleared(c) ==
    IF ~config.redis THEN {[cache EXCEPT !["kv"][Home[c]] = Nothing]}
    ELSE {[cache EXCEPT !["kv"]["redis"] = Nothing]} \cup (IF open THEN {} ELSE {cache})

\* The row is locked by a transaction: other writers of it wait.
Locked(id) == \E c \in Call : call[c].pc = "commit" /\ call[c].id = id

\* Faulty: the event AfterUpdate does not clear the cache.
UpdateSilent(c) ==
    /\ call[c].pc = "update" /\ ~Locked(call[c].id)
    /\ Goto(c, "commit")
    /\ UNCHANGED <<table, caches, ghost, open, slip, fails, outages>>

\* The UPDATE and its event AfterUpdate, which clears the cache while the
\* transaction of save is still open.  Nobody waits for Redis: it may come to
\* the clear only after the commit.
Update(c) ==
    /\ call[c].pc = "update" /\ ~Locked(call[c].id)
    /\ \/ cache' \in Cleared(c) /\ Goto(c, "commit")
       \/ /\ config.redis /\ UNCHANGED cache
          /\ call' = [call EXCEPT ![c].pc = "commit", ![c].final = TRUE]
    /\ UNCHANGED <<table, thread, got, ghost, open, slip, fails, outages>>

\* Others see the row now.  The finally of set clears the cache again, update and
\* the merge of an initialiser leave it at that.
Commit(c) ==
    /\ call[c].pc = "commit"
    /\ IF Missing(call[c].id) THEN UNCHANGED <<rows, ghost>>
       ELSE rows' = [rows EXCEPT ![call[c].id] = call[c].val] /\ Wrote(c)
    /\ Goto(c, IF call[c].final THEN "clear" ELSE "done")
    /\ UNCHANGED <<config, model, caches, open, slip, fails, outages>>

\* The clear after the write.
Clear(c) ==
    /\ call[c].pc = "clear"
    /\ cache' \in Cleared(c)
    /\ Goto(c, "done")
    /\ UNCHANGED <<table, thread, got, ghost, open, slip, fails, outages>>

-----------------------------------------------------------------------------
(* KvService.update, delete and KvController.destroy *)

Load(c) ==
    /\ call[c].pc = "idle" /\ "update" \in config.ops
    /\ \E id \in Present, v \in Input :
          call' = [call EXCEPT ![c] = [@ EXCEPT !.op = "update", !.id = id, !.val = v,
                                                !.seen = edits, !.pc = "diff"]]
    /\ UNCHANGED <<table, caches, ghost, open, slip, fails, outages>>

Destroy(c) ==
    /\ call[c].pc = "idle" /\ "destroy" \in config.ops
    /\ Goto(c, IF Present = {} THEN "again" ELSE "delete")
    /\ UNCHANGED <<table, caches, ghost, open, slip, fails, outages>>

\* Faulty: the models are left behind.
DeleteRows(c) ==
    /\ call[c].pc = "delete" /\ \A id \in Present : ~Locked(id)
    /\ rows' = [id \in Ids |-> NoValue]
    /\ kept' = NoData /\ edits' = edits + 1 /\ slip' = TRUE
    /\ Goto(c, "again")
    /\ UNCHANGED <<config, model, caches, stale, open, fails, outages>>

\* The models go with the rows (onDelete: 'CASCADE'); no cache is cleared.
Delete(c) ==
    /\ call[c].pc = "delete" /\ \A id \in Present : ~Locked(id)
    /\ rows' = [id \in Ids |-> NoValue] /\ model' = 0
    /\ kept' = NoData /\ edits' = edits + 1 /\ slip' = TRUE
    /\ Goto(c, "again")
    /\ UNCHANGED <<config, caches, stale, open, fails, outages>>

\* reInitInitializer
Again(c) ==
    /\ call[c].pc = "again"
    /\ IF config.init = "none" THEN Goto(c, "done")
       ELSE \E f \in Form : Start(c, config.init, [form |-> f, data |-> NoData])
    /\ UNCHANGED <<table, caches, ghost, open, slip, fails, outages>>

\* The database fails or the instance stops.
Fail(c) ==
    /\ call[c].pc \notin {"idle", "done"} /\ fails < MaxFail
    /\ fails' = fails + 1 /\ slip' = TRUE
    /\ call' = [call EXCEPT ![c] = [IdleCall EXCEPT !.pc = "done"]]
    /\ UNCHANGED <<table, caches, ghost, open, outages>>

-----------------------------------------------------------------------------
(* InMemoryDB.save around KvService.get or KvHelper.get *)

Idle(t) == thread[t].pc = "idle"

\* Where reader r keeps its values at the moment.
PlaceNow(r) == IF config.redis /\ open THEN "redis" ELSE Home[r]

\* Faulty: a hit in Redis is not refreshed.
RefreshedNever(th, t, pc, place) == th

\* A hit in Redis is refreshed by the thread t.
Refreshed(th, t, pc, place) ==
    IF place = "redis" THEN [th EXCEPT ![t].pc = pc, ![t].place = place] ELSE th

\* At most one refresh per reader and cache is on its way.
Free(t, place) == place = "redis" => Idle(t)

Lookup(r) ==
    LET t == <<r, "read">>
        p == PlaceNow(r)
        v == cache["kv"][p]
    IN  /\ Idle(t)
        /\ IF v # Nothing
           THEN /\ Free(<<r, "kv">>, p)
                /\ thread' = Refreshed(thread, <<r, "kv">>, "get", p)
                /\ got' = [got EXCEPT ![r] = v]
           ELSE /\ thread' = [thread EXCEPT ![t].pc = "get", ![t].place = p]
                /\ UNCHANGED got
        /\ UNCHANGED <<table, call, cache, ghost, open, slip, fails, outages>>

\* KvHelper.find asks its own cache, which takes an empty result for a hit.
Find(r, k) ==
    LET t == <<r, k>>
        p == PlaceNow(r)
        v == cache["find"][p]
    IN  /\ thread[t].pc = "get" /\ config.deep
        /\ IF v # Nothing
           THEN /\ Free(<<r, "find">>, p)
                /\ thread' = [Refreshed(thread, <<r, "find">>, "rows", p)
                              EXCEPT ![t].pc = "store", ![t].val = v]
           ELSE thread' = [thread EXCEPT ![t].pc = "rows", ![t].deep = p]
        /\ UNCHANGED <<table, call, cache, got, ghost, open, slip, fails, outages>>

\* KeyValuePair.findBy
Rows(r, k) ==
    LET t == <<r, k>>
    IN  /\ IF config.deep THEN thread[t].pc = "rows" ELSE thread[t].pc = "get"
        /\ \E v \in Visible :
              thread' = [thread EXCEPT ![t].val = v,
                  ![t].pc = IF config.deep THEN "keep" ELSE "store"]
        /\ UNCHANGED <<table, call, cache, got, ghost, open, slip, fails, outages>>

\* Redis refuses a value while it is not connected: the thread ends.
Refused(p) == p = "redis" /\ ~open

\* A write that cleared the cache before its commit, and will not do so after.
Overdue(c) == call[c].pc = "commit" /\ ~call[c].final

\* A value enters a cache, perhaps after the rows changed or just before they do.
Entered(l, p, v) ==
    /\ cache' = [cache EXCEPT ![l][p] = v]
    /\ slip' = (\/ slip
                \/ v \notin Visible \cup {Nothing}
                \/ v # Nothing /\ \E c \in Call : Overdue(c))

IdleThread(t) ==
    [pc |-> "idle", place |-> Home[t[1]], deep |-> Home[t[1]], val |-> NoValue]

Stop(t) == thread' = [thread EXCEPT ![t] = IdleThread(t)]

\* The result of find enters its cache.
Keep(r, k) ==
    LET t == <<r, k>>
        p == IF k = "find" THEN thread[t].place ELSE thread[t].deep
    IN  /\ thread[t].pc = "keep"
        /\ IF Refused(p) THEN Stop(t) /\ UNCHANGED <<cache, slip>>
           ELSE /\ Entered("find", p, thread[t].val)
                /\ IF k = "find" THEN Stop(t)
                   ELSE thread' = [thread EXCEPT ![t].pc = "store"]
        /\ UNCHANGED <<table, call, got, ghost, open, fails, outages>>

\* A false value is removed from Redis, and never a hit in memory.
Store(r, k) ==
    LET t == <<r, k>>
        v == thread[t].val
    IN  /\ thread[t].pc = "store"
        /\ IF Refused(thread[t].place)
           THEN UNCHANGED <<cache, slip, got>>
           ELSE /\ Entered("kv", thread[t].place, IF Falsy(v) THEN Nothing ELSE v)
                /\ got' = IF k = "read" THEN [got EXCEPT ![r] = v] ELSE got
        /\ Stop(t)
        /\ UNCHANGED <<table, call, ghost, open, fails, outages>>

\* A value gets too old or makes room for another.
Expire(l, p) ==
    /\ cache[l][p] # Nothing
    /\ cache' = [cache EXCEPT ![l][p] = Nothing]
    /\ UNCHANGED <<table, call, thread, got, ghost, open, slip, fails, outages>>

\* Redis loses or regains its connection, with its values or without.
Outage ==
    /\ config.redis /\ config.loses
    /\ IF open THEN outages < MaxOutage /\ outages' = outages + 1 ELSE UNCHANGED outages
    /\ open' = ~open
    /\ UNCHANGED <<table, call, caches, ghost, slip, fails>>

Quiet ==
    /\ \A c \in Call : call[c].pc \in {"idle", "done"}
    /\ UNCHANGED vars

-----------------------------------------------------------------------------
Init ==
    /\ config \in Config
    /\ \E v \in Input \cup {NoValue} :
          IF v = NoValue THEN rows = << >> /\ kept = NoData
                         ELSE rows = <<v>> /\ kept = v.data
    /\ model = 0
    /\ call = [c \in Call |-> IdleCall]
    /\ cache = [l \in Layer |-> [p \in Place |-> Nothing]]
    /\ thread = [t \in Thread |-> IdleThread(t)]
    /\ got = [r \in Reader |-> NoValue]
    /\ open = config.redis
    /\ edits = 0 /\ stale = FALSE /\ slip = FALSE /\ fails = 0 /\ outages = 0

CallStep(c) ==
    \/ Initialise(c) \/ Set(c) \/ Model(c) \/ Link(c) \/ Diff(c) \/ Insert(c)
    \/ Update(c) \/ Commit(c) \/ Clear(c) \/ Load(c) \/ Destroy(c) \/ Delete(c) \/ Again(c)
    \/ Fail(c)

ThreadStep(r, k) == Find(r, k) \/ Rows(r, k) \/ Keep(r, k) \/ Store(r, k)

Kind == {"read", "kv", "find"}

Next ==
    \/ \E c \in Call : CallStep(c)
    \/ \E r \in Reader : Lookup(r) \/ \E k \in Kind : ThreadStep(r, k)
    \/ \E l \in Layer, p \in Place : Expire(l, p)
    \/ Outage
    \/ Quiet

\* Settings are read again and again, round trips end, and what is kept in memory
\* expires: a hit does not prolong it.  In Redis every refresh does.
Fairness ==
    /\ \A r \in Reader : /\ WF_vars(Lookup(r))
                         /\ \A k \in Kind : WF_vars(ThreadStep(r, k))
    /\ \A l \in Layer, i \in Instance : WF_vars(Expire(l, i))

Spec == Init /\ [][Next]_vars /\ Fairness
=============================================================================
