------------------------------- MODULE Upload -------------------------------
(***************************************************************************)
(* Uploads in chunks (src/src/modules/core/uploader).                      *)
(*                                                                         *)
(* A session is one client with one file: it obtains an operation token    *)
(* whose body counts the finished chunks, sends the chunks, each with the  *)
(* token, and asks for the merge.  Every request loads the token anew, and *)
(* a chunk saves the whole body back: a SELECT, then an UPDATE if anything *)
(* differs.  The chunks of a file lie in a folder named after the client   *)
(* and the file name; nobody ever empties it.                              *)
(*                                                                         *)
(* The client sends its chunks all at once; when it is refused the merge,  *)
(* or a request breaks off, it sends them all again, one at a time.        *)
(***************************************************************************)
EXTENDS Integers, FiniteSets, Sequences

CONSTANTS
    Session,        \* the clients
    Request,        \* the requests in flight at a time
    Key, Name,      \* the keys of tasks and the names of files there are
    Config,         \* the ways the sessions are set up
    MaxTotal,       \* bound of the chunks of a file
    MaxFail,        \* bound of the requests that break off
    MaxHaste        \* bound of the merges asked for too early

\* What a session asks for.  The stream endpoint counts chunks from zero, the
\* form endpoint wants positive numbers.
Plan == [key : Key, name : Name, total : 1 .. MaxTotal, first : {0, 1}]

UploadAssumption ==
    /\ Config \subseteq [Session -> Plan]
    /\ MaxTotal \in Nat /\ MaxFail \in Nat /\ MaxHaste \in Nat

None == "none"
Chunk == 0 .. MaxTotal      \* the numbers of chunks

VARIABLES
    plan,           \* what each session asks for
    tokens,         \* the tokens by key: name, total and finished chunks
    folder,         \* the chunks stored under each name: whose they are
    temp, merged,   \* the merged file under each name, being moved; in place
    client,         \* how far each session is
    req,            \* the requests in flight
    overlap,        \* remembers the sessions that had two savers at a time
    fails, haste

vars == <<plan, tokens, folder, temp, merged, client, req, overlap, fails, haste>>

NoToken == [name |-> None, total |-> 0, finished |-> {}]
Idle == [pc |-> "idle", by |-> None, chunk |-> 0, body |-> NoToken,
         dirty |-> FALSE, parts |-> {}]

FaultyChunks(s) == (plan[s].first + 1) .. (plan[s].first + plan[s].total)
Chunks(s) == plan[s].first .. (plan[s].first + plan[s].total - 1)
Token(s) == tokens[plan[s].key]
Flying(s) == {q \in Request : req[q].pc # "idle" /\ req[q].by = s}

\* A chunk that is between loading the token and saving it.
Saving(s) == {q \in Flying(s) : req[q].pc \in {"store", "diff", "write"}}

Init ==
    /\ plan \in Config
    /\ tokens = [k \in Key |-> NoToken]
    /\ folder = [n \in Name |-> <<>>]
    /\ temp = [n \in Name |-> <<>>] /\ merged = [n \in Name |-> <<>>]
    /\ client = [s \in Session |-> [phase |-> "new", todo |-> {}, acked |-> {},
                                    slow |-> FALSE]]
    /\ req = [q \in Request |-> Idle]
    /\ overlap = {} /\ fails = 0 /\ haste = 0

-----------------------------------------------------------------------------
(* Tasks. *)

\* A task obtains the token of its key; one that is there is used as it is,
\* whatever name and total it was made for (see OperationToken).
Payload(s) == [name |-> plan[s].name, total |-> plan[s].total, finished |-> {}]

FaultyTask(s) ==
    /\ client[s].phase = "new"
    /\ tokens' = [tokens EXCEPT ![plan[s].key] = [Payload(s) EXCEPT !.finished = {1}]]
    /\ client' = [client EXCEPT ![s].phase = "send", ![s].todo = Chunks(s)]
    /\ UNCHANGED <<plan, folder, temp, merged, req, overlap, fails, haste>>

CreateTask(s) ==
    /\ client[s].phase = "new"
    /\ tokens' = [tokens EXCEPT ![plan[s].key] = IF @ = NoToken THEN Payload(s) ELSE @]
    /\ client' = [client EXCEPT ![s].phase = "send", ![s].todo = Chunks(s)]
    /\ UNCHANGED <<plan, folder, temp, merged, req, overlap, fails, haste>>

-----------------------------------------------------------------------------
(* Chunks. *)

\* The guard loads the token before the chunk is received.
BeginChunk(q, s, c) ==
    /\ req[q] = Idle
    /\ client[s].phase = "send" /\ c \in client[s].todo
    /\ client[s].slow => Flying(s) = {}
    /\ req' = [req EXCEPT ![q] = [Idle EXCEPT !.pc = "store", !.by = s,
                                              !.chunk = c, !.body = Token(s)]]
    /\ client' = [client EXCEPT ![s].todo = @ \ {c}]
    /\ overlap' = IF Saving(s) = {} THEN overlap ELSE overlap \cup {s}
    /\ UNCHANGED <<plan, tokens, folder, temp, merged, fails, haste>>

\* The finished chunks of a body after one more of them.
FaultyFinish(body, c) == [body EXCEPT !.finished = {c}]
Finish(body, c) == [body EXCEPT !.finished = @ \cup {c}]

\* The chunk is moved into its folder, over an earlier one of that number.
Store(q) ==
    LET s == req[q].by
        c == req[q].chunk
        n == plan[s].name
    IN  /\ req[q].pc = "store"
        /\ folder' = [folder EXCEPT ![n] =
                         [d \in DOMAIN @ \cup {c} |-> IF d = c THEN s ELSE folder[n][d]]]
        /\ req' = [req EXCEPT ![q].pc = "diff", ![q].body = Finish(@, c)]
        /\ UNCHANGED <<plan, tokens, temp, merged, client, overlap, fails, haste>>

SaveDiff(q) ==
    /\ req[q].pc = "diff"
    /\ req' = [req EXCEPT ![q].pc = "write",
                          ![q].dirty = (req[q].body # Token(req[q].by))]
    /\ UNCHANGED <<plan, tokens, folder, temp, merged, client, overlap, fails, haste>>

SaveWrite(q) ==
    LET s == req[q].by
    IN  /\ req[q].pc = "write"
        /\ tokens' = IF req[q].dirty
                     THEN [tokens EXCEPT ![plan[s].key] = req[q].body] ELSE tokens
        /\ client' = [client EXCEPT ![s].acked = @ \cup {req[q].chunk}]
        /\ req' = [req EXCEPT ![q] = Idle]
        /\ UNCHANGED <<plan, folder, temp, merged, overlap, fails, haste>>

-----------------------------------------------------------------------------
(* The merge. *)

\* The client sends everything again, one chunk at a time.
SendAgain(c, s) == [c EXCEPT !.phase = "send", !.todo = Chunks(s), !.acked = {},
                             !.slow = TRUE]

BeginMerge(q, s) ==
    /\ req[q] = Idle
    /\ client[s].phase = "send"
    /\ \/ /\ client[s].todo = {} /\ Flying(s) = {}
          /\ UNCHANGED haste
       \/ /\ haste < MaxHaste /\ ~client[s].slow
          /\ haste' = haste + 1
    /\ req' = [req EXCEPT ![q] = [Idle EXCEPT !.pc = "sum", !.by = s, !.body = Token(s)]]
    /\ client' = [client EXCEPT ![s].phase = "merge"]
    /\ UNCHANGED <<plan, tokens, folder, temp, merged, overlap, fails>>

FaultyComplete(body) == Cardinality(body.finished) >= body.total - 1

Complete(body) == Cardinality(body.finished) = body.total

\* The client waits for its chunks in flight before it sends again.
Refuse(q) ==
    LET s == req[q].by
    IN  /\ Flying(s) = {q}
        /\ req' = [req EXCEPT ![q] = Idle]
        /\ client' = [client EXCEPT ![s] = SendAgain(@, s)]
        /\ overlap' = overlap \ {s}
        /\ UNCHANGED <<plan, tokens, folder, temp, merged, fails, haste>>

RefuseMerge(q) ==
    /\ req[q].pc = "sum" /\ ~Complete(req[q].body)
    /\ Refuse(q)

\* The folder of the task's own name is listed; no chunks there is an error.
ListChunks(q) ==
    /\ req[q].pc = "sum" /\ Complete(req[q].body)
    /\ req' = [req EXCEPT ![q].pc = "merge",
                          ![q].parts = DOMAIN folder[req[q].body.name]]
    /\ UNCHANGED <<plan, tokens, folder, temp, merged, client, overlap, fails, haste>>

NoChunks(q) ==
    /\ req[q].pc = "merge" /\ req[q].parts = {}
    /\ Refuse(q)

\* The chunks, sorted by number, are written one after the other to a file of
\* the temporary folder: one step, no chunk of the file is replaced meanwhile.
Ordered(parts) ==
    CHOOSE s \in [1 .. Cardinality(parts) -> parts] :
        \A i, j \in DOMAIN s : i < j => s[i] < s[j]

WriteMerged(q) ==
    LET n == req[q].body.name
        order == Ordered(req[q].parts)
    IN  /\ req[q].pc = "merge" /\ req[q].parts # {}
        /\ temp' = [temp EXCEPT ![n] = [i \in DOMAIN order |->
                                           <<order[i], folder[n][order[i]]>>]]
        /\ req' = [req EXCEPT ![q].pc = "move"]
        /\ UNCHANGED <<plan, tokens, folder, merged, client, overlap, fails, haste>>

\* The file is moved into the storage of files.
StoreMerged(q) ==
    LET n == req[q].body.name
    IN  /\ req[q].pc = "move" /\ temp[n] # <<>>
        /\ merged' = [merged EXCEPT ![n] = temp[n]]
        /\ temp' = [temp EXCEPT ![n] = <<>>]
        /\ client' = [client EXCEPT ![req[q].by].phase = "done"]
        /\ req' = [req EXCEPT ![q] = Idle]
        /\ UNCHANGED <<plan, tokens, folder, overlap, fails, haste>>

\* Another merge of that name has moved the file away.
NothingToMove(q) ==
    /\ req[q].pc = "move" /\ temp[req[q].body.name] = <<>>
    /\ Refuse(q)

\* A request breaks off: the server stops, or a file or the row cannot be
\* written.  The client sends that chunk again, or all of them after a merge.
Break(q) ==
    LET s == req[q].by
    IN  /\ req[q].pc # "idle" /\ fails < MaxFail
        /\ fails' = fails + 1
        /\ \/ /\ req[q].pc \in {"store", "diff", "write"}
              /\ client' = [client EXCEPT ![s].todo = @ \cup {req[q].chunk}]
              /\ UNCHANGED overlap
           \/ /\ req[q].pc \in {"sum", "merge", "move"} /\ Flying(s) = {q}
              /\ client' = [client EXCEPT ![s] = SendAgain(@, s)]
              /\ overlap' = overlap \ {s}
        /\ req' = [req EXCEPT ![q] = Idle]
        /\ UNCHANGED <<plan, tokens, folder, temp, merged, haste>>

-----------------------------------------------------------------------------
Handle(q) ==
    \/ Store(q) \/ SaveDiff(q) \/ SaveWrite(q)
    \/ RefuseMerge(q) \/ ListChunks(q) \/ NoChunks(q)
    \/ WriteMerged(q) \/ StoreMerged(q) \/ NothingToMove(q)

Send(s) ==
    \/ CreateTask(s)
    \/ \E q \in Request : \/ BeginMerge(q, s)
                          \/ \E c \in Chunks(s) : BeginChunk(q, s, c)

Next == \/ \E q \in Request : Handle(q) \/ Break(q)
        \/ \E s \in Session : Send(s)

\* Requests get on, and clients go on until they have their file.
Fairness == /\ \A q \in Request : WF_vars(Handle(q))
            /\ \A s \in Session : WF_vars(Send(s))

Spec == Init /\ [][Next]_vars /\ Fairness

-----------------------------------------------------------------------------
TokenType == [name : Name \cup {None}, total : Nat, finished : SUBSET Chunk]

\* Tokens, folders and requests have the shape the uploader relies on.
TypeOK ==
    /\ plan \in Config
    /\ tokens \in [Key -> TokenType]
    /\ \A n \in Name : /\ DOMAIN folder[n] \subseteq Chunk
                       /\ \A c \in DOMAIN folder[n] : folder[n][c] \in Session
                       /\ temp[n] \in Seq(Chunk \X Session)
                       /\ merged[n] \in Seq(Chunk \X Session)
    /\ \A s \in Session :
          client[s] \in [phase : {"new", "send", "merge", "done"}, todo : SUBSET Chunks(s),
                         acked : SUBSET Chunks(s), slow : BOOLEAN]
    /\ \A q \in Request :
          req[q] \in [pc : {"idle", "store", "diff", "write", "sum", "merge", "move"},
                      by : Session \cup {None}, chunk : Chunk, body : TokenType,
                      dirty : BOOLEAN, parts : SUBSET Chunk]
    /\ overlap \subseteq Session /\ fails \in 0 .. MaxFail /\ haste \in 0 .. MaxHaste

\* A session whose key and name nobody else uses.
Alone(s) == \A t \in Session \ {s} : plan[t].key # plan[s].key /\ plan[t].name # plan[s].name

\* While two chunks of a session are never saved at a time, every chunk that was
\* answered counts: a token loaded later has the bits of all that were saved.
NothingForgotten ==
    \A s \in Session : Alone(s) /\ s \notin overlap => client[s].acked \subseteq Token(s).finished

\* What arrives of a session that shares neither key nor name is put together
\* from all of its chunks, in order, however often and in whatever order they
\* are sent, saved over each other or lost.
A == INSTANCE Assembly WITH
        File    <- Session,
        Part    <- Chunk,
        wanted  <- [s \in Session |-> IF Alone(s) THEN Chunks(s) ELSE {}],
        arrived <- [s \in Session |->
                       IF Alone(s) THEN DOMAIN folder[plan[s].name] ELSE {}],
        whole   <- {s \in Session : Alone(s) /\ merged[plan[s].name] # <<>>}
IsAssembly == A!Spec

\* Chunks saved over each other make the merge refuse, but not for good: a
\* client that sends its chunks again one at a time gets its file.
EventuallyMerged == \A s \in Session : Alone(s) ~> client[s].phase = "done"
=============================================================================
