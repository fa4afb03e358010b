------------------------------ MODULE Progress ------------------------------
(***************************************************************************)
(* The parts that have to get on in the end: instances that start, uploads *)
(* and the payment of an order by WeChat.  They share no state, so a       *)
(* behaviour is one of a single part, chosen at the start; the others rest *)
(* where they begin.                                                       *)
(***************************************************************************)
EXTENDS Naturals

CONSTANTS
    Instance, Starts, MaxStops,             \* Startup
    Session, Request, Key, Name, Plans,     \* Upload
    MaxTotal, MaxHaste,
    Order, Methods, Handler, Cron,          \* Payment: its requests are handlers
    MaxFail                                 \* what breaks off in an upload or a payment

VARIABLES part,
          sConfig, sLock, sOld, sNew, sVersion, sNode, sFails,
          plan, tokens, folder, temp, merged, client, req, overlap, uFails, haste,
          method, order, txn, wk, paid, claimed, old, fulfilled, updated, pFails

startup == <<sConfig, sLock, sOld, sNew, sVersion, sNode, sFails>>
upload  == <<plan, tokens, folder, temp, merged, client, req, overlap, uFails, haste>>
payment == <<method, order, txn, wk, paid, claimed, old, fulfilled, updated, pFails>>
vars    == <<part, startup, upload, payment>>

S == INSTANCE Startup WITH Config <- Starts, MaxFail <- MaxStops,
        config <- sConfig, lock <- sLock, old <- sOld, new <- sNew,
        version <- sVersion, node <- sNode, fails <- sFails
U == INSTANCE Upload WITH Config <- Plans, fails <- uFails
P == INSTANCE PaymentProps WITH Request <- Handler, fails <- pFails

ASSUME ProgressAssumption ==
    S!StartupAssumption /\ U!UploadAssumption /\ P!PaymentAssumption

\* Where a part rests: in one of its own initial states.
Init ==
    /\ part \in {"startup", "upload", "payment"}
    /\ S!Init /\ (part # "startup" => sConfig = (CHOOSE c \in Starts : TRUE) /\ ~sOld)
    /\ U!Init /\ (part # "upload" => plan = CHOOSE c \in Plans : TRUE)
    /\ P!Init

Starting(A)  == part = "startup" /\ A /\ UNCHANGED <<part, upload, payment>>
Uploading(A) == part = "upload" /\ A /\ UNCHANGED <<part, startup, payment>>
Paying(A)    == part = "payment" /\ A /\ UNCHANGED <<part, startup, upload>>

Next == Starting(S!Next) \/ Uploading(U!Next) \/ Paying(P!Next)

Fairness ==
    /\ WF_vars(Starting(S!Tick))
    /\ \A i \in Instance : WF_vars(Starting(S!Advance(i)))
    /\ \A q \in Request : WF_vars(Uploading(U!Handle(q)))
    /\ \A s \in Session : WF_vars(Uploading(U!Send(s)))
    /\ \A w \in P!Worker : WF_vars(Paying(P!Step(w)))
    /\ \A c \in Cron : WF_vars(Paying(P!CronBegin(c)))

Spec == Init /\ [][Next]_vars /\ Fairness

-----------------------------------------------------------------------------
(* The properties of the parts, under this specification. *)

\* The lock, the tables, the instances, tokens, rows and calls are well formed.
TypeOK ==
    /\ part = "startup" => S!TypeOK
    /\ part = "upload" => U!TypeOK
    /\ part = "payment" => P!TypeOK

\* Two instances synchronise at a time only after three minutes (Startup).
SyncOneByOne == S!SyncOneByOne

\* Nobody serves requests of a database that is not migrated (Startup).
UpIsMigrated == S!UpIsMigrated

\* Every instance comes up in the end (Startup).
EveryoneComesUp == part = "startup" => S!EveryoneComesUp

\* Chunks that were answered count while none is saved over another (Upload).
NothingForgotten == U!NothingForgotten

\* An upload implements the assembly of a file from its parts (Upload).
IsAssembly == U!IsAssembly

\* A client that sends again one chunk at a time gets its file (Upload).
EventuallyMerged == part = "upload" => U!EventuallyMerged

\* An order that was paid ends as done, whatever gets lost (PaymentProps).
PaidEndsDone == part = "payment" => P!PaidEndsDone
=============================================================================
