------------------------------- MODULE Payment -------------------------------
(***************************************************************************)
(* The payments of src/src/modules/payments: an order and its transaction  *)
(* are created together, the provider is asked to collect the money, and   *)
(* its notification, or for WeChat the periodic status query, settles      *)
(* them and runs the handlers of the application (the fulfilment).         *)
(*                                                                         *)
(* A worker is one asynchronous call, of any server instance; between two  *)
(* of its database round trips any other worker may run.  The Requests run *)
(* once, the Crons are the rounds of check-wx-payment-status: several may  *)
(* overlap, the lock of a round expires while it runs.                     *)
(*                                                                         *)
(* entity.save() of TypeORM is a SELECT that finds out whether the row is  *)
(* missing or which columns differ, and an INSERT or UPDATE that assumes   *)
(* what it found.  A worker holds the status columns of the entities it    *)
(* loaded; a transaction deleted by anyone takes its order with it, and    *)
(* an order row refers to a transaction row (foreign key).                 *)
(***************************************************************************)
EXTENDS Naturals, FiniteSets

CONSTANTS
    Order,          \* the orders that may come to exist, each with a transaction
    Methods,        \* the payment methods on offer
    Request, Cron,  \* the workers
    MaxFail         \* bound of the calls that break off in the middle

\* Third-party methods hand the payment over in the answer ("post") or with a
\* GET request (extra.method = 'GET').
ThirdParty == {"post", "get"}
Method == {"wxpay", "alipay"} \cup ThirdParty

ASSUME PaymentAssumption ==
    /\ Order # {} /\ Methods \subseteq Method /\ Methods # {}
    /\ Request \cap Cron = {}
    /\ MaxFail \in Nat

VARIABLES
    method,     \* the payment method the buyer of each order picked
    order,      \* the order rows
    txn,        \* the transaction rows
    wk,         \* the workers
    paid,       \* the orders whose buyer paid: what the provider knows
    claimed,    \* remembers the orders a notification came for, or a callback
                \* with their sign: the code asks for no other proof
    old,        \* the orders whose transaction was created over a day ago
    fulfilled,  \* the orders the notifyHandlers ran for
    updated,    \* the orders whose row updateOrder saved again
    fails       \* the calls that broke off

vars == <<method, order, txn, wk, paid, claimed, old, fulfilled, updated, fails>>

Worker == Request \cup Cron

OrderStatus == {"null", "waiting", "paid", "done"}
TxnStatus   == {"null", "signed", "error", "done"}

\* "keep": the row is there and its status is the one the entity has.
Mode == {"insert", "update", "keep"}

Missing == [exists |-> FALSE, status |-> "null"]
Fresh   == [exists |-> TRUE, status |-> "null"]

Active(w) == wk[w].pc \notin {"idle", "done", "failed"}

Working(o) == {w \in Worker : Active(w) /\ wk[w].o = o}

\* The provider of order o knows it: pay has handed it over.
HandedOver(o) ==
    /\ txn[o].exists
    /\ IF method[o] \in ThirdParty THEN order[o].status # "null"
       ELSE \A w \in Working(o) : wk[w].pc # "pay"

\* A worker that runs nothing; the local variables of a call end with it,
\* but for late, which remembers a fulfilment that came late.
Blank == [pc |-> "idle", op |-> "none", o |-> CHOOSE o \in Order : TRUE,
          st |-> "null", ts |-> "null", mode |-> "keep", after |-> "done",
          todo |-> {}, good |-> FALSE, seen |-> FALSE, late |-> FALSE]

At(me, pc) == IF pc \in {"idle", "done", "failed"}
              THEN [Blank EXCEPT !.pc = pc, !.late = me.late]
              ELSE [me EXCEPT !.pc = pc, !.mode = "keep"]

Goto(w, pc) == wk' = [wk EXCEPT ![w] = At(@, pc)]

\* The call rejects.  A request that did is over; a round of the cron leaves
\* the rest of its orders to the next round.
Reject(w) == Goto(w, IF w \in Cron THEN "idle" ELSE "failed")

-----------------------------------------------------------------------------
(* entity.save() *)

ModeOf(row, status) ==
    IF ~row.exists THEN "insert"
    ELSE IF row.status # status THEN "update" ELSE "keep"

\* The row after the second round trip; an UPDATE of a missing row is no error.
Saved(row, mode, status) ==
    IF mode = "insert" \/ (mode = "update" /\ row.exists)
    THEN [exists |-> TRUE, status |-> status] ELSE row

SaveTxn(w) ==
    /\ wk[w].pc = "saveTxn"
    /\ wk' = [wk EXCEPT ![w].pc = "writeTxn",
                        ![w].mode = ModeOf(txn[wk[w].o], wk[w].ts)]
    /\ UNCHANGED <<method, order, txn, paid, claimed, old, fulfilled, updated, fails>>

WriteTxn(w) ==
    LET o == wk[w].o
    IN  /\ wk[w].pc = "writeTxn"
        /\ IF wk[w].mode = "insert" /\ txn[o].exists
           THEN Reject(w) /\ UNCHANGED txn              \* duplicate key
           ELSE /\ txn' = [txn EXCEPT ![o] = Saved(@, wk[w].mode, wk[w].ts)]
                /\ Goto(w, wk[w].after)
        /\ UNCHANGED <<method, order, paid, claimed, old, fulfilled, updated, fails>>

SaveOrder(w) ==
    /\ wk[w].pc = "saveOrder"
    /\ wk' = [wk EXCEPT ![w].pc = "writeOrder",
                        ![w].mode = ModeOf(order[wk[w].o], wk[w].st)]
    /\ UNCHANGED <<method, order, txn, paid, claimed, old, fulfilled, updated, fails>>

\* What follows the order's save(): the handlers after a settlement, in pay
\* of a third-party method the GET request, if it is configured to send one.
AfterOrder(w) ==
    CASE wk[w].op \in {"notify", "cron"}       -> {"handle"}
      [] wk[w].op = "create" /\ method[wk[w].o] = "get" -> {"reload", "done"}
      [] OTHER                                   -> {"done"}

WriteOrder(w) ==
    LET o == wk[w].o
    IN  /\ wk[w].pc = "writeOrder"
        /\ IF wk[w].mode = "insert" /\ (order[o].exists \/ ~txn[o].exists)
           THEN Reject(w) /\ UNCHANGED order            \* duplicate or foreign key
           ELSE /\ order' = [order EXCEPT ![o] = Saved(@, wk[w].mode, wk[w].st)]
                /\ \E pc \in AfterOrder(w) : Goto(w, pc)
        /\ UNCHANGED <<method, txn, paid, claimed, old, fulfilled, updated, fails>>

-----------------------------------------------------------------------------
(* PaymentHelper.createOrder and pay: POST order *)

Begin(r, op, o, pc, good) ==
    /\ wk[r].pc = "idle"
    /\ wk' = [wk EXCEPT ![r].pc = pc, ![r].op = op, ![r].o = o, ![r].good = good]

\* The order is saved before its method is looked up.
CreateOrder(r) ==
    \E o \in Order :
        /\ ~order[o].exists /\ ~txn[o].exists /\ o \notin paid \cup old
        /\ Begin(r, "create", o, "method", FALSE)
        /\ order' = [order EXCEPT ![o] = Fresh]
        /\ \E m \in Methods : method' = [method EXCEPT ![o] = m]
        /\ UNCHANGED <<txn, paid, claimed, old, fulfilled, updated, fails>>

\* The transaction is inserted and linked to its order in one transaction.
CreateTxn(r) ==
    /\ wk[r].pc = "method"
    /\ txn' = [txn EXCEPT ![wk[r].o] = Fresh]
    /\ Goto(r, "pay")
    /\ UNCHANGED <<method, order, paid, claimed, old, fulfilled, updated, fails>>

\* Only a third-party method records the payment before its provider knows it.
StartPay(r) ==
    /\ wk[r].pc = "pay"
    /\ IF method[wk[r].o] \in ThirdParty
       THEN wk' = [wk EXCEPT ![r].pc = "saveTxn", ![r].after = "saveOrder",
                             ![r].ts = "signed", ![r].st = "waiting"]
       ELSE Goto(r, "done")
    /\ UNCHANGED <<method, order, txn, paid, claimed, old, fulfilled, updated, fails>>

-----------------------------------------------------------------------------
(* updateOrder, PUT order and the end of a third-party pay.  The data goes   *)
(* into an entity that order.save() does not cascade to: only the columns    *)
(* of the order are saved, its status as it was loaded.                      *)

BeginUpdate(r) ==
    /\ \E o \in Order : Begin(r, "update", o, "reload", FALSE)
    /\ UNCHANGED <<method, order, txn, paid, claimed, old, fulfilled, updated, fails>>

UpdateOrder(r) ==
    LET o == wk[r].o
    IN  /\ wk[r].pc = "reload"
        /\ IF order[o].exists /\ txn[o].exists
           THEN /\ wk' = [wk EXCEPT ![r].pc = "saveOrder", ![r].op = "update",
                                    ![r].st = order[o].status]
                /\ updated' = updated \cup {o}
           ELSE Reject(r) /\ UNCHANGED updated
        /\ UNCHANGED <<method, order, txn, paid, claimed, old, fulfilled, fails>>

-----------------------------------------------------------------------------
(* validateSign: the callback of a third-party provider about an order it knows *)

\* A good sign is the one pay put into its answer: it says which order is meant,
\* not that anybody paid.
BeginCallback(r) ==
    /\ \E o \in Order, good \in BOOLEAN :
          /\ method[o] \in ThirdParty /\ HandedOver(o)
          /\ Begin(r, "callback", o, "load", good)
          /\ claimed' = IF good THEN claimed \cup {o} ELSE claimed
    /\ UNCHANGED <<method, order, txn, paid, old, fulfilled, updated, fails>>

\* The body is saved into the transaction before the sign is looked at.
LoadCallback(r) ==
    LET o == wk[r].o
    IN  /\ wk[r].pc = "load" /\ wk[r].op = "callback"
        /\ IF order[o].exists /\ txn[o].exists
           THEN wk' = [wk EXCEPT ![r].pc = "saveTxn", ![r].after = "verify",
                                 ![r].ts = txn[o].status]
           ELSE Reject(r)
        /\ UNCHANGED <<method, order, txn, paid, claimed, old, fulfilled, updated, fails>>

\* Faulty: the order is not saved after its transaction.
VerifySignForgetsOrder(r) ==
    /\ wk[r].pc = "verify"
    /\ wk' = [wk EXCEPT ![r] =
          IF wk[r].good /\ wk[r].ts # "done"
          THEN [@ EXCEPT !.pc = "saveTxn", !.after = "done", !.ts = "done"]
          ELSE At(@, IF wk[r].good THEN "done" ELSE "failed")]
    /\ UNCHANGED <<method, order, txn, paid, claimed, old, fulfilled, updated, fails>>

\* Faulty: a sign that does not match puts the order back.
VerifySignReopens(r) ==
    /\ wk[r].pc = "verify"
    /\ wk' = [wk EXCEPT ![r] =
          [@ EXCEPT !.pc = "saveTxn", !.after = "saveOrder",
                    !.ts = IF wk[r].good THEN "done" ELSE "error",
                    !.st = IF wk[r].good THEN "paid" ELSE "waiting"]]
    /\ UNCHANGED <<method, order, txn, paid, claimed, old, fulfilled, updated, fails>>

VerifySign(r) ==
    /\ wk[r].pc = "verify"
    /\ wk' = [wk EXCEPT ![r] =
          IF ~wk[r].good
          THEN [@ EXCEPT !.pc = "saveTxn", !.after = "failed", !.ts = "error"]
          ELSE IF wk[r].ts # "done"
          THEN [@ EXCEPT !.pc = "saveTxn", !.after = "saveOrder",
                         !.ts = "done", !.st = "paid"]
          ELSE At(@, "done")]
    /\ UNCHANGED <<method, order, txn, paid, claimed, old, fulfilled, updated, fails>>

-----------------------------------------------------------------------------
(* handlePaymentNotify: POST notify of alipay and WeChat *)

\* Whatever the provider has to say of an order it was handed, perhaps long ago:
\* the result it reports is not read.
BeginNotify(r) ==
    /\ \E o \in Order :
          /\ method[o] \notin ThirdParty /\ (HandedOver(o) \/ o \in old)
          /\ Begin(r, "notify", o, "load", TRUE)
          /\ claimed' = claimed \cup {o}
    /\ UNCHANGED <<method, order, txn, paid, old, fulfilled, updated, fails>>

\* Both settle: the transaction first, the order next, the handlers last.
Settling(me) ==
    [me EXCEPT !.pc = "saveTxn", !.after = "saveOrder", !.ts = "done", !.st = "done"]

LoadNotify(r) ==
    LET o == wk[r].o
    IN  /\ wk[r].pc = "load" /\ wk[r].op = "notify"
        /\ IF ~order[o].exists \/ ~txn[o].exists
           THEN Reject(r)
           ELSE wk' = [wk EXCEPT ![r] =
                   IF txn[o].status = "done" THEN At(@, "done")
                   ELSE Settling([@ EXCEPT !.seen = o \in fulfilled])]
        /\ UNCHANGED <<method, order, txn, paid, claimed, old, fulfilled, updated, fails>>

\* _.each(notifyHandlers, (handler) => handler(order))
Handle(w) ==
    /\ wk[w].pc = "handle"
    /\ fulfilled' = fulfilled \cup {wk[w].o}
    /\ wk' = [wk EXCEPT ![w] = At([@ EXCEPT !.late = wk[w].late \/ wk[w].seen],
                                   IF w \in Cron THEN "next" ELSE "done")]
    /\ UNCHANGED <<method, order, txn, paid, claimed, old, updated, fails>>

-----------------------------------------------------------------------------
(* PaymentWxpayHelper.checkPaymentStatus, every five minutes *)

\* Faulty: looks for transactions without a status, not for orders.
CronBeginByTxn(c) ==
    /\ wk[c].pc = "idle"
    /\ wk' = [wk EXCEPT ![c].pc = "next", ![c].op = "cron",
                        ![c].todo = {o \in Order :
                                       /\ order[o].exists /\ txn[o].status = "null"
                                       /\ txn[o].exists /\ method[o] = "wxpay"}]
    /\ UNCHANGED <<method, order, txn, paid, claimed, old, fulfilled, updated, fails>>

\* One SELECT of all orders without a status.  Those without a transaction and
\* those of other methods are skipped without another round trip.
CronBegin(c) ==
    /\ wk[c].pc = "idle"
    /\ wk' = [wk EXCEPT ![c].pc = "next", ![c].op = "cron",
                        ![c].todo = {o \in Order :
                                       /\ order[o].exists /\ order[o].status = "null"
                                       /\ txn[o].exists /\ method[o] = "wxpay"}]
    /\ UNCHANGED <<method, order, txn, paid, claimed, old, fulfilled, updated, fails>>

\* Faulty: the status of the reloaded order is not looked at.
CronReloadUnchecked(c) ==
    /\ wk[c].pc = "next"
    /\ \E o \in wk[c].todo :
          wk' = [wk EXCEPT ![c].pc = "query", ![c].o = o, ![c].todo = @ \ {o},
                           ![c].seen = o \in fulfilled]
    /\ UNCHANGED <<method, order, txn, paid, claimed, old, fulfilled, updated, fails>>

\* order.reload(), which rejects when the row is gone.
CronReload(c) ==
    /\ wk[c].pc = "next"
    /\ \E o \in wk[c].todo :
          IF ~order[o].exists
          THEN Reject(c)
          ELSE wk' = [wk EXCEPT ![c] =
                  [@ EXCEPT !.pc = IF order[o].status = "done" THEN "next" ELSE "query",
                            !.o = o, !.todo = wk[c].todo \ {o}, !.seen = o \in fulfilled]]
    /\ UNCHANGED <<method, order, txn, paid, claimed, old, fulfilled, updated, fails>>

\* Faulty: any answer of the provider counts as paid.
CronQueryAnyAnswer(c) ==
    /\ wk[c].pc = "query"
    /\ wk' = [wk EXCEPT ![c] = Settling(@)]
    /\ UNCHANGED <<method, order, txn, paid, claimed, old, fulfilled, updated, fails>>

CronQuery(c) ==
    LET o == wk[c].o
    IN  /\ wk[c].pc = "query"
        /\ IF ~order[o].exists
           THEN Reject(c)
           ELSE wk' = [wk EXCEPT ![c] = IF o \in paid THEN Settling(@)
                                        ELSE [@ EXCEPT !.pc = "next"]]
        /\ UNCHANGED <<method, order, txn, paid, claimed, old, fulfilled, updated, fails>>

CronEnd(c) ==
    /\ wk[c].pc = "next" /\ wk[c].todo = {}
    /\ Goto(c, "idle")
    /\ UNCHANGED <<method, order, txn, paid, claimed, old, fulfilled, updated, fails>>

-----------------------------------------------------------------------------
(* cleanExpiredPayments, every hour, and the world outside *)

\* Faulty: the status of the transactions is not looked at.
CleanAllOld ==
    LET gone == {o \in old : txn[o].exists}
    IN  /\ gone # {}
        /\ txn' = [o \in Order |-> IF o \in gone THEN Missing ELSE txn[o]]
        /\ order' = [o \in Order |-> IF o \in gone THEN Missing ELSE order[o]]
        /\ UNCHANGED <<method, wk, paid, claimed, old, fulfilled, updated, fails>>

\* One DELETE of the transactions without a status; their orders go with them.
CleanExpired ==
    LET gone == {o \in old : txn[o].exists /\ txn[o].status = "null"}
    IN  /\ gone # {}
        /\ txn' = [o \in Order |-> IF o \in gone THEN Missing ELSE txn[o]]
        /\ order' = [o \in Order |-> IF o \in gone THEN Missing ELSE order[o]]
        /\ UNCHANGED <<method, wk, paid, claimed, old, fulfilled, updated, fails>>

\* A buyer pays within the hours the provider accepts it, once pay has handed
\* the payment over.
BuyerPays(o) ==
    /\ HandedOver(o) /\ o \notin paid \cup old
    /\ paid' = paid \cup {o}
    /\ UNCHANGED <<method, order, txn, wk, claimed, old, fulfilled, updated, fails>>

\* A day passes: no request that creates the order is still running.
Age(o) ==
    /\ txn[o].exists /\ o \notin old
    /\ \A w \in Working(o) : wk[w].op # "create"
    /\ old' = old \cup {o}
    /\ UNCHANGED <<method, order, txn, wk, paid, claimed, fulfilled, updated, fails>>

\* A lookup, the database or the provider fails, or the instance stops.
Fail(w) ==
    /\ Active(w) /\ fails < MaxFail
    /\ fails' = fails + 1
    /\ Reject(w)
    /\ UNCHANGED <<method, order, txn, paid, claimed, old, fulfilled, updated>>

-----------------------------------------------------------------------------
Init ==
    /\ method = [o \in Order |-> CHOOSE m \in Methods : TRUE]
    /\ order = [o \in Order |-> Missing]
    /\ txn = [o \in Order |-> Missing]
    /\ wk = [w \in Worker |-> Blank]
    /\ paid = {} /\ claimed = {} /\ old = {} /\ fulfilled = {} /\ updated = {}
    /\ fails = 0

\* The steps of a call that began.
Step(w) ==
    \/ SaveTxn(w) \/ WriteTxn(w) \/ SaveOrder(w) \/ WriteOrder(w) \/ Handle(w)
    \/ CreateTxn(w) \/ StartPay(w) \/ UpdateOrder(w)
    \/ LoadCallback(w) \/ VerifySign(w) \/ LoadNotify(w)
    \/ CronReload(w) \/ CronQuery(w) \/ CronEnd(w)

Next ==
    \/ \E r \in Request : CreateOrder(r) \/ BeginUpdate(r) \/ BeginCallback(r)
                             \/ BeginNotify(r)
    \/ \E c \in Cron : CronBegin(c)
    \/ \E w \in Worker : Step(w) \/ Fail(w)
    \/ CleanExpired
    \/ \E o \in Order : BuyerPays(o) \/ Age(o)

\* Node resumes every call whose round trip ended, and node-cron starts a round
\* every five minutes.
Fairness ==
    /\ \A w \in Worker : WF_vars(Step(w))
    /\ \A c \in Cron : WF_vars(CronBegin(c))

Spec == Init /\ [][Next]_vars /\ Fairness
=============================================================================
