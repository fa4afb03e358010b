---------------------------- MODULE PaymentProps ----------------------------
(***************************************************************************)
(* What the payments promise, stated over module Payment.                  *)
(***************************************************************************)
EXTENDS Payment

Pc == {"idle", "method", "pay", "load", "verify", "reload", "next", "query",
       "saveTxn", "writeTxn", "saveOrder", "writeOrder", "handle", "done", "failed"}

Op == {"none", "create", "update", "callback", "notify", "cron"}

WkType == [pc : Pc, op : Op, o : Order, st : OrderStatus, ts : TxnStatus,
           mode : Mode, after : {"saveOrder", "verify", "failed", "done"},
           todo : SUBSET Order, good : BOOLEAN, seen : BOOLEAN, late : BOOLEAN]

\* Types of the rows and of the calls; only calls that break off are counted.
TypeOK ==
    /\ method \in [Order -> Methods]
    /\ order \in [Order -> [exists : BOOLEAN, status : OrderStatus]]
    /\ txn \in [Order -> [exists : BOOLEAN, status : TxnStatus]]
    /\ wk \in [Worker -> WkType]
    /\ paid \subseteq Order /\ claimed \subseteq Order /\ old \subseteq Order
    /\ fulfilled \subseteq Order /\ updated \subseteq Order
    /\ fails \in 0..MaxFail

\* Once the handlers of an order ran, its two rows stay in the tables with
\* status done, whatever cleanExpiredPayments deletes and whatever calls that
\* loaded the order before save late.  (PUT order may set the status of the
\* order back, never that of the transaction.)
FulfilledIsRecorded ==
    \A o \in fulfilled :
        /\ txn[o] = [exists |-> TRUE, status |-> "done"]
        /\ order[o].exists
        /\ o \notin updated => order[o].status = "done"

\* No call that reads an order after its handlers ran runs them again: only
\* calls that overlap fulfil an order twice.  A round of the cron keeps to
\* this where no PUT order sets the status of the order back.
NoLateFulfilment ==
    \A w \in Worker : wk[w].late => w \in Cron /\ updated # {}

\* No order is fulfilled or shown as paid out of nothing: its buyer paid, or a
\* notification of it or a callback with its sign came, which the code takes for
\* a payment; and its transaction is there with a status, which keeps the clean-up
\* away from both.  An order whose creation broke off before its transaction never
\* gets there.
SettledOnWord ==
    \A o \in Order :
        o \in fulfilled \/ order[o].status \in {"paid", "done"} =>
            /\ o \in paid \cup claimed
            /\ txn[o].exists /\ txn[o].status # "null"

\* The callbacks of a third-party order, repeated, overlapping and with
\* signs that do not match, leave the two rows in agreement: when all calls
\* about it ended without breaking off, a transaction that is done has an
\* order that is paid.
DoneMeansPaid ==
    \A o \in Order :
        /\ method[o] \in ThirdParty /\ o \notin updated
        /\ Working(o) = {} /\ fails = 0
        /\ txn[o].status = "done"
        => order[o].status = "paid"

\* validateSign never takes a payment back: unless pay or PUT order saved the
\* row again, a third-party order that is paid stays paid.
PaidIsFinal ==
    [][\A o \in Order :
          /\ method[o] \in ThirdParty /\ order[o].status = "paid"
          /\ o \notin updated
          => order'[o].status = "paid"]_vars

\* A WeChat order that was paid ends as done and stays so, though its
\* notification may be lost and calls may break off between any two steps,
\* unless it was deleted as expired before anybody recorded the payment.
\* Calls fail finitely often: one order whose query always fails would end
\* every round before the orders behind it.
PaidEndsDone ==
    \A o \in Order :
        method[o] = "wxpay" /\ o \in paid ~>
            [](order[o].status = "done") \/ [](~order[o].exists)
=============================================================================
