--------------------------- MODULE PaymentProofs ----------------------------
(***************************************************************************)
(* Proofs for module Payment, for every value of its constants: type       *)
(* correctness, and the invariants and the action property of PaymentProps.*)
(*                                                                         *)
(* The argument is rely/guarantee.  An inductive invariant says what each  *)
(* worker knows of the order it works on (Knows).  Every step, of any      *)
(* worker or of the world, keeps what the others rely on (Kept, and        *)
(* Undisturbed for an order that is being created); so one lemma covers    *)
(* the workers that do not move, and each action is proved for the worker  *)
(* that does.                                                              *)
(***************************************************************************)
EXTENDS PaymentProps, TLAPS

-----------------------------------------------------------------------------
(* The inductive invariant. *)

DoneRow == [exists |-> TRUE, status |-> "done"]

\* The orders the code has somebody's word for: the provider's, or that of a
\* notification or a callback.
Word == paid \cup claimed

USE DEF Word

\* An order that was created is there, or was when it came of age.
Created(o) == order[o].exists \/ o \in old

ByThirdParty(o) == method[o] \in ThirdParty

\* The transaction has what an order with a status needs.
Backed(o) == IF ByThirdParty(o) THEN txn[o].status # "null" ELSE txn[o] = DoneRow

Ended      == {"idle", "done", "failed"}
SavesTxn   == {"saveTxn", "writeTxn"}
SavesOrder == {"saveOrder", "writeOrder"}
Saves      == SavesTxn \cup SavesOrder
Settles    == {"notify", "cron"}

\* Which operation is in which step, with which values to save.
InOrder(me) ==
    /\ me.pc \in Ended => ~me.seen
    /\ me.pc \in {"method", "pay"} => me.op = "create"
    /\ me.pc = "load" => me.op \in {"callback", "notify"}
    /\ me.pc = "verify" => me.op = "callback"
    /\ me.pc = "reload" => me.op \in {"create", "update"}
    /\ me.pc \in {"next", "query"} => me.op = "cron"
    /\ me.pc = "handle" => me.op \in Settles
    /\ me.pc \in SavesTxn => me.op \in {"create", "callback"} \cup Settles
    /\ me.pc \in SavesOrder => me.op \in {"create", "update", "callback"} \cup Settles
    /\ me.pc \in Saves /\ me.op = "create" =>
          me.after = "saveOrder" /\ me.ts = "signed" /\ me.st = "waiting"
    /\ me.pc \in Saves /\ me.op \in Settles =>
          me.after = "saveOrder" /\ me.ts = "done" /\ me.st = "done"
    /\ me.pc \in SavesTxn /\ me.op = "callback" =>
          \/ me.after = "verify"
          \/ me.after = "failed" /\ me.ts = "error"
          \/ me.after = "saveOrder" /\ me.ts = "done" /\ me.st = "paid" /\ me.good
    /\ me.pc \in SavesOrder /\ me.op = "callback" => me.st = "paid" /\ me.good

\* Rounds of the cron run in the workers of the cron, and only there.
InPlace(w, me) == me.pc \notin Ended => (me.op = "cron" <=> w \in Cron)

\* The request that creates an order is still at it.
Creating(me) == me.op = "create" /\ me.pc \in {"method", "pay"} \cup Saves

\* How the two rows of an order, its payment and its age go together.
Rows ==
    \A o \in Order :
        /\ ~order[o].exists => order[o] = Missing
        /\ ~txn[o].exists => txn[o] = Missing
        /\ txn[o].exists => Created(o)
        /\ o \in old /\ order[o].exists => txn[o].exists
        /\ o \in Word => txn[o].exists \/ o \in old
        /\ order[o].status # "null" => Backed(o)

\* While an order is created its row is fresh and nobody knows of it.
Creator(me) == Creating(me) =>
    /\ order[me.o] = Fresh /\ me.o \notin Word \cup old
    /\ me.pc = "method" <=> ~txn[me.o].exists
    /\ me.pc \in {"pay"} \cup SavesTxn => txn[me.o] = Fresh
    /\ me.pc \in Saves => ByThirdParty(me.o)
    /\ me.pc \in {"writeTxn", "writeOrder"} => me.mode = "update"
    /\ me.pc \in SavesOrder => txn[me.o].status # "null"

\* A callback is about an order that pay has recorded.
Callback(me) == me.pc \notin Ended /\ me.op = "callback" =>
    /\ ByThirdParty(me.o) /\ txn[me.o].status # "null" /\ order[me.o].exists
    /\ me.good => me.o \in Word
    /\ me.pc \in SavesTxn => me.ts # "null"
    /\ me.pc \in {"writeTxn", "writeOrder"} => me.mode # "insert"

\* Notifications and rounds of the cron are about created orders of the two
\* providers that know them; they settle those they have word of.
Settler(me) ==
    /\ me.pc \notin Ended /\ me.op = "notify" => me.o \in Word /\ ~ByThirdParty(me.o)
    /\ me.pc = "next" => \A p \in me.todo : Created(p) /\ ~ByThirdParty(p)
    /\ me.op = "cron" /\ me.pc \notin Ended \cup {"next"} =>
          /\ Created(me.o) /\ ~ByThirdParty(me.o)
          /\ \A p \in me.todo : Created(p) /\ ~ByThirdParty(p)
    /\ me.pc \in Saves \cup {"handle"} /\ me.op \in Settles => me.o \in Word

\* The transaction is done before the order, both before the handlers run.
Settlement(me) ==
    /\ me.pc = "writeTxn" /\ me.op \in Settles /\ me.mode = "keep" => txn[me.o] = DoneRow
    /\ me.pc \in SavesOrder /\ me.op \in Settles => txn[me.o] \in {DoneRow, Missing}
    /\ me.pc = "writeOrder" /\ me.op \in Settles /\ me.mode # "insert" =>
          /\ txn[me.o] = DoneRow /\ order[me.o].exists
          /\ me.mode = "keep" /\ me.o \notin updated => order[me.o].status = "done"
    /\ me.pc = "handle" =>
          /\ txn[me.o] = DoneRow /\ order[me.o].exists
          /\ me.o \notin updated => order[me.o].status = "done"

\* updateOrder saves a status the row had.
Updater(me) == me.pc \in SavesOrder /\ me.op = "update" =>
    /\ Created(me.o) /\ me.o \in updated
    /\ me.st \in {"paid", "done"} => me.o \in Word
    /\ me.st # "null" => Backed(me.o)

\* Only a round of the cron sees an order again that was fulfilled before.
Latecomer(w, me) ==
    me.pc \notin Ended \cup {"next"} /\ me.seen => w \in Cron /\ updated # {}

Knows(w, me) ==
    /\ InOrder(me) /\ InPlace(w, me)
    /\ Creator(me) /\ Callback(me) /\ Settler(me) /\ Settlement(me)
    /\ Updater(me) /\ Latecomer(w, me)

Knowledge == \A w \in Worker : Knows(w, wk[w])

\* v leaves u alone: while u creates its order, v does not create it, does not
\* call back about it and saves nothing but the status it was created with.
Spares(v, u) == Creating(u) /\ v.pc \notin Ended /\ v.o = u.o =>
    /\ ~Creating(v)
    /\ v.op # "callback"
    /\ v.op = "update" /\ v.pc \in SavesOrder => v.st = "null"

Alone == \A v, u \in Worker : v # u => Spares(wk[v], wk[u])

\* This call will have the order paid.
WillPay(me, o) ==
    /\ me.o = o /\ me.op = "callback" /\ me.pc \in SavesOrder
    /\ me.pc = "writeOrder" => me.mode = "update"

\* This call saw the transaction done.
SawDone(me, o) ==
    /\ me.o = o /\ me.op = "callback" /\ me.ts = "done"
    /\ \/ me.pc \in SavesTxn /\ me.after = "verify"
       \/ me.pc = "verify"

Paying(o)   == order[o].status = "paid" \/ \E w \in Worker : WillPay(wk[w], o)
SeenDone(o) == txn[o].status = "done" \/ \E w \in Worker : SawDone(wk[w], o)

\* A third-party transaction that is done, or was seen done, has an order that
\* is paid or about to be.
PaidInTheEnd ==
    \A o \in Order :
        ByThirdParty(o) /\ o \notin updated /\ fails = 0 /\ SeenDone(o) => Paying(o)

\* Only notifications and the cron fulfil orders.
NotThirdParty == \A o \in fulfilled : o \in Word /\ ~ByThirdParty(o)

Recorded == NotThirdParty /\ FulfilledIsRecorded /\ SettledOnWord

IInv ==
    /\ TypeOK /\ Rows /\ Knowledge /\ Alone
    /\ Recorded /\ NoLateFulfilment /\ PaidInTheEnd

-----------------------------------------------------------------------------
(* What every step guarantees. *)

\* To everybody, of every order: it keeps its method and what was recorded.
Kept(p) ==
    /\ Created(p) => Created(p)' /\ method'[p] = method[p]
    /\ order[p].exists /\ txn[p].status # "null" => order'[p].exists
    /\ ByThirdParty(p) /\ txn[p].status # "null" => txn'[p].status # "null"
    /\ ~ByThirdParty(p) /\ p \in Word /\ txn[p] \in {DoneRow, Missing}
          => txn'[p] \in {DoneRow, Missing}
    /\ ~ByThirdParty(p) /\ txn[p] = DoneRow => txn'[p] = DoneRow
    /\ ~ByThirdParty(p) /\ txn[p] = DoneRow /\ p \notin updated' /\ order[p].status = "done"
          => order'[p].status = "done"

Guarantee ==
    /\ Word \subseteq Word' /\ updated \subseteq updated'
    /\ \A p \in Order : Kept(p)

\* To the request that is creating its order: nothing of it changes.
Undisturbed(u) == Creating(u) =>
    /\ order'[u.o] = order[u.o] /\ u.o \notin Word' \cup old'
    /\ txn'[u.o] = txn[u.o]

-----------------------------------------------------------------------------
(* Types. *)

\* A worker whose call goes on, or ends, is well formed.
LEMMA AtType ==
    ASSUME NEW me \in WkType, NEW pc \in Pc
    PROVE  At(me, pc) \in WkType
<1>1. Blank \in WkType
  <2>1. (CHOOSE o \in Order : TRUE) \in Order
    BY PaymentAssumption
  <2>2. ASSUME NEW o \in Order
        PROVE  [pc |-> "idle", op |-> "none", o |-> o, st |-> "null", ts |-> "null",
                mode |-> "keep", after |-> "done", todo |-> {}, good |-> FALSE,
                seen |-> FALSE, late |-> FALSE] \in WkType
    BY DEF WkType, Pc, Op, OrderStatus, TxnStatus, Mode
  <2> QED BY <2>1, <2>2 DEF Blank
<1>2. ASSUME NEW b \in WkType, NEW l \in BOOLEAN
      PROVE  [b EXCEPT !.pc = pc, !.late = l] \in WkType
  BY DEF WkType
<1>3. [me EXCEPT !.pc = pc, !.mode = "keep"] \in WkType
  BY DEF WkType, Mode
<1>4. me.late \in BOOLEAN
  BY DEF WkType
<1> QED BY <1>1, <1>2, <1>3, <1>4 DEF At

\* The local variables of a call end with it.
LEMMA AtEnd ==
    ASSUME NEW me \in WkType, NEW pc \in Ended, NEW new, new = At(me, pc)
    PROVE  /\ new \in WkType /\ new.pc = pc /\ new.op = "none"
           /\ ~new.seen /\ new.late = me.late
<1>1. pc \in Pc /\ new \in WkType
  BY AtType DEF Ended, Pc
<1>2. new = [Blank EXCEPT !.pc = pc, !.late = me.late]
  BY DEF At, Ended
<1> QED BY <1>1, <1>2 DEF Blank

\* A call that goes on keeps them.
LEMMA AtGo ==
    ASSUME NEW me \in WkType, NEW pc \in Pc \ Ended, NEW new, new = At(me, pc)
    PROVE  /\ new \in WkType /\ new.pc = pc /\ new.op = me.op /\ new.o = me.o
           /\ new.st = me.st /\ new.ts = me.ts /\ new.after = me.after
           /\ new.todo = me.todo /\ new.good = me.good
           /\ new.seen = me.seen /\ new.late = me.late
<1>1. new \in WkType
  BY AtType
<1>2. new = [me EXCEPT !.pc = pc, !.mode = "keep"]
  BY DEF At, Ended
<1> QED BY <1>1, <1>2 DEF WkType

\* The worker of a step, and the others, are well formed.
LEMMA WorkerTypes ==
    ASSUME TypeOK, NEW w \in Worker
    PROVE  wk[w] \in WkType /\ wk[w].o \in Order
BY DEF TypeOK, WkType

-----------------------------------------------------------------------------
(* The workers that do not move. *)

\* What a worker knows survives the steps of the others.
LEMMA OthersKnow ==
    ASSUME IInv, Guarantee, NEW w \in Worker, wk'[w] = wk[w], Undisturbed(wk[w])
    PROVE  Knows(w, wk[w])'
<1> DEFINE me == wk[w]
           o  == wk[w].o
<1>1. /\ Knows(w, me) /\ o \in Order /\ me \in WkType
      /\ me.todo \subseteq Order
  BY WorkerTypes DEF IInv, Knowledge, WkType
<1>2. /\ \A p \in Order : Kept(p)
      /\ Word \subseteq Word' /\ updated \subseteq updated'
  BY DEF Guarantee
<1>3. (InOrder(wk[w]) /\ InPlace(w, wk[w]))'
  BY <1>1 DEF Knows, InOrder, InPlace
<1>4. Creator(wk[w])'
  BY <1>1, <1>2 DEF Knows, Creator, Undisturbed, Creating, Kept, ByThirdParty, Created, Fresh
<1>5. Callback(wk[w])'
  BY <1>1, <1>2 DEF Knows, Callback, Kept, ByThirdParty, Created
<1>6. Settler(wk[w])'
  <2>1. \A p \in Word : Created(p)
    BY DEF IInv, Rows, TypeOK, Created
  <2>2. Settler(me) /\ Word \subseteq Order
    BY <1>1 DEF Knows, IInv, TypeOK
  <2> QED BY <1>1, <1>2, <2>1, <2>2 DEF Settler, Kept, ByThirdParty, Created
<1>7. Settlement(wk[w])'
  <2>1. me.pc \in Saves \cup {"handle"} /\ me.op \in Settles =>
            o \in Word /\ Created(o) /\ ~ByThirdParty(o)
    BY <1>1, <1>2 DEF Knows, Settler, Saves, Settles, SavesTxn, SavesOrder, Ended, Created,
                      IInv, Rows
  <2>2. me.pc = "handle" => me.op \in Settles
    BY <1>1 DEF Knows, InOrder
  <2>3. Settlement(me) /\ Kept(o)
    BY <1>1, <1>2 DEF Knows
  <2>4. txn[o] = DoneRow => txn[o].status # "null"
    BY DEF DoneRow
  <2> QED BY <1>2, <2>1, <2>2, <2>3, <2>4
          DEF Settlement, Kept, Saves, SavesTxn, SavesOrder
<1>8. Updater(wk[w])'
  BY <1>1, <1>2 DEF Knows, Updater, Kept, ByThirdParty, Created, Backed
<1>9. Latecomer(w, wk[w])'
  BY <1>1, <1>2 DEF Knows, Latecomer
<1> QED BY <1>3, <1>4, <1>5, <1>6, <1>7, <1>8, <1>9 DEF Knows

\* A call spares the creation of an order as long as it goes on the same way.
Continues(me, new) ==
    new.pc \notin Ended /\ new.op \notin Settles =>
        /\ me.pc \notin Ended /\ new.o = me.o
        /\ Creating(new) => Creating(me)
        /\ new.op = "callback" => me.op = "callback"
        /\ new.op = "update" /\ new.pc \in SavesOrder =>
              me.op = "update" /\ me.pc \in SavesOrder /\ me.st = new.st

\* A worker that only goes on with what it knew disturbs nobody it did not
\* disturb before.
LEMMA StillSpares ==
    ASSUME NEW me, NEW new, NEW u, Continues(me, new), Spares(me, u), Spares(u, me)
    PROVE  Spares(new, u) /\ Spares(u, new)
BY DEF Continues, Spares, Creating, Settles, Ended, Saves, SavesTxn, SavesOrder

\* A step of one worker keeps the knowledge of all.
LEMMA Moves ==
    ASSUME IInv, Guarantee, NEW w \in Worker, NEW new,
           wk' = [wk EXCEPT ![w] = new],
           \A u \in Worker \ {w} : Undisturbed(wk[u]),
           \A u \in Worker \ {w} : Spares(new, wk[u]) /\ Spares(wk[u], new),
           Knows(w, new)'
    PROVE  Knowledge' /\ Alone'
<1>1. wk'[w] = new /\ \A u \in Worker \ {w} : wk'[u] = wk[u]
  BY DEF IInv, TypeOK
<1>2. \A u \in Worker \ {w} : Knows(u, wk[u])'
  BY <1>1, OthersKnow
<1>3. Knowledge'
  BY <1>1, <1>2 DEF Knowledge
<1>4. ASSUME NEW v \in Worker, NEW u \in Worker, v # u
      PROVE  Spares(wk[v], wk[u])'
  <2>1. Spares(wk'[v], wk'[u])
    BY <1>1, <1>4 DEF IInv, Alone
  <2> QED BY <2>1 DEF Spares, Creating
<1> QED BY <1>3, <1>4 DEF Alone

-----------------------------------------------------------------------------
(* Steps that leave the tables alone. *)

Still == UNCHANGED <<method, order, txn, paid, claimed, old, fulfilled>>

\* New does not get in the way of a creation, nor others in the way of its own.
Company(w, new) ==
    \A u \in Worker \ {w} : Spares(new, wk[u]) /\ Spares(wk[u], new)

\* What has to be known of the worker that moves from me to new.
Onward(w, new) ==
    /\ new \in WkType /\ wk' = [wk EXCEPT ![w] = new]
    /\ Continues(wk[w], new) \/ Company(w, new)
    /\ new.late => wk[w].late

\* Who of the two callers of PaidInTheEnd the worker was and is.
PaysOn(me, new) ==
    \A o \in Order :
        /\ SawDone(new, o) => SawDone(me, o) \/ txn[o].status = "done"
        /\ WillPay(me, o) => WillPay(new, o) \/ order[o].status = "paid"

\* Nobody hears of an order before pay handed it over.
Claims ==
    /\ UNCHANGED <<method, order, txn, paid, old, fulfilled>>
    /\ claimed \subseteq claimed' /\ claimed' \subseteq Order
    /\ \A p \in claimed' \ claimed : txn[p].exists \/ p \in old

\* Steps that change no table, of an order that nobody is creating, keep the
\* invariant, if the worker knows what it has to where it arrives.
LEMMA ClaimStep ==
    ASSUME IInv, Claims, NEW w \in Worker, NEW new, Onward(w, new), Knows(w, new)',
           \A u \in Worker \ {w} : Undisturbed(wk[u]),
           updated \subseteq updated', updated' \subseteq Order,
           fails' \in 0..MaxFail, (PaysOn(wk[w], new) /\ fails' = fails) \/ fails' # 0
    PROVE  IInv'
<1> DEFINE me == wk[w]
<1>1. wk'[w] = new /\ \A u \in Worker \ {w} : wk'[u] = wk[u]
  BY DEF IInv, TypeOK, Onward
<1>2. TypeOK'
  BY DEF IInv, TypeOK, Onward, Claims
<1>3. Guarantee
  BY DEF Guarantee, Kept, Created, Claims, ByThirdParty, IInv, Rows
<1>5. \A u \in Worker \ {w} : Spares(new, wk[u]) /\ Spares(wk[u], new)
  BY StillSpares DEF IInv, Alone, Onward, Company
<1>6. Knowledge' /\ Alone'
  BY <1>3, <1>5, Moves DEF Onward
<1>7. Rows'
  BY DEF IInv, Rows, Claims, Created, ByThirdParty, Backed
<1>8. Recorded'
  BY DEF IInv, Recorded, NotThirdParty, FulfilledIsRecorded, SettledOnWord, Claims,
         ByThirdParty
<1>9. NoLateFulfilment'
  BY <1>1 DEF IInv, NoLateFulfilment, Onward
<1>10. PaidInTheEnd'
  <2>1. CASE fails' # 0
    BY <2>1 DEF PaidInTheEnd
  <2>2. CASE PaysOn(wk[w], new) /\ fails' = fails
    <3> SUFFICES ASSUME NEW o \in Order, ByThirdParty(o)', o \notin updated',
                        fails = 0, SeenDone(o)'
                 PROVE  Paying(o)'
      BY <2>2 DEF PaidInTheEnd
    <3>1. SeenDone(o)
      BY <1>1, <2>2 DEF SeenDone, SawDone, PaysOn, Claims
    <3>2. Paying(o)
      BY <3>1 DEF IInv, PaidInTheEnd, ByThirdParty, Claims
    <3>3. ASSUME NEW v \in Worker, WillPay(wk[v], o)
          PROVE  order[o].status = "paid" \/ \E x \in Worker : WillPay(wk'[x], o)
      BY <1>1, <2>2, <3>3 DEF PaysOn
    <3> QED BY <3>2, <3>3 DEF Paying, WillPay, Claims
  <2> QED BY <2>1, <2>2
<1> QED BY <1>2, <1>6, <1>7, <1>8, <1>9, <1>10 DEF IInv

\* Nor does a step that brings no news.
LEMMA LocalStep ==
    ASSUME IInv, Still, NEW w \in Worker, NEW new, Onward(w, new), Knows(w, new)',
           updated \subseteq updated', updated' \subseteq Order,
           fails' \in 0..MaxFail, (PaysOn(wk[w], new) /\ fails' = fails) \/ fails' # 0
    PROVE  IInv'
<1>1. Claims
  BY DEF Still, Claims, IInv, TypeOK
<1>2. \A u \in Worker \ {w} : Undisturbed(wk[u])
  BY DEF IInv, Knowledge, Knows, Creator, Undisturbed, Still
<1> QED BY <1>1, <1>2, ClaimStep

\* A call that ends, or rejects, and changes no table.
LEMMA EndStep ==
    ASSUME IInv, Still, NEW w \in Worker, NEW pc \in Ended, Goto(w, pc),
           UNCHANGED updated, fails' \in 0..MaxFail,
           ((\A o \in Order : ~WillPay(wk[w], o)) /\ fails' = fails) \/ fails' # 0
    PROVE  IInv'
<1> PICK new : new = At(wk[w], pc)
  OBVIOUS
<1>1. /\ wk[w] \in WkType /\ new \in WkType /\ new.pc = pc
      /\ new.late = wk[w].late /\ ~new.seen
  BY WorkerTypes, AtEnd DEF IInv
<1>2. wk' = [wk EXCEPT ![w] = new] /\ updated' \subseteq Order
  BY DEF Goto, IInv, TypeOK
<1>3. InOrder(new) /\ InPlace(w, new)
  BY <1>1 DEF InOrder, InPlace, Ended, Saves, SavesTxn, SavesOrder
<1>4. Onward(w, new)
  BY <1>1, <1>2 DEF Onward, Continues
<1>5. Knows(w, new)'
  <2>1. Creator(new)' /\ Callback(new)' /\ Settler(new)'
    BY <1>1 DEF Creator, Callback, Settler, Creating, Ended, Saves, SavesTxn, SavesOrder
  <2>2. Settlement(new)' /\ Updater(new)' /\ Latecomer(w, new)'
    BY <1>1 DEF Settlement, Updater, Latecomer, Ended, SavesOrder
  <2> QED BY <1>3, <2>1, <2>2 DEF Knows, InOrder, InPlace
<1>6. (PaysOn(wk[w], new) /\ fails' = fails) \/ fails' # 0
  BY <1>1 DEF PaysOn, SawDone, SavesTxn, Ended
<1> QED BY <1>2, <1>4, <1>5, <1>6, LocalStep

\* A step that only moves its worker.
LEMMA QuietStep ==
    ASSUME IInv, Still, NEW w \in Worker, NEW new, Onward(w, new), Knows(w, new),
           UNCHANGED <<updated, fails>>, PaysOn(wk[w], new)
    PROVE  IInv'
<1>1. updated' \subseteq Order /\ fails' \in 0..MaxFail
  BY DEF IInv, TypeOK
<1>2. Knows(w, new)'
  <2>1. InOrder(new)' /\ InPlace(w, new)' /\ Creator(new)' /\ Callback(new)'
    BY DEF Knows, InOrder, InPlace, Creator, Creating, Callback, ByThirdParty, Still
  <2>2. Settler(new)' /\ Settlement(new)' /\ Updater(new)' /\ Latecomer(w, new)'
    BY DEF Knows, Settler, Settlement, Updater, Latecomer, ByThirdParty, Created, Backed,
           Still
  <2> QED BY <2>1, <2>2 DEF Knows
<1> QED BY <1>1, <1>2, LocalStep

\* The call rejects.
LEMMA RejectStep ==
    ASSUME IInv, Still, NEW w \in Worker, Reject(w), UNCHANGED <<updated, fails>>,
           \A o \in Order : ~WillPay(wk[w], o)
    PROVE  IInv'
<1>1. PICK pc \in Ended : Goto(w, pc)
  BY DEF Reject, Ended
<1>2. fails' \in 0..MaxFail
  BY DEF IInv, TypeOK
<1> QED BY <1>1, <1>2, EndStep

\* Action Fail keeps the invariant.
LEMMA NextFail ==
    ASSUME IInv, NEW w \in Worker, Fail(w)
    PROVE  IInv'
<1>1. PICK pc \in Ended : Goto(w, pc)
  BY DEF Fail, Reject, Ended
<1>2. fails' \in 0..MaxFail /\ fails' # 0
  BY PaymentAssumption DEF Fail, IInv, TypeOK
<1> QED BY <1>1, <1>2, EndStep DEF Fail, Still

-----------------------------------------------------------------------------
(* The steps of a call that change no table, one by one. *)

\* The worker that moves, before its step.
LEMMA Mover ==
    ASSUME IInv, NEW w \in Worker
    PROVE  /\ wk[w] \in WkType /\ wk[w].o \in Order /\ Knows(w, wk[w])
           /\ order[wk[w].o] \in [exists : BOOLEAN, status : OrderStatus]
           /\ txn[wk[w].o] \in [exists : BOOLEAN, status : TxnStatus]
BY WorkerTypes DEF IInv, Knowledge, TypeOK

\* What save() finds out.
LEMMA ModeType ==
    ASSUME NEW row, NEW status, row.exists \in BOOLEAN
    PROVE  /\ ModeOf(row, status) \in Mode
           /\ ModeOf(row, status) = "insert" <=> ~row.exists
           /\ ModeOf(row, status) = "update" <=> row.exists /\ row.status # status
           /\ ModeOf(row, status) = "keep" <=> row.exists /\ row.status = status
BY DEF ModeOf, Mode

\* Action SaveTxn keeps the invariant.
LEMMA NextSaveTxn ==
    ASSUME IInv, NEW w \in Worker, SaveTxn(w)
    PROVE  IInv'
<1> DEFINE me == wk[w]
           o  == me.o
<1>1. me \in WkType /\ Knows(w, me) /\ me.pc = "saveTxn" /\ o \in Order
  BY Mover DEF SaveTxn
<1> PICK m : m = ModeOf(txn[o], me.ts)
  OBVIOUS
<1>2. /\ m \in Mode /\ (m = "insert" <=> ~txn[o].exists)
      /\ m = "keep" <=> txn[o].exists /\ txn[o].status = me.ts
  BY Mover, ModeType
<1> PICK new : new = [me EXCEPT !.pc = "writeTxn", !.mode = m]
  OBVIOUS
<1>3. /\ new \in WkType /\ new.pc = "writeTxn" /\ new.mode = m
      /\ new.op = me.op /\ new.o = o /\ new.st = me.st /\ new.ts = me.ts
      /\ new.after = me.after /\ new.todo = me.todo /\ new.good = me.good
      /\ new.seen = me.seen /\ new.late = me.late
  BY <1>1, <1>2 DEF WkType, Pc
<1>4. Still /\ wk' = [wk EXCEPT ![w] = new] /\ UNCHANGED <<updated, fails>>
  BY <1>1 DEF SaveTxn, Still, IInv, TypeOK
<1>5. Onward(w, new)
  BY <1>1, <1>3, <1>4
     DEF Onward, Continues, Creating, Saves, SavesTxn, SavesOrder, Ended
<1>6. Knows(w, new)
  <2>1. InOrder(new) /\ InPlace(w, new) /\ Settler(new)
    BY <1>1, <1>3 DEF Knows, InOrder, InPlace, Settler, Saves, SavesTxn, SavesOrder, Ended
  <2>2. Creator(new) /\ Callback(new)
    BY <1>1, <1>2, <1>3 DEF Knows, InOrder, Creator, Callback, Creating, Saves, SavesTxn,
       SavesOrder, Fresh, Ended, IInv, Rows, Missing, Mode
  <2>3. Settlement(new) /\ Updater(new) /\ Latecomer(w, new)
    BY ZenonT(60), <1>1, <1>2, <1>3 DEF Knows, InOrder, Settlement, Updater, Latecomer, SavesTxn,
       Saves, SavesOrder, Ended, IInv, TypeOK, DoneRow
  <2> QED BY <2>1, <2>2, <2>3 DEF Knows
<1>7. PaysOn(me, new)
  BY <1>1, <1>3 DEF PaysOn, SawDone, WillPay, SavesTxn, SavesOrder
<1> QED BY <1>4, <1>5, <1>6, <1>7, QuietStep

\* Action SaveOrder keeps the invariant.
LEMMA NextSaveOrder ==
    ASSUME IInv, NEW w \in Worker, SaveOrder(w)
    PROVE  IInv'
<1> DEFINE me == wk[w]
           o  == me.o
<1>1. me \in WkType /\ Knows(w, me) /\ me.pc = "saveOrder" /\ o \in Order
  BY Mover DEF SaveOrder
<1> PICK m : m = ModeOf(order[o], me.st)
  OBVIOUS
<1>2. /\ m \in Mode /\ (m = "insert" <=> ~order[o].exists)
      /\ m = "update" <=> order[o].exists /\ order[o].status # me.st
      /\ m = "keep" <=> order[o].exists /\ order[o].status = me.st
  BY Mover, ModeType
<1> PICK new : new = [me EXCEPT !.pc = "writeOrder", !.mode = m]
  OBVIOUS
<1>3. /\ new \in WkType /\ new.pc = "writeOrder" /\ new.mode = m
      /\ new.op = me.op /\ new.o = o /\ new.st = me.st /\ new.ts = me.ts
      /\ new.after = me.after /\ new.todo = me.todo /\ new.good = me.good
      /\ new.seen = me.seen /\ new.late = me.late
  BY <1>1, <1>2 DEF WkType, Pc
<1>4. Still /\ wk' = [wk EXCEPT ![w] = new] /\ UNCHANGED <<updated, fails>>
  BY <1>1 DEF SaveOrder, Still, IInv, TypeOK
<1>5. Onward(w, new)
  BY <1>1, <1>3, <1>4
     DEF Onward, Continues, Creating, Saves, SavesTxn, SavesOrder, Ended
<1>6. Knows(w, new)
  <2>1. InOrder(new) /\ InPlace(w, new) /\ Settler(new)
    BY <1>1, <1>3 DEF Knows, InOrder, InPlace, Settler, Saves, SavesTxn, SavesOrder, Ended
  <2>2. Creator(new) /\ Callback(new)
    BY <1>1, <1>2, <1>3 DEF Knows, InOrder, Creator, Callback, Creating, Saves, SavesTxn,
       SavesOrder, Fresh, Ended
  <2>3. Settlement(new)
    <3>1. new.op \in Settles => /\ txn[o] \in {DoneRow, Missing} /\ me.st = "done"
                                /\ o \in Word
      BY <1>1, <1>3 DEF Knows, InOrder, Settler, Settlement, SavesOrder, Saves, SavesTxn
    <3>2. new.op \in Settles /\ order[o].exists => txn[o] = DoneRow
      BY <1>1, <3>1 DEF IInv, Rows, Missing
    <3> QED BY <1>2, <1>3, <3>1, <3>2 DEF Settlement, SavesOrder
  <2>4. Updater(new) /\ Latecomer(w, new)
    BY <1>1, <1>2, <1>3 DEF Knows, Updater, Latecomer, SavesOrder, Ended
  <2> QED BY <2>1, <2>2, <2>3, <2>4 DEF Knows
<1>7. PaysOn(me, new)
  BY <1>1, <1>2, <1>3 DEF PaysOn, SawDone, WillPay, SavesTxn, SavesOrder, Knows, InOrder,
     Callback, Ended, Mode
<1> QED BY <1>4, <1>5, <1>6, <1>7, QuietStep

\* Action StartPay keeps the invariant.
LEMMA NextStartPay ==
    ASSUME IInv, NEW w \in Worker, StartPay(w)
    PROVE  IInv'
<1> DEFINE me == wk[w]
<1>1. me \in WkType /\ Knows(w, me) /\ me.pc = "pay" /\ me.op = "create"
  BY Mover DEF StartPay, Knows, InOrder
<1>2. Still /\ UNCHANGED <<updated, fails>>
  BY DEF StartPay, Still
<1>3. CASE ~ByThirdParty(me.o)
  <2>1. Goto(w, "done") /\ \A o \in Order : ~WillPay(me, o)
    BY <1>1, <1>3 DEF StartPay, ByThirdParty, WillPay
  <2>2. "done" \in Ended /\ fails' \in 0..MaxFail
    BY <1>2 DEF Ended, IInv, TypeOK
  <2> QED BY <1>2, <2>1, <2>2, EndStep
<1>4. CASE ByThirdParty(me.o)
  <2> PICK new : new = [me EXCEPT !.pc = "saveTxn", !.after = "saveOrder",
                                  !.ts = "signed", !.st = "waiting"]
    OBVIOUS
  <2>1. /\ new \in WkType /\ new.pc = "saveTxn" /\ new.after = "saveOrder"
        /\ new.ts = "signed" /\ new.st = "waiting"
        /\ new.op = me.op /\ new.o = me.o /\ new.seen = me.seen /\ new.late = me.late
    BY <1>1 DEF WkType, Pc, OrderStatus, TxnStatus
  <2>2. wk' = [wk EXCEPT ![w] = new]
    BY <1>1, <1>4 DEF StartPay, ByThirdParty, IInv, TypeOK
  <2>3. Onward(w, new)
    BY <1>1, <2>1, <2>2
       DEF Onward, Continues, Creating, Saves, SavesTxn, SavesOrder, Ended
  <2>4. Knows(w, new)
    <3>1. InOrder(new) /\ InPlace(w, new)
      BY <1>1, <2>1 DEF Knows, InOrder, InPlace, Saves, SavesTxn, SavesOrder, Ended, Settles
    <3>2. Creator(new)
      BY <1>1, <1>4, <2>1 DEF Knows, Creator, Creating, Saves, SavesTxn, SavesOrder
    <3>3. Callback(new) /\ Settler(new) /\ Settlement(new) /\ Updater(new)
      BY <1>1, <2>1 DEF Callback, Settler, Settlement, Updater, Settles, SavesOrder
    <3>4. Latecomer(w, new)
      BY <1>1, <2>1 DEF Knows, Latecomer, Ended
    <3> QED BY <3>1, <3>2, <3>3, <3>4 DEF Knows
  <2>5. PaysOn(me, new)
    BY <1>1, <2>1 DEF PaysOn, SawDone, WillPay
  <2> QED BY <1>2, <2>3, <2>4, <2>5, QuietStep
<1> QED BY <1>3, <1>4

\* Every request that creates an order runs.
LEMMA CreatorsWork ==
    ASSUME IInv, NEW u \in Worker, Creating(wk[u])
    PROVE  /\ u \in Working(wk[u].o) /\ wk[u].op = "create"
           /\ order[wk[u].o] = Fresh /\ wk[u].o \notin Word \cup old
           /\ wk[u].pc = "method" => ~txn[wk[u].o].exists
           /\ wk[u].pc \in Saves => ByThirdParty(wk[u].o)
           /\ wk[u].pc \in {"method", "pay"} \cup Saves
BY DEF IInv, Knowledge, Knows, Creator, Creating, Working, Active, Saves, SavesTxn, SavesOrder

\* Nobody creates an order that was handed over, or that is a day old.
LEMMA HandedOverLast ==
    ASSUME IInv, NEW o \in Order, HandedOver(o) \/ o \in old,
           NEW u \in Worker, Creating(wk[u])
    PROVE  wk[u].o # o
<1> SUFFICES ASSUME wk[u].o = o PROVE FALSE
  OBVIOUS
<1>1. HandedOver(o) /\ wk[u].pc # "method"
  BY CreatorsWork DEF HandedOver
<1>2. CASE ByThirdParty(o)
  BY <1>1, <1>2, CreatorsWork DEF HandedOver, ByThirdParty, Fresh
<1>3. CASE ~ByThirdParty(o)
  <2>1. wk[u].pc = "pay"
    BY <1>1, <1>3, CreatorsWork
  <2> QED BY <1>1, <1>3, <2>1, CreatorsWork DEF HandedOver, ByThirdParty
<1> QED BY <1>2, <1>3

\* A call that was just begun.
LEMMA Begun ==
    ASSUME IInv, NEW r \in Request, wk[r].pc = "idle", NEW new \in WkType,
           new.pc \in {"reload", "load"}, new.op \in {"update", "callback", "notify"},
           new.op = "update" <=> new.pc = "reload", new.seen = wk[r].seen
    PROVE  /\ InOrder(new) /\ InPlace(r, new) /\ Creator(new)
           /\ Settlement(new) /\ Updater(new) /\ Latecomer(r, new)
           /\ PaysOn(wk[r], new)
<1>1. r \in Worker /\ r \notin Cron /\ ~new.seen
  BY PaymentAssumption, Mover DEF Worker, Knows, InOrder, Ended
<1>2. InOrder(new) /\ InPlace(r, new)
  BY <1>1 DEF InOrder, InPlace, Saves, SavesTxn, SavesOrder, Settles, Ended
<1>3. /\ Creator(new) /\ Settlement(new) /\ Updater(new) /\ Latecomer(r, new)
      /\ PaysOn(wk[r], new)
  BY <1>1 DEF Creator, Creating, Settlement, Updater, Latecomer, PaysOn, SawDone,
     WillPay, Saves, SavesTxn, SavesOrder
<1> QED BY <1>2, <1>3

\* Action BeginUpdate keeps the invariant.
LEMMA NextBeginUpdate ==
    ASSUME IInv, NEW r \in Request, BeginUpdate(r)
    PROVE  IInv'
<1>1. PICK o \in Order : Begin(r, "update", o, "reload", FALSE)
  BY DEF BeginUpdate
<1> PICK new : new = [wk[r] EXCEPT !.pc = "reload", !.op = "update", !.o = o, !.good = FALSE]
  OBVIOUS
<1>2. wk[r].pc = "idle" /\ wk' = [wk EXCEPT ![r] = new] /\ r \in Worker
  BY <1>1 DEF Begin, Worker, IInv, TypeOK
<1>3. /\ new \in WkType /\ new.pc = "reload" /\ new.op = "update"
      /\ new.seen = wk[r].seen /\ new.late = wk[r].late
  BY ZenonT(60), <1>2, Mover DEF WkType, Pc, Op
<1>4. /\ InOrder(new) /\ InPlace(r, new) /\ Creator(new)
      /\ Settlement(new) /\ Updater(new) /\ Latecomer(r, new)
      /\ PaysOn(wk[r], new)
  BY <1>2, <1>3, Begun
<1>5. Callback(new) /\ Settler(new)
  BY <1>3 DEF Callback, Settler, Saves, SavesTxn, SavesOrder
<1>6. Company(r, new)
  BY <1>3 DEF Company, Spares, Creating, SavesOrder
<1> QED BY <1>2, <1>3, <1>4, <1>5, <1>6, QuietStep DEF BeginUpdate, Still, Onward, Knows

\* Action BeginCallback keeps the invariant.
LEMMA NextBeginCallback ==
    ASSUME IInv, NEW r \in Request, BeginCallback(r)
    PROVE  IInv'
<1>1. PICK o \in Order, good \in BOOLEAN :
          /\ ByThirdParty(o) /\ HandedOver(o)
          /\ Begin(r, "callback", o, "load", good)
          /\ claimed' = IF good THEN claimed \cup {o} ELSE claimed
  BY DEF BeginCallback, ByThirdParty
<1> PICK new : new = [wk[r] EXCEPT !.pc = "load", !.op = "callback", !.o = o, !.good = good]
  OBVIOUS
<1>2. wk[r].pc = "idle" /\ wk' = [wk EXCEPT ![r] = new] /\ r \in Worker
  BY <1>1 DEF Begin, Worker, IInv, TypeOK
<1>3. /\ new \in WkType /\ new.pc = "load" /\ new.op = "callback" /\ new.o = o
      /\ new.good = good /\ new.seen = wk[r].seen /\ new.late = wk[r].late
  BY ZenonT(60), <1>2, Mover DEF WkType, Pc, Op
<1>4. /\ InOrder(new) /\ InPlace(r, new) /\ Creator(new)
      /\ Settlement(new) /\ Updater(new) /\ Latecomer(r, new)
      /\ PaysOn(wk[r], new)
  BY <1>2, <1>3, Begun
<1>5. Claims /\ UNCHANGED <<updated, fails>>
  BY <1>1 DEF BeginCallback, Claims, HandedOver, IInv, TypeOK
<1>6. txn[o].status # "null" /\ order[o].exists /\ (good => o \in Word')
  BY <1>1 DEF HandedOver, ByThirdParty, IInv, Rows, Backed, Missing
<1>7. Knows(r, new)'
  <2>1. Creator(new)' /\ Settler(new)'
    BY <1>3 DEF Creator, Creating, Settler, Saves, SavesTxn, SavesOrder
  <2>2. Callback(new)'
    BY <1>1, <1>3, <1>5, <1>6 DEF Callback, SavesTxn, Claims, ByThirdParty
  <2>3. (InOrder(new) /\ InPlace(r, new))'
    BY <1>4 DEF InOrder, InPlace
  <2>4. Settlement(new)' /\ Updater(new)' /\ Latecomer(r, new)'
    BY <1>3, <1>4, <1>5 DEF Settlement, Updater, Latecomer, SavesOrder
  <2> QED BY <2>1, <2>2, <2>3, <2>4 DEF Knows
<1>8. \A u \in Worker : Creating(wk[u]) => wk[u].o # o
  BY <1>1, HandedOverLast
<1>9. Company(r, new)
  BY <1>3, <1>8 DEF Company, Spares, Creating
<1>10. \A u \in Worker \ {r} : Undisturbed(wk[u])
  BY <1>1, <1>5, <1>8 DEF Undisturbed, Claims, IInv, Knowledge, Knows, Creator
<1> QED BY <1>2, <1>3, <1>4, <1>5, <1>7, <1>9, <1>10, ClaimStep DEF Onward, IInv, TypeOK

\* Action BeginNotify keeps the invariant.
LEMMA NextBeginNotify ==
    ASSUME IInv, NEW r \in Request, BeginNotify(r)
    PROVE  IInv'
<1>1. PICK o \in Order : /\ ~ByThirdParty(o) /\ (HandedOver(o) \/ o \in old)
                         /\ Begin(r, "notify", o, "load", TRUE)
                         /\ claimed' = claimed \cup {o}
  BY DEF BeginNotify, ByThirdParty
<1> PICK new : new = [wk[r] EXCEPT !.pc = "load", !.op = "notify", !.o = o, !.good = TRUE]
  OBVIOUS
<1>3. wk[r].pc = "idle" /\ wk' = [wk EXCEPT ![r] = new] /\ r \in Worker
  BY <1>1 DEF Begin, Worker, IInv, TypeOK
<1>4. /\ new \in WkType /\ new.pc = "load" /\ new.op = "notify" /\ new.o = o
      /\ new.seen = wk[r].seen /\ new.late = wk[r].late
  BY ZenonT(60), <1>1, <1>3, Mover DEF WkType, Pc, Op
<1>5. /\ InOrder(new) /\ InPlace(r, new) /\ Creator(new)
      /\ Settlement(new) /\ Updater(new) /\ Latecomer(r, new)
      /\ PaysOn(wk[r], new)
  BY <1>3, <1>4, Begun
<1>6. Claims /\ UNCHANGED <<updated, fails>>
  BY <1>1 DEF BeginNotify, Claims, HandedOver, IInv, TypeOK
<1>7. Knows(r, new)'
  <2>1. Creator(new)' /\ Callback(new)'
    BY <1>4 DEF Creator, Creating, Callback, Saves, SavesTxn, SavesOrder
  <2>2. Settler(new)'
    BY <1>1, <1>4, <1>6 DEF Settler, Saves, SavesTxn, SavesOrder, Claims, ByThirdParty
  <2>3. (InOrder(new) /\ InPlace(r, new))'
    BY <1>5 DEF InOrder, InPlace
  <2>4. Settlement(new)' /\ Updater(new)' /\ Latecomer(r, new)'
    BY <1>4, <1>5, <1>6 DEF Settlement, Updater, Latecomer, SavesOrder
  <2> QED BY <2>1, <2>2, <2>3, <2>4 DEF Knows
<1>8. \A u \in Worker : Creating(wk[u]) => wk[u].o # o
  BY <1>1, HandedOverLast
<1>9. Company(r, new)
  BY <1>4 DEF Company, Spares, Creating
<1>10. \A u \in Worker \ {r} : Undisturbed(wk[u])
  BY <1>1, <1>6, <1>8 DEF Undisturbed, Claims, IInv, Knowledge, Knows, Creator
<1> QED BY <1>3, <1>4, <1>5, <1>6, <1>7, <1>9, <1>10, ClaimStep DEF Onward, IInv, TypeOK

\* Action UpdateOrder keeps the invariant.
LEMMA NextUpdateOrder ==
    ASSUME IInv, NEW w \in Worker, UpdateOrder(w)
    PROVE  IInv'
<1> DEFINE me == wk[w]
           o  == me.o
<1>1. /\ me \in WkType /\ Knows(w, me) /\ me.pc = "reload" /\ o \in Order
      /\ me.op \in {"create", "update"}
  BY Mover DEF UpdateOrder, Knows, InOrder
<1>2. Still /\ UNCHANGED fails
  BY DEF UpdateOrder, Still
<1>3. CASE ~(order[o].exists /\ txn[o].exists)
  BY <1>1, <1>2, <1>3, RejectStep DEF UpdateOrder, WillPay
<1>4. CASE order[o].exists /\ txn[o].exists
  <2> PICK st : st = order[o].status
    OBVIOUS
  <2> PICK new : new = [me EXCEPT !.pc = "saveOrder", !.op = "update", !.st = st]
    OBVIOUS
  <2>1. st \in OrderStatus
    BY Mover
  <2>2. /\ new \in WkType /\ new.pc = "saveOrder" /\ new.op = "update" /\ new.o = o
        /\ new.st = st /\ new.seen = me.seen /\ new.late = me.late
    BY <1>1, <2>1 DEF WkType, Pc, Op
  <2>3. wk' = [wk EXCEPT ![w] = new] /\ updated' = updated \cup {o}
    BY <1>1, <1>4 DEF UpdateOrder, IInv, TypeOK
  <2>4. Company(w, new)
    <3>1. ASSUME NEW u \in Worker \ {w}, Creating(wk[u]), wk[u].o = o
          PROVE  st = "null"
      BY <3>1 DEF IInv, Knowledge, Knows, Creator, Fresh
    <3> QED BY <2>2, <3>1 DEF Company, Spares, Creating
  <2>5. Onward(w, new)
    BY <2>2, <2>3, <2>4 DEF Onward
  <2>6. Knows(w, new)'
    <3>1. InOrder(new)' /\ InPlace(w, new)'
      BY <1>1, <2>2 DEF Knows, InOrder, InPlace, Saves, SavesTxn, SavesOrder, Ended, Settles
    <3>2. Creator(new)' /\ Callback(new)' /\ Settler(new)' /\ Settlement(new)'
      BY <2>2 DEF Creator, Creating, Callback, Settler, Settlement, Settles
    <3>3. Updater(new)'
      BY <1>1, <1>2, <1>4, <2>2, <2>3
         DEF Updater, Created, ByThirdParty, Backed, Still, IInv, Rows, Recorded,
             SettledOnWord
    <3>4. Latecomer(w, new)'
      BY <1>1, <2>2, <2>3 DEF Knows, Latecomer, Ended
    <3> QED BY <3>1, <3>2, <3>3, <3>4 DEF Knows
  <2>7. PaysOn(me, new)
    BY <1>1, <2>2 DEF PaysOn, SawDone, WillPay
  <2>8. /\ updated \subseteq updated' /\ updated' \subseteq Order
        /\ fails' \in 0..MaxFail /\ fails' = fails
    BY <1>1, <1>2, <2>3 DEF IInv, TypeOK
  <2> QED BY <1>2, <2>5, <2>6, <2>7, <2>8, LocalStep
<1> QED BY <1>3, <1>4

\* Action LoadCallback keeps the invariant.
LEMMA NextLoadCallback ==
    ASSUME IInv, NEW w \in Worker, LoadCallback(w)
    PROVE  IInv'
<1> DEFINE me == wk[w]
           o  == me.o
<1>1. /\ me \in WkType /\ Knows(w, me) /\ me.pc = "load" /\ o \in Order
      /\ me.op = "callback"
  BY Mover DEF LoadCallback
<1>2. Still /\ UNCHANGED <<updated, fails>>
  BY DEF LoadCallback, Still
<1>3. CASE ~(order[o].exists /\ txn[o].exists)
  BY <1>1, <1>2, <1>3, RejectStep DEF LoadCallback, WillPay, SavesOrder
<1>4. CASE order[o].exists /\ txn[o].exists
  <2> PICK ts : ts = txn[o].status
    OBVIOUS
  <2> PICK new : new = [me EXCEPT !.pc = "saveTxn", !.after = "verify", !.ts = ts]
    OBVIOUS
  <2>1. /\ new \in WkType /\ new.pc = "saveTxn" /\ new.op = "callback" /\ new.o = o
        /\ new.after = "verify" /\ new.ts = ts /\ new.good = me.good
        /\ new.seen = me.seen /\ new.late = me.late
    BY <1>1, Mover DEF WkType, Pc
  <2>2. wk' = [wk EXCEPT ![w] = new]
    BY <1>1, <1>4 DEF LoadCallback, IInv, TypeOK
  <2>3. Onward(w, new)
    BY <1>1, <2>1, <2>2 DEF Onward, Continues, Creating, Ended
  <2>4. Knows(w, new)
    <3>1. InOrder(new) /\ InPlace(w, new)
      BY <1>1, <2>1 DEF Knows, InOrder, InPlace, Saves, SavesTxn, SavesOrder, Ended, Settles
    <3>2. Creator(new) /\ Settler(new) /\ Settlement(new) /\ Updater(new)
      BY <2>1 DEF Creator, Creating, Settler, Settlement, Settles, Updater
    <3>3. Callback(new) /\ Latecomer(w, new)
      BY <1>1, <2>1 DEF Knows, Callback, Latecomer, Ended
    <3> QED BY <3>1, <3>2, <3>3 DEF Knows
  <2>5. PaysOn(me, new)
    BY <1>1, <2>1 DEF PaysOn, SawDone, WillPay, SavesOrder
  <2> QED BY <1>2, <2>3, <2>4, <2>5, QuietStep
<1> QED BY <1>3, <1>4

\* Action VerifySign keeps the invariant.
LEMMA NextVerifySign ==
    ASSUME IInv, NEW w \in Worker, VerifySign(w)
    PROVE  IInv'
<1> DEFINE me == wk[w]
           o  == me.o
<1>1. /\ me \in WkType /\ Knows(w, me) /\ me.pc = "verify" /\ o \in Order
      /\ me.op = "callback" /\ wk \in [Worker -> WkType]
  BY Mover DEF VerifySign, Knows, InOrder, IInv, TypeOK
<1>2. Still /\ UNCHANGED <<updated, fails>>
  BY DEF VerifySign, Still
<1>3. CASE me.good /\ me.ts = "done"
  <2>1. Goto(w, "done") /\ "done" \in Ended
    BY <1>1, <1>3 DEF VerifySign, Goto, Ended
  <2>2. fails' \in 0..MaxFail /\ \A p \in Order : ~WillPay(me, p)
    BY <1>1, <1>2 DEF IInv, TypeOK, WillPay, SavesOrder
  <2> QED BY <1>2, <2>1, <2>2, EndStep
<1>4. CASE ~(me.good /\ me.ts = "done")
  <2>1. PICK new : /\ wk' = [wk EXCEPT ![w] = new]
                   /\ \/ ~me.good /\ new = [me EXCEPT !.pc = "saveTxn",
                                                     !.after = "failed", !.ts = "error"]
                      \/ me.good /\ new = [me EXCEPT !.pc = "saveTxn", !.after = "saveOrder",
                                                    !.ts = "done", !.st = "paid"]
    BY <1>1, <1>4 DEF VerifySign
  <2>2. /\ new \in WkType /\ new.pc = "saveTxn" /\ new.op = "callback" /\ new.o = o
        /\ new.good = me.good /\ new.seen = me.seen /\ new.late = me.late
        /\ \/ new.after = "failed" /\ new.ts = "error"
           \/ new.after = "saveOrder" /\ new.ts = "done" /\ new.st = "paid" /\ new.good
    BY ZenonT(60), <1>1, <2>1 DEF WkType, Pc, OrderStatus, TxnStatus
  <2>3. Onward(w, new)
    BY <1>1, <2>1, <2>2 DEF Onward, Continues, Creating, Ended
  <2>4. Knows(w, new)
    <3>1. InOrder(new) /\ InPlace(w, new)
      BY <1>1, <2>2 DEF Knows, InOrder, InPlace, Saves, SavesTxn, SavesOrder, Ended, Settles
    <3>2. Creator(new) /\ Settler(new) /\ Settlement(new) /\ Updater(new)
      BY <2>2 DEF Creator, Creating, Settler, Settlement, Settles, Updater
    <3>3. Callback(new) /\ Latecomer(w, new)
      BY <1>1, <2>2 DEF Knows, Callback, Latecomer, Ended
    <3> QED BY <3>1, <3>2, <3>3 DEF Knows
  <2>5. PaysOn(me, new)
    BY <1>1, <2>2 DEF PaysOn, SawDone, WillPay, SavesOrder
  <2> QED BY <1>2, <2>3, <2>4, <2>5, QuietStep
<1> QED BY <1>3, <1>4

\* A call that has word of its order settles it.
LEMMA SettlingStep ==
    ASSUME IInv, Still, UNCHANGED <<updated, fails>>, NEW w \in Worker,
           wk[w].op \in Settles, wk[w].pc \in {"load", "query"}, wk[w].o \in Word,
           NEW seen \in BOOLEAN, seen => w \in Cron /\ updated # {},
           NEW new, new = Settling([wk[w] EXCEPT !.seen = seen]),
           wk' = [wk EXCEPT ![w] = new]
    PROVE  IInv'
<1> DEFINE me == wk[w]
<1>1. me \in WkType /\ Knows(w, me) /\ me.pc \notin Ended
  BY Mover DEF Ended
<1>2. new = [me EXCEPT !.seen = seen, !.pc = "saveTxn", !.after = "saveOrder",
                       !.ts = "done", !.st = "done"]
  BY <1>1 DEF Settling, WkType
<1>3. /\ new \in WkType /\ new.pc = "saveTxn" /\ new.after = "saveOrder"
      /\ new.ts = "done" /\ new.st = "done" /\ new.seen = seen
      /\ new.op = me.op /\ new.o = me.o /\ new.late = me.late /\ new.todo = me.todo
  BY <1>1, <1>2 DEF WkType, Pc, OrderStatus, TxnStatus
<1>4. Onward(w, new)
  BY <1>1, <1>3 DEF Onward, Continues, Settles
<1>5. Knows(w, new)
  <2>1. InOrder(new) /\ InPlace(w, new)
    BY <1>1, <1>3 DEF Knows, InOrder, InPlace, Saves, SavesTxn, SavesOrder, Ended, Settles
  <2>2. Creator(new) /\ Callback(new) /\ Settlement(new) /\ Updater(new)
    BY <1>1, <1>3 DEF Creator, Creating, Callback, Settlement, Settles, Updater, SavesOrder
  <2>3. Settler(new) /\ Latecomer(w, new)
    BY <1>1, <1>3 DEF Knows, Settler, Latecomer, Ended
  <2> QED BY <2>1, <2>2, <2>3 DEF Knows
<1>6. PaysOn(me, new)
  BY <1>3 DEF PaysOn, SawDone, WillPay, Settles
<1> QED BY <1>4, <1>5, <1>6, QuietStep

\* Action LoadNotify keeps the invariant.
LEMMA NextLoadNotify ==
    ASSUME IInv, NEW w \in Worker, LoadNotify(w)
    PROVE  IInv'
<1> DEFINE me == wk[w]
           o  == me.o
<1>1. /\ me \in WkType /\ Knows(w, me) /\ me.pc = "load" /\ o \in Order
      /\ me.op = "notify" /\ wk \in [Worker -> WkType]
  BY Mover DEF LoadNotify, IInv, TypeOK
<1>2. Still /\ UNCHANGED <<updated, fails>>
  BY DEF LoadNotify, Still
<1>3. \A p \in Order : ~WillPay(me, p)
  BY <1>1 DEF WillPay
<1>4. CASE ~order[o].exists \/ ~txn[o].exists
  BY <1>1, <1>2, <1>3, <1>4, RejectStep DEF LoadNotify
<1>5. CASE order[o].exists /\ txn[o].exists /\ txn[o].status = "done"
  <2>1. Goto(w, "done") /\ "done" \in Ended
    BY <1>1, <1>5 DEF LoadNotify, Goto, Ended
  <2>2. fails' \in 0..MaxFail
    BY <1>2 DEF IInv, TypeOK
  <2> QED BY <1>2, <1>3, <2>1, <2>2, EndStep
<1>6. CASE order[o].exists /\ txn[o].exists /\ txn[o].status # "done"
  <2> PICK seen : seen = (o \in fulfilled)
    OBVIOUS
  <2> PICK new : new = Settling([wk[w] EXCEPT !.seen = seen])
    OBVIOUS
  <2>1. wk' = [wk EXCEPT ![w] = new]
    BY <1>1, <1>6 DEF LoadNotify
  <2>2. seen \in BOOLEAN /\ ~seen
    <3>1. o \notin fulfilled
      BY <1>6 DEF IInv, Recorded, FulfilledIsRecorded
    <3>2. seen \in BOOLEAN
      OBVIOUS
    <3>3. ~seen
      BY <3>1
    <3> QED BY <3>2, <3>3
  <2>3. o \in Word
    BY <1>1 DEF Knows, Settler, Ended
  <2> QED BY <1>1, <1>2, <2>1, <2>2, <2>3, SettlingStep DEF Settles
<1> QED BY <1>4, <1>5, <1>6

\* Action CronBegin keeps the invariant.
LEMMA NextCronBegin ==
    ASSUME IInv, NEW w \in Cron, CronBegin(w)
    PROVE  IInv'
<1> DEFINE me == wk[w]
           due == {o \in Order : /\ order[o].exists /\ order[o].status = "null"
                                 /\ txn[o].exists /\ method[o] = "wxpay"}
<1>1. w \in Worker /\ me \in WkType /\ Knows(w, me) /\ me.pc = "idle"
  BY Mover DEF CronBegin, Worker
<1> PICK new : new = [me EXCEPT !.pc = "next", !.op = "cron", !.todo = due]
  OBVIOUS
<1>2. /\ new \in WkType /\ new.pc = "next" /\ new.op = "cron" /\ new.todo = due
      /\ new.late = me.late
  <2>1. due \in SUBSET Order
    OBVIOUS
  <2> HIDE DEF due
  <2> QED BY <1>1, <2>1 DEF WkType, Pc, Op
<1>3. wk' = [wk EXCEPT ![w] = new] /\ Still /\ UNCHANGED <<updated, fails>>
  BY <1>1 DEF CronBegin, Still, IInv, TypeOK
<1>4. Onward(w, new)
  BY <1>2, <1>3 DEF Onward, Continues, Settles
<1>5. Knows(w, new)
  <2>1. InOrder(new) /\ InPlace(w, new)
    BY <1>2 DEF InOrder, InPlace, Saves, SavesTxn, SavesOrder, Ended
  <2>2. /\ Creator(new) /\ Callback(new) /\ Settlement(new) /\ Updater(new)
        /\ Latecomer(w, new)
    BY <1>2 DEF Creator, Creating, Callback, Settlement, Updater, Latecomer, Saves,
       SavesTxn, SavesOrder
  <2>3. Settler(new)
    BY <1>2 DEF Settler, Created, ByThirdParty, ThirdParty, Saves, SavesTxn, SavesOrder
  <2> QED BY <2>1, <2>2, <2>3 DEF Knows
<1>6. PaysOn(me, new)
  BY <1>1, <1>2 DEF PaysOn, SawDone, WillPay, SavesOrder
<1> QED BY <1>1, <1>3, <1>4, <1>5, <1>6, QuietStep

\* Action CronReload keeps the invariant.
LEMMA NextCronReload ==
    ASSUME IInv, NEW w \in Worker, CronReload(w)
    PROVE  IInv'
<1> DEFINE me == wk[w]
<1>1. /\ me \in WkType /\ Knows(w, me) /\ me.pc = "next" /\ me.op = "cron"
      /\ me.todo \subseteq Order /\ wk \in [Worker -> WkType]
  BY Mover DEF CronReload, Knows, InOrder, WkType, IInv, TypeOK
<1>2. Still /\ UNCHANGED <<updated, fails>>
  BY DEF CronReload, Still
<1>3. \A p \in Order : ~WillPay(me, p)
  BY <1>1 DEF WillPay
<1>4. CASE Reject(w)
  BY <1>2, <1>3, <1>4, RejectStep
<1>5. CASE ~Reject(w)
  <2>1. PICK o \in me.todo :
           wk' = [wk EXCEPT ![w] =
                    [me EXCEPT !.pc = IF order[o].status = "done" THEN "next" ELSE "query",
                               !.o = o, !.todo = @ \ {o}, !.seen = o \in fulfilled]]
    BY <1>5 DEF CronReload
  <2> PICK seen : seen = (o \in fulfilled)
    OBVIOUS
  <2> PICK pc : pc = IF order[o].status = "done" THEN "next" ELSE "query"
    OBVIOUS
  <2> PICK todo : todo = me.todo \ {o}
    OBVIOUS
  <2> PICK new : new = [me EXCEPT !.pc = pc, !.o = o, !.todo = todo, !.seen = seen]
    OBVIOUS
  <2>2. wk' = [wk EXCEPT ![w] = new]
    BY <2>1
  <2>3. /\ new \in WkType /\ new.pc = pc /\ new.o = o /\ new.todo = todo
        /\ new.seen = seen /\ new.op = "cron" /\ new.late = me.late
    <3>1. /\ seen \in BOOLEAN /\ pc \in Pc /\ o \in Order
          /\ todo \in SUBSET Order
      BY <1>1, <2>1 DEF Pc
    <3> QED BY ZenonT(60), <1>1, <3>1 DEF WkType
  <2>4. Onward(w, new)
    BY <1>1, <2>2, <2>3 DEF Onward, Continues, Settles
  <2>5. pc \in {"next", "query"} /\ (seen /\ pc = "query" => updated # {})
    BY DEF IInv, Recorded, FulfilledIsRecorded
  <2>6. Knows(w, new)
    <3>1. InOrder(new) /\ InPlace(w, new)
      BY <1>1, <2>3, <2>5
         DEF Knows, InOrder, InPlace, Saves, SavesTxn, SavesOrder, Ended
    <3>2. Creator(new) /\ Callback(new) /\ Settlement(new) /\ Updater(new)
      BY <2>3, <2>5 DEF Creator, Creating, Callback, Settlement, Updater, Saves,
         SavesTxn, SavesOrder
    <3>3. Settler(new)
      BY <1>1, <2>1, <2>3, <2>5 DEF Knows, Settler, Saves, SavesTxn, SavesOrder, Ended
    <3>4. Latecomer(w, new)
      BY <1>1, <2>3, <2>5 DEF Knows, InPlace, Latecomer, Ended
    <3> QED BY <3>1, <3>2, <3>3, <3>4 DEF Knows
  <2>7. PaysOn(me, new)
    BY <1>3, <2>3 DEF PaysOn, SawDone, WillPay
  <2> QED BY <1>2, <2>4, <2>6, <2>7, QuietStep
<1> QED BY <1>4, <1>5

\* Action CronQuery keeps the invariant.
LEMMA NextCronQuery ==
    ASSUME IInv, NEW w \in Worker, CronQuery(w)
    PROVE  IInv'
<1> DEFINE me == wk[w]
           o  == me.o
<1>1. /\ me \in WkType /\ Knows(w, me) /\ me.pc = "query" /\ o \in Order
      /\ me.op = "cron" /\ wk \in [Worker -> WkType]
  BY Mover DEF CronQuery, Knows, InOrder, IInv, TypeOK
<1>2. Still /\ UNCHANGED <<updated, fails>>
  BY DEF CronQuery, Still
<1>3. \A p \in Order : ~WillPay(me, p)
  BY <1>1 DEF WillPay
<1>4. CASE ~order[o].exists
  BY <1>2, <1>3, <1>4, RejectStep DEF CronQuery
<1>5. CASE order[o].exists /\ o \in paid
  <2> PICK seen : seen = me.seen
    OBVIOUS
  <2> PICK new : new = Settling([me EXCEPT !.seen = seen])
    OBVIOUS
  <2>1. [me EXCEPT !.seen = seen] = me
    BY <1>1 DEF WkType
  <2>2. wk' = [wk EXCEPT ![w] = new]
    BY <1>1, <1>5, <2>1 DEF CronQuery
  <2>3. seen \in BOOLEAN /\ (seen => w \in Cron /\ updated # {})
    BY <1>1 DEF Knows, Latecomer, Ended, WkType
  <2> QED BY <1>1, <1>2, <1>5, <2>2, <2>3, SettlingStep DEF Settles
<1>6. CASE order[o].exists /\ o \notin paid
  <2> PICK new : new = [me EXCEPT !.pc = "next"]
    OBVIOUS
  <2>1. /\ new \in WkType /\ new.pc = "next" /\ new.op = "cron" /\ new.todo = me.todo
        /\ new.late = me.late
    BY <1>1 DEF WkType, Pc
  <2>2. wk' = [wk EXCEPT ![w] = new]
    BY <1>1, <1>6 DEF CronQuery
  <2>3. Onward(w, new)
    BY <1>1, <2>1, <2>2 DEF Onward, Continues, Settles
  <2>4. Knows(w, new)
    <3>1. InOrder(new) /\ InPlace(w, new)
      BY <1>1, <2>1 DEF Knows, InOrder, InPlace, Saves, SavesTxn, SavesOrder, Ended
    <3>2. /\ Creator(new) /\ Callback(new) /\ Settlement(new) /\ Updater(new)
          /\ Latecomer(w, new)
      BY <2>1 DEF Creator, Creating, Callback, Settlement, Updater, Latecomer, Saves,
         SavesTxn, SavesOrder
    <3>3. Settler(new)
      BY <1>1, <2>1 DEF Knows, Settler, Saves, SavesTxn, SavesOrder, Ended
    <3> QED BY <3>1, <3>2, <3>3 DEF Knows
  <2>5. PaysOn(me, new)
    BY <1>3, <2>1 DEF PaysOn, SawDone, WillPay
  <2> QED BY <1>2, <2>3, <2>4, <2>5, QuietStep
<1> QED BY <1>4, <1>5, <1>6

\* Action CronEnd keeps the invariant.
LEMMA NextCronEnd ==
    ASSUME IInv, NEW w \in Worker, CronEnd(w)
    PROVE  IInv'
<1>1. Still /\ UNCHANGED <<updated, fails>> /\ Goto(w, "idle") /\ "idle" \in Ended
  BY DEF CronEnd, Still, Ended
<1>2. fails' \in 0..MaxFail /\ \A o \in Order : ~WillPay(wk[w], o)
  BY <1>1 DEF CronEnd, WillPay, SavesOrder, IInv, TypeOK
<1> QED BY <1>1, <1>2, EndStep

-----------------------------------------------------------------------------
(* Steps of a worker that change the tables. *)

\* The payers of an order and those who saw it done move on.
LEMMA Payers ==
    ASSUME IInv, NEW w \in Worker, NEW new, wk' = [wk EXCEPT ![w] = new],
           updated \subseteq updated', fails' = fails,
           \A p \in Order : ByThirdParty(p)' /\ p \notin updated' =>
               /\ ByThirdParty(p) \/ ~SeenDone(p)
               /\ txn'[p].status = "done" \/ SawDone(new, p) => SeenDone(p) \/ Paying(p)'
               /\ order[p].status = "paid" \/ WillPay(wk[w], p) => Paying(p)'
    PROVE  PaidInTheEnd'
<1>1. wk'[w] = new /\ \A u \in Worker \ {w} : wk'[u] = wk[u]
  BY DEF IInv, TypeOK
<1> SUFFICES ASSUME NEW p \in Order, ByThirdParty(p)', p \notin updated', fails = 0,
                    SeenDone(p)'
             PROVE  Paying(p)'
  BY DEF PaidInTheEnd
<1>2. SeenDone(p) \/ Paying(p)'
  <2>1. ASSUME NEW u \in Worker, SawDone(wk'[u], p)
        PROVE  SawDone(new, p) \/ SawDone(wk[u], p)
    BY <1>1, <2>1
  <2> QED BY <2>1 DEF SeenDone, SawDone
<1>3. CASE SeenDone(p)
  <2>1. Paying(p)
    BY <1>3 DEF IInv, PaidInTheEnd
  <2>2. ASSUME NEW u \in Worker \ {w}, WillPay(wk[u], p)
        PROVE  Paying(p)'
    BY <1>1, <2>2 DEF Paying, WillPay
  <2> QED BY <2>1, <2>2 DEF Paying
<1> QED BY <1>2, <1>3

\* What the rows of the moving worker say, put together.
LEMMA WriteTxnRow ==
    ASSUME IInv, NEW w \in Worker, wk[w].pc = "writeTxn",
           ~(wk[w].mode = "insert" /\ txn[wk[w].o].exists),
           NEW row, row = Saved(txn[wk[w].o], wk[w].mode, wk[w].ts)
    PROVE  LET me == wk[w]
               o  == me.o
           IN  /\ row \in [exists : BOOLEAN, status : TxnStatus]
               /\ (row.exists /\ row.status = me.ts) \/ row = txn[o]
               /\ txn[o].exists => row.exists
               /\ me.op = "create" => /\ row.exists /\ row.status = "signed"
                                      /\ ByThirdParty(o) /\ order[o].exists
               /\ me.op = "callback" => /\ row.exists /\ row.status # "null"
                                        /\ ByThirdParty(o) /\ order[o].exists
               /\ me.op \in Settles => /\ row \in {DoneRow, Missing} /\ o \in Word
                                       /\ txn[o] = DoneRow => row = DoneRow
                                       /\ ~ByThirdParty(o) /\ Created(o)
               /\ me.op \in {"create", "callback"} \cup Settles
<1> DEFINE me == wk[w]
           o  == me.o
<1>1. /\ me \in WkType /\ Knows(w, me) /\ o \in Order
      /\ txn[o] \in [exists : BOOLEAN, status : TxnStatus]
  BY Mover
<1>2. \/ /\ me.mode = "insert" \/ (me.mode = "update" /\ txn[o].exists)
         /\ row = [exists |-> TRUE, status |-> me.ts]
      \/ /\ me.mode = "keep" \/ (me.mode = "update" /\ ~txn[o].exists)
         /\ row = txn[o]
  BY <1>1 DEF Saved, WkType, Mode
<1>3. me.op \in {"create", "callback"} \cup Settles
  BY <1>1 DEF Knows, InOrder, SavesTxn
<1>4. /\ row \in [exists : BOOLEAN, status : TxnStatus]
      /\ (row.exists /\ row.status = me.ts) \/ row = txn[o]
      /\ txn[o].exists => row.exists
  <2>1. me.ts \in TxnStatus
    BY <1>1 DEF WkType
  <2>2. [exists |-> TRUE, status |-> me.ts] \in [exists : BOOLEAN, status : TxnStatus]
    BY <2>1
  <2>3. CASE row = txn[o]
    BY <1>1, <2>3
  <2>4. CASE row = [exists |-> TRUE, status |-> me.ts]
    BY <2>2, <2>4
  <2> QED BY <1>2, <2>3, <2>4
<1>5. me.op = "create" => /\ row.exists /\ row.status = "signed"
                          /\ ByThirdParty(o) /\ order[o].exists
  BY <1>1, <1>2 DEF Knows, InOrder, Creator, Creating, Fresh, Saves, SavesTxn
<1>6. me.op = "callback" => /\ row.exists /\ row.status # "null"
                            /\ ByThirdParty(o) /\ order[o].exists
  BY <1>1, <1>2 DEF Knows, Callback, SavesTxn, Ended, IInv, Rows, Missing
<1>7. me.op \in Settles => /\ row \in {DoneRow, Missing} /\ o \in Word
                           /\ txn[o] = DoneRow => row = DoneRow
                           /\ ~ByThirdParty(o) /\ Created(o)
  BY <1>1, <1>2 DEF Knows, InOrder, Settler, Settlement, Settles, Saves, SavesTxn, Ended,
     IInv, Rows, DoneRow, Created
<1> QED BY <1>3, <1>4, <1>5, <1>6, <1>7

\* Action WriteTxn keeps the invariant.
LEMMA NextWriteTxn ==
    ASSUME IInv, NEW w \in Worker, WriteTxn(w)
    PROVE  IInv'
<1> DEFINE me == wk[w]
<1> PICK o : o = me.o
  OBVIOUS
<1>1. /\ me \in WkType /\ Knows(w, me) /\ me.pc = "writeTxn" /\ o \in Order
      /\ txn \in [Order -> [exists : BOOLEAN, status : TxnStatus]]
  BY Mover DEF WriteTxn, IInv, TypeOK
<1>2. UNCHANGED <<method, order, paid, claimed, old, fulfilled, updated, fails>>
  BY DEF WriteTxn
<1>3. CASE me.mode = "insert" /\ txn[o].exists
  <2>1. Reject(w) /\ Still /\ \A p \in Order : ~WillPay(me, p)
    BY <1>1, <1>2, <1>3 DEF WriteTxn, Still, WillPay, SavesOrder
  <2> QED BY <1>2, <2>1, RejectStep
<1>4. CASE ~(me.mode = "insert" /\ txn[o].exists)
  <2> PICK row : row = Saved(txn[o], me.mode, me.ts)
    OBVIOUS
  <2> PICK new : new = At(me, me.after)
    OBVIOUS
  <2>1. txn' = [txn EXCEPT ![o] = row] /\ wk' = [wk EXCEPT ![w] = new]
    BY <1>1, <1>4 DEF WriteTxn, Goto
  <2>2. /\ row \in [exists : BOOLEAN, status : TxnStatus]
        /\ (row.exists /\ row.status = me.ts) \/ row = txn[o]
        /\ txn[o].exists => row.exists
        /\ me.op = "create" => /\ row.exists /\ row.status = "signed"
                               /\ ByThirdParty(o) /\ order[o].exists
        /\ me.op = "callback" => /\ row.exists /\ row.status # "null"
                                 /\ ByThirdParty(o) /\ order[o].exists
        /\ me.op \in Settles => /\ row \in {DoneRow, Missing} /\ o \in Word
                                /\ txn[o] = DoneRow => row = DoneRow
                                /\ ~ByThirdParty(o) /\ Created(o)
        /\ me.op \in {"create", "callback"} \cup Settles
    BY <1>1, <1>4, WriteTxnRow
  <2>3. /\ new \in WkType /\ new.late = me.late
        /\ \/ /\ new.pc = "failed" /\ me.after = "failed"
              /\ me.op = "callback" /\ ~new.seen
           \/ /\ new.pc = me.after /\ me.after \in {"saveOrder", "verify"}
              /\ new.op = me.op /\ new.o = o /\ new.st = me.st /\ new.ts = me.ts
              /\ new.after = me.after /\ new.todo = me.todo
              /\ new.good = me.good /\ new.seen = me.seen
    <3>1. \/ me.after \in {"saveOrder", "verify"}
          \/ me.after = "failed" /\ me.op = "callback"
      BY <1>1, <2>2 DEF Knows, InOrder, Saves, SavesTxn
    <3>2. CASE me.after = "failed" /\ me.op = "callback"
      BY <1>1, <3>2, AtEnd DEF Ended
    <3>3. CASE me.after \in {"saveOrder", "verify"}
      BY <1>1, <3>3, AtGo DEF Ended, Pc
    <3> QED BY <3>1, <3>2, <3>3
  <2>4. Guarantee
    <3>1. Kept(o)
      <4>1. txn'[o] = row /\ order' = order /\ method' = method
        BY <1>1, <1>2, <2>1
      <4>2. /\ Created(o) => Created(o)' /\ method'[o] = method[o]
            /\ order[o].exists /\ txn[o].status # "null" => order'[o].exists
        BY <1>2 DEF Created
      <4>3. ByThirdParty(o) => txn'[o].status # "null"
        BY <2>2, <4>1
      <4>4. ~ByThirdParty(o) => row \in {DoneRow, Missing} /\ (txn[o] = DoneRow => row = DoneRow)
        BY <2>2
      <4> QED BY <4>1, <4>2, <4>3, <4>4 DEF Kept
    <3>2. ASSUME NEW p \in Order \ {o} PROVE Kept(p)
      BY <1>1, <1>2, <2>1 DEF Kept, Created, ByThirdParty
    <3> QED BY <1>2, <3>1, <3>2 DEF Guarantee
  <2>5. ASSUME NEW u \in Worker \ {w} PROVE Undisturbed(wk[u])
    <3>1. /\ Spares(me, wk[u]) /\ Creator(wk[u]) /\ wk[u].o \in Order
      BY WorkerTypes DEF IInv, Alone, Knowledge, Knows
    <3>2. Creating(wk[u]) => wk[u].o # o
      BY <1>1, <2>2, <3>1 DEF Spares, Creator, Creating, Saves, SavesTxn, Ended
    <3> QED BY <1>1, <1>2, <2>1, <3>1, <3>2 DEF Undisturbed, Creator
  <2>6. Knowledge' /\ Alone'
    <3>1. Continues(me, new)
      BY <1>1, <2>2, <2>3 DEF Continues, Creating, Ended, Saves, SavesTxn, SavesOrder
    <3>2. \A u \in Worker \ {w} : Spares(new, wk[u]) /\ Spares(wk[u], new)
      BY <3>1, StillSpares DEF IInv, Alone
    <3>3. Knows(w, new)'
      <4>1. InOrder(new)' /\ InPlace(w, new)'
        <5>1. CASE new.pc = "failed"
          BY <2>3, <5>1 DEF InOrder, InPlace, Saves, SavesTxn, SavesOrder, Ended
        <5>2. CASE new.pc = me.after /\ me.after = "verify"
          BY <1>1, <2>2, <2>3, <5>2
             DEF Knows, InOrder, InPlace, Saves, SavesTxn, SavesOrder, Ended, Settles
        <5>3. CASE new.pc = me.after /\ me.after = "saveOrder"
          <6>1. InPlace(w, new)
            BY <1>1, <2>3, <5>3 DEF Knows, InPlace, Ended
          <6>2. me.op = "callback" => me.st = "paid" /\ me.good
            BY <1>1, <5>3 DEF Knows, InOrder, SavesTxn
          <6>3. InOrder(new)
            BY <1>1, <2>2, <2>3, <5>3, <6>2
               DEF Knows, InOrder, Saves, SavesTxn, SavesOrder, Ended, Settles
          <6> QED BY <6>1, <6>3 DEF InOrder, InPlace
        <5> QED BY <2>3, <5>1, <5>2, <5>3
      <4>2. txn'[o] = row
        BY <1>1, <2>1
      <4>3. Creator(new)'
        BY <1>1, <1>2, <2>2, <2>3, <4>2
           DEF Knows, Creator, Creating, ByThirdParty, Saves, SavesTxn, SavesOrder
      <4>4. Callback(new)'
        BY <1>1, <1>2, <2>2, <2>3, <4>2
           DEF Knows, Callback, ByThirdParty, SavesTxn, Ended
      <4>5. Settler(new)'
        BY <1>1, <1>2, <2>2, <2>3
           DEF Knows, Settler, ByThirdParty, Created, Saves, SavesTxn, SavesOrder, Ended
      <4>6. Settlement(new)' /\ Updater(new)' /\ Latecomer(w, new)'
        BY <1>1, <1>2, <2>2, <2>3, <4>2
           DEF Knows, Settlement, Updater, Latecomer, SavesOrder, Ended, Settles
      <4> QED BY <4>1, <4>3, <4>4, <4>5, <4>6 DEF Knows
    <3> QED BY <2>1, <2>4, <2>5, <3>2, <3>3, Moves
  <2>7. TypeOK'
    BY <1>1, <1>2, <2>1, <2>2, <2>3 DEF IInv, TypeOK
  <2>8. Rows'
    BY <1>1, <1>2, <2>1, <2>2
       DEF IInv, Rows, Created, ByThirdParty, Backed, DoneRow, Missing, Settles
  <2>9. Recorded'
    <3>1. NotThirdParty' /\ FulfilledIsRecorded'
      BY <1>1, <1>2, <2>1, <2>2
         DEF IInv, Recorded, NotThirdParty, FulfilledIsRecorded, ByThirdParty, DoneRow
    <3>2. ASSUME NEW p \in Order, p \in fulfilled \/ order[p].status # "null"
          PROVE  txn'[p].exists /\ txn'[p].status # "null"
      BY <1>2, <2>8, <3>1, <3>2
         DEF Rows, Backed, ByThirdParty, FulfilledIsRecorded, DoneRow, Missing
    <3> QED BY <1>2, <3>1, <3>2 DEF IInv, Recorded, SettledOnWord
  <2>10. NoLateFulfilment'
    BY <1>2, <2>1, <2>3 DEF IInv, TypeOK, NoLateFulfilment
  <2>11. PaidInTheEnd'
    <3>1. wk'[w] = new
      BY <2>1 DEF IInv, TypeOK
    <3>2. ASSUME NEW p \in Order, ByThirdParty(p), txn'[p].status = "done"
          PROVE  SeenDone(p) \/ Paying(p)'
      <4>1. CASE p # o
        BY <1>1, <2>1, <3>2, <4>1 DEF SeenDone
      <4>2. CASE p = o /\ row = txn[o]
        BY <1>1, <2>1, <3>2, <4>2 DEF SeenDone
      <4>3. CASE p = o /\ row.status = me.ts
        <5>1. me.op = "callback" /\ me.ts = "done"
          BY <1>1, <2>1, <2>2, <3>2, <4>3
        <5>2. me.after = "verify" => SawDone(me, o)
          BY <1>1, <5>1 DEF SawDone, SavesTxn
        <5>3. me.after = "saveOrder" => WillPay(new, o)
          BY <2>3, <5>1 DEF WillPay, SavesOrder
        <5>4. me.after \in {"verify", "saveOrder"}
          BY <1>1, <5>1 DEF Knows, InOrder, SavesTxn
        <5> QED BY <3>1, <4>3, <5>2, <5>3, <5>4 DEF SeenDone, Paying, WillPay
      <4> QED BY <2>2, <4>1, <4>2, <4>3
    <3>3. ASSUME NEW p \in Order, SawDone(new, p)
          PROVE  SeenDone(p)
      BY <1>1, <2>3, <3>3 DEF SeenDone, SawDone, SavesTxn
    <3>4. ASSUME NEW p \in Order
          PROVE  ~WillPay(me, p) /\ (order[p].status = "paid" => Paying(p)')
      BY SMTT(30), <1>1, <1>2 DEF WillPay, SavesOrder, Paying
    <3> QED BY <1>2, <2>1, <3>2, <3>3, <3>4, Payers DEF ByThirdParty
  <2> QED BY <2>6, <2>7, <2>8, <2>9, <2>10, <2>11 DEF IInv
<1> QED BY <1>3, <1>4

\* The same of the row of the order.
LEMMA WriteOrderRow ==
    ASSUME IInv, NEW w \in Worker, wk[w].pc = "writeOrder",
           ~(wk[w].mode = "insert" /\ (order[wk[w].o].exists \/ ~txn[wk[w].o].exists)),
           NEW row, row = Saved(order[wk[w].o], wk[w].mode, wk[w].st)
    PROVE  LET me == wk[w]
               o  == me.o
           IN  /\ row \in [exists : BOOLEAN, status : OrderStatus]
               /\ (row.exists /\ row.status = me.st) \/ row = order[o]
               /\ order[o].exists => row.exists
               /\ row.exists => order[o].exists \/ txn[o].exists
               /\ me.op = "create" => order[o] = Fresh /\ row.status = "waiting"
                                      /\ ByThirdParty(o) /\ txn[o].status # "null"
               /\ me.op = "callback" =>
                     /\ row.status = "paid" \/ (row = order[o] /\ me.mode = "keep")
                     /\ ByThirdParty(o) /\ txn[o].status # "null"
                     /\ o \in Word /\ order[o].exists
               /\ me.op = "update" =>
                     /\ o \in updated
                     /\ me.st \in {"paid", "done"} => o \in Word
                     /\ me.st # "null" => Backed(o)
               /\ me.op \in Settles =>
                     /\ txn[o] = DoneRow /\ row.exists /\ o \in Word /\ ~ByThirdParty(o)
                     /\ row.status = "done" \/ (row = order[o] /\ o \in updated)
               /\ me.op \in {"create", "update", "callback"} \cup Settles
<1> DEFINE me == wk[w]
           o  == me.o
<1>1. /\ me \in WkType /\ Knows(w, me) /\ o \in Order
      /\ order[o] \in [exists : BOOLEAN, status : OrderStatus]
  BY Mover
<1>2. \/ /\ \/ me.mode = "insert" /\ ~order[o].exists /\ txn[o].exists
            \/ me.mode = "update" /\ order[o].exists
         /\ row = [exists |-> TRUE, status |-> me.st]
      \/ /\ me.mode = "keep" \/ (me.mode = "update" /\ ~order[o].exists)
         /\ row = order[o]
  BY <1>1 DEF Saved, WkType, Mode
<1>3. me.op \in {"create", "update", "callback"} \cup Settles
  BY <1>1 DEF Knows, InOrder, SavesOrder
<1>4. /\ row \in [exists : BOOLEAN, status : OrderStatus]
      /\ (row.exists /\ row.status = me.st) \/ row = order[o]
      /\ order[o].exists => row.exists
      /\ row.exists => order[o].exists \/ txn[o].exists
  <2>1. me.st \in OrderStatus
    BY <1>1 DEF WkType
  <2>2. [exists |-> TRUE, status |-> me.st] \in [exists : BOOLEAN, status : OrderStatus]
    BY <2>1
  <2>3. CASE row = order[o]
    BY <1>1, <2>3
  <2>4. CASE /\ row = [exists |-> TRUE, status |-> me.st]
             /\ order[o].exists \/ txn[o].exists
    BY <2>2, <2>4
  <2> QED BY <1>2, <2>3, <2>4
<1>5. CASE me.op = "create"
  <2>1. /\ order[o] = Fresh /\ me.st = "waiting" /\ ByThirdParty(o)
        /\ txn[o].status # "null"
    BY <1>1, <1>5 DEF Knows, InOrder, Creator, Creating, Saves, SavesOrder
  <2>2. me.mode = "update"
    BY <1>1, <1>2, <1>5, <2>1 DEF Knows, Creator, Creating, Saves, SavesOrder, Fresh
  <2> QED BY <1>2, <1>3, <1>4, <1>5, <2>1, <2>2 DEF Fresh, Settles
<1>6. CASE me.op = "callback"
  <2>1. /\ me.st = "paid" /\ me.good /\ me.mode # "insert"
        /\ ByThirdParty(o) /\ txn[o].status # "null" /\ order[o].exists /\ o \in Word
    BY <1>1, <1>6 DEF Knows, InOrder, Callback, SavesOrder, Ended
  <2> QED BY <1>2, <1>3, <1>4, <1>6, <2>1 DEF Settles
<1>7. CASE me.op = "update"
  <2>1. Updater(me) /\ me.pc \in SavesOrder
    BY <1>1 DEF Knows, SavesOrder
  <2> QED BY <1>3, <1>4, <1>7, <2>1 DEF Updater, Settles
<1>8. CASE me.op \in Settles
  <2>1. /\ me.st = "done" /\ o \in Word /\ ~ByThirdParty(o)
        /\ txn[o] \in {DoneRow, Missing}
        /\ me.mode # "insert" =>
              /\ txn[o] = DoneRow /\ order[o].exists
              /\ me.mode = "keep" /\ o \notin updated => order[o].status = "done"
    BY <1>1, <1>8 DEF Knows, InOrder, Settler, Settlement, Settles, Saves, SavesOrder, Ended
  <2>2. me.mode = "insert" => txn[o] = DoneRow
    BY <1>2, <2>1 DEF Missing
  <2>3. row.status = "done" \/ (row = order[o] /\ o \in updated)
    BY <1>2, <2>1
  <2> QED BY <1>2, <1>3, <1>4, <1>8, <2>1, <2>2, <2>3 DEF Settles
<1> QED BY <1>3, <1>5, <1>6, <1>7, <1>8

\* Action WriteOrder keeps the invariant.
LEMMA NextWriteOrder ==
    ASSUME IInv, NEW w \in Worker, WriteOrder(w)
    PROVE  IInv'
<1> DEFINE me == wk[w]
<1> PICK o : o = me.o
  OBVIOUS
<1>1. /\ me \in WkType /\ Knows(w, me) /\ me.pc = "writeOrder" /\ o \in Order
      /\ order \in [Order -> [exists : BOOLEAN, status : OrderStatus]]
  BY Mover DEF WriteOrder, IInv, TypeOK
<1>2. UNCHANGED <<method, txn, paid, claimed, old, fulfilled, updated, fails>>
  BY DEF WriteOrder
<1>3. CASE me.mode = "insert" /\ (order[o].exists \/ ~txn[o].exists)
  <2>1. Reject(w) /\ Still /\ \A p \in Order : ~WillPay(me, p)
    BY <1>1, <1>2, <1>3 DEF WriteOrder, Still, WillPay
  <2> QED BY <1>2, <2>1, RejectStep
<1>4. CASE ~(me.mode = "insert" /\ (order[o].exists \/ ~txn[o].exists))
  <2>1. PICK pc \in AfterOrder(w) : Goto(w, pc) /\ order' =
           [order EXCEPT ![o] = Saved(order[o], me.mode, me.st)]
    BY <1>1, <1>4 DEF WriteOrder
  <2> PICK row : row = Saved(order[o], me.mode, me.st)
    OBVIOUS
  <2> PICK new : new = At(me, pc)
    OBVIOUS
  <2>2. order' = [order EXCEPT ![o] = row] /\ wk' = [wk EXCEPT ![w] = new]
    BY <2>1 DEF Goto
  <2>3. /\ row \in [exists : BOOLEAN, status : OrderStatus]
        /\ (row.exists /\ row.status = me.st) \/ row = order[o]
        /\ order[o].exists => row.exists
        /\ row.exists => order[o].exists \/ txn[o].exists
        /\ me.op = "create" => order[o] = Fresh /\ row.status = "waiting"
                               /\ ByThirdParty(o) /\ txn[o].status # "null"
        /\ me.op = "callback" =>
              /\ row.status = "paid" \/ (row = order[o] /\ me.mode = "keep")
              /\ ByThirdParty(o) /\ txn[o].status # "null"
              /\ o \in Word /\ order[o].exists
        /\ me.op = "update" =>
              /\ o \in updated
              /\ me.st \in {"paid", "done"} => o \in Word
              /\ me.st # "null" => Backed(o)
        /\ me.op \in Settles =>
              /\ txn[o] = DoneRow /\ row.exists /\ o \in Word /\ ~ByThirdParty(o)
              /\ row.status = "done" \/ (row = order[o] /\ o \in updated)
        /\ me.op \in {"create", "update", "callback"} \cup Settles
    BY <1>1, <1>4, WriteOrderRow
  <2>4. /\ new \in WkType /\ new.late = me.late /\ new.pc = pc
        /\ \/ pc = "done" /\ ~new.seen
           \/ /\ \/ pc = "handle" /\ me.op \in Settles
                 \/ pc = "reload" /\ me.op = "create"
              /\ new.op = me.op /\ new.o = o /\ new.todo = me.todo /\ new.seen = me.seen
    <3>1. \/ pc = "done"
          \/ pc = "handle" /\ me.op \in Settles
          \/ pc = "reload" /\ me.op = "create"
      BY DEF AfterOrder, Settles
    <3>2. CASE pc = "done"
      BY <1>1, <3>2, AtEnd DEF Ended
    <3>3. CASE pc # "done"
      BY <1>1, <3>1, <3>3, AtGo DEF Ended, Pc
    <3> QED BY <3>1, <3>2, <3>3
  <2>5. Guarantee
    <3>1. order'[o] = row /\ \A p \in Order \ {o} : order'[p] = order[p]
      BY <1>1, <2>2
    <3>2. Kept(o)
      BY <1>2, <2>3, <3>1 DEF Kept, Created, ByThirdParty
    <3>3. ASSUME NEW p \in Order \ {o} PROVE Kept(p)
      BY <1>2, <3>1 DEF Kept, Created, ByThirdParty
    <3> QED BY <1>2, <3>2, <3>3 DEF Guarantee
  <2>6. ASSUME NEW u \in Worker \ {w} PROVE Undisturbed(wk[u])
    <3>1. /\ Spares(me, wk[u]) /\ Creator(wk[u]) /\ wk[u].o \in Order
      BY WorkerTypes DEF IInv, Alone, Knowledge, Knows
    <3>2. Creating(wk[u]) /\ wk[u].o = o => row = order[o]
      <4> SUFFICES ASSUME Creating(wk[u]), wk[u].o = o PROVE row = order[o]
        OBVIOUS
      <4>1. ~Creating(me) /\ me.op # "callback" /\ (me.op = "update" => me.st = "null")
        BY <1>1, <3>1 DEF Spares, SavesOrder, Ended
      <4>2. order[o] = Fresh /\ o \notin Word
        BY <3>1 DEF Creator
      <4>3. me.op = "update"
        BY <1>1, <2>3, <4>1, <4>2 DEF Creating, Saves, SavesOrder
      <4>4. (row.exists /\ row.status = "null") \/ row = order[o]
        BY <2>3, <4>1, <4>3
      <4> QED BY <2>3, <4>2, <4>4 DEF Fresh
    <3> QED BY <1>1, <1>2, <2>2, <3>1, <3>2 DEF Undisturbed, Creator
  <2>7. Knowledge' /\ Alone'
    <3>1. Continues(me, new)
      BY <1>1, <2>4 DEF Continues, Creating, Ended, Saves, SavesTxn, SavesOrder
    <3>2. \A u \in Worker \ {w} : Spares(new, wk[u]) /\ Spares(wk[u], new)
      BY <3>1, StillSpares DEF IInv, Alone
    <3>3. Knows(w, new)'
      <4>1. InOrder(new)' /\ InPlace(w, new)'
        BY <1>1, <2>4
           DEF Knows, InOrder, InPlace, Saves, SavesTxn, SavesOrder, Ended, Settles
      <4>2. order'[o] = row
        BY <1>1, <2>2
      <4>3. Creator(new)' /\ Callback(new)' /\ Updater(new)'
        BY <2>4 DEF Creator, Creating, Callback, Updater, Settles, Saves, SavesTxn,
           SavesOrder, Ended
      <4>4. Settler(new)'
        <5>1. \A p \in Order : Created(p) => Created(p)'
          BY <2>5 DEF Guarantee, Kept
        <5>2. me.todo \subseteq Order
          BY <1>1 DEF WkType
        <5> QED BY <1>1, <1>2, <2>3, <2>4, <5>1, <5>2
                DEF Knows, Settler, ByThirdParty, Saves, SavesTxn, SavesOrder, Ended
      <4>5. Settlement(new)'
        BY <1>2, <2>3, <2>4, <4>2 DEF Settlement, SavesOrder
      <4>6. Latecomer(w, new)'
        BY <1>1, <1>2, <2>4 DEF Knows, Latecomer, Ended
      <4> QED BY <4>1, <4>3, <4>4, <4>5, <4>6 DEF Knows
    <3> QED BY <2>2, <2>5, <2>6, <3>2, <3>3, Moves
  <2>8. TypeOK'
    BY <1>1, <1>2, <2>2, <2>3, <2>4 DEF IInv, TypeOK
  <2>9. Rows'
    BY <1>1, <1>2, <2>2, <2>3
       DEF IInv, Rows, Created, ByThirdParty, Backed, DoneRow, Missing, Settles, Fresh
  <2>10. Recorded'
    <3>1. NotThirdParty'
      BY <1>1, <1>2, <2>2, <2>3 DEF IInv, Recorded, NotThirdParty, ByThirdParty
    <3>2. FulfilledIsRecorded'
      BY <1>1, <1>2, <2>2, <2>3 DEF IInv, Recorded, NotThirdParty, FulfilledIsRecorded, DoneRow
    <3>3. SettledOnWord'
      <4>1. ASSUME NEW p \in Order, p \in fulfilled \/ order'[p].status \in {"paid", "done"}
            PROVE  p \in Word
        BY <1>1, <2>2, <2>3, <4>1 DEF IInv, Recorded, SettledOnWord
      <4>2. ASSUME NEW p \in Order, p \in fulfilled \/ order'[p].status # "null"
            PROVE  txn[p].exists /\ txn[p].status # "null"
        BY <1>2, <2>9, <4>2, <3>2
           DEF Rows, Backed, ByThirdParty, FulfilledIsRecorded, DoneRow, Missing
      <4> QED BY <1>2, <4>1, <4>2 DEF SettledOnWord
    <3> QED BY <3>1, <3>2, <3>3 DEF Recorded
  <2>11. NoLateFulfilment'
    BY <1>2, <2>2, <2>4 DEF IInv, TypeOK, NoLateFulfilment
  <2>12. PaidInTheEnd'
    <3>1. ASSUME NEW p \in Order, txn'[p].status = "done" \/ SawDone(new, p)
          PROVE  SeenDone(p)
      BY <1>2, <2>4, <3>1 DEF SeenDone, SawDone, SavesTxn
    <3>2. ASSUME NEW p \in Order, p # o, order[p].status = "paid" \/ WillPay(me, p)
          PROVE  Paying(p)'
      BY <1>1, <2>2, <3>2 DEF Paying, WillPay
    <3>3. ASSUME ByThirdParty(o), o \notin updated, order[o].status = "paid" \/ WillPay(me, o)
          PROVE  Paying(o)'
      <4>1. row.status = "paid"
        BY <1>1, <2>3, <3>3 DEF WillPay, Fresh
      <4> QED BY <1>1, <2>2, <4>1 DEF Paying
    <3> QED BY <1>2, <2>2, <3>1, <3>2, <3>3, Payers DEF ByThirdParty
  <2> QED BY <2>7, <2>8, <2>9, <2>10, <2>11, <2>12 DEF IInv
<1> QED BY <1>3, <1>4

\* Action CreateTxn keeps the invariant.
LEMMA NextCreateTxn ==
    ASSUME IInv, NEW w \in Worker, CreateTxn(w)
    PROVE  IInv'
<1> DEFINE me == wk[w]
<1> PICK o : o = me.o
  OBVIOUS
<1>1. /\ me \in WkType /\ Knows(w, me) /\ me.pc = "method" /\ me.op = "create"
      /\ o \in Order /\ txn \in [Order -> [exists : BOOLEAN, status : TxnStatus]]
  BY Mover DEF CreateTxn, Knows, InOrder, IInv, TypeOK
<1>2. UNCHANGED <<method, order, paid, claimed, old, fulfilled, updated, fails>>
  BY DEF CreateTxn
<1> PICK new : new = At(me, "pay")
  OBVIOUS
<1>3. txn' = [txn EXCEPT ![o] = Fresh] /\ wk' = [wk EXCEPT ![w] = new]
  BY <1>1 DEF CreateTxn, Goto
<1>4. /\ new \in WkType /\ new.late = me.late /\ new.pc = "pay"
      /\ new.op = "create" /\ new.o = o /\ new.seen = me.seen
  BY <1>1, AtGo DEF Ended, Pc
<1>5. order[o] = Fresh /\ o \notin Word \cup old /\ txn[o] = Missing
  BY <1>1 DEF Knows, Creator, Creating, IInv, Rows
<1>6. txn'[o] = Fresh /\ \A p \in Order \ {o} : txn'[p] = txn[p]
  BY <1>1, <1>3
<1>7. Guarantee
  <2>1. Kept(o)
    BY <1>2, <1>5, <1>6 DEF Kept, Created, Missing, DoneRow
  <2>2. ASSUME NEW p \in Order \ {o} PROVE Kept(p)
    BY <1>2, <1>6 DEF Kept, Created, ByThirdParty
  <2> QED BY <1>2, <2>1, <2>2 DEF Guarantee
<1>8. \A u \in Worker \ {w} : Undisturbed(wk[u])
  <2> SUFFICES ASSUME NEW u \in Worker \ {w} PROVE Undisturbed(wk[u])
    OBVIOUS
  <2>1. /\ Spares(me, wk[u]) /\ Creator(wk[u]) /\ wk[u].o \in Order
    BY WorkerTypes DEF IInv, Alone, Knowledge, Knows
  <2>2. Creating(wk[u]) => wk[u].o # o
    BY <1>1, <2>1 DEF Spares, Creating, Ended
  <2> QED BY <1>2, <1>6, <2>1, <2>2 DEF Undisturbed, Creator
<1>9. Knowledge' /\ Alone'
  <2>1. Continues(me, new)
    BY <1>1, <1>4 DEF Continues, Creating, Ended
  <2>2. \A u \in Worker \ {w} : Spares(new, wk[u]) /\ Spares(wk[u], new)
    BY <2>1, StillSpares DEF IInv, Alone
  <2>3. Knows(w, new)'
    <3>1. InOrder(new)' /\ InPlace(w, new)'
      BY <1>1, <1>4 DEF Knows, InOrder, InPlace, Saves, SavesTxn, SavesOrder, Ended, Settles
    <3>2. Creator(new)'
      BY <1>2, <1>4, <1>5, <1>6 DEF Creator, Creating, Saves, SavesTxn, SavesOrder, Fresh
    <3>3. Callback(new)' /\ Settler(new)' /\ Settlement(new)' /\ Updater(new)'
      BY <1>4 DEF Callback, Settler, Settlement, Updater, Settles
    <3>4. Latecomer(w, new)'
      BY <1>1, <1>2, <1>4 DEF Knows, Latecomer, Ended
    <3> QED BY <3>1, <3>2, <3>3, <3>4 DEF Knows
  <2> QED BY <1>3, <1>7, <1>8, <2>2, <2>3, Moves
<1>10. TypeOK'
  BY <1>1, <1>2, <1>3, <1>4 DEF IInv, TypeOK, Fresh, TxnStatus
<1>11. Rows'
  BY <1>2, <1>5, <1>6 DEF IInv, Rows, Created, ByThirdParty, Backed, Fresh
<1>12. Recorded'
  <2>1. order[o].status = "null" /\ o \notin fulfilled
    BY <1>5 DEF Fresh, IInv, Recorded, NotThirdParty
  <2> QED BY <1>2, <1>6, <2>1 DEF IInv, TypeOK, Recorded, NotThirdParty, FulfilledIsRecorded,
             SettledOnWord, ByThirdParty
<1>13. NoLateFulfilment'
  BY <1>2, <1>3, <1>4 DEF IInv, TypeOK, NoLateFulfilment
<1>14. PaidInTheEnd'
  <2>1. ASSUME NEW p \in Order, txn'[p].status = "done" \/ SawDone(new, p)
        PROVE  SeenDone(p)
    BY <1>4, <1>6, <2>1 DEF SeenDone, SawDone, Fresh
  <2>2. ASSUME NEW p \in Order, order[p].status = "paid" \/ WillPay(me, p)
        PROVE  Paying(p)'
    BY <1>1, <1>2, <2>2 DEF Paying, WillPay
  <2> QED BY <1>2, <1>3, <2>1, <2>2, Payers DEF ByThirdParty
<1> QED BY <1>9, <1>10, <1>11, <1>12, <1>13, <1>14 DEF IInv

\* Action CreateOrder keeps the invariant.
LEMMA NextCreateOrder ==
    ASSUME IInv, NEW w \in Request, CreateOrder(w)
    PROVE  IInv'
<1> DEFINE me == wk[w]
<1>1. PICK o \in Order :
         /\ ~order[o].exists /\ ~txn[o].exists /\ o \notin Word \cup old
         /\ Begin(w, "create", o, "method", FALSE)
         /\ order' = [order EXCEPT ![o] = Fresh]
         /\ \E m \in Methods : method' = [method EXCEPT ![o] = m]
         /\ UNCHANGED <<txn, paid, claimed, old, fulfilled, updated, fails>>
  BY DEF CreateOrder, IInv, Rows
<1> PICK new : new = [me EXCEPT !.pc = "method", !.op = "create", !.o = o, !.good = FALSE]
  OBVIOUS
<1>2. /\ me \in WkType /\ Knows(w, me) /\ me.pc = "idle" /\ ~me.seen
      /\ w \in Worker /\ w \notin Cron
  BY <1>1, PaymentAssumption, Mover DEF Begin, Worker, Knows, InOrder, Ended
<1>3. wk' = [wk EXCEPT ![w] = new]
  BY <1>1 DEF Begin
<1>4. /\ new \in WkType /\ new.late = me.late /\ new.pc = "method"
      /\ new.op = "create" /\ new.o = o /\ new.seen = me.seen
  BY <1>2 DEF WkType, Pc, Op
<1>5. order[o] = Missing /\ txn[o] = Missing /\ ~Created(o) /\ o \notin fulfilled
  BY <1>1 DEF IInv, Rows, Created, Recorded, FulfilledIsRecorded
<1>6. /\ order'[o] = Fresh
      /\ \A p \in Order \ {o} : order'[p] = order[p] /\ method'[p] = method[p]
  BY <1>1 DEF IInv, TypeOK
<1>7. Guarantee
  <2>1. Kept(o)
    BY <1>1, <1>5, <1>6 DEF Kept, Missing, DoneRow
  <2>2. ASSUME NEW p \in Order \ {o} PROVE Kept(p)
    BY <1>1, <1>6 DEF Kept, Created, ByThirdParty
  <2> QED BY <1>1, <2>1, <2>2 DEF Guarantee
<1>8. ASSUME NEW u \in Worker \ {w}
      PROVE  /\ Undisturbed(wk[u])
             /\ Spares(new, wk[u]) /\ Spares(wk[u], new)
  <2>1. Knows(u, wk[u]) /\ wk[u].o \in Order
    BY WorkerTypes DEF IInv, Knowledge
  <2>2. Creating(wk[u]) => wk[u].o # o
    BY <1>1, <2>1 DEF Knows, Creator, Fresh
  <2>3. Undisturbed(wk[u])
    BY <1>1, <1>6, <2>1, <2>2 DEF Knows, Creator, Undisturbed
  <2>4. Spares(new, wk[u])
    BY <1>4, <2>2 DEF Spares
  <2>5. wk[u].op = "callback" /\ wk[u].pc \notin Ended => wk[u].o # o
    BY <1>1, <2>1 DEF Knows, Callback
  <2>6. wk[u].op = "update" /\ wk[u].pc \in SavesOrder => wk[u].o # o
    BY <1>5, <2>1 DEF Knows, Updater
  <2>7. Spares(wk[u], new)
    BY <1>4, <2>2, <2>5, <2>6 DEF Spares
  <2> QED BY <2>3, <2>4, <2>7
<1>9. Knowledge' /\ Alone'
  <2>1. Knows(w, new)'
    <3>1. InOrder(new)' /\ InPlace(w, new)'
      BY <1>2, <1>4 DEF InOrder, InPlace, Saves, SavesTxn, SavesOrder, Ended, Settles
    <3>2. Creator(new)'
      BY <1>1, <1>4, <1>5, <1>6 DEF Creator, Creating, Saves, SavesTxn, SavesOrder, Missing
    <3>3. Callback(new)' /\ Settler(new)' /\ Settlement(new)' /\ Updater(new)'
      BY <1>4 DEF Callback, Settler, Settlement, Updater, Settles
    <3>4. Latecomer(w, new)'
      BY <1>2, <1>4 DEF Latecomer
    <3> QED BY <3>1, <3>2, <3>3, <3>4 DEF Knows
  <2> QED BY <1>2, <1>3, <1>7, <1>8, <2>1, Moves
<1>10. TypeOK'
  BY <1>1, <1>2, <1>3, <1>4 DEF IInv, TypeOK, Fresh, OrderStatus
<1>11. Rows'
  BY <1>1, <1>5, <1>6 DEF IInv, Rows, Created, ByThirdParty, Backed, Fresh
<1>12. Recorded'
  <2>1. NotThirdParty' /\ FulfilledIsRecorded'
    BY <1>1, <1>5, <1>6
       DEF IInv, TypeOK, Recorded, NotThirdParty, FulfilledIsRecorded, ByThirdParty
  <2>2. SettledOnWord'
    BY <1>1, <1>5, <1>6 DEF IInv, Recorded, SettledOnWord, Fresh
  <2> QED BY <2>1, <2>2 DEF Recorded
<1>13. NoLateFulfilment'
  BY <1>1, <1>3, <1>4 DEF IInv, TypeOK, NoLateFulfilment
<1>14. PaidInTheEnd'
  <2>1. ~SeenDone(o)
    <3>1. ASSUME NEW u \in Worker, SawDone(wk[u], o)
          PROVE  FALSE
      BY <1>1, <3>1 DEF SawDone, SavesTxn, Ended, IInv, Knowledge, Knows, Callback
    <3> QED BY <1>5, <3>1 DEF SeenDone, Missing
  <2>2. ASSUME NEW p \in Order, txn'[p].status = "done" \/ SawDone(new, p)
        PROVE  SeenDone(p)
    BY <1>1, <1>4, <2>2 DEF SeenDone, SawDone
  <2>3. ASSUME NEW p \in Order, order[p].status = "paid" \/ WillPay(me, p)
        PROVE  Paying(p)'
    BY <1>2, <1>5, <1>6, <2>3 DEF Paying, WillPay, SavesOrder, Missing
  <2>4. ASSUME NEW p \in Order, ByThirdParty(p)'
        PROVE  ByThirdParty(p) \/ ~SeenDone(p)
    BY <1>6, <2>1, <2>4 DEF ByThirdParty
  <2> QED BY <1>1, <1>2, <1>3, <2>2, <2>3, <2>4, Payers
<1> QED BY <1>9, <1>10, <1>11, <1>12, <1>13, <1>14 DEF IInv

\* A round of the cron goes on after the handlers, a notification ends.
LEMMA AfterHandle ==
    ASSUME NEW me \in WkType, NEW pc \in {"next", "done"}, NEW new, new = At(me, pc)
    PROVE  /\ new \in WkType /\ new.pc = pc /\ new.late = me.late
           /\ pc = "done" => ~new.seen
           /\ pc = "next" => new.op = me.op /\ new.o = me.o /\ new.todo = me.todo
<1>1. CASE pc = "next"
  BY <1>1, AtGo DEF Ended, Pc
<1>2. CASE pc = "done"
  BY <1>2, AtEnd DEF Ended
<1> QED BY <1>1, <1>2

\* Action Handle keeps the invariant.
LEMMA NextHandle ==
    ASSUME IInv, NEW w \in Worker, Handle(w)
    PROVE  IInv'
<1> DEFINE me == wk[w]
<1> PICK o : o = me.o
  OBVIOUS
<1>1. /\ me \in WkType /\ Knows(w, me) /\ me.pc = "handle" /\ o \in Order
      /\ me.op \in Settles /\ (me.op = "cron" <=> w \in Cron)
  BY Mover DEF Handle, Knows, InOrder, InPlace, Ended
<1>2. UNCHANGED <<method, order, txn, paid, claimed, old, updated, fails>>
  BY DEF Handle
<1> PICK pc : pc = IF w \in Cron THEN "next" ELSE "done"
  OBVIOUS
<1>3. PICK me2 : me2 = [me EXCEPT !.late = me.late \/ me.seen]
  OBVIOUS
<1> PICK new : new = At(me2, pc)
  OBVIOUS
<1>3a. fulfilled' = fulfilled \cup {o} /\ wk' = [wk EXCEPT ![w] = new]
  BY <1>3 DEF Handle
<1>4. ASSUME NEW late \in BOOLEAN, me2 = [me EXCEPT !.late = late]
      PROVE  /\ me2 \in WkType /\ me2.late = late /\ me2.op = me.op /\ me2.o = o
             /\ me2.todo = me.todo
  BY <1>1, <1>4 DEF WkType
<1>5. /\ me2 \in WkType /\ (me2.late => me.late \/ me.seen)
      /\ me2.op = me.op /\ me2.o = o /\ me2.todo = me.todo
  BY <1>3, <1>4
<1>6. /\ new \in WkType /\ new.late = me2.late /\ new.pc = pc
      /\ \/ pc = "done" /\ ~new.seen
         \/ pc = "next" /\ new.op = "cron" /\ me.op = "cron" /\ new.o = o
            /\ new.todo = me.todo
  <2>1. /\ pc \in {"next", "done"} /\ (pc = "next" => w \in Cron)
    OBVIOUS
  <2>2. /\ new \in WkType /\ new.pc = pc /\ new.late = me2.late
        /\ pc = "done" => ~new.seen
        /\ pc = "next" => new.op = me2.op /\ new.o = me2.o /\ new.todo = me2.todo
    BY <1>5, <2>1, AfterHandle
  <2> QED BY <1>1, <1>5, <2>1, <2>2
<1>7. Guarantee
  BY <1>2 DEF Guarantee, Kept, Created, ByThirdParty
<1>8. \A u \in Worker \ {w} : Undisturbed(wk[u])
  BY <1>2 DEF IInv, Knowledge, Knows, Creator, Undisturbed
<1>9. Knowledge' /\ Alone'
  <2>1. Continues(me, new)
    BY <1>6 DEF Continues, Ended, Settles
  <2>2. \A u \in Worker \ {w} : Spares(new, wk[u]) /\ Spares(wk[u], new)
    BY <2>1, StillSpares DEF IInv, Alone
  <2>3. Knows(w, new)'
    <3>1. InOrder(new)' /\ InPlace(w, new)'
      BY <1>1, <1>6 DEF InOrder, InPlace, Saves, SavesTxn, SavesOrder, Ended, Settles
    <3>2. /\ Creator(new)' /\ Callback(new)' /\ Settlement(new)' /\ Updater(new)'
          /\ Latecomer(w, new)'
      BY <1>6 DEF Creator, Creating, Callback, Settlement, Updater, Latecomer, Saves,
         SavesTxn, SavesOrder, Ended
    <3>3. Settler(new)'
      BY <1>1, <1>2, <1>6 DEF Knows, Settler, Created, ByThirdParty, Saves, SavesTxn,
         SavesOrder, Ended
    <3> QED BY <3>1, <3>2, <3>3 DEF Knows
  <2> QED BY <1>3a, <1>7, <1>8, <2>2, <2>3, Moves
<1>10. TypeOK'
  BY <1>1, <1>2, <1>3a, <1>6 DEF IInv, TypeOK
<1>11. Rows'
  BY <1>2 DEF IInv, Rows, Created, ByThirdParty, Backed
<1>12. Recorded'
  <2>1. /\ txn[o] = DoneRow /\ order[o].exists /\ o \in Word /\ ~ByThirdParty(o)
        /\ o \notin updated => order[o].status = "done"
    BY <1>1 DEF Knows, Settlement, Settler, Ended, Settles
  <2> QED BY <1>2, <1>3a, <2>1 DEF IInv, Recorded, NotThirdParty, FulfilledIsRecorded,
             SettledOnWord, ByThirdParty, DoneRow
<1>13. NoLateFulfilment'
  <2>1. me2.late => w \in Cron /\ updated # {}
    BY <1>1, <1>5 DEF IInv, NoLateFulfilment, Knows, Latecomer, Ended
  <2> QED BY <1>2, <1>3a, <1>6, <2>1 DEF IInv, TypeOK, NoLateFulfilment
<1>14. PaidInTheEnd'
  <2>1. ASSUME NEW p \in Order, txn'[p].status = "done" \/ SawDone(new, p)
        PROVE  SeenDone(p)
    BY <1>2, <1>6, <2>1 DEF SeenDone, SawDone, SavesTxn
  <2>2. ASSUME NEW p \in Order, order[p].status = "paid" \/ WillPay(me, p)
        PROVE  Paying(p)'
    BY <1>1, <1>2, <2>2 DEF Paying, WillPay, SavesOrder
  <2> QED BY <1>2, <1>3a, <2>1, <2>2, Payers DEF ByThirdParty
<1> QED BY <1>9, <1>10, <1>11, <1>12, <1>13, <1>14 DEF IInv

-----------------------------------------------------------------------------
(* Steps of the world outside, and of the hourly cleaning. *)

\* What the workers know survives a step of nobody.
LEMMA WorldStep ==
    ASSUME IInv, Guarantee, UNCHANGED wk, \A u \in Worker : Undisturbed(wk[u])
    PROVE  Knowledge' /\ Alone'
<1>1. \A u \in Worker : Knows(u, wk[u])'
  BY OthersKnow
<1>2. Alone'
  BY DEF IInv, Alone, Spares, Creating
<1> QED BY <1>1, <1>2 DEF Knowledge

\* Action BuyerPays keeps the invariant.
LEMMA NextBuyerPays ==
    ASSUME IInv, NEW o \in Order, BuyerPays(o)
    PROVE  IInv'
<1>1. UNCHANGED <<method, order, txn, wk, claimed, old, fulfilled, updated, fails>>
  BY DEF BuyerPays
<1>2. txn[o].exists /\ paid' = paid \cup {o}
  BY DEF BuyerPays, HandedOver
<1>3. Guarantee
  BY <1>1, <1>2 DEF Guarantee, Kept, Created
<1>4. ASSUME NEW u \in Worker PROVE Undisturbed(wk[u])
  <2> SUFFICES ASSUME Creating(wk[u]) PROVE Undisturbed(wk[u])
    BY DEF Undisturbed
  <2>1. wk[u].o # o
    BY HandedOverLast DEF BuyerPays
  <2> QED BY <1>1, <1>2, <2>1, CreatorsWork DEF Undisturbed
<1>5. Knowledge' /\ Alone'
  BY <1>1, <1>3, <1>4, WorldStep
<1>6. TypeOK' /\ NoLateFulfilment'
  BY <1>1, <1>2 DEF IInv, TypeOK, NoLateFulfilment
<1>7. Rows'
  BY <1>1, <1>2 DEF IInv, Rows, Created, ByThirdParty, Backed
<1>8. Recorded'
  BY <1>1, <1>2 DEF IInv, Recorded, NotThirdParty, FulfilledIsRecorded, SettledOnWord,
     ByThirdParty
<1>9. PaidInTheEnd'
  BY <1>1 DEF IInv, PaidInTheEnd, ByThirdParty, SeenDone, SawDone, Paying, WillPay
<1> QED BY <1>5, <1>6, <1>7, <1>8, <1>9 DEF IInv

\* Action Age keeps the invariant.
LEMMA NextAge ==
    ASSUME IInv, NEW o \in Order, Age(o)
    PROVE  IInv'
<1>1. UNCHANGED <<method, order, txn, wk, paid, claimed, fulfilled, updated, fails>>
  BY DEF Age
<1>2. /\ txn[o].exists /\ old' = old \cup {o}
      /\ \A w \in Working(o) : wk[w].op # "create"
  BY DEF Age
<1>3. Guarantee
  BY <1>1, <1>2 DEF Guarantee, Kept, Created
<1>4. ASSUME NEW u \in Worker PROVE Undisturbed(wk[u])
  <2> SUFFICES ASSUME Creating(wk[u]) PROVE Undisturbed(wk[u])
    BY DEF Undisturbed
  <2>1. wk[u].o # o
    BY <1>2, CreatorsWork
  <2> QED BY <1>1, <1>2, <2>1, CreatorsWork DEF Undisturbed
<1>5. Knowledge' /\ Alone'
  BY <1>1, <1>3, <1>4, WorldStep
<1>6. TypeOK' /\ NoLateFulfilment'
  BY <1>1, <1>2 DEF IInv, TypeOK, NoLateFulfilment
<1>7. Rows'
  BY <1>1, <1>2 DEF IInv, Rows, Created, ByThirdParty, Backed
<1>8. Recorded'
  BY <1>1 DEF IInv, Recorded, NotThirdParty, FulfilledIsRecorded, SettledOnWord,
     ByThirdParty
<1>9. PaidInTheEnd'
  BY <1>1 DEF IInv, PaidInTheEnd, ByThirdParty, SeenDone, SawDone, Paying, WillPay
<1> QED BY <1>5, <1>6, <1>7, <1>8, <1>9 DEF IInv

\* Action CleanExpired keeps the invariant.
LEMMA NextCleanExpired ==
    ASSUME IInv, CleanExpired
    PROVE  IInv'
<1>1. PICK gone : /\ gone = {o \in old : txn[o].exists /\ txn[o].status = "null"}
                  /\ txn' = [o \in Order |-> IF o \in gone THEN Missing ELSE txn[o]]
                  /\ order' = [o \in Order |-> IF o \in gone THEN Missing ELSE order[o]]
  BY DEF CleanExpired
<1>2. UNCHANGED <<method, wk, paid, claimed, old, fulfilled, updated, fails>>
  BY DEF CleanExpired
<1>3. \A o \in Order :
         /\ o \in gone => /\ o \in old /\ txn[o].exists /\ txn[o].status = "null"
                          /\ txn'[o] = Missing /\ order'[o] = Missing
         /\ o \notin gone => txn'[o] = txn[o] /\ order'[o] = order[o]
  BY <1>1
<1>4. Guarantee
  <2> SUFFICES ASSUME NEW p \in Order PROVE Kept(p)
    BY <1>2 DEF Guarantee
  <2>1. CASE p \in gone
    BY <1>2, <1>3, <2>1 DEF Kept, Created, ByThirdParty, DoneRow
  <2>2. CASE p \notin gone
    BY <1>2, <1>3, <2>2 DEF Kept, Created, ByThirdParty
  <2> QED BY <2>1, <2>2
<1>5. ASSUME NEW u \in Worker PROVE Undisturbed(wk[u])
  BY <1>2, <1>3, CreatorsWork, WorkerTypes DEF Undisturbed, IInv
<1>6. Knowledge' /\ Alone'
  BY <1>2, <1>4, <1>5, WorldStep
<1>7. TypeOK' /\ NoLateFulfilment'
  <2>1. order' \in [Order -> [exists : BOOLEAN, status : OrderStatus]]
    BY <1>1 DEF IInv, TypeOK, Missing, OrderStatus
  <2>2. txn' \in [Order -> [exists : BOOLEAN, status : TxnStatus]]
    BY <1>1 DEF IInv, TypeOK, Missing, TxnStatus
  <2> QED BY <1>2, <2>1, <2>2 DEF IInv, TypeOK, NoLateFulfilment
<1>8. Rows'
  BY <1>2, <1>3 DEF IInv, Rows, Created, ByThirdParty, Backed, Missing
<1>9. Recorded'
  <2>1. NotThirdParty' /\ FulfilledIsRecorded'
    BY <1>2, <1>3 DEF IInv, TypeOK, Recorded, NotThirdParty, FulfilledIsRecorded, ByThirdParty
  <2>2. SettledOnWord'
    BY <1>2, <1>3 DEF IInv, TypeOK, Recorded, SettledOnWord, Missing
  <2> QED BY <2>1, <2>2 DEF Recorded
<1>10. PaidInTheEnd'
  <2> SUFFICES ASSUME NEW p \in Order, ByThirdParty(p), p \notin updated, fails = 0,
                      SeenDone(p)'
               PROVE  Paying(p)'
    BY <1>2 DEF PaidInTheEnd, ByThirdParty
  <2>1. SeenDone(p)
    BY <1>2, <1>3 DEF SeenDone, SawDone, Missing
  <2>2. Paying(p)
    BY <2>1 DEF IInv, PaidInTheEnd
  <2>3. order[p].status = "paid" => p \notin gone
    BY <1>3 DEF IInv, Rows, Backed
  <2> QED BY <1>2, <1>3, <2>2, <2>3 DEF Paying, WillPay
<1> QED BY <1>6, <1>7, <1>8, <1>9, <1>10 DEF IInv

-----------------------------------------------------------------------------
(* The theorems. *)

\* Nothing is ordered, paid or fulfilled at the start.
LEMMA InitIInv == Init => IInv
<1> SUFFICES ASSUME Init PROVE IInv
  OBVIOUS
<1>1. Blank \in WkType /\ Blank.pc = "idle" /\ ~Blank.seen /\ ~Blank.late
  <2>1. (CHOOSE o \in Order : TRUE) \in Order
    BY PaymentAssumption
  <2>2. ASSUME NEW o \in Order
        PROVE  [pc |-> "idle", op |-> "none", o |-> o, st |-> "null", ts |-> "null",
                mode |-> "keep", after |-> "done", todo |-> {}, good |-> FALSE,
                seen |-> FALSE, late |-> FALSE] \in WkType
    BY DEF WkType, Pc, Op, OrderStatus, TxnStatus, Mode
  <2> QED BY <2>1, <2>2 DEF Blank
<1>2. \A w \in Worker : wk[w] = Blank
  BY DEF Init
<1>3. TypeOK
  <2>1. (CHOOSE m \in Methods : TRUE) \in Methods
    BY PaymentAssumption
  <2> QED BY <1>1, <2>1, PaymentAssumption
          DEF Init, TypeOK, Missing, OrderStatus, TxnStatus
<1>4. Rows
  BY DEF Init, Rows, Created, Missing
<1>5. Knowledge
  <2> SUFFICES ASSUME NEW w \in Worker PROVE Knows(w, wk[w])
    BY DEF Knowledge
  <2>1. wk[w].pc = "idle" /\ ~wk[w].seen
    BY <1>1, <1>2
  <2> QED BY <2>1 DEF Knows, InOrder, InPlace, Creator, Creating, Callback, Settler,
      Settlement, Updater, Latecomer, Ended, Saves, SavesTxn, SavesOrder
<1>6. Alone
  BY <1>1, <1>2 DEF Alone, Spares, Ended
<1>7. Recorded /\ NoLateFulfilment
  BY <1>1, <1>2 DEF Init, Recorded, NotThirdParty, FulfilledIsRecorded, SettledOnWord,
     NoLateFulfilment, Missing
<1>8. PaidInTheEnd
  BY <1>1, <1>2 DEF Init, PaidInTheEnd, SeenDone, SawDone, SavesTxn, Missing
<1> QED BY <1>3, <1>4, <1>5, <1>6, <1>7, <1>8 DEF IInv

\* Every step keeps the invariant: one lemma per action, put together.
LEMMA NextIInv == IInv /\ [Next]_vars => IInv'
<1> SUFFICES ASSUME IInv, [Next]_vars PROVE IInv'
  OBVIOUS
<1>1. CASE UNCHANGED vars
  <2>1. Guarantee /\ UNCHANGED wk
    BY <1>1 DEF vars, Guarantee, Kept, Created
  <2>2. \A u \in Worker : Undisturbed(wk[u])
    BY <1>1, CreatorsWork DEF vars, Undisturbed
  <2>3. Knowledge' /\ Alone'
    BY <2>1, <2>2, WorldStep
  <2>4. TypeOK' /\ Rows' /\ NoLateFulfilment' /\ Recorded'
    BY <1>1 DEF vars, IInv, TypeOK, Rows, Created, ByThirdParty, Backed, NoLateFulfilment,
       Recorded, NotThirdParty, FulfilledIsRecorded, SettledOnWord
  <2>5. PaidInTheEnd'
    BY <1>1 DEF vars, IInv, PaidInTheEnd, ByThirdParty, SeenDone, SawDone, Paying, WillPay
  <2> QED BY <2>3, <2>4, <2>5 DEF IInv
<1>2. CASE \E r \in Request : CreateOrder(r) \/ BeginUpdate(r) \/ BeginCallback(r)
                                \/ BeginNotify(r)
  BY <1>2, NextCreateOrder, NextBeginUpdate, NextBeginCallback, NextBeginNotify
<1>3. CASE \E c \in Cron : CronBegin(c)
  BY <1>3, NextCronBegin
<1>4. CASE \E w \in Worker : Step(w) \/ Fail(w)
  <2> PICK w \in Worker : Step(w) \/ Fail(w)
    BY <1>4
  <2>1. CASE SaveTxn(w) \/ WriteTxn(w) \/ SaveOrder(w) \/ WriteOrder(w) \/ Handle(w)
    BY <2>1, NextSaveTxn, NextWriteTxn, NextSaveOrder, NextWriteOrder, NextHandle
  <2>2. CASE CreateTxn(w) \/ StartPay(w) \/ UpdateOrder(w)
    BY <2>2, NextCreateTxn, NextStartPay, NextUpdateOrder
  <2>3. CASE LoadCallback(w) \/ VerifySign(w) \/ LoadNotify(w)
    BY <2>3, NextLoadCallback, NextVerifySign, NextLoadNotify
  <2>4. CASE CronReload(w) \/ CronQuery(w) \/ CronEnd(w)
    BY <2>4, NextCronReload, NextCronQuery, NextCronEnd
  <2>5. CASE Fail(w)
    BY <2>5, NextFail
  <2> QED BY <2>1, <2>2, <2>3, <2>4, <2>5 DEF Step
<1>5. CASE CleanExpired
  BY <1>5, NextCleanExpired
<1>6. CASE \E o \in Order : BuyerPays(o) \/ Age(o)
  BY <1>6, NextBuyerPays, NextAge
<1> QED BY <1>1, <1>2, <1>3, <1>4, <1>5, <1>6 DEF Next

\* The invariant holds throughout every behaviour.
LEMMA Invariance == Spec => []IInv
BY InitIInv, NextIInv, PTL DEF Spec

\* The rows and the calls are always well formed; only so many calls fail.
THEOREM TypeCorrect == Spec => []TypeOK
<1>1. IInv => TypeOK
  BY DEF IInv
<1> QED BY <1>1, Invariance, PTL

\* No order is fulfilled or shown as paid that nobody gave his word for, and its
\* transaction is there then, with a status.
THEOREM SettledAsTold == Spec => []SettledOnWord
<1>1. IInv => SettledOnWord
  BY DEF IInv, Recorded
<1> QED BY <1>1, Invariance, PTL

\* The rows of a fulfilled order stay recorded as done, whatever is cleaned up,
\* repeated, saved late or broken off.
THEOREM FulfilmentIsRecorded == Spec => []FulfilledIsRecorded
<1>1. IInv => FulfilledIsRecorded
  BY DEF IInv, Recorded
<1> QED BY <1>1, Invariance, PTL

\* No call that reads an order after it was fulfilled fulfils it again, but for
\* a round of the cron where PUT order was used.
THEOREM FulfilledInTime == Spec => []NoLateFulfilment
<1>1. IInv => NoLateFulfilment
  BY DEF IInv
<1> QED BY <1>1, Invariance, PTL

\* When the calls about a third-party order ended, a transaction that is done
\* has an order that is paid.
THEOREM CallbacksAgree == Spec => []DoneMeansPaid
<1>1. IInv => DoneMeansPaid
  <2> SUFFICES ASSUME IInv, NEW o \in Order, ByThirdParty(o), o \notin updated,
                      Working(o) = {}, fails = 0, txn[o].status = "done"
               PROVE  order[o].status = "paid"
    BY DEF DoneMeansPaid, ByThirdParty
  <2>1. Paying(o)
    BY DEF IInv, PaidInTheEnd, SeenDone
  <2>2. ASSUME NEW w \in Worker, WillPay(wk[w], o)
        PROVE  w \in Working(o)
    BY <2>2 DEF WillPay, Working, Active, SavesOrder
  <2> QED BY <2>1, <2>2 DEF Paying
<1> QED BY <1>1, Invariance, PTL

\* A third-party order that is paid stays paid.
THEOREM PaymentIsFinal == Spec => PaidIsFinal
<1>1. ASSUME IInv, [Next]_vars, NEW o \in Order,
             ByThirdParty(o), order[o].status = "paid", o \notin updated
      PROVE  order'[o].status = "paid"
  <2>1. order[o].exists /\ txn[o].status # "null"
    BY <1>1 DEF IInv, Rows, Missing, Backed
  <2>2. CASE \E w \in Worker : WriteOrder(w)
    <3> PICK w \in Worker : WriteOrder(w)
      BY <2>2
    <3>1. CASE wk[w].o # o
      BY <1>1, <3>1 DEF WriteOrder, IInv, TypeOK
    <3>2. CASE wk[w].o = o /\ UNCHANGED order
      BY <1>1, <3>2
    <3>3. CASE wk[w].o = o /\ order' # order
      <4> PICK row : row = Saved(order[o], wk[w].mode, wk[w].st)
        OBVIOUS
      <4>1. ~(wk[w].mode = "insert" /\ (order[o].exists \/ ~txn[o].exists))
        BY <3>3 DEF WriteOrder
      <4>2. order'[o] = row
        BY <1>1, <3>3, <4>1 DEF WriteOrder, IInv, TypeOK
      <4>3. row.status = "paid" \/ row = order[o]
        BY <1>1, <2>1, <3>3, <4>1, WriteOrderRow DEF WriteOrder, Fresh
      <4> QED BY <1>1, <4>2, <4>3
    <3> QED BY <3>1, <3>2, <3>3
  <2>3. CASE CleanExpired
    BY <1>1, <2>1, <2>3 DEF CleanExpired
  <2>4. CASE \E r \in Request : CreateOrder(r)
    BY <1>1, <2>1, <2>4 DEF CreateOrder, IInv, TypeOK
  <2>5. CASE UNCHANGED order
    BY <1>1, <2>5
  <2> QED BY ZenonT(60), <1>1, <2>2, <2>3, <2>4, <2>5
          DEF Next, Step, vars, SaveTxn, WriteTxn, SaveOrder, Handle, CreateTxn, StartPay,
              UpdateOrder, LoadCallback, VerifySign, LoadNotify, CronReload, CronQuery,
              CronEnd, BeginUpdate, BeginCallback, BeginNotify, CronBegin, Fail,
              BuyerPays, Age
<1>2. IInv /\ [Next]_vars =>
         [\A o \in Order : /\ method[o] \in ThirdParty /\ order[o].status = "paid"
                           /\ o \notin updated
                           => order'[o].status = "paid"]_vars
  BY <1>1 DEF ByThirdParty
<1> QED BY <1>2, Invariance, PTL DEF Spec, PaidIsFinal
=============================================================================
