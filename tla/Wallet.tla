------------------------------- MODULE Wallet -------------------------------
(***************************************************************************)
(* The wallet of one user (src/src/modules/property): its balance, points  *)
(* and total recharge, and the two ledgers that account for them.          *)
(*                                                                         *)
(* A call of any server instance reads the wallet, computes new columns in *)
(* memory and writes them back; no row is locked and no version is kept.   *)
(* topUp and exchange write in a database transaction, what they write     *)
(* becomes visible at its commit, but they read outside of it.  The points *)
(* are changed without one.  wallet.save() writes every column that, at    *)
(* its SELECT, differs from the entity (Diff), stale ones included.        *)
(***************************************************************************)
EXTENDS Integers, FiniteSets, FiniteSetsExt

CONSTANTS
    Call,       \* the calls, each runs once
    Amount,     \* the amounts topped up and the points granted
    Price,      \* the price of the exchange object
    Cost,       \* the points a vip video costs
    Video,      \* the vip videos
    Op,         \* the operations of this deployment
    InitWallet, \* the wallets the user may have when the deployment starts
    MaxFail     \* bound of the calls that break off in the middle

Column == {"balance", "points", "recharge"}

WalletRow == [exists : BOOLEAN, balance : Int, points : Int, recharge : Int]

NoWallet == [exists |-> FALSE, balance |-> 0, points |-> 0, recharge |-> 0]
NewWallet == [exists |-> TRUE, balance |-> 0, points |-> 0, recharge |-> 0]

ASSUME WalletAssumption ==
    /\ Amount \subseteq Int /\ Price \in Nat \ {0} /\ Cost \in Nat \ {0}
    /\ Op \subseteq {"topUp", "exchange", "savePoints", "vip", "migrate"}
    /\ InitWallet \subseteq WalletRow
    /\ \A w \in InitWallet : /\ w.balance \in Nat /\ w.points \in Nat
                             /\ w.recharge \in Nat \cup {-1}
                             /\ ~w.exists => w = NoWallet
    /\ Video # {}
    /\ MaxFail \in Nat

VARIABLES
    wallet,     \* the row of the wallet
    start,      \* what it was when the deployment started
    ledger,     \* the rows of FinancialTransaction and PointExchange
    call,       \* the calls: program counter, entity and local variables
    version,    \* how often each column was written
    stale,      \* whether a call wrote a column it had not read last
    fails       \* the calls that broke off

vars == <<wallet, start, ledger, call, version, stale, fails>>

Active(c) == call[c].pc \notin {"idle", "done"}

Goto(c, pc) == call' = [call EXCEPT ![c].pc = pc]

\* The call throws: a transaction is rolled back, nothing else is undone.
Reject(c) == Goto(c, "done")

\* The row of a ledger that call c inserts.
Entry(c) == [by |-> c, op |-> call[c].op, video |-> call[c].video,
             change |-> call[c].change, after |-> call[c].after,
             counted |-> call[c].ent.recharge # -1]

\* Call c writes the columns cs; it had read the columns read at version seen.
Written(c, cs, read) ==
    /\ version' = [k \in Column |-> version[k] + (IF k \in cs THEN 1 ELSE 0)]
    /\ stale' = (stale \/ \E k \in read : version[k] # call[c].seen[k])

\* Call c reads the wallet and goes on at pc to change column col by change.
Read(c, op, pc, col, change) ==
    call' = [call EXCEPT ![c] =
        [@ EXCEPT !.op = op, !.pc = pc, !.change = change,
                  !.found = wallet.exists, !.seen = version,
                  !.ent = IF wallet.exists THEN wallet ELSE NewWallet,
                  !.after = wallet[col] + change]]

-----------------------------------------------------------------------------
(* PropertyHelper.topUp and exchange *)

\* The wallet of a user who has none is created in the transaction.
TopUp(c) ==
    /\ call[c].pc = "idle" /\ "topUp" \in Op
    /\ \E a \in Amount :
          Read(c, "topUp", IF wallet.exists THEN "diff" ELSE "commit", "balance", a)
    /\ UNCHANGED <<wallet, start, ledger, version, stale, fails>>

\* Faulty: the balance is not looked at.
ExchangeUnchecked(c) ==
    /\ call[c].pc = "idle" /\ "exchange" \in Op
    /\ IF wallet.exists THEN Read(c, "exchange", "diff", "balance", -Price)
                        ELSE Reject(c)
    /\ UNCHANGED <<wallet, start, ledger, version, stale, fails>>

Exchange(c) ==
    /\ call[c].pc = "idle" /\ "exchange" \in Op
    /\ IF wallet.exists /\ wallet.balance >= Price
       THEN Read(c, "exchange", "diff", "balance", -Price)
       ELSE Reject(c)                              \* Insufficient balance
    /\ UNCHANGED <<wallet, start, ledger, version, stale, fails>>

\* Faulty: the points are taken from the balance.
ChangedMixedUp(me) ==
    IF me.op \in {"topUp", "exchange"} THEN [me.ent EXCEPT !.balance = me.after]
    ELSE [me.ent EXCEPT !.balance = me.after, !.points = me.after]

\* The entity that is saved: its changed column is set in memory.
Changed(me) ==
    IF me.op \in {"topUp", "exchange"} THEN [me.ent EXCEPT !.balance = me.after]
    ELSE [me.ent EXCEPT !.points = me.after]

\* Faulty: writes the whole entity, whatever changed.
DiffWhole(c) ==
    /\ call[c].pc = "diff"
    /\ call' = [call EXCEPT
          ![c].pc = IF call[c].op = "vip" THEN "write" ELSE "commit",
          ![c].dirty = DOMAIN wallet]
    /\ UNCHANGED <<wallet, start, ledger, version, stale, fails>>

\* wallet.save(), first round trip.
Diff(c) ==
    /\ call[c].pc = "diff"
    /\ call' = [call EXCEPT
          ![c].pc = IF call[c].op = "vip" THEN "write" ELSE "commit",
          ![c].dirty = {k \in Column : Changed(call[c])[k] # wallet[k]}]
    /\ UNCHANGED <<wallet, start, ledger, version, stale, fails>>

\* The columns of cs of entity e written over row w.
Overwritten(w, e, cs) ==
    [w EXCEPT !.balance  = IF "balance" \in cs THEN e.balance ELSE @,
              !.points   = IF "points" \in cs THEN e.points ELSE @,
              !.recharge = IF "recharge" \in cs THEN e.recharge ELSE @]

\* The UPDATE of the columns found dirty, for topUp the one of totalRecharge,
\* and the row of the ledger become visible together.
Commit(c) ==
    LET me  == call[c]
        base == IF me.found THEN Overwritten(wallet, Changed(me), me.dirty)
                ELSE Changed(me)
    IN  /\ me.pc = "commit"
        /\ IF ~me.found /\ wallet.exists
           THEN UNCHANGED <<wallet, ledger, version, stale>> \* profile__id is unique
           ELSE /\ wallet' = IF me.op = "topUp"
                             THEN [base EXCEPT !.recharge = me.ent.recharge + me.change]
                             ELSE base
                /\ ledger' = ledger \cup {Entry(c)}
                /\ Written(c, me.dirty \cup IF me.op = "topUp" THEN {"recharge"} ELSE {},
                           Column)
        /\ Goto(c, "done")
        /\ UNCHANGED <<start, fails>>

-----------------------------------------------------------------------------
(* PointsService.savePoints and exchangeVipVideo *)

SavePoints(c) ==
    /\ call[c].pc = "idle" /\ "savePoints" \in Op
    /\ \E a \in Amount :
          Read(c, "savePoints", IF wallet.exists THEN "entry" ELSE "create", "points", a)
    /\ UNCHANGED <<wallet, start, ledger, version, stale, fails>>

\* Wallet.save(new Wallet(...)): an INSERT of its own.
CreateWallet(c) ==
    /\ call[c].pc = "create"
    /\ IF wallet.exists
       THEN Reject(c) /\ UNCHANGED wallet
       ELSE /\ wallet' = NewWallet
            /\ Goto(c, "entry")
    /\ UNCHANGED <<start, ledger, version, stale, fails>>

\* The exchange of a video that was exchanged before returns its row.
VipVideo(c) ==
    /\ call[c].pc = "idle" /\ "vip" \in Op
    /\ \E v \in Video :
          IF \E e \in ledger : e.op = "vip" /\ e.video = v
          THEN Reject(c)
          ELSE call' = [call EXCEPT ![c].pc = "vipRead", ![c].video = v]
    /\ UNCHANGED <<wallet, start, ledger, version, stale, fails>>

VipRead(c) ==
    /\ call[c].pc = "vipRead"
    /\ IF wallet.exists /\ wallet.points >= Cost
       THEN Read(c, "vip", "entry", "points", -Cost)
       ELSE Reject(c)                              \* not enough points
    /\ UNCHANGED <<wallet, start, ledger, version, stale, fails>>

\* Faulty: a call may go on to the wallet without its row of the ledger.
SaveEntryOptional(c) ==
    /\ call[c].pc = "entry"
    /\ ledger' \in {ledger, ledger \cup {Entry(c)}}
    /\ Goto(c, IF call[c].op = "vip" THEN "diff" ELSE "points")
    /\ UNCHANGED <<wallet, start, version, stale, fails>>

\* PointExchange.save
SaveEntry(c) ==
    /\ call[c].pc = "entry"
    /\ ledger' = ledger \cup {Entry(c)}
    /\ Goto(c, IF call[c].op = "vip" THEN "diff" ELSE "points")
    /\ UNCHANGED <<wallet, start, version, stale, fails>>

\* Wallet.update(id, { points }): this column only.
UpdatePoints(c) ==
    /\ call[c].pc = "points"
    /\ wallet' = [wallet EXCEPT !.points = call[c].after]
    /\ Written(c, {"points"}, {"points"})
    /\ Goto(c, "done")
    /\ UNCHANGED <<start, ledger, fails>>

\* wallet.save() of exchangeVipVideo, second round trip.
WriteVip(c) ==
    /\ call[c].pc = "write"
    /\ wallet' = Overwritten(wallet, Changed(call[c]), call[c].dirty)
    /\ Written(c, call[c].dirty, Column)
    /\ Goto(c, "done")
    /\ UNCHANGED <<start, ledger, fails>>

-----------------------------------------------------------------------------
(* PropertyModule.onModuleInit: wallets older than the column totalRecharge *)

Recharged(entries) ==
    MapThenSumSet(LAMBDA e : e.change, {e \in entries : e.op = "topUp"})

MigrateFind(c) ==
    /\ call[c].pc = "idle" /\ "migrate" \in Op
    /\ wallet.exists /\ wallet.recharge = -1
    /\ call' = [call EXCEPT ![c].op = "migrate", ![c].pc = "sum", ![c].seen = version]
    /\ UNCHANGED <<wallet, start, ledger, version, stale, fails>>

MigrateSum(c) ==
    /\ call[c].pc = "sum"
    /\ call' = [call EXCEPT ![c].pc = "recharge", ![c].after = Recharged(ledger)]
    /\ UNCHANGED <<wallet, start, ledger, version, stale, fails>>

MigrateUpdate(c) ==
    /\ call[c].pc = "recharge"
    /\ wallet' = [wallet EXCEPT !.recharge = call[c].after]
    /\ Written(c, {"recharge"}, {"recharge"})
    /\ Goto(c, "done")
    /\ UNCHANGED <<start, ledger, fails>>

-----------------------------------------------------------------------------
\* The database fails or the instance stops.
Fail(c) ==
    /\ Active(c) /\ fails < MaxFail
    /\ fails' = fails + 1
    /\ Reject(c)
    /\ UNCHANGED <<wallet, start, ledger, version, stale>>

Quiet ==
    /\ \A c \in Call : ~Active(c)
    /\ UNCHANGED vars

Idle == [pc |-> "idle", op |-> "none", found |-> FALSE, ent |-> NoWallet,
         seen |-> [k \in Column |-> 0],
         change |-> 0, after |-> 0, dirty |-> {}, video |-> CHOOSE v \in Video : TRUE]

Init ==
    /\ wallet \in InitWallet
    /\ start = wallet
    /\ ledger = {}
    /\ call = [c \in Call |-> Idle]
    /\ version = [k \in Column |-> 0] /\ stale = FALSE /\ fails = 0

Next ==
    \/ \E c \in Call :
          \/ TopUp(c) \/ Exchange(c) \/ SavePoints(c) \/ VipVideo(c) \/ MigrateFind(c)
          \/ Diff(c) \/ Commit(c) \/ CreateWallet(c) \/ VipRead(c) \/ SaveEntry(c)
          \/ UpdatePoints(c) \/ WriteVip(c) \/ MigrateSum(c) \/ MigrateUpdate(c)
          \/ Fail(c)
    \/ Quiet

Spec == Init /\ [][Next]_vars
=============================================================================
