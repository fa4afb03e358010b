---------------------------- MODULE WalletProps ----------------------------
(***************************************************************************)
(* What the wallet promises, stated over module Wallet.                    *)
(***************************************************************************)
EXTENDS Wallet

Pc == {"idle", "diff", "commit", "create", "entry", "points", "vipRead",
       "write", "sum", "recharge", "done"}

CallType == [pc : Pc, op : Op \cup {"none"}, found : BOOLEAN, ent : WalletRow,
             seen : [Column -> Nat],
             change : Int, after : Int, dirty : SUBSET Column, video : Video]

EntryType == [by : Call, op : Op, video : Video, change : Int, after : Int,
              counted : BOOLEAN]

\* Types of the wallet, of the rows of the ledgers and of the calls.
TypeOK ==
    /\ wallet \in WalletRow /\ start \in WalletRow
    /\ ledger \subseteq EntryType
    /\ call \in [Call -> CallType]
    /\ version \in [Column -> Nat] /\ stale \in BOOLEAN /\ fails \in 0..MaxFail

BalanceRows == {e \in ledger : e.op \in {"topUp", "exchange"}}
PointRows   == {e \in ledger : e.op \in {"savePoints", "vip"}}

\* Balance and points are always figures the user can find in a ledger: the
\* one the wallet started with or the "after" of some row, however calls
\* overwrite each other's columns and wherever they break off.
ColumnsAccounted ==
    /\ wallet.balance \in {start.balance} \cup {e.after : e \in BalanceRows}
    /\ wallet.points  \in {start.points}  \cup {e.after : e \in PointRows}

\* Overlapping exchanges, each of which saw enough, never overdraw a wallet
\* nobody tops up with negative amounts.
NeverOverdrawn == Amount \subseteq Nat => wallet.balance >= 0 /\ wallet.points >= 0

Sum(S) == MapThenSumSet(LAMBDA e : e.change, S)

\* As long as no call writes after another one wrote what it had read, overlapping
\* calls account exactly: the balance is the sum of its ledger; so are the
\* points once no call is between a row of the ledger and the wallet; and the
\* total recharge, once migrated, if nothing was topped up before that and no
\* top-up is negative: one might bring the total down to -1, the mark of a
\* wallet that is to be migrated.
LedgersAddUp ==
    ~stale =>
        /\ wallet.balance = start.balance + Sum(BalanceRows)
        /\ fails = 0 /\ (\A c \in Call : call[c].pc \notin {"points", "diff", "write"})
             => wallet.points = start.points + Sum(PointRows)
        /\ Amount \subseteq Nat /\ wallet.recharge # -1
               /\ (\A e \in ledger : e.op = "topUp" => e.counted)
             => wallet.recharge = (IF start.recharge = -1 THEN 0 ELSE start.recharge)
                                  + Recharged(ledger)
=============================================================================
