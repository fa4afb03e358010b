---------------------------- MODULE WalletProofs ----------------------------
(***************************************************************************)
(* Proofs for module Wallet, for every value of its constants.             *)
(***************************************************************************)
EXTENDS WalletProps, TLAPS, FiniteSetTheorems, WellFoundedInduction

-----------------------------------------------------------------------------
(* Sums over the rows of a ledger.  MapThenSumSet is a recursive function    *)
(* over the subsets of a set; that it is one, and that the order in which it *)
(* takes the rows does not matter, is proved by induction on finite sets, in *)
(* the form of a minimal counterexample.                                     *)

\* Of finite sets, one has no other one inside.
LEMMA MinimalSet ==
    ASSUME NEW S, NEW T, T \subseteq FiniteSubsetsOf(S), T # {}
    PROVE  \E x \in T : \A y \in T : ~(y \subseteq x /\ y # x)
<1>1. IsWellFoundedOn(StrictSubsetOrdering(S), FiniteSubsetsOf(S))
  BY FS_StrictSubsetOrderingWellFounded
<1>2. PICK x \in T : \A y \in T : ~(<<y, x>> \in StrictSubsetOrdering(S))
  BY <1>1, WFMin
<1>3. ASSUME NEW y \in T, y \subseteq x, y # x PROVE FALSE
  BY <1>2, <1>3 DEF StrictSubsetOrdering, FiniteSubsetsOf
<1> QED BY <1>3

\* The same of the subsets of a finite set.
LEMMA MinimalSubset ==
    ASSUME NEW S, IsFiniteSet(S), NEW T, T \subseteq SUBSET S, T # {}
    PROVE  \E x \in T : IsFiniteSet(x) /\ \A y \in T : ~(y \subseteq x /\ y # x)
<1>1. \A x \in SUBSET S : IsFiniteSet(x)
  BY FS_Subset
<1>2. T \subseteq FiniteSubsetsOf(S)
  BY <1>1 DEF FiniteSubsetsOf
<1> QED BY <1>1, <1>2, MinimalSet

Pick(s) == CHOOSE e \in s : TRUE

\* A set that is not empty has an element to pick.
LEMMA PickOne == \A s : s # {} => Pick(s) \in s
BY DEF Pick

\* g sums up the changes of the rows of every subset of S.
IsSum(g, S) ==
    g = [s \in SUBSET S |-> IF s = {} THEN 0 ELSE Pick(s).change + g[s \ {Pick(s)}]]

\* The sum of the library in these terms.
LEMMA SumDef ==
    ASSUME NEW S
    PROVE  Sum(S) = (CHOOSE g : IsSum(g, S))[S]
BY DEF Sum, MapThenSumSet, MapThenFoldSet, IsSum, Pick

\* One step of such a function.
LEMMA SumStep ==
    ASSUME NEW S, NEW g, IsSum(g, S), NEW s \in SUBSET S
    PROVE  /\ s = {} => g[s] = 0
           /\ s # {} => g[s] = Pick(s).change + g[s \ {Pick(s)}]
BY DEF IsSum

\* Two such functions agree where both are defined.
LEMMA SumsAgree ==
    ASSUME NEW S1, NEW g, IsSum(g, S1), NEW S2, NEW h, IsSum(h, S2),
           NEW s, s \subseteq S1, s \subseteq S2, IsFiniteSet(s)
    PROVE  g[s] = h[s]
<1> DEFINE T == {t \in SUBSET s : g[t] # h[t]}
<1>1. SUFFICES ASSUME T # {} PROVE FALSE
  OBVIOUS
<1>2. PICK x \in T : \A y \in T : ~(y \subseteq x /\ y # x)
  <2>1. T \subseteq SUBSET s
    OBVIOUS
  <2> HIDE DEF T
  <2> QED BY <1>1, <2>1, MinimalSubset
<1>3. x \in SUBSET S1 /\ x \in SUBSET S2 /\ g[x] # h[x]
  OBVIOUS
<1>4. x # {}
  BY <1>3, SumStep
<1>5. Pick(x) \in x
  BY <1>4, PickOne
<1>6. x \ {Pick(x)} \notin T /\ x \ {Pick(x)} \in SUBSET s
  BY <1>2, <1>5
<1>7. g[x \ {Pick(x)}] = h[x \ {Pick(x)}]
  BY <1>6
<1> QED BY <1>3, <1>4, <1>7, SumStep

\* On a finite set there is one.
LEMMA SumsExist ==
    ASSUME NEW S, IsFiniteSet(S)
    PROVE  \E g : IsSum(g, S)
<1> DEFINE T == {t \in SUBSET S : ~\E g : IsSum(g, t)}
<1>1. SUFFICES ASSUME T # {} PROVE FALSE
  OBVIOUS
<1>2. PICK x \in T : IsFiniteSet(x) /\ \A y \in T : ~(y \subseteq x /\ y # x)
  <2>1. T \subseteq SUBSET S
    OBVIOUS
  <2> HIDE DEF T
  <2> QED BY <1>1, <2>1, MinimalSubset
<1> DEFINE G(t) == CHOOSE g : IsSum(g, t)
           h == [t \in SUBSET x |-> IF t = {} THEN 0
                                    ELSE Pick(t).change + Sum(t \ {Pick(t)})]
<1>3. ASSUME NEW t, t \subseteq x, t # x
      PROVE  IsSum(G(t), t) /\ IsFiniteSet(t) /\ Sum(t) = G(t)[t]
  <2>1. t \in SUBSET S /\ t \notin T
    BY <1>2, <1>3
  <2>2. \E g : IsSum(g, t)
    BY <2>1
  <2>3. IsSum(G(t), t)
    BY <2>2
  <2>4. IsFiniteSet(t)
    BY <1>2, <1>3, FS_Subset
  <2> QED BY <2>3, <2>4, SumDef
<1>4. ASSUME NEW t, t \subseteq x, t # x
      PROVE  h[t] = Sum(t)
  <2>1. IsSum(G(t), t) /\ Sum(t) = G(t)[t]
    BY <1>3, <1>4
  <2>2. CASE t = {}
    BY <2>1, <2>2, SumStep
  <2>3. CASE t # {}
    <3> DEFINE u == t \ {Pick(t)}
    <3>1. Pick(t) \in t
      BY <2>3, PickOne
    <3>2. u \subseteq x /\ u # x /\ u \subseteq t
      BY <1>4, <3>1
    <3>3. IsSum(G(u), u) /\ IsFiniteSet(u) /\ Sum(u) = G(u)[u]
      BY <3>2, <1>3
    <3>4. G(t)[u] = G(u)[u]
      <4> HIDE DEF u, G
      <4> QED BY <2>1, <3>2, <3>3, SumsAgree
    <3>5. G(t)[t] = Pick(t).change + G(t)[u]
      <4> HIDE DEF G
      <4> QED BY <2>1, <2>3, SumStep
    <3>6. h[t] = Pick(t).change + Sum(u)
      BY <1>4, <2>3
    <3> HIDE DEF h, G, u
    <3> QED BY <2>1, <3>3, <3>4, <3>5, <3>6
  <2> QED BY <2>2, <2>3
<1>5. \A t \in SUBSET x : t # {} =>
          h[t] = Pick(t).change + h[t \ {Pick(t)}]
  <2> TAKE t \in SUBSET x
  <2> HAVE t # {}
  <2>1. Pick(t) \in t
    BY PickOne
  <2>2. h[t \ {Pick(t)}] = Sum(t \ {Pick(t)})
    <3> HIDE DEF h
    <3> QED BY <2>1, <1>4
  <2> QED BY <2>2
<1>6. IsSum(h, x)
  <2>1. h = [t \in SUBSET x |-> IF t = {} THEN 0 ELSE h[t]]
    OBVIOUS
  <2> HIDE DEF h
  <2>2. [t \in SUBSET x |-> IF t = {} THEN 0 ELSE h[t]]
            = [t \in SUBSET x |-> IF t = {} THEN 0
                                  ELSE Pick(t).change + h[t \ {Pick(t)}]]
    BY <1>5
  <2> QED BY <2>1, <2>2 DEF IsSum
<1> QED BY <1>6

\* The sum over a finite ledger, row by row.
LEMMA SumRec ==
    ASSUME NEW S, IsFiniteSet(S)
    PROVE  /\ S = {} => Sum(S) = 0
           /\ S # {} => Sum(S) = Pick(S).change + Sum(S \ {Pick(S)})
<1> DEFINE G(t) == CHOOSE g : IsSum(g, t)
           u == S \ {Pick(S)}
<1>1. IsFiniteSet(u)
  BY FS_RemoveElement
<1>2. IsSum(G(S), S) /\ IsSum(G(u), u)
  BY <1>1, SumsExist
<1>3. Sum(S) = G(S)[S] /\ Sum(u) = G(u)[u]
  BY SumDef
<1>4. u \subseteq S
  OBVIOUS
<1> HIDE DEF G
<1>5. G(S)[u] = G(u)[u]
  <2> HIDE DEF u
  <2> QED BY <1>1, <1>2, <1>4, SumsAgree
<1> QED BY <1>2, <1>3, <1>5, SumStep

\* Rows that change a column by integers have an integer sum.
LEMMA SumType ==
    ASSUME NEW S, IsFiniteSet(S), \A e \in S : e.change \in Int
    PROVE  Sum(S) \in Int
<1> DEFINE T == {t \in SUBSET S : Sum(t) \notin Int}
<1>1. SUFFICES ASSUME T # {} PROVE FALSE
  OBVIOUS
<1>2. PICK x \in T : IsFiniteSet(x) /\ \A y \in T : ~(y \subseteq x /\ y # x)
  <2>1. T \subseteq SUBSET S
    OBVIOUS
  <2> HIDE DEF T
  <2> QED BY <1>1, <2>1, MinimalSubset
<1>3. x # {}
  <2>1. Sum({}) = 0
    BY FS_EmptySet, SumRec
  <2> QED BY <2>1
<1>4. Pick(x) \in x
  BY <1>3, PickOne
<1>5. Sum(x \ {Pick(x)}) \in Int
  BY <1>2, <1>4
<1>6. Sum(x) = Pick(x).change + Sum(x \ {Pick(x)})
  BY <1>2, <1>3, SumRec
<1>7. Pick(x).change \in Int
  BY <1>4
<1> QED BY <1>5, <1>6, <1>7

\* Any row may be taken first.
LEMMA SumRemove ==
    ASSUME NEW S, IsFiniteSet(S), \A e \in S : e.change \in Int,
           NEW e \in S
    PROVE  Sum(S) = e.change + Sum(S \ {e})
<1> DEFINE T == {t \in SUBSET S : \E r \in t : Sum(t) # r.change + Sum(t \ {r})}
<1>1. SUFFICES ASSUME T # {} PROVE FALSE
  OBVIOUS
<1>2. PICK x \in T : IsFiniteSet(x) /\ \A y \in T : ~(y \subseteq x /\ y # x)
  <2>1. T \subseteq SUBSET S
    OBVIOUS
  <2> HIDE DEF T
  <2> QED BY <1>1, <2>1, MinimalSubset
<1>3. PICK r \in x : Sum(x) # r.change + Sum(x \ {r})
  OBVIOUS
<1> DEFINE p == Pick(x)
<1>4. p \in x
  BY <1>3, PickOne
<1>5. Sum(x) = p.change + Sum(x \ {p})
  BY <1>2, <1>3, SumRec
<1>6. p # r
  BY <1>3, <1>5
<1>7. x \ {p} \notin T /\ x \ {r} \notin T /\ x \in SUBSET S
  BY <1>2, <1>3, <1>4
<1>8. /\ Sum(x \ {p}) = r.change + Sum((x \ {p}) \ {r})
      /\ Sum(x \ {r}) = p.change + Sum((x \ {r}) \ {p})
  BY <1>3, <1>4, <1>6, <1>7
<1>9. (x \ {p}) \ {r} = (x \ {r}) \ {p}
  OBVIOUS
<1>10. Sum((x \ {p}) \ {r}) \in Int
  <2>1. IsFiniteSet((x \ {p}) \ {r})
    BY <1>2, FS_RemoveElement
  <2>2. \A q \in (x \ {p}) \ {r} : q.change \in Int
    BY <1>7
  <2> HIDE DEF p, T
  <2> QED BY <2>1, <2>2, SumType
<1>11. p.change \in Int /\ r.change \in Int
  BY <1>3, <1>4, <1>7
<1>12. /\ Sum(x) = p.change + (r.change + Sum((x \ {p}) \ {r}))
       /\ Sum(x) # r.change + (p.change + Sum((x \ {p}) \ {r}))
  BY <1>3, <1>5, <1>8, <1>9
<1> DEFINE s == Sum((x \ {p}) \ {r})
           a == p.change
           b == r.change
<1>13. a \in Int /\ b \in Int /\ s \in Int /\ a + (b + s) # b + (a + s)
  BY <1>10, <1>11, <1>12
<1> HIDE DEF p, T, s, a, b
<1> QED BY <1>13

\* A new row adds its change to the sum.
LEMMA SumAdd ==
    ASSUME NEW S, IsFiniteSet(S), \A e \in S : e.change \in Int,
           NEW e, e \notin S, e.change \in Int
    PROVE  Sum(S \cup {e}) = Sum(S) + e.change
<1> DEFINE U == S \cup {e}
<1>1. IsFiniteSet(U) /\ (\A r \in U : r.change \in Int) /\ e \in U
  BY FS_AddElement
<1>2. U \ {e} = S
  OBVIOUS
<1>3. Sum(S) \in Int
  BY SumType
<1>4. Sum(U) = e.change + Sum(U \ {e})
  <2> HIDE DEF U
  <2> QED BY <1>1, SumRemove
<1>5. Sum(U) = e.change + Sum(S)
  BY <1>2, <1>4
<1> HIDE DEF U
<1>6. Sum(U) = Sum(S) + e.change
  BY <1>3, <1>5
<1> QED BY <1>6 DEF U

-----------------------------------------------------------------------------
(* The inductive invariant. *)

\* A call in one of these steps has read the wallet.
AfterRead == {"diff", "commit", "create", "entry", "points", "write"}

\* The call is between its row of the points ledger and the wallet.
Pending(c) == \/ call[c].pc \in {"points", "write"}
              \/ call[c].pc = "diff" /\ call[c].op = "vip"

\* The call has no row of a ledger yet.
Early(c) == call[c].pc # "done" /\ ~Pending(c)

\* The column an operation changes.
Changes(op) == IF op \in {"topUp", "exchange"} THEN "balance" ELSE "points"

\* Which operation is in which step, for one call.
InOrder(me) ==
    /\ me.pc \in AfterRead => me.op \in Op \ {"migrate"}
    /\ me.pc = "diff" => me.op # "savePoints" /\ me.found
    /\ me.pc = "commit" => me.op = "topUp" \/ (me.op = "exchange" /\ me.found)
    /\ me.pc \in {"create", "points"} => me.op = "savePoints"
    /\ me.pc = "create" => ~me.found
    /\ me.pc = "entry" => me.op = "savePoints" \/ (me.op = "vip" /\ me.found)
    /\ me.pc = "write" => me.op = "vip" /\ me.found
    /\ me.pc = "vipRead" => "vip" \in Op

Control == \A c \in Call : InOrder(call[c])

\* The call goes on with a wallet that is there.
Bound(c) == call[c].found \/ call[c].pc \in {"entry", "points"}

\* A wallet that is missing was so from the start.
Existence ==
    /\ ~wallet.exists => wallet = NoWallet /\ start = NoWallet
    /\ \A c \in Call : call[c].pc \in AfterRead =>
          /\ Bound(c) => wallet.exists
          /\ ~call[c].found => call[c].ent = NewWallet
    /\ \A c \in Call : call[c].pc \in {"sum", "recharge"} => wallet.exists

\* Every call has at most one row, from a certain step on.
RowsOfCalls ==
    /\ IsFiniteSet(ledger)
    /\ \A c \in Call :
          /\ Pending(c) => Entry(c) \in ledger
          /\ Early(c) => \A e \in ledger : e.by # c
    /\ \A e, f \in ledger : e.by = f.by => e = f

Balances == {start.balance} \cup {e.after : e \in BalanceRows}
Points   == {start.points}  \cup {e.after : e \in PointRows}

\* The figures of the entities are accounted for as well.
EntitiesAccounted ==
    \A c \in Call : call[c].pc \in AfterRead =>
        call[c].ent.balance \in Balances /\ call[c].ent.points \in Points

\* The entities are not overdrawn either.
EntitiesNotOverdrawn ==
    Amount \subseteq Nat =>
        \A c \in Call : call[c].pc \in AfterRead =>
            call[c].ent.balance >= 0 /\ call[c].ent.points >= 0 /\ call[c].after >= 0

\* A column that was not written since a call read it is as in its entity, and
\* a save finds out about the one column that the call changes.
Snapshot(c) ==
    LET me == call[c]
    IN  /\ me.pc \in AfterRead \cup {"sum", "recharge"} =>
              \A k \in Column : me.seen[k] <= version[k]
        /\ me.pc \in AfterRead => me.after = me.ent[Changes(me.op)] + me.change
        /\ me.pc \in AfterRead /\ (Bound(c) \/ ~wallet.exists) =>
              \A k \in Column : me.seen[k] = version[k] => me.ent[k] = wallet[k]
        /\ me.pc \in {"commit", "write"} /\ me.found /\ me.seen = version =>
              \A k \in Column \ me.dirty : Changed(me)[k] = me.ent[k]
        /\ me.pc = "recharge" /\ me.seen["recharge"] = version["recharge"] =>
              me.after = Recharged(ledger)

Snapshots == \A c \in Call : Snapshot(c)

\* A wallet that had the column totalRecharge is never migrated.
NotMigrated ==
    Amount \subseteq Nat /\ start.recharge # -1 =>
        /\ wallet.recharge >= 0
        /\ \A c \in Call :
              /\ call[c].pc \in AfterRead => call[c].ent.recharge >= 0
              /\ call[c].pc \notin {"sum", "recharge"}
              /\ call[c].pc \in AfterRead /\ call[c].op = "topUp" =>
                   call[c].change \in Amount

\* The rows whose change has reached the wallet.
Settled == {e \in PointRows : ~Pending(e.by)}

Migrated == IF start.recharge = -1 THEN 0 ELSE start.recharge

\* LedgersAddUp, with the points of the calls under way left out.
SettledAddUp ==
    ~stale =>
        /\ wallet.balance = start.balance + Sum(BalanceRows)
        /\ fails = 0 => wallet.points = start.points + Sum(Settled)
        /\ Amount \subseteq Nat /\ wallet.recharge # -1
               /\ (\A e \in ledger : e.op = "topUp" => e.counted)
             => wallet.recharge = Migrated + Recharged(ledger)

-----------------------------------------------------------------------------
(* Types. *)

\* Types, the order of the steps, and a ledger that can be summed up.
Shape == TypeOK /\ Control /\ IsFiniteSet(ledger)

\* One call of them, with what the order of its steps tells.
LEMMA CallTypes ==
    ASSUME Shape, NEW c \in Call
    PROVE  call[c] \in CallType /\ InOrder(call[c])
BY DEF Shape, TypeOK, Control, InOrder

\* What a step has to show about the call that takes it.
LEMMA StepShape ==
    ASSUME Shape, NEW c \in Call, NEW new \in CallType,
           call' = [call EXCEPT ![c] = new], InOrder(new),
           wallet' \in WalletRow, start' = start,
           ledger' = ledger \/ ledger' = ledger \cup {Entry(c)},
           ledger' # ledger => Entry(c) \in EntryType,
           version' \in [Column -> Nat], stale' \in BOOLEAN, fails' \in 0..MaxFail
    PROVE  Shape'
<1>1. call' \in [Call -> CallType]
  BY DEF Shape, TypeOK
<1>2. \A d \in Call : InOrder(call'[d])
  BY CallTypes DEF Shape, TypeOK
<1>3. ledger' \subseteq EntryType /\ IsFiniteSet(ledger')
  BY FS_AddElement DEF Shape, TypeOK
<1> QED BY <1>1, <1>2, <1>3 DEF Shape, TypeOK, Control, InOrder

\* The ledger row a call is about to insert.
LEMMA NewEntryType ==
    ASSUME Shape, NEW c \in Call, call[c].pc \in AfterRead
    PROVE  Entry(c) \in EntryType
<1>1. call[c] \in CallType /\ call[c].op \in Op
  BY CallTypes DEF InOrder
<1> QED BY <1>1 DEF Entry, EntryType, CallType, WalletRow

\* The rows a wallet starts from.
LEMMA BlankRows == NoWallet \in WalletRow /\ NewWallet \in WalletRow
BY DEF NoWallet, NewWallet, WalletRow

\* The versions of the columns after a write.
LEMMA WrittenType ==
    ASSUME Shape, NEW c \in Call, NEW cs, NEW read, Written(c, cs, read)
    PROVE  version' \in [Column -> Nat] /\ stale' \in BOOLEAN
<1>1. version \in [Column -> Nat] /\ stale \in BOOLEAN
  BY DEF Shape, TypeOK
<1>2. version' \in [Column -> Nat]
  BY <1>1 DEF Written
<1>3. stale' \in BOOLEAN
  BY <1>1 DEF Written
<1> QED BY <1>2, <1>3

\* A call that starts by reading the wallet keeps the shape.
LEMMA ReadShape ==
    ASSUME Shape, NEW c \in Call, NEW op \in Op, NEW pc \in Pc, NEW change \in Int,
           NEW col \in {"balance", "points"},
           Read(c, op, pc, col, change),
           UNCHANGED <<wallet, start, ledger, version, stale, fails>>,
           InOrder([call[c] EXCEPT !.op = op, !.pc = pc, !.found = wallet.exists])
    PROVE  Shape'
<1> DEFINE new == [call[c] EXCEPT !.op = op, !.pc = pc, !.change = change,
                  !.found = wallet.exists, !.seen = version,
                  !.ent = IF wallet.exists THEN wallet ELSE NewWallet,
                  !.after = wallet[col] + change]
<1>1. call' = [call EXCEPT ![c] = new]
  BY DEF Read
<1>2. new \in CallType
  <2>1. wallet \in WalletRow /\ version \in [Column -> Nat]
    BY DEF Shape, TypeOK
  <2>2. wallet[col] \in Int
    BY <2>1 DEF WalletRow
  <2>3. wallet.exists \in BOOLEAN
    BY <2>1 DEF WalletRow
  <2>4. (IF wallet.exists THEN wallet ELSE NewWallet) \in WalletRow
    BY <2>1, BlankRows
  <2>5. wallet[col] + change \in Int
    BY <2>2
  <2>6. ASSUME NEW e \in WalletRow, NEW a \in Int, NEW f \in BOOLEAN
        PROVE  [call[c] EXCEPT !.op = op, !.pc = pc, !.change = change, !.found = f,
                               !.seen = version, !.ent = e, !.after = a] \in CallType
    BY <2>1, CallTypes DEF CallType
  <2> QED BY <2>3, <2>4, <2>5, <2>6
<1>3. InOrder(new)
  BY CallTypes DEF InOrder, CallType
<1> HIDE DEF new
<1> QED BY <1>1, <1>2, <1>3, StepShape DEF Shape, TypeOK

\* A save writes some columns of an entity over a row.
LEMMA OverwrittenType ==
    ASSUME NEW w \in WalletRow, NEW e \in WalletRow, NEW cs
    PROVE  Overwritten(w, e, cs) \in WalletRow
BY DEF Overwritten, WalletRow

\* The entity a call is about to save.
LEMMA ChangedType ==
    ASSUME NEW me \in CallType
    PROVE  Changed(me) \in WalletRow
BY DEF Changed, CallType, WalletRow

\* A call that only goes on, from a step it may be in to one it may go on to.
LEMMA GotoShape ==
    ASSUME Shape, NEW c \in Call, NEW pc \in Pc, Goto(c, pc),
           InOrder([call[c] EXCEPT !.pc = pc]),
           wallet' \in WalletRow, start' = start,
           ledger' = ledger \/ ledger' = ledger \cup {Entry(c)},
           ledger' # ledger => Entry(c) \in EntryType,
           version' \in [Column -> Nat], stale' \in BOOLEAN, fails' \in 0..MaxFail
    PROVE  Shape'
<1> DEFINE new == [call[c] EXCEPT !.pc = pc]
<1>1. call[c] \in CallType
  BY CallTypes
<1>2. new \in CallType
  BY <1>1 DEF CallType
<1>3. call' = [call EXCEPT ![c] = new]
  BY DEF Goto
<1> HIDE DEF new
<1>4. InOrder(new)
  BY DEF new
<1> QED BY <1>2, <1>3, <1>4, StepShape

\* What a migration sums up.
LEMMA RechargedSum ==
    Recharged(ledger) = Sum({e \in ledger : e.op = "topUp"})
BY DEF Recharged, Sum

\* The sum of the top-ups is a number.
LEMMA RechargedType ==
    ASSUME Shape
    PROVE  Recharged(ledger) \in Int
<1> DEFINE S == {e \in ledger : e.op = "topUp"}
<1>1. IsFiniteSet(S)
  BY FS_Subset DEF Shape
<1>2. \A e \in S : e.change \in Int
  BY DEF Shape, TypeOK, EntryType
<1> HIDE DEF S
<1>3. Sum(S) \in Int
  BY <1>1, <1>2, SumType
<1> QED BY <1>3, RechargedSum DEF S

\* The shape holds at the start.
LEMMA InitShape == Init => Shape
<1> SUFFICES ASSUME Init PROVE Shape
  OBVIOUS
<1>1. Idle \in CallType
  <2>1. (CHOOSE v \in Video : TRUE) \in Video
    BY WalletAssumption
  <2> QED BY <2>1, BlankRows DEF Idle, CallType, Pc
<1>2. TypeOK
  <2>1. wallet \in WalletRow /\ start \in WalletRow
    BY WalletAssumption DEF Init
  <2>2. call \in [Call -> CallType] /\ ledger \subseteq EntryType
    BY <1>1 DEF Init
  <2>3. version \in [Column -> Nat] /\ stale \in BOOLEAN
    BY DEF Init
  <2>4. fails \in 0..MaxFail
    BY WalletAssumption DEF Init
  <2> QED BY <2>1, <2>2, <2>3, <2>4 DEF TypeOK
<1>3. Control
  BY DEF Init, Idle, Control, InOrder, AfterRead
<1> QED BY <1>2, <1>3, FS_EmptySet DEF Init, Shape

\* Every step keeps the shape.
LEMMA NextShape == Shape /\ [Next]_vars => Shape'
<1> SUFFICES ASSUME Shape, [Next]_vars PROVE Shape'
  OBVIOUS
<1> USE DEF Pc
<1>1. CASE UNCHANGED vars
  BY <1>1 DEF vars, Shape, TypeOK, Control, CallType
<1>2. ASSUME NEW c \in Call PROVE call[c] \in CallType /\ InOrder(call[c])
  BY CallTypes
<1>3. /\ wallet \in WalletRow /\ ledger \subseteq EntryType
      /\ version \in [Column -> Nat] /\ stale \in BOOLEAN /\ fails \in 0..MaxFail
  BY DEF Shape, TypeOK
<1>4. ASSUME NEW c \in Call, TopUp(c) PROVE Shape'
  <2>1. PICK a \in Amount :
            Read(c, "topUp", IF wallet.exists THEN "diff" ELSE "commit", "balance", a)
    BY <1>4 DEF TopUp
  <2>2. a \in Int /\ "topUp" \in Op
    BY <1>4, WalletAssumption DEF TopUp
  <2>3. \A pc \in {IF wallet.exists THEN "diff" ELSE "commit"} :
            InOrder([call[c] EXCEPT !.op = "topUp", !.pc = pc, !.found = wallet.exists])
    BY <1>2, <2>2 DEF InOrder, AfterRead, CallType
  <2> QED BY <1>4, <2>1, <2>2, <2>3, ReadShape DEF TopUp
<1>5. ASSUME NEW c \in Call, Exchange(c) PROVE Shape'
  <2>1. CASE wallet.exists /\ wallet.balance >= Price
    <3>1. -Price \in Int /\ "exchange" \in Op
      BY <1>5, WalletAssumption DEF Exchange
    <3>2. InOrder([call[c] EXCEPT !.op = "exchange", !.pc = "diff",
                                  !.found = wallet.exists])
      BY <1>2, <2>1, <3>1 DEF InOrder, AfterRead, CallType
    <3> QED BY <1>5, <2>1, <3>1, <3>2, ReadShape DEF Exchange
  <2>2. CASE ~(wallet.exists /\ wallet.balance >= Price)
    <3>1. InOrder([call[c] EXCEPT !.pc = "done"])
      BY <1>2 DEF InOrder, AfterRead, CallType
    <3> QED BY <1>3, <1>5, <2>2, <3>1, GotoShape DEF Exchange, Reject
  <2> QED BY <2>1, <2>2
<1>6. ASSUME NEW c \in Call, SavePoints(c) PROVE Shape'
  <2>1. PICK a \in Amount :
            Read(c, "savePoints", IF wallet.exists THEN "entry" ELSE "create", "points", a)
    BY <1>6 DEF SavePoints
  <2>2. a \in Int /\ "savePoints" \in Op
    BY <1>6, WalletAssumption DEF SavePoints
  <2>3. \A pc \in {IF wallet.exists THEN "entry" ELSE "create"} :
            InOrder([call[c] EXCEPT !.op = "savePoints", !.pc = pc,
                                    !.found = wallet.exists])
    BY <1>2, <2>2 DEF InOrder, AfterRead, CallType
  <2> QED BY <1>6, <2>1, <2>2, <2>3, ReadShape DEF SavePoints
<1>7. ASSUME NEW c \in Call, VipVideo(c) PROVE Shape'
  <2>1. CASE Reject(c)
    <3>1. InOrder([call[c] EXCEPT !.pc = "done"])
      BY <1>2 DEF InOrder, AfterRead, CallType
    <3> QED BY <1>3, <1>7, <2>1, <3>1, GotoShape DEF VipVideo, Reject
  <2>2. CASE ~Reject(c)
    <3>1. PICK v \in Video : call' = [call EXCEPT ![c].pc = "vipRead", ![c].video = v]
      BY <1>7, <2>2 DEF VipVideo
    <3> DEFINE new == [call[c] EXCEPT !.pc = "vipRead", !.video = v]
    <3>2. call' = [call EXCEPT ![c] = new]
      BY <3>1
    <3>3. new \in CallType /\ InOrder(new)
      BY ZenonT(60), <1>2, <1>7 DEF CallType, InOrder, AfterRead, VipVideo
    <3> HIDE DEF new
    <3> QED BY <1>3, <1>7, <3>2, <3>3, StepShape DEF VipVideo
  <2> QED BY <2>1, <2>2
<1>8. ASSUME NEW c \in Call, MigrateFind(c) PROVE Shape'
  <2> DEFINE new == [call[c] EXCEPT !.op = "migrate", !.pc = "sum", !.seen = version]
  <2>1. call' = [call EXCEPT ![c] = new]
    BY <1>8 DEF MigrateFind
  <2>2. new \in CallType /\ InOrder(new)
    BY ZenonT(60), <1>2, <1>3, <1>8 DEF CallType, InOrder, AfterRead, MigrateFind
  <2> HIDE DEF new
  <2> QED BY <1>3, <1>8, <2>1, <2>2, StepShape DEF MigrateFind
<1>9. ASSUME NEW c \in Call, Diff(c) PROVE Shape'
  <2> DEFINE new == [call[c] EXCEPT
                        !.pc = IF call[c].op = "vip" THEN "write" ELSE "commit",
                        !.dirty = {k \in Column : Changed(call[c])[k] # wallet[k]}]
  <2>1. call' = [call EXCEPT ![c] = new]
    BY <1>9 DEF Diff
  <2>2. new \in CallType
    BY ZenonT(60), <1>2 DEF CallType
  <2>3. InOrder(new)
    BY <1>2, <1>9, WalletAssumption DEF CallType, InOrder, AfterRead, Diff
  <2> HIDE DEF new
  <2> QED BY <1>3, <1>9, <2>1, <2>2, <2>3, StepShape DEF Diff
<1>10. ASSUME NEW c \in Call, Commit(c) PROVE Shape'
  <2> DEFINE me == call[c]
             base == IF me.found THEN Overwritten(wallet, Changed(me), me.dirty)
                     ELSE Changed(me)
  <2>1. InOrder([call[c] EXCEPT !.pc = "done"])
    BY <1>2 DEF InOrder, AfterRead, CallType
  <2>2. CASE ~me.found /\ wallet.exists
    BY <1>3, <1>10, <2>1, <2>2, GotoShape DEF Commit
  <2>3. CASE ~(~me.found /\ wallet.exists)
    <3>1. base \in WalletRow
      BY <1>2, <1>3, ChangedType, OverwrittenType
    <3>2. \A n \in Int : [base EXCEPT !.recharge = n] \in WalletRow
      <4> HIDE DEF base
      <4> QED BY <3>1 DEF WalletRow
    <3>3. me.ent.recharge + me.change \in Int
      BY <1>2 DEF CallType, WalletRow
    <3>4. wallet' \in WalletRow
      BY <1>10, <2>3, <3>1, <3>2, <3>3 DEF Commit
    <3>5. version' \in [Column -> Nat] /\ stale' \in BOOLEAN
      BY <1>10, <2>3, WrittenType DEF Commit
    <3>6. ledger' = ledger \cup {Entry(c)} /\ Entry(c) \in EntryType
      BY <1>10, <2>3, NewEntryType DEF Commit, AfterRead
    <3> QED BY <1>3, <1>10, <2>1, <3>4, <3>5, <3>6, GotoShape DEF Commit
  <2> QED BY <2>2, <2>3
<1>11. ASSUME NEW c \in Call, CreateWallet(c) PROVE Shape'
  <2>1. /\ InOrder([call[c] EXCEPT !.pc = "done"])
        /\ InOrder([call[c] EXCEPT !.pc = "entry"])
    BY <1>2, <1>11 DEF InOrder, AfterRead, CallType, CreateWallet
  <2> QED BY <1>3, <1>11, <2>1, BlankRows, GotoShape DEF CreateWallet, Reject
<1>12. ASSUME NEW c \in Call, VipRead(c) PROVE Shape'
  <2>1. CASE wallet.exists /\ wallet.points >= Cost
    <3>1. -Cost \in Int /\ "vip" \in Op
      BY <1>2, <1>12, WalletAssumption DEF VipRead, InOrder
    <3>2. InOrder([call[c] EXCEPT !.op = "vip", !.pc = "entry",
                                  !.found = wallet.exists])
      BY <1>2, <2>1, <3>1 DEF InOrder, AfterRead, CallType
    <3> QED BY <1>12, <2>1, <3>1, <3>2, ReadShape DEF VipRead
  <2>2. CASE ~(wallet.exists /\ wallet.points >= Cost)
    <3>1. InOrder([call[c] EXCEPT !.pc = "done"])
      BY <1>2 DEF InOrder, AfterRead, CallType
    <3> QED BY <1>3, <1>12, <2>2, <3>1, GotoShape DEF VipRead, Reject
  <2> QED BY <2>1, <2>2
<1>13. ASSUME NEW c \in Call, SaveEntry(c) PROVE Shape'
  <2>1. InOrder([call[c] EXCEPT !.pc = IF call[c].op = "vip" THEN "diff" ELSE "points"])
    BY <1>2, <1>13 DEF InOrder, AfterRead, CallType, SaveEntry
  <2>2. Entry(c) \in EntryType
    BY <1>13, NewEntryType DEF SaveEntry, AfterRead
  <2> QED BY <1>3, <1>13, <2>1, <2>2, GotoShape DEF SaveEntry
<1>14. ASSUME NEW c \in Call, UpdatePoints(c) PROVE Shape'
  <2>1. InOrder([call[c] EXCEPT !.pc = "done"])
    BY <1>2 DEF InOrder, AfterRead, CallType
  <2>2. wallet' \in WalletRow
    BY <1>2, <1>3, <1>14 DEF UpdatePoints, WalletRow, CallType
  <2>3. version' \in [Column -> Nat] /\ stale' \in BOOLEAN
    BY <1>14, WrittenType DEF UpdatePoints
  <2> QED BY <1>3, <1>14, <2>1, <2>2, <2>3, GotoShape DEF UpdatePoints
<1>15. ASSUME NEW c \in Call, WriteVip(c) PROVE Shape'
  <2>1. InOrder([call[c] EXCEPT !.pc = "done"])
    BY <1>2 DEF InOrder, AfterRead, CallType
  <2>2. wallet' \in WalletRow
    BY <1>2, <1>3, <1>15, ChangedType, OverwrittenType DEF WriteVip
  <2>3. version' \in [Column -> Nat] /\ stale' \in BOOLEAN
    BY <1>15, WrittenType DEF WriteVip
  <2> QED BY <1>3, <1>15, <2>1, <2>2, <2>3, GotoShape DEF WriteVip
<1>16. ASSUME NEW c \in Call, MigrateSum(c) PROVE Shape'
  <2> DEFINE new == [call[c] EXCEPT !.pc = "recharge", !.after = Recharged(ledger)]
  <2>1. call' = [call EXCEPT ![c] = new]
    BY <1>16 DEF MigrateSum
  <2>2. Recharged(ledger) \in Int
    BY RechargedType DEF Shape, TypeOK
  <2>3. new \in CallType /\ InOrder(new)
    BY <1>2, <2>2 DEF CallType, InOrder, AfterRead
  <2> HIDE DEF new
  <2> QED BY <1>3, <1>16, <2>1, <2>3, StepShape DEF MigrateSum
<1>17. ASSUME NEW c \in Call, MigrateUpdate(c) PROVE Shape'
  <2>1. InOrder([call[c] EXCEPT !.pc = "done"])
    BY <1>2 DEF InOrder, AfterRead, CallType
  <2>2. wallet' \in WalletRow
    BY <1>2, <1>3, <1>17 DEF MigrateUpdate, WalletRow, CallType
  <2>3. version' \in [Column -> Nat] /\ stale' \in BOOLEAN
    BY <1>17, WrittenType DEF MigrateUpdate
  <2> QED BY <1>3, <1>17, <2>1, <2>2, <2>3, GotoShape DEF MigrateUpdate
<1>18. ASSUME NEW c \in Call, Fail(c) PROVE Shape'
  <2>1. InOrder([call[c] EXCEPT !.pc = "done"])
    BY <1>2 DEF InOrder, AfterRead, CallType
  <2>2. fails' \in 0..MaxFail
    BY <1>3, <1>18, WalletAssumption DEF Fail
  <2> QED BY <1>3, <1>18, <2>1, <2>2, GotoShape DEF Fail, Reject
<1>19. CASE Quiet
  BY <1>1, <1>19 DEF Quiet
<1> QED BY <1>1, <1>4, <1>5, <1>6, <1>7, <1>8, <1>9, <1>10, <1>11, <1>12, <1>13,
           <1>14, <1>15, <1>16, <1>17, <1>18, <1>19 DEF Next


-----------------------------------------------------------------------------
(* The steps once more, by what they do to each column: the invariants below *)
(* are proved from this table.                                               *)

\* A call reads the wallet.
Reads(c) ==
    LET new == call'[c]
    IN  /\ call[c].pc \in {"idle", "vipRead"} /\ new.pc \in AfterRead \ {"points", "write"}
        /\ new.found = wallet.exists /\ new.seen = version
        /\ new.ent = (IF wallet.exists THEN wallet ELSE NewWallet)
        /\ new.after = wallet[Changes(new.op)] + new.change
        /\ new.pc \in {"diff", "entry"} => wallet.exists
        /\ new.pc \in {"commit", "create"} => ~wallet.exists
        /\ new.pc = "diff" => new.op # "vip"
        /\ new.op \in {"exchange", "vip"} => new.after >= 0
        /\ new.op \in {"topUp", "savePoints"} => new.change \in Amount
        /\ UNCHANGED <<wallet, ledger, version, stale, fails>>

\* A call ends without a write, or does not read these columns.
Leaves(c) ==
    LET new == call'[c]
    IN  /\ new.pc \in {"done", "vipRead", "sum"}
        /\ new.pc = "sum" => wallet.exists /\ wallet.recharge = -1 /\ new.seen = version
        /\ call[c].pc = "idle" \/ new.pc = "done"
        /\ Pending(c) => fails' # 0
        /\ fails' >= fails
        /\ UNCHANGED <<wallet, ledger, version, stale>>

\* A call finds out which columns differ.
Diffs(c) ==
    LET me == call[c]
        new == call'[c]
    IN  /\ me.pc = "diff" /\ new.pc = IF me.op = "vip" THEN "write" ELSE "commit"
        /\ new.op = me.op /\ new.found = me.found /\ new.ent = me.ent /\ new.seen = me.seen
        /\ new.change = me.change /\ new.after = me.after /\ new.video = me.video
        /\ new.dirty = {k \in Column : Changed(me)[k] # wallet[k]}
        /\ UNCHANGED <<wallet, ledger, version, stale, fails>>

\* A top-up or an exchange becomes visible.
Commits(c) ==
    LET me == call[c]
        old(k) == me.found /\ k \notin me.dirty
    IN  /\ me.pc = "commit" /\ call'[c].pc = "done" /\ (me.found \/ ~wallet.exists)
        /\ wallet'.exists = IF me.found THEN wallet.exists ELSE me.ent.exists
        /\ wallet'.balance = IF old("balance") THEN wallet.balance ELSE me.after
        /\ wallet'.points = IF old("points") THEN wallet.points ELSE me.ent.points
        /\ wallet'.recharge = IF me.op = "topUp" THEN me.ent.recharge + me.change
                              ELSE IF old("recharge") THEN wallet.recharge
                              ELSE me.ent.recharge
        /\ ledger' = ledger \cup {Entry(c)}
        /\ Written(c, me.dirty \cup IF me.op = "topUp" THEN {"recharge"} ELSE {}, Column)
        /\ UNCHANGED fails

\* savePoints creates the wallet.
Creates(c) ==
    LET me == call[c]
        new == call'[c]
    IN  /\ me.pc = "create" /\ ~wallet.exists /\ new.pc = "entry"
        /\ new.op = me.op /\ new.found = me.found /\ new.ent = me.ent /\ new.seen = me.seen
        /\ new.change = me.change /\ new.after = me.after /\ new.video = me.video
        /\ wallet' = NewWallet
        /\ UNCHANGED <<ledger, version, stale, fails>>

\* A row of the points ledger.
Enters(c) ==
    LET me == call[c]
        new == call'[c]
    IN  /\ me.pc = "entry" /\ new.pc = IF me.op = "vip" THEN "diff" ELSE "points"
        /\ new.op = me.op /\ new.found = me.found /\ new.ent = me.ent /\ new.seen = me.seen
        /\ new.change = me.change /\ new.after = me.after /\ new.video = me.video
        /\ ledger' = ledger \cup {Entry(c)}
        /\ UNCHANGED <<wallet, version, stale, fails>>

\* The points reach the wallet.
Writes(c) ==
    LET me == call[c]
        all == me.pc = "write"
    IN  /\ me.pc \in {"points", "write"} /\ call'[c].pc = "done"
        /\ wallet'.exists = wallet.exists
        /\ wallet'.balance = IF all /\ "balance" \in me.dirty THEN me.ent.balance
                             ELSE wallet.balance
        /\ wallet'.points = IF all /\ "points" \notin me.dirty THEN wallet.points
                            ELSE me.after
        /\ wallet'.recharge = IF all /\ "recharge" \in me.dirty THEN me.ent.recharge
                              ELSE wallet.recharge
        /\ IF all THEN Written(c, me.dirty, Column) ELSE Written(c, {"points"}, {"points"})
        /\ UNCHANGED <<ledger, fails>>

\* A migration sums up, and stores the sum.
Sums(c) ==
    /\ call[c].pc = "sum" /\ call'[c].pc = "recharge"
    /\ call'[c].seen = call[c].seen /\ call'[c].after = Recharged(ledger)
    /\ UNCHANGED <<wallet, ledger, version, stale, fails>>

Migrates(c) ==
    /\ call[c].pc = "recharge" /\ call'[c].pc = "done"
    /\ wallet'.exists = wallet.exists
    /\ wallet'.balance = wallet.balance /\ wallet'.points = wallet.points
    /\ wallet'.recharge = call[c].after
    /\ Written(c, {"recharge"}, {"recharge"})
    /\ UNCHANGED <<ledger, fails>>

\* Only call c changes.
Only(c) == /\ \A d \in Call \ {c} : call'[d] = call[d]
           /\ start' = start

Steps(c) == \/ Reads(c) \/ Leaves(c) \/ Diffs(c) \/ Commits(c) \/ Creates(c)
            \/ Enters(c) \/ Writes(c) \/ Sums(c) \/ Migrates(c)

\* What action TopUp does, in these terms.
LEMMA TopUpStep ==
    ASSUME Shape, NEW c \in Call, TopUp(c)
    PROVE  Only(c) /\ Reads(c)
<1>1. call \in [Call -> CallType] /\ wallet \in WalletRow /\ fails \in Nat
  BY WalletAssumption DEF Shape, TypeOK
<1>2. call[c] \in CallType /\ InOrder(call[c])
  BY CallTypes
<1>3. Only(c)
  BY <1>1, <1>2 DEF TopUp, Read, Only, CallType
<1>4. Reads(c)
  BY <1>1, <1>2, <1>3, WalletAssumption DEF TopUp, Read, CallType, WalletRow, InOrder, Reads, Changes, AfterRead
<1> QED BY <1>3, <1>4

\* What action Exchange does, in these terms.
LEMMA ExchangeStep ==
    ASSUME Shape, NEW c \in Call, Exchange(c)
    PROVE  Only(c) /\ (Reads(c) \/ Leaves(c))
<1>1. call \in [Call -> CallType] /\ wallet \in WalletRow /\ fails \in Nat
  BY WalletAssumption DEF Shape, TypeOK
<1>2. call[c] \in CallType /\ InOrder(call[c])
  BY CallTypes
<1>3. Only(c)
  BY <1>1, <1>2 DEF Exchange, Read, Reject, Goto, Only, CallType
<1>4. CASE wallet.exists /\ wallet.balance >= Price
  <2>1. /\ call'[c] = [call[c] EXCEPT !.op = "exchange", !.pc = "diff", !.change = -Price,
                  !.found = wallet.exists, !.seen = version,
                  !.ent = IF wallet.exists THEN wallet ELSE NewWallet,
                  !.after = wallet.balance + (-Price)]
        /\ UNCHANGED <<wallet, ledger, version, stale, fails>>
        /\ call[c].pc = "idle"
    BY <1>1, <1>4 DEF Exchange, Read
  <2>2. wallet.balance + (-Price) >= 0
    BY <1>1, <1>4, WalletAssumption DEF WalletRow
  <2>3. wallet["balance"] = wallet.balance
    BY <1>1 DEF WalletRow
  <2> QED BY <1>2, <1>3, <1>4, <2>1, <2>2, <2>3 DEF Reads, Changes, AfterRead, CallType
<1>5. CASE ~(wallet.exists /\ wallet.balance >= Price)
  <2>1. Leaves(c)
    BY <1>1, <1>2, <1>5 DEF Exchange, Reject, Goto, Leaves, Pending, CallType
  <2> QED BY <1>3, <2>1
<1> QED BY <1>4, <1>5

\* What action SavePoints does, in these terms.
LEMMA SavePointsStep ==
    ASSUME Shape, NEW c \in Call, SavePoints(c)
    PROVE  Only(c) /\ Reads(c)
<1>1. call \in [Call -> CallType] /\ wallet \in WalletRow /\ fails \in Nat
  BY WalletAssumption DEF Shape, TypeOK
<1>2. call[c] \in CallType /\ InOrder(call[c])
  BY CallTypes
<1>3. Only(c)
  BY <1>1, <1>2 DEF SavePoints, Read, Only, CallType
<1>4. Reads(c)
  BY <1>1, <1>2, <1>3, WalletAssumption DEF SavePoints, Read, CallType, WalletRow, InOrder, Reads, Changes, AfterRead
<1> QED BY <1>3, <1>4

\* What action VipVideo does, in these terms.
LEMMA VipVideoStep ==
    ASSUME Shape, NEW c \in Call, VipVideo(c)
    PROVE  Only(c) /\ Leaves(c)
<1>1. call \in [Call -> CallType] /\ wallet \in WalletRow /\ fails \in Nat
  BY WalletAssumption DEF Shape, TypeOK
<1>2. call[c] \in CallType /\ InOrder(call[c])
  BY CallTypes
<1>3. Only(c)
  BY <1>1, <1>2 DEF VipVideo, Reject, Goto, Only, CallType
<1>4. Leaves(c)
  BY <1>1, <1>2, <1>3, WalletAssumption DEF VipVideo, Reject, Goto, CallType, WalletRow, InOrder, Leaves, Pending, AfterRead
<1> QED BY <1>3, <1>4

\* What action MigrateFind does, in these terms.
LEMMA MigrateFindStep ==
    ASSUME Shape, NEW c \in Call, MigrateFind(c)
    PROVE  Only(c) /\ Leaves(c)
<1>1. call \in [Call -> CallType] /\ wallet \in WalletRow /\ fails \in Nat
  BY WalletAssumption DEF Shape, TypeOK
<1>2. call[c] \in CallType /\ InOrder(call[c])
  BY CallTypes
<1>3. Only(c)
  BY <1>1, <1>2 DEF MigrateFind, vars, Only, CallType
<1>4. Leaves(c)
  BY <1>1, <1>2, <1>3, WalletAssumption DEF MigrateFind, vars, CallType, WalletRow, InOrder, Leaves, Pending, AfterRead
<1> QED BY <1>3, <1>4

\* What action Diff does, in these terms.
LEMMA DiffStep ==
    ASSUME Shape, NEW c \in Call, Diff(c)
    PROVE  Only(c) /\ Diffs(c)
<1>1. call \in [Call -> CallType] /\ wallet \in WalletRow /\ fails \in Nat
  BY WalletAssumption DEF Shape, TypeOK
<1>2. call[c] \in CallType /\ InOrder(call[c])
  BY CallTypes
<1>3. Only(c)
  BY <1>1, <1>2 DEF Diff, vars, Only, CallType
<1>4. Diffs(c)
  BY <1>1, <1>2, <1>3, WalletAssumption DEF Diff, vars, CallType, WalletRow, InOrder, Diffs
<1> QED BY <1>3, <1>4

\* What action Commit does, in these terms.
LEMMA CommitStep ==
    ASSUME Shape, NEW c \in Call, Commit(c)
    PROVE  Only(c) /\ (Commits(c) \/ Leaves(c))
<1>1. call \in [Call -> CallType] /\ wallet \in WalletRow /\ fails \in Nat
  BY WalletAssumption DEF Shape, TypeOK
<1>2. call[c] \in CallType /\ InOrder(call[c])
  BY CallTypes
<1>3. Only(c)
  BY <1>1, <1>2 DEF Commit, Goto, Only, CallType
<1> DEFINE me == call[c]
           base == IF me.found THEN Overwritten(wallet, Changed(me), me.dirty)
                   ELSE Changed(me)
<1>4. CASE ~me.found /\ wallet.exists
  <2>1. Leaves(c)
    BY <1>1, <1>2, <1>4 DEF Commit, Goto, Leaves, Pending, CallType
  <2> QED BY <1>3, <2>1
<1>5. CASE me.found \/ ~wallet.exists
  <2>1. Changed(me) = [me.ent EXCEPT !.balance = me.after] /\ Changed(me) \in WalletRow
    BY <1>1, <1>2, ChangedType DEF Commit, Changed, InOrder
  <2>2. /\ Changed(me).balance = me.after /\ Changed(me).points = me.ent.points
        /\ Changed(me).recharge = me.ent.recharge /\ Changed(me).exists = me.ent.exists
    BY <1>2, <2>1 DEF CallType, WalletRow
  <2>3. base \in WalletRow
    BY <1>1, <2>1, OverwrittenType
  <2>4. /\ base.exists = IF me.found THEN wallet.exists ELSE me.ent.exists
        /\ base.balance = IF me.found /\ "balance" \notin me.dirty THEN wallet.balance
                          ELSE me.after
        /\ base.points = IF me.found /\ "points" \notin me.dirty THEN wallet.points
                         ELSE me.ent.points
        /\ base.recharge = IF me.found /\ "recharge" \notin me.dirty THEN wallet.recharge
                           ELSE me.ent.recharge
    BY <1>1, <2>2 DEF Overwritten, WalletRow
  <2> HIDE DEF base
  <2>5. /\ me.pc = "commit" /\ call'[c].pc = "done"
        /\ wallet' = IF me.op = "topUp"
                     THEN [base EXCEPT !.recharge = me.ent.recharge + me.change]
                     ELSE base
        /\ ledger' = ledger \cup {Entry(c)}
        /\ Written(c, me.dirty \cup IF me.op = "topUp" THEN {"recharge"} ELSE {}, Column)
        /\ UNCHANGED fails
    <3> USE DEF base
    <3> QED BY <1>1, <1>2, <1>5 DEF Commit, Goto, CallType
  <2>6. /\ wallet'.exists = base.exists /\ wallet'.balance = base.balance
        /\ wallet'.points = base.points
        /\ wallet'.recharge = IF me.op = "topUp" THEN me.ent.recharge + me.change
                              ELSE base.recharge
    BY <2>3, <2>5 DEF WalletRow
  <2>7. Commits(c)
    BY <1>5, <2>4, <2>5, <2>6 DEF Commits
  <2> QED BY <1>3, <2>7
<1> QED BY <1>4, <1>5

\* What action CreateWallet does, in these terms.
LEMMA CreateWalletStep ==
    ASSUME Shape, NEW c \in Call, CreateWallet(c)
    PROVE  Only(c) /\ (Creates(c) \/ Leaves(c))
<1>1. call \in [Call -> CallType] /\ wallet \in WalletRow /\ fails \in Nat
  BY WalletAssumption DEF Shape, TypeOK
<1>2. call[c] \in CallType /\ InOrder(call[c])
  BY CallTypes
<1>3. Only(c)
  BY <1>1, <1>2 DEF CreateWallet, Reject, Goto, Only, CallType
<1>4. (Creates(c) \/ Leaves(c))
  BY <1>1, <1>2, <1>3, WalletAssumption DEF CreateWallet, Reject, Goto, CallType, WalletRow, InOrder, Creates, Leaves, Pending
<1> QED BY <1>3, <1>4

\* What action VipRead does, in these terms.
LEMMA VipReadStep ==
    ASSUME Shape, NEW c \in Call, VipRead(c)
    PROVE  Only(c) /\ (Reads(c) \/ Leaves(c))
<1>1. call \in [Call -> CallType] /\ wallet \in WalletRow /\ fails \in Nat
  BY WalletAssumption DEF Shape, TypeOK
<1>2. call[c] \in CallType /\ InOrder(call[c])
  BY CallTypes
<1>3. Only(c)
  BY <1>1, <1>2 DEF VipRead, Read, Reject, Goto, Only, CallType
<1>4. CASE wallet.exists /\ wallet.points >= Cost
  <2>1. /\ call'[c] = [call[c] EXCEPT !.op = "vip", !.pc = "entry", !.change = -Cost,
                  !.found = wallet.exists, !.seen = version,
                  !.ent = IF wallet.exists THEN wallet ELSE NewWallet,
                  !.after = wallet.points + (-Cost)]
        /\ UNCHANGED <<wallet, ledger, version, stale, fails>>
        /\ call[c].pc = "vipRead"
    BY <1>1, <1>4 DEF VipRead, Read
  <2>2. wallet.points + (-Cost) >= 0
    BY <1>1, <1>4, WalletAssumption DEF WalletRow
  <2>3. wallet["points"] = wallet.points
    BY <1>1 DEF WalletRow
  <2> QED BY <1>2, <1>3, <1>4, <2>1, <2>2, <2>3 DEF Reads, Changes, AfterRead, CallType
<1>5. CASE ~(wallet.exists /\ wallet.points >= Cost)
  <2>1. Leaves(c)
    BY <1>1, <1>2, <1>5 DEF VipRead, Reject, Goto, Leaves, Pending, CallType
  <2> QED BY <1>3, <2>1
<1> QED BY <1>4, <1>5

\* What action SaveEntry does, in these terms.
LEMMA SaveEntryStep ==
    ASSUME Shape, NEW c \in Call, SaveEntry(c)
    PROVE  Only(c) /\ Enters(c)
<1>1. call \in [Call -> CallType] /\ wallet \in WalletRow /\ fails \in Nat
  BY WalletAssumption DEF Shape, TypeOK
<1>2. call[c] \in CallType /\ InOrder(call[c])
  BY CallTypes
<1>3. Only(c)
  BY <1>1, <1>2 DEF SaveEntry, Goto, Only, CallType
<1>4. Enters(c)
  BY <1>1, <1>2, <1>3, WalletAssumption DEF SaveEntry, Goto, CallType, WalletRow, InOrder, Enters
<1> QED BY <1>3, <1>4

\* What action UpdatePoints does, in these terms.
LEMMA UpdatePointsStep ==
    ASSUME Shape, NEW c \in Call, UpdatePoints(c)
    PROVE  Only(c) /\ Writes(c)
<1>1. call \in [Call -> CallType] /\ wallet \in WalletRow /\ fails \in Nat
  BY WalletAssumption DEF Shape, TypeOK
<1>2. call[c] \in CallType /\ InOrder(call[c])
  BY CallTypes
<1>3. Only(c)
  BY <1>1, <1>2 DEF UpdatePoints, Goto, Only, CallType
<1>4. Writes(c)
  BY <1>1, <1>2, <1>3, WalletAssumption DEF UpdatePoints, Goto, CallType, WalletRow, InOrder, Writes
<1> QED BY <1>3, <1>4

\* What action WriteVip does, in these terms.
LEMMA WriteVipStep ==
    ASSUME Shape, NEW c \in Call, WriteVip(c)
    PROVE  Only(c) /\ Writes(c)
<1>1. call \in [Call -> CallType] /\ wallet \in WalletRow /\ fails \in Nat
  BY WalletAssumption DEF Shape, TypeOK
<1>2. call[c] \in CallType /\ InOrder(call[c])
  BY CallTypes
<1>3. Only(c)
  BY <1>1, <1>2 DEF WriteVip, Goto, Only, CallType
<1>4. Writes(c)
  BY <1>1, <1>2, <1>3, WalletAssumption DEF WriteVip, Goto, CallType, WalletRow, InOrder, Writes, Overwritten, Changed
<1> QED BY <1>3, <1>4

\* What action MigrateSum does, in these terms.
LEMMA MigrateSumStep ==
    ASSUME Shape, NEW c \in Call, MigrateSum(c)
    PROVE  Only(c) /\ Sums(c)
<1>1. call \in [Call -> CallType] /\ wallet \in WalletRow /\ fails \in Nat
  BY WalletAssumption DEF Shape, TypeOK
<1>2. call[c] \in CallType /\ InOrder(call[c])
  BY CallTypes
<1>3. Only(c)
  BY <1>1, <1>2 DEF MigrateSum, vars, Only, CallType
<1>4. Sums(c)
  BY <1>1, <1>2, <1>3, WalletAssumption DEF MigrateSum, vars, CallType, WalletRow, InOrder, Sums
<1> QED BY <1>3, <1>4

\* What action MigrateUpdate does, in these terms.
LEMMA MigrateUpdateStep ==
    ASSUME Shape, NEW c \in Call, MigrateUpdate(c)
    PROVE  Only(c) /\ Migrates(c)
<1>1. call \in [Call -> CallType] /\ wallet \in WalletRow /\ fails \in Nat
  BY WalletAssumption DEF Shape, TypeOK
<1>2. call[c] \in CallType /\ InOrder(call[c])
  BY CallTypes
<1>3. Only(c)
  BY <1>1, <1>2 DEF MigrateUpdate, Goto, Only, CallType
<1>4. Migrates(c)
  BY <1>1, <1>2, <1>3, WalletAssumption DEF MigrateUpdate, Goto, CallType, WalletRow, InOrder, Migrates
<1> QED BY <1>3, <1>4

\* What action Fail does, in these terms.
LEMMA FailStep ==
    ASSUME Shape, NEW c \in Call, Fail(c)
    PROVE  Only(c) /\ Leaves(c)
<1>1. call \in [Call -> CallType] /\ wallet \in WalletRow /\ fails \in Nat
  BY WalletAssumption DEF Shape, TypeOK
<1>2. call[c] \in CallType /\ InOrder(call[c])
  BY CallTypes
<1>3. Only(c)
  BY <1>1, <1>2 DEF Fail, Reject, Goto, Only, CallType
<1>4. Leaves(c)
  BY <1>1, <1>2, <1>3, WalletAssumption DEF Fail, Reject, Goto, CallType, WalletRow, InOrder, Leaves
<1> QED BY <1>3, <1>4

\* Every step is one of these of a single call.
LEMMA NextSteps ==
    ASSUME Shape, Next
    PROVE  UNCHANGED vars \/ \E c \in Call : Only(c) /\ Steps(c)
BY TopUpStep, ExchangeStep, SavePointsStep, VipVideoStep, MigrateFindStep, DiffStep,
   CommitStep, CreateWalletStep, VipReadStep, SaveEntryStep, UpdatePointsStep,
   WriteVipStep, MigrateSumStep, MigrateUpdateStep, FailStep DEF Next, Quiet, Steps

-----------------------------------------------------------------------------
(* Wallets that are missing, and the rows of the calls. *)

\* The wallet, there or not, has the columns of a row.
LEMMA WalletFields ==
    ASSUME Shape
    PROVE  wallet \in WalletRow
BY DEF Shape, TypeOK, WalletRow, NoWallet

\* Every step keeps that a call that found no wallet holds a new one.
LEMMA NextExistence ==
    ASSUME Shape, Existence, [Next]_vars
    PROVE  Existence'
<1>1. CASE UNCHANGED vars
  BY <1>1 DEF vars, Existence, Bound, AfterRead, InOrder, NewWallet
<1>2. SUFFICES ASSUME NEW c \in Call, Only(c), Steps(c) PROVE Existence'
  BY <1>1, NextSteps
<1>3. call[c] \in CallType /\ InOrder(call[c])
  BY CallTypes
<1>4. CASE Reads(c)
  BY <1>2, <1>3, <1>4 DEF Reads, Only, Existence, Bound, AfterRead, InOrder, NewWallet
<1>5. CASE Leaves(c)
  BY <1>2, <1>3, <1>5 DEF Leaves, Only, Existence, Bound, AfterRead, InOrder, NewWallet
<1>6. CASE Diffs(c)
  BY <1>2, <1>3, <1>6 DEF Diffs, Only, Existence, Bound, AfterRead, InOrder, NewWallet
<1>7. CASE Commits(c)
  BY <1>2, <1>3, <1>7, WalletFields DEF Commits, Only, Existence, Bound, AfterRead, InOrder, NewWallet
<1>8. CASE Creates(c)
  BY <1>2, <1>3, <1>8 DEF Creates, Only, Existence, Bound, AfterRead, InOrder, NewWallet
<1>9. CASE Enters(c)
  BY <1>2, <1>3, <1>9 DEF Enters, Only, Existence, Bound, AfterRead, InOrder, NewWallet
<1>10. CASE Writes(c)
  BY <1>2, <1>3, <1>10 DEF Writes, Only, Existence, Bound, AfterRead, InOrder, NewWallet
<1>11. CASE Sums(c)
  BY <1>2, <1>3, <1>11 DEF Sums, Only, Existence, Bound, AfterRead, InOrder, NewWallet
<1>12. CASE Migrates(c)
  BY <1>2, <1>3, <1>12 DEF Migrates, Only, Existence, Bound, AfterRead, InOrder, NewWallet
<1> QED BY <1>2, <1>4, <1>5, <1>6, <1>7, <1>8, <1>9, <1>10, <1>11, <1>12 DEF Steps

\* Every step keeps which ledger rows belong to which call.
LEMMA NextRowsOfCalls ==
    ASSUME Shape, RowsOfCalls, [Next]_vars
    PROVE  RowsOfCalls'
<1>1. CASE UNCHANGED vars
  BY <1>1 DEF vars, RowsOfCalls, Pending, Early, Entry, InOrder
<1>2. SUFFICES ASSUME NEW c \in Call, Only(c), Steps(c) PROVE RowsOfCalls'
  BY <1>1, NextSteps
<1>3. call[c] \in CallType /\ InOrder(call[c])
  BY CallTypes
<1>4. CASE Reads(c)
  BY ZenonT(60), <1>2, <1>3, <1>4 DEF Reads, Only, RowsOfCalls, Pending, Early, Entry, InOrder
<1>5. CASE Leaves(c)
  BY ZenonT(60), <1>2, <1>3, <1>5 DEF Leaves, Only, RowsOfCalls, Pending, Early, Entry, InOrder
<1>6. CASE Diffs(c)
  BY <1>2, <1>3, <1>6 DEF Diffs, Only, RowsOfCalls, Pending, Early, Entry, InOrder
<1>7. CASE Commits(c)
  BY <1>2, <1>3, <1>7, FS_AddElement DEF Commits, Only, RowsOfCalls, Pending, Early, Entry, InOrder
<1>8. CASE Creates(c)
  BY <1>2, <1>3, <1>8 DEF Creates, Only, RowsOfCalls, Pending, Early, Entry, InOrder
<1>9. CASE Enters(c)
  BY <1>2, <1>3, <1>9, FS_AddElement DEF Enters, Only, RowsOfCalls, Pending, Early, Entry, InOrder
<1>10. CASE Writes(c)
  BY <1>2, <1>3, <1>10 DEF Writes, Only, RowsOfCalls, Pending, Early, Entry, InOrder
<1>11. CASE Sums(c)
  BY ZenonT(60), <1>2, <1>3, <1>11 DEF Sums, Only, RowsOfCalls, Pending, Early, Entry, InOrder
<1>12. CASE Migrates(c)
  BY <1>2, <1>3, <1>12 DEF Migrates, Only, RowsOfCalls, Pending, Early, Entry, InOrder
<1> QED BY <1>2, <1>4, <1>5, <1>6, <1>7, <1>8, <1>9, <1>10, <1>11, <1>12 DEF Steps

-----------------------------------------------------------------------------
(* Where the figures come from. *)

\* Every step keeps that the figures can be accounted for.
LEMMA NextAccounted ==
    ASSUME Shape, Existence, RowsOfCalls, ColumnsAccounted, EntitiesAccounted, [Next]_vars
    PROVE  ColumnsAccounted' /\ EntitiesAccounted'
<1>1. CASE UNCHANGED vars
  BY <1>1 DEF vars, ColumnsAccounted, EntitiesAccounted, Balances, Points, BalanceRows,
              PointRows
<1>2. SUFFICES ASSUME NEW c \in Call, Only(c), Steps(c)
               PROVE  ColumnsAccounted' /\ EntitiesAccounted'
  BY <1>1, NextSteps
<1>3. call[c] \in CallType /\ InOrder(call[c])
  BY CallTypes
<1>4. ledger' = ledger \/ ledger' = ledger \cup {Entry(c)}
  BY <1>2 DEF Steps, Reads, Leaves, Diffs, Commits, Creates, Enters, Writes, Sums, Migrates
<1>5. Balances \subseteq Balances' /\ Points \subseteq Points'
  BY <1>2, <1>4 DEF Only, Balances, Points, BalanceRows, PointRows
<1>6. /\ ColumnsAccounted <=> wallet.balance \in Balances /\ wallet.points \in Points
      /\ ColumnsAccounted' <=> wallet'.balance \in Balances' /\ wallet'.points \in Points'
  BY DEF ColumnsAccounted, Balances, Points
<1>7. wallet.balance \in Balances' /\ wallet.points \in Points'
  BY <1>5, <1>6
<1>8. \A d \in Call : call[d].pc \in AfterRead =>
          call[d].ent.balance \in Balances' /\ call[d].ent.points \in Points'
  BY <1>5 DEF EntitiesAccounted
<1>9. ASSUME Pending(c) PROVE call[c].after \in Points'
  <2>1. Entry(c) \in PointRows
    BY <1>3, <1>9 DEF RowsOfCalls, PointRows, Pending, InOrder, Entry
  <2>2. Entry(c).after = call[c].after
    BY DEF Entry
  <2> QED BY <1>5, <2>1, <2>2 DEF Points
<1>10. ASSUME ~wallet.exists
       PROVE  0 \in Balances' /\ 0 \in Points'
  BY <1>5, <1>10 DEF Existence, Balances, Points, NoWallet
<1>11. CASE Reads(c)
  BY <1>2, <1>6, <1>7, <1>8, <1>10, <1>11 DEF Reads, Only, EntitiesAccounted, NewWallet
<1>12. CASE Leaves(c)
  BY <1>2, <1>6, <1>7, <1>8, <1>12 DEF Leaves, Only, EntitiesAccounted, AfterRead
<1>13. CASE Diffs(c)
  BY <1>2, <1>6, <1>7, <1>8, <1>13 DEF Diffs, Only, EntitiesAccounted, AfterRead
<1>14. CASE Commits(c)
  <2>1. Entry(c) \in BalanceRows' /\ Entry(c).after = call[c].after
    BY <1>3, <1>14 DEF Commits, InOrder, BalanceRows, Entry
  <2>2. call[c].after \in Balances'
    BY <2>1 DEF Balances
  <2> QED BY <1>2, <1>6, <1>7, <1>8, <1>14, <2>2 DEF Commits, Only, EntitiesAccounted, AfterRead
<1>15. CASE Creates(c)
  BY <1>2, <1>6, <1>8, <1>10, <1>15 DEF Creates, Only, EntitiesAccounted, AfterRead, NewWallet
<1>16. CASE Enters(c)
  BY <1>2, <1>6, <1>7, <1>8, <1>16 DEF Enters, Only, EntitiesAccounted, AfterRead
<1>17. CASE Writes(c)
  BY <1>2, <1>6, <1>7, <1>8, <1>9, <1>17
     DEF Writes, Only, EntitiesAccounted, AfterRead, Pending
<1>18. CASE Sums(c)
  BY <1>2, <1>6, <1>7, <1>8, <1>18 DEF Sums, Only, EntitiesAccounted, AfterRead
<1>19. CASE Migrates(c)
  BY <1>2, <1>6, <1>7, <1>8, <1>19 DEF Migrates, Only, EntitiesAccounted, AfterRead
<1> QED BY <1>2, <1>11, <1>12, <1>13, <1>14, <1>15, <1>16, <1>17, <1>18, <1>19 DEF Steps

-----------------------------------------------------------------------------
(* Overdrawn wallets. *)

\* Every step keeps the figures from falling below zero.
LEMMA NextNotOverdrawn ==
    ASSUME Shape, Existence, NeverOverdrawn, EntitiesNotOverdrawn, [Next]_vars
    PROVE  NeverOverdrawn' /\ EntitiesNotOverdrawn'
<1>1. CASE UNCHANGED vars
  BY <1>1 DEF vars, NeverOverdrawn, EntitiesNotOverdrawn
<1>2. SUFFICES ASSUME NEW c \in Call, Only(c), Steps(c), Amount \subseteq Nat
               PROVE  NeverOverdrawn' /\ EntitiesNotOverdrawn'
  BY <1>1, NextSteps DEF NeverOverdrawn, EntitiesNotOverdrawn
<1>3. call[c] \in CallType /\ call'[c] \in CallType /\ InOrder(call[c])
      /\ InOrder(call'[c]) /\ wallet \in WalletRow
  BY CallTypes, NextShape DEF Shape, TypeOK, Control
<1>4. /\ wallet.balance >= 0 /\ wallet.points >= 0
      /\ \A d \in Call : call[d].pc \in AfterRead =>
             call[d].ent.balance >= 0 /\ call[d].ent.points >= 0 /\ call[d].after >= 0
  BY <1>2 DEF NeverOverdrawn, EntitiesNotOverdrawn
<1>5. CASE Reads(c)
  <2> DEFINE new == call'[c]
  <2>1. new.pc \in AfterRead /\ new.op \in {"topUp", "exchange", "savePoints", "vip"}
    BY <1>3, <1>5, WalletAssumption DEF Reads, InOrder
  <2>2. wallet["balance"] = wallet.balance /\ wallet["points"] = wallet.points
    BY <1>3 DEF WalletRow
  <2>3. wallet[Changes(new.op)] \in Nat
    BY <1>3, <1>4, <2>2 DEF Changes, WalletRow
  <2>4. new.after >= 0
    <3>1. /\ new.after = wallet[Changes(new.op)] + new.change
          /\ new.op \in {"exchange", "vip"} => new.after >= 0
          /\ new.op \in {"topUp", "savePoints"} => new.change \in Nat
      BY <1>2, <1>5 DEF Reads
    <3> HIDE DEF new
    <3>2. \A m, n \in Nat : m + n >= 0
      OBVIOUS
    <3> QED BY <2>1, <2>3, <3>1, <3>2
  <2>5. new.ent.balance >= 0 /\ new.ent.points >= 0
    BY <1>4, <1>5 DEF Reads, NewWallet
  <2> HIDE DEF new
  <2>6. \A d \in Call : call'[d].pc \in AfterRead =>
            call'[d].ent.balance >= 0 /\ call'[d].ent.points >= 0 /\ call'[d].after >= 0
    BY <1>2, <1>4, <2>4, <2>5 DEF Only, new
  <2> QED BY <1>4, <1>5, <2>6 DEF Reads, NeverOverdrawn, EntitiesNotOverdrawn
<1>6. CASE Leaves(c)
  BY <1>2, <1>4, <1>6 DEF Leaves, Only, NeverOverdrawn, EntitiesNotOverdrawn, AfterRead
<1>7. CASE Diffs(c)
  BY <1>2, <1>4, <1>7 DEF Diffs, Only, NeverOverdrawn, EntitiesNotOverdrawn, AfterRead
<1>8. CASE Commits(c)
  BY <1>2, <1>4, <1>8 DEF Commits, Only, NeverOverdrawn, EntitiesNotOverdrawn, AfterRead
<1>9. CASE Creates(c)
  BY <1>2, <1>4, <1>9
     DEF Creates, Only, NeverOverdrawn, EntitiesNotOverdrawn, AfterRead, NewWallet
<1>10. CASE Enters(c)
  BY <1>2, <1>4, <1>10 DEF Enters, Only, NeverOverdrawn, EntitiesNotOverdrawn, AfterRead
<1>11. CASE Writes(c)
  BY <1>2, <1>4, <1>11 DEF Writes, Only, NeverOverdrawn, EntitiesNotOverdrawn, AfterRead
<1>12. CASE Sums(c)
  BY <1>2, <1>4, <1>12 DEF Sums, Only, NeverOverdrawn, EntitiesNotOverdrawn, AfterRead
<1>13. CASE Migrates(c)
  BY <1>2, <1>4, <1>13 DEF Migrates, Only, NeverOverdrawn, EntitiesNotOverdrawn, AfterRead
<1> QED BY <1>2, <1>5, <1>6, <1>7, <1>8, <1>9, <1>10, <1>11, <1>12, <1>13 DEF Steps

-----------------------------------------------------------------------------
(* What the entities still tell of the wallet. *)

\* A step that leaves the version of a column alone leaves the column alone.
Tells == \A k \in Column :
            /\ version[k] <= version'[k]
            /\ wallet.exists /\ version'[k] = version[k] => wallet'[k] = wallet[k]

\* Every step that changes a figure raises the version of its column.
LEMMA StepTells ==
    ASSUME Shape, NEW c \in Call, Only(c), Steps(c)
    PROVE  Tells
<1>1. version \in [Column -> Nat] /\ wallet \in WalletRow /\ call[c] \in CallType
  BY DEF Shape, TypeOK
<1>2. SUFFICES ASSUME NEW k \in {"balance", "points", "recharge"}
               PROVE  /\ version[k] <= version'[k]
                      /\ wallet.exists /\ version'[k] = version[k] => wallet'[k] = wallet[k]
  BY DEF Tells, Column
<1>3. version[k] \in Nat
  BY <1>1, <1>2 DEF Column
<1>4. CASE wallet' = wallet /\ version' = version
  BY <1>3, <1>4
<1>5. CASE Commits(c)
  BY <1>1, <1>2, <1>3, <1>5 DEF Commits, Written, Column, WalletRow
<1>6. CASE Writes(c)
  BY <1>1, <1>2, <1>3, <1>6 DEF Writes, Written, Column, WalletRow
<1>7. CASE Migrates(c)
  BY <1>1, <1>2, <1>3, <1>7 DEF Migrates, Written, Column, WalletRow
<1>8. CASE Creates(c)
  BY <1>3, <1>8 DEF Creates
<1> QED BY <1>2, <1>4, <1>5, <1>6, <1>7, <1>8 DEF Steps, Reads, Leaves, Diffs, Enters, Sums

\* Without a top-up, a migration finds the same sum.
LEMMA RechargedSame ==
    ASSUME Shape, NEW c \in Call, Only(c), Steps(c),
           version'["recharge"] = version["recharge"]
    PROVE  Recharged(ledger') = Recharged(ledger)
<1>1. version["recharge"] \in Nat
  BY DEF Shape, TypeOK, Column
<1>2. CASE ledger' = ledger
  BY <1>2
<1>3. CASE Commits(c) \/ Enters(c)
  <2>1. ledger' = ledger \cup {Entry(c)} /\ Entry(c).op = call[c].op
    BY <1>3 DEF Commits, Enters, Entry
  <2>2. call[c].op # "topUp"
    BY <1>1, <1>3, CallTypes DEF Commits, Enters, Written, Column, InOrder
  <2>3. {e \in ledger' : e.op = "topUp"} = {e \in ledger : e.op = "topUp"}
    BY <2>1, <2>2
  <2> QED BY <2>3 DEF Recharged
<1> QED BY <1>2, <1>3 DEF Steps, Reads, Leaves, Diffs, Creates, Writes, Sums, Migrates

\* A step of another call.
LEMMA OthersSnapshot ==
    ASSUME Shape, Shape', Existence, Existence', NEW c \in Call, Only(c), Steps(c),
           NEW d \in Call \ {c}, Snapshot(d)
    PROVE  Snapshot(d)'
<1>1. call'[d] = call[d] /\ call[d] \in CallType
  BY DEF Only, Shape, TypeOK
<1>2. Tells
  BY StepTells
<1>3. /\ version \in [Column -> Nat] /\ version' \in [Column -> Nat]
      /\ call[d].seen \in [Column -> Nat]
  BY <1>1 DEF Shape, TypeOK, CallType
<1> DEFINE me == call[d]
<1>4. ASSUME me.pc \in AfterRead \cup {"sum", "recharge"}
      PROVE  \A k \in Column : /\ me.seen[k] <= version'[k]
                               /\ me.seen[k] = version'[k] =>
                                    me.seen[k] = version[k] /\ version'[k] = version[k]
  BY <1>2, <1>3, <1>4 DEF Tells, Snapshot
<1>5. wallet.exists => wallet'.exists
  BY DEF Steps, Reads, Leaves, Diffs, Commits, Creates, Enters, Writes, Sums, Migrates,
         NewWallet, Existence, Bound, AfterRead
<1>6. ASSUME me.pc \in AfterRead, Bound(d)' \/ ~wallet'.exists,
             NEW k \in Column, me.seen[k] = version'[k]
      PROVE  me.ent[k] = wallet'[k]
  <2>1. me.seen[k] = version[k] /\ version'[k] = version[k]
    BY <1>4, <1>6
  <2>2. CASE Bound(d)'
    <3>1. Bound(d) /\ wallet.exists
      BY <1>1, <1>6, <2>2 DEF Bound, Existence
    <3> QED BY <1>2, <1>6, <2>1, <3>1 DEF Tells, Snapshot
  <2>3. CASE ~wallet'.exists
    <3>1. ~wallet.exists /\ wallet' = wallet
      BY <1>5, <2>3 DEF Existence
    <3> QED BY <1>6, <2>1, <3>1 DEF Snapshot
  <2> QED BY <1>6, <2>2, <2>3
<1>7. ASSUME me.pc \in {"commit", "write"}, me.found, me.seen = version'
      PROVE  \A k \in Column \ me.dirty : Changed(me)[k] = me.ent[k]
  <2>1. \A k \in Column : me.seen[k] = version[k]
    BY <1>4, <1>7 DEF AfterRead
  <2>2. me.seen = version
    BY <1>3, <2>1
  <2> QED BY <1>7, <2>2 DEF Snapshot
<1>8. ASSUME me.pc = "recharge", me.seen["recharge"] = version'["recharge"]
      PROVE  me.after = Recharged(ledger')
  <2>1. me.seen["recharge"] = version["recharge"]
        /\ version'["recharge"] = version["recharge"]
    BY <1>4, <1>8 DEF Column
  <2> QED BY <1>8, <2>1, RechargedSame DEF Snapshot
<1>9. me.pc \in AfterRead => me.after = me.ent[Changes(me.op)] + me.change
  BY DEF Snapshot
<1> QED BY <1>1, <1>4, <1>6, <1>7, <1>8, <1>9 DEF Snapshot

\* A step of the call itself.
LEMMA OwnSnapshot ==
    ASSUME Shape, Shape', Existence, Existence', NEW c \in Call, Only(c), Steps(c),
           Snapshot(c)
    PROVE  Snapshot(c)'
<1> DEFINE me == call[c]
           new == call'[c]
<1>1. /\ me \in CallType /\ new \in CallType /\ InOrder(me) /\ InOrder(new)
      /\ version \in [Column -> Nat] /\ wallet \in WalletRow
  BY DEF Shape, TypeOK, Control
<1>2. CASE Reads(c)
  <2>1. \A k \in Column : new.seen[k] <= version'[k] /\ new.ent[k] = wallet'[k]
    <3>1. wallet.exists => new.ent = wallet
      BY <1>2 DEF Reads
    <3>2. \A k \in Column : NewWallet[k] = NoWallet[k]
      BY DEF Column, NewWallet, NoWallet
    <3>3. ~wallet.exists => \A k \in Column : new.ent[k] = wallet[k]
      BY <1>2, <3>2 DEF Reads, Existence
    <3> QED BY <1>1, <1>2, <3>1, <3>3 DEF Reads
  <2>2. Changes(new.op) \in Column
    BY DEF Changes, Column
  <2>3. new.after = new.ent[Changes(new.op)] + new.change
    BY <1>2, <2>1, <2>2 DEF Reads
  <2>4. new.pc \notin {"write", "recharge"} /\ (new.pc = "commit" => ~new.found)
    BY <1>2 DEF Reads, AfterRead
  <2> QED BY <2>1, <2>3, <2>4 DEF Snapshot
<1>3. CASE Leaves(c)
  BY <1>1, <1>3 DEF Leaves, Snapshot, AfterRead
<1>4. CASE Diffs(c)
  <2>1. Changed(new) = Changed(me)
    BY <1>4 DEF Diffs, Changed
  <2>2. me.pc \in AfterRead /\ new.pc \in {"commit", "write"} /\ Bound(c)
    BY <1>1, <1>4 DEF Diffs, AfterRead, Bound, InOrder
  <2>3. ASSUME new.seen = version, NEW k \in Column \ new.dirty
        PROVE  Changed(new)[k] = new.ent[k]
    BY <1>4, <2>1, <2>2, <2>3 DEF Diffs, Snapshot
  <2> QED BY <1>4, <2>2, <2>3 DEF Diffs, Snapshot, Bound
<1>5. CASE Commits(c) \/ Writes(c) \/ Migrates(c)
  BY <1>5 DEF Commits, Writes, Migrates, Snapshot, AfterRead
<1>6. CASE Creates(c)
  <2>1. new.ent = wallet'
    BY <1>1, <1>6 DEF Creates, Existence, InOrder, AfterRead
  <2> QED BY <1>6, <2>1 DEF Creates, Snapshot, AfterRead
<1>7. CASE Enters(c)
  BY <1>1, <1>7 DEF Enters, Snapshot, AfterRead, Bound
<1>8. CASE Sums(c)
  BY <1>8 DEF Sums, Snapshot, AfterRead
<1> QED BY <1>2, <1>3, <1>4, <1>5, <1>6, <1>7, <1>8 DEF Steps

-----------------------------------------------------------------------------
(* Sums. *)

\* Every step keeps a recharge that is not migrated out of reach.
LEMMA NextNotMigrated ==
    ASSUME Shape, NotMigrated, [Next]_vars
    PROVE  NotMigrated'
<1>1. CASE UNCHANGED vars
  BY <1>1 DEF vars, NotMigrated
<1>2. SUFFICES ASSUME NEW c \in Call, Only(c), Steps(c), Amount \subseteq Nat,
                      start.recharge # -1
               PROVE  NotMigrated'
  BY <1>1, NextSteps DEF NotMigrated, Only
<1>3. /\ call[c] \in CallType /\ InOrder(call[c]) /\ InOrder(call'[c])
      /\ wallet \in WalletRow
  BY NextShape DEF Shape, TypeOK, Control
<1>4. /\ wallet.recharge >= 0
      /\ \A d \in Call : /\ call[d].pc \in AfterRead => call[d].ent.recharge >= 0
                         /\ call[d].pc \notin {"sum", "recharge"}
                         /\ call[d].pc \in AfterRead /\ call[d].op = "topUp" =>
                              call[d].change \in Amount
  BY <1>2 DEF NotMigrated
<1>5. CASE Reads(c)
  BY <1>2, <1>4, <1>5 DEF Reads, Only, NotMigrated, NewWallet, AfterRead
<1>6. CASE Leaves(c)
  BY <1>2, <1>3, <1>4, <1>6 DEF Leaves, Only, NotMigrated, WalletRow, AfterRead
<1>7. CASE Diffs(c) \/ Creates(c) \/ Enters(c)
  BY <1>2, <1>3, <1>4, <1>7
     DEF Diffs, Creates, Enters, Only, NotMigrated, NewWallet, AfterRead
<1>8. CASE Commits(c)
  <2>1. call[c].ent.recharge >= 0 /\ call[c].ent.recharge \in Int
    BY <1>3, <1>4, <1>8 DEF Commits, AfterRead, CallType, WalletRow
  <2>2. call[c].op = "topUp" => call[c].change \in Nat
    BY <1>2, <1>4, <1>8 DEF Commits, AfterRead
  <2>3. wallet'.recharge >= 0
    BY <1>4, <1>8, <2>1, <2>2 DEF Commits
  <2> QED BY <1>2, <1>4, <1>8, <2>3 DEF Commits, Only, NotMigrated, AfterRead
<1>9. CASE Writes(c)
  BY <1>2, <1>3, <1>4, <1>9 DEF Writes, Only, NotMigrated, AfterRead
<1>10. CASE Sums(c) \/ Migrates(c)
  BY <1>4, <1>10 DEF Sums, Migrates
<1> QED BY <1>2, <1>5, <1>6, <1>7, <1>8, <1>9, <1>10 DEF Steps

\* What a top-up or an exchange adds that no other write came between.
LEMMA FreshCommit ==
    ASSUME Shape, Existence, Snapshots, NEW c \in Call, Commits(c), ~stale'
    PROVE  /\ ~stale
           /\ wallet'.balance = wallet.balance + call[c].change
           /\ wallet'.points = wallet.points
           /\ call[c].ent.recharge = wallet.recharge
           /\ wallet'.recharge = wallet.recharge +
                  IF call[c].op = "topUp" THEN call[c].change ELSE 0
<1> DEFINE me == call[c]
<1>1. /\ me \in CallType /\ InOrder(me) /\ wallet \in WalletRow
      /\ version \in [Column -> Nat]
  BY CallTypes DEF Shape, TypeOK
<1>2. ~stale /\ \A k \in Column : me.seen[k] = version[k]
  BY DEF Commits, Written
<1>3. me.seen = version
  BY <1>1, <1>2 DEF CallType
<1>4. Bound(c) \/ ~wallet.exists
  BY DEF Commits, Bound
<1>5. \A k \in Column : me.ent[k] = wallet[k]
  BY <1>2, <1>4 DEF Commits, Snapshots, Snapshot, AfterRead
<1>6. /\ me.ent.balance = wallet.balance /\ me.ent.points = wallet.points
      /\ me.ent.recharge = wallet.recharge
  BY <1>1, <1>5 DEF Column, CallType, WalletRow
<1>7. me.op \in {"topUp", "exchange"}
  BY <1>1 DEF Commits, InOrder
<1>8. me.after = wallet.balance + me.change
  BY <1>6, <1>7 DEF Commits, Snapshots, Snapshot, AfterRead, Changes
<1>9. me.found /\ "balance" \notin me.dirty => me.after = wallet.balance
  <2>1. Changed(me).balance = me.after
    BY <1>1, <1>7 DEF Changed, CallType, WalletRow
  <2>2. me.found /\ "balance" \notin me.dirty => Changed(me).balance = me.ent.balance
    BY <1>3 DEF Commits, Snapshots, Snapshot, Column
  <2> QED BY <1>6, <2>1, <2>2
<1> HIDE DEF me
<1>10. wallet.recharge \in Int /\ wallet.recharge + 0 = wallet.recharge
  BY <1>1 DEF WalletRow
<1> QED BY <1>2, <1>6, <1>7, <1>8, <1>9, <1>10 DEF Commits, me

\* The same of the points.
LEMMA FreshWrite ==
    ASSUME Shape, Existence, Snapshots, NEW c \in Call, Writes(c), ~stale'
    PROVE  /\ ~stale
           /\ wallet'.balance = wallet.balance
           /\ wallet'.points = wallet.points + call[c].change
           /\ wallet'.recharge = wallet.recharge
<1> DEFINE me == call[c]
<1>1. /\ me \in CallType /\ InOrder(me) /\ wallet \in WalletRow
      /\ version \in [Column -> Nat]
  BY CallTypes DEF Shape, TypeOK
<1>2. ~stale /\ me.seen["points"] = version["points"]
      /\ (me.pc = "write" => \A k \in Column : me.seen[k] = version[k])
  BY DEF Writes, Written, Column
<1>3. Bound(c) /\ me.pc \in AfterRead /\ me.op \in {"savePoints", "vip"}
  BY <1>1 DEF Writes, Bound, InOrder, AfterRead
<1>4. me.ent["points"] = wallet["points"]
      /\ (me.pc = "write" => \A k \in Column : me.ent[k] = wallet[k])
  BY <1>2, <1>3 DEF Snapshots, Snapshot, Column
<1>5. /\ me.ent.points = wallet.points
      /\ me.pc = "write" =>
            me.ent.balance = wallet.balance /\ me.ent.recharge = wallet.recharge
  BY <1>1, <1>4 DEF Column, CallType, WalletRow
<1>6. me.after = wallet.points + me.change
  BY <1>3, <1>5 DEF Snapshots, Snapshot, Changes
<1>7. me.pc = "write" /\ "points" \notin me.dirty => me.after = wallet.points
  <2>1. Changed(me).points = me.after
    BY <1>1, <1>3 DEF Changed, CallType, WalletRow
  <2>2. me.pc = "write" => me.found /\ me.seen = version
    BY <1>1, <1>2 DEF InOrder, CallType
  <2>3. me.pc = "write" /\ "points" \notin me.dirty =>
            Changed(me).points = me.ent.points
    BY <2>2 DEF Snapshots, Snapshot, Column
  <2> QED BY <1>5, <2>1, <2>3
<1> HIDE DEF me
<1> QED BY <1>2, <1>5, <1>6, <1>7 DEF Writes, me

\* The rows a step adds to each sum.
TopUps == {e \in ledger : e.op = "topUp"}

\* The ledgers that are summed up are finite, and of integers.
LEMMA LedgersFinite ==
    ASSUME Shape, NEW S \in SUBSET ledger
    PROVE  IsFiniteSet(S) /\ \A e \in S : e.change \in Int
<1>1. IsFiniteSet(S)
  BY FS_Subset DEF Shape
<1>2. \A e \in S : e.change \in Int
  BY DEF Shape, TypeOK, EntryType
<1> QED BY <1>1, <1>2

\* A commit adds one row to the balance and, if it is a top-up, to the recharges.
LEMMA CommitRows ==
    ASSUME Shape, RowsOfCalls, NEW c \in Call, Only(c), Commits(c)
    PROVE  /\ Sum(BalanceRows') = Sum(BalanceRows) + call[c].change
           /\ Settled' = Settled
           /\ call[c].op = "topUp" => Sum(TopUps') = Sum(TopUps) + call[c].change
           /\ call[c].op # "topUp" => TopUps' = TopUps
<1> DEFINE new == Entry(c)
<1>1. /\ call[c] \in CallType /\ call[c].op \in {"topUp", "exchange"}
  BY CallTypes DEF Commits, InOrder
<1>2. /\ new.by = c /\ new.op = call[c].op /\ new.change = call[c].change
      /\ new.change \in Int
  BY <1>1 DEF Entry, CallType
<1>3. new \notin ledger
  BY <1>2 DEF Commits, RowsOfCalls, Early, Pending
<1> HIDE DEF new
<1>4. ledger' = ledger \cup {new}
  BY DEF Commits, new
<1>5. BalanceRows' = BalanceRows \cup {new} /\ PointRows' = PointRows
  BY <1>1, <1>2, <1>4 DEF BalanceRows, PointRows
<1>6. Sum(BalanceRows \cup {new}) = Sum(BalanceRows) + new.change
  <2>1. new \notin BalanceRows /\ BalanceRows \in SUBSET ledger
    BY <1>3 DEF BalanceRows
  <2> QED BY <1>2, <2>1, LedgersFinite, SumAdd
<1>7. Settled' = Settled
  <2>1. \A e \in PointRows : Pending(e.by)' <=> Pending(e.by)
    <3> SUFFICES ASSUME NEW e \in PointRows PROVE Pending(e.by)' <=> Pending(e.by)
      OBVIOUS
    <3>1. e.by \in Call
      BY DEF PointRows, Shape, TypeOK, EntryType
    <3> QED BY <3>1 DEF Commits, Only, Pending
  <2> QED BY <1>5, <2>1 DEF Settled
<1>8. call[c].op = "topUp" => Sum(TopUps') = Sum(TopUps) + call[c].change
  <2> SUFFICES ASSUME call[c].op = "topUp"
               PROVE  Sum(TopUps') = Sum(TopUps) + call[c].change
    OBVIOUS
  <2>1. TopUps' = TopUps \cup {new}
    BY <1>2, <1>4 DEF TopUps
  <2>2. new \notin TopUps /\ TopUps \in SUBSET ledger
    BY <1>3 DEF TopUps
  <2>3. Sum(TopUps \cup {new}) = Sum(TopUps) + new.change
    BY <1>2, <2>2, LedgersFinite, SumAdd
  <2> QED BY <1>2, <2>1, <2>3
<1>9. call[c].op # "topUp" => TopUps' = TopUps
  BY <1>2, <1>4 DEF TopUps
<1> QED BY <1>2, <1>5, <1>6, <1>7, <1>8, <1>9

\* When the points reach the wallet, the row of the call counts.
LEMMA WriteRows ==
    ASSUME Shape, RowsOfCalls, NEW c \in Call, Only(c), Writes(c)
    PROVE  /\ BalanceRows' = BalanceRows /\ TopUps' = TopUps
           /\ Sum(Settled') = Sum(Settled) + call[c].change
<1> DEFINE new == Entry(c)
<1>1. call[c] \in CallType /\ call[c].op \in {"savePoints", "vip"} /\ Pending(c)
  BY CallTypes DEF Writes, InOrder, Pending
<1>2. /\ new.by = c /\ new.op = call[c].op /\ new.change = call[c].change
      /\ new.change \in Int
  BY <1>1 DEF Entry, CallType
<1>3. new \in ledger /\ \A e \in ledger : e.by = c => e = new
  BY <1>1, <1>2 DEF RowsOfCalls
<1> HIDE DEF new
<1>4. ledger' = ledger /\ ~Pending(c)'
  BY DEF Writes, Pending
<1>5. Settled' = Settled \cup {new}
  <2>1. PointRows' = PointRows /\ new \in PointRows
    BY <1>1, <1>2, <1>3, <1>4 DEF PointRows
  <2>2. \A e \in PointRows : e # new => (Pending(e.by)' <=> Pending(e.by))
    <3> SUFFICES ASSUME NEW e \in PointRows, e # new
                 PROVE  Pending(e.by)' <=> Pending(e.by)
      OBVIOUS
    <3>1. e.by \in Call \ {c}
      BY <1>3 DEF PointRows, Shape, TypeOK, EntryType
    <3> QED BY <3>1 DEF Only, Pending
  <2>3. \A e \in PointRows : e = new => Pending(e.by) /\ ~Pending(e.by)'
    BY <1>1, <1>2, <1>4 DEF Pending
  <2> QED BY <2>1, <2>2, <2>3 DEF Settled
<1>6. new \notin Settled /\ Settled \in SUBSET ledger
  BY <1>1, <1>2 DEF Settled, PointRows
<1>7. Sum(Settled \cup {new}) = Sum(Settled) + new.change
  BY <1>2, <1>6, LedgersFinite, SumAdd
<1>8. BalanceRows' = BalanceRows /\ TopUps' = TopUps
  BY <1>4 DEF BalanceRows, TopUps
<1> QED BY <1>2, <1>5, <1>7, <1>8

\* The other steps, if they lose no row, add nothing to a sum.
LEMMA OtherRows ==
    ASSUME Shape, RowsOfCalls, NEW c \in Call, Only(c), Steps(c), fails' = 0,
           ~Commits(c), ~Writes(c)
    PROVE  Settled' = Settled
<1>1. call[c] \in CallType /\ InOrder(call[c]) /\ fails \in Nat
  BY CallTypes, WalletAssumption DEF Shape, TypeOK
<1>2. CASE ~Enters(c)
  <2>1. Pending(c)' <=> Pending(c)
    BY <1>1, <1>2 DEF Steps, Reads, Leaves, Diffs, Creates, Sums, Migrates, Pending, AfterRead
  <2>2. ledger' = ledger
    BY <1>2 DEF Steps, Reads, Leaves, Diffs, Creates, Sums, Migrates
  <2>3. \A e \in PointRows : Pending(e.by)' <=> Pending(e.by)
    <3> SUFFICES ASSUME NEW e \in PointRows PROVE Pending(e.by)' <=> Pending(e.by)
      OBVIOUS
    <3>1. e.by \in Call
      BY DEF PointRows, Shape, TypeOK, EntryType
    <3>2. CASE e.by = c
      BY <2>1, <3>2
    <3>3. CASE e.by # c
      BY <3>1, <3>3 DEF Only, Pending
    <3> QED BY <3>2, <3>3
  <2> QED BY <2>2, <2>3 DEF Settled, PointRows
<1>3. CASE Enters(c)
  <2>1. Pending(c)' /\ Entry(c).by = c /\ Early(c)
    BY <1>1, <1>3 DEF Enters, Pending, Early, Entry, InOrder
  <2>2. \A e \in ledger : e.by \in Call \ {c}
    BY <2>1 DEF RowsOfCalls, Shape, TypeOK, EntryType
  <2>3. \A e \in ledger : Pending(e.by)' <=> Pending(e.by)
    BY <2>2 DEF Only, Pending
  <2>4. ledger' = ledger \cup {Entry(c)}
    BY <1>3 DEF Enters
  <2> QED BY <2>1, <2>3, <2>4 DEF Settled, PointRows
<1> QED BY <1>2, <1>3

\* Every step keeps the sums of what is settled.
LEMMA NextAddUp ==
    ASSUME Shape, Existence, RowsOfCalls, Snapshots, NotMigrated, SettledAddUp, [Next]_vars
    PROVE  SettledAddUp'
<1>1. CASE UNCHANGED vars
  BY <1>1 DEF vars, SettledAddUp, BalanceRows, Settled, PointRows, Pending, Migrated
<1>2. SUFFICES ASSUME NEW c \in Call, Only(c), Steps(c), ~stale' PROVE SettledAddUp'
  BY <1>1, NextSteps DEF SettledAddUp
<1> DEFINE Counted(l) == \A e \in l : e.op = "topUp" => e.counted
<1>3. Shape' /\ (wallet \in WalletRow /\ wallet' \in WalletRow) /\ call[c] \in CallType
      /\ InOrder(call[c])
  BY CallTypes, NextShape DEF Shape, TypeOK
<1>4. Recharged(ledger) = Sum(TopUps) /\ Recharged(ledger') = Sum(TopUps')
  BY DEF Recharged, Sum, TopUps
<1>5. Migrated' = Migrated /\ start' = start
  BY <1>2 DEF Only, Migrated
<1>6. /\ wallet.balance \in Int /\ wallet.points \in Int /\ wallet.recharge \in Int
      /\ call[c].change \in Int /\ start.balance \in Int /\ start.points \in Int
      /\ Migrated \in Int
  BY <1>3 DEF WalletRow, CallType, Shape, TypeOK, Migrated
<1>7. /\ Sum(BalanceRows) \in Int /\ Sum(TopUps) \in Int /\ Sum(Settled) \in Int
  <2>1. /\ BalanceRows \in SUBSET ledger /\ TopUps \in SUBSET ledger
        /\ Settled \in SUBSET ledger
    BY DEF BalanceRows, TopUps, Settled, PointRows
  <2> QED BY <2>1, LedgersFinite, SumType
<1>8. fails \in Nat /\ (fails' = 0 => fails = 0)
  BY <1>2, WalletAssumption DEF Shape, TypeOK, Steps, Reads, Leaves, Diffs, Commits,
                                Creates, Enters, Writes, Sums, Migrates
<1>9. SettledAddUp' <=>
         /\ wallet'.balance = start.balance + Sum(BalanceRows')
         /\ fails' = 0 => wallet'.points = start.points + Sum(Settled')
         /\ Amount \subseteq Nat /\ wallet'.recharge # -1 /\ Counted(ledger')
              => wallet'.recharge = Migrated + Sum(TopUps')
  BY <1>2, <1>4, <1>5 DEF SettledAddUp
<1>10. ASSUME ~stale
       PROVE  /\ wallet.balance = start.balance + Sum(BalanceRows)
              /\ fails = 0 => wallet.points = start.points + Sum(Settled)
              /\ Amount \subseteq Nat /\ wallet.recharge # -1 /\ Counted(ledger)
                   => wallet.recharge = Migrated + Sum(TopUps)
  BY <1>4, <1>10 DEF SettledAddUp
<1>11. CASE Commits(c)
  <2>1. /\ ~stale /\ wallet'.balance = wallet.balance + call[c].change
        /\ wallet'.points = wallet.points /\ call[c].ent.recharge = wallet.recharge
        /\ wallet'.recharge = wallet.recharge +
               IF call[c].op = "topUp" THEN call[c].change ELSE 0
    BY <1>2, <1>11, FreshCommit
  <2>2. /\ Sum(BalanceRows') = Sum(BalanceRows) + call[c].change
        /\ Settled' = Settled
        /\ call[c].op = "topUp" => Sum(TopUps') = Sum(TopUps) + call[c].change
        /\ call[c].op # "topUp" => TopUps' = TopUps
    BY <1>2, <1>11, CommitRows
  <2>3. wallet'.balance = start.balance + Sum(BalanceRows')
    BY <1>6, <1>7, <1>10, <2>1, <2>2
  <2>4. fails' = 0 => wallet'.points = start.points + Sum(Settled')
    BY <1>8, <1>10, <2>1, <2>2
  <2>5. ASSUME Amount \subseteq Nat, wallet'.recharge # -1, Counted(ledger')
        PROVE  wallet'.recharge = Migrated + Sum(TopUps')
    <3>1. ledger' = ledger \cup {Entry(c)}
      BY <1>11 DEF Commits
    <3>2. Counted(ledger)
      BY <2>5, <3>1
    <3>3. CASE call[c].op = "topUp"
      <4>1. wallet.recharge # -1
        <5>1. Entry(c).op = "topUp" /\ Entry(c) \in ledger'
          BY <3>1, <3>3 DEF Entry
        <5>2. Entry(c).counted
          BY <2>5, <5>1
        <5>3. Entry(c).counted = (call[c].ent.recharge # -1)
          BY DEF Entry
        <5> QED BY <2>1, <5>2, <5>3
      <4>2. wallet.recharge = Migrated + Sum(TopUps)
        BY <1>10, <2>1, <2>5, <3>2, <4>1
      <4> QED BY <1>6, <1>7, <2>1, <2>2, <3>3, <4>2
    <3>4. CASE call[c].op # "topUp"
      <4>1. wallet'.recharge = wallet.recharge
        BY <1>6, <2>1, <3>4
      <4> QED BY <1>10, <2>1, <2>2, <2>5, <3>2, <3>4, <4>1
    <3> QED BY <3>3, <3>4
  <2> QED BY <1>9, <2>3, <2>4, <2>5
<1>12. CASE Writes(c)
  <2>1. /\ ~stale /\ wallet'.balance = wallet.balance
        /\ wallet'.points = wallet.points + call[c].change
        /\ wallet'.recharge = wallet.recharge
    BY <1>2, <1>12, FreshWrite
  <2>2. /\ BalanceRows' = BalanceRows /\ TopUps' = TopUps
        /\ Sum(Settled') = Sum(Settled) + call[c].change
    BY <1>2, <1>12, WriteRows
  <2>3. ledger' = ledger
    BY <1>12 DEF Writes
  <2>4. fails' = 0 => wallet'.points = start.points + Sum(Settled')
    BY <1>6, <1>7, <1>8, <1>10, <2>1, <2>2
  <2> QED BY <1>9, <1>10, <2>1, <2>2, <2>3, <2>4
<1>13. CASE Migrates(c)
  <2>1. ~stale /\ call[c].seen["recharge"] = version["recharge"]
    BY <1>2, <1>13 DEF Migrates, Written, Column
  <2>2. wallet'.recharge = Sum(TopUps)
    BY <1>4, <1>13, <2>1 DEF Migrates, Snapshots, Snapshot
  <2>3. Amount \subseteq Nat => Migrated = 0
    BY <1>13 DEF Migrates, NotMigrated, Migrated
  <2>4. /\ wallet'.balance = wallet.balance /\ wallet'.points = wallet.points
        /\ ledger' = ledger /\ ~Commits(c) /\ ~Writes(c)
    BY <1>13 DEF Migrates, Commits, Writes
  <2>5. BalanceRows' = BalanceRows /\ TopUps' = TopUps
    BY <2>4 DEF BalanceRows, TopUps
  <2>6. fails' = 0 => wallet'.points = start.points + Sum(Settled')
    BY <1>2, <1>8, <1>10, <2>1, <2>4, OtherRows
  <2>7. Amount \subseteq Nat => wallet'.recharge = Migrated + Sum(TopUps')
    BY <1>7, <2>2, <2>3, <2>5
  <2> QED BY <1>9, <1>10, <2>1, <2>4, <2>5, <2>6, <2>7
<1>14. CASE ~(Commits(c) \/ Writes(c) \/ Migrates(c))
  <2>1. ~stale
    BY <1>2, <1>14 DEF Steps, Reads, Leaves, Diffs, Creates, Enters, Sums
  <2>2. /\ wallet'.balance = wallet.balance /\ wallet'.points = wallet.points
        /\ wallet'.recharge = wallet.recharge
    BY <1>2, <1>14 DEF Steps, Reads, Leaves, Diffs, Creates, Enters, Sums, Existence,
                       NoWallet, NewWallet
  <2>3. BalanceRows' = BalanceRows /\ TopUps' = TopUps /\ (Counted(ledger') => Counted(ledger))
    <3>1. CASE ledger' = ledger
      BY <3>1 DEF BalanceRows, TopUps
    <3>2. CASE Enters(c)
      <4>1. ledger' = ledger \cup {Entry(c)} /\ Entry(c).op \in {"savePoints", "vip"}
        BY <1>3, <3>2 DEF Enters, Entry, InOrder
      <4> QED BY <4>1 DEF BalanceRows, TopUps
    <3> QED BY <1>2, <1>14, <3>1, <3>2 DEF Steps, Reads, Leaves, Diffs, Creates, Sums
  <2>4. fails' = 0 => wallet'.points = start.points + Sum(Settled')
    BY <1>2, <1>8, <1>10, <1>14, <2>1, <2>2, OtherRows
  <2> QED BY <1>9, <1>10, <2>1, <2>2, <2>3, <2>4
<1> QED BY <1>11, <1>12, <1>13, <1>14

-----------------------------------------------------------------------------
(* The invariant as a whole. *)

IInv == /\ Shape /\ Existence /\ RowsOfCalls
        /\ ColumnsAccounted /\ EntitiesAccounted
        /\ NeverOverdrawn /\ EntitiesNotOverdrawn
        /\ Snapshots /\ NotMigrated /\ SettledAddUp

\* The invariant holds at the start.
LEMMA InitIInv == Init => IInv
<1> SUFFICES ASSUME Init PROVE IInv
  OBVIOUS
<1>1. Shape
  BY InitShape
<1>2. \A c \in Call : call[c].pc = "idle"
  BY DEF Init, Idle
<1>3. /\ wallet \in WalletRow /\ start = wallet /\ wallet.balance \in Nat
      /\ wallet.points \in Nat /\ wallet.recharge \in Nat \cup {-1}
      /\ ~wallet.exists => wallet = NoWallet
  BY WalletAssumption DEF Init
<1>4. ledger = {} /\ fails = 0
  BY DEF Init
<1>5. Existence /\ EntitiesAccounted /\ EntitiesNotOverdrawn /\ Snapshots
  BY <1>2, <1>3 DEF Existence, EntitiesAccounted, EntitiesNotOverdrawn, Snapshots,
                    Snapshot, AfterRead
<1>6. RowsOfCalls
  BY <1>2, <1>4, FS_EmptySet DEF RowsOfCalls, Pending
<1>7. ColumnsAccounted /\ NeverOverdrawn
  BY <1>3 DEF ColumnsAccounted, NeverOverdrawn
<1>8. NotMigrated
  BY <1>2, <1>3 DEF NotMigrated, AfterRead
<1>9. SettledAddUp
  <2>1. BalanceRows = {} /\ Settled = {} /\ {e \in ledger : e.op = "topUp"} = {}
    BY <1>4 DEF BalanceRows, Settled, PointRows
  <2>2. Sum({}) = 0
    BY FS_EmptySet, SumRec
  <2>3. Recharged(ledger) = 0
    BY <2>1, <2>2, RechargedSum
  <2> QED BY <1>3, <2>1, <2>2, <2>3 DEF SettledAddUp, Migrated
<1> QED BY <1>1, <1>5, <1>6, <1>7, <1>8, <1>9 DEF IInv

\* Every step keeps that an entity agrees with the columns nobody wrote since.
LEMMA NextSnapshots ==
    ASSUME Shape, Existence, Snapshots, [Next]_vars
    PROVE  Snapshots'
<1>1. CASE UNCHANGED vars
  BY <1>1 DEF vars, Snapshots, Snapshot, Bound
<1>2. SUFFICES ASSUME NEW c \in Call, Only(c), Steps(c), NEW d \in Call
               PROVE  Snapshot(d)'
  BY <1>1, NextSteps DEF Snapshots
<1>3. Shape' /\ Existence'
  BY NextShape, NextExistence
<1>4. CASE d = c
  BY <1>2, <1>3, <1>4, OwnSnapshot DEF Snapshots
<1>5. CASE d # c
  BY <1>2, <1>3, <1>5, OthersSnapshot DEF Snapshots
<1> QED BY <1>4, <1>5

\* Every step keeps the invariant.
LEMMA NextIInv == IInv /\ [Next]_vars => IInv'
<1> SUFFICES ASSUME IInv, [Next]_vars PROVE IInv'
  OBVIOUS
<1>1. Shape' /\ Existence' /\ RowsOfCalls' /\ Snapshots'
  BY NextShape, NextExistence, NextRowsOfCalls, NextSnapshots DEF IInv
<1>2. ColumnsAccounted' /\ EntitiesAccounted' /\ NeverOverdrawn' /\ EntitiesNotOverdrawn'
  BY NextAccounted, NextNotOverdrawn DEF IInv
<1>3. NotMigrated' /\ SettledAddUp'
  BY NextNotMigrated, NextAddUp DEF IInv
<1> QED BY <1>1, <1>2, <1>3 DEF IInv

\* The invariant holds throughout every behaviour.
LEMMA SpecIInv == Spec => []IInv
BY InitIInv, NextIInv, PTL DEF Spec

-----------------------------------------------------------------------------
\* Rows, columns and calls are well formed; in particular the sum that a
\* migration stores is one.
THEOREM TypeCorrect == Spec => []TypeOK
<1>1. IInv => TypeOK
  BY DEF IInv, Shape
<1> QED BY <1>1, SpecIInv, PTL

\* Whatever calls overlap and wherever they break off, the balance and the
\* points are figures of a row of their ledger, or those of the start.
THEOREM FiguresAreAccounted == Spec => []ColumnsAccounted
<1>1. IInv => ColumnsAccounted
  BY DEF IInv
<1> QED BY <1>1, SpecIInv, PTL

\* No number of overlapping exchanges takes balance or points below zero.
THEOREM WalletNeverOverdrawn == Spec => []NeverOverdrawn
<1>1. IInv => NeverOverdrawn
  BY DEF IInv
<1> QED BY <1>1, SpecIInv, PTL

\* Any number of calls accounts exactly as long as none writes over another.
THEOREM OverlapsAddUp == Spec => []LedgersAddUp
<1>1. IInv => LedgersAddUp
  <2> SUFFICES ASSUME IInv, ~stale PROVE LedgersAddUp
    BY DEF LedgersAddUp
  <2>1. ASSUME \A c \in Call : call[c].pc \notin {"points", "diff", "write"}
        PROVE  Settled = PointRows
    <3>1. \A e \in PointRows : e.by \in Call
      BY DEF IInv, Shape, TypeOK, EntryType, PointRows
    <3> QED BY <2>1, <3>1 DEF Settled, Pending
  <2> QED BY <2>1 DEF IInv, SettledAddUp, LedgersAddUp, Migrated
<1> QED BY <1>1, SpecIInv, PTL
=============================================================================
