------------------------ MODULE OperationTokenProofs ------------------------
(***************************************************************************)
(* Proofs for module OperationToken, for every value of its constants:     *)
(* type correctness, the conservation of the two counters of a token under *)
(* arbitrary races of save(), that no token is used after its expiry and   *)
(* no OneTime token again after its use was answered; and in a deployment  *)
(* that never calls consumeToken, the finality of a deprecation, the       *)
(* revocation of other tokens by a lone log-in, and that overlapping       *)
(* log-ins leave a token.                                                  *)
(***************************************************************************)
EXTENDS OperationTokenProps, TLAPS

-----------------------------------------------------------------------------
(* The operators of the table. *)

\* A fresh row is well formed.
LEMMA NewRowType ==
    ASSUME NEW s \in Scope, NEW o \in Offer, NEW t \in Nat
    PROVE  NewRow(s, o, t) \in Row
<1>1. InitialLeft(o) \in Nat \cup {Null}
  BY OfferAssumption DEF InitialLeft, Type
<1>2. ExpiryOf(o, t) \in Nat \cup {Null}
  BY OfferAssumption DEF ExpiryOf
<1> QED BY <1>1, <1>2 DEF NewRow, Row

\* The row of a token that was never granted.
LEMMA BlankRowType == BlankRow \in Row
BY TokenAssumption, NewRowType DEF BlankRow

\* What checkAvailable and consumeToken make of an entity is well formed.
LEMMA EntityType ==
    ASSUME NEW e \in Row
    PROVE  Retired(e) \in Row /\ Spent(e) \in Row
<1>1. Retired(e) \in Row
  <2>1. (e.expired \/ (~Flagged(e) /\ TimedOut(e))) \in BOOLEAN
    BY DEF Row
  <2>2. ASSUME NEW b \in BOOLEAN
        PROVE  [e EXCEPT !.deprecated = TRUE, !.expired = b] \in Row
    BY DEF Row
  <2> QED BY <2>1, <2>2 DEF Retired
<1>2. Spent(e) \in Row
  <2>1. ASSUME NEW n \in Nat \cup {Null}, NEW k \in Nat
        PROVE  [e EXCEPT !.left = n, !.used = k] \in Row
    BY DEF Row
  <2>2. e.left \in Nat \cup {Null} /\ e.used \in Nat
    BY DEF Row
  <2> DEFINE n == IF e.left \in Nat \ {0} THEN e.left - 1 ELSE e.left
  <2>3. n \in Nat \cup {Null} /\ e.used + 1 \in Nat
    BY <2>2
  <2> QED BY <2>1, <2>3 DEF Spent
<1> QED BY <1>1, <1>2

\* A row written over with columns of an entity stays well formed.
LEMMA OverwrittenType ==
    ASSUME NEW row \in Row, NEW e \in Row, NEW cs, now \in Nat
    PROVE  Overwritten(row, e, cs) \in Row
BY ZenonT(60) DEF Overwritten, Row

-----------------------------------------------------------------------------
(* Type correctness. *)

\* The first state is well formed.
LEMMA InitTypeOK == Init => TypeOK
<1> SUFFICES ASSUME Init PROVE TypeOK
  OBVIOUS
<1>1. rows \in [Token -> Row]
  BY NewRowType DEF Init
<1>2. Idle(CHOOSE t \in Token : TRUE) \in ReqType
  <2>1. (CHOOSE t \in Token : TRUE) \in Token
    BY TokenAssumption
  <2>2. BlankRow.scope \in Scope /\ BlankRow.offer \in Offer
    BY BlankRowType DEF Row
  <2> QED BY <2>1, <2>2, BlankRowType DEF Idle, ReqType, Pc, Outcome
<1> QED BY <1>1, <1>2, TokenAssumption DEF Init, TypeOK, Idle

\* A request that begins with well-formed local variables keeps the types.
LEMMA BeginTypeOK ==
    ASSUME TypeOK, NEW r \in Request, NEW mine \in ReqType, NEW others,
           Begin(r, mine, others),
           mine.pc = "load" => mine.tok \in created,
           mine.pc \in {"find", "deprecate", "load"}
    PROVE  TypeOK'
<1>1. req' \in [Request -> ReqType]
  BY ZenonT(60) DEF TypeOK, Begin, ReqType
<1>2. \A q \in Request : req'[q].pc \in {"load", "check", "diff", "write", "recheck"}
                            => req'[q].tok \in created
  BY DEF TypeOK, Begin, ReqType
<1> QED BY <1>1, <1>2 DEF TypeOK, Begin

\* A step that changes the local variables of one request to well-formed ones
\* and keeps the table well formed keeps the types.
LEMMA MoveTypeOK ==
    ASSUME TypeOK, NEW r \in Request, NEW new \in ReqType,
           req' = [req EXCEPT ![r] = new],
           new.pc \in {"load", "check", "diff", "write", "recheck"}
               => new.tok \in created,
           created' \subseteq Token, created \subseteq created',
           rows' \in [Token -> Row], UNCHANGED now
    PROVE  TypeOK'
<1>1. req' \in [Request -> ReqType]
  BY DEF TypeOK
<1>2. \A q \in Request : req'[q].pc \in {"load", "check", "diff", "write", "recheck"}
                            => req'[q].tok \in created'
  BY DEF TypeOK
<1> QED BY <1>1, <1>2 DEF TypeOK

\* The same of a step that leaves the table and the clock alone.
LEMMA LocalTypeOK ==
    ASSUME TypeOK, NEW r \in Request, NEW new \in ReqType,
           req' = [req EXCEPT ![r] = new],
           new.pc \in {"load", "check", "diff", "write", "recheck"}
               => new.tok \in created,
           UNCHANGED <<created, rows, now>>
    PROVE  TypeOK'
<1>1. created \subseteq Token /\ rows \in [Token -> Row]
  BY DEF TypeOK
<1> QED BY <1>1, MoveTypeOK

\* Every step keeps the types.
LEMMA NextTypeOK == TypeOK /\ [Next]_vars => TypeOK'
<1> SUFFICES ASSUME TypeOK, [Next]_vars PROVE TypeOK'
  OBVIOUS
<1>1. CASE UNCHANGED vars
  BY <1>1 DEF vars, TypeOK
<1>2. ASSUME NEW r \in Request PROVE req[r] \in ReqType
  BY DEF TypeOK
<1>3. ASSUME NEW r \in Request, BeginObtain(r) PROVE TypeOK'
  <2>1. PICK s \in Scope, o \in Offer :
            Begin(r, [req[r] EXCEPT !.op = "obtain", !.pc = "find",
                             !.scope = s, !.offer = o], Busy(s))
    BY <1>3 DEF BeginObtain
  <2> DEFINE mine == [req[r] EXCEPT !.op = "obtain", !.pc = "find",
                             !.scope = s, !.offer = o]
  <2>2. mine.op \in Flow
    BY <2>1 DEF Begin
  <2>3. mine \in ReqType
    BY ZenonT(60), <1>2, <2>2 DEF ReqType, Pc, TypeOK
  <2>4. mine.pc = "find"
    BY <1>2 DEF ReqType
  <2> QED BY <2>1, <2>3, <2>4, BeginTypeOK
<1>4. ASSUME NEW r \in Request, BeginLogin(r) PROVE TypeOK'
  <2>1. PICK s \in Scope, o \in Offer :
            Begin(r, [req[r] EXCEPT !.op = "login", !.pc = "deprecate",
                             !.scope = s, !.offer = o], Busy(s))
    BY <1>4 DEF BeginLogin
  <2> DEFINE mine == [req[r] EXCEPT !.op = "login", !.pc = "deprecate",
                             !.scope = s, !.offer = o]
  <2>2. mine.op \in Flow
    BY <2>1 DEF Begin
  <2>3. mine \in ReqType
    BY ZenonT(60), <1>2, <2>2 DEF ReqType, Pc, TypeOK
  <2>4. mine.pc = "deprecate"
    BY <1>2 DEF ReqType
  <2> QED BY <2>1, <2>3, <2>4, BeginTypeOK
<1>5. ASSUME NEW r \in Request, BeginRefresh(r) PROVE TypeOK'
  <2>1. PICK s \in Scope, o \in Offer, t \in created :
            Begin(r, [req[r] EXCEPT !.op = "refresh", !.pc = "load",
                             !.scope = s, !.offer = o, !.tok = t], Busy(s))
    BY <1>5 DEF BeginRefresh
  <2> DEFINE mine == [req[r] EXCEPT !.op = "refresh", !.pc = "load",
                             !.scope = s, !.offer = o, !.tok = t]
  <2>2. mine.op \in Flow
    BY <2>1 DEF Begin
  <2>3. mine \in ReqType
    BY ZenonT(60), <1>2, <2>2 DEF ReqType, Pc, TypeOK
  <2>4. mine.pc = "load" /\ mine.tok \in created
    BY <1>2 DEF ReqType
  <2> QED BY <2>1, <2>3, <2>4, BeginTypeOK
<1>6. ASSUME NEW r \in Request, BeginConsume(r) PROVE TypeOK'
  <2>1. PICK t \in created :
            Begin(r, [req[r] EXCEPT !.op = "consume", !.pc = "load", !.tok = t], {})
    BY <1>6 DEF BeginConsume
  <2> DEFINE mine == [req[r] EXCEPT !.op = "consume", !.pc = "load", !.tok = t]
  <2>2. mine.op \in Flow
    BY <2>1 DEF Begin
  <2>3. mine \in ReqType
    BY ZenonT(60), <1>2, <2>2 DEF ReqType, Pc, TypeOK
  <2>4. mine.pc = "load" /\ mine.tok \in created
    BY <1>2 DEF ReqType
  <2> QED BY <2>1, <2>3, <2>4, BeginTypeOK
<1>7. ASSUME NEW r \in Request, Deprecate(r) PROVE TypeOK'
  <2>1. rows' \in [Token -> Row]
    BY ZenonT(60), <1>7 DEF Deprecate, TypeOK, Row
  <2>2. [req[r] EXCEPT !.pc = "find"] \in ReqType
    BY <1>2 DEF ReqType, Pc
  <2> DEFINE new == [req[r] EXCEPT !.pc = "find"]
  <2>3. new.pc = "find"
    BY <1>2 DEF ReqType
  <2>4. req' = [req EXCEPT ![r] = new] /\ UNCHANGED <<created, now>>
    BY <1>7 DEF Deprecate
  <2>5. created' \subseteq Token /\ created \subseteq created'
    BY <2>4 DEF TypeOK
  <2> QED BY <2>1, <2>2, <2>3, <2>4, <2>5, MoveTypeOK
<1>8. ASSUME NEW r \in Request, FindExisting(r) PROVE TypeOK'
  <2>1. PICK t \in Newest(Usable(req[r].scope)) :
            req' = [req EXCEPT ![r] = [Finish(r, "obtained") EXCEPT !.tok = t]]
    BY <1>8 DEF FindExisting
  <2>2. t \in Token
    BY DEF Newest, Usable, TypeOK
  <2>3. [Finish(r, "obtained") EXCEPT !.tok = t] \in ReqType
    BY ZenonT(60), <1>2, <2>2 DEF Finish, ReqType, Pc, Outcome
  <2>4. [Finish(r, "obtained") EXCEPT !.tok = t].pc = "done"
    BY <1>2 DEF Finish, ReqType
  <2>5. UNCHANGED <<created, rows, now>>
    BY <1>8 DEF FindExisting
  <2> QED BY <2>1, <2>3, <2>4, <2>5, LocalTypeOK
<1>9. ASSUME NEW r \in Request, FindNone(r) PROVE TypeOK'
  <2>1. [req[r] EXCEPT !.pc = "create"] \in ReqType
    BY <1>2 DEF ReqType, Pc
  <2>2. [req[r] EXCEPT !.pc = "create"].pc = "create"
    BY <1>2 DEF ReqType
  <2>3. req' = [req EXCEPT ![r] = [req[r] EXCEPT !.pc = "create"]]
        /\ UNCHANGED <<created, rows, now>>
    BY <1>9 DEF FindNone
  <2> QED BY <2>1, <2>2, <2>3, LocalTypeOK
<1>10. ASSUME NEW r \in Request, Create(r) PROVE TypeOK'
  <2>1. PICK t \in Token \ created :
          /\ created' = created \cup {t}
          /\ rows' = [rows EXCEPT ![t] = NewRow(req[r].scope, req[r].offer, now)]
          /\ req' = [req EXCEPT ![r] = [Finish(r, "obtained") EXCEPT !.tok = t]]
    BY <1>10 DEF Create
  <2>2. NewRow(req[r].scope, req[r].offer, now) \in Row
    BY <1>2, NewRowType DEF ReqType, TypeOK
  <2>3. rows' \in [Token -> Row]
    BY <2>1, <2>2 DEF TypeOK
  <2>4. [Finish(r, "obtained") EXCEPT !.tok = t] \in ReqType
    BY ZenonT(60), <1>2 DEF Finish, ReqType, Pc, Outcome
  <2>5. [Finish(r, "obtained") EXCEPT !.tok = t].pc = "done"
    BY <1>2 DEF Finish, ReqType
  <2>6. UNCHANGED now
    BY <1>10 DEF Create
  <2>7. created' \subseteq Token /\ created \subseteq created'
    BY <2>1 DEF TypeOK
  <2> QED BY <2>1, <2>3, <2>4, <2>5, <2>6, <2>7, MoveTypeOK
<1>11. ASSUME NEW r \in Request, Load(r) PROVE TypeOK'
  <2>1. req[r].tok \in created
    BY <1>11 DEF Load, TypeOK
  <2>2. ASSUME NEW b \in BOOLEAN
        PROVE  [req[r] EXCEPT !.pc = "check", !.ent = rows[req[r].tok],
                              !.spentAtLoad = b] \in ReqType
    BY ZenonT(60), <1>2, <2>1 DEF ReqType, Pc, TypeOK
  <2> DEFINE spent == \E q \in Request : /\ req[q].outcome = "granted"
                                         /\ req[q].tok = req[r].tok
             new == [req[r] EXCEPT !.pc = "check", !.ent = rows[req[r].tok],
                                   !.spentAtLoad = spent]
  <2>3. new \in ReqType
    BY <2>2
  <2>4. new.tok \in created
    BY <1>2, <2>1 DEF ReqType
  <2>5. req' = [req EXCEPT ![r] = new]
    BY <1>11 DEF Load
  <2>6. UNCHANGED <<created, rows, now>>
    BY <1>11 DEF Load
  <2> HIDE DEF new
  <2> QED BY <2>3, <2>4, <2>5, <2>6, LocalTypeOK
<1>12. ASSUME NEW r \in Request, CheckRefuses(r) PROVE TypeOK'
  <2>1. Retired(req[r].ent) \in Row
    BY <1>2, EntityType DEF ReqType
  <2> DEFINE new == [req[r] EXCEPT !.pc = "diff", !.then = "refused",
                                   !.ent = Retired(req[r].ent)]
  <2>2. new \in ReqType
    BY ZenonT(60), <1>2, <2>1 DEF ReqType, Pc
  <2>3. new.tok \in created
    BY <1>2, <1>12 DEF CheckRefuses, ReqType, TypeOK
  <2>4. req' = [req EXCEPT ![r] = new]
    BY <1>12 DEF CheckRefuses
  <2>5. UNCHANGED <<created, rows, now>>
    BY <1>12 DEF CheckRefuses
  <2> HIDE DEF new
  <2> QED BY <2>2, <2>3, <2>4, <2>5, LocalTypeOK
<1>13. ASSUME NEW r \in Request, CheckPasses(r) PROVE TypeOK'
  <2>1. Spent(req[r].ent) \in Row
    BY <1>2, EntityType DEF ReqType
  <2> DEFINE new == IF req[r].op = "consume"
                    THEN [req[r] EXCEPT !.pc = "diff", !.then = "recheck",
                                        !.ent = Spent(req[r].ent)]
                    ELSE [req[r] EXCEPT !.pc = "deprecate"]
  <2>2. new \in ReqType
    BY ZenonT(60), <1>2, <2>1 DEF ReqType, Pc
  <2>3. new.tok \in created
    BY <1>2, <1>13 DEF CheckPasses, ReqType, TypeOK
  <2>4. req' = [req EXCEPT ![r] = new]
    BY <1>13 DEF CheckPasses
  <2>5. UNCHANGED <<created, rows, now>>
    BY <1>13 DEF CheckPasses
  <2> HIDE DEF new
  <2> QED BY <2>2, <2>3, <2>4, <2>5, LocalTypeOK
<1>14. ASSUME NEW r \in Request, Recheck(r) PROVE TypeOK'
  <2>1. Retired(req[r].ent) \in Row
    BY <1>2, EntityType DEF ReqType
  <2> DEFINE new == IF Available(req[r].ent)
                    THEN Finish(r, "granted")
                    ELSE [req[r] EXCEPT !.pc = "diff", !.then = "granted",
                                        !.ent = Retired(req[r].ent)]
  <2>2. new \in ReqType
    BY ZenonT(60), <1>2, <2>1 DEF ReqType, Pc, Finish, Outcome
  <2>3. new.tok \in created
    BY <1>2, <1>14 DEF Recheck, ReqType, TypeOK, Finish
  <2>4. req' = [req EXCEPT ![r] = new]
    BY <1>14 DEF Recheck
  <2>5. UNCHANGED <<created, rows, now>>
    BY <1>14 DEF Recheck
  <2> HIDE DEF new
  <2> QED BY <2>2, <2>3, <2>4, <2>5, LocalTypeOK
<1>15. ASSUME NEW r \in Request, SaveDiff(r) PROVE TypeOK'
  <2>1. ASSUME NEW cs \in SUBSET Column
        PROVE  [req[r] EXCEPT !.pc = "write", !.dirty = cs] \in ReqType
    BY ZenonT(60), <1>2 DEF ReqType, Pc
  <2> DEFINE changed == {c \in Column : req[r].ent[c] # rows[req[r].tok][c]}
             new == [req[r] EXCEPT !.pc = "write", !.dirty = changed]
  <2>2. changed \in SUBSET Column
    OBVIOUS
  <2>3. new \in ReqType
    BY <2>1, <2>2
  <2>4. new.tok \in created
    BY <1>2, <1>15 DEF SaveDiff, ReqType, TypeOK
  <2>5. req' = [req EXCEPT ![r] = new]
    BY <1>15 DEF SaveDiff
  <2>6. UNCHANGED <<created, rows, now>>
    BY <1>15 DEF SaveDiff
  <2> HIDE DEF new
  <2> QED BY <2>3, <2>4, <2>5, <2>6, LocalTypeOK
<1>16. ASSUME NEW r \in Request, SaveWrite(r) PROVE TypeOK'
  <2>1. req[r].ent \in Row /\ req[r].tok \in created
    BY <1>2, <1>16 DEF SaveWrite, ReqType, TypeOK
  <2>2. Overwritten(rows[req[r].tok], req[r].ent, req[r].dirty) \in Row
    BY <2>1, OverwrittenType DEF TypeOK
  <2>3. rows' \in [Token -> Row]
    BY <1>16, <2>1, <2>2 DEF SaveWrite, TypeOK
  <2> DEFINE new == IF req[r].then = "recheck"
                    THEN [req[r] EXCEPT !.pc = "recheck"]
                    ELSE Finish(r, req[r].then)
  <2>4. new \in ReqType
    BY ZenonT(60), <1>2 DEF ReqType, Pc, Finish, Outcome
  <2>5. new.tok \in created
    BY <1>2, <2>1 DEF ReqType, Finish
  <2>6. req' = [req EXCEPT ![r] = new]
    BY <1>16 DEF SaveWrite
  <2>7. UNCHANGED <<created, now>>
    BY <1>16 DEF SaveWrite
  <2>8. created' \subseteq Token /\ created \subseteq created'
    BY <2>7 DEF TypeOK
  <2> HIDE DEF new
  <2> QED BY <2>3, <2>4, <2>5, <2>6, <2>7, <2>8, MoveTypeOK
<1>17. CASE Tick
  BY <1>17 DEF Tick, TypeOK
<1>18. CASE Quiet
  BY <1>18 DEF Quiet, vars, TypeOK
<1> QED
  BY <1>1, <1>3, <1>4, <1>5, <1>6, <1>7, <1>8, <1>9, <1>10, <1>11, <1>12,
     <1>13, <1>14, <1>15, <1>16, <1>17, <1>18 DEF Next, Step

\* The rows and the local variables of the requests always have the shape
\* the operations of token/helper.ts rely on.
THEOREM TypeCorrect == Spec => []TypeOK
BY InitTypeOK, NextTypeOK, PTL DEF Spec

-----------------------------------------------------------------------------
(* The counters of a token. *)

\* A request in possession of an entity of its token.
Holding == {"check", "diff", "write", "recheck"}

\* The local variables q of a request agree with its token's offer in table, and
\* an UPDATE it is about to send holds either both counters or neither.
Sound(q, table) ==
    /\ q.pc \in Holding => /\ Accounted(q.ent)
                           /\ q.ent.offer = table[q.tok].offer
    /\ q.pc = "write" /\ InitialLeft(q.ent.offer) \in Nat =>
          ("left" \in q.dirty <=> "used" \in q.dirty)

\* The inductive invariant: the entities in memory account for their uses as
\* the rows do.  CountsConserved alone is not inductive, since a SaveWrite
\* copies columns of an entity into a row.
CountsInv == TypeOK /\ CountsConserved /\ \A r \in Request : Sound(req[r], rows)

\* A fresh row accounts for its uses: none.
LEMMA NewRowAccounted ==
    ASSUME NEW s \in Scope, NEW o \in Offer, NEW t \in Nat
    PROVE  Accounted(NewRow(s, o, t)) /\ NewRow(s, o, t).offer = o
BY DEF Accounted, NewRow

\* Marking an entity does not touch its counters; counting a use of an
\* available entity keeps their sum.
LEMMA EntityAccounted ==
    ASSUME NEW e \in Row, Accounted(e)
    PROVE  /\ Accounted(Retired(e)) /\ Retired(e).offer = e.offer
           /\ Available(e) => Accounted(Spent(e))
           /\ Spent(e).offer = e.offer
<1>1. Retired(e).left = e.left /\ Retired(e).used = e.used /\ Retired(e).offer = e.offer
  BY DEF Retired, Row
<1>2. Spent(e).offer = e.offer
  BY DEF Spent, Row
<1>3. ASSUME Available(e), InitialLeft(e.offer) \in Nat
      PROVE  Spent(e).left \in Nat /\ Spent(e).left + Spent(e).used = InitialLeft(e.offer)
  <2>1. e.left \in Nat \ {0} /\ e.used \in Nat /\ e.left + e.used = InitialLeft(e.offer)
    BY <1>3 DEF Accounted, Available, Exhausted, Row
  <2>2. Spent(e).left = e.left - 1 /\ Spent(e).used = e.used + 1
    BY <2>1 DEF Spent, Row
  <2> QED BY <2>1, <2>2
<1> QED BY <1>1, <1>2, <1>3 DEF Accounted

\* When both the row and the entity account for their uses of one offer, they
\* differ in one counter exactly if they differ in the other.
LEMMA DiffersTogether ==
    ASSUME NEW e \in Row, NEW row \in Row, Accounted(e), Accounted(row),
           e.offer = row.offer, InitialLeft(e.offer) \in Nat
    PROVE  e.left # row.left <=> e.used # row.used
BY DEF Accounted, Row

\* Writing both counters or neither keeps a row accounted for.
LEMMA OverwrittenAccounted ==
    ASSUME NEW e \in Row, NEW row \in Row, NEW cs, Accounted(e), Accounted(row),
           e.offer = row.offer,
           InitialLeft(e.offer) \in Nat => ("left" \in cs <=> "used" \in cs)
    PROVE  Accounted(Overwritten(row, e, cs)) /\ Overwritten(row, e, cs).offer = row.offer
<1>1. /\ Overwritten(row, e, cs).offer = row.offer
      /\ Overwritten(row, e, cs).left = IF "left" \in cs THEN e.left ELSE row.left
      /\ Overwritten(row, e, cs).used = IF "used" \in cs THEN e.used ELSE row.used
  BY DEF Overwritten, Row
<1> QED BY <1>1 DEF Accounted

\* Nothing is granted at the start.
LEMMA InitCountsInv == Init => CountsInv
<1> SUFFICES ASSUME Init PROVE CountsInv
  OBVIOUS
<1>1. TypeOK
  BY InitTypeOK
<1>2. CountsConserved
  <2> SUFFICES ASSUME NEW t \in created PROVE Accounted(rows[t])
    BY DEF CountsConserved
  <2>1. PICK s \in Scope, o \in Offer : rows[t] = NewRow(s, o, 0)
    BY TokenAssumption DEF Init
  <2> QED BY <2>1, NewRowAccounted
<1>3. \A r \in Request : req[r].pc = "idle"
  BY DEF Init, Idle
<1> QED BY <1>1, <1>2, <1>3 DEF CountsInv, Sound, Holding

\* A request that begins holds no entity yet.
LEMMA BeginCountsInv ==
    ASSUME CountsInv, TypeOK', NEW r \in Request, NEW mine, NEW others,
           Begin(r, mine, others), mine \in ReqType,
           mine.pc \in {"find", "deprecate", "load"}
    PROVE  CountsInv'
<1>1. ASSUME NEW q \in Request PROVE Sound(req'[q], rows')
  <2>1. CASE q = r
    <3>1. req'[r].pc = mine.pc
      BY DEF Begin, ReqType
    <3> QED BY <2>1, <3>1 DEF Sound, Holding
  <2>2. CASE q # r
    <3>1. /\ req'[q].pc = req[q].pc /\ req'[q].ent = req[q].ent
          /\ req'[q].tok = req[q].tok /\ req'[q].dirty = req[q].dirty
      BY <2>2 DEF Begin, CountsInv, TypeOK, ReqType
    <3>2. Sound(req[q], rows) /\ rows' = rows
      BY DEF CountsInv, Begin
    <3> QED BY <3>1, <3>2 DEF Sound, Accounted
  <2> QED BY <2>1, <2>2
<1>2. CountsConserved'
  BY DEF Begin, CountsInv, CountsConserved, Accounted
<1> QED BY <1>1, <1>2 DEF CountsInv

\* A step that leaves the local variables of one request sound, every row
\* accounted for and the offers of the rows alone keeps the invariant.
LEMMA MoveCountsInv ==
    ASSUME CountsInv, TypeOK', CountsConserved', NEW r \in Request, NEW new,
           req' = [req EXCEPT ![r] = new], Sound(new, rows'),
           \A t \in created : rows'[t].offer = rows[t].offer
    PROVE  CountsInv'
<1> SUFFICES ASSUME NEW q \in Request PROVE Sound(req'[q], rows')
  BY DEF CountsInv
<1>1. CASE q = r
  BY <1>1 DEF CountsInv, TypeOK
<1>2. CASE q # r
  <2>1. req'[q] = req[q] /\ Sound(req[q], rows)
    BY <1>2 DEF CountsInv, TypeOK
  <2>2. req[q].pc \in Holding => req[q].tok \in created
    BY DEF CountsInv, TypeOK, Holding
  <2> QED BY <2>1, <2>2 DEF Sound, Accounted
<1> QED BY <1>1, <1>2

\* Every step keeps the counts.
LEMMA NextCountsInv == CountsInv /\ [Next]_vars => CountsInv'
<1> SUFFICES ASSUME CountsInv, [Next]_vars PROVE CountsInv'
  OBVIOUS
<1>1. TypeOK /\ TypeOK'
  BY NextTypeOK DEF CountsInv
<1>2. ASSUME UNCHANGED <<created, rows, req>> PROVE CountsInv'
  BY <1>1, <1>2 DEF CountsInv, CountsConserved, Sound, Accounted
<1>3. ASSUME UNCHANGED <<created, rows>>
      PROVE  CountsConserved' /\ \A t \in created : rows'[t].offer = rows[t].offer
  BY <1>3 DEF CountsInv, CountsConserved, Accounted
<1>4. ASSUME NEW r \in Request
      PROVE  req[r] \in ReqType /\ Sound(req[r], rows)
  BY <1>1 DEF CountsInv, TypeOK
<1>5. ASSUME NEW r \in Request, BeginObtain(r) PROVE CountsInv'
  <2>1. PICK s \in Scope, o \in Offer :
            Begin(r, [req[r] EXCEPT !.op = "obtain", !.pc = "find",
                             !.scope = s, !.offer = o], Busy(s))
    BY <1>5 DEF BeginObtain
  <2> DEFINE mine == [req[r] EXCEPT !.op = "obtain", !.pc = "find",
                             !.scope = s, !.offer = o]
  <2>2. mine \in ReqType /\ mine.pc = "find"
    BY ZenonT(60), <1>4, <2>1 DEF Begin, ReqType, Pc
  <2> QED BY <1>1, <2>1, <2>2, BeginCountsInv
<1>6. ASSUME NEW r \in Request, BeginLogin(r) PROVE CountsInv'
  <2>1. PICK s \in Scope, o \in Offer :
            Begin(r, [req[r] EXCEPT !.op = "login", !.pc = "deprecate",
                             !.scope = s, !.offer = o], Busy(s))
    BY <1>6 DEF BeginLogin
  <2> DEFINE mine == [req[r] EXCEPT !.op = "login", !.pc = "deprecate",
                             !.scope = s, !.offer = o]
  <2>2. mine \in ReqType /\ mine.pc = "deprecate"
    BY ZenonT(60), <1>4, <2>1 DEF Begin, ReqType, Pc
  <2> QED BY <1>1, <2>1, <2>2, BeginCountsInv
<1>7. ASSUME NEW r \in Request, BeginRefresh(r) PROVE CountsInv'
  <2>1. PICK s \in Scope, o \in Offer, t \in created :
            Begin(r, [req[r] EXCEPT !.op = "refresh", !.pc = "load",
                             !.scope = s, !.offer = o, !.tok = t], Busy(s))
    BY <1>7 DEF BeginRefresh
  <2> DEFINE mine == [req[r] EXCEPT !.op = "refresh", !.pc = "load",
                             !.scope = s, !.offer = o, !.tok = t]
  <2>2. mine.op \in Flow /\ t \in Token
    BY <1>1, <2>1 DEF Begin, TypeOK
  <2>3. mine \in ReqType /\ mine.pc = "load"
    BY ZenonT(60), <1>4, <2>2 DEF ReqType, Pc
  <2> QED BY <1>1, <2>1, <2>3, BeginCountsInv
<1>8. ASSUME NEW r \in Request, BeginConsume(r) PROVE CountsInv'
  <2>1. PICK t \in created :
            Begin(r, [req[r] EXCEPT !.op = "consume", !.pc = "load", !.tok = t], {})
    BY <1>8 DEF BeginConsume
  <2> DEFINE mine == [req[r] EXCEPT !.op = "consume", !.pc = "load", !.tok = t]
  <2>2. mine.op \in Flow /\ t \in Token
    BY <1>1, <2>1 DEF Begin, TypeOK
  <2>3. mine \in ReqType /\ mine.pc = "load"
    BY ZenonT(60), <1>4, <2>2 DEF ReqType, Pc
  <2> QED BY <1>1, <2>1, <2>3, BeginCountsInv
<1>9. ASSUME NEW r \in Request, Deprecate(r) PROVE CountsInv'
  <2>1. ASSUME NEW t \in created
        PROVE  /\ rows'[t].offer = rows[t].offer
               /\ rows'[t].left = rows[t].left /\ rows'[t].used = rows[t].used
    <3>1. t \in Token /\ rows[t] \in Row
      BY <1>1 DEF TypeOK
    <3>2. rows'[t] = rows[t] \/ rows'[t] = [rows[t] EXCEPT !.deprecated = TRUE,
                                                        !.updatedAt = now]
      BY <1>9, <3>1 DEF Deprecate
    <3> QED BY <3>1, <3>2 DEF Row
  <2>2. CountsConserved'
    BY <1>9, <2>1 DEF Deprecate, CountsInv, CountsConserved, Accounted
  <2>3. Sound([req[r] EXCEPT !.pc = "find"], rows')
    BY <1>4 DEF Sound, Holding, ReqType
  <2> QED BY <1>1, <1>9, <2>1, <2>2, <2>3, MoveCountsInv DEF Deprecate
<1>10. ASSUME NEW r \in Request, FindExisting(r) PROVE CountsInv'
  <2>1. PICK t \in Newest(Usable(req[r].scope)) :
            req' = [req EXCEPT ![r] = [Finish(r, "obtained") EXCEPT !.tok = t]]
    BY <1>10 DEF FindExisting
  <2>2. Sound([Finish(r, "obtained") EXCEPT !.tok = t], rows')
    BY <1>4 DEF Sound, Holding, Finish, ReqType
  <2> QED BY <1>1, <1>3, <1>10, <2>1, <2>2, MoveCountsInv DEF FindExisting
<1>11. ASSUME NEW r \in Request, FindNone(r) PROVE CountsInv'
  <2>1. Sound([req[r] EXCEPT !.pc = "create"], rows')
    BY <1>4 DEF Sound, Holding, ReqType
  <2> QED BY <1>1, <1>3, <1>11, <2>1, MoveCountsInv DEF FindNone
<1>12. ASSUME NEW r \in Request, Create(r) PROVE CountsInv'
  <2>1. PICK t \in Token \ created :
          /\ created' = created \cup {t}
          /\ rows' = [rows EXCEPT ![t] = NewRow(req[r].scope, req[r].offer, now)]
          /\ req' = [req EXCEPT ![r] = [Finish(r, "obtained") EXCEPT !.tok = t]]
    BY <1>12 DEF Create
  <2>2. Accounted(NewRow(req[r].scope, req[r].offer, now))
    BY <1>1, <1>4, NewRowAccounted DEF ReqType, TypeOK
  <2>3. rows'[t] = NewRow(req[r].scope, req[r].offer, now)
    BY <1>1, <2>1 DEF TypeOK
  <2>4. \A u \in created : rows'[u] = rows[u]
    BY <1>1, <2>1 DEF TypeOK
  <2>5. CountsConserved'
    <3> SUFFICES ASSUME NEW u \in created' PROVE Accounted(rows'[u])
      BY DEF CountsConserved, Accounted
    <3>1. CASE u = t
      BY <2>2, <2>3, <3>1
    <3>2. CASE u \in created
      BY <2>4, <3>2 DEF CountsInv, CountsConserved
    <3> QED BY <2>1, <3>1, <3>2
  <2>6. Sound([Finish(r, "obtained") EXCEPT !.tok = t], rows')
    BY <1>4 DEF Sound, Holding, Finish, ReqType
  <2> QED BY <1>1, <2>1, <2>4, <2>5, <2>6, MoveCountsInv
<1>13. ASSUME NEW r \in Request, Load(r) PROVE CountsInv'
  <2> DEFINE spent == \E q \in Request : /\ req[q].outcome = "granted"
                                         /\ req[q].tok = req[r].tok
             new == [req[r] EXCEPT !.pc = "check", !.ent = rows[req[r].tok],
                                   !.spentAtLoad = spent]
  <2>1. req' = [req EXCEPT ![r] = new]
    BY <1>13 DEF Load
  <2>2. Accounted(rows[req[r].tok])
    BY <1>1, <1>13 DEF Load, CountsInv, CountsConserved, TypeOK
  <2>3. new.pc = "check" /\ new.ent = rows[req[r].tok] /\ new.tok = req[r].tok
    BY <1>4 DEF ReqType
  <2>4. UNCHANGED <<created, rows>>
    BY <1>13 DEF Load
  <2> HIDE DEF new
  <2>5. Sound(new, rows')
    BY <2>1, <2>2, <2>3, <2>4 DEF Sound, Holding, Accounted
  <2> QED BY <1>1, <1>3, <2>1, <2>4, <2>5, MoveCountsInv
<1>14. ASSUME NEW r \in Request, CheckRefuses(r) PROVE CountsInv'
  <2> DEFINE new == [req[r] EXCEPT !.pc = "diff", !.then = "refused",
                                   !.ent = Retired(req[r].ent)]
  <2>1. req' = [req EXCEPT ![r] = new] /\ UNCHANGED <<created, rows>>
    BY <1>14 DEF CheckRefuses
  <2>2. new.pc = "diff" /\ new.tok = req[r].tok /\ new.ent = Retired(req[r].ent)
    BY <1>4 DEF ReqType
  <2>3. /\ req[r].ent \in Row /\ Accounted(req[r].ent)
        /\ req[r].ent.offer = rows[req[r].tok].offer
    BY <1>4, <1>14 DEF CheckRefuses, Sound, Holding, ReqType
  <2> HIDE DEF new
  <2>4. Sound(new, rows')
    BY <2>1, <2>2, <2>3, EntityAccounted DEF Sound, Holding, Accounted
  <2> QED BY <1>1, <1>3, <2>1, <2>4, MoveCountsInv
<1>15. ASSUME NEW r \in Request, CheckPasses(r) PROVE CountsInv'
  <2> DEFINE new == IF req[r].op = "consume"
                    THEN [req[r] EXCEPT !.pc = "diff", !.then = "recheck",
                                        !.ent = Spent(req[r].ent)]
                    ELSE [req[r] EXCEPT !.pc = "deprecate"]
  <2>1. req' = [req EXCEPT ![r] = new] /\ UNCHANGED <<created, rows>>
    BY <1>15 DEF CheckPasses
  <2>2. \/ new.pc = "diff" /\ new.tok = req[r].tok /\ new.ent = Spent(req[r].ent)
        \/ new.pc = "deprecate"
    BY <1>4 DEF ReqType
  <2>3. /\ req[r].ent \in Row /\ Accounted(req[r].ent) /\ Available(req[r].ent)
        /\ req[r].ent.offer = rows[req[r].tok].offer
    BY <1>4, <1>15 DEF CheckPasses, Sound, Holding, ReqType
  <2> HIDE DEF new
  <2>4. Sound(new, rows')
    BY <2>1, <2>2, <2>3, EntityAccounted DEF Sound, Holding, Accounted
  <2> QED BY <1>1, <1>3, <2>1, <2>4, MoveCountsInv
<1>16. ASSUME NEW r \in Request, Recheck(r) PROVE CountsInv'
  <2> DEFINE new == IF Available(req[r].ent)
                    THEN Finish(r, "granted")
                    ELSE [req[r] EXCEPT !.pc = "diff", !.then = "granted",
                                        !.ent = Retired(req[r].ent)]
  <2>1. req' = [req EXCEPT ![r] = new] /\ UNCHANGED <<created, rows>>
    BY <1>16 DEF Recheck
  <2>2. \/ new.pc = "diff" /\ new.tok = req[r].tok /\ new.ent = Retired(req[r].ent)
        \/ new.pc = "done"
    BY <1>4 DEF ReqType, Finish
  <2>3. /\ req[r].ent \in Row /\ Accounted(req[r].ent)
        /\ req[r].ent.offer = rows[req[r].tok].offer
    BY <1>4, <1>16 DEF Recheck, Sound, Holding, ReqType
  <2> HIDE DEF new
  <2>4. Sound(new, rows')
    BY <2>1, <2>2, <2>3, EntityAccounted DEF Sound, Holding, Accounted
  <2> QED BY <1>1, <1>3, <2>1, <2>4, MoveCountsInv
<1>17. ASSUME NEW r \in Request, SaveDiff(r) PROVE CountsInv'
  <2> DEFINE changed == {c \in Column : req[r].ent[c] # rows[req[r].tok][c]}
             new == [req[r] EXCEPT !.pc = "write", !.dirty = changed]
  <2>1. req' = [req EXCEPT ![r] = new] /\ UNCHANGED <<created, rows>>
    BY <1>17 DEF SaveDiff
  <2>2. /\ new.pc = "write" /\ new.tok = req[r].tok /\ new.ent = req[r].ent
        /\ new.dirty = changed
    BY <1>4 DEF ReqType
  <2>3. /\ req[r].ent \in Row /\ Accounted(req[r].ent)
        /\ req[r].ent.offer = rows[req[r].tok].offer
        /\ rows[req[r].tok] \in Row /\ Accounted(rows[req[r].tok])
    BY <1>1, <1>4, <1>17
       DEF SaveDiff, Sound, Holding, ReqType, TypeOK, CountsInv, CountsConserved
  <2>4. /\ "left" \in changed <=> req[r].ent.left # rows[req[r].tok].left
        /\ "used" \in changed <=> req[r].ent.used # rows[req[r].tok].used
    BY DEF Column
  <2>5. InitialLeft(req[r].ent.offer) \in Nat => ("left" \in changed <=> "used" \in changed)
    BY <2>3, <2>4, DiffersTogether
  <2> HIDE DEF new, changed
  <2>6. Sound(new, rows')
    BY <2>1, <2>2, <2>3, <2>5 DEF Sound, Holding, Accounted
  <2> QED BY <1>1, <1>3, <2>1, <2>6, MoveCountsInv
<1>18. ASSUME NEW r \in Request, SaveWrite(r) PROVE CountsInv'
  <2> DEFINE t == req[r].tok
             row == Overwritten(rows[t], req[r].ent, req[r].dirty)
             new == IF req[r].then = "recheck"
                    THEN [req[r] EXCEPT !.pc = "recheck"]
                    ELSE Finish(r, req[r].then)
  <2>1. /\ req' = [req EXCEPT ![r] = new]
        /\ rows' = [rows EXCEPT ![t] = row]
        /\ UNCHANGED created
    BY <1>18 DEF SaveWrite
  <2>2. /\ t \in created /\ t \in Token /\ rows[t] \in Row /\ Accounted(rows[t])
        /\ req[r].ent \in Row /\ Accounted(req[r].ent)
        /\ req[r].ent.offer = rows[t].offer
        /\ InitialLeft(req[r].ent.offer) \in Nat =>
              ("left" \in req[r].dirty <=> "used" \in req[r].dirty)
    BY <1>1, <1>4, <1>18
       DEF SaveWrite, Sound, Holding, ReqType, TypeOK, CountsInv, CountsConserved
  <2>3. Accounted(row) /\ row.offer = rows[t].offer
    BY <2>2, OverwrittenAccounted
  <2>4. \/ new.pc = "recheck" /\ new.tok = t /\ new.ent = req[r].ent
        \/ new.pc = "done"
    BY <1>4 DEF ReqType, Finish
  <2> HIDE DEF row, new, t
  <2>5. rows'[t] = row /\ \A u \in created \ {t} : rows'[u] = rows[u]
    BY <1>1, <2>1, <2>2 DEF TypeOK
  <2>6. CountsConserved'
    <3> SUFFICES ASSUME NEW u \in created PROVE Accounted(rows'[u])
      BY <2>1 DEF CountsConserved, Accounted
    <3> QED BY <2>3, <2>5 DEF CountsInv, CountsConserved
  <2>7. \A u \in created : rows'[u].offer = rows[u].offer
    BY <2>3, <2>5
  <2>8. Sound(new, rows')
    BY <2>1, <2>2, <2>3, <2>4, <2>5 DEF Sound, Holding, Accounted
  <2> QED BY <1>1, <2>1, <2>6, <2>7, <2>8, MoveCountsInv
<1> QED
  BY <1>2, <1>5, <1>6, <1>7, <1>8, <1>9, <1>10, <1>11, <1>12, <1>13, <1>14,
     <1>15, <1>16, <1>17, <1>18 DEF Next, Step, Tick, Quiet, vars

\* Whatever requests race, what is left of a counted token and how often it
\* was used always add up to what it was issued with.
THEOREM CountsAreConserved == Spec => []CountsConserved
<1>1. CountsInv => CountsConserved
  BY DEF CountsInv
<1> QED BY <1>1, InitCountsInv, NextCountsInv, PTL DEF Spec

-----------------------------------------------------------------------------
(* Deprecation without consumeToken. *)

\* Where nobody consumes tokens, an entity is saved only by checkAvailable
\* answering false, and then it is marked deprecated.
OnlyRetiring(q) ==
    /\ q.op # "consume"
    /\ q.pc # "recheck"
    /\ q.pc \in {"diff", "write"} => q.ent.deprecated /\ q.then = "refused"

RetiringInv == TypeOK /\ \A r \in Request : OnlyRetiring(req[r])

\* Nobody is retiring tokens at the start.
LEMMA InitRetiringInv == Init => RetiringInv
BY InitTypeOK DEF Init, RetiringInv, OnlyRetiring, Idle

\* Without consumeToken every step keeps what a deprecation relies on.
LEMMA NextRetiringInv ==
    ASSUME "consume" \notin Flow
    PROVE  RetiringInv /\ [Next]_vars => RetiringInv'
<1> SUFFICES ASSUME RetiringInv, [Next]_vars PROVE RetiringInv'
  OBVIOUS
<1>1. TypeOK /\ TypeOK'
  BY NextTypeOK DEF RetiringInv
<1> SUFFICES ASSUME NEW q \in Request PROVE OnlyRetiring(req'[q])
  BY <1>1 DEF RetiringInv
<1>2. /\ OnlyRetiring(req[q]) /\ req[q] \in ReqType
      /\ req \in [Request -> ReqType]
  BY <1>1 DEF RetiringInv, TypeOK
<1>3. ASSUME NEW r \in Request, NEW mine \in ReqType, NEW others,
             Begin(r, mine, others), mine.pc \in {"find", "deprecate", "load"}
      PROVE  OnlyRetiring(req'[q])
  <2>1. CASE q = r
    <3>1. req'[q].pc = mine.pc /\ req'[q].op = mine.op
      BY <1>3, <2>1 DEF Begin, ReqType
    <3>2. mine.op \in Flow
      BY <1>3 DEF Begin
    <3> QED BY <1>3, <3>1, <3>2 DEF OnlyRetiring
  <2>2. CASE q # r
    <3>1. /\ req'[q].pc = req[q].pc /\ req'[q].op = req[q].op
          /\ req'[q].ent = req[q].ent /\ req'[q].then = req[q].then
      BY <1>2, <1>3, <2>2 DEF Begin, ReqType
    <3> QED BY <1>2, <3>1 DEF OnlyRetiring
  <2> QED BY <2>1, <2>2
<1>4. ASSUME NEW r \in Request, \/ BeginObtain(r) \/ BeginLogin(r)
                                \/ BeginRefresh(r) \/ BeginConsume(r)
      PROVE  OnlyRetiring(req'[q])
  <2>0. req[r] \in ReqType /\ created \subseteq Token
    BY <1>1 DEF TypeOK
  <2>1. CASE BeginObtain(r)
    <3>1. PICK s \in Scope, o \in Offer :
              Begin(r, [req[r] EXCEPT !.op = "obtain", !.pc = "find",
                               !.scope = s, !.offer = o], Busy(s))
      BY <2>1 DEF BeginObtain
    <3> DEFINE mine == [req[r] EXCEPT !.op = "obtain", !.pc = "find",
                               !.scope = s, !.offer = o]
    <3>2. mine.op \in Flow
      BY <3>1 DEF Begin
    <3>3. mine \in ReqType /\ mine.pc = "find"
      BY <2>0, <3>2 DEF ReqType, Pc
    <3> QED BY <1>3, <3>1, <3>3
  <2>2. CASE BeginLogin(r)
    <3>1. PICK s \in Scope, o \in Offer :
              Begin(r, [req[r] EXCEPT !.op = "login", !.pc = "deprecate",
                               !.scope = s, !.offer = o], Busy(s))
      BY <2>2 DEF BeginLogin
    <3> DEFINE mine == [req[r] EXCEPT !.op = "login", !.pc = "deprecate",
                               !.scope = s, !.offer = o]
    <3>2. mine.op \in Flow
      BY <3>1 DEF Begin
    <3>3. mine \in ReqType /\ mine.pc = "deprecate"
      BY <2>0, <3>2 DEF ReqType, Pc
    <3> QED BY <1>3, <3>1, <3>3
  <2>3. CASE BeginRefresh(r)
    <3>1. PICK s \in Scope, o \in Offer, t \in created :
              Begin(r, [req[r] EXCEPT !.op = "refresh", !.pc = "load",
                               !.scope = s, !.offer = o, !.tok = t], Busy(s))
      BY <2>3 DEF BeginRefresh
    <3> DEFINE mine == [req[r] EXCEPT !.op = "refresh", !.pc = "load",
                               !.scope = s, !.offer = o, !.tok = t]
    <3>2. mine.op \in Flow /\ t \in Token
      BY <2>0, <3>1 DEF Begin
    <3>3. mine \in ReqType /\ mine.pc = "load"
      BY <2>0, <3>2 DEF ReqType, Pc
    <3> QED BY <1>3, <3>1, <3>3
  <2>4. CASE BeginConsume(r)
    <3>1. PICK t \in created :
              Begin(r, [req[r] EXCEPT !.op = "consume", !.pc = "load", !.tok = t], {})
      BY <2>4 DEF BeginConsume
    <3>2. [req[r] EXCEPT !.op = "consume", !.pc = "load", !.tok = t].op = "consume"
      BY <2>0 DEF ReqType
    <3> QED BY <3>1, <3>2 DEF Begin
  <2> QED BY <1>4, <2>1, <2>2, <2>3, <2>4
<1>5. ASSUME NEW r \in Request, Step(r) PROVE OnlyRetiring(req'[q])
  <2>1. CASE q # r
    <3>1. req'[q] = req[q]
      BY <1>2, <1>5, <2>1
         DEF Step, Deprecate, FindExisting, FindNone, Create, Load,
             CheckRefuses, CheckPasses, Recheck, SaveDiff, SaveWrite
    <3> QED BY <1>2, <3>1
  <2>2. CASE q = r
    <3>1. CASE Deprecate(r) \/ FindNone(r)
      <4>1. /\ req'[q].pc \in {"find", "create"}
            /\ req'[q].op = req[q].op
        <5>1. \/ req' = [req EXCEPT ![r].pc = "find"]
              \/ req' = [req EXCEPT ![r].pc = "create"]
          BY <3>1 DEF Deprecate, FindNone
        <5> QED BY <1>2, <2>2, <5>1 DEF ReqType
      <4> QED BY <1>2, <4>1 DEF OnlyRetiring
    <3>2. CASE FindExisting(r)
      BY <1>2, <2>2, <3>2 DEF FindExisting, OnlyRetiring, ReqType, Finish
    <3>3. CASE Create(r)
      BY <1>2, <2>2, <3>3 DEF Create, OnlyRetiring, ReqType, Finish
    <3>4. CASE Load(r)
      BY <1>2, <2>2, <3>4 DEF Load, OnlyRetiring, ReqType
    <3>5. CASE CheckRefuses(r)
      <4>1. Retired(req[r].ent).deprecated
        BY <1>2, <2>2 DEF Retired, ReqType, Row
      <4> QED BY <1>2, <2>2, <3>5, <4>1 DEF CheckRefuses, OnlyRetiring, ReqType
    <3>6. CASE CheckPasses(r)
      BY <1>2, <2>2, <3>6 DEF CheckPasses, OnlyRetiring, ReqType
    <3>7. CASE Recheck(r)
      BY <1>2, <2>2, <3>7 DEF Recheck, OnlyRetiring
    <3>8. CASE SaveDiff(r)
      BY <1>2, <2>2, <3>8 DEF SaveDiff, OnlyRetiring, ReqType
    <3>9. CASE SaveWrite(r)
      BY <1>2, <2>2, <3>9 DEF SaveWrite, OnlyRetiring, ReqType, Finish
    <3> QED
      BY <1>5, <3>1, <3>2, <3>3, <3>4, <3>5, <3>6, <3>7, <3>8, <3>9 DEF Step
  <2> QED BY <2>1, <2>2
<1>6. CASE UNCHANGED req
  BY <1>2, <1>6
<1> QED BY <1>4, <1>5, <1>6 DEF Next, Tick, Quiet, vars

\* No step of a deployment without consumeToken takes a deprecation back.
LEMMA DeprecatedStays ==
    ASSUME RetiringInv, [Next]_vars, NEW t \in created, rows[t].deprecated
    PROVE  rows'[t].deprecated
<1>1. TypeOK /\ rows[t] \in Row /\ t \in Token
  BY DEF RetiringInv, TypeOK
<1>2. ASSUME NEW r \in Request, Deprecate(r) PROVE rows'[t].deprecated
  BY <1>1, <1>2 DEF Deprecate, Row
<1>3. ASSUME NEW r \in Request, Create(r) PROVE rows'[t].deprecated
  BY <1>1, <1>3 DEF Create, TypeOK
<1>4. ASSUME NEW r \in Request, SaveWrite(r) PROVE rows'[t].deprecated
  <2>1. CASE t # req[r].tok
    BY <1>1, <1>4, <2>1 DEF SaveWrite, TypeOK
  <2>2. CASE t = req[r].tok
    <3>1. rows'[t] = Overwritten(rows[t], req[r].ent, req[r].dirty)
      BY <1>1, <1>4, <2>2 DEF SaveWrite, TypeOK
    <3>2. req[r].ent.deprecated
      BY <1>4 DEF SaveWrite, RetiringInv, OnlyRetiring
    <3> QED BY <1>1, <3>1, <3>2 DEF Overwritten, Row
  <2> QED BY <2>1, <2>2
<1>5. CASE UNCHANGED rows
  BY <1>5
<1> QED
  BY ZenonT(60), <1>2, <1>3, <1>4, <1>5
     DEF Next, Step, Begin, BeginObtain, BeginLogin, BeginRefresh, BeginConsume,
         FindExisting, FindNone, Load, CheckRefuses, CheckPasses, Recheck,
         SaveDiff, Tick, Quiet, vars

\* In a deployment whose requests only obtain tokens, log in and refresh, a
\* refresh token that was deprecated never becomes usable again.
THEOREM DeprecatedForGood ==
    ASSUME "consume" \notin Flow
    PROVE  Spec => DeprecationIsFinal
<1>1. RetiringInv /\ [Next]_vars =>
          [\A t \in created : rows[t].deprecated => rows'[t].deprecated]_vars
  BY DeprecatedStays
<1> QED BY <1>1, InitRetiringInv, NextRetiringInv, PTL DEF Spec, DeprecationIsFinal

-----------------------------------------------------------------------------
(* What a step does, field by field.  The invariants below are about single *)
(* fields of requests and rows; these lemmas spare each of them the record   *)
(* updates of OperationToken.                                                *)

\* Requests that differ in nothing but the history field overlap.
Alike(p, q) ==
    /\ p.pc = q.pc /\ p.op = q.op /\ p.scope = q.scope /\ p.tok = q.tok
    /\ p.ent = q.ent /\ p.dirty = q.dirty /\ p.then = q.then
    /\ p.outcome = q.outcome /\ p.spentAtLoad = q.spentAtLoad
    /\ p.begunAt = q.begunAt

\* What a request is called with stays the same until its answer.
SameCall(p, q) == p.op = q.op /\ p.scope = q.scope /\ p.begunAt = q.begunAt
                  /\ p.overlap = q.overlap

\* The columns no save() and no UPDATE of deprecateToken changes.
SameToken(u, v) == u.scope = v.scope /\ u.offer = v.offer /\ u.expiredAt = v.expiredAt

Begins(r) == BeginObtain(r) \/ BeginLogin(r) \/ BeginRefresh(r) \/ BeginConsume(r)

\* What each step of a request does, by name of the step.
Effect(me, new) ==
    \/ /\ me.pc = "deprecate" /\ new.pc = "find"
       /\ new.tok = me.tok /\ new.ent = me.ent /\ new.outcome = me.outcome
       /\ \A t \in created : /\ rows'[t].deprecated <=> rows[t].deprecated \/ rows[t].scope = me.scope
                             /\ rows'[t].expired = rows[t].expired
                             /\ rows'[t].left = rows[t].left
       /\ created' = created
    \/ /\ me.pc = "find" /\ new.pc = "done"
       /\ new.tok \in Usable(me.scope) /\ new.ent = me.ent /\ new.outcome = "obtained"
       /\ UNCHANGED <<created, rows>>
    \/ /\ me.pc = "find" /\ new.pc = "create" /\ Usable(me.scope) = {}
       /\ new.tok = me.tok /\ new.ent = me.ent /\ new.outcome = me.outcome
       /\ UNCHANGED <<created, rows>>
    \/ /\ me.pc = "create" /\ new.pc = "done"
       /\ new.tok \in Token \ created /\ new.ent = me.ent /\ new.outcome = "obtained"
       /\ created' = created \cup {new.tok}
       /\ rows'[new.tok] = NewRow(me.scope, me.offer, now)
       /\ \A t \in created : rows'[t] = rows[t]
    \/ /\ me.pc = "load" /\ new.pc = "check"
       /\ new.tok = me.tok /\ new.ent = rows[me.tok] /\ new.outcome = me.outcome
       /\ new.spentAtLoad <=> \E q \in Request : /\ req[q].outcome = "granted"
                                                  /\ req[q].tok = me.tok
       /\ UNCHANGED <<created, rows>>
    \/ /\ me.pc = "check" /\ new.pc = "diff" /\ ~Available(me.ent)
       /\ new.tok = me.tok /\ new.ent = Retired(me.ent) /\ new.outcome = me.outcome
       /\ new.then = "refused"
       /\ UNCHANGED <<created, rows>>
    \/ /\ me.pc = "check" /\ new.pc = "diff" /\ Available(me.ent) /\ me.op = "consume"
       /\ new.tok = me.tok /\ new.ent = Spent(me.ent) /\ new.outcome = me.outcome
       /\ new.then = "recheck" /\ new.spentAtLoad = me.spentAtLoad
       /\ UNCHANGED <<created, rows>>
    \/ /\ me.pc = "check" /\ new.pc = "deprecate" /\ Available(me.ent) /\ me.op # "consume"
       /\ new.tok = me.tok /\ new.ent = me.ent /\ new.outcome = me.outcome
       /\ UNCHANGED <<created, rows>>
    \/ /\ me.pc = "recheck" /\ new.pc = "done"
       /\ new.tok = me.tok /\ new.ent = me.ent /\ new.outcome = "granted"
       /\ new.spentAtLoad = me.spentAtLoad
       /\ UNCHANGED <<created, rows>>
    \/ /\ me.pc = "recheck" /\ new.pc = "diff"
       /\ new.tok = me.tok /\ new.ent = Retired(me.ent) /\ new.outcome = me.outcome
       /\ new.then = "granted" /\ new.spentAtLoad = me.spentAtLoad
       /\ UNCHANGED <<created, rows>>
    \/ /\ me.pc = "diff" /\ new.pc = "write"
       /\ new.tok = me.tok /\ new.ent = me.ent /\ new.outcome = me.outcome
       /\ new.then = me.then /\ new.spentAtLoad = me.spentAtLoad
       /\ "left" \in new.dirty <=> me.ent.left # rows[me.tok].left
       /\ "expired" \in new.dirty <=> me.ent.expired # rows[me.tok].expired
       /\ "deprecated" \in new.dirty <=> me.ent.deprecated # rows[me.tok].deprecated
       /\ UNCHANGED <<created, rows>>
    \/ /\ me.pc = "write" 
       /\ \/ new.pc = "recheck" /\ me.then = "recheck" /\ new.outcome = me.outcome
          \/ new.pc = "done" /\ new.outcome = me.then /\ me.then # "recheck"
       /\ new.tok = me.tok /\ new.ent = me.ent
       /\ new.spentAtLoad = me.spentAtLoad
       /\ created' = created
       /\ \A t \in created \ {me.tok} : rows'[t] = rows[t]
       /\ rows'[me.tok].left = IF "left" \in me.dirty THEN me.ent.left
                               ELSE rows[me.tok].left
       /\ rows'[me.tok].expired = IF "expired" \in me.dirty THEN me.ent.expired
                                  ELSE rows[me.tok].expired
       /\ rows'[me.tok].deprecated = IF "deprecated" \in me.dirty THEN me.ent.deprecated
                                     ELSE rows[me.tok].deprecated

\* Where each call starts.
Opening(q) ==
    \/ q.op = "obtain" /\ q.pc = "find"
    \/ q.op = "login" /\ q.pc = "deprecate"
    \/ q.op = "refresh" /\ q.pc = "load"
    \/ q.op = "consume" /\ q.pc = "load"

\* A call that begins changes nothing but the request itself, and tells those
\* it overlaps.
LEMMA BeginEffect ==
    ASSUME TypeOK, NEW r \in Request, Begins(r)
    PROVE  /\ UNCHANGED <<created, rows, now>>
           /\ \A q \in Request \ {r} : /\ Alike(req'[q], req[q])
                                       /\ req[q].overlap => req'[q].overlap
           /\ req[r].pc = "idle" /\ req'[r].outcome = req[r].outcome
           /\ Opening(req'[r]) /\ req'[r].op \in Flow /\ req'[r].begunAt = now
           /\ req'[r].op # "consume" =>
                 \A q \in Busy(req'[r].scope) : q # r /\ req'[q].overlap /\ req'[r].overlap
<1>1. req \in [Request -> ReqType] /\ req[r] \in ReqType
  BY DEF TypeOK
<1>2. ASSUME NEW mine, NEW others, Begin(r, mine, others), mine \in ReqType,
             mine.outcome = req[r].outcome, Opening(mine),
             mine.op = "consume" \/ others = Busy(mine.scope)
      PROVE  /\ UNCHANGED <<created, rows, now>>
             /\ \A q \in Request \ {r} : /\ Alike(req'[q], req[q])
                                         /\ req[q].overlap => req'[q].overlap
             /\ req[r].pc = "idle" /\ req'[r].outcome = req[r].outcome
             /\ Opening(req'[r]) /\ req'[r].op \in Flow /\ req'[r].begunAt = now
             /\ req'[r].op # "consume" =>
                   \A q \in Busy(req'[r].scope) : q # r /\ req'[q].overlap /\ req'[r].overlap
  <2>1. /\ req[r].pc = "idle" /\ mine.op \in Flow /\ UNCHANGED <<created, rows, now>>
        /\ req'[r] = [mine EXCEPT !.begunAt = now, !.overlap = others # {}]
        /\ \A q \in Request \ {r} : req'[q] = IF q \in others
                                              THEN [req[q] EXCEPT !.overlap = TRUE]
                                              ELSE req[q]
    BY <1>2 DEF Begin
  <2>2. /\ req'[r].pc = mine.pc /\ req'[r].op = mine.op /\ req'[r].scope = mine.scope
        /\ req'[r].outcome = mine.outcome /\ req'[r].begunAt = now
        /\ others # {} => req'[r].overlap
    BY <1>2, <2>1 DEF ReqType
  <2>3. ASSUME NEW q \in Request \ {r}
        PROVE  /\ Alike(req'[q], req[q])
               /\ req[q].overlap => req'[q].overlap
               /\ q \in others => req'[q].overlap
    <3>1. req[q] \in ReqType
      BY <1>1
    <3>2. CASE q \in others
      <4>1. req'[q] = [req[q] EXCEPT !.overlap = TRUE]
        BY <2>1, <2>3, <3>2
      <4>2. req'[q].overlap
        BY <3>1, <4>1 DEF ReqType
      <4>3. Alike(req'[q], req[q])
        BY <3>1, <4>1 DEF ReqType, Alike
      <4> QED BY <4>2, <4>3
    <3>3. CASE q \notin others
      <4>1. req'[q] = req[q]
        BY <2>1, <2>3, <3>3
      <4> QED BY <3>3, <4>1 DEF Alike
    <3> QED BY <3>2, <3>3
  <2>4. ASSUME mine.op # "consume", NEW q \in Busy(mine.scope)
        PROVE  q # r /\ req'[q].overlap /\ req'[r].overlap
    <3>1. q \in others /\ q \in Request /\ q # r
      BY <1>2, <2>1, <2>4 DEF Busy, Active
    <3> QED BY <2>2, <2>3, <3>1
  <2>5. Opening(req'[r])
    BY <1>2, <2>2 DEF Opening
  <2> QED BY <1>2, <2>1, <2>2, <2>3, <2>4, <2>5
<1>3. CASE BeginObtain(r)
  <2>1. PICK s \in Scope, o \in Offer :
            Begin(r, [req[r] EXCEPT !.op = "obtain", !.pc = "find",
                             !.scope = s, !.offer = o], Busy(s))
    BY <1>3 DEF BeginObtain
  <2>2. PICK mine : mine = [req[r] EXCEPT !.op = "obtain", !.pc = "find",
                                         !.scope = s, !.offer = o]
    OBVIOUS
  <2>3. mine.op \in Flow
    BY <2>1, <2>2 DEF Begin
  <2>4. mine \in ReqType /\ mine.outcome = req[r].outcome /\ mine.scope = s /\ Opening(mine)
    BY <1>1, <2>2, <2>3 DEF ReqType, Pc, Opening
  <2> QED BY <1>2, <2>1, <2>2, <2>4
<1>4. CASE BeginLogin(r)
  <2>1. PICK s \in Scope, o \in Offer :
            Begin(r, [req[r] EXCEPT !.op = "login", !.pc = "deprecate",
                             !.scope = s, !.offer = o], Busy(s))
    BY <1>4 DEF BeginLogin
  <2>2. PICK mine : mine = [req[r] EXCEPT !.op = "login", !.pc = "deprecate",
                                         !.scope = s, !.offer = o]
    OBVIOUS
  <2>3. mine.op \in Flow
    BY <2>1, <2>2 DEF Begin
  <2>4. mine \in ReqType /\ mine.outcome = req[r].outcome /\ mine.scope = s /\ Opening(mine)
    BY <1>1, <2>2, <2>3 DEF ReqType, Pc, Opening
  <2> QED BY <1>2, <2>1, <2>2, <2>4
<1>5. CASE BeginRefresh(r)
  <2>1. PICK s \in Scope, o \in Offer, t \in created :
            Begin(r, [req[r] EXCEPT !.op = "refresh", !.pc = "load",
                             !.scope = s, !.offer = o, !.tok = t], Busy(s))
    BY <1>5 DEF BeginRefresh
  <2>2. PICK mine : mine = [req[r] EXCEPT !.op = "refresh", !.pc = "load",
                                         !.scope = s, !.offer = o, !.tok = t]
    OBVIOUS
  <2>3. mine.op \in Flow /\ t \in Token
    BY <2>1, <2>2 DEF Begin, TypeOK
  <2>4. mine \in ReqType /\ mine.outcome = req[r].outcome /\ mine.scope = s /\ Opening(mine)
    BY <1>1, <2>2, <2>3 DEF ReqType, Pc, Opening
  <2> QED BY <1>2, <2>1, <2>2, <2>4
<1>6. CASE BeginConsume(r)
  <2>1. PICK t \in created :
            Begin(r, [req[r] EXCEPT !.op = "consume", !.pc = "load", !.tok = t], {})
    BY <1>6 DEF BeginConsume
  <2>2. PICK mine : mine = [req[r] EXCEPT !.op = "consume", !.pc = "load", !.tok = t]
    OBVIOUS
  <2>3. mine.op \in Flow /\ t \in Token
    BY <2>1, <2>2 DEF Begin, TypeOK
  <2>4. mine \in ReqType /\ mine.outcome = req[r].outcome /\ Opening(mine) /\ mine.op = "consume"
    BY <1>1, <2>2, <2>3 DEF ReqType, Pc, Opening
  <2> QED BY <1>2, <2>1, <2>2, <2>4
<1> QED BY <1>3, <1>4, <1>5, <1>6 DEF Begins

\* A step of a request changes nothing of another one and keeps what the request
\* was called with; the columns of rows it leaves alone are those SameToken says.
LEMMA StepEffect ==
    ASSUME TypeOK, NEW r \in Request, Step(r)
    PROVE  /\ now' = now /\ created \subseteq created'
           /\ \A q \in Request \ {r} : req'[q] = req[q]
           /\ SameCall(req'[r], req[r])
           /\ \A t \in created : SameToken(rows'[t], rows[t])
           /\ Effect(req[r], req'[r])
<1>1. req \in [Request -> ReqType] /\ rows \in [Token -> Row] /\ created \subseteq Token
  BY DEF TypeOK
<1> USE <1>1
<1>2. PICK me : me = req[r]
  OBVIOUS
<1>3. me \in ReqType
  BY <1>2
<1>4. ASSUME NEW new, req' = [req EXCEPT ![r] = new]
      PROVE  req'[r] = new /\ \A q \in Request \ {r} : req'[q] = req[q]
  BY <1>4
<1>5. ASSUME UNCHANGED rows PROVE \A t \in created : SameToken(rows'[t], rows[t])
  BY <1>5 DEF SameToken
<1>6. CASE Deprecate(r)
  <2>1. PICK new : new = [me EXCEPT !.pc = "find"]
    OBVIOUS
  <2>2. /\ new.tok = me.tok /\ new.ent = me.ent /\ new.outcome = me.outcome
        /\ SameCall(new, me) /\ new.pc = "find"
    BY <1>3, <2>1 DEF SameCall, ReqType
  <2>3. req'[r] = new /\ \A q \in Request \ {r} : req'[q] = req[q]
    BY <1>2, <1>4, <1>6, <2>1 DEF Deprecate
  <2>4. ASSUME NEW t \in created
        PROVE  /\ rows'[t].deprecated <=> rows[t].deprecated \/ rows[t].scope = me.scope
               /\ rows'[t].expired = rows[t].expired
               /\ rows'[t].left = rows[t].left
               /\ SameToken(rows'[t], rows[t])
    <3>1. t \in Token /\ rows[t] \in Row
      OBVIOUS
    <3>2. rows'[t] = IF rows[t].scope = me.scope
                     THEN [rows[t] EXCEPT !.deprecated = TRUE, !.updatedAt = now]
                     ELSE rows[t]
      BY <1>2, <1>6, <3>1 DEF Deprecate
    <3>3. CASE rows[t].scope = me.scope
      BY <3>1, <3>2, <3>3 DEF Row, SameToken
    <3>4. CASE rows[t].scope # me.scope
      BY <3>1, <3>2, <3>4 DEF Row, SameToken
    <3> QED BY <3>3, <3>4
  <2> QED BY <1>2, <1>6, <2>2, <2>3, <2>4 DEF Deprecate, Effect
<1>7. CASE FindExisting(r)
  <2>1. PICK t \in Newest(Usable(me.scope)) :
            req' = [req EXCEPT ![r] = [Finish(r, "obtained") EXCEPT !.tok = t]]
    BY <1>2, <1>7 DEF FindExisting
  <2>2. PICK new : new = [Finish(r, "obtained") EXCEPT !.tok = t]
    OBVIOUS
  <2>3. /\ new.tok = t /\ new.ent = me.ent /\ new.outcome = "obtained"
        /\ SameCall(new, me) /\ new.pc = "done"
    BY <1>2, <1>3, <2>2 DEF SameCall, ReqType, Finish
  <2>4. req'[r] = new /\ \A q \in Request \ {r} : req'[q] = req[q]
    BY <1>4, <2>1, <2>2
  <2>5. t \in Usable(me.scope)
    BY <2>1 DEF Newest
  <2> QED BY <1>2, <1>5, <1>7, <2>3, <2>4, <2>5 DEF FindExisting, Effect
<1>8. CASE FindNone(r)
  <2>1. PICK new : new = [me EXCEPT !.pc = "create"]
    OBVIOUS
  <2>2. /\ new.tok = me.tok /\ new.ent = me.ent /\ new.outcome = me.outcome
        /\ SameCall(new, me) /\ new.pc = "create"
    BY <1>3, <2>1 DEF SameCall, ReqType
  <2>3. req'[r] = new /\ \A q \in Request \ {r} : req'[q] = req[q]
    BY <1>2, <1>4, <1>8, <2>1 DEF FindNone
  <2> QED BY <1>2, <1>5, <1>8, <2>2, <2>3 DEF FindNone, Effect
<1>9. CASE Create(r)
  <2>1. PICK t \in Token \ created :
          /\ created' = created \cup {t}
          /\ rows' = [rows EXCEPT ![t] = NewRow(me.scope, me.offer, now)]
          /\ req' = [req EXCEPT ![r] = [Finish(r, "obtained") EXCEPT !.tok = t]]
    BY <1>2, <1>9 DEF Create
  <2>2. PICK new : new = [Finish(r, "obtained") EXCEPT !.tok = t]
    OBVIOUS
  <2>3. /\ new.tok = t /\ new.ent = me.ent /\ new.outcome = "obtained"
        /\ SameCall(new, me) /\ new.pc = "done"
    BY <1>2, <1>3, <2>2 DEF SameCall, ReqType, Finish
  <2>4. req'[r] = new /\ \A q \in Request \ {r} : req'[q] = req[q]
    BY <1>4, <2>1, <2>2
  <2>5. rows'[t] = NewRow(me.scope, me.offer, now) /\ \A u \in created : rows'[u] = rows[u]
    BY <2>1
  <2>6. \A u \in created : SameToken(rows'[u], rows[u])
    BY <2>5 DEF SameToken
  <2> QED BY <1>2, <1>9, <2>1, <2>3, <2>4, <2>5, <2>6 DEF Create, Effect
<1>10. CASE Load(r)
  <2>1. PICK spent : spent = \E q \in Request : /\ req[q].outcome = "granted"
                                                /\ req[q].tok = me.tok
    OBVIOUS
  <2>2. PICK new : new = [me EXCEPT !.pc = "check", !.ent = rows[me.tok],
                                    !.spentAtLoad = spent]
    OBVIOUS
  <2>3. /\ new.tok = me.tok /\ new.ent = rows[me.tok] /\ new.outcome = me.outcome
        /\ SameCall(new, me) /\ new.pc = "check" /\ new.spentAtLoad = spent
    BY <1>3, <2>2 DEF SameCall, ReqType
  <2>4. req'[r] = new /\ \A q \in Request \ {r} : req'[q] = req[q]
    <3>1. req' = [req EXCEPT ![r] = new]
      BY <1>2, <1>10, <2>1, <2>2 DEF Load
    <3> QED BY <1>4, <3>1
  <2> QED BY <1>2, <1>5, <1>10, <2>1, <2>3, <2>4 DEF Load, Effect
<1>11. CASE CheckRefuses(r)
  <2>1. PICK new : new = [me EXCEPT !.pc = "diff", !.then = "refused",
                                    !.ent = Retired(me.ent)]
    OBVIOUS
  <2>2. /\ new.tok = me.tok /\ new.ent = Retired(me.ent) /\ new.outcome = me.outcome
        /\ SameCall(new, me) /\ new.pc = "diff" /\ new.then = "refused"
    BY <1>3, <2>1 DEF SameCall, ReqType
  <2>3. req'[r] = new /\ \A q \in Request \ {r} : req'[q] = req[q]
    BY <1>2, <1>4, <1>11, <2>1 DEF CheckRefuses
  <2> QED BY <1>2, <1>5, <1>11, <2>2, <2>3 DEF CheckRefuses, Effect
<1>12. CASE CheckPasses(r)
  <2>1. PICK new : new = IF me.op = "consume"
                         THEN [me EXCEPT !.pc = "diff", !.then = "recheck",
                                         !.ent = Spent(me.ent)]
                         ELSE [me EXCEPT !.pc = "deprecate"]
    OBVIOUS
  <2>2. req'[r] = new /\ \A q \in Request \ {r} : req'[q] = req[q]
    BY <1>2, <1>4, <1>12, <2>1 DEF CheckPasses
  <2>3. CASE me.op = "consume"
    <3>1. /\ new.tok = me.tok /\ new.ent = Spent(me.ent) /\ new.outcome = me.outcome
          /\ SameCall(new, me) /\ new.pc = "diff" /\ new.then = "recheck"
          /\ new.spentAtLoad = me.spentAtLoad
      BY <1>3, <2>1, <2>3 DEF SameCall, ReqType
    <3> QED BY <1>2, <1>5, <1>12, <2>2, <2>3, <3>1 DEF CheckPasses, Effect
  <2>4. CASE me.op # "consume"
    <3>1. /\ new.tok = me.tok /\ new.ent = me.ent /\ new.outcome = me.outcome
          /\ SameCall(new, me) /\ new.pc = "deprecate"
      BY <1>3, <2>1, <2>4 DEF SameCall, ReqType
    <3> QED BY <1>2, <1>5, <1>12, <2>2, <2>4, <3>1 DEF CheckPasses, Effect
  <2> QED BY <2>3, <2>4
<1>13. CASE Recheck(r)
  <2>1. PICK new : new = IF Available(me.ent)
                         THEN Finish(r, "granted")
                         ELSE [me EXCEPT !.pc = "diff", !.then = "granted",
                                         !.ent = Retired(me.ent)]
    OBVIOUS
  <2>2. req'[r] = new /\ \A q \in Request \ {r} : req'[q] = req[q]
    BY <1>2, <1>4, <1>13, <2>1 DEF Recheck
  <2>3. CASE Available(me.ent)
    <3>1. /\ new.tok = me.tok /\ new.ent = me.ent /\ new.outcome = "granted"
          /\ SameCall(new, me) /\ new.pc = "done" /\ new.spentAtLoad = me.spentAtLoad
      BY <1>2, <1>3, <2>1, <2>3 DEF SameCall, ReqType, Finish
    <3> QED BY <1>2, <1>5, <1>13, <2>2, <3>1 DEF Recheck, Effect
  <2>4. CASE ~Available(me.ent)
    <3>1. /\ new.tok = me.tok /\ new.ent = Retired(me.ent) /\ new.outcome = me.outcome
          /\ SameCall(new, me) /\ new.pc = "diff" /\ new.then = "granted"
          /\ new.spentAtLoad = me.spentAtLoad
      BY <1>3, <2>1, <2>4 DEF SameCall, ReqType
    <3> QED BY <1>2, <1>5, <1>13, <2>2, <3>1 DEF Recheck, Effect
  <2> QED BY <2>3, <2>4
<1>14. CASE SaveDiff(r)
  <2>1. PICK changed : changed = {c \in Column : me.ent[c] # rows[me.tok][c]}
    OBVIOUS
  <2>2. /\ "left" \in changed <=> me.ent.left # rows[me.tok].left
        /\ "expired" \in changed <=> me.ent.expired # rows[me.tok].expired
        /\ "deprecated" \in changed <=> me.ent.deprecated # rows[me.tok].deprecated
    BY <2>1 DEF Column
  <2>3. PICK new : new = [me EXCEPT !.pc = "write", !.dirty = changed]
    OBVIOUS
  <2>4. /\ new.tok = me.tok /\ new.ent = me.ent /\ new.outcome = me.outcome
        /\ SameCall(new, me) /\ new.pc = "write" /\ new.dirty = changed
        /\ new.then = me.then /\ new.spentAtLoad = me.spentAtLoad
    BY <1>3, <2>3 DEF SameCall, ReqType
  <2>5. req'[r] = new /\ \A q \in Request \ {r} : req'[q] = req[q]
    <3>1. req' = [req EXCEPT ![r] = new]
      BY <1>2, <1>14, <2>1, <2>3 DEF SaveDiff
    <3> QED BY <1>4, <3>1
  <2> QED BY <1>2, <1>5, <1>14, <2>2, <2>4, <2>5 DEF SaveDiff, Effect
<1>15. CASE SaveWrite(r)
  <2>1. PICK t : t = me.tok
    OBVIOUS
  <2>2. PICK row : row = Overwritten(rows[t], me.ent, me.dirty)
    OBVIOUS
  <2>3. PICK new : new = IF me.then = "recheck"
                         THEN [me EXCEPT !.pc = "recheck"]
                         ELSE Finish(r, me.then)
    OBVIOUS
  <2>4. req'[r] = new /\ \A q \in Request \ {r} : req'[q] = req[q]
    BY <1>2, <1>4, <1>15, <2>3 DEF SaveWrite
  <2>5. t \in created /\ t \in Token /\ rows[t] \in Row
    BY <1>2, <1>3, <1>15, <2>1 DEF SaveWrite, TypeOK, ReqType
  <2>6. rows'[t] = row /\ \A u \in created \ {t} : rows'[u] = rows[u]
    BY <1>2, <1>15, <2>1, <2>2, <2>5 DEF SaveWrite
  <2>7. /\ row.left = IF "left" \in me.dirty THEN me.ent.left ELSE rows[t].left
        /\ row.expired = IF "expired" \in me.dirty THEN me.ent.expired ELSE rows[t].expired
        /\ row.deprecated = IF "deprecated" \in me.dirty THEN me.ent.deprecated
                            ELSE rows[t].deprecated
        /\ SameToken(row, rows[t])
    BY <2>2, <2>5 DEF Overwritten, Row, SameToken
  <2>8. \A u \in created : SameToken(rows'[u], rows[u])
    BY <2>6, <2>7 DEF SameToken
  <2>9. /\ \/ new.pc = "recheck" /\ me.then = "recheck" /\ new.outcome = me.outcome
           \/ new.pc = "done" /\ new.outcome = me.then /\ me.then # "recheck"
        /\ new.tok = me.tok /\ new.ent = me.ent
        /\ SameCall(new, me) /\ new.spentAtLoad = me.spentAtLoad
    BY <1>2, <1>3, <2>3 DEF SameCall, ReqType, Finish
  <2> QED BY <1>2, <1>15, <2>1, <2>4, <2>6, <2>7, <2>8, <2>9 DEF SaveWrite, Effect
<1> QED
  BY <1>6, <1>7, <1>8, <1>9, <1>10, <1>11, <1>12, <1>13, <1>14, <1>15 DEF Step

-----------------------------------------------------------------------------
(* No use after the expiry. *)

\* Where the requests of each call are, and that they have no outcome before
\* they are done.
Phases(q) ==
    /\ q.pc = "idle" => q.op = "none"
    /\ q.pc # "done" => q.outcome = "none"
    /\ q.pc \in {"load", "check"} => q.op \in {"consume", "refresh"}
    /\ q.pc = "deprecate" => q.op \in {"login", "refresh"}
    /\ q.outcome = "granted" => q.tok \in created

\* The first checkAvailable of the request answered true.
InUse(q) ==
    /\ q.op \in {"consume", "refresh"}
    /\ \/ q.pc \in {"deprecate", "find", "create", "recheck"}
       \/ q.pc \in {"diff", "write"} /\ q.then # "refused"
       \/ q.outcome \in {"granted", "obtained"}

\* Once checkAvailable answered true the expiry of the entity, which nothing
\* changes any more, is known not to be before the begin of the request.
Timely(q) ==
    /\ q.begunAt <= now
    /\ InUse(q) => q.ent.expiredAt = Null \/ q.begunAt <= q.ent.expiredAt

\* The inductive invariant behind NoUseAfterExpiry.
UseInv == TypeOK /\ \A q \in Request : Phases(req[q]) /\ Timely(req[q])

\* Nobody uses a token at the start.
LEMMA InitUseInv == Init => UseInv
<1> SUFFICES ASSUME Init, NEW q \in Request PROVE Phases(req[q]) /\ Timely(req[q])
  BY InitTypeOK DEF UseInv
<1>1. /\ req[q].pc = "idle" /\ req[q].op = "none" /\ req[q].outcome = "none"
      /\ req[q].begunAt = 0 /\ now = 0
  BY DEF Init, Idle
<1> QED BY <1>1 DEF Phases, Timely, InUse

\* Every step keeps the requests in the phases of their calls.
LEMMA PhasesStay ==
    ASSUME TypeOK, [Next]_vars, NEW q \in Request, Phases(req[q])
    PROVE  Phases(req[q])'
<1>1. ASSUME NEW r \in Request, Begins(r) PROVE Phases(req[q])'
  <2>1. CASE q # r
    <3>1. Alike(req'[q], req[q]) /\ UNCHANGED created
      BY <1>1, <2>1, BeginEffect
    <3> QED BY <3>1 DEF Alike, Phases
  <2>2. CASE q = r
    <3>1. Opening(req'[q]) /\ req'[q].outcome = "none"
      BY <1>1, <2>2, BeginEffect DEF Phases
    <3> QED BY <3>1 DEF Opening, Phases
  <2> QED BY <2>1, <2>2
<1>2. ASSUME NEW r \in Request, Step(r) PROVE Phases(req[q])'
  <2>1. created \subseteq created'
    BY <1>2, StepEffect
  <2>2. CASE q # r
    <3>1. req'[q] = req[q]
      BY <1>2, <2>2, StepEffect
    <3> QED BY <2>1, <3>1 DEF Phases
  <2>3. CASE q = r
    <3>1. Effect(req[q], req'[q]) /\ SameCall(req'[q], req[q])
      BY <1>2, <2>3, StepEffect
    <3>2. req[q].pc \in {"load", "check", "diff", "write", "recheck"} => req[q].tok \in created
      BY DEF TypeOK
    <3> QED BY <2>1, <3>1, <3>2 DEF Phases, Effect, SameCall
  <2> QED BY <2>2, <2>3
<1>3. CASE UNCHANGED <<created, req>>
  BY <1>3 DEF Phases
<1> QED BY <1>1, <1>2, <1>3 DEF Next, Begins, Tick, Quiet, vars

\* Every step keeps what the uses rely on.
LEMMA NextUseInv == UseInv /\ [Next]_vars => UseInv'
<1> SUFFICES ASSUME UseInv, [Next]_vars, NEW q \in Request
             PROVE  Timely(req[q])'
  BY NextTypeOK, PhasesStay DEF UseInv
<1>1. TypeOK /\ Phases(req[q]) /\ Timely(req[q])
  BY DEF UseInv
<1>2. /\ now \in Nat /\ req[q].begunAt \in Nat /\ req[q].ent \in Row /\ req[q].tok \in Token
      /\ req[q].outcome \in Outcome
  BY <1>1 DEF TypeOK, ReqType
<1>3. ASSUME NEW r \in Request, Begins(r) PROVE Timely(req[q])'
  <2>1. UNCHANGED <<created, rows, now>>
    BY <1>1, <1>3, BeginEffect
  <2>2. CASE q # r
    <3>1. Alike(req'[q], req[q])
      BY <1>1, <1>3, <2>2, BeginEffect
    <3> QED BY <1>1, <2>1, <3>1 DEF Alike, Timely, InUse
  <2>3. CASE q = r
    <3>1. /\ Opening(req'[q]) /\ req'[q].begunAt = now /\ req'[q].outcome = "none"
      BY <1>1, <1>3, <2>3, BeginEffect DEF Phases
    <3> QED BY <1>2, <2>1, <3>1 DEF Opening, Timely, InUse
  <2> QED BY <2>2, <2>3
<1>4. ASSUME NEW r \in Request, Step(r) PROVE Timely(req[q])'
  <2>1. now' = now /\ created \subseteq created'
    BY <1>1, <1>4, StepEffect
  <2>2. CASE q # r
    <3>1. req'[q] = req[q]
      BY <1>1, <1>4, <2>2, StepEffect
    <3> QED BY <1>1, <2>1, <3>1 DEF Timely, InUse
  <2>3. CASE q = r
    <3>1. Effect(req[q], req'[q]) /\ SameCall(req'[q], req[q])
      BY <1>1, <1>4, <2>3, StepEffect
    <3>4. /\ Retired(req[q].ent).expiredAt = req[q].ent.expiredAt
          /\ Spent(req[q].ent).expiredAt = req[q].ent.expiredAt
      BY <1>2 DEF Retired, Spent, Row
    <3>5. Available(req[q].ent) => req[q].ent.expiredAt = Null \/ req[q].begunAt <= req[q].ent.expiredAt
      BY <1>1, <1>2 DEF Available, TimedOut, Timely, Row
    <3>6. InUse(req'[q]) => \/ InUse(req[q]) /\ req'[q].ent.expiredAt = req[q].ent.expiredAt
                            \/ Available(req[q].ent) /\ req'[q].ent.expiredAt = req[q].ent.expiredAt
      BY <1>1, <3>1, <3>4 DEF Phases, Effect, SameCall, InUse
    <3> QED BY <1>1, <2>1, <3>1, <3>5, <3>6 DEF Timely, SameCall
  <2> QED BY <2>2, <2>3
<1>5. CASE UNCHANGED <<created, rows, req>> /\ now' \in Nat /\ now <= now'
  BY <1>1, <1>2, <1>5 DEF Timely, InUse
<1>6. CASE Tick
  BY <1>2, <1>5, <1>6 DEF Tick
<1>7. CASE Quiet \/ UNCHANGED vars
  BY <1>2, <1>5, <1>7 DEF Quiet, vars
<1> QED BY <1>3, <1>4, <1>6, <1>7 DEF Next, Begins

\* A request answered with success began before the token it used expired,
\* whatever stale saves did to the row meanwhile.
THEOREM NeverUsedLate == Spec => []NoUseAfterExpiry
<1>1. UseInv => NoUseAfterExpiry
  BY DEF UseInv, Timely, InUse, NoUseAfterExpiry
<1> QED BY <1>1, InitUseInv, NextUseInv, PTL DEF Spec

-----------------------------------------------------------------------------
(* No second use of a OneTime token after the first was answered. *)

\* A OneTime entity or row with its use left carries no mark and no time limit.
Pristine(e) == e.left = 1 => ~e.deprecated /\ ~e.expired /\ e.expiredAt = Null

\* What a request knows of its OneTime token, whose row is row: nobody saves an
\* entity that has the use left, so that a use once written stays written.
Once(q, row) ==
    /\ q.pc = "check" => Pristine(q.ent) /\ (q.spentAtLoad => q.ent.left = 0)
    /\ q.pc \in {"diff", "write", "recheck"} => q.ent.left = 0
    /\ q.pc = "write" /\ "left" \notin q.dirty => row.left = 0
    /\ \/ q.pc = "recheck"
       \/ q.pc \in {"diff", "write"} /\ q.then = "granted"
       \/ q.outcome = "granted"
       => row.left = 0
    /\ \/ q.pc = "recheck"
       \/ q.pc \in {"diff", "write"} /\ q.then # "refused"
       \/ q.outcome = "granted"
       => ~q.spentAtLoad

\* The OneTime tokens no deprecateToken marks.
OneTimer(t) ==
    /\ t \in created
    /\ rows[t].offer.type = "OneTime"
    /\ ~Touched(rows[t].scope)

\* The inductive invariant behind NoReuseAfterGrant.  It needs the counts: an
\* entity or row of a OneTime token has one use left or none.
OnceInv ==
    /\ CountsInv
    /\ \A q \in Request : Phases(req[q])
    /\ \A t \in Token : OneTimer(t) =>
          /\ Pristine(rows[t])
          /\ \A q \in Request : req[q].tok = t => Once(req[q], rows[t])

\* No token is used at the start.
LEMMA InitOnceInv == Init => OnceInv
<1> SUFFICES ASSUME Init PROVE OnceInv
  OBVIOUS
<1>1. CountsInv /\ UseInv
  BY InitCountsInv, InitUseInv
<1>2. ASSUME NEW q \in Request
      PROVE  req[q].pc = "idle" /\ req[q].outcome = "none"
  BY DEF Init, Idle
<1>3. ASSUME NEW t \in Token, OneTimer(t) PROVE Pristine(rows[t])
  <2>1. PICK s \in Scope, o \in Offer : rows[t] = NewRow(s, o, 0)
    BY DEF Init
  <2> QED BY <1>3, <2>1 DEF NewRow, ExpiryOf, Pristine, OneTimer
<1> QED BY <1>1, <1>2, <1>3 DEF OnceInv, UseInv, Pristine, Once

\* A OneTime entity or row that accounts for its uses has one left or none.
LEMMA OneOrNone ==
    ASSUME NEW e \in Row, e.offer.type = "OneTime", Accounted(e)
    PROVE  e.left \in {0, 1}
BY DEF Accounted, InitialLeft, Row

\* A scope once touched stays touched.
LEMMA TouchedStays ==
    ASSUME TypeOK, \A q \in Request : Phases(req[q]), [Next]_vars, NEW s, Touched(s)
    PROVE  Touched(s)'
<1>1. PICK q \in Request : req[q].op \in {"login", "refresh"} /\ req[q].scope = s
  BY DEF Touched
<1>2. ASSUME NEW r \in Request, Begins(r) PROVE req'[q].op = req[q].op /\ req'[q].scope = req[q].scope
  <2>1. q # r
    BY <1>1, <1>2, BeginEffect DEF Phases
  <2> QED BY <1>2, <2>1, BeginEffect DEF Alike
<1>3. ASSUME NEW r \in Request, Step(r) PROVE req'[q].op = req[q].op /\ req'[q].scope = req[q].scope
  <2>1. CASE q = r
    BY <1>3, <2>1, StepEffect DEF SameCall
  <2>2. CASE q # r
    BY <1>3, <2>2, StepEffect
  <2> QED BY <2>1, <2>2
<1>4. ASSUME UNCHANGED req PROVE req'[q].op = req[q].op /\ req'[q].scope = req[q].scope
  BY <1>4
<1>5. req'[q].op = req[q].op /\ req'[q].scope = req[q].scope
  BY <1>2, <1>3, <1>4 DEF Next, Begins, Tick, Quiet, vars
<1> QED BY <1>1, <1>5 DEF Touched

\* What checkAvailable and consumeToken make of a OneTime entity without a mark.
LEMMA OneTimeEntity ==
    ASSUME OnceInv, NEW q \in Request, NEW t \in Token, OneTimer(t), req[q].tok = t,
           req[q].pc \in Holding
    PROVE  /\ req[q].ent \in Row /\ req[q].ent.left \in {0, 1}
           /\ Retired(req[q].ent).left = req[q].ent.left
           /\ req[q].ent.left = 1 => Spent(req[q].ent).left = 0
           /\ rows[t] \in Row /\ rows[t].left \in {0, 1}
<1>1. /\ TypeOK /\ CountsConserved /\ Sound(req[q], rows)
  BY DEF OnceInv, CountsInv
<1>2. req[q].ent \in Row /\ rows[t] \in Row
  BY <1>1 DEF TypeOK, ReqType
<1>3. /\ Accounted(req[q].ent) /\ req[q].ent.offer.type = "OneTime"
      /\ Accounted(rows[t]) /\ rows[t].offer.type = "OneTime"
  BY <1>1 DEF Sound, OneTimer, CountsConserved
<1>4. req[q].ent.left \in {0, 1} /\ rows[t].left \in {0, 1}
  BY <1>2, <1>3, OneOrNone
<1> QED BY <1>2, <1>4 DEF Row, Retired, Spent

\* A step of a request keeps what every request knows of a OneTime token.
LEMMA StepOnce ==
    ASSUME OnceInv, NEW r \in Request, Step(r), NEW t \in Token, OneTimer(t)
    PROVE  /\ Pristine(rows[t])'
           /\ \A q \in Request : req'[q].tok = t => Once(req[q], rows[t])'
<1>1. /\ TypeOK /\ t \in created /\ rows[t].offer.type = "OneTime"
      /\ Pristine(rows[t])
      /\ \A q \in Request : Phases(req[q])
      /\ \A q \in Request : req[q].tok = t => Once(req[q], rows[t])
  BY DEF OnceInv, CountsInv, OneTimer
<1>2. PICK me : me = req[r]
  OBVIOUS
<1>3. PICK new : new = req'[r]
  OBVIOUS
<1>4. /\ Effect(me, new) /\ SameCall(new, me) /\ Phases(me)
      /\ \A q \in Request \ {r} : req'[q] = req[q]
      /\ SameToken(rows'[t], rows[t])
      /\ me.tok = t => Once(me, rows[t])
  BY <1>1, <1>2, <1>3, StepEffect
<1>5. me.pc = "deprecate" => rows[t].scope # me.scope
  BY <1>2, <1>4 DEF OneTimer, Touched, Phases
<1>6. ASSUME me.tok = t, me.pc \in Holding
      PROVE  /\ me.ent.left \in {0, 1} /\ rows[t].left \in {0, 1}
             /\ Retired(me.ent).left = me.ent.left
             /\ me.ent.left = 1 => Spent(me.ent).left = 0
  BY <1>2, <1>6, OneTimeEntity
<1>7. me.pc \in {"load", "check", "diff", "write", "recheck"} => me.tok \in created
  BY <1>1, <1>2 DEF TypeOK
<1>8. /\ Pristine(rows'[t])
      /\ rows[t].left = 0 => rows'[t].left = 0
  <2>1. CASE me.pc = "write" /\ me.tok = t
    <3>1. /\ me.ent.left = 0
          /\ "left" \notin me.dirty => rows[t].left = 0
          /\ rows'[t].left = IF "left" \in me.dirty THEN me.ent.left ELSE rows[t].left
      BY <1>4, <2>1 DEF Effect, Once
    <3> QED BY <3>1 DEF Pristine
  <2>2. CASE ~(me.pc = "write" /\ me.tok = t)
    <3>1. /\ rows'[t].left = rows[t].left /\ rows'[t].expired = rows[t].expired
          /\ rows'[t].deprecated <=> rows[t].deprecated
          /\ rows'[t].expiredAt = rows[t].expiredAt
      BY <1>1, <1>4, <1>5, <2>2 DEF Effect, SameToken
    <3> QED BY <1>1, <3>1 DEF Pristine
  <2> QED BY <2>1, <2>2
<1>9. ASSUME NEW q \in Request, req'[q].tok = t PROVE Once(req'[q], rows'[t])
  <2>1. CASE q # r
    <3>1. req'[q] = req[q] /\ Once(req[q], rows[t])
      BY <1>1, <1>4, <1>9, <2>1
    <3> QED BY <1>8, <3>1 DEF Once
  <2>2. CASE q = r
    <3> SUFFICES Once(new, rows'[t])
      BY <1>3, <2>2
    <3>1. new.tok = t
      BY <1>3, <1>9, <2>2
    <3>2. CASE me.pc \in {"deprecate", "find", "create"}
      BY <1>4, <3>1, <3>2 DEF Effect, Once, Phases
    <3>3. CASE me.pc = "load"
      <4>1. /\ new.pc = "check" /\ new.ent = rows[t] /\ rows'[t] = rows[t] /\ new.outcome = "none"
            /\ new.spentAtLoad <=> \E p \in Request : /\ req[p].outcome = "granted"
                                                      /\ req[p].tok = t
        BY <1>4, <3>1, <3>3 DEF Effect, Phases
      <4>2. new.spentAtLoad => rows[t].left = 0
        BY <1>1, <4>1 DEF Once
      <4> QED BY <1>1, <4>1, <4>2 DEF Once
    <3>4. CASE me.pc = "check"
      <4>1. /\ me.tok = t /\ new.outcome = "none" /\ rows'[t] = rows[t]
        BY <1>4, <3>1, <3>4 DEF Effect, Phases
      <4>2. /\ Pristine(me.ent) /\ (me.spentAtLoad => me.ent.left = 0)
            /\ me.ent.left \in {0, 1}
        BY <1>4, <1>6, <3>4, <4>1 DEF Once, Holding
      <4>3. CASE ~Available(me.ent)
        <5>1. me.ent.left = 0
          BY <4>2, <4>3 DEF Available, Flagged, TimedOut, Exhausted, Pristine
        <5>2. new.pc = "diff" /\ new.ent = Retired(me.ent) /\ new.then = "refused"
          BY <1>4, <3>4, <4>3 DEF Effect
        <5> QED BY <1>6, <3>4, <4>1, <5>1, <5>2 DEF Once, Holding
      <4>4. CASE Available(me.ent) /\ me.op = "consume"
        <5>1. me.ent.left = 1 /\ ~me.spentAtLoad
          BY <4>2, <4>4 DEF Available, Exhausted
        <5>2. /\ new.pc = "diff" /\ new.ent = Spent(me.ent) /\ new.then = "recheck"
              /\ new.spentAtLoad = me.spentAtLoad
          BY <1>4, <3>4, <4>4 DEF Effect
        <5> QED BY <1>6, <3>4, <4>1, <5>1, <5>2 DEF Once, Holding
      <4>5. CASE Available(me.ent) /\ me.op # "consume"
        <5>1. new.pc = "deprecate"
          BY <1>4, <3>4, <4>5 DEF Effect
        <5> QED BY <4>1, <5>1 DEF Once
      <4> QED BY <4>3, <4>4, <4>5
    <3>5. CASE me.pc = "recheck"
      <4>1. /\ me.tok = t /\ rows'[t] = rows[t] /\ new.spentAtLoad = me.spentAtLoad
            /\ \/ new.pc = "done" /\ new.ent = me.ent
               \/ new.pc = "diff" /\ new.ent = Retired(me.ent) /\ new.outcome = "none"
        BY <1>4, <3>1, <3>5 DEF Effect, Phases
      <4>2. me.ent.left = 0 /\ rows[t].left = 0 /\ ~me.spentAtLoad
            /\ Retired(me.ent).left = 0
        BY <1>4, <1>6, <3>5, <4>1 DEF Once, Holding
      <4> QED BY <4>1, <4>2 DEF Once
    <3>6. CASE me.pc = "diff"
      <4>1. /\ me.tok = t /\ rows'[t] = rows[t] /\ new.spentAtLoad = me.spentAtLoad
            /\ new.pc = "write" /\ new.ent = me.ent /\ new.then = me.then
            /\ new.outcome = "none"
            /\ "left" \in new.dirty <=> me.ent.left # rows[t].left
        BY <1>4, <3>1, <3>6 DEF Effect, Phases
      <4>2. Once(me, rows[t])
        BY <1>4, <4>1
      <4>3. me.ent.left = 0
        BY <3>6, <4>2 DEF Once
      <4> QED BY <3>6, <4>1, <4>2, <4>3 DEF Once
    <3>7. CASE me.pc = "write"
      <4>1. /\ me.tok = t /\ new.spentAtLoad = me.spentAtLoad /\ new.ent = me.ent
            /\ \/ new.pc = "recheck" /\ me.then = "recheck" /\ new.outcome = "none"
               \/ new.pc = "done" /\ new.outcome = me.then /\ me.then # "recheck"
            /\ rows'[t].left = IF "left" \in me.dirty THEN me.ent.left ELSE rows[t].left
        BY <1>4, <3>1, <3>7 DEF Effect, Phases
      <4>2. Once(me, rows[t])
        BY <1>4, <4>1
      <4>3. me.ent.left = 0 /\ rows'[t].left = 0
        BY <3>7, <4>1, <4>2 DEF Once
      <4>4. me.then # "refused" => ~me.spentAtLoad
        BY <3>7, <4>2 DEF Once
      <4> QED BY <4>1, <4>3, <4>4 DEF Once
    <3> QED BY <1>4, <3>2, <3>3, <3>4, <3>5, <3>6, <3>7 DEF Effect
  <2> QED BY <2>1, <2>2
<1> QED BY <1>1, <1>8, <1>9

\* Every step keeps what a second use is refused by.
LEMMA NextOnceInv == OnceInv /\ [Next]_vars => OnceInv'
<1> SUFFICES ASSUME OnceInv, [Next]_vars PROVE OnceInv'
  OBVIOUS
<1>1. CountsInv /\ TypeOK /\ \A q \in Request : Phases(req[q])
  BY DEF OnceInv, CountsInv
<1>2. CountsInv'
  BY <1>1, NextCountsInv
<1>3. ASSUME NEW q \in Request PROVE Phases(req[q])'
  BY <1>1, PhasesStay
<1>4. ASSUME NEW t \in Token, OneTimer(t)'
      PROVE  /\ Pristine(rows[t])'
             /\ \A q \in Request : req'[q].tok = t => Once(req[q], rows[t])'
  <2>1. ASSUME NEW r \in Request, Step(r), t \in created
        PROVE  OneTimer(t)
    <3>1. SameToken(rows'[t], rows[t])
      BY <1>1, <2>1, StepEffect
    <3>2. ~Touched(rows[t].scope)
      <4>1. PICK s : s = rows[t].scope
        OBVIOUS
      <4>2. rows'[t].scope = s
        BY <3>1, <4>1 DEF SameToken
      <4>3. ~Touched(s)'
        BY <1>4, <4>2 DEF OneTimer, Touched
      <4> QED BY <1>1, <4>1, <4>3, TouchedStays
    <3> QED BY <1>4, <2>1, <3>1, <3>2 DEF SameToken, OneTimer
  <2>2. ASSUME NEW r \in Request, Step(r), t \notin created
        PROVE  /\ Pristine(rows[t])'
               /\ \A q \in Request : req'[q].tok = t => Once(req[q], rows[t])'
    <3>1. t \in created'
      BY <1>4 DEF OneTimer
    <3>2. /\ Effect(req[r], req'[r])
          /\ \A q \in Request \ {r} : req'[q] = req[q]
      BY <1>1, <2>2, StepEffect
    <3>3. /\ req[r].pc = "create" /\ req'[r].pc = "done" /\ req'[r].outcome = "obtained"
          /\ rows'[t] = NewRow(req[r].scope, req[r].offer, now)
      BY <2>2, <3>1, <3>2 DEF Effect
    <3>4. Pristine(rows'[t])
      BY <1>4, <3>3 DEF NewRow, ExpiryOf, Pristine, OneTimer
    <3>5. ASSUME NEW q \in Request, req'[q].tok = t PROVE Once(req'[q], rows'[t])
      <4>1. CASE q = r
        BY <3>3, <4>1 DEF Once
      <4>2. CASE q # r
        <5>1. req'[q] = req[q] /\ req[q].tok \notin created
          BY <2>2, <3>2, <3>5, <4>2
        <5>2. /\ req'[q].pc \notin {"check", "diff", "write", "recheck"}
              /\ req'[q].outcome # "granted"
          BY <1>1, <5>1 DEF TypeOK, Phases
        <5> QED BY <5>2 DEF Once
      <4> QED BY <4>1, <4>2
    <3> QED BY <3>4, <3>5
  <2>3. ASSUME NEW r \in Request, Step(r)
        PROVE  /\ Pristine(rows[t])'
               /\ \A q \in Request : req'[q].tok = t => Once(req[q], rows[t])'
    <3>1. CASE t \in created
      BY <2>1, <2>3, <3>1, StepOnce
    <3>2. CASE t \notin created
      BY <2>2, <2>3, <3>2
    <3> QED BY <3>1, <3>2
  <2>4. ASSUME UNCHANGED <<created, rows>>
        PROVE  OneTimer(t)
    <3>1. PICK s : s = rows[t].scope
      OBVIOUS
    <3>2. ~Touched(s)'
      BY <1>4, <2>4, <3>1 DEF OneTimer, Touched
    <3>3. ~Touched(s)
      BY <1>1, <3>2, TouchedStays
    <3> QED BY <1>4, <2>4, <3>1, <3>3 DEF OneTimer
  <2>5. ASSUME NEW r \in Request, Begins(r)
        PROVE  /\ Pristine(rows[t])'
               /\ \A q \in Request : req'[q].tok = t => Once(req[q], rows[t])'
    <3>1. UNCHANGED <<created, rows>>
      BY <1>1, <2>5, BeginEffect
    <3>2. Pristine(rows[t]) /\ \A q \in Request : req[q].tok = t => Once(req[q], rows[t])
      BY <2>4, <3>1 DEF OnceInv
    <3>3. ASSUME NEW q \in Request, req'[q].tok = t PROVE Once(req'[q], rows'[t])
      <4>1. CASE q = r
        <5>1. req'[r].pc \in {"find", "deprecate", "load"} /\ req'[r].outcome = "none"
          BY <1>1, <2>5, BeginEffect DEF Opening, Phases
        <5> QED BY <4>1, <5>1 DEF Once
      <4>2. CASE q # r
        <5>1. Alike(req'[q], req[q])
          BY <1>1, <2>5, <4>2, BeginEffect
        <5> QED BY <3>1, <3>2, <3>3, <5>1 DEF Alike, Once
      <4> QED BY <4>1, <4>2
    <3> QED BY <3>1, <3>2, <3>3 DEF Pristine
  <2>6. CASE UNCHANGED <<created, rows, req>>
    <3>1. Pristine(rows[t]) /\ \A q \in Request : req[q].tok = t => Once(req[q], rows[t])
      BY <2>4, <2>6 DEF OnceInv
    <3> QED BY <2>6, <3>1 DEF Pristine, Once
  <2> QED BY <2>3, <2>5, <2>6 DEF Next, Begins, Tick, Quiet, vars
<1> QED BY <1>2, <1>3, <1>4 DEF OnceInv

\* Where deprecateToken leaves the scope alone, a consumeToken that reads a
\* OneTime token after another one of it was answered is refused.
THEOREM SecondUseRefused == Spec => []NoReuseAfterGrant
<1>1. OnceInv => NoReuseAfterGrant
  <2> SUFFICES ASSUME OnceInv, NEW r \in Request, req[r].outcome = "granted",
                      rows[req[r].tok].offer.type = "OneTime",
                      ~Touched(rows[req[r].tok].scope)
               PROVE  ~req[r].spentAtLoad
    BY DEF NoReuseAfterGrant
  <2>1. req[r].tok \in created /\ req[r].tok \in Token
    BY DEF OnceInv, CountsInv, TypeOK, Phases
  <2>2. OneTimer(req[r].tok)
    BY <2>1 DEF OneTimer
  <2> QED BY <2>1, <2>2 DEF OnceInv, Once
<1> QED BY <1>1, InitOnceInv, NextOnceInv, PTL DEF Spec

-----------------------------------------------------------------------------
(* Log-ins and refreshes, in a deployment that never calls consumeToken. *)

\* Two different requests under way that may insert or deprecate tokens of
\* one scope.
Rivals(p, q) ==
    /\ p.op # "consume" /\ q.op # "consume" /\ p.scope = q.scope
    /\ p.pc \notin {"idle", "done"} /\ q.pc \notin {"idle", "done"}

\* All the tokens of scope s are deprecated.
AllDeprecated(s) == \A t \in created : rows[t].scope = s => rows[t].deprecated

\* The inductive invariant behind LoneLoginRevokesOthers: rivals know of each
\* other, and a log-in without one finds the tokens of the scope as its
\* deprecateToken left them.
LoneInv ==
    /\ RetiringInv
    /\ \A q \in Request : Phases(req[q])
    /\ \A p, q \in Request : p # q /\ Rivals(req[p], req[q]) => req[p].overlap
    /\ \A q \in Request :
          /\ req[q].op \in {"login", "refresh"}
          /\ req[q].pc \in {"find", "create"}
          /\ ~req[q].overlap
          => AllDeprecated(req[q].scope)

\* No log-in has begun at the start.
LEMMA InitLoneInv == Init => LoneInv
<1> SUFFICES ASSUME Init PROVE LoneInv
  OBVIOUS
<1>1. \A q \in Request : req[q].pc = "idle"
  BY DEF Init, Idle
<1> QED BY <1>1, InitRetiringInv, InitUseInv DEF LoneInv, UseInv, Rivals

\* A step cannot be taken by a request that is idle or done, and where nobody
\* consumes only one about to create inserts a token.
LEMMA LoginStep ==
    ASSUME LoneInv, NEW r \in Request, Step(r)
    PROVE  /\ req[r].pc \notin {"idle", "done", "recheck"}
           /\ req[r].op # "consume"
           /\ req[r].pc # "create" => created' = created
           /\ req'[r].pc = "find" => req[r].pc = "deprecate"
           /\ req'[r].pc = "create" => req[r].pc = "find" /\ UNCHANGED <<created, rows>>
<1>1. TypeOK /\ OnlyRetiring(req[r])
  BY DEF LoneInv, RetiringInv
<1>2. Effect(req[r], req'[r])
  BY <1>1, StepEffect
<1> QED BY <1>1, <1>2 DEF OnlyRetiring, Effect

\* Without consumeToken every step keeps what a lone log-in relies on.
LEMMA NextLoneInv ==
    ASSUME "consume" \notin Flow
    PROVE  LoneInv /\ [Next]_vars => LoneInv'
<1> SUFFICES ASSUME LoneInv, [Next]_vars PROVE LoneInv'
  OBVIOUS
<1>1. TypeOK /\ RetiringInv /\ \A q \in Request : Phases(req[q])
  BY DEF LoneInv, RetiringInv
<1>2. RetiringInv' /\ \A q \in Request : Phases(req[q])'
  BY <1>1, NextRetiringInv, PhasesStay
<1>3. ASSUME NEW p \in Request, NEW q \in Request, p # q, Rivals(req'[p], req'[q])
      PROVE  req'[p].overlap
  <2>1. ASSUME NEW r \in Request, Begins(r) PROVE req'[p].overlap
    <3>1. CASE p # r /\ q # r
      <4>1. /\ Alike(req'[p], req[p]) /\ Alike(req'[q], req[q])
            /\ req[p].overlap => req'[p].overlap
        BY <1>1, <2>1, <3>1, BeginEffect
      <4> QED BY <1>3, <4>1 DEF Alike, Rivals, LoneInv
    <3>2. CASE p = r
      <4>1. Alike(req'[q], req[q])
        BY <1>1, <1>3, <2>1, <3>2, BeginEffect
      <4>2. q \in Busy(req'[p].scope)
        BY <1>3, <4>1 DEF Alike, Rivals, Busy, Active
      <4>3. req'[p].op # "consume"
        BY <1>3 DEF Rivals
      <4> QED BY <1>1, <2>1, <3>2, <4>2, <4>3, BeginEffect
    <3>3. CASE q = r
      <4>1. Alike(req'[p], req[p])
        BY <1>1, <1>3, <2>1, <3>3, BeginEffect
      <4>2. p \in Busy(req'[q].scope)
        BY <1>3, <4>1 DEF Alike, Rivals, Busy, Active
      <4>3. req'[q].op # "consume"
        BY <1>3 DEF Rivals
      <4> QED BY <1>1, <2>1, <3>3, <4>2, <4>3, BeginEffect
    <3> QED BY <3>1, <3>2, <3>3
  <2>2. ASSUME NEW r \in Request, Step(r) PROVE req'[p].overlap
    <3>1. \A x \in Request \ {r} : req'[x] = req[x]
      BY <1>1, <2>2, StepEffect
    <3>2. SameCall(req'[r], req[r]) /\ req[r].pc \notin {"idle", "done"}
      BY <1>1, <2>2, StepEffect, LoginStep
    <3>3. Rivals(req[p], req[q]) /\ req'[p].overlap = req[p].overlap
      <4>1. CASE p = r
        BY <1>3, <3>1, <3>2, <4>1 DEF Rivals, SameCall
      <4>2. CASE q = r
        BY <1>3, <3>1, <3>2, <4>2 DEF Rivals, SameCall
      <4>3. CASE p # r /\ q # r
        BY <1>3, <3>1, <4>3
      <4> QED BY <4>1, <4>2, <4>3
    <3> QED BY <1>3, <3>3 DEF LoneInv
  <2>3. ASSUME UNCHANGED req PROVE req'[p].overlap
    BY <1>3, <2>3 DEF LoneInv
  <2> QED BY <2>1, <2>2, <2>3 DEF Next, Begins, Tick, Quiet, vars
<1>4. ASSUME NEW q \in Request, req'[q].op \in {"login", "refresh"},
             req'[q].pc \in {"find", "create"}, ~req'[q].overlap,
             NEW t \in created', rows'[t].scope = req'[q].scope
      PROVE  rows'[t].deprecated
  <2>1. ASSUME NEW r \in Request, Begins(r) PROVE rows'[t].deprecated
    <3>1. UNCHANGED <<created, rows>>
      BY <1>1, <2>1, BeginEffect
    <3>2. q # r
      <4>1. Opening(req'[r])
        BY <1>1, <2>1, BeginEffect
      <4> QED BY <1>4, <4>1 DEF Opening
    <3>3. Alike(req'[q], req[q]) /\ ~req[q].overlap
      BY <1>1, <1>4, <2>1, <3>2, BeginEffect
    <3> QED BY <1>4, <3>1, <3>3 DEF Alike, LoneInv, AllDeprecated
  <2>2. ASSUME NEW r \in Request, Step(r) PROVE rows'[t].deprecated
    <3>0. /\ Effect(req[r], req'[r]) /\ SameCall(req'[r], req[r])
          /\ \A x \in Request \ {r} : req'[x] = req[x]
          /\ \A u \in created : SameToken(rows'[u], rows[u])
          /\ req[r].pc \notin {"idle", "done", "recheck"} /\ req[r].op # "consume"
          /\ req[r].pc # "create" => created' = created
          /\ req'[r].pc = "find" => req[r].pc = "deprecate"
          /\ req'[r].pc = "create" => req[r].pc = "find" /\ UNCHANGED <<created, rows>>
      BY <1>1, <2>2, StepEffect, LoginStep
    <3>1. CASE q = r
      <4>1. CASE req'[r].pc = "find"
        <5>1. /\ req[r].pc = "deprecate" /\ created' = created
              /\ req'[r].scope = req[r].scope
          BY <3>0, <4>1 DEF SameCall
        <5>2. rows[t].scope = rows'[t].scope
          BY <1>4, <3>0, <5>1 DEF SameToken
        <5> QED BY <1>4, <3>0, <3>1, <5>1, <5>2 DEF Effect
      <4>2. CASE req'[r].pc = "create"
        <5>1. /\ req[r].pc = "find" /\ UNCHANGED <<created, rows>>
              /\ req'[r].scope = req[r].scope /\ req'[r].op = req[r].op
              /\ req'[r].overlap = req[r].overlap
          BY <3>0, <4>2 DEF SameCall
        <5> QED BY <1>4, <3>1, <5>1 DEF LoneInv, AllDeprecated
      <4> QED BY <1>4, <3>1, <4>1, <4>2
    <3>2. CASE q # r
      <4>1. req'[q] = req[q]
        BY <3>0, <3>2
      <4>2. AllDeprecated(req[q].scope)
        BY <1>4, <4>1 DEF LoneInv
      <4>3. CASE t \in created
        <5>1. rows[t].scope = req[q].scope
          BY <1>4, <3>0, <4>1, <4>3 DEF SameToken
        <5> QED BY <1>1, <4>2, <4>3, <5>1, DeprecatedStays DEF AllDeprecated
      <4>4. CASE t \notin created
        <5>1. req[r].pc = "create" /\ rows'[t] = NewRow(req[r].scope, req[r].offer, now)
          BY <1>4, <3>0, <4>4 DEF Effect
        <5>2. req[r].scope = req[q].scope
          BY <1>4, <4>1, <5>1 DEF NewRow
        <5>3. Rivals(req[q], req[r])
          BY <1>4, <3>0, <4>1, <5>1, <5>2 DEF Rivals
        <5> QED BY <1>4, <3>2, <4>1, <5>3 DEF LoneInv
      <4> QED BY <4>3, <4>4
    <3> QED BY <3>1, <3>2
  <2>3. ASSUME UNCHANGED <<created, rows, req>> PROVE rows'[t].deprecated
    BY <1>4, <2>3 DEF LoneInv, AllDeprecated
  <2> QED BY <2>1, <2>2, <2>3 DEF Next, Begins, Tick, Quiet, vars
<1> QED BY <1>2, <1>3, <1>4 DEF LoneInv, AllDeprecated

\* A log-in or a refresh that nobody overlapped leaves no usable token of its
\* user but the one it returned.
THEOREM LoneLoginRevokes ==
    ASSUME "consume" \notin Flow
    PROVE  Spec => LoneLoginRevokesOthers
<1>1. ASSUME LoneInv, [Next]_vars, NEW r \in Request,
             req[r].op \in {"login", "refresh"}, req[r].outcome # "obtained",
             req'[r].outcome = "obtained", ~req'[r].overlap
      PROVE  Usable(req[r].scope)' \subseteq {req'[r].tok}
  <2>1. TypeOK /\ \A q \in Request : Phases(req[q])
    BY <1>1 DEF LoneInv, RetiringInv
  <2>2. ASSUME NEW x \in Request, Begins(x) PROVE FALSE
    <3>1. CASE x = r
      BY <1>1, <2>1, <2>2, <3>1, BeginEffect
    <3>2. CASE x # r
      <4>1. Alike(req'[r], req[r])
        BY <2>1, <2>2, <3>2, BeginEffect
      <4> QED BY <1>1, <4>1 DEF Alike
    <3> QED BY <3>1, <3>2
  <2>3. ASSUME NEW x \in Request, Step(x)
        PROVE  Usable(req[r].scope)' \subseteq {req'[r].tok}
    <3>1. x = r
      <4>1. x # r => req'[r] = req[r]
        BY <2>1, <2>3, StepEffect
      <4> QED BY <1>1, <4>1
    <3>2. /\ Effect(req[r], req'[r]) /\ SameCall(req'[r], req[r])
          /\ \A u \in created : SameToken(rows'[u], rows[u])
      BY <2>1, <2>3, <3>1, StepEffect
    <3>3. req[r].pc = "write" => req[r].then # "obtained"
      BY <2>1 DEF TypeOK, ReqType
    <3>4. \/ req[r].pc = "find" /\ req'[r].tok \in Usable(req[r].scope)
          \/ /\ req[r].pc = "create" /\ created' = created \cup {req'[r].tok}
             /\ \A u \in created : rows'[u] = rows[u]
      BY <1>1, <3>2, <3>3 DEF Effect
    <3>5. AllDeprecated(req[r].scope)
      BY <1>1, <3>2, <3>4 DEF LoneInv, SameCall
    <3>6. CASE req[r].pc = "find" /\ req'[r].tok \in Usable(req[r].scope)
      BY <3>5, <3>6 DEF AllDeprecated, Usable
    <3>7. CASE /\ created' = created \cup {req'[r].tok}
               /\ \A u \in created : rows'[u] = rows[u]
      <4> SUFFICES ASSUME NEW t \in Usable(req[r].scope)', t # req'[r].tok PROVE FALSE
        OBVIOUS
      <4>1. /\ t \in created' /\ ~rows'[t].deprecated
            /\ rows'[t].scope = req'[r].scope
        BY DEF Usable
      <4>2. t \in created /\ rows'[t] = rows[t]
        BY <3>7, <4>1
      <4> QED BY <3>2, <3>5, <4>1, <4>2 DEF AllDeprecated, SameCall
    <3> QED BY <3>4, <3>6, <3>7
  <2>4. ~UNCHANGED req
    BY <1>1
  <2> QED BY <1>1, <2>2, <2>3, <2>4 DEF Next, Begins, Tick, Quiet, vars
<1>2. LoneInv /\ [Next]_vars =>
        [\A r \in Request :
          /\ req[r].op \in {"login", "refresh"}
          /\ req[r].outcome # "obtained"
          /\ req'[r].outcome = "obtained"
          /\ ~req'[r].overlap
          => Usable(req[r].scope)' \subseteq {req'[r].tok}]_vars
  BY <1>1
<1> QED BY <1>2, InitLoneInv, NextLoneInv, PTL DEF Spec, LoneLoginRevokesOthers

\* What checkAvailable finds in a deployment without consumeToken: uses are
\* left, and what is marked expired is marked deprecated too.
Counted(e) == e.left # 0 /\ (e.expired => e.deprecated)

\* What a request knows of its token, whose row is row: as long as the row is
\* not deprecated it is about to be marked by nobody who would not mark it
\* expired as well.
Honest(q, row) ==
    /\ q.pc \in {"check", "diff", "write"} => Counted(q.ent)
    /\ q.pc = "write" => row.deprecated \/ "deprecated" \in q.dirty
    /\ ~row.deprecated =>
          /\ q.pc = "check" => ~q.ent.deprecated
          /\ q.pc \in {"diff", "write"} => q.ent.expired
          /\ q.pc = "write" => "expired" \in q.dirty

\* Request q will not hide the token it holds, whose row is row, but by marking
\* it expired.
LetsLive(q, row) ==
    /\ q.pc = "check" => (q.ent.deprecated => q.ent.expired)
    /\ q.pc \in {"diff", "write"} => q.ent.expired
    /\ q.pc = "write" => row.expired \/ "expired" \in q.dirty

\* Token t of scope s is usable or timed out, and only a later deprecateToken
\* can change that.
Alive(t, s) ==
    /\ t \in created
    /\ rows[t].scope = s
    /\ rows[t].deprecated => rows[t].expired
    /\ \A q \in Request : req[q].tok = t => LetsLive(req[q], rows[t])

\* A request of scope s that has its token, or one that is about to get it and
\* after whose deprecateToken none of the scope was called.
Hope(s) ==
    \/ \E q \in Request : /\ req[q].outcome = "obtained" /\ req[q].scope = s
                          /\ Alive(req[q].tok, s)
    \/ \E q \in Request : req[q].scope = s /\ req[q].pc \in {"find", "create"}

\* The inductive invariant behind LoginsLeaveAToken.
LoginInv ==
    /\ LoneInv
    /\ \A t \in created :
          /\ Counted(rows[t])
          /\ \A q \in Request : req[q].tok = t => Honest(req[q], rows[t])
    /\ \A s \in Scope :
          (\E q \in Request : req[q].outcome = "obtained" /\ req[q].scope = s) => Hope(s)

\* The counters callers pass never are zero: a fresh row has uses left.
LEMMA NewRowCounted ==
    ASSUME NEW s \in Scope, NEW o \in Offer, NEW t \in Nat
    PROVE  Counted(NewRow(s, o, t)) /\ ~NewRow(s, o, t).deprecated
           /\ NewRow(s, o, t).scope = s
<1>1. InitialLeft(o) # 0
  BY OfferAssumption, TimeAssumption DEF InitialLeft, Type
<1> QED BY <1>1 DEF NewRow, Counted

\* No log-in has begun at the start.
LEMMA InitLoginInv == Init => LoginInv
<1> SUFFICES ASSUME Init PROVE LoginInv
  OBVIOUS
<1>1. \A q \in Request : req[q].pc = "idle" /\ req[q].outcome = "none"
  BY DEF Init, Idle
<1>2. ASSUME NEW t \in created PROVE Counted(rows[t])
  <2>1. PICK s \in Scope, o \in Offer : rows[t] = NewRow(s, o, 0)
    BY TokenAssumption DEF Init
  <2> QED BY <2>1, NewRowCounted
<1> QED BY <1>1, <1>2, InitLoneInv DEF LoginInv, Honest

\* What checkAvailable makes of an entity it refuses.
LEMMA RefusedEntity ==
    ASSUME NEW e \in Row, Counted(e), ~Available(e)
    PROVE  /\ Counted(Retired(e)) /\ Retired(e).deprecated
           /\ ~e.deprecated => Retired(e).expired
           /\ e.expired => Retired(e).expired
<1>1. /\ Retired(e).deprecated /\ Retired(e).left = e.left
      /\ Retired(e).expired <=> e.expired \/ (~Flagged(e) /\ TimedOut(e))
  BY DEF Retired, Row
<1>2. ~e.deprecated => ~Flagged(e) /\ TimedOut(e)
  BY DEF Counted, Available, Exhausted, Flagged
<1> QED BY <1>1, <1>2 DEF Counted

\* A step in a deployment without consumeToken keeps every request honest.
LEMMA StepHonest ==
    ASSUME LoginInv, NEW r \in Request, Step(r), [Next]_vars
    PROVE  \A t \in created' :
              /\ Counted(rows[t])'
              /\ \A q \in Request : req'[q].tok = t => Honest(req[q], rows[t])'
<1>1. /\ TypeOK /\ RetiringInv /\ LoneInv
      /\ \A q \in Request : OnlyRetiring(req[q]) /\ req[q] \in ReqType
      /\ \A t \in created : rows[t] \in Row
      /\ created \subseteq Token
  BY DEF LoginInv, LoneInv, RetiringInv, TypeOK
<1>2. PICK me : me = req[r]
  OBVIOUS
<1>3. PICK new : new = req'[r]
  OBVIOUS
<1>4. /\ Effect(me, new)
      /\ \A q \in Request \ {r} : req'[q] = req[q]
      /\ me.pc \notin {"idle", "done", "recheck"} /\ me.op # "consume"
      /\ OnlyRetiring(me) /\ me \in ReqType
      /\ me.pc # "create" => created' = created
  BY <1>1, <1>2, <1>3, StepEffect, LoginStep
<1> SUFFICES ASSUME NEW t \in created'
             PROVE  /\ Counted(rows'[t])
                    /\ \A q \in Request : req'[q].tok = t => Honest(req'[q], rows'[t])
  BY DEF Counted, Honest
<1>5. CASE t \notin created
  <2>1. /\ me.pc = "create" /\ new.pc = "done"
        /\ rows'[t] = NewRow(me.scope, me.offer, now)
    BY <1>4, <1>5 DEF Effect
  <2>2. Counted(rows'[t])
    BY <1>1, <1>4, <2>1, NewRowCounted DEF ReqType, TypeOK
  <2>3. ASSUME NEW q \in Request, req'[q].tok = t
        PROVE  req'[q].pc \notin {"check", "diff", "write"}
    <3>1. CASE q = r
      BY <1>3, <2>1, <3>1
    <3>2. CASE q # r
      BY <1>1, <1>4, <1>5, <2>3, <3>2 DEF TypeOK
    <3> QED BY <3>1, <3>2
  <2> QED BY <2>2, <2>3 DEF Honest
<1>6. CASE t \in created
  <2>1. /\ Counted(rows[t]) /\ rows[t] \in Row
        /\ me.tok = t => Honest(me, rows[t])
        /\ rows[t].deprecated => rows'[t].deprecated
    BY <1>1, <1>2, <1>6, DeprecatedStays DEF LoginInv
  <2>2. Counted(rows'[t])
    <3>1. CASE me.pc = "write" /\ me.tok = t
      <4>1. /\ Counted(me.ent) /\ me.ent.deprecated
            /\ rows[t].deprecated \/ "deprecated" \in me.dirty
        BY <1>4, <2>1, <3>1 DEF Honest, OnlyRetiring
      <4>2. /\ rows'[t].left = IF "left" \in me.dirty THEN me.ent.left ELSE rows[t].left
            /\ rows'[t].deprecated = IF "deprecated" \in me.dirty THEN me.ent.deprecated
                                     ELSE rows[t].deprecated
        BY <1>4, <3>1 DEF Effect
      <4> QED BY <2>1, <4>1, <4>2 DEF Counted
    <3>2. CASE ~(me.pc = "write" /\ me.tok = t)
      <4>1. rows'[t].left = rows[t].left /\ rows'[t].expired = rows[t].expired
        BY <1>4, <1>6, <3>2 DEF Effect
      <4> QED BY <2>1, <4>1 DEF Counted
    <3> QED BY <3>1, <3>2
  <2>3. ASSUME NEW q \in Request, req'[q].tok = t PROVE Honest(req'[q], rows'[t])
    <3>1. CASE q # r
      <4>1. req'[q] = req[q] /\ Honest(req[q], rows[t])
        BY <1>4, <1>6, <2>3, <3>1 DEF LoginInv
      <4> QED BY <2>1, <4>1 DEF Honest
    <3>2. CASE q = r
      <4> SUFFICES Honest(new, rows'[t])
        BY <1>3, <3>2
      <4>1. new.tok = t
        BY <1>3, <2>3, <3>2
      <4>2. CASE me.pc = "load"
        <5>1. new.pc = "check" /\ new.ent = rows[t] /\ rows'[t] = rows[t]
          BY <1>4, <4>1, <4>2 DEF Effect
        <5> QED BY <2>1, <5>1 DEF Honest
      <4>3. CASE me.pc = "check" /\ new.pc = "diff"
        <5>1. /\ me.tok = t /\ rows'[t] = rows[t] /\ ~Available(me.ent)
              /\ new.ent = Retired(me.ent)
          BY <1>4, <4>1, <4>3 DEF Effect
        <5>2. Counted(me.ent) /\ me.ent \in Row /\ (~rows[t].deprecated => ~me.ent.deprecated)
          BY <1>4, <2>1, <4>3, <5>1 DEF Honest, ReqType
        <5> QED BY <4>3, <5>1, <5>2, RefusedEntity DEF Honest
      <4>4. CASE me.pc = "diff"
        <5>1. /\ me.tok = t /\ rows'[t] = rows[t] /\ new.ent = me.ent /\ new.pc = "write"
              /\ "expired" \in new.dirty <=> me.ent.expired # rows[t].expired
              /\ "deprecated" \in new.dirty <=> me.ent.deprecated # rows[t].deprecated
          BY <1>4, <4>1, <4>4 DEF Effect
        <5>2. /\ Counted(me.ent) /\ me.ent.deprecated
              /\ ~rows[t].deprecated => me.ent.expired
          BY <1>4, <2>1, <4>4, <5>1 DEF Honest, OnlyRetiring
        <5>3. ~rows[t].deprecated => "deprecated" \in new.dirty /\ "expired" \in new.dirty
          BY <2>1, <5>1, <5>2 DEF Counted
        <5> QED BY <5>1, <5>2, <5>3 DEF Honest
      <4>5. CASE new.pc \notin {"check", "diff", "write"}
        BY <4>5 DEF Honest
      <4> QED BY <1>4, <4>2, <4>3, <4>4, <4>5 DEF Effect
    <3> QED BY <3>1, <3>2
  <2> QED BY <2>2, <2>3
<1> QED BY <1>5, <1>6

\* Only deprecateToken of its scope ends the life of a token.
LEMMA StepAlive ==
    ASSUME LoginInv, NEW r \in Request, Step(r), [Next]_vars, NEW t, NEW s, Alive(t, s),
           req[r].pc = "deprecate" => req[r].scope # s
    PROVE  Alive(t, s)'
<1>1. /\ TypeOK /\ LoneInv /\ t \in created /\ rows[t].scope = s
      /\ \A q \in Request : req[q] \in ReqType
      /\ rows[t].deprecated => rows[t].expired
      /\ \A q \in Request : req[q].tok = t => LetsLive(req[q], rows[t])
  BY DEF LoginInv, LoneInv, RetiringInv, TypeOK, Alive
<1>2. PICK me : me = req[r]
  OBVIOUS
<1>3. PICK new : new = req'[r]
  OBVIOUS
<1>4. /\ Effect(me, new)
      /\ \A q \in Request \ {r} : req'[q] = req[q]
      /\ me.pc \notin {"idle", "done", "recheck"} /\ me.op # "consume" /\ me \in ReqType
      /\ created \subseteq created' /\ SameToken(rows'[t], rows[t])
      /\ me.tok = t => LetsLive(me, rows[t]) /\ Honest(me, rows[t])
      /\ me.pc = "deprecate" => me.scope # s
  BY <1>1, <1>2, <1>3, StepEffect, LoginStep DEF LoginInv
<1>5. /\ rows'[t].deprecated => rows'[t].expired
      /\ rows[t].expired => rows'[t].expired
  <2>1. CASE me.pc = "write" /\ me.tok = t
    <3>1. /\ me.ent.expired /\ (rows[t].expired \/ "expired" \in me.dirty)
          /\ rows'[t].expired = IF "expired" \in me.dirty THEN me.ent.expired
                                ELSE rows[t].expired
      BY <1>4, <2>1 DEF LetsLive, Effect
    <3> QED BY <3>1
  <2>2. CASE ~(me.pc = "write" /\ me.tok = t)
    <3>1. rows'[t].expired = rows[t].expired /\ (rows'[t].deprecated <=> rows[t].deprecated)
      BY <1>1, <1>4, <2>2 DEF Effect
    <3> QED BY <1>1, <3>1
  <2> QED BY <2>1, <2>2
<1>6. ASSUME NEW q \in Request, req'[q].tok = t PROVE LetsLive(req'[q], rows'[t])
  <2>1. CASE q # r
    BY <1>1, <1>4, <1>5, <1>6, <2>1 DEF LetsLive
  <2>2. CASE q = r
    <3> SUFFICES LetsLive(new, rows'[t])
      BY <1>3, <2>2
    <3>1. new.tok = t
      BY <1>3, <1>6, <2>2
    <3>2. CASE me.pc = "load"
      <4>1. new.pc = "check" /\ new.ent = rows[t]
        BY <1>4, <3>1, <3>2 DEF Effect
      <4> QED BY <1>1, <4>1 DEF LetsLive
    <3>3. CASE me.pc = "check" /\ new.pc = "diff"
      <4>1. me.tok = t /\ ~Available(me.ent) /\ new.ent = Retired(me.ent)
        BY <1>4, <3>1, <3>3 DEF Effect
      <4>2. /\ Counted(me.ent) /\ me.ent \in Row
            /\ me.ent.deprecated => me.ent.expired
        BY <1>4, <3>3, <4>1 DEF Honest, LetsLive, ReqType
      <4>3. new.ent.expired
        BY <4>1, <4>2, RefusedEntity
      <4> QED BY <3>3, <4>3 DEF LetsLive
    <3>4. CASE me.pc = "diff"
      <4>1. /\ me.tok = t /\ rows'[t] = rows[t] /\ new.ent = me.ent /\ new.pc = "write"
            /\ "expired" \in new.dirty <=> me.ent.expired # rows[t].expired
        BY <1>4, <3>1, <3>4 DEF Effect
      <4>2. me.ent.expired
        BY <1>4, <3>4, <4>1 DEF LetsLive
      <4>3. rows[t].expired \/ "expired" \in new.dirty
        BY <4>1, <4>2
      <4> QED BY <4>1, <4>2, <4>3 DEF LetsLive
    <3>5. CASE new.pc \notin {"check", "diff", "write"}
      BY <3>5 DEF LetsLive
    <3> QED BY <1>4, <3>2, <3>3, <3>4, <3>5 DEF Effect
  <2> QED BY <2>1, <2>2
<1> QED BY <1>1, <1>4, <1>5, <1>6 DEF Alive, SameToken

\* A usable token is alive.
LEMMA UsableAlive ==
    ASSUME LoginInv, NEW s, NEW t \in Usable(s)
    PROVE  Alive(t, s)
<1>1. /\ t \in created /\ rows[t].scope = s /\ ~rows[t].deprecated
      /\ \A q \in Request : req[q].tok = t => Honest(req[q], rows[t])
  BY DEF LoginInv, Usable
<1> QED BY <1>1 DEF Alive, Honest, LetsLive

\* A step of a request keeps the hope of every scope.
LEMMA StepHope ==
    ASSUME LoginInv, NEW r \in Request, Step(r), [Next]_vars, NEW s \in Scope,
           NEW p \in Request, req'[p].outcome = "obtained", req'[p].scope = s
    PROVE  Hope(s)'
<1>1. /\ TypeOK /\ LoneInv /\ \A q \in Request : Phases(req[q]) /\ req[q] \in ReqType
  BY DEF LoginInv, LoneInv, RetiringInv, TypeOK
<1>2. /\ Effect(req[r], req'[r]) /\ SameCall(req'[r], req[r])
      /\ \A q \in Request \ {r} : req'[q] = req[q]
      /\ req[r].pc \notin {"idle", "done", "recheck"}
  BY <1>1, StepEffect, LoginStep
<1>3. CASE req[r].pc = "deprecate" /\ req[r].scope = s
  <2>1. req'[r].pc = "find" /\ req'[r].scope = s
    BY <1>2, <1>3 DEF Effect, SameCall
  <2> QED BY <2>1 DEF Hope
<1>4. CASE req[r].pc = "find" /\ req[r].scope = s
  <2>1. req'[r].scope = s
    BY <1>2, <1>4 DEF SameCall
  <2>2. CASE req'[r].pc = "create"
    BY <2>1, <2>2 DEF Hope
  <2>3. CASE req'[r].pc # "create"
    <3>1. req'[r].outcome = "obtained" /\ req'[r].tok \in Usable(s)
      BY <1>2, <1>4, <2>3 DEF Effect
    <3>2. PICK t : t = req'[r].tok
      OBVIOUS
    <3>3. Alive(t, s)
      BY <3>1, <3>2, UsableAlive
    <3>4. Alive(t, s)'
      BY <1>4, <3>3, StepAlive
    <3>5. Alive(req[r].tok, s)'
      BY <3>2, <3>4 DEF Alive
    <3> QED BY <2>1, <3>1, <3>5 DEF Hope
  <2> QED BY <2>2, <2>3
<1>5. CASE req[r].pc = "create" /\ req[r].scope = s
  <2>1. PICK t : t = req'[r].tok
    OBVIOUS
  <2>2. /\ req'[r].scope = s /\ req'[r].outcome = "obtained" /\ req'[r].pc = "done"
        /\ t \in created' /\ t \notin created
        /\ rows'[t] = NewRow(s, req[r].offer, now)
    BY <1>2, <1>5, <2>1 DEF Effect, SameCall
  <2>3. ~rows'[t].deprecated /\ rows'[t].scope = s
    BY <1>1, <2>2, NewRowCounted DEF TypeOK, ReqType
  <2>4. ASSUME NEW q \in Request, req'[q].tok = t PROVE req'[q].pc \notin {"check", "diff", "write"}
    <3>1. CASE q = r
      BY <2>2, <3>1
    <3>2. CASE q # r
      BY <1>1, <1>2, <2>2, <2>4, <3>2 DEF TypeOK
    <3> QED BY <3>1, <3>2
  <2>5. Alive(req[r].tok, s)'
    BY <2>1, <2>2, <2>3, <2>4 DEF Alive, LetsLive
  <2> QED BY <2>2, <2>5 DEF Hope
<1>6. CASE ~(req[r].pc \in {"deprecate", "find", "create"} /\ req[r].scope = s)
  <2>1. p # r
    <3>1. CASE p = r
      <4>1. req[r].scope = s /\ req[r].pc \notin {"deprecate", "find", "create"}
        BY <1>2, <1>6, <3>1 DEF SameCall
      <4>2. req'[r].outcome # "obtained"
        BY <1>1, <1>2, <4>1 DEF Effect, Phases, ReqType
      <4> QED BY <3>1, <4>2
    <3> QED BY <3>1
  <2>2. req[p].outcome = "obtained" /\ req[p].scope = s
    BY <1>2, <2>1
  <2>3. Hope(s)
    BY <2>2 DEF LoginInv
  <2>4. ASSUME NEW q \in Request, req[q].outcome = "obtained", req[q].scope = s,
               Alive(req[q].tok, s)
        PROVE  Hope(s)'
    <3>1. q # r
      BY <1>1, <1>2, <2>4 DEF Phases
    <3>2. req'[q] = req[q]
      BY <1>2, <3>1
    <3>3. PICK t : t = req[q].tok
      OBVIOUS
    <3>4. Alive(t, s)'
      BY <1>6, <2>4, <3>3, StepAlive
    <3>5. Alive(req[q].tok, s)'
      BY <3>2, <3>3, <3>4 DEF Alive
    <3> QED BY <2>4, <3>2, <3>5 DEF Hope
  <2>5. ASSUME NEW q \in Request, req[q].scope = s, req[q].pc \in {"find", "create"}
        PROVE  Hope(s)'
    <3>1. q # r
      BY <1>6, <2>5
    <3> QED BY <1>2, <2>5, <3>1 DEF Hope
  <2> QED BY <2>3, <2>4, <2>5 DEF Hope
<1> QED BY <1>3, <1>4, <1>5, <1>6

\* Without consumeToken every step keeps what the last log-in relies on.
LEMMA NextLoginInv ==
    ASSUME "consume" \notin Flow
    PROVE  LoginInv /\ [Next]_vars => LoginInv'
<1> SUFFICES ASSUME LoginInv, [Next]_vars PROVE LoginInv'
  OBVIOUS
<1>1. TypeOK /\ LoneInv /\ \A q \in Request : Phases(req[q])
  BY DEF LoginInv, LoneInv, RetiringInv
<1>2. LoneInv'
  BY <1>1, NextLoneInv
<1>3. ASSUME NEW r \in Request, Step(r) PROVE LoginInv'
  <2>1. ASSUME NEW s \in Scope,
               \E q \in Request : req'[q].outcome = "obtained" /\ req'[q].scope = s
        PROVE  Hope(s)'
    BY <1>3, <2>1, StepHope
  <2> QED BY <1>2, <1>3, <2>1, StepHonest DEF LoginInv
<1>4. ASSUME NEW r \in Request, Begins(r) PROVE LoginInv'
  <2>1. /\ UNCHANGED <<created, rows>>
        /\ \A q \in Request \ {r} : Alike(req'[q], req[q])
        /\ req[r].pc = "idle" /\ req'[r].pc \in {"find", "deprecate", "load"}
        /\ req'[r].outcome = "none"
    BY <1>1, <1>4, BeginEffect DEF Opening, Phases
  <2>2. ASSUME NEW t \in created'
        PROVE  /\ Counted(rows[t])'
               /\ \A q \in Request : req'[q].tok = t => Honest(req[q], rows[t])'
    <3>1. ASSUME NEW q \in Request, req'[q].tok = t PROVE Honest(req[q], rows[t])'
      <4>1. CASE q = r
        BY <2>1, <4>1 DEF Honest
      <4>2. CASE q # r
        <5>1. Honest(req[q], rows[t])
          BY <2>1, <3>1, <4>2 DEF Alike, LoginInv
        <5> QED BY <2>1, <4>2, <5>1 DEF Alike, Honest
      <4> QED BY <4>1, <4>2
    <3> QED BY <2>1, <3>1 DEF LoginInv, Counted
  <2>3. ASSUME NEW t, NEW s, Alive(t, s) PROVE Alive(t, s)'
    <3>1. ASSUME NEW q \in Request, req'[q].tok = t PROVE LetsLive(req[q], rows[t])'
      <4>1. CASE q = r
        BY <2>1, <4>1 DEF LetsLive
      <4>2. CASE q # r
        <5>1. LetsLive(req[q], rows[t])
          BY <2>1, <2>3, <3>1, <4>2 DEF Alike, Alive
        <5> QED BY <2>1, <4>2, <5>1 DEF Alike, LetsLive
      <4> QED BY <4>1, <4>2
    <3> QED BY <2>1, <2>3, <3>1 DEF Alive
  <2>4. ASSUME NEW s \in Scope, NEW p \in Request,
               req'[p].outcome = "obtained", req'[p].scope = s
        PROVE  Hope(s)'
    <3>1. p # r
      BY <2>1, <2>4
    <3>2. Hope(s)
      BY <2>1, <2>4, <3>1 DEF Alike, LoginInv
    <3>3. ASSUME NEW q \in Request, req[q].outcome = "obtained", req[q].scope = s,
                 Alive(req[q].tok, s)
          PROVE  Hope(s)'
      <4>1. q # r
        BY <1>1, <2>1, <3>3 DEF Phases
      <4>2. Alike(req'[q], req[q])
        BY <2>1, <4>1
      <4>3. PICK t : t = req[q].tok
        OBVIOUS
      <4>4. Alive(t, s)'
        BY <2>3, <3>3, <4>3
      <4>5. Alive(req[q].tok, s)'
        BY <4>2, <4>3, <4>4 DEF Alive, Alike
      <4> QED BY <3>3, <4>2, <4>5 DEF Hope, Alike
    <3>4. ASSUME NEW q \in Request, req[q].scope = s, req[q].pc \in {"find", "create"}
          PROVE  Hope(s)'
      <4>1. q # r
        BY <2>1, <3>4
      <4> QED BY <2>1, <3>4, <4>1 DEF Alike, Hope
    <3> QED BY <3>2, <3>3, <3>4 DEF Hope
  <2> QED BY <1>2, <2>2, <2>4 DEF LoginInv
<1>5. CASE UNCHANGED <<created, rows, req>>
  <2>1. \A s : Hope(s)' <=> Hope(s)
    BY <1>5 DEF Hope, Alive, LetsLive
  <2> QED BY <1>2, <1>5, <2>1 DEF LoginInv, Counted, Honest
<1> QED BY <1>3, <1>4, <1>5 DEF Next, Begins, Tick, Quiet, vars

\* However log-ins and refreshes overlap, when all of a user are answered one
\* answer holds a token that is usable unless it timed out.
THEOREM LoginsLeaveOne ==
    ASSUME "consume" \notin Flow
    PROVE  Spec => []LoginsLeaveAToken
<1>1. LoginInv => LoginsLeaveAToken
  <2> SUFFICES ASSUME LoginInv, NEW s \in Scope, Busy(s) = {},
                      NEW p \in Request, req[p].outcome = "obtained", req[p].scope = s
               PROVE  \E r \in {x \in Request : /\ req[x].outcome = "obtained"
                                               /\ req[x].scope = s} :
                         \/ req[r].tok \in Usable(s)
                         \/ rows[req[r].tok].expired
    BY DEF LoginsLeaveAToken
  <2>1. \A q \in Request : req[q].op # "consume"
    BY DEF LoginInv, LoneInv, RetiringInv, OnlyRetiring
  <2>2. Hope(s)
    BY DEF LoginInv
  <2>3. ~ \E q \in Request : req[q].scope = s /\ req[q].pc \in {"find", "create"}
    BY <2>1 DEF Busy, Active
  <2>4. PICK q \in Request : /\ req[q].outcome = "obtained" /\ req[q].scope = s
                             /\ Alive(req[q].tok, s)
    BY <2>2, <2>3 DEF Hope
  <2>5. req[q].tok \in Usable(s) \/ rows[req[q].tok].expired
    BY <2>4 DEF Alive, Usable
  <2> QED BY <2>4, <2>5
<1> QED BY <1>1, InitLoginInv, NextLoginInv, PTL DEF Spec
=============================================================================
