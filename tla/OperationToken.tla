--------------------------- MODULE OperationToken ---------------------------
(***************************************************************************)
(* The operation tokens of src/src/modules/core/token and the login and    *)
(* refresh flows of core/auth that are built on them.                      *)
(*                                                                         *)
(* A token is a row of table sys__t_operation_tokens.  Every static method *)
(* of OperationTokenHelper is a sequence of database round trips; between  *)
(* two of them any other request, of this or of another server instance,   *)
(* may run.  A request is modelled as a one-shot process: it begins with   *)
(* one call and ends with its answer, so the set Request bounds a run.     *)
(*                                                                         *)
(* entity.save() of TypeORM is two round trips: a SELECT of the row, with  *)
(* which the changed columns of the entity are computed (SaveDiff), and an *)
(* UPDATE of those columns (SaveWrite).  A column whose value in memory is *)
(* stale counts as changed.                                                *)
(***************************************************************************)
EXTENDS Naturals, FiniteSets

CONSTANTS
    Token,      \* the rows that may come to exist
    Issued,     \* those that earlier requests inserted, not used yet
    Scope,      \* the values of (key, role, identifier, service)
    Request,    \* the requests of all server instances
    Offer,      \* the options callers pass to obtainToken: type, count, life
    Flow,       \* the calls the requests of a deployment make
    MaxTime,    \* bound of the clock
    Null        \* SQL NULL

Type == {"OneTime", "MultiTimes", "TimeBased", "Unlimited"}

ASSUME OfferAssumption ==
    /\ Offer \subseteq [type  : Type,
                        count : (Nat \ {0}) \cup {Null},
                        life  : Nat \cup {Null}]
    /\ \A o \in Offer : o.type = "TimeBased" => o.life \in Nat

ASSUME TokenAssumption ==
    /\ Token \subseteq Nat /\ Token # {} /\ Issued \subseteq Token
    /\ Scope # {} /\ Offer # {}

ASSUME FlowAssumption == Flow \subseteq {"obtain", "login", "refresh", "consume"}

ASSUME TimeAssumption == MaxTime \in Nat /\ Null \notin Nat

VARIABLES
    created,    \* the rows of the table
    rows,       \* their columns
    req,        \* the requests: program counter and local variables
    now         \* the wall clock

vars == <<created, rows, req, now>>

-----------------------------------------------------------------------------
(* The table. *)

\* The columns a save() may write; the others never change after the insert.
Column == {"left", "used", "expired", "deprecated"}

Row == [scope      : Scope,
        offer      : Offer,
        left       : Nat \cup {Null},
        used       : Nat,
        expiredAt  : Nat \cup {Null},
        expired    : BOOLEAN,
        deprecated : BOOLEAN,
        updatedAt  : Nat]

InitialLeft(o) ==
    CASE o.type = "OneTime"                    -> 1
      [] o.type \in {"MultiTimes", "TimeBased"} -> o.count
      [] o.type = "Unlimited"                  -> Null

ExpiryOf(o, t) == IF o.type = "TimeBased" THEN t + o.life ELSE Null

NewRow(s, o, t) ==
    [scope |-> s, offer |-> o, left |-> InitialLeft(o), used |-> 0,
     expiredAt |-> ExpiryOf(o, t), expired |-> FALSE, deprecated |-> FALSE,
     updatedAt |-> t]

\* The rows redeemTokens finds: by flag only, the expiry time is not looked at.
Usable(s) == {t \in created : /\ rows[t].scope = s
                              /\ ~rows[t].deprecated
                              /\ ~rows[t].expired}

\* The heads ORDER BY updatedAt DESC may yield.
Newest(S) == {t \in S : \A u \in S : rows[u].updatedAt <= rows[t].updatedAt}

\* Faulty: only the flag isExpired counts, not the clock.
TimedOutByFlag(e) == e.expired

\* Faulty: what remains is not looked at.
ExhaustedNever(e) == FALSE

\* What checkAvailable finds wrong with an entity, looking at the clock.
Flagged(e)   == e.expired \/ e.deprecated
TimedOut(e)  == e.expiredAt # Null /\ e.expiredAt < now
Exhausted(e) == e.left = 0
Available(e) == ~Flagged(e) /\ ~TimedOut(e) /\ ~Exhausted(e)

\* Faulty: an expired token is not marked deprecated as well.
RetiredExpiredOnly(e) == [e EXCEPT !.expired = TRUE]

\* The entity checkAvailable saves when it answers false.
Retired(e) == [e EXCEPT !.deprecated = TRUE,
                        !.expired = @ \/ (~Flagged(e) /\ TimedOut(e))]

\* Faulty: the use is not counted.
SpentUncounted(e) == [e EXCEPT !.left = IF @ \in Nat \ {0} THEN @ - 1 ELSE @]

\* The entity consumeToken saves.
Spent(e) == [e EXCEPT !.left = IF @ \in Nat \ {0} THEN @ - 1 ELSE @,
                      !.used = @ + 1]

-----------------------------------------------------------------------------
(* The requests. *)

Pc == {"idle", "deprecate", "find", "create", "load", "check", "diff",
       "write", "recheck", "done"}

Outcome == {"none", "obtained", "granted", "refused"}

\* A request that is between its begin and its answer.
Active(r) == req[r].pc \notin {"idle", "done"}

\* Requests that may insert or deprecate tokens of scope s.
Busy(s) == {r \in Request : Active(r) /\ req[r].op # "consume" /\ req[r].scope = s}

Finish(r, outcome) == [req[r] EXCEPT !.pc = "done", !.outcome = outcome]

\* Request r starts as mine says, unless this deployment never makes the call.
\* Field overlap remembers that, at some moment of the request, another one
\* that may insert or deprecate tokens of its scope was under way.
Begin(r, mine, others) ==
    /\ req[r].pc = "idle"
    /\ mine.op \in Flow
    /\ req' = [q \in Request |->
                  IF q = r THEN [mine EXCEPT !.begunAt = now,
                                             !.overlap = others # {}]
                  ELSE IF q \in others THEN [req[q] EXCEPT !.overlap = TRUE]
                  ELSE req[q]]
    /\ UNCHANGED <<created, rows, now>>

\* obtainToken
BeginObtain(r) ==
    \E s \in Scope, o \in Offer :
        Begin(r, [req[r] EXCEPT !.op = "obtain", !.pc = "find",
                                !.scope = s, !.offer = o], Busy(s))

\* Faulty: the tokens before are not deprecated.
BeginLoginKeepsTokens(r) ==
    \E s \in Scope, o \in Offer :
        Begin(r, [req[r] EXCEPT !.op = "login", !.pc = "find",
                                !.scope = s, !.offer = o], Busy(s))

\* TokenHelper.createToken of a log-in, and the otp of an administrator.
BeginLogin(r) ==
    \E s \in Scope, o \in Offer :
        Begin(r, [req[r] EXCEPT !.op = "login", !.pc = "deprecate",
                                !.scope = s, !.offer = o], Busy(s))

\* POST refresh-token: the token comes from the body, the user from the JWT.
\* A token that does not exist is refused without any effect and left out.
BeginRefresh(r) ==
    \E s \in Scope, o \in Offer, t \in created :
        Begin(r, [req[r] EXCEPT !.op = "refresh", !.pc = "load",
                                !.scope = s, !.offer = o, !.tok = t], Busy(s))

\* Faulty: the token need not exist.
BeginConsumeUnfound(r) ==
    \E t \in Token :
        Begin(r, [req[r] EXCEPT !.op = "consume", !.pc = "load", !.tok = t], {})

\* consumeToken
BeginConsume(r) ==
    \E t \in created :
        Begin(r, [req[r] EXCEPT !.op = "consume", !.pc = "load", !.tok = t], {})

\* deprecateToken: one UPDATE of every row of the scope.
Deprecate(r) ==
    /\ req[r].pc = "deprecate"
    /\ rows' = [t \in Token |->
                  IF t \in created /\ rows[t].scope = req[r].scope
                  THEN [rows[t] EXCEPT !.deprecated = TRUE, !.updatedAt = now]
                  ELSE rows[t]]
    /\ req' = [req EXCEPT ![r].pc = "find"]
    /\ UNCHANGED <<created, now>>

\* Faulty: deprecated tokens are found as well.
FindAnyExisting(r) ==
    /\ req[r].pc = "find"
    /\ \E t \in Newest({u \in created : rows[u].scope = req[r].scope}) :
          req' = [req EXCEPT ![r] = [Finish(r, "obtained") EXCEPT !.tok = t]]
    /\ UNCHANGED <<created, rows, now>>

\* obtainToken returns the newest token redeemTokens finds ...
FindExisting(r) ==
    /\ req[r].pc = "find"
    /\ \E t \in Newest(Usable(req[r].scope)) :
          req' = [req EXCEPT ![r] = [Finish(r, "obtained") EXCEPT !.tok = t]]
    /\ UNCHANGED <<created, rows, now>>

\* ... and decides to insert one when there is none.
FindNone(r) ==
    /\ req[r].pc = "find"
    /\ Usable(req[r].scope) = {}
    /\ req' = [req EXCEPT ![r].pc = "create"]
    /\ UNCHANGED <<created, rows, now>>

\* The insert; rows are numbered in the order of their inserts.
Create(r) ==
    /\ req[r].pc = "create"
    /\ \E t \in Token \ created :
          /\ \A u \in Token \ created : t <= u
          /\ created' = created \cup {t}
          /\ rows' = [rows EXCEPT ![t] = NewRow(req[r].scope, req[r].offer, now)]
          /\ req' = [req EXCEPT ![r] = [Finish(r, "obtained") EXCEPT !.tok = t]]
    /\ UNCHANGED now

\* getTokenByToken; field spentAtLoad remembers that the token had already
\* been consumed by a request that was answered.
Load(r) ==
    LET t == req[r].tok
    IN  /\ req[r].pc = "load"
        /\ req' = [req EXCEPT ![r].pc = "check",
                              ![r].ent = rows[t],
                              ![r].spentAtLoad = \E q \in Request :
                                                    /\ req[q].outcome = "granted"
                                                    /\ req[q].tok = t]
        /\ UNCHANGED <<created, rows, now>>

\* The first checkAvailable answers false: the entity is marked and saved.
CheckRefuses(r) ==
    /\ req[r].pc = "check"
    /\ ~Available(req[r].ent)
    /\ req' = [req EXCEPT ![r].pc = "diff", ![r].then = "refused",
                          ![r].ent = Retired(req[r].ent)]
    /\ UNCHANGED <<created, rows, now>>

\* It answers true: consumeToken counts the use, refreshToken logs in again.
CheckPasses(r) ==
    /\ req[r].pc = "check"
    /\ Available(req[r].ent)
    /\ req' = [req EXCEPT ![r] =
          IF req[r].op = "consume"
          THEN [@ EXCEPT !.pc = "diff", !.then = "recheck",
                         !.ent = Spent(req[r].ent)]
          ELSE [@ EXCEPT !.pc = "deprecate"]]
    /\ UNCHANGED <<created, rows, now>>

\* The second checkAvailable of consumeToken, whose answer is not used.
Recheck(r) ==
    /\ req[r].pc = "recheck"
    /\ req' = [req EXCEPT ![r] =
          IF Available(req[r].ent)
          THEN Finish(r, "granted")
          ELSE [@ EXCEPT !.pc = "diff", !.then = "granted",
                         !.ent = Retired(req[r].ent)]]
    /\ UNCHANGED <<created, rows, now>>

\* save(), first round trip: which columns differ from the row.
SaveDiff(r) ==
    /\ req[r].pc = "diff"
    /\ req' = [req EXCEPT ![r].pc = "write",
                          ![r].dirty = {c \in Column :
                                          req[r].ent[c] # rows[req[r].tok][c]}]
    /\ UNCHANGED <<created, rows, now>>

\* The row with the columns cs of entity e written over it.
Overwritten(row, e, cs) ==
    [row EXCEPT !.left       = IF "left" \in cs THEN e.left ELSE @,
                !.used       = IF "used" \in cs THEN e.used ELSE @,
                !.expired    = IF "expired" \in cs THEN e.expired ELSE @,
                !.deprecated = IF "deprecated" \in cs THEN e.deprecated ELSE @,
                !.updatedAt  = IF cs = {} THEN @ ELSE now]

\* save(), second round trip: the UPDATE of those columns.
SaveWrite(r) ==
    LET t == req[r].tok
    IN  /\ req[r].pc = "write"
        /\ rows' = [rows EXCEPT ![t] = Overwritten(@, req[r].ent, req[r].dirty)]
        /\ req' = [req EXCEPT ![r] = IF req[r].then = "recheck"
                                     THEN [@ EXCEPT !.pc = "recheck"]
                                     ELSE Finish(r, req[r].then)]
        /\ UNCHANGED <<created, now>>

Tick ==
    /\ now < MaxTime
    /\ now' = now + 1
    /\ UNCHANGED <<created, rows, req>>

\* Everything was answered.
Quiet ==
    /\ now = MaxTime
    /\ \A r \in Request : req[r].pc = "done"
    /\ UNCHANGED vars

-----------------------------------------------------------------------------
\* Init: the issued tokens are of any scope and offer, everything else is blank.
\* The values of the columns of rows that do not exist, and of the local
\* variables of requests that have not begun, are never read.
BlankRow == NewRow(CHOOSE s \in Scope : TRUE, CHOOSE o \in Offer : TRUE, 0)

Idle(t) ==
    [pc |-> "idle", op |-> "none", scope |-> BlankRow.scope,
     offer |-> BlankRow.offer, tok |-> t, ent |-> BlankRow, dirty |-> {},
     then |-> "refused", outcome |-> "none", overlap |-> FALSE,
     spentAtLoad |-> FALSE, begunAt |-> 0]

Init ==
    /\ created = Issued
    /\ rows \in [Token -> {NewRow(s, o, 0) : s \in Scope, o \in Offer}]
    /\ \A t \in Token \ Issued : rows[t] = BlankRow
    /\ req = [r \in Request |-> Idle(CHOOSE t \in Token : TRUE)]
    /\ now = 0

Step(r) ==
    \/ Deprecate(r) \/ FindExisting(r) \/ FindNone(r) \/ Create(r)
    \/ Load(r) \/ CheckRefuses(r) \/ CheckPasses(r) \/ Recheck(r)
    \/ SaveDiff(r) \/ SaveWrite(r)

Next ==
    \/ \E r \in Request : \/ BeginObtain(r) \/ BeginLogin(r)
                          \/ BeginRefresh(r) \/ BeginConsume(r)
                          \/ Step(r)
    \/ Tick
    \/ Quiet

Spec == Init /\ [][Next]_vars
=============================================================================
