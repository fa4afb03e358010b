------------------------ MODULE OperationTokenProps ------------------------
(***************************************************************************)
(* What the operation tokens promise, stated over module OperationToken.   *)
(***************************************************************************)
EXTENDS OperationToken

ReqType == [pc : Pc, op : {"none"} \cup Flow, scope : Scope, offer : Offer,
            tok : Token, ent : Row, dirty : SUBSET Column,
            then : {"recheck", "granted", "refused"}, outcome : Outcome,
            overlap : BOOLEAN, spentAtLoad : BOOLEAN, begunAt : Nat]

\* Types: rows and requests hold well-formed columns, and a request that is
\* about to save holds an entity of a row that exists (token/helper.ts loads
\* the entity before it checks, counts or saves it).
TypeOK ==
    /\ created \subseteq Token
    /\ rows \in [Token -> Row]
    /\ req \in [Request -> ReqType]
    /\ now \in Nat
    /\ \A r \in Request : req[r].pc \in {"load", "check", "diff", "write", "recheck"}
                            => req[r].tok \in created

\* Entity or row e accounts for all the uses its offer granted.
Accounted(e) ==
    InitialLeft(e.offer) \in Nat =>
        /\ e.left \in Nat
        /\ e.left + e.used = InitialLeft(e.offer)

\* consumeToken writes remainingCount and usedCount of a token together or
\* not at all, whatever stale entities are saved over each other: what is left
\* and what is used always add up to what was granted.
CountsConserved == \A t \in created : Accounted(rows[t])

\* Tokens of scope s may have been marked by deprecateToken: a log-in or a
\* refresh of the scope has begun.
Touched(s) == \E q \in Request : /\ req[q].op \in {"login", "refresh"}
                                 /\ req[q].scope = s

\* A consumeToken that reads a OneTime token after another consumeToken of it
\* was answered with success is never answered with success itself, unless
\* deprecateToken marks tokens of the scope: then a consumer that loaded the
\* marked row writes remainingCount back, and another one takes back the mark.
NoReuseAfterGrant ==
    \A r \in Request :
        /\ req[r].outcome = "granted"
        /\ rows[req[r].tok].offer.type = "OneTime"
        /\ ~Touched(rows[req[r].tok].scope)
        => ~req[r].spentAtLoad

\* A request that begins after the expiry of a token neither consumes it nor
\* refreshes a session with it, even if a stale save cleared its isExpired flag.
NoUseAfterExpiry ==
    \A r \in Request :
        /\ req[r].op \in {"consume", "refresh"}
        /\ req[r].outcome \in {"granted", "obtained"}
        => \/ req[r].ent.expiredAt = Null
           \/ req[r].begunAt <= req[r].ent.expiredAt

\* In a deployment whose requests only log in and refresh (what this
\* repository does by itself) a deprecated token is never usable again.
DeprecationIsFinal ==
    [][\A t \in created : rows[t].deprecated => rows'[t].deprecated]_vars

\* A log-in or refresh that no other one of the same user overlapped leaves
\* no usable refresh token but the one it returned.
LoneLoginRevokesOthers ==
    [][\A r \in Request :
          /\ req[r].op \in {"login", "refresh"}
          /\ req[r].outcome # "obtained"
          /\ req'[r].outcome = "obtained"
          /\ ~req'[r].overlap
          => Usable(req[r].scope)' \subseteq {req'[r].tok}]_vars

\* However the log-ins and refreshes of a user overlap, once all are answered
\* one of the answers holds a refresh token that is usable, unless it timed
\* out: they never deprecate each other's tokens and leave none.
LoginsLeaveAToken ==
    \A s \in Scope :
        LET answered == {r \in Request : /\ req[r].outcome = "obtained"
                                         /\ req[r].scope = s}
        IN  Busy(s) = {} /\ answered # {} =>
                \E r \in answered : \/ req[r].tok \in Usable(s)
                                     \/ rows[req[r].tok].expired

\* "There is only one usable token of a service under one key"
\* (token/helper.ts:155): the claim of the comment on redeemTokens.
OneUsablePerKey == \A s \in Scope : Cardinality(Usable(s)) <= 1

\* "OneTime - one use, no time limit" (token/entities.ts:49).
OneTimeUsedOnce ==
    \A t \in created :
        rows[t].offer.type = "OneTime" =>
            Cardinality({r \in Request : /\ req[r].outcome = "granted"
                                         /\ req[r].tok = t}) <= 1
=============================================================================
