------------------------------ MODULE Friends ------------------------------
(***************************************************************************)
(* Relations between users (interaction.controller.ts): who asks, and the  *)
(* answers of both.                                                        *)
(*                                                                         *)
(* A relation is a row of the requester and the profile he asks; there is  *)
(* one for either direction, nothing makes it unique, and none is ever     *)
(* deleted.  Rows are found first and written later.  Only accept opens a  *)
(* transaction, and looks for the row of the other direction outside of    *)
(* it.  Its statement about a row makes others wait for that row until the *)
(* transaction ends; when two wait for each other, the database ends one.  *)
(***************************************************************************)
EXTENDS Integers, FiniteSets

CONSTANTS
    User, Row,      \* the users, and the rows there may be
    Request,        \* the requests at work at a time
    MaxFail         \* bound of the requests that break off

FriendsAssumption == Cardinality(User) >= 2 /\ "none" \notin User /\ MaxFail \in Nat

VARIABLES
    rel,            \* the table: the profile, requester and type of a row
    req,            \* the requests: where they are, whom they are about, the row
                    \* and type they save, and what their transaction wrote so far
    unblocked,      \* remembers who was unblocked by whom,
    touched,        \* who was ignored or blocked,
    fails           \* and how many requests broke off

vars == <<rel, req, unblocked, touched, fails>>

NoRow == [profile |-> "none", requester |-> "none", type |-> "none"]
Idle  == [pc |-> "idle", accepts |-> FALSE, profile |-> "none", requester |-> "none",
          row |-> "none", type |-> "none", wrote |-> {}]

Init ==
    /\ rel = [r \in Row |-> NoRow]
    /\ req = [q \in Request |-> Idle]
    /\ unblocked = {} /\ touched = {} /\ fails = 0

\* The rows in which a requester asks a profile.
Of(profile, requester) ==
    {r \in Row : rel[r].profile = profile /\ rel[r].requester = requester}

Pair(r) == <<rel[r].profile, rel[r].requester>>

\* The rows that transactions of others wrote and have not committed yet.
Locked(q) == UNION {req[p].wrote : p \in Request \ {q}}

-----------------------------------------------------------------------------
(* The requests of a user, each with the row it finds. *)

\* A row is found and given its new type, in memory.
Save(q, accepts, r, type) ==
    /\ req[q] = Idle /\ rel[r] # NoRow
    /\ req' = [req EXCEPT ![q] = [pc |-> "diff", accepts |-> accepts,
                                  profile |-> rel[r].profile,
                                  requester |-> rel[r].requester,
                                  row |-> r, type |-> type, wrote |-> {}]]

\* request: a row that is there is only changed when it was ignored.
Ask(q, me, other) ==
    /\ req[q] = Idle /\ me # other
    /\ \/ /\ Of(other, me) = {}
          /\ req' = [req EXCEPT ![q] = [Idle EXCEPT !.pc = "insert", !.type = "request",
                                                    !.profile = other, !.requester = me]]
       \/ \E r \in Of(other, me) : rel[r].type = "ignored" /\ Save(q, FALSE, r, "request")
    /\ UNCHANGED <<rel, unblocked, touched, fails>>

\* accept and ignore: its profile names the row, whatever the type.
Accept(q, r) ==
    /\ Save(q, TRUE, r, "accepted")
    /\ UNCHANGED <<rel, unblocked, touched, fails>>

Ignore(q, r) ==
    /\ Save(q, FALSE, r, "ignored") /\ touched' = touched \cup {Pair(r)}
    /\ UNCHANGED <<rel, unblocked, fails>>

\* block and unblock: the row by which the caller asked the other one.
Block(q, r) ==
    /\ Save(q, FALSE, r, "blocked") /\ touched' = touched \cup {Pair(r)}
    /\ UNCHANGED <<rel, unblocked, fails>>

Unblock(q, r) ==
    /\ Save(q, FALSE, r, "accepted") /\ unblocked' = unblocked \cup {Pair(r)}
    /\ UNCHANGED <<rel, touched, fails>>

-----------------------------------------------------------------------------
(* The round trips that follow. *)

\* Faulty: accept without its transaction.
FaultyInTransaction(q) == FALSE

\* Whether what is written waits for a commit.
InTransaction(q) == req[q].accepts

\* The row is saved: accept goes on with the other direction, and then commits.
Saved(q) ==
    IF ~req[q].accepts THEN Idle
    ELSE IF req[q].row \in Of(req[q].profile, req[q].requester)
         THEN [req[q] EXCEPT !.pc = "reverse"]
         ELSE [req[q] EXCEPT !.pc = "commit"]

\* save reads the row to see what differs from it: nothing does,
DiffNone(q) ==
    /\ req[q].pc = "diff" /\ rel[req[q].row].type = req[q].type
    /\ req' = [req EXCEPT ![q] = Saved(q)]
    /\ UNCHANGED <<rel, unblocked, touched, fails>>

\* or the type does,
Diff(q) ==
    /\ req[q].pc = "diff" /\ rel[req[q].row].type # req[q].type
    /\ req' = [req EXCEPT ![q].pc = "write"]
    /\ UNCHANGED <<rel, unblocked, touched, fails>>

\* and is written, once no transaction of others holds the row.
Write(q) ==
    LET r == req[q].row
    IN  /\ req[q].pc = "write" /\ r \notin Locked(q)
        /\ IF InTransaction(q)
           THEN /\ req' = [req EXCEPT ![q] = [Saved(q) EXCEPT !.wrote = @ \cup {r}]]
                /\ UNCHANGED rel
           ELSE /\ req' = [req EXCEPT ![q] = Saved(q)]
                /\ rel' = [rel EXCEPT ![r].type = req[q].type]
        /\ UNCHANGED <<unblocked, touched, fails>>

\* Two transactions wait for each other's row: the database ends one.
Deadlock(q) ==
    /\ req[q].pc = "write"
    /\ \E p \in Request : /\ req[p].pc = "write" /\ req[p].row \in req[q].wrote
                          /\ req[q].row \in req[p].wrote
    /\ req' = [req EXCEPT ![q] = Idle]
    /\ UNCHANGED <<rel, unblocked, touched, fails>>

\* accept looks for the row of the other direction, as it is committed: there
\* is none, one that is blocked and rolls everything back, or one to save.
FindReverse(q) ==
    LET there == Of(req[q].requester, req[q].profile)
    IN  /\ req[q].pc = "reverse"
        /\ \/ /\ there = {}
              /\ req' = [req EXCEPT ![q].pc = "insert"]
           \/ \E r \in there :
                 req' = [req EXCEPT ![q] = IF rel[r].type = "blocked" THEN Idle
                                           ELSE [@ EXCEPT !.pc = "diff", !.row = r]]
        /\ UNCHANGED <<rel, unblocked, touched, fails>>

\* The table when a request's transaction is committed.
Committed(q) ==
    [r \in Row |-> IF r \in req[q].wrote THEN [rel[r] EXCEPT !.type = "accepted"] ELSE rel[r]]

Commit(q) ==
    /\ req[q].pc = "commit"
    /\ rel' = Committed(q)
    /\ req' = [req EXCEPT ![q] = Idle]
    /\ UNCHANGED <<unblocked, touched, fails>>

\* A new row, of whatever id: of a request, or of the other direction, with which
\* accept commits.
Insert(q) ==
    LET accepts == req[q].accepts
        free == {r \in Row : rel[r] = NoRow}
        new == [profile   |-> IF accepts THEN req[q].requester ELSE req[q].profile,
                requester |-> IF accepts THEN req[q].profile ELSE req[q].requester,
                type      |-> req[q].type]
    IN  /\ req[q].pc = "insert"
        /\ free # {} /\ rel' = [Committed(q) EXCEPT ![CHOOSE r \in free : TRUE] = new]
        /\ req' = [req EXCEPT ![q] = Idle]
        /\ UNCHANGED <<unblocked, touched, fails>>

\* A request breaks off, and its transaction is rolled back.
Break(q) ==
    /\ req[q] # Idle /\ fails < MaxFail
    /\ req' = [req EXCEPT ![q] = Idle] /\ fails' = fails + 1
    /\ UNCHANGED <<rel, unblocked, touched>>

Next == \E q \in Request :
    \/ \E me, other \in User : Ask(q, me, other)
    \/ \E r \in Row : Accept(q, r) \/ Ignore(q, r) \/ Block(q, r) \/ Unblock(q, r)
    \/ DiffNone(q) \/ Diff(q) \/ Write(q) \/ Deadlock(q) \/ FindReverse(q)
    \/ Commit(q) \/ Insert(q) \/ Break(q)

Spec == Init /\ [][Next]_vars

-----------------------------------------------------------------------------
Names == User \cup {"none"}
Pairs == User \X User

\* Rows and requests have the shape the controller relies on.
TypeOK ==
    /\ rel \in [Row -> [profile : Names, requester : Names,
                        type : {"none", "request", "accepted", "ignored", "blocked"}]]
    /\ req \in [Request -> [pc : {"idle", "diff", "write", "reverse", "insert", "commit"},
                    accepts : BOOLEAN,
                    profile : Names, requester : Names, row : Row \cup {"none"},
                    type : {"none", "request", "accepted", "ignored", "blocked"},
                    wrote : SUBSET Row]]
    /\ unblocked \subseteq Pairs /\ touched \subseteq Pairs /\ fails \in 0 .. MaxFail

\* Friendship goes both ways: whoever is accepted has the other one accepted,
\* however acceptances overlap, wait for each other and break off.  Only where
\* somebody ignored or blocked may the other direction say otherwise; and to
\* unblock someone who was never blocked accepts him in one direction.
FriendsBothWays ==
    \A r \in Row :
        rel[r].type = "accepted" /\ Pair(r) \notin unblocked =>
            \/ <<rel[r].requester, rel[r].profile>> \in touched
            \/ \E s \in Of(rel[r].requester, rel[r].profile) : rel[s].type = "accepted"
=============================================================================
