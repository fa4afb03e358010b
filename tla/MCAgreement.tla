---------------------------- MODULE MCAgreement ----------------------------
(***************************************************************************)
(* Two or three of everything, for TLC.                                    *)
(***************************************************************************)
EXTENDS Agreement, TLC

Two   == {"1", "2"}
Three == Two \cup {"3"}

\* A lock that outlasts the handler, one that does not, and none.
Job(r, t, w) == [redis |-> r, ttl |-> t, work |-> w]
TwoLocks == {Job(TRUE, 2, 1), Job(TRUE, 1, 2), Job(FALSE, 1, 1)}
SlowAndFast == [redis : BOOLEAN, work : {2, 4}]

\* A bound first model, for a user and his staff, and none, for two users.
BoundOrNot == {[users |-> {"1"}, roles |-> {"admin", "staff"}, bind |-> TRUE, limit |-> 1],
               [users |-> Two, roles |-> {"admin"}, bind |-> FALSE, limit |-> 1]}

\* It does not matter which request does what.
Symmetry == Permutations(Request)

Addresses == {"default", "own", "other"}
OwnOrDefault == {"default", "own"}
=============================================================================
