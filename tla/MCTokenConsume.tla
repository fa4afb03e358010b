--------------------------- MODULE MCTokenConsume ---------------------------
(* Obtaining, logging out and consuming operation tokens of one scope. *)
EXTENDS OperationTokenProps, TLC

MCOffer == {[type |-> "OneTime", count |-> Null, life |-> Null],
            [type |-> "MultiTimes", count |-> 2, life |-> Null],
            [type |-> "TimeBased", count |-> Null, life |-> 0]}

Symmetry == Permutations(Request)
=============================================================================
