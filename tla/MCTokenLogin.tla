---------------------------- MODULE MCTokenLogin ----------------------------
(* Overlapping log-ins and refreshes of one user: refresh tokens. *)
EXTENDS OperationTokenProps, TLC

MCOffer == {[type |-> "TimeBased", count |-> Null, life |-> 0]}

Symmetry == Permutations(Request)
=============================================================================
