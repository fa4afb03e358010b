------------------------------ MODULE MCPayment ------------------------------
(* The payments of one shop. *)
EXTENDS PaymentProps, TLC

Symmetry == Permutations(Request) \cup Permutations(Cron)
=============================================================================
