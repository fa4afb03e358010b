------------------------------ MODULE MCWallet ------------------------------
(* Three calls on one wallet that is new, in use, or not migrated yet. *)
EXTENDS WalletProps, TLC

MCInitWallet ==
    {NoWallet,
     [exists |-> TRUE, balance |-> 2, points |-> 2, recharge |-> 2],
     [exists |-> TRUE, balance |-> 1, points |-> 0, recharge |-> -1]}

Symmetry == Permutations(Call)
=============================================================================
