----------------------------- MODULE MCKvStore -----------------------------
(* The key-value store: calls of many kinds, or readers next to a few calls. *)
EXTENDS KvStoreProps, TLC

CONSTANTS i1, i2, c1, c2, c3, r1

MCHome == [x \in Call \cup Reader |-> IF x \in {c1, r1} THEN i1 ELSE i2]

MCHomeData == [x \in Call |-> i2]

Ops == {"init", "set", "update", "destroy"}

\* What initialisers do; caches play no part.
MCInits == {[ops |-> Ops, init |-> i, redis |-> FALSE, loses |-> FALSE, deep |-> FALSE] :
               i \in {"merge", "keep", "none"}}

\* The ways to read a value; fewer calls where three threads work for a reader.
MCCaches ==
    {[ops |-> IF r /\ d THEN {"init", "update"} ELSE Ops, init |-> "merge",
      redis |-> r, loses |-> r /\ ~d, deep |-> d] : r, d \in BOOLEAN}

MCInput == {[form |-> "f1", data |-> "d1"]}
MCInputs == {[form |-> f, data |-> "d1"] : f \in {"f1", "f2"}} \cup {Off}

Symmetry == Permutations(Call)
=============================================================================
