----------------------------- MODULE MCProgress -----------------------------
(***************************************************************************)
(* Two instances, two uploads and one order, for TLC.                      *)
(***************************************************************************)
EXTENDS Progress

\* Synchronisations that end before their lock does, and ones that may not.
AllStarts == [sync : BOOLEAN, redis : BOOLEAN, work : {2, 4}]

\* Uploads that share nothing, the key of their task, or the name of their file.
Upl(k, n, t, f)  == [key |-> k, name |-> n, total |-> t, first |-> f]
Pair(a, b) == [s \in {"s1", "s2"} |-> IF s = "s1" THEN a ELSE b]
Shared   == {Pair(Upl("k1", "n1", 2, 1), Upl("k2", "n2", 1, 0)),
             Pair(Upl("k1", "n1", 1, 0), Upl("k1", "n2", 1, 0)),
             Pair(Upl("k1", "n1", 2, 1), Upl("k2", "n1", 1, 1))}
=============================================================================
