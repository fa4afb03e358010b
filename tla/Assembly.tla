------------------------------ MODULE Assembly ------------------------------
(***************************************************************************)
(* What an upload in pieces promises: the parts of a file arrive in any    *)
(* order, again and again if need be, and the file is put together from    *)
(* all of them or not at all.  How it is known which parts are there does  *)
(* not matter here.                                                        *)
(***************************************************************************)
CONSTANTS File, Part

VARIABLES
    wanted,         \* the parts each file consists of, fixed from the start
    arrived,        \* those that are stored
    whole           \* the files that have been put together

vars == <<wanted, arrived, whole>>

Init == /\ wanted \in [File -> SUBSET Part]
        /\ arrived = [f \in File |-> {}]
        /\ whole = {}

Arrive(f, p) == /\ p \in wanted[f]
                /\ arrived' = [arrived EXCEPT ![f] = @ \cup {p}]
                /\ UNCHANGED <<wanted, whole>>

Assemble(f) == /\ wanted[f] # {} /\ arrived[f] = wanted[f]
               /\ whole' = whole \cup {f}
               /\ UNCHANGED <<wanted, arrived>>

Next == \E f \in File : Assemble(f) \/ \E p \in Part : Arrive(f, p)

Spec == Init /\ [][Next]_vars
=============================================================================
