------------------------------ MODULE MCLoader ------------------------------
(* One row, two instances that load it and one save at a time. *)
EXTENDS Loader
=============================================================================
