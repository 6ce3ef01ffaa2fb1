------------------------------ MODULE MCRunChild ------------------------------
(* Small instances of RunChild for TLC. *)
EXTENDS RunChild, TLC
===============================================================================
