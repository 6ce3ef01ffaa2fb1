------------------------------ MODULE MCWriteLock ------------------------------
(* Small instances of WriteLock for TLC. *)
EXTENDS WriteLock, TLC
===============================================================================
