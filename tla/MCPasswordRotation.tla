-------------------------- MODULE MCPasswordRotation --------------------------
(* A small instance of PasswordRotation for TLC. *)
EXTENDS PasswordRotation, TLC
===============================================================================
