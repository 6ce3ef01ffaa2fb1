----------------------------- MODULE MCRunRequest -----------------------------
(* Small instances of RunRequest for TLC. *)
EXTENDS RunRequest, TLC

Symmetry == Permutations(Hash) \cup Permutations(Ref)
===============================================================================
