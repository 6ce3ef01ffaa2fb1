----------------------------- MODULE MCEntryTable -----------------------------
(* Small instances of EntryTable for TLC. *)
EXTENDS EntryTable, TLC

Symmetry ==
  Permutations(Slot) \cup Permutations(Id) \cup Permutations(Name) \cup
  Permutations(Hash) \cup Permutations(Inject)
===============================================================================
