---------------------------- MODULE MCVaultSession ----------------------------
(* Small instances of VaultSession for TLC. *)
EXTENDS VaultSession, TLC

\* Entry commands, a rotation and readers; and init --force with the readers,
\* beside which no command that writes may run.
LockersOrInit ==
  {Editor \cup Rotator \cup Reader, Initializer \cup Reader}

Symmetry == Permutations(Editor) \cup Permutations(Reader) \cup Permutations(Key)
===============================================================================
