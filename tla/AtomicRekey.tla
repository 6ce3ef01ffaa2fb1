----------------------------- MODULE AtomicRekey -----------------------------
(***************************************************************************)
(* What `kpexec db rotate-password` promises to a user who looks at the    *)
(* installation only between commands: the vault, as the Keychain opens    *)
(* it, is one cell holding a key and a content.  A rotation either changes *)
(* the key alone, or nothing; only a crash, or a rollback that itself      *)
(* failed, may leave the cell unusable (Limbo).                            *)
(***************************************************************************)
CONSTANTS Key, Db, Limbo

VARIABLES cell, verdict

Usable == [key : Key, db : Db]

Init == cell \in Usable /\ verdict = "none"

Commit ==
  /\ cell \in Usable
  /\ \E k \in Key \ {cell.key} : cell' = [key |-> k, db |-> cell.db]
  /\ verdict' \in {"committed", "unshown"}

Abort ==
  /\ cell \in Usable
  /\ UNCHANGED cell
  /\ verdict' = "rolledBack"

\* The content survives even when the cell stays usable under another key.
Interrupt ==
  /\ cell \in Usable
  /\ cell' \in {[key |-> k, db |-> cell.db] : k \in Key} \cup {Limbo}
  /\ verdict' \in {"crashed", "recoveryNeeded"}

\* With a Keychain that drops updates silently a rollback cannot be trusted.
LostAbort ==
  /\ cell \in Usable
  /\ cell' \in {cell, Limbo}
  /\ verdict' = "misled"

Next == Commit \/ Abort \/ Interrupt \/ LostAbort

Spec == Init /\ [][Next]_<<cell, verdict>>
==============================================================================
