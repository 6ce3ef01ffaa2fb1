--------------------------- MODULE PasswordRotation ---------------------------
(***************************************************************************)
(* `kpexec db rotate-password` (src/src/cmd_db.rs): one transaction over   *)
(* two stores that have no transaction between them, the vault files and   *)
(* the Keychain item.  Every system call that changes a store is an action *)
(* of its own, may fail, and may be the last one before a crash.  The      *)
(* write lock keeps other writers out for the whole transaction (WriteLock *)
(* models the lock itself), so one rotation runs at a time.                *)
(*                                                                         *)
(* A database image is its master password and its content.  Reads and     *)
(* refusals that come before the first write change nothing and are not    *)
(* steps: a rotation starts only when the Keychain password opens the      *)
(* vault, otherwise it returns UnlockFailed.                               *)
(***************************************************************************)
EXTENDS Naturals

CONSTANTS
  Key,         \* master passwords
  Db,          \* database contents
  NoFile, Torn,
  MaxFaults    \* bound on failed, or silently dropped, calls and crashes

Image == [key : Key, db : Db]

ASSUME RotationAssumption ==
  /\ NoFile \notin Image /\ Torn \notin Image /\ NoFile # Torn
  /\ MaxFaults \in Nat

VARIABLES
  vault, bak, tmp,   \* the vault files
  kc,                \* the password in the Keychain item
  shown,             \* the recovery keys the user has been shown
  pc,                \* the next call of the running rotation
  orig, origBak,     \* its snapshots of <vault> and <vault>.bak
  new,               \* the generated password
  undo,              \* "clean" until a restoration fails ("spoiled"), or the
                     \* Keychain drops one unnoticed ("doubtful")
  outcome,           \* how the last rotation ended; "misled" is the message of
                     \* "rolledBack" when undo is doubtful
  faults             \* calls failed and crashes so far

files == <<vault, bak, tmp>>
memory == <<orig, origBak, new>>
vars == <<files, kc, shown, pc, memory, undo, outcome, faults>>

F == INSTANCE VaultFiles

\* Database::open succeeds on file f with password k.
Opens(f, k) == f \in Image /\ f.key = k

\* The database re-encrypted under the new password, its content unchanged.
Rekeyed == [key |-> new, db |-> orig.db]

SaveStep == {"create", "write", "truncate", "copy", "publish"}
CommitStep == {"kcset", "kcget", "bakupdate", "show"}
UndoStep == {"rbkc", "rbvault", "rbbak"}
Outcome ==
  {"none", "committed", "unshown", "rolledBack", "misled", "recoveryNeeded", "crashed"}

TypeOK ==
  /\ F!FilesTypeOK
  /\ kc \in Key
  /\ shown \subseteq Key
  /\ pc \in {"idle"} \cup SaveStep \cup CommitStep \cup UndoStep
  /\ orig \in Image /\ origBak \in F!File /\ new \in Key
  /\ undo \in {"clean", "doubtful", "spoiled"}
  /\ outcome \in Outcome
  /\ faults \in Nat

-------------------------------------------------------------------------------
(* An initialised installation, with whatever backup and stale temporary   *)
(* file earlier commands left; the user holds the key that init printed.   *)

Init ==
  /\ vault \in Image /\ kc = vault.key /\ shown = {kc}
  /\ bak \in F!File /\ tmp \in {NoFile, Torn}
  /\ orig = vault /\ origBak = bak /\ new = kc
  /\ pc = "idle" /\ undo = "clean" /\ outcome = "none" /\ faults = 0

Goto(next) == pc' = next

\* A call fails; MaxFaults bounds how often.
Fault == faults < MaxFaults /\ faults' = faults + 1

\* The lock is released and the command returns.
Finish(verdict) == Goto("idle") /\ outcome' = verdict

RollbackVerdict ==
  CASE undo = "clean" -> "rolledBack"
    [] undo = "doubtful" -> "misled"
    [] undo = "spoiled" -> "recoveryNeeded"

\* Nothing but the files, pc and faults moves.
Quiet == UNCHANGED <<kc, shown, memory, undo, outcome>>

-------------------------------------------------------------------------------
(* Faulty variants of single calls, for mutation testing of the properties *)
(* below: with a variant in place of its call a property must fail.  The   *)
(* specification does not use them.                                        *)

\* TruncateBak: no backup is made at all.
BackupForgotten ==
  /\ pc = "truncate" /\ Goto("publish")
  /\ Quiet /\ UNCHANGED <<files, faults>>

\* UpdateBakFails: reports a rollback that is not made.
RollbackOnlyReported ==
  /\ pc = "bakupdate" /\ Fault /\ Finish("rolledBack")
  /\ UNCHANGED <<files, kc, shown, memory, undo>>

\* Reveal: prints the snapshot instead of the password.
SnapshotRevealed ==
  /\ pc = "show" /\ shown' = shown \cup {orig} /\ Finish("committed")
  /\ UNCHANGED <<files, kc, memory, undo, faults>>

\* UndoBak: the backup is not put back.
BackupNotRestored ==
  /\ pc = "rbbak"
  /\ Finish(RollbackVerdict)
  /\ UNCHANGED <<files, kc, shown, memory, undo, faults>>

-------------------------------------------------------------------------------
\* Lock, read the credential, open the vault, snapshot both files, generate.
Begin(k) ==
  /\ pc = "idle"
  /\ Opens(vault, kc)
  /\ k # kc
  /\ orig' = vault /\ origBak' = bak /\ new' = k /\ undo' = "clean"
  /\ Goto("create")
  /\ UNCHANGED <<files, kc, shown, outcome, faults>>

-------------------------------------------------------------------------------
(* Vault::save_atomic under the new password.  A failure before the rename *)
(* enters restore_files; a failed backup copy is ignored.                  *)

CreateTmp ==
  /\ pc = "create" /\ F!CreateTmp /\ Goto("write")
  /\ Quiet /\ UNCHANGED faults

CreateTmpFails ==
  /\ pc = "create" /\ Fault /\ Goto("rbvault")
  /\ Quiet /\ UNCHANGED files

WriteTmp ==
  /\ pc = "write" /\ F!WriteTmp(Rekeyed) /\ Goto("truncate")
  /\ Quiet /\ UNCHANGED faults

WriteTmpFails ==
  /\ pc = "write" /\ Fault /\ F!DiscardTmp /\ Goto("rbvault")
  /\ Quiet

TruncateBak ==
  /\ pc = "truncate" /\ F!TruncateBak /\ Goto("copy")
  /\ Quiet /\ UNCHANGED faults

CopyBak ==
  /\ pc = "copy" /\ F!FillBak /\ Goto("publish")
  /\ Quiet /\ UNCHANGED faults

\* `let _ = std::fs::copy(..)`: the save goes on without a backup.
CopyBakFails ==
  /\ pc \in {"truncate", "copy"} /\ Fault /\ Goto("publish")
  /\ Quiet /\ UNCHANGED files

Publish ==
  /\ pc = "publish" /\ F!Publish /\ Goto("kcset")
  /\ Quiet /\ UNCHANGED faults

PublishFails ==
  /\ pc = "publish" /\ Fault /\ F!DiscardTmp /\ Goto("rbvault")
  /\ Quiet

-------------------------------------------------------------------------------
(* set_and_verify, the replacement of the old-password backup, and the     *)
(* display of the new key.                                                 *)

SetKeychain ==
  /\ pc = "kcset" /\ kc' = new /\ Goto("kcget")
  /\ UNCHANGED <<files, shown, memory, undo, outcome, faults>>

\* An error from the Keychain does not say whether the item was updated.
SetKeychainFails ==
  /\ pc = "kcset" /\ Fault /\ kc' \in {kc, new} /\ Goto("rbkc")
  /\ UNCHANGED <<files, shown, memory, undo, outcome>>

\* The Keychain reports success for an update it dropped.
SetKeychainLost ==
  /\ pc = "kcset" /\ Fault /\ Goto("kcget")
  /\ Quiet /\ UNCHANGED files

VerifyKeychain ==
  /\ pc = "kcget"
  /\ Goto(IF kc = new THEN "bakupdate" ELSE "rbkc")
  /\ Quiet /\ UNCHANGED <<files, faults>>

VerifyKeychainFails ==
  /\ pc = "kcget" /\ Fault /\ Goto("rbkc")
  /\ Quiet /\ UNCHANGED files

UpdateBak ==
  /\ pc = "bakupdate" /\ F!ReplaceBak(vault) /\ Goto("show")
  /\ Quiet /\ UNCHANGED faults

UpdateBakFails ==
  /\ pc = "bakupdate" /\ Fault /\ Goto("rbkc")
  /\ Quiet /\ UNCHANGED files

Reveal ==
  /\ pc = "show" /\ shown' = shown \cup {new} /\ Finish("committed")
  /\ UNCHANGED <<files, kc, memory, undo, faults>>

\* stdout failed: the rotation stands and the error names `db show-password`.
RevealFails ==
  /\ pc = "show" /\ Fault /\ Finish("unshown")
  /\ UNCHANGED <<files, kc, shown, memory, undo>>

-------------------------------------------------------------------------------
(* rollback_rotation: Keychain first, then restore_files; a failure is     *)
(* remembered and the remaining restorations are still attempted.          *)

UndoKeychain ==
  /\ pc = "rbkc" /\ kc' = orig.key /\ Goto("rbvault")
  /\ UNCHANGED <<files, shown, memory, undo, outcome, faults>>

UndoKeychainFails ==
  /\ pc = "rbkc" /\ Fault /\ kc' \in {kc, orig.key} /\ undo' = "spoiled" /\ Goto("rbvault")
  /\ UNCHANGED <<files, shown, memory, outcome>>

\* Dropped again; nothing reads the item back here.
UndoKeychainLost ==
  /\ pc = "rbkc" /\ Fault /\ undo' = "doubtful" /\ Goto("rbvault")
  /\ UNCHANGED <<files, kc, shown, memory, outcome>>

UndoVault ==
  /\ pc = "rbvault" /\ F!ReplaceVault(orig) /\ Goto("rbbak")
  /\ Quiet /\ UNCHANGED faults

UndoVaultFails ==
  /\ pc = "rbvault" /\ Fault /\ undo' = "spoiled" /\ Goto("rbbak")
  /\ UNCHANGED <<files, kc, shown, memory, outcome>>

UndoBak ==
  /\ pc = "rbbak" /\ F!ReplaceBak(origBak)
  /\ Finish(RollbackVerdict)
  /\ UNCHANGED <<kc, shown, memory, undo, faults>>

UndoBakFails ==
  /\ pc = "rbbak" /\ Fault /\ Finish("recoveryNeeded")
  /\ UNCHANGED <<files, kc, shown, memory, undo>>

\* The process dies between two calls; its memory, the new key with it, is
\* gone (orig, origBak and new keep their values only for the properties).
Crash ==
  /\ pc # "idle" /\ Fault /\ Finish("crashed")
  /\ UNCHANGED <<files, kc, shown, memory, undo>>

-------------------------------------------------------------------------------

Save ==
  \/ CreateTmp \/ CreateTmpFails \/ WriteTmp \/ WriteTmpFails
  \/ TruncateBak \/ CopyBak \/ CopyBakFails \/ Publish \/ PublishFails

Commit ==
  \/ SetKeychain \/ SetKeychainFails \/ SetKeychainLost
  \/ VerifyKeychain \/ VerifyKeychainFails
  \/ UpdateBak \/ UpdateBakFails \/ Reveal \/ RevealFails

Undo ==
  \/ UndoKeychain \/ UndoKeychainFails \/ UndoKeychainLost
  \/ UndoVault \/ UndoVaultFails \/ UndoBak \/ UndoBakFails

Next == (\E k \in Key : Begin(k)) \/ Save \/ Commit \/ Undo \/ Crash

Spec == Init /\ [][Next]_vars

-------------------------------------------------------------------------------
(* Properties.                                                             *)

\* After any single failed call or crash, whenever no rotation runs, the
\* password in the Keychain still opens <vault> or <vault>.bak, and what it
\* opens is the current content (save_atomic's backup and the order of
\* rotate_password_with_generator: vault, Keychain, backup).
SingleFaultRecoverable ==
  (pc = "idle" /\ faults <= 1) =>
    \E f \in {vault, bak} : Opens(f, kc) /\ f.db = orig.db

\* A rotation that reports success, or only a failed display, left vault,
\* backup and Keychain under the new key, no readable copy under the old one,
\* and lost no content (the comments before the backup replacement and before
\* write_recovery_key).
HonestCommit ==
  (pc = "idle" /\ outcome \in {"committed", "unshown"}) =>
    /\ vault = Rekeyed /\ bak = vault /\ kc = new /\ new # orig.key
    /\ outcome = "committed" => new \in shown

\* "password rotation was rolled back": every store is as it was, whatever
\* failed and however often; only a Keychain that drops the restoration and
\* reports success can make the message untrue, and of the Keychain alone.
\* "vault recovery may be required" takes two failures: one that started the
\* rollback and one that spoiled it.
HonestRollback ==
  /\ (pc = "idle" /\ outcome \in {"rolledBack", "misled"}) =>
       /\ vault = orig /\ bak = origBak
       /\ outcome = "rolledBack" => kc = orig.key
  /\ (pc = "idle" /\ outcome = "recoveryNeeded") => faults >= 2

\* What the command says of its stores is true, success or failure.
HonestVerdicts == HonestCommit /\ HonestRollback

\* The Keychain is the commit point: it changes to the new key only while
\* the vault on disk already opens with it, and it never changes to any key
\* other than the new one or the one it had.
KeychainFollowsVault ==
  [][kc' # kc => \/ kc' = new /\ Opens(vault, new)
                 \/ kc' = orig.key]_vars

-------------------------------------------------------------------------------
(* The rotation is atomic for everyone who looks while none is running:    *)
(* the usable vault is the original until the command returns.             *)

Cell ==
  IF pc # "idle" THEN orig ELSE IF Opens(vault, kc) THEN vault ELSE NoFile

Abstract == INSTANCE AtomicRekey
  WITH cell <- Cell, verdict <- outcome, Limbo <- NoFile

ImplementsAtomicRekey == Abstract!Spec
===============================================================================
