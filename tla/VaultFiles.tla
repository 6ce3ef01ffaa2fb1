------------------------------ MODULE VaultFiles ------------------------------
(***************************************************************************)
(* The files a vault lives in and the steps Vault::save_atomic takes on    *)
(* them (src/src/vault.rs).  A file holds a complete database image, is    *)
(* absent, or is torn: truncated, or written only in part, so that no      *)
(* password opens it.  The module is instanced by every component that     *)
(* saves a vault; it fixes what each system call does to the three files   *)
(* and leaves to the component when the call is made, whether it fails and *)
(* what happens next.                                                      *)
(***************************************************************************)
CONSTANTS
  Image,    \* the complete database images
  NoFile,   \* the file does not exist
  Torn      \* the file exists and is not a readable database

VARIABLES
  vault,    \* <vault>
  bak,      \* <vault>.bak
  tmp       \* <vault>.tmp

File == Image \cup {NoFile, Torn}

FilesTypeOK == vault \in File /\ bak \in File /\ tmp \in File

\* File::create truncates whatever an earlier, interrupted save left.
CreateTmp == tmp' = Torn /\ UNCHANGED <<vault, bak>>

\* The serialised database is written, flushed and synced.
WriteTmp(image) == tmp' = image /\ UNCHANGED <<vault, bak>>

\* Error paths: the result of remove_file is ignored.
DiscardTmp == tmp' \in {NoFile, tmp} /\ UNCHANGED <<vault, bak>>

\* fs::copy opens the destination with truncation ...
TruncateBak == vault # NoFile /\ bak' = Torn /\ UNCHANGED <<vault, tmp>>

\* ... and then copies the bytes of the vault.
FillBak == bak' = vault /\ UNCHANGED <<vault, tmp>>

\* rename(2) of the temporary file over the vault.
Publish == tmp # NoFile /\ vault' = tmp /\ tmp' = NoFile /\ UNCHANGED bak

\* restore_file_atomic: a private temporary file renamed over the target.
ReplaceVault(image) == vault' = image /\ UNCHANGED <<bak, tmp>>

\* BackupSnapshot::restore: rewrite the backup, or remove one that was absent.
ReplaceBak(file) == bak' = file /\ UNCHANGED <<vault, tmp>>
===============================================================================
