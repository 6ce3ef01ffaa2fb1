----------------------------- MODULE VaultSession -----------------------------
(***************************************************************************)
(* Commands that share one vault: entry commands and password rotations,   *)
(* which hold the write lock from before they read the Keychain until they *)
(* return; `init --force`, which takes no lock; and readers (run, list,    *)
(* show, check), which take none either.  A command reads the password     *)
(* from the Keychain, then opens the vault with it, changes the database   *)
(* in memory and saves all of it.                                          *)
(*                                                                         *)
(* What an entry command changes is its own update: a database is the set  *)
(* of updates it contains.  `<vault>.tmp` has a fixed name, so a file that *)
(* one process has open may be truncated or renamed by another; location   *)
(* says where the open file of each process is now.  The lock is taken and *)
(* released in one step (WriteLock says when that is true); a crash leaves *)
(* a lock that the next command reclaims.  The backup, which none of these *)
(* commands reads, is the subject of PasswordRotation and Installation.    *)
(***************************************************************************)
EXTENDS Naturals, FiniteSets

CONSTANTS
  Editor,       \* entry commands, each with its own update
  Rotator,      \* db rotate-password
  Initializer,  \* init --force
  Reader,       \* commands that only read
  Casts,        \* which commands may meet: one of these sets is started
  Key,          \* master passwords
  NoFile, Torn, Nobody,
  MaxFaults     \* bound on failed calls and crashes

Command == Editor \cup Rotator \cup Initializer \cup Reader
Locker == Editor \cup Rotator
Image == [key : Key, db : SUBSET Editor]

ASSUME SessionAssumption ==
  /\ Editor \cap (Rotator \cup Initializer \cup Reader) = {}
  /\ Rotator \cap (Initializer \cup Reader) = {} /\ Initializer \cap Reader = {}
  /\ Nobody \notin Command /\ MaxFaults \in Nat
  /\ Casts \subseteq SUBSET Command
  /\ NoFile \notin Image /\ Torn \notin Image /\ NoFile # Torn

VARIABLES
  vault, tmp,  \* the files at <vault> and <vault>.tmp
  kc,          \* the password in the Keychain
  holder,      \* of the write lock
  pc,          \* per command: its next step
  got,         \* the password it read, or generated
  mem,         \* the database image it opened, or snapshotted
  location,    \* where its open temporary file is: "none", "tmp", "vault", "gone"
  verdict,     \* how it ended
  settled,     \* the commands that had succeeded when it started
  faults

files == <<vault, tmp, location>>
vars == <<files, kc, holder, pc, got, mem, verdict, settled, faults>>

Opens(f, k) == f \in Image /\ f.key = k

Step ==
  {"start", "kcget", "open", "create", "write", "publish", "kcset", "rbkc", "rbvault", "rbfill", "release",
   "ended", "absent"}

TypeOK ==
  /\ {vault, tmp} \subseteq Image \cup {NoFile, Torn}
  /\ kc \in Key /\ holder \in Locker \cup {Nobody}
  /\ pc \in [Command -> Step]
  /\ got \in [Command -> Key]
  /\ mem \in [Command -> Image \cup {NoFile, Torn}]
  /\ location \in [Command -> {"none", "tmp", "vault", "gone"}]
  /\ verdict \in [Command -> {"none", "ok", "refused", "error", "crashed"}]
  /\ settled \in [Command -> SUBSET Command]
  /\ faults \in Nat

Init ==
  /\ vault \in Image /\ vault.db = {} /\ kc = vault.key
  /\ tmp \in {NoFile, Torn} /\ holder = Nobody
  /\ \E cast \in Casts : pc = [c \in Command |-> IF c \in cast THEN "start" ELSE "absent"]
  /\ got = [c \in Command |-> kc]
  /\ mem = [c \in Command |-> vault] /\ location = [c \in Command |-> "none"]
  /\ verdict = [c \in Command |-> "none"] /\ settled = [c \in Command |-> {}]
  /\ faults = 0

Goto(c, next) == pc' = [pc EXCEPT ![c] = next]

Fault == faults < MaxFaults /\ faults' = faults + 1

\* The command returns; a lock it holds is dropped and its file closed.
End(c, how) ==
  /\ Goto(c, "ended") /\ verdict' = [verdict EXCEPT ![c] = how]
  /\ holder' = IF holder = c THEN Nobody ELSE holder

Succeeded == {c \in Command : verdict[c] = "ok"}

\* The image command c saves.
Saved(c) ==
  CASE c \in Editor      -> [mem[c] EXCEPT !.db = @ \cup {c}]
    [] c \in Rotator     -> [mem[c] EXCEPT !.key = got[c]]
    [] c \in Initializer -> [key |-> got[c], db |-> {}]

\* A file leaves the path where; processes that have it open keep it.
Moved(where, to) ==
  [c \in Command |-> IF location[c] = where THEN to ELSE location[c]]

-------------------------------------------------------------------------------
(* Faulty variants of single steps, for mutation testing of the properties *)
(* below; the specification does not use them.                             *)

\* Acquire: another holder does not matter.
LockIgnored(c) ==
  /\ c \in Locker /\ pc[c] = "start"
  /\ holder' = c /\ Goto(c, "kcget")
  /\ settled' = [settled EXCEPT ![c] = Succeeded]
  /\ UNCHANGED <<files, kc, got, mem, verdict, faults>>

\* Create: the vault itself is opened with truncation.
SaveInPlace(c) ==
  /\ pc[c] = "create" /\ Goto(c, "write")
  /\ vault' = Torn /\ location' = [location EXCEPT ![c] = "vault"]
  /\ UNCHANGED <<tmp, kc, holder, got, mem, verdict, settled, faults>>

\* Publish: the renaming is forgotten.
RenameForgotten(c) ==
  /\ pc[c] = "publish"
  /\ Goto(c, IF c \in Editor THEN "release" ELSE "kcset")
  /\ UNCHANGED <<files, kc, holder, got, mem, verdict, settled, faults>>

\* GetCredential: the password it knew when the installation was made.
CredentialCached(c) ==
  /\ pc[c] = "kcget" /\ Goto(c, "open")
  /\ UNCHANGED <<files, kc, holder, got, mem, verdict, settled, faults>>

\* RestoreVault: puts the wrong half of the snapshot back.
PasswordRestored(c) ==
  /\ c \in Rotator /\ pc[c] = "rbvault" /\ End(c, "error")
  /\ vault' = mem[c].key /\ location' = Moved("vault", "gone")
  /\ UNCHANGED <<tmp, kc, got, mem, settled, faults>>

-------------------------------------------------------------------------------

Acquire(c) ==
  /\ c \in Locker /\ pc[c] = "start" /\ holder = Nobody
  /\ holder' = c /\ Goto(c, "kcget")
  /\ settled' = [settled EXCEPT ![c] = Succeeded]
  /\ UNCHANGED <<files, kc, got, mem, verdict, faults>>

Refused(c) ==
  /\ c \in Locker /\ pc[c] = "start" /\ holder # Nobody /\ End(c, "refused")
  /\ UNCHANGED <<files, kc, got, mem, settled, faults>>

StartReading(c) ==
  /\ c \in Reader /\ pc[c] = "start" /\ Goto(c, "kcget")
  /\ settled' = [settled EXCEPT ![c] = Succeeded]
  /\ UNCHANGED <<files, kc, holder, got, mem, verdict, faults>>

GetCredential(c) ==
  /\ pc[c] = "kcget" /\ got' = [got EXCEPT ![c] = kc] /\ Goto(c, "open")
  /\ UNCHANGED <<files, kc, holder, mem, verdict, settled, faults>>

\* A reader has what it needs; a rotation generates the next password.
Open(c) ==
  /\ pc[c] = "open" /\ Opens(vault, got[c])
  /\ mem' = [mem EXCEPT ![c] = vault]
  /\ IF c \in Reader THEN End(c, "ok") ELSE Goto(c, "create") /\ UNCHANGED <<verdict, holder>>
  /\ IF c \in Rotator
     THEN \E k \in Key \ {kc} : got' = [got EXCEPT ![c] = k]
     ELSE UNCHANGED got
  /\ UNCHANGED <<files, kc, settled, faults>>

\* UnlockFailed: wrong password, or no readable file.
OpenFails(c) ==
  /\ pc[c] = "open" /\ ~Opens(vault, got[c]) /\ End(c, "refused")
  /\ UNCHANGED <<files, kc, got, mem, settled, faults>>

\* init --force snapshots the vault and generates a password, with no lock.
BeginInit(c) ==
  /\ c \in Initializer /\ pc[c] = "start" /\ Goto(c, "create")
  /\ mem' = [mem EXCEPT ![c] = vault]
  /\ \E k \in Key \ {kc} : got' = [got EXCEPT ![c] = k]
  /\ settled' = [settled EXCEPT ![c] = Succeeded]
  /\ UNCHANGED <<files, kc, holder, verdict, faults>>

-------------------------------------------------------------------------------
(* save_atomic.                                                            *)

\* Creates <vault>.tmp, or truncates the file that is there.
Create(c) ==
  /\ pc[c] = "create" /\ Goto(c, "write")
  /\ tmp' = Torn /\ location' = [location EXCEPT ![c] = "tmp"]
  /\ UNCHANGED <<vault, kc, holder, got, mem, verdict, settled, faults>>

\* Two processes that write the same file leave either image, or a mixture.
Written(c) ==
  {Saved(c)} \cup {Torn : d \in {d \in Command \ {c} : location[d] = location[c]}}

Write(c) ==
  /\ pc[c] = "write" /\ Goto(c, "publish")
  /\ tmp' \in IF location[c] = "tmp" THEN Written(c) ELSE {tmp}
  /\ vault' \in IF location[c] = "vault" THEN Written(c) ELSE {vault}
  /\ UNCHANGED <<location, kc, holder, got, mem, verdict, settled, faults>>

\* The file was closed before the rename, which moves what is at the path.
Publish(c) ==
  /\ pc[c] = "publish" /\ tmp # NoFile
  /\ Goto(c, IF c \in Editor THEN "release" ELSE "kcset")
  /\ vault' = tmp /\ tmp' = NoFile
  /\ location' = [d \in Command |->
       IF d = c THEN "none"
       ELSE IF location[d] = "tmp" THEN "vault"
       ELSE IF location[d] = "vault" THEN "gone" ELSE location[d]]
  /\ UNCHANGED <<kc, holder, got, mem, verdict, settled, faults>>

\* Any of the calls fails and the temporary file is removed; a rename fails
\* also when another process renamed or removed the file.  A rotation goes on
\* to restore the vault file.
SaveFails(c) ==
  /\ pc[c] \in {"create", "write", "publish"}
  /\ IF pc[c] = "publish" /\ tmp = NoFile THEN UNCHANGED faults ELSE Fault
  /\ IF pc[c] = "create"
     THEN UNCHANGED <<tmp, location>>
     ELSE tmp' = NoFile /\ location' = [Moved("tmp", "gone") EXCEPT ![c] = "none"]
  /\ IF c \in Rotator
     THEN Goto(c, "rbvault") /\ UNCHANGED <<verdict, holder>>
     ELSE End(c, "error")
  /\ UNCHANGED <<vault, kc, got, mem, settled>>

-------------------------------------------------------------------------------
(* The Keychain half of rotation and init, and its rollback, which here    *)
(* succeeds unless the process dies.                                       *)

SetKeychain(c) ==
  /\ pc[c] = "kcset" /\ Goto(c, "release")
  /\ kc' = got[c]
  /\ UNCHANGED <<files, holder, got, mem, verdict, settled, faults>>

SetKeychainFails(c) ==
  /\ pc[c] = "kcset" /\ Fault /\ kc' \in {kc, got[c]} /\ Goto(c, "rbkc")
  /\ UNCHANGED <<files, holder, got, mem, verdict, settled>>

\* The password the snapshot opens with.
RestoreKeychain(c) ==
  /\ pc[c] = "rbkc" /\ Goto(c, "rbvault")
  /\ kc' = IF mem[c] \in Image THEN mem[c].key ELSE kc
  /\ UNCHANGED <<files, holder, got, mem, verdict, settled, faults>>

\* A rotation renames a copy of its snapshot over the vault.
RestoreVault(c) ==
  /\ c \in Rotator /\ pc[c] = "rbvault" /\ End(c, "error")
  /\ vault' = mem[c] /\ location' = Moved("vault", "gone")
  /\ UNCHANGED <<tmp, kc, got, mem, settled, faults>>

\* Init truncates the vault and rewrites it.
TruncateVault(c) ==
  /\ c \in Initializer /\ pc[c] = "rbvault" /\ Goto(c, "rbfill")
  /\ vault' = Torn
  /\ UNCHANGED <<tmp, location, kc, holder, got, mem, verdict, settled, faults>>

RefillVault(c) ==
  /\ pc[c] = "rbfill" /\ End(c, "error")
  /\ vault' = mem[c]
  /\ UNCHANGED <<tmp, location, kc, got, mem, settled, faults>>

Release(c) ==
  /\ pc[c] = "release" /\ End(c, "ok")
  /\ UNCHANGED <<files, kc, got, mem, settled, faults>>

Crash(c) ==
  /\ pc[c] \notin {"start", "ended", "absent"} /\ Fault /\ End(c, "crashed")
  /\ location' = [location EXCEPT ![c] = "none"]
  /\ UNCHANGED <<vault, tmp, kc, got, mem, settled>>

-------------------------------------------------------------------------------

Next ==
  \E c \in Command :
    \/ Acquire(c) \/ Refused(c) \/ StartReading(c) \/ BeginInit(c)
    \/ GetCredential(c) \/ Open(c) \/ OpenFails(c)
    \/ Create(c) \/ Write(c) \/ Publish(c) \/ SaveFails(c)
    \/ SetKeychain(c) \/ SetKeychainFails(c) \/ RestoreKeychain(c)
    \/ RestoreVault(c) \/ TruncateVault(c) \/ RefillVault(c)
    \/ Release(c) \/ Crash(c)

Spec == Init /\ [][Next]_vars

-------------------------------------------------------------------------------
(* Properties.                                                             *)

\* The file at <vault> is a complete database at every instant, with readers
\* looking, saves failing and processes dying; only the rollback of an init,
\* which rewrites the file in place, is ever seen, or dies, half-way.
VaultIsWhole ==
  vault \in Image \/ \E i \in Initializer : pc[i] = "rbfill" \/ verdict[i] = "crashed"

\* A reader that gets a database gets one that was current while it read: it
\* has every update that had succeeded when the reader started, and none of a
\* command that has not yet published.
ReaderIsCurrent ==
  \A r \in Reader : verdict[r] = "ok" =>
    /\ settled[r] \cap Editor \subseteq mem[r].db
    /\ \A e \in mem[r].db : pc[e] \in {"release", "ended"}

\* A reader fails to unlock only beside, or after the failure of, a command
\* that changes the password: it has read the old one and finds the vault
\* under the new, or the reverse.  Entry commands never make it fail.
ReadersFailOnlyDuringRekey ==
  \A r \in Reader : verdict[r] = "refused" =>
    \E q \in Rotator \cup Initializer : q \notin settled[r] /\ pc[q] \notin {"start", "absent"}

\* Commands act on the vault as on one table: an update is applied once,
\* acknowledged only after it was applied, and never lost afterwards, not by
\* another writer, a rotation, a rollback or a crash.
Table == INSTANCE UpdateTable
  WITH Update <- Editor,
       table <- IF vault \in Image THEN vault.db ELSE {},
       acked <- {e \in Editor : verdict[e] = "ok"}

ImplementsUpdateTable == Table!Spec
===============================================================================
