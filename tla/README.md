# A TLA+ model of kpexec

kpexec keeps command credentials in a KeePass vault on macOS and runs approved
commands with a secret in their environment.  The program is a single
short-lived process per command, so what is hard about it is not inside one
process: it is the order in which one command changes several stores that share
no transaction, what a crash or a failed call leaves behind, two commands that
run at once, and the children and threads of `kpexec run`.

Paths below are relative to the repository; its crate is in `src/`.

## 1. Inventory

| Part | State | Operations | Interacts through | Hard behaviours | Module |
|---|---|---|---|---|---|
| Vault files (`vault.rs`) | `<vault>`, `<vault>.bak`, `<vault>.tmp` | open, `save_atomic` | file system | crash between calls, ignored backup failure, shared `.tmp` | VaultFiles |
| Password rotation (`cmd_db.rs`) | vault, backup, Keychain item, snapshots in memory | rotate-password, show-password | Keychain, vault files, write lock | two stores without a transaction, rollback that fails half-way | PasswordRotation, AtomicRekey |
| Installation (`cmd_init.rs`) | vault, backup, Keychain item, `config.toml` | init, init --force, init --use-existing | same stores, no lock | three stores, best-effort rollback, crash, items of other programs | Installation, Keychain |
| Write lock (`lock.rs`) | `<vault>.kpexec-lock`, KeePassXC's lockfile | acquire, drop | file system, process table | check-then-write, a read error taken for no lock, stale locks, reused PIDs | WriteLock |
| All commands on one vault (`cmd_entry.rs`, `cmd_db.rs`, `cmd_init.rs`, `vault.rs`) | vault, `.tmp`, Keychain, lock | sessions | lock, Keychain, vault | read-modify-write of a whole file, lock-free readers | VaultSession, UpdateTable |
| Entries and check (`cmd_entry.rs`, `vault.rs`, `policy.rs`, `cmd_check.rs`) | the database: entries, policies, secrets, pins | add, add-command, rm-command, set-secret, edit, rm, repin; list, show, check read | KeePassXC edits the same database | duplicate ids, templates collected before the lock | EntryTable |
| Run: request (`cmd_run.rs`, `pin.rs`, `status.rs`) | the request, audit record | run, run --dry-run | vault (read), Keychain (read) | executable replaced between check and use, items replaced between check and read, three reports of one result | RunRequest |
| Run: child (`cmd_run.rs`) | child, descendants, waiter and reader threads, pipes, channel | spawn, wait, time out, signal, join | processes, threads, signals | timeout against exit, pipes held by descendants, bounded capture | RunChild |
| Output processing (`output.rs`, `cmd_run.rs`) | none (pure) | capture, redact, scan, truncate | called by run | a secret across the capture limit, the marker split by truncation | Output |
| Keychain backends (`keychain.rs`) | Keychain items | set, get, delete, acl_binding | Security framework | error after the effect; items of the same account, before and between the calls; a new item that cannot be proved; deletion by name | set, delete: Keychain, Installation; get: RunRequest; acl_binding: Doctor |
| Configuration, vault context (`config.rs`, `vaultctx.rs`) | `config.toml` | load, open with a credential | called by all | config names another vault than the item; a write cut off | RunRequest, Installation, Doctor |
| Audit log (`logging.rs`) | log file and its rotated generations | append, rotate | file system, other processes | two processes rotate at once; handles that follow renamed files; counts that go stale | AuditLog, Commands; the record: RunRequest |
| Dispatch and user presence (`main.rs`, `commands.rs`, `user_presence*`) | the reply, the semaphore | open the log, authorise, dispatch | LocalAuthentication callback, audit log | callback against timeout in the shim; the log is open while the user thinks; a handler that never returns | Commands |
| KDF calibration (`kdf.rs`) | none | calibrate, scale | called by init | clamping at the bounds | |
| Doctor (`doctor.rs`) | none (read-only) | report | all of the above, read | gates between sections; stores that an init left half-way | Doctor |
| CLI, prompts, status codes | none | parsing, formatting | | none that needs a model | |

What makes each part correct:

* **rotation**: after one fault the user can still open the vault; every verdict
  the command reports is true; seen from outside it is one atomic change;
* **installation**: an error leaves what was there; the config names a vault
  only when the Keychain opens it; a usable installation survives one fault;
* **Keychain**: no password is written to an item that was there and is not
  provably kpexec's own; one just added that cannot be proved is taken out again
  while the calls for it succeed;
* **doctor**: no failure reported means that run can open the vault, whatever an
  init left, and a failure reported means that something is wrong;
* **user presence**: a handler that changes anything acts only after an approval
  of its own command, in time, and no command waits at the gate for ever, whether
  or not the user answers;
* **audit log**: no file outgrows its limit by more than what others write
  unseen, and rotation drops only the oldest;
* **lock**: one writer at a time, the lock names it, what breaks this does not
  outlast the commands it caught, no crash blocks the next;
* **sessions**: no update is lost, a reader sees a committed database;
* **entries**: an id that is not unique is never acted on, authored policies
  stay unambiguous, what check calls clean runs if its file has an execute bit;
* **request**: one audit record per request, no secret before the pin and the
  Keychain item are verified, one verdict in three reports;
* **child**: all output captured up to the limit, the timeout ends the run;
* **output**: no secret survives, whatever the split of the stream, but for what
  the notice and U+FFFD, which are added after the last scan, may make.

## 2. The modules

The modules are separate views of one program, each with the detail that its
question needs, and they rely on each other by name: `VaultFiles` fixes what the
calls of a save do and is instanced by `PasswordRotation` and `Installation`, and
`Keychain` does the same for the items and is instanced by `Installation`;
`Doctor` reads what the calls of `Installation` left; `Commands` composes the life
of a process with `AuditLog`, the file it shares with the others;
`VaultSession` takes the lock in one step: `WriteLock` says when that is true,
namely while no command reads the lock file as another decides on what it read,
and no read of it fails beside a holder; `EntryTable` makes a command one step because
`VaultSession!ImplementsUpdateTable` says it is one; `RunRequest` takes the
child's result from `RunChild` and `Output` the captured bytes.  Every module
that TLC checks has an `MC` module with the small instance.  Faulty variants of
single actions stand in a section of their own in each module; the
specifications do not use them.  Each shows that a property would notice the
plausible bug it stands for.

### VaultFiles
One operator per system call of `Vault::save_atomic` and of the restore
functions: `CreateTmp` (File::create), `WriteTmp` (write and sync), `TruncateBak`
and `FillBak` (the two halves of fs::copy), `Publish` (rename), `ReplaceVault`
(restore_file_atomic), `ReplaceBak` (BackupSnapshot::restore).  A file is a whole
image (password and content), absent, or torn.

### PasswordRotation, AtomicRekey
`rotate_password_with_generator`, call by call.  `Begin` covers lock, Keychain
read, open, the two snapshots and the new password; `CreateTmp` to `Publish` are
the save under the new key; `SetKeychain` and `VerifyKeychain` are
`set_and_verify`; `UpdateBak` replaces the old-password backup; `Reveal` is
`write_recovery_key`; `UndoKeychain`, `UndoVault`, `UndoBak` are
`rollback_rotation` with `restore_files`.  Each has its failing variant with the
branch the code takes: before the rename to `restore_files`, after it to
`rollback_rotation`, and never anywhere for the ignored backup copy.  `Crash`
ends the process at any call.  `SetKeychainLost` and `UndoKeychainLost` are a
Keychain that reports success and does nothing: the read-back of `set_and_verify`
is there for it, and the rollback has none.  `AtomicRekey` is what the user is
promised between commands: one cell, which a rotation re-keys or leaves alone.

### Keychain
The generic-password items of one account, and one operator per call of
`MacKeychain`: what a lookup finds (`Absent`, `Unique`; anything else is an
error), whether the partition list proves the item found to be kpexec's own
(`Verified`), `Update`, `Add` (which may succeed with an item that cannot be
proved), `DeleteOwn` by reference, `DeleteByName`, which takes some of what goes
by that name, and `OtherProgram`.  An item that is not provable is `Alien` if
another program made it and `Stray` if it holds a password that kpexec put in
(an init that died may have left one, too); `crowd` is an item in another
keychain of the search list.

### Installation
`run_internal` of `cmd_init.rs`: `Allowed` is `guard_clobber` (and, for
`--use-existing`, that the entered password opens the vault), then the save of a
fresh vault, the Keychain item (`FindItem` to `CleanupFails`:
`MacKeychain::set`, once for the commit and again for the rollback, by `task`),
`config.toml` (`TruncateConfig`, `FillConfig`), the printing of the key, and
`rollback_init`.  The save's own errors return by `?` without a rollback, so
they end the command at once; `FileSnapshot::restore` rewrites in place, so each
restoration is a truncation and a refill, and `DeleteItems` is the rollback's
`delete` when there was no credential before. Between any two calls
`OtherProgram` may add or remove its items.  Init is started in any combination
of stores that its user may have, and any number of times.

### Doctor
`run_full_with` as a function `Report` from the stores of `Installation`, which a
failed or dead init may have left in any state it can reach, and a view of the
machine, to a set of checks with their levels: configuration, database path, log
directory, code signature, Gatekeeper, item, vault, policies, `.env`.  `MayRead`
is the gate before any protected read.

### AuditLog, Commands
`AuditLog` is `RotatingWriter`: slot 0 is `kpexec.log`, slot n is
`kpexec.log.n`, a file is its number of records, a handle is the slot its file
is in now (an open file follows its renaming) or `Gone`, and `written` is the
count by which a process decides to rotate, taken once when it opens the file.
`Commands` is the process around a handler: `Start` opens the log and decides
whether the command is gated; `Ask`, `Reply`, `Signal`, `Answered` and
`TimesOut` are the shim with its callback on another thread, which stores its
result first and signals second; `Answered` enters the handler of a gated command
and `Handle` is the handler's return, if it does; `Write`, `Rotate`
and the calls of a rotation (`Remove`, `ShiftFile`, `Retire`, `Reopen`) write
its records.  Failures of the removal and of the renames are ignored, as in the
code; a failed reopening loses the record.

### WriteLock
`VaultLock::acquire` as the file operations it is made of, on one lock path:
`PassKeePassXC`, `ReadLock` or `ReadLockFails` (any error of the read counts as
"no lock"), then `RefuseLive`, `Reclaim` or `FindFree`, `RemoveStale`,
`CreateLock`, `WriteLockInfo`; `DropLock` is `Drop`.  A process may hold open a
lock file that another has unlinked (`linked`).  PIDs are drawn from a set, live
ones are distinct, and other programs may be given a free one.  Commands acquire
whenever they like.  The history variable `disturbed` has the processes that were
at work when one read the lock file while another was between its read and its
entry, or failed to read it beside one at work, and those that came while such a
process was there; no action depends on it.

### VaultSession, UpdateTable
All commands as sessions over lock, Keychain, `<vault>` and `<vault>.tmp`, at the
grain of one call.  A database is the set of updates it contains, so that a lost
update is visible; `location` says where the temporary file that a process has
open is by now, since its name is fixed and others may rename or truncate it.
Entry commands and rotations take the lock before they read the Keychain; init
takes none, readers take none.  `UpdateTable` is the promise: a grow-only set.

### EntryTable
The database as KeePass entries with an id, a secret and a policy of named,
pinned templates.  `Matches`, `Only` and `Found` are the lookups of `vault.rs`;
the commands are one action each, with their refusals as guards.  `Collect` is
what `add` and `add-command` do before they take the lock.  KeePassXC clones,
renames, breaks and deletes entries, and the executable is replaced, or loses
or gets its execute bit.  `Clean` is
`check`, `Template` and `Runs` are what `run` makes of the same policy, `Listed`
is `list`.

### RunRequest
`run` and `run_with` from the configuration to the exit code, one action per
point at which the outside world can change something: `LoadConfig`; the
Keychain read as `FindItem`, `CheckBinding`, `ReadItem` (find, partition list,
read); `OpenVault`; `Resolve`; `ReadHash` and `Enforce` (`verify_exe`);
`ChoosePath`; `TakeSecret`; `Spawn`; `ChildEnds` with any result; and
`EmitSpawned`, `EmitDryRun`, `EmitError`.  `ChangeItem` is another program at the
Keychain, `ReplaceExe` whoever can write the executable or rename over it.

### RunChild
`spawn_and_wait`: the main thread (`Spawn`, `Receive`, `TimeoutExpires`,
`Terminate`, `GraceExpires`, `Kill`, the three joins), the waiter (`Reap`,
`Announce`: between the two the child's PID is free and the main thread does not
know), a reader per pipe, the pipes with their capacity, and the processes: the
child and what it forks, each of which may write, block on a full pipe, close
it, leave the group, die of SIGTERM, handle it, or hang.

### Output
`capture_limit` and `spawn_reader` with `process` of `output.rs`, on sequences
over a small alphabet: the forms of a secret, `replace_all_variants` from left
to right, the bounded number of passes, the final scan,
`truncate_no_split_marker`, and what is emitted of the rest (`Shown`): the lossy
decoding of what is not UTF-8, and the notice behind what was cut.

## 3. Runs

| Run | Question | States |
|---|---|---|
| `rotation` | Does any sequence of rotations, with up to three faults, lose the user's access, report something untrue, or show a state between old and new? | 116,700 |
| `lock` | What breaks the exclusion of the lock, how long does that last, and does the lock come free again? | 256,613 |
| `lock_race` | Does the lock exclude when acquisitions overlap: **violated** (finding 1) | |
| `init` | What do errors, crashes, and retries of init leave of three stores while other programs use the same account, and does doctor tell? | 536,208 |
| `session` | Do two entry commands, a rotation and two readers, or init and the readers, lose or tear anything? | 185,164 |
| `commands` | Do two processes that share an audit log act only on their user's approval, get past gate and log whatever he does, and keep the log in bounds? | 468,902 |
| `request` | Are the bytes, the secret, and the reports right for every request while Keychain and executable change? | 188,750 |
| `run_child` | Is the capture complete, who is signalled, and what can keep a run from ending? | 502,041 |
| `run_deaf` | Does the timeout end the run: **violated** (finding 2) | |
| `entries` | Do the entry commands keep ids, policies and templates in order in a database KeePassXC also edits? | 119,667 |
| `entries_ambiguous` | Does run resolve exactly one template: **violated** (finding 3) | |
| `output` | Is the bounded capture invisible, and which forms of a secret get out? | 278,848 |

The properties are stated, with the lines of the code they are about, above
their definitions.  The less obvious ones:

* `SingleFaultRecoverable` (rotation) and `UsableSurvives` (init) bound what one
  fault may cost.  They are not true of two: the backup copy fails unnoticed and
  the process dies after the rename; or the Keychain and the restoration of the
  vault both fail.
* `HonestVerdicts` (rotation): "was rolled back" is true of files and Keychain
  however many calls failed, except that a Keychain that drops the restoration
  is not noticed (`outcome = "misled"`): `rollback_rotation` does not read back
  what it set.
* `ErrorRestores` (init) says nothing of the backup: a save that fails after the
  copy has replaced `.bak` and returns without a rollback.
* `OnlyReusedPidWedges` and `OnlySparedProcessesDelay` are liveness properties
  that name the only exceptions: a lock blocks for ever only if its PID now
  belongs to another program; a run goes on for ever only if a process with a
  pipe in its hands was spared by SIGKILL.
* `ExclusiveUnlessDisturbed` (lock) names the two ways in which two commands can
  hold the lock, both at `lock.rs:74`: one reads it while another decides on what
  it read, or its read fails beside a holder, whose lock it then overwrites.
  Neither needs more than the other, and neither lasts: when the processes it
  caught, and those that came to them, are done, a holder is alone again and
  named by the file, whatever they did to each other's lock files.
* `CleanRunsIfExecutable` (entries): `verify_exe` rejects a file without an execute
  bit (`cmd_run.rs:316`), `check` does not look at the mode (`cmd_check.rs:116`), so
  an entry can be clean and not run.  That is the only difference.
* `NoPasswordStranded` (init) holds although the item may come after
  `guard_clobber` has found none, and after `find_item` has: such an item is never
  written to.  An item that `set` adds and cannot prove has the password in it; it
  is gone when `set` returns, unless a further call failed, init died, or another
  item of the account was about, so that a deletion by name may have taken that
  one instead (`keychain.rs:612,720`).  Deletion is another matter:
  `delete` and the clean-up of `add_item` go by name and look at no partition
  list, so a rollback may remove an item of another program.
* `DoctorTellsTruth` is an equivalence: doctor reports no failure exactly if the
  item is the only one and its password opens the vault, and the machine, the
  log directory and the policies are in order; it is checked in every state
  that faults and crashes of init leave, on a sound machine and on one for each
  thing that may be wrong with it.
* `ActsOnlyWithApproval` is about the reply that is stored but not yet
  signalled when the wait ends: it must not be read, as it is not.
* `OnlyHandlersMayHang` (commands): the code bounds the wait at the gate, and the
  log has no wait.  Handlers it does not bound: a hidden prompt
  waits for its user (`prompt.rs:38,83`), and `run` for all that hold its child's
  pipes (`cmd_run.rs:535`, finding 2).
* `SizeBounded` bounds a log file by its limit and what the other processes, and
  those whose rotation failed, write without looking at its length again.  The
  bound is attained.  `OldestGoesFirst` names the exception that the code
  accepts: of two rotations that overlap, the second's renames may replace
  younger generations, the newest among them.
* `ReaderIsCurrent` is what a lock-free reader may rely on; it may fail to unlock
  beside a rotation, and `ReadersFailOnlyDuringRekey` says only then.
* `CaptureIsInvisible` is claimed for secrets none of whose forms can lie over
  the redaction marker (`Apart`): such a form may share bytes with it, but would
  have to begin or end outside of it with bytes that agree.  With the others the
  replacement itself can form the secret anew, contrary to the comment at
  `output.rs:46-49`; then both streams are suppressed, and `NoFormShown` holds
  for these too.  For `CaptureIsInvisible` one exception is stated: a marker that the child itself wrote
  and that the capture cuts is not known for one, so the limit may fall inside
  it.  (The proof found this; with a marker of two bytes TLC could not.)
* `NoFormShown` (output) has the exceptions that the order of `output.rs:145-172`
  makes: the notice is appended after the last scan, so that a truncated stream
  may end in a form that the notice completes, or contain one that is inside the
  notice (the secret `truncated`); and what is not UTF-8 is decoded to U+FFFD
  after the scan, so that a secret with that character may be made.  TLC reaches
  both.

### Bounds
All are constants in the `.cfg` files. `MaxFaults` (`MaxLockFaults`) bounds
failed calls and crashes together; the claims are about one fault, rollbacks
take two, and three in `rotation` allow a fault in an earlier command besides,
so the interesting combinations occur. Three keys allow a rotation after a
rotation with neither key equal to the first; two keys do where only old and
new matter. Two processes and three PIDs in `lock` leave a PID to reuse while
both run, and two are enough for an overlap and for a holder beside one whose
read fails; that a third may come to two disturbed ones, the theorem covers, for
any number. In `session` two editors are the least that can lose
an update; `Casts` starts init only beside readers, as init takes no lock
(section 4). In `entries` two slots and two ids give a duplicate and a
renaming, two templates a removal and a duplicate name; one job is in progress
at a time, with one new template, while anything may happen between its
collection and its commit.  The rest of a policy has one value there, since no
property looks at it: `edit` is then refused or leaves everything as it was, and
the theorems cover any values and any number of new templates. In
`init` two faults let another program's item come between the calls of an init
of which another call fails. In `commands` two processes with one log of two
old generations are the least in which a rotation has a middle rename, and in
which one process writes to a file that the other has renamed; a limit of one
record makes each of them rotate at the first record it finds, so one record
per handler is enough. In `run_child` one descendant, a pipe of one chunk, a
limit of one, and two chunks per stream fill the pipe and pass the limit. In
`output` four words and limits of 0, 4 and 7 bytes reach every relative
position of a match, a marker of three bytes and a limit, with secrets shorter
and longer than the marker, one that overlaps itself, ones that meet the
marker inside and at either end, one that the notice of two bytes completes, and
one with a character of two bytes that a limit or a match may break. Symmetry is used only in runs without liveness
properties.

### Fairness
Only where something must eventually happen, and only what the code or the
system provides.  `init`: a started command runs until it returns or dies, and a
user without a working installation tries `init --force` again (that retry is
what `RetryInstalls` is about).  `commands`: a started process takes its own
steps, its timer among them; nobody has to reply, no handler has to return, and
no command has to be started.  `lock`: a started command runs on, commands keep being started,
KeePassXC is closed at some time; nothing makes another program exit.
`run_child`, `run_deaf`: the threads are scheduled, timers fire, writes to a
pipe with room go on, signals are delivered; nothing makes a process exit,
write, or close a pipe of its own accord.

Deadlock is checked in `lock`, `lock_race`, `init`, `commands`, `entries` and
`entries_ambiguous`.  Elsewhere the system really stops: a request, a run, an
output and a cast of commands end, and rotations end when no password opens the
vault.

## 4. Findings

1. **`lock_race`** (`lock.rs:74`): two commands that acquire at the same time both
   find the lock free and both hold it; the module comment says the lock
   serialises kpexec against kpexec.  (A second way, in `lock`: line 74 takes any
   read error for "no lock", and line 96 then overwrites a live holder's lock.)
2. **`run_deaf`** (`cmd_run.rs:521`): SIGKILL depends on the direct child alone.
   A child that dies of SIGTERM with a descendant that does not leaves the run
   waiting for ever; the comment at `cmd_run.rs:608-609` says the group signal
   makes the timeout enforceable against exactly those.
3. **`entries_ambiguous`** (`cmd_run.rs:284`): a policy with two templates of one
   name is not rejected by run; it takes the first, where `docs/design.md:80-81`
   says that duplicate command names reject.

Seen while modelling, with no run of its own: `run` (`cmd_run.rs:93-96`) returns
configuration errors before anything is logged, with neither audit record nor
envelope, while `cmd_run.rs:32` says that every path logs exactly once
(`LoadConfig` models it and `ReportsAgree` speaks of configured requests only);
a crash of init after the rename leaves a vault under a key nobody has seen, and
a plain retry refuses it without `--force`; `init --force` (`cmd_init.rs:95`)
takes no lock, though `vault.rs:15-16` says that mutations do, so beside an
entry command the vault may end under a password that the Keychain does not
hold, with no call failed; two processes that rotate the audit log at once
(`logging.rs:130-154`) may lose the newest generation, and one that rotated by a
stale count does so to a file that is nearly empty; KeePassXC's lockfile is
looked at once, so the database may be opened right after; `check` calls a
pinned file without execute bit current, and `run` rejects it; the truncation
notice and U+FFFD come after the last scan, so a secret that they make is shown.

## 5. Proofs

The theorems are about the same specifications as the runs, for every value of
the constants that satisfies the module's `ASSUME`.

* **`PasswordRotation_proofs`** (any keys, contents, number of faults).
  `TypeCorrect`; `SurvivesOneFault` (`SingleFaultRecoverable`); `ReportsAreHonest`
  (`HonestVerdicts`); `KeychainIsSecond`
  (`KeychainFollowsVault`); `RotationIsAtomic` (`ImplementsAtomicRekey`).  The
  properties speak of idle states, so they are far from inductive.  `IInv` says
  for each `pc` what the stores hold and how many faults it took to get there
  (`BeforeInv`, `AfterInv`, `UndoInv`): that count is what turns "one fault" into
  an invariant.  For the refinement every step inside a rotation is a stutter of
  the cell, and each step that ends one is matched by its verdict
  (`EndingSteps`).
* **`VaultSession_proofs`** (any number of entry commands, rotations, inits,
  readers, faults), assuming that an init runs beside no other writer (`Apart`),
  since init takes no lock.  `TypeCorrect`; `VaultAlwaysWhole`;
  `ReadersAreCurrent`; `ReadersFailForCause` (`ReadersFailOnlyDuringRekey`);
  `NoUpdateIsLost` (`ImplementsUpdateTable`).  `IInv` has the lock discipline,
  where the one temporary file is, that the holder's copy is what is on disk,
  which updates are in, and when the Keychain's password opens the vault
  (`KeysInv`: unless somebody is between the two stores, or has given up there),
  which is what a reader that finds no such command has read (`ReadersInv`).

  The same module has the proofs of `WriteLock` (any processes, PIDs, faults),
  since they say when a session may take its lock in one step: `LockTypesHold`;
  `ExclusionUnlessDisturbed` (`ExclusiveUnlessDisturbed`), with no assumption on
  when commands acquire or which calls fail.  `Disturbance`
  says that either `disturbed` has everybody at work (`Engaged`), or `OneDecides`: one process at
  most is between its read and its entry, it has read the holder's PID if there
  is a holder, and it is past the check only if there is none.  That PIDs of live
  processes differ (`PidsDistinct`) makes the check a check.
* **`RunRequest_proofs`** (any executables, items, exit codes).  `TypeCorrect`;
  `PinnedBytesAlwaysRan`; `SecretIsGuarded`; `OneVerdict` (`ReportsAgree`).
  `KeychainInv` follows the item from the check of its partition list to the
  read, `PinInv` says that from `enforce` on a pinned file cannot change, and
  `VerdictInv` that nothing is reported before the end.

* **`Installation_proofs`** (any passwords and contents, any number of inits,
  faults, crashes and items of other programs).  `TypeCorrect`;
  `SuccessIsWorking` (`HonestInstall`); `OneFaultIsUndone` (`ErrorRestores`);
  `OneFaultIsSurvived` (`UsableSurvives`); `StraysAreTakenOut`
  (`NoPasswordStranded`); `ConfigComesLast` (`ConfigIsLast`).  `IInv` has two parts.
  `CommitInv` holds whatever failed: how far the commit got, and that only a
  proven item is written.  `UndoInv` counts: before the first fault nothing is
  undone, no other program has an item, and the old vault has its backup
  (`QuietInv`); after the first, the error paths find stores that are either
  untouched or within reach of the rollback, and items of which the deletions by
  name leave none (`ErrorInv`).  `DoctorIsRight` (`DoctorTellsTruth`) is an
  equivalence and needs the types only: that no check fails is taken apart into
  what each of them looked at, in both directions.  One fault has to cover a failed call as well as
  an item that another program adds, since either alone is what a rollback must
  cope with.
* **`Commands_proofs`** (any finite number of processes, any log and faults).
  `TypeCorrect`; `GatedByApproval` (`ActsOnlyWithApproval`);
  `OnlyTheOldestIsDropped` (`OldestGoesFirst`); `LogStaysBounded`
  (`SizeBounded`).  `GateInv` says that a timeout leads past the handler and
  that what leads to it in a gated command is an approval; `LogInv` says that a
  process that rotates still has its record to write and that a handle in a slot
  has a file there; `RotationInv` says that rotations that overlap know it, and
  that one that does not renames to an empty slot.  `SizeInv` is about a sum: what
  a file holds, and every record that somebody may still add without looking at
  its length again.  The sum is the cardinality of a set of tokens (`Tokens`), one
  for each such record, so that the theorems on finite sets do for it: a record
  that is written uses up a token, and a rotation carries the tokens along with
  the file.  `SlotFits` bounds that sum by the limit, or, while a process is at
  work that read the file's length or made the file, by that process's own count.
* **`RunChild_proofs`** (any descendants, pipe capacity, output, limit).
  `TypeCorrect`; `NothingIsMissed` (`CaptureIsComplete`); `WhoIsSpared`
  (`NoSurvivor`).  `StreamInv` relates what was written to what is in the pipe and
  what was kept, and a stream read to its end to its writers; `WaiterInv` says
  that the channel announces a child that has ended; `SignalInv` follows the
  group from SIGTERM to SIGKILL: who is not signalled yet was forked by a member
  that survives SIGTERM (`Warned`), and after SIGKILL all of the group is doomed
  unless the child's end made SIGKILL unnecessary (`Cleared`).
* **`EntryTable_proofs`** (any entries, ids, templates, changes by KeePassXC).
  `OnlyUniqueEntriesChange` (`NeverPickFirst`); `NoIdBecomesAmbiguous`
  (`IdsStayUnique`); for these the invariant is only that an entry has an id
  (`Shape`).  `TypesHold`; `TemplatesAreKept` (`AmendmentsKeepTemplates`);
  `AuthorsAreSound` (`AuthoredPoliciesSound`); `CleanEntriesRun`
  (`CleanRunsIfExecutable`).  These need to know what is left of a list of templates
  from which those of one name are removed: that `Retained` neither invents, nor
  repeats, nor loses another's, by induction over the list.
* **`Output_proofs`** (any secrets, escapes, marker, limits and output).
  `NothingLeaks` (`NoFormShown`); `OnlyOverlapsAreSuppressed`
  (`SuppressedForCause`); `TheCaptureIsInvisible` (`CaptureIsInvisible`).  The
  invariant of the steps is small (`Kept`: the reader holds the beginning of what
  was written, up to its limit), and the work is in the functions.
  1. `Scan` describes `Pass` position by position: a byte is copied or a form is
     replaced (`ScanStep`).  Whatever is proved of a pass is proved backwards from
     the end of the text (`Backwards`).
  2. What a pass emits is the text as it was, up to the first marker
     (`CopiedUntilMarker`).  A form that was in the output could then only lie
     over a marker, so one pass is enough for a secret that cannot (`PassCleans`,
     `OnePassIsEnough`).  What is decoded is a beginning of what the final scan
     saw (`CleanPrefix`); a form in what is emitted then has a byte that was added
     later (`OnlyAddedLater`), of the notice or U+FFFD, which gives `NothingLeaks`
     for every secret.
  3. The scans of a stream and of its captured beginning do the same until a
     form could reach beyond the capture (`ScansInCommon`).  What they have
     emitted by then is more than the policy's limit: each match costs at most
     `Longest` captured bytes and gives `Len(Marker)` emitted ones, and
     `capture_limit` rounds up (`CaptureSuffices`).  So both are cut at the same
     place (`SameCut`).

  The assumption on the constants is what the code has: no escape and no notice is
  empty, no end of the marker is a beginning of it, and U+FFFD is not broken
  itself.

Induction.  The library's induction theorems take an operator, which no
installed prover can instantiate; stated for a set they can be used.  The lemmas
`Induction` and `Backwards` say that a set which contains the first (the last)
number and the next (the previous) of each of its members contains all of them.
They follow from `WFMin` of `WellFoundedInduction`, and with them the proofs above
go over sequences and over the values of recursive functions.

Only model-checked: everything temporal under fairness (which TLAPS does not do:
`OnlyReusedPidWedges`, `OnlySparedProcessesDelay`, `RetryInstalls`,
`OnlyHandlersMayHang`), and of course the findings.  What `VaultSession` promises beside
an init is neither checked nor proved: it does not hold (section 4).

## 6. What is not modelled

CLI parsing, prompts, formatting, key generation and file locations keep no
state and meet nobody.  KDF calibration is arithmetic on one timing, and a
property of it would repeat its formula.  Within the modelled parts: path
canonicalisation, the texts of a policy and of doctor's report, the names that
the `.env` scan compares, log filters and the bytes of a record, argument
prefixes, environment and argv of the child, characters of more than two bytes,
the wording of notices, a read error of a pipe (`cmd_run.rs:585`, which ends the
capture early), start time and host name of a lock (never read back).  A content or an
executable is a value, a password is a key, and the cipher is perfect.  The
child's exit status beyond its code, and macOS's own guarantees (a rename is
atomic, a file that was synced stays) are taken as given.  `PasswordRotation` and
`VaultSession` update an item in one step: their item exists and is kpexec's own,
so of `Keychain`'s calls only the update is left.

## 7. Plan

Done: rotation, lock, sessions, init with the Keychain, child, request, entries,
output, doctor, user presence, audit log; proofs of all of them, for every
invariant and action property that the runs check.

What is left: the liveness properties, of which the prover can do the safety part
of each step (that a started acquisition, or a command, is never without a next
step of its own); and sessions beside an init, which would need an account of
what is lost there rather than a property that holds.
