------------------------------ MODULE RunRequest ------------------------------
(***************************************************************************)
(* One `kpexec run` request (run and run_with, src/src/cmd_run.rs): read   *)
(* the vault's password from its Keychain item (src/src/keychain.rs), open *)
(* the vault, resolve entry and command, verify the executable's pin, stop *)
(* if it is a dry run, take the secret, run the child, and report the      *)
(* result three times: in the audit log, in the --json envelope and in the *)
(* exit code.  RunChild models the run of the child itself; here it yields *)
(* a result.                                                               *)
(*                                                                         *)
(* Meanwhile other programs add, change and delete Keychain items with the *)
(* service and account of the vault: only the item's partition list tells  *)
(* one of kpexec's from another, and it is fixed when an item is created.  *)
(*                                                                         *)
(* The file at the executable's path may change, too: its owner, or        *)
(* whoever may write to it or rename over it, replaces it at any moment.   *)
(* An administrator who replaces a file kpexec's user cannot change is     *)
(* outside the claim the code makes, and outside the model.                *)
(***************************************************************************)
EXTENDS Naturals, Sequences

CONSTANTS
  Ref,       \* references to Keychain items
  NoRef,
  Hash,      \* contents of an executable
  Missing,   \* there is no regular file at the path, or it is not executable
  Unpinned,  \* the command has no recorded hash (--no-pin)
  Code       \* exit codes of the child (a death by signal N is 128 + N)

ASSUME RequestAssumption ==
  /\ Missing \notin Hash /\ Unpinned \notin Hash /\ NoRef \notin Ref
  /\ Code \subseteq 0..255

VARIABLES
  asked,    \* the request, and what the vault holds for it
  pc,
  items,    \* the Keychain items of this service and account
  ref,      \* the item that was looked up
  cred,     \* what was read from it
  exe,      \* what is at the path of the executable
  mutable,  \* can the user of kpexec change or replace it?
  hashed,   \* the content pin::compute read
  secret,   \* was the secret extracted?
  ran,      \* the content that was executed
  result,   \* of the child, once it ended
  status,   \* the verdict
  log,      \* the audit records
  envelope, \* what --json printed
  exit      \* the exit code of kpexec

vars ==
  <<asked, pc, items, ref, cred, exe, mutable, hashed, secret, ran, result, status, log, envelope, exit>>

Nothing == [kind |-> "nothing"]

\* KpexecStatus and its exit codes, as far as a run uses them.
ExitCodes == [success |-> 0, unknownEntry |-> 100, unknownCommand |-> 101, malformedPolicy |-> 102,
              exeHashMismatch |-> 103, unlockFailed |-> 104, redactionFailure |-> 105,
              timeout |-> 106, configError |-> 107, internal |-> 109]

Status == DOMAIN ExitCodes

Request ==
  [config : {"named", "unset", "broken"},
   signed : BOOLEAN,                 \* is the running binary the release?
   entry : {"single", "unknownEntry", "malformedPolicy"}, \* duplicates are malformedPolicy
   known : BOOLEAN,                  \* does the policy have the command?
   pin : Hash \cup {Unpinned},
   stored : BOOLEAN,                 \* is there a secret?
   dryRun : BOOLEAN, json : BOOLEAN]

\* A Keychain item: does it carry the release's partition list, and no other,
\* and is the vault it names the one that is configured?
Item == [bound : BOOLEAN, blesses : BOOLEAN]

Unlocking == {"find", "binding", "read"}

Result == [kind : {"ended"}, code : Code, timedOut : BOOLEAN, leaked : BOOLEAN]

TypeOK ==
  /\ asked \in Request
  /\ pc \in Unlocking \cup {"config", "open", "resolve", "hash", "enforce", "choose", "secret",
                            "spawn", "wait", "emit", "done"}
  /\ items \in [Ref -> Item \cup {Nothing}]
  /\ ref \in Ref \cup {NoRef} /\ cred \in Item \cup {Nothing}
  /\ exe \in Hash \cup {Missing} /\ mutable \in BOOLEAN
  /\ hashed \in Hash \cup {Missing} /\ ran \in Hash \cup {Missing}
  /\ secret \in BOOLEAN
  /\ result \in Result \cup {Nothing}
  /\ status \in Status
  /\ log \in Seq(Status)
  /\ envelope = Nothing \/ envelope.status \in Status
  /\ exit \in 0..255

Init ==
  /\ asked \in Request /\ pc = "config"
  /\ items \in [Ref -> Item \cup {Nothing}] /\ ref = NoRef /\ cred = Nothing
  /\ exe \in Hash \cup {Missing} /\ mutable \in BOOLEAN
  /\ hashed = Missing /\ secret = FALSE /\ ran = Missing /\ result = Nothing
  /\ status = "success" /\ log = <<>> /\ envelope = Nothing /\ exit = 0

Unlocked == <<ref, cred>>
World == <<asked, items, Unlocked, exe, mutable>>
Report == <<log, envelope, exit>>

\* Every rejection goes to emit_error.
Reject(why) == pc' = "emit" /\ status' = why

Pass(next) == pc' = next /\ UNCHANGED status

\* A dry run goes straight to its report, the rest to the secret.
Choice == IF asked.dryRun THEN "emit" ELSE "secret"

\* One record and, with --json, one envelope with the child's code, if any.
Reported(code) ==
  /\ log' = Append(log, status)
  /\ envelope' = IF asked.json THEN [kind |-> "json", status |-> status, code |-> code]
                               ELSE Nothing
  /\ pc' = "done"

-------------------------------------------------------------------------------
(* Faulty variants of single steps, for mutation testing of the properties *)
(* below; the specification does not use them.                             *)

\* ReadHash: a missing file is hashed as an empty one.
MissingHashed ==
  /\ pc = "hash" /\ hashed' = (IF exe = Missing THEN Nothing ELSE exe)
  /\ IF asked.pin \notin {Unpinned, exe} THEN Reject("exeHashMismatch") ELSE Pass("enforce")
  /\ UNCHANGED <<World, secret, ran, result, Report>>

\* ReadItem: the item is looked up once more.
LookedUpAgain ==
  /\ pc = "read"
  /\ \/ \E r \in Ref : items[r] # Nothing /\ cred' = items[r] /\ Pass("open")
     \/ UNCHANGED cred /\ Reject("unlockFailed")
  /\ UNCHANGED <<asked, items, ref, exe, mutable, hashed, secret, ran, result, Report>>

\* Enforce: a pin is enough, whoever may change the file.
PinSuffices ==
  /\ pc = "enforce" /\ Pass("choose")
  /\ UNCHANGED <<World, hashed, secret, ran, result, Report>>

\* Verdict: a timeout hides a redaction failure.
TimeoutFirst(r) ==
  IF r.timedOut THEN "timeout" ELSE IF r.leaked THEN "redactionFailure" ELSE "success"

\* EmitSpawned: the child's code is propagated after a timeout as well.
ChildCodeOnTimeout ==
  /\ pc = "emit" /\ result # Nothing
  /\ Reported(result.code)
  /\ exit' = IF status = "redactionFailure" THEN ExitCodes[status] ELSE result.code
  /\ UNCHANGED <<World, hashed, secret, ran, result, status>>

-------------------------------------------------------------------------------

\* run: a configuration that cannot be read or names no vault is returned as an
\* error before run_with is entered: no record, no envelope.
LoadConfig ==
  /\ pc = "config"
  /\ IF asked.config = "named"
     THEN Pass("find") /\ UNCHANGED exit
     ELSE pc' = "done" /\ status' = "configError" /\ exit' = ExitCodes["configError"]
  /\ UNCHANGED <<World, hashed, secret, ran, result, log, envelope>>

Present == {r \in Ref : items[r] # Nothing}

\* get: prove the running binary's identity, and find exactly one item ...
FindItem ==
  /\ pc = "find"
  /\ IF asked.signed /\ \E r \in Ref : Present = {r}
     THEN ref' \in Present /\ Pass("binding")
     ELSE UNCHANGED ref /\ Reject("unlockFailed")
  /\ UNCHANGED <<asked, items, cred, exe, mutable, hashed, secret, ran, result, Report>>

\* ... whose partition list is the release's and nothing else ...
CheckBinding ==
  /\ pc = "binding"
  /\ IF ref \in Present /\ items[ref].bound THEN Pass("read") ELSE Reject("unlockFailed")
  /\ UNCHANGED <<World, hashed, secret, ran, result, Report>>

\* ... and read it through the reference that was checked.
ReadItem ==
  /\ pc = "read"
  /\ IF ref \in Present THEN cred' = items[ref] /\ Pass("open")
                       ELSE UNCHANGED cred /\ Reject("unlockFailed")
  /\ UNCHANGED <<asked, items, ref, exe, mutable, hashed, secret, ran, result, Report>>

\* open_with_credential: the item, not the configuration, names the vault.
OpenVault ==
  /\ pc = "open"
  /\ IF cred.blesses THEN Pass("resolve") ELSE Reject("configError")
  /\ UNCHANGED <<World, hashed, secret, ran, result, Report>>

\* The Security framework fails, the item is not a credential, or the password
\* it holds does not open the file that is there by now.
UnlockFails ==
  /\ pc \in Unlocking \cup {"open"} /\ Reject("unlockFailed")
  /\ UNCHANGED <<World, hashed, secret, ran, result, Report>>

\* resolve: find the entry, find the command.
Resolve ==
  /\ pc = "resolve"
  /\ IF asked.entry # "single" THEN Reject(asked.entry)
     ELSE IF ~asked.known THEN Reject("unknownCommand")
     ELSE Pass("hash")
  /\ UNCHANGED <<World, hashed, secret, ran, result, Report>>

\* verify_exe: read and hash the file, check its mode, compare the pin ...
ReadHash ==
  /\ pc = "hash" /\ hashed' = exe
  /\ IF exe = Missing THEN Reject("malformedPolicy")
     ELSE IF asked.pin \notin {Unpinned, exe} THEN Reject("exeHashMismatch")
     ELSE Pass("enforce")
  /\ UNCHANGED <<World, secret, ran, result, Report>>

\* ... and refuse a pin on a file the user could change after this.
Enforce ==
  /\ pc = "enforce"
  /\ IF asked.pin # Unpinned /\ mutable THEN Reject("malformedPolicy") ELSE Pass("choose")
  /\ UNCHANGED <<World, hashed, secret, ran, result, Report>>

ChoosePath ==
  /\ pc = "choose" /\ Pass(Choice)
  /\ UNCHANGED <<World, hashed, secret, ran, result, Report>>

\* read_secret.
TakeSecret ==
  /\ pc = "secret"
  /\ IF asked.stored THEN secret' = TRUE /\ Pass("spawn")
                     ELSE UNCHANGED secret /\ Reject("malformedPolicy")
  /\ UNCHANGED <<World, hashed, ran, result, Report>>

\* The path is executed, whatever is there by now.
Spawn ==
  /\ pc = "spawn" /\ exe # Missing /\ ran' = exe /\ Pass("wait")
  /\ UNCHANGED <<World, hashed, secret, result, Report>>

SpawnFails ==
  /\ pc = "spawn" /\ Reject("internal")
  /\ UNCHANGED <<World, hashed, secret, ran, result, Report>>

WaitFails ==
  /\ pc = "wait" /\ Reject("internal")
  /\ UNCHANGED <<World, hashed, secret, ran, result, Report>>

\* Output that redaction could not clear outranks a timeout.
Verdict(r) ==
  IF r.leaked THEN "redactionFailure" ELSE IF r.timedOut THEN "timeout" ELSE "success"

ChildEnds ==
  /\ pc = "wait" /\ result' \in Result
  /\ pc' = "emit" /\ status' = Verdict(result')
  /\ UNCHANGED <<World, hashed, secret, ran, Report>>

\* emit_spawned: the child's own code is the exit code when it decided.
EmitSpawned ==
  /\ pc = "emit" /\ result # Nothing
  /\ Reported(result.code)
  /\ exit' = IF status = "success" THEN result.code ELSE ExitCodes[status]
  /\ UNCHANGED <<World, hashed, secret, ran, result, status>>

\* emit_dry_run.
EmitDryRun ==
  /\ pc = "emit" /\ result = Nothing /\ status = "success"
  /\ Reported(Nothing)
  /\ exit' = ExitCodes["success"]
  /\ UNCHANGED <<World, hashed, secret, ran, result, status>>

\* emit_error; without --json the error is returned, and main exits with its
\* status just the same.
EmitError ==
  /\ pc = "emit" /\ result = Nothing /\ status # "success"
  /\ Reported(Nothing)
  /\ exit' = ExitCodes[status]
  /\ UNCHANGED <<World, hashed, secret, ran, result, status>>

\* Another program creates, updates or deletes an item while kpexec looks at
\* the Keychain.  An update keeps the partition list, and a reference to a
\* deleted item never comes to mean a new one.
ChangeItem(r) ==
  /\ pc \in Unlocking
  /\ \E i \in (Item \cup {Nothing}) \ {items[r]} :
       /\ (items[r] # Nothing /\ i # Nothing) => i.bound = items[r].bound
       /\ ref = r => items[r] # Nothing
       /\ items' = [items EXCEPT ![r] = i]
  /\ UNCHANGED <<asked, pc, Unlocked, exe, mutable, hashed, secret, ran, result, status, Report>>

\* Somebody who may replaces the file, or removes it.
ReplaceExe ==
  /\ mutable /\ exe' \in (Hash \cup {Missing}) \ {exe}
  /\ UNCHANGED <<asked, pc, items, Unlocked, mutable, hashed, secret, ran, result, status, Report>>

Next ==
  \/ LoadConfig \/ FindItem \/ CheckBinding \/ ReadItem \/ OpenVault \/ UnlockFails
  \/ \E r \in Ref : ChangeItem(r)
  \/ Resolve \/ ReadHash \/ Enforce \/ ChoosePath \/ TakeSecret
  \/ Spawn \/ SpawnFails \/ WaitFails \/ ChildEnds
  \/ EmitSpawned \/ EmitDryRun \/ EmitError \/ ReplaceExe

Spec == Init /\ [][Next]_vars

-------------------------------------------------------------------------------
(* Properties.                                                             *)

\* A pinned command executes exactly the bytes its pin approved, although the
\* file is hashed in one step and executed several steps later.
PinnedBytesRan ==
  (ran # Missing /\ asked.pin # Unpinned) => ran = asked.pin

\* The secret is taken only from a vault that an item of kpexec's own names, as
\* read, whatever other programs did to the Keychain between the check and the
\* read; and only for a request that will spawn: never in a dry run, never for
\* a rejected one, never before the bytes were compared.
SecretOnlyToSpawn ==
  secret => /\ asked.signed /\ cred.bound /\ cred.blesses
            /\ ~asked.dryRun /\ asked.known /\ hashed # Missing
            /\ asked.pin \in {Unpinned, hashed}

\* A request whose vault is configured is recorded exactly once, and log,
\* envelope and exit code agree: a run with leftover secret material is a redaction failure even if it also
\* timed out, the exit code is the child's only when the child decided the
\* outcome (the envelope then says success and repeats it, as the code alone
\* may collide with one of kpexec's), and 0 without a child is a dry run.
ReportsAgree ==
  (pc = "done" /\ asked.config = "named") =>
    /\ log = <<status>>
    /\ asked.json => envelope.status = status
    /\ (result # Nothing /\ result.leaked) => exit = ExitCodes["redactionFailure"]
    /\ IF result # Nothing /\ ~result.timedOut /\ ~result.leaked
       THEN exit = result.code /\ (asked.json => envelope.status = "success" /\ envelope.code = exit)
       ELSE exit = ExitCodes[status] /\ (exit = 0 => asked.dryRun)
===============================================================================
