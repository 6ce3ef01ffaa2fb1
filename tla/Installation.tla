----------------------------- MODULE Installation -----------------------------
(***************************************************************************)
(* `kpexec init` (src/src/cmd_init.rs): create a vault, or adopt one, then *)
(* store its password in the Keychain and write config.toml.  The three    *)
(* stores share no transaction; init snapshots them, and restores them on  *)
(* some of its error paths, as far as it can.  Each call that changes a    *)
(* store, or looks at the Keychain before it does, is an action, may fail, *)
(* and may be the last before a crash; between any two, other programs may *)
(* add or remove Keychain items of the same account.  Init takes no lock;  *)
(* one init runs at a time here, and VaultSession shows it beside others.  *)
(***************************************************************************)
EXTENDS Naturals

CONSTANTS
  Key, Db,
  EmptyDb,        \* the database a new vault holds
  Hint, OwnHint,  \* contents of config.toml, and the one init writes
  NoFile, Torn,
  NoItem,         \* the Keychain has no item for this vault,
  Alien, Stray,   \* one of another program, or an own one that it cannot prove
  MaxFaults       \* bound on failed calls, crashes, and items others add or remove

Image == [key : Key, db : Db]

ASSUME InstallationAssumption ==
  /\ EmptyDb \in Db /\ OwnHint \in Hint /\ Key \cap {NoItem, Alien, Stray} = {}
  /\ NoItem # Alien /\ Stray \notin {NoItem, Alien}
  /\ NoFile \notin Image \cup Hint /\ Torn \notin Image \cup Hint /\ NoFile # Torn
  /\ MaxFaults \in Nat

VARIABLES
  vault, bak, tmp,  \* the vault files
  kc, crowd,        \* the Keychain's items for this vault
  config,           \* config.toml
  pc,               \* the next call of the running init
  mode,             \* "create", or "adopt" for --use-existing
  task,             \* what a set of the Keychain item is for: "commit" or "undo"
  orig,             \* its snapshots
  new,              \* the generated, or entered, password
  outcome,          \* how the last init ended
  faults

files == <<vault, bak, tmp>>
keychain == <<kc, crowd>>
memory == <<mode, orig, new>>
vars == <<files, keychain, config, pc, task, memory, outcome, faults>>

F == INSTANCE VaultFiles
K == INSTANCE Keychain WITH item <- kc

Item == Key \cup {NoItem}
ConfigFile == Hint \cup {NoFile, Torn}

Opens(f, k) == f \in Image /\ f.key = k

Fresh == [key |-> new, db |-> EmptyDb]

SaveStep == {"create", "write", "truncate", "copy", "publish"}
KeychainStep == {"find", "check", "update", "add", "resolve", "prove", "drop", "purge", "delete"}
CommitStep == {"config", "fillconfig", "print"}
UndoStep == {"rbconfig", "rbfillconfig", "rbvault", "rbfillvault", "rbbak", "rbfillbak"}

TypeOK ==
  /\ F!FilesTypeOK
  /\ K!KeychainTypeOK /\ config \in ConfigFile
  /\ pc \in {"idle"} \cup SaveStep \cup KeychainStep \cup CommitStep \cup UndoStep
  /\ mode \in {"create", "adopt"} /\ task \in {"commit", "undo"}
  /\ orig \in [vault : F!File, bak : F!File, kc : Item, config : ConfigFile]
  /\ new \in Key
  /\ outcome \in {"none", "refused", "committed", "unshown", "error", "crashed"}
  /\ faults \in Nat

-------------------------------------------------------------------------------

Stores == [vault |-> vault, bak |-> bak, kc |-> kc, config |-> config]

\* Nothing installed, an installation, or the parts of one that its user
\* moved, deleted or brought from elsewhere.
Init ==
  /\ vault \in Image \cup {NoFile} /\ bak \in Image \cup {NoFile, Torn}
  /\ tmp \in {NoFile, Torn}
  /\ kc \in Item \cup {Alien, Stray} /\ crowd \in BOOLEAN /\ config \in Hint \cup {NoFile}
  /\ mode = "create" /\ task = "commit" /\ new \in Key
  /\ orig = [Stores EXCEPT !.kc = NoItem]
  /\ pc = "idle" /\ outcome = "none" /\ faults = 0

Goto(next) == pc' = next
Fault == faults < MaxFaults /\ faults' = faults + 1
Finish(verdict) == Goto("idle") /\ outcome' = verdict
Quiet == UNCHANGED <<memory, outcome>>

\* The rollback is done with the Keychain: an adopted vault and its backup are
\* left alone.
AfterUndo == IF mode = "adopt" THEN Finish("error") ELSE Goto("rbvault") /\ UNCHANGED outcome

-------------------------------------------------------------------------------
(* Faulty variants of single definitions, for mutation testing of the      *)
(* properties below; the specification does not use them.                  *)

\* Allowed: --force overrides nothing.
ForceIgnored(m, force) ==
  /\ config = NoFile /\ kc = NoItem /\ (m = "create" => vault = NoFile)
  /\ m = "adopt" => vault \in Image

\* WriteTmpFails: goes on to set the Keychain.
SaveErrorIgnored ==
  /\ pc = "write" /\ Fault /\ F!DiscardTmp /\ Goto("find")
  /\ Quiet /\ UNCHANGED <<keychain, config, task>>

\* UpdateItem: stores the snapshot of the vault, not its password.
SnapshotStored ==
  /\ pc = "update" /\ K!Update(orig.vault) /\ Goto("config")
  /\ Quiet /\ UNCHANGED <<files, config, task, faults>>

\* CheckItem: whatever was found is updated.
PartitionIgnored ==
  /\ pc = "check" /\ Goto("update")
  /\ Quiet /\ UNCHANGED <<files, keychain, config, task, faults>>

\* SetFails: init goes on to write the configuration.
KeychainErrorIgnored ==
  /\ UNCHANGED task
  /\ IF task = "commit" THEN Goto("config") /\ UNCHANGED outcome ELSE AfterUndo

\* FillConfig: an unwritten configuration counts as written.
ConfigNotFlushed ==
  /\ pc = "fillconfig" /\ Goto("print")
  /\ Quiet /\ UNCHANGED <<files, keychain, config, task, faults>>

\* UndoKeychain: an item that init added stays.
AddedItemKept ==
  /\ task' = "undo"
  /\ IF orig.kc \in Key THEN Goto("find") ELSE Goto("rbvault")

-------------------------------------------------------------------------------
\* guard_clobber, whose Keychain read fails on any item it cannot prove, and
\* for --use-existing a vault that the entered password, its own, can open.
Allowed(m, force) ==
  /\ K!Absent \/ (K!Unique /\ K!Verified)
  /\ force \/ (config = NoFile /\ kc = NoItem /\ (m = "create" => vault = NoFile))
  /\ m = "adopt" => vault \in Image

\* A guard refuses, or a read before the first write fails.
Refuse(m, force) ==
  /\ pc = "idle" /\ ~Allowed(m, force) /\ Finish("refused")
  /\ UNCHANGED <<files, keychain, config, task, memory, faults>>

ReadFails ==
  /\ pc = "idle" /\ Fault /\ Finish("refused")
  /\ UNCHANGED <<files, keychain, config, task, memory>>

\* Guards pass, snapshots are taken, a password is generated or entered.
Begin(m, force) ==
  /\ pc = "idle" /\ Allowed(m, force)
  /\ mode' = m /\ orig' = Stores
  /\ new' \in IF m = "adopt" THEN {vault.key} ELSE Key
  /\ task' = "commit" /\ Goto(IF m = "adopt" THEN "find" ELSE "create")
  /\ UNCHANGED <<files, keychain, config, outcome, faults>>

-------------------------------------------------------------------------------
(* create_new: Vault::save_atomic; `create_new(..)?` returns its errors    *)
(* without a rollback.                                                     *)

CreateTmp ==
  /\ pc = "create" /\ F!CreateTmp /\ Goto("write")
  /\ Quiet /\ UNCHANGED <<keychain, config, task, faults>>

CreateTmpFails ==
  /\ pc = "create" /\ Fault /\ Finish("error")
  /\ UNCHANGED <<files, keychain, config, task, memory>>

WriteTmp ==
  /\ pc = "write" /\ F!WriteTmp(Fresh)
  /\ Goto(IF vault = NoFile THEN "publish" ELSE "truncate")
  /\ Quiet /\ UNCHANGED <<keychain, config, task, faults>>

WriteTmpFails ==
  /\ pc = "write" /\ Fault /\ F!DiscardTmp /\ Finish("error")
  /\ UNCHANGED <<keychain, config, task, memory>>

TruncateBak ==
  /\ pc = "truncate" /\ F!TruncateBak /\ Goto("copy")
  /\ Quiet /\ UNCHANGED <<keychain, config, task, faults>>

CopyBak ==
  /\ pc = "copy" /\ F!FillBak /\ Goto("publish")
  /\ Quiet /\ UNCHANGED <<keychain, config, task, faults>>

CopyBakFails ==
  /\ pc \in {"truncate", "copy"} /\ Fault /\ Goto("publish")
  /\ Quiet /\ UNCHANGED <<files, keychain, config, task>>

Publish ==
  /\ pc = "publish" /\ F!Publish /\ Goto("find")
  /\ Quiet /\ UNCHANGED <<keychain, config, task, faults>>

PublishFails ==
  /\ pc = "publish" /\ Fault /\ F!DiscardTmp /\ Finish("error")
  /\ UNCHANGED <<keychain, config, task, memory>>

-------------------------------------------------------------------------------

(* MacKeychain::set, for the commit and again for the rollback, and delete. *)
(* A reference found or added is checked before it is used; an item that   *)
(* was added and cannot be proved is taken out again.                      *)

\* rollback_init turns to the Keychain: set if there was a credential, delete
\* if there was none.
UndoKeychain == task' = "undo" /\ Goto(IF orig.kc \in Key THEN "find" ELSE "delete")

Value == IF task = "commit" THEN new ELSE orig.kc

SetDone == IF task = "commit" THEN Goto("config") /\ UNCHANGED outcome ELSE AfterUndo

\* The error starts the rollback, or is logged by it.
SetFails == IF task = "commit" THEN UndoKeychain /\ UNCHANGED outcome ELSE AfterUndo /\ UNCHANGED task

KeychainQuiet == UNCHANGED <<files, config, memory>>

FindItem ==
  /\ pc = "find"
  /\ IF K!Absent \/ K!Unique
     THEN Goto(IF K!Absent THEN "add" ELSE "check") /\ UNCHANGED <<task, outcome>>
     ELSE SetFails
  /\ KeychainQuiet /\ UNCHANGED <<keychain, faults>>

CheckItem ==
  /\ pc = "check"
  /\ IF K!Verified THEN Goto("update") /\ UNCHANGED <<task, outcome>> ELSE SetFails
  /\ KeychainQuiet /\ UNCHANGED <<keychain, faults>>

UpdateItem ==
  /\ pc = "update" /\ K!Update(Value) /\ SetDone
  /\ KeychainQuiet /\ UNCHANGED <<task, faults>>

\* A lookup or inspection fails; an update's error does not say whether the
\* item was changed.
LookupFails ==
  /\ pc \in {"find", "check"} /\ Fault /\ SetFails
  /\ KeychainQuiet /\ UNCHANGED keychain

UpdateFails ==
  /\ pc = "update" /\ Fault /\ (K!Update(Value) \/ UNCHANGED keychain) /\ SetFails
  /\ KeychainQuiet

AddItem ==
  /\ pc = "add" /\ K!Add(Value) /\ Goto("resolve")
  /\ IF kc' = Stray THEN Fault ELSE UNCHANGED faults
  /\ KeychainQuiet /\ UNCHANGED <<task, outcome>>

\* Another item came first, or the call fails.
AddFails ==
  /\ pc = "add" /\ SetFails
  /\ IF kc = NoItem THEN Fault ELSE UNCHANGED faults
  /\ KeychainQuiet /\ UNCHANGED keychain

\* The new item is looked up again; without a reference to it, add_item
\* deletes by name.
ResolveItem ==
  /\ pc = "resolve" /\ Goto(IF K!Unique THEN "prove" ELSE "purge")
  /\ KeychainQuiet /\ UNCHANGED <<keychain, task, outcome, faults>>

ProveItem ==
  /\ pc = "prove"
  /\ IF K!Verified THEN SetDone ELSE Goto("drop") /\ UNCHANGED outcome
  /\ KeychainQuiet /\ UNCHANGED <<keychain, task, faults>>

ResolveFails ==
  /\ pc \in {"resolve", "prove"} /\ Fault
  /\ Goto(IF pc = "resolve" THEN "purge" ELSE "drop")
  /\ KeychainQuiet /\ UNCHANGED <<keychain, task, outcome>>

DropItem ==
  /\ pc = "drop" /\ K!DeleteOwn /\ SetFails
  /\ KeychainQuiet /\ UNCHANGED faults

PurgeItems ==
  /\ pc = "purge" /\ K!DeleteByName /\ SetFails
  /\ KeychainQuiet /\ UNCHANGED faults

CleanupFails ==
  /\ pc \in {"drop", "purge"} /\ Fault /\ SetFails
  /\ KeychainQuiet /\ UNCHANGED keychain

\* MacKeychain::delete, which looks at no partition list.
DeleteItems ==
  /\ pc = "delete" /\ K!DeleteByName /\ AfterUndo
  /\ KeychainQuiet /\ UNCHANGED <<task, faults>>

DeleteFails ==
  /\ pc = "delete" /\ Fault /\ AfterUndo
  /\ KeychainQuiet /\ UNCHANGED <<keychain, task>>

OtherProgram ==
  /\ Fault /\ K!OtherProgram
  /\ UNCHANGED <<files, config, pc, task, memory, outcome>>

-------------------------------------------------------------------------------

\* write_config: fs::write truncates ...
TruncateConfig ==
  /\ pc = "config" /\ config' = Torn /\ Goto("fillconfig")
  /\ Quiet /\ UNCHANGED <<files, keychain, task, faults>>

\* ... and writes.
FillConfig ==
  /\ pc = "fillconfig" /\ config' = OwnHint /\ Goto("print")
  /\ Quiet /\ UNCHANGED <<files, keychain, task, faults>>

ConfigFails ==
  /\ pc \in {"config", "fillconfig"} /\ Fault /\ Goto("rbconfig")
  /\ Quiet /\ UNCHANGED <<files, keychain, config, task>>

PrintKey ==
  /\ pc = "print" /\ Finish("committed")
  /\ UNCHANGED <<files, keychain, config, task, memory, faults>>

\* println! panics on a closed stdout; the installation stands.
PrintKeyFails ==
  /\ pc = "print" /\ Fault /\ Finish("unshown")
  /\ UNCHANGED <<files, keychain, config, task, memory>>

-------------------------------------------------------------------------------
(* rollback_init: configuration, Keychain, vault, backup, each best-effort *)
(* (a failure is logged and the next is tried).  FileSnapshot::restore     *)
(* removes a file that was absent and rewrites any other in place, which   *)
(* truncates it first.                                                     *)

RestoreConfig ==
  /\ pc = "rbconfig"
  /\ IF orig.config = NoFile
     THEN config' = NoFile /\ UndoKeychain
     ELSE config' = Torn /\ Goto("rbfillconfig") /\ UNCHANGED task
  /\ Quiet /\ UNCHANGED <<files, keychain, faults>>

RefillConfig ==
  /\ pc = "rbfillconfig" /\ config' = orig.config /\ UndoKeychain
  /\ Quiet /\ UNCHANGED <<files, keychain, faults>>

RestoreConfigFails ==
  /\ pc \in {"rbconfig", "rbfillconfig"} /\ Fault /\ UndoKeychain
  /\ Quiet /\ UNCHANGED <<files, keychain, config>>

RestoreVault ==
  /\ pc = "rbvault"
  /\ IF orig.vault = NoFile
     THEN vault' = NoFile /\ Goto("rbbak")
     ELSE vault' = Torn /\ Goto("rbfillvault")
  /\ Quiet /\ UNCHANGED <<bak, tmp, keychain, config, task, faults>>

RefillVault ==
  /\ pc = "rbfillvault" /\ F!ReplaceVault(orig.vault) /\ Goto("rbbak")
  /\ Quiet /\ UNCHANGED <<keychain, config, task, faults>>

RestoreVaultFails ==
  /\ pc \in {"rbvault", "rbfillvault"} /\ Fault /\ Goto("rbbak")
  /\ Quiet /\ UNCHANGED <<files, keychain, config, task>>

RestoreBak ==
  /\ pc = "rbbak"
  /\ IF orig.bak = NoFile
     THEN bak' = NoFile /\ Finish("error")
     ELSE bak' = Torn /\ Goto("rbfillbak") /\ UNCHANGED outcome
  /\ UNCHANGED <<vault, tmp, keychain, config, task, memory, faults>>

RefillBak ==
  /\ pc = "rbfillbak" /\ F!ReplaceBak(orig.bak) /\ Finish("error")
  /\ UNCHANGED <<keychain, config, task, memory, faults>>

RestoreBakFails ==
  /\ pc \in {"rbbak", "rbfillbak"} /\ Fault /\ Finish("error")
  /\ UNCHANGED <<files, keychain, config, task, memory>>

Crash ==
  /\ pc # "idle" /\ Fault /\ Finish("crashed")
  /\ UNCHANGED <<files, keychain, config, task, memory>>

-------------------------------------------------------------------------------

Save ==
  \/ CreateTmp \/ CreateTmpFails \/ WriteTmp \/ WriteTmpFails
  \/ TruncateBak \/ CopyBak \/ CopyBakFails \/ Publish \/ PublishFails

Keychain ==
  \/ FindItem \/ CheckItem \/ UpdateItem \/ LookupFails \/ UpdateFails
  \/ AddItem \/ AddFails \/ ResolveItem \/ ProveItem \/ ResolveFails
  \/ DropItem \/ PurgeItems \/ CleanupFails \/ DeleteItems \/ DeleteFails

Commit ==
  \/ TruncateConfig \/ FillConfig \/ ConfigFails
  \/ PrintKey \/ PrintKeyFails

Undo ==
  \/ RestoreConfig \/ RefillConfig \/ RestoreConfigFails
  \/ RestoreVault \/ RefillVault \/ RestoreVaultFails
  \/ RestoreBak \/ RefillBak \/ RestoreBakFails

Next ==
  \/ \E m \in {"create", "adopt"}, force \in BOOLEAN : Refuse(m, force) \/ Begin(m, force)
  \/ ReadFails \/ Save \/ Keychain \/ Commit \/ Undo \/ Crash \/ OtherProgram

Spec == Init /\ [][Next]_vars

\* A started init runs until it returns or dies, and a user left without a
\* working installation tries `init --force` again.
FairSpec == Spec /\ WF_vars(Save \/ Keychain \/ Commit \/ Undo) /\ WF_vars(Begin("create", TRUE))

-------------------------------------------------------------------------------
(* Properties.                                                             *)

\* An installation that worked before `init --force` survives any one failed
\* call or crash: the Keychain password opens the vault or its backup, and if
\* init reported an error, what it opens is the old content.
UsableSurvives ==
  (pc = "idle" /\ faults <= 1 /\ Opens(orig.vault, orig.kc)) =>
    \E f \in {vault, bak} :
      Opens(f, kc) /\ (outcome = "error" => f.db = orig.vault.db)

\* cmd_init.rs ("an error cannot leave a half-initialized installation
\* behind"): one failed call leaves vault, Keychain and config as they were,
\* wherever it happens.
ErrorRestores ==
  (pc = "idle" /\ faults <= 1 /\ outcome = "error") =>
    vault = orig.vault /\ kc = orig.kc /\ config = orig.config

\* Success, and a failed display of the key, mean a working installation,
\* whatever failed on the way; adopting never touches the vault.
HonestInstall ==
  (pc = "idle" /\ outcome \in {"committed", "unshown"}) =>
    /\ Opens(vault, kc) /\ config = OwnHint
    /\ IF mode = "adopt" THEN vault = orig.vault /\ bak = orig.bak ELSE vault = Fresh

\* The configuration is the last store: it comes to name the vault only while
\* the Keychain opens it, on the rollback path too.
ConfigIsLast ==
  [][config' = OwnHint /\ config # OwnHint => Opens(vault, kc)]_vars

\* The item that init added is not yet proved.
Unproved == {"resolve", "prove", "drop", "purge"}

\* keychain.rs ("do not strand a credential"): no password gets into an item
\* that was there and cannot be proved kpexec's own, also if it came after
\* guard_clobber had found none.  One just added that cannot be proved is taken
\* out again, unless that call fails too, or init dies, or there is another item
\* of the account, which a delete by name may take instead.
NoPasswordStranded ==
  [][kc' = Stray =>
       \/ kc = NoItem /\ pc = "add"
       \/ kc = Stray /\ (pc \in Unproved => pc' \in Unproved \/ faults' # faults \/ crowd)]_vars

\* No state of the stores, however many calls failed before, keeps the user
\* from a working installation: retrying `init --force` reaches one, unless an
\* item of the account is in the way that kpexec cannot prove its own.
RetryInstalls ==
  pc = "idle" ~> ((Opens(vault, kc) /\ config = OwnHint) \/ kc \in {Alien, Stray} \/ crowd)
===============================================================================
