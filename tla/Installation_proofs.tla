------------------------- MODULE Installation_proofs -------------------------
(***************************************************************************)
(* TLAPS proofs about Installation: its types, that success means a working *)
(* installation, that no password stays in an item that kpexec cannot prove *)
(* its own as long as clean-up works, that the configuration comes last,   *)
(* and what is left after one failed call or crash - for every set of      *)
(* passwords and contents, and any number of inits, failures, crashes and  *)
(* items of other programs.                                                *)
(***************************************************************************)
EXTENDS Doctor, TLAPS

-------------------------------------------------------------------------------
(* The inductive invariant.  The properties speak of idle states; what makes  *)
(* them hold is what each call of init finds and leaves.                      *)

\* The vault is as the commit left it, and nothing undoes it.
Proceeding ==
  (task = "commit" /\ pc \in KeychainStep) \/ pc \in CommitStep \cup {"rbconfig", "rbfillconfig"}

RestoreStep == {"rbvault", "rbfillvault", "rbbak", "rbfillbak"}

\* An adopted vault stays as it was; a new one is complete before it gets its
\* name, and in place from then on.
FileInv ==
  /\ pc # "idle" /\ mode = "adopt" =>
       /\ pc \notin SaveStep \cup RestoreStep
       /\ vault \in Image /\ new = vault.key
       /\ vault = orig.vault /\ bak = orig.bak
  /\ pc \in {"truncate", "copy", "publish"} => tmp = Fresh
  /\ mode = "create" /\ Proceeding => vault = Fresh

\* An item that is written through has proved to be kpexec's own, what was added
\* is what was asked for, and the configuration waits for the Keychain.
ItemInv ==
  /\ pc = "update" => kc \in Key
  /\ pc \in {"resolve", "prove"} => kc \in {Value, Stray}
  /\ task = "undo" /\ pc \in KeychainStep \ {"delete"} => orig.kc \in Key
  /\ pc \in SaveStep \cup CommitStep \cup {"rbconfig", "rbfillconfig"} => task = "commit"
  /\ pc = "delete" => task = "undo"
  /\ pc \in CommitStep \cup {"rbconfig", "rbfillconfig"} => kc = new
  /\ pc = "print" => config = OwnHint

CommitInv == FileInv /\ ItemInv /\ HonestInstall

\* The item of the installation before is still in place.
Before == task = "commit" /\ pc \in SaveStep \cup {"find", "check", "update", "add"}

\* As long as no call failed nothing is undone, nobody added an item, and the
\* old vault has its backup before the Keychain forgets its password.
QuietInv == faults = 0 =>
  /\ outcome # "error" /\ task = "commit"
  /\ pc # "idle" => ~crowd /\ pc \notin UndoStep \cup {"drop", "purge", "delete"}
  /\ Before => kc = orig.kc
  /\ pc \in {"check", "resolve", "prove"} => kc \in Key
  /\ mode = "create" /\ orig.vault # NoFile /\ (pc = "publish" \/ pc \in KeychainStep) =>
       bak = orig.vault

\* With one fault at most, what the error paths find: stores that are not yet
\* changed, and items of which a delete by name leaves none.
ErrorInv == faults <= 1 =>
  /\ pc \in SaveStep => vault = orig.vault /\ config = orig.config
  /\ pc \in KeychainStep => config = orig.config
  /\ Before =>
       /\ orig.kc \in Key => kc = orig.kc /\ pc # "add"
       /\ orig.kc = NoItem => kc \in {NoItem, Alien} /\ (kc = NoItem \/ ~crowd) /\ pc # "update"
  /\ pc \in {"add", "resolve", "prove", "drop", "purge"} => task = "commit" /\ orig.kc = NoItem
  /\ pc = "delete" => orig.kc = NoItem /\ (kc = NoItem \/ ~crowd)
  /\ pc \in {"rbconfig", "rbfillconfig"} => ~crowd
  /\ task = "undo" /\ pc \in {"find", "check", "update"} =>
       kc \in Key /\ (crowd => kc = orig.kc /\ pc = "find")
  /\ pc \in RestoreStep => kc = orig.kc /\ config = orig.config
  /\ pc \in {"rbbak", "rbfillbak"} => vault = orig.vault

UndoInv == QuietInv /\ ErrorInv /\ ErrorRestores /\ UsableSurvives

IInv == TypeOK /\ CommitInv /\ UndoInv

\* The steps of Next outside the calls of a running init.
Outer ==
  \/ \E m \in {"create", "adopt"}, force \in BOOLEAN : Refuse(m, force)
  \/ \E m \in {"create", "adopt"}, force \in BOOLEAN : Begin(m, force)
  \/ ReadFails \/ Crash \/ OtherProgram

-------------------------------------------------------------------------------

(* What a delete by name leaves: nothing of one item, at most one of two.  *)
LEMMA DeleteByNameFacts ==
  ASSUME K!KeychainTypeOK, K!DeleteByName
  PROVE  /\ kc' \in {kc, NoItem} /\ crowd' \in BOOLEAN
         /\ kc = NoItem \/ ~crowd => kc' = NoItem
         /\ kc' = NoItem \/ ~crowd'
         /\ crowd' => crowd
<1>1. kc' \in {kc, NoItem} /\ (K!Absent \/ kc' # kc \/ crowd' # crowd)
  BY DEF K!DeleteByName
<1>2. crowd' \in {crowd, FALSE} /\ crowd \in BOOLEAN
  BY DEF K!DeleteByName, K!KeychainTypeOK
<1>3. crowd' \in BOOLEAN
  BY <1>2, Zenon
<1>4. crowd' => crowd
  BY <1>2, Zenon
<1>5. QED
  BY <1>1, <1>2, <1>3, <1>4 DEF K!Absent

(* What another program's step leaves: no password, in no item.            *)
LEMMA OtherProgramFacts ==
  ASSUME K!KeychainTypeOK, K!OtherProgram
  PROVE  /\ crowd' \in BOOLEAN
         /\ kc' = kc \/ (kc \in {NoItem, Alien} /\ kc' \in {NoItem, Alien} /\ crowd' = crowd)
<1>1. CASE kc \in {NoItem, Alien} /\ kc' \in {NoItem, Alien} /\ UNCHANGED crowd
  BY <1>1 DEF K!KeychainTypeOK
<1>2. CASE crowd' = ~crowd /\ UNCHANGED kc
  <2>1. crowd' \in BOOLEAN
    BY <1>2
  <2>2. QED
    BY <1>2, <2>1
<1>3. QED
  BY <1>1, <1>2 DEF K!OtherProgram

(* The components of an image, and the image of a new vault. *)
LEMMA ImageFacts ==
  ASSUME TypeOK
  PROVE  /\ Fresh \in Image /\ Fresh.key = new /\ Value \in Item
         /\ \A f \in Image : f.key \in Key
BY InstallationAssumption DEF TypeOK, Fresh, Image, Value, Item

LEMMA InitIInv == Init => IInv
<1> SUFFICES ASSUME Init PROVE IInv
  OBVIOUS
<1> USE InstallationAssumption DEF Init, Stores
<1>1. TypeOK
  BY DEF TypeOK, F!FilesTypeOK, F!File, K!KeychainTypeOK, Item, ConfigFile
<1>2. CommitInv
  BY DEF CommitInv, FileInv, ItemInv, HonestInstall, Proceeding, SaveStep, KeychainStep, CommitStep
<1>3. QuietInv /\ ErrorInv /\ ErrorRestores
  BY DEF QuietInv, ErrorInv, ErrorRestores, Before, RestoreStep, SaveStep, KeychainStep
<1>4. UsableSurvives
  <2>1. orig.kc = NoItem
    OBVIOUS
  <2>2. ~Opens(orig.vault, orig.kc)
    BY <1>1, <2>1, ImageFacts DEF Opens
  <2>3. QED
    BY <2>2 DEF UsableSurvives
<1>5. QED
  BY <1>1, <1>2, <1>3, <1>4 DEF IInv, UndoInv

-------------------------------------------------------------------------------

(* Every store keeps its type, and so does the memory of init. *)

LEMMA OuterKeepsType == TypeOK /\ Outer => TypeOK'
<1> SUFFICES ASSUME TypeOK, Outer PROVE TypeOK'
  OBVIOUS
<1> USE InstallationAssumption, ImageFacts DEF TypeOK, F!FilesTypeOK, F!File,
        K!KeychainTypeOK, Item, ConfigFile, Goto, Finish, Fault, Quiet, files, keychain,
        memory, SaveStep, KeychainStep, CommitStep, UndoStep
<1>1. CASE \E m \in {"create", "adopt"}, force \in BOOLEAN : Refuse(m, force)
  BY <1>1 DEF Refuse
<1>2. CASE \E m \in {"create", "adopt"}, force \in BOOLEAN : Begin(m, force)
  BY <1>2 DEF Begin, Allowed, Stores, K!Absent, K!Unique, K!Verified
<1>3. CASE ReadFails
  BY <1>3 DEF ReadFails
<1>4. CASE Crash
  BY <1>4 DEF Crash
<1>5. CASE OtherProgram
  BY <1>5, OtherProgramFacts DEF OtherProgram, K!OtherProgram
<1>6. QED
  BY <1>1, <1>2, <1>3, <1>4, <1>5 DEF Outer

LEMMA SaveKeepsType == TypeOK /\ Save => TypeOK'
<1> SUFFICES ASSUME TypeOK, Save PROVE TypeOK'
  OBVIOUS
<1> USE InstallationAssumption, ImageFacts DEF TypeOK, F!FilesTypeOK, F!File,
        K!KeychainTypeOK, Item, ConfigFile, Goto, Finish, Fault, Quiet, files, keychain,
        memory, SaveStep, KeychainStep, CommitStep, UndoStep
<1>1. CASE CreateTmp
  BY <1>1 DEF CreateTmp, F!CreateTmp
<1>2. CASE CreateTmpFails
  BY <1>2 DEF CreateTmpFails
<1>3. CASE WriteTmp
  BY <1>3 DEF WriteTmp, F!WriteTmp
<1>4. CASE WriteTmpFails
  BY <1>4 DEF WriteTmpFails, F!DiscardTmp
<1>5. CASE TruncateBak
  BY <1>5 DEF TruncateBak, F!TruncateBak
<1>6. CASE CopyBak
  BY <1>6 DEF CopyBak, F!FillBak
<1>7. CASE CopyBakFails
  BY <1>7 DEF CopyBakFails
<1>8. CASE Publish
  BY <1>8 DEF Publish, F!Publish
<1>9. CASE PublishFails
  BY <1>9 DEF PublishFails, F!DiscardTmp
<1>10. QED
  BY <1>1, <1>2, <1>3, <1>4, <1>5, <1>6, <1>7, <1>8, <1>9 DEF Save

LEMMA KeychainKeepsType == TypeOK /\ Keychain => TypeOK'
<1> SUFFICES ASSUME TypeOK, Keychain PROVE TypeOK'
  OBVIOUS
<1> USE InstallationAssumption, ImageFacts DEF TypeOK, F!FilesTypeOK, F!File,
        K!KeychainTypeOK, Item, ConfigFile, Goto, Finish, Fault, Quiet, files, keychain,
        memory, SaveStep, KeychainStep, CommitStep, UndoStep
<1>1. CASE FindItem
  BY <1>1 DEF FindItem, K!Absent, K!Unique, SetFails, KeychainQuiet, UndoKeychain,
         AfterUndo
<1>2. CASE CheckItem
  BY <1>2 DEF CheckItem, K!Verified, SetFails, KeychainQuiet, UndoKeychain, AfterUndo
<1>3. CASE UpdateItem
  BY <1>3 DEF UpdateItem, K!Update, SetDone, Value, KeychainQuiet, AfterUndo
<1>4. CASE LookupFails
  BY <1>4 DEF LookupFails, SetFails, KeychainQuiet, UndoKeychain, AfterUndo
<1>5. CASE UpdateFails
  BY <1>5 DEF UpdateFails, K!Update, SetFails, Value, KeychainQuiet, UndoKeychain,
         AfterUndo
<1>6. CASE AddItem
  BY <1>6 DEF AddItem, K!Add, Value, KeychainQuiet
<1>7. CASE AddFails
  BY <1>7 DEF AddFails, SetFails, KeychainQuiet, UndoKeychain, AfterUndo
<1>8. CASE ResolveItem
  BY <1>8 DEF ResolveItem, K!Unique, KeychainQuiet
<1>9. CASE ProveItem
  BY <1>9 DEF ProveItem, K!Verified, SetDone, KeychainQuiet, AfterUndo
<1>10. CASE ResolveFails
  BY <1>10 DEF ResolveFails, KeychainQuiet
<1>11. CASE DropItem
  BY <1>11 DEF DropItem, K!DeleteOwn, SetFails, KeychainQuiet, UndoKeychain, AfterUndo
<1>12. CASE PurgeItems
  BY <1>12, DeleteByNameFacts DEF PurgeItems, SetFails, KeychainQuiet, UndoKeychain,
         AfterUndo
<1>13. CASE CleanupFails
  BY <1>13 DEF CleanupFails, SetFails, KeychainQuiet, UndoKeychain, AfterUndo
<1>14. CASE DeleteItems
  BY <1>14, DeleteByNameFacts DEF DeleteItems, AfterUndo, KeychainQuiet
<1>15. CASE DeleteFails
  BY <1>15 DEF DeleteFails, AfterUndo, KeychainQuiet
<1>16. QED
  BY <1>1, <1>2, <1>3, <1>4, <1>5, <1>6, <1>7, <1>8, <1>9, <1>10, <1>11, <1>12, <1>13,
     <1>14, <1>15 DEF Keychain

LEMMA CommitKeepsType == TypeOK /\ Commit => TypeOK'
<1> SUFFICES ASSUME TypeOK, Commit PROVE TypeOK'
  OBVIOUS
<1> USE InstallationAssumption, ImageFacts DEF TypeOK, F!FilesTypeOK, F!File,
        K!KeychainTypeOK, Item, ConfigFile, Goto, Finish, Fault, Quiet, files, keychain,
        memory, SaveStep, KeychainStep, CommitStep, UndoStep
<1>1. CASE TruncateConfig
  BY <1>1 DEF TruncateConfig
<1>2. CASE FillConfig
  BY <1>2 DEF FillConfig
<1>3. CASE ConfigFails
  BY <1>3 DEF ConfigFails
<1>4. CASE PrintKey
  BY <1>4 DEF PrintKey
<1>5. CASE PrintKeyFails
  BY <1>5 DEF PrintKeyFails
<1>6. QED
  BY <1>1, <1>2, <1>3, <1>4, <1>5 DEF Commit

LEMMA UndoKeepsType == TypeOK /\ Undo => TypeOK'
<1> SUFFICES ASSUME TypeOK, Undo PROVE TypeOK'
  OBVIOUS
<1> USE InstallationAssumption, ImageFacts DEF TypeOK, F!FilesTypeOK, F!File,
        K!KeychainTypeOK, Item, ConfigFile, Goto, Finish, Fault, Quiet, files, keychain,
        memory, SaveStep, KeychainStep, CommitStep, UndoStep
<1>1. CASE RestoreConfig
  BY <1>1 DEF RestoreConfig, UndoKeychain
<1>2. CASE RefillConfig
  BY <1>2 DEF RefillConfig, UndoKeychain
<1>3. CASE RestoreConfigFails
  BY <1>3 DEF RestoreConfigFails, UndoKeychain
<1>4. CASE RestoreVault
  BY <1>4 DEF RestoreVault
<1>5. CASE RefillVault
  BY <1>5 DEF RefillVault, F!ReplaceVault
<1>6. CASE RestoreVaultFails
  BY <1>6 DEF RestoreVaultFails
<1>7. CASE RestoreBak
  BY <1>7 DEF RestoreBak
<1>8. CASE RefillBak
  BY <1>8 DEF RefillBak, F!ReplaceBak
<1>9. CASE RestoreBakFails
  BY <1>9 DEF RestoreBakFails
<1>10. QED
  BY <1>1, <1>2, <1>3, <1>4, <1>5, <1>6, <1>7, <1>8, <1>9 DEF Undo

-------------------------------------------------------------------------------

(* What a commit has done so far, and what success stands for. *)

LEMMA OuterKeepsCommit == TypeOK /\ CommitInv /\ UndoInv /\ Outer => CommitInv'
<1> SUFFICES ASSUME TypeOK, CommitInv, UndoInv, Outer PROVE CommitInv'
  OBVIOUS
<1> USE InstallationAssumption, ImageFacts DEF CommitInv, FileInv, ItemInv,
        HonestInstall, Proceeding, Opens, Fresh, Value, RestoreStep, TypeOK,
        F!FilesTypeOK, F!File, K!KeychainTypeOK, Item, ConfigFile, Goto, Finish, Fault,
        Quiet, files, keychain, memory, SaveStep, KeychainStep, CommitStep, UndoStep
<1>1. CASE \E m \in {"create", "adopt"}, force \in BOOLEAN : Refuse(m, force)
  BY <1>1 DEF Refuse
<1>2. CASE \E m \in {"create", "adopt"}, force \in BOOLEAN : Begin(m, force)
  BY <1>2 DEF Begin, Allowed, Stores, K!Absent, K!Unique, K!Verified
<1>3. CASE ReadFails
  BY <1>3 DEF ReadFails
<1>4. CASE Crash
  BY <1>4 DEF Crash
<1>5. CASE OtherProgram
  BY <1>5 DEF OtherProgram, K!OtherProgram
<1>6. QED
  BY <1>1, <1>2, <1>3, <1>4, <1>5 DEF Outer

LEMMA SaveKeepsCommit == TypeOK /\ CommitInv /\ UndoInv /\ Save => CommitInv'
<1> SUFFICES ASSUME TypeOK, CommitInv, UndoInv, Save PROVE CommitInv'
  OBVIOUS
<1> USE InstallationAssumption, ImageFacts DEF CommitInv, FileInv, ItemInv,
        HonestInstall, Proceeding, Opens, Fresh, Value, RestoreStep, TypeOK,
        F!FilesTypeOK, F!File, K!KeychainTypeOK, Item, ConfigFile, Goto, Finish, Fault,
        Quiet, files, keychain, memory, SaveStep, KeychainStep, CommitStep, UndoStep
<1>1. CASE CreateTmp
  BY <1>1 DEF CreateTmp, F!CreateTmp
<1>2. CASE CreateTmpFails
  BY <1>2 DEF CreateTmpFails
<1>3. CASE WriteTmp
  BY <1>3 DEF WriteTmp, F!WriteTmp
<1>4. CASE WriteTmpFails
  BY <1>4 DEF WriteTmpFails, F!DiscardTmp
<1>5. CASE TruncateBak
  BY <1>5 DEF TruncateBak, F!TruncateBak
<1>6. CASE CopyBak
  BY <1>6 DEF CopyBak, F!FillBak
<1>7. CASE CopyBakFails
  BY <1>7 DEF CopyBakFails
<1>8. CASE Publish
  BY <1>8 DEF Publish, F!Publish
<1>9. CASE PublishFails
  BY <1>9 DEF PublishFails, F!DiscardTmp
<1>10. QED
  BY <1>1, <1>2, <1>3, <1>4, <1>5, <1>6, <1>7, <1>8, <1>9 DEF Save

LEMMA KeychainKeepsCommit == TypeOK /\ CommitInv /\ UndoInv /\ Keychain => CommitInv'
<1> SUFFICES ASSUME TypeOK, CommitInv, UndoInv, Keychain PROVE CommitInv'
  OBVIOUS
<1> USE InstallationAssumption, ImageFacts DEF CommitInv, FileInv, ItemInv,
        HonestInstall, Proceeding, Opens, Fresh, Value, RestoreStep, TypeOK,
        F!FilesTypeOK, F!File, K!KeychainTypeOK, Item, ConfigFile, Goto, Finish, Fault,
        Quiet, files, keychain, memory, SaveStep, KeychainStep, CommitStep, UndoStep
<1>1. CASE FindItem
  BY <1>1 DEF FindItem, K!Absent, K!Unique, SetFails, KeychainQuiet, UndoKeychain,
         AfterUndo
<1>2. CASE CheckItem
  BY <1>2 DEF CheckItem, K!Verified, SetFails, KeychainQuiet, UndoKeychain, AfterUndo
<1>3. CASE UpdateItem
  BY <1>3 DEF UpdateItem, K!Update, SetDone, Value, KeychainQuiet, AfterUndo
<1>4. CASE LookupFails
  BY <1>4 DEF LookupFails, SetFails, KeychainQuiet, UndoKeychain, AfterUndo
<1>5. CASE UpdateFails
  BY <1>5 DEF UpdateFails, K!Update, SetFails, Value, KeychainQuiet, UndoKeychain,
         AfterUndo
<1>6. CASE AddItem
  BY <1>6 DEF AddItem, K!Add, Value, KeychainQuiet
<1>7. CASE AddFails
  BY <1>7 DEF AddFails, SetFails, KeychainQuiet, UndoKeychain, AfterUndo
<1>8. CASE ResolveItem
  BY <1>8 DEF ResolveItem, K!Unique, KeychainQuiet
<1>9. CASE ProveItem
  BY <1>9 DEF ProveItem, K!Verified, SetDone, KeychainQuiet, AfterUndo
<1>10. CASE ResolveFails
  BY <1>10 DEF ResolveFails, KeychainQuiet
<1>11. CASE DropItem
  BY <1>11 DEF DropItem, K!DeleteOwn, SetFails, KeychainQuiet, UndoKeychain, AfterUndo
<1>12. CASE PurgeItems
  BY <1>12, DeleteByNameFacts DEF PurgeItems, SetFails, KeychainQuiet, UndoKeychain,
         AfterUndo
<1>13. CASE CleanupFails
  BY <1>13 DEF CleanupFails, SetFails, KeychainQuiet, UndoKeychain, AfterUndo
<1>14. CASE DeleteItems
  BY <1>14, DeleteByNameFacts DEF DeleteItems, AfterUndo, KeychainQuiet
<1>15. CASE DeleteFails
  BY <1>15 DEF DeleteFails, AfterUndo, KeychainQuiet
<1>16. QED
  BY <1>1, <1>2, <1>3, <1>4, <1>5, <1>6, <1>7, <1>8, <1>9, <1>10, <1>11, <1>12, <1>13,
     <1>14, <1>15 DEF Keychain

LEMMA CommitKeepsCommit == TypeOK /\ CommitInv /\ UndoInv /\ Commit => CommitInv'
<1> SUFFICES ASSUME TypeOK, CommitInv, UndoInv, Commit PROVE CommitInv'
  OBVIOUS
<1> USE InstallationAssumption, ImageFacts DEF CommitInv, FileInv, ItemInv,
        HonestInstall, Proceeding, Opens, Fresh, Value, RestoreStep, TypeOK,
        F!FilesTypeOK, F!File, K!KeychainTypeOK, Item, ConfigFile, Goto, Finish, Fault,
        Quiet, files, keychain, memory, SaveStep, KeychainStep, CommitStep, UndoStep
<1>1. CASE TruncateConfig
  BY <1>1 DEF TruncateConfig
<1>2. CASE FillConfig
  BY <1>2 DEF FillConfig
<1>3. CASE ConfigFails
  BY <1>3 DEF ConfigFails
<1>4. CASE PrintKey
  BY <1>4 DEF PrintKey
<1>5. CASE PrintKeyFails
  BY <1>5 DEF PrintKeyFails
<1>6. QED
  BY <1>1, <1>2, <1>3, <1>4, <1>5 DEF Commit

LEMMA UndoKeepsCommit == TypeOK /\ CommitInv /\ UndoInv /\ Undo => CommitInv'
<1> SUFFICES ASSUME TypeOK, CommitInv, UndoInv, Undo PROVE CommitInv'
  OBVIOUS
<1> USE InstallationAssumption, ImageFacts DEF CommitInv, FileInv, ItemInv,
        HonestInstall, Proceeding, Opens, Fresh, Value, RestoreStep, TypeOK,
        F!FilesTypeOK, F!File, K!KeychainTypeOK, Item, ConfigFile, Goto, Finish, Fault,
        Quiet, files, keychain, memory, SaveStep, KeychainStep, CommitStep, UndoStep
<1>1. CASE RestoreConfig
  BY <1>1 DEF RestoreConfig, UndoKeychain
<1>2. CASE RefillConfig
  BY <1>2 DEF RefillConfig, UndoKeychain
<1>3. CASE RestoreConfigFails
  BY <1>3 DEF RestoreConfigFails, UndoKeychain
<1>4. CASE RestoreVault
  BY <1>4 DEF RestoreVault
<1>5. CASE RefillVault
  BY <1>5 DEF RefillVault, F!ReplaceVault
<1>6. CASE RestoreVaultFails
  BY <1>6 DEF RestoreVaultFails
<1>7. CASE RestoreBak
  BY <1>7 DEF RestoreBak
<1>8. CASE RefillBak
  BY <1>8 DEF RefillBak, F!ReplaceBak
<1>9. CASE RestoreBakFails
  BY <1>9 DEF RestoreBakFails
<1>10. QED
  BY <1>1, <1>2, <1>3, <1>4, <1>5, <1>6, <1>7, <1>8, <1>9 DEF Undo

-------------------------------------------------------------------------------

(* What an error path finds and leaves. *)

LEMMA OuterKeepsUndo == TypeOK /\ CommitInv /\ UndoInv /\ Outer => UndoInv'
<1> SUFFICES ASSUME TypeOK, CommitInv, UndoInv, Outer PROVE UndoInv'
  OBVIOUS
<1> USE InstallationAssumption, ImageFacts DEF CommitInv, FileInv, ItemInv, UndoInv,
        QuietInv, ErrorInv, ErrorRestores, UsableSurvives, HonestInstall, Opens,
        Proceeding, Fresh, Value, Before, RestoreStep, TypeOK, F!FilesTypeOK, F!File,
        K!KeychainTypeOK, Item, ConfigFile, Goto, Finish, Fault, Quiet, files, keychain,
        memory, SaveStep, KeychainStep, CommitStep, UndoStep
<1>1. CASE \E m \in {"create", "adopt"}, force \in BOOLEAN : Refuse(m, force)
  BY <1>1 DEF Refuse
<1>2. CASE \E m \in {"create", "adopt"}, force \in BOOLEAN : Begin(m, force)
  BY <1>2 DEF Begin, Allowed, Stores, K!Absent, K!Unique, K!Verified
<1>3. CASE ReadFails
  BY <1>3 DEF ReadFails
<1>4. CASE Crash
  BY <1>4 DEF Crash
<1>5. CASE OtherProgram
  BY <1>5 DEF OtherProgram, K!OtherProgram
<1>6. QED
  BY <1>1, <1>2, <1>3, <1>4, <1>5 DEF Outer

LEMMA SaveKeepsUndo == TypeOK /\ CommitInv /\ UndoInv /\ Save => UndoInv'
<1> SUFFICES ASSUME TypeOK, CommitInv, UndoInv, Save PROVE UndoInv'
  OBVIOUS
<1> USE InstallationAssumption, ImageFacts DEF CommitInv, FileInv, ItemInv, UndoInv,
        QuietInv, ErrorInv, ErrorRestores, UsableSurvives, HonestInstall, Opens,
        Proceeding, Fresh, Value, Before, RestoreStep, TypeOK, F!FilesTypeOK, F!File,
        K!KeychainTypeOK, Item, ConfigFile, Goto, Finish, Fault, Quiet, files, keychain,
        memory, SaveStep, KeychainStep, CommitStep, UndoStep
<1>1. CASE CreateTmp
  BY <1>1 DEF CreateTmp, F!CreateTmp
<1>2. CASE CreateTmpFails
  BY <1>2 DEF CreateTmpFails
<1>3. CASE WriteTmp
  BY <1>3 DEF WriteTmp, F!WriteTmp
<1>4. CASE WriteTmpFails
  BY <1>4 DEF WriteTmpFails, F!DiscardTmp
<1>5. CASE TruncateBak
  BY <1>5 DEF TruncateBak, F!TruncateBak
<1>6. CASE CopyBak
  BY <1>6 DEF CopyBak, F!FillBak
<1>7. CASE CopyBakFails
  BY <1>7 DEF CopyBakFails
<1>8. CASE Publish
  BY <1>8 DEF Publish, F!Publish
<1>9. CASE PublishFails
  BY <1>9 DEF PublishFails, F!DiscardTmp
<1>10. QED
  BY <1>1, <1>2, <1>3, <1>4, <1>5, <1>6, <1>7, <1>8, <1>9 DEF Save

LEMMA KeychainKeepsUndo == TypeOK /\ CommitInv /\ UndoInv /\ Keychain => UndoInv'
<1> SUFFICES ASSUME TypeOK, CommitInv, UndoInv, Keychain PROVE UndoInv'
  OBVIOUS
<1> USE InstallationAssumption, ImageFacts DEF CommitInv, FileInv, ItemInv, UndoInv,
        QuietInv, ErrorInv, ErrorRestores, UsableSurvives, HonestInstall, Opens,
        Proceeding, Fresh, Value, Before, RestoreStep, TypeOK, F!FilesTypeOK, F!File,
        K!KeychainTypeOK, Item, ConfigFile, Goto, Finish, Fault, Quiet, files, keychain,
        memory, SaveStep, KeychainStep, CommitStep, UndoStep
<1>1. CASE FindItem
  BY <1>1 DEF FindItem, K!Absent, K!Unique, SetFails, KeychainQuiet, UndoKeychain,
         AfterUndo
<1>2. CASE CheckItem
  BY <1>2 DEF CheckItem, K!Verified, SetFails, KeychainQuiet, UndoKeychain, AfterUndo
<1>3. CASE UpdateItem
  BY <1>3 DEF UpdateItem, K!Update, SetDone, Value, KeychainQuiet, AfterUndo
<1>4. CASE LookupFails
  BY <1>4 DEF LookupFails, SetFails, KeychainQuiet, UndoKeychain, AfterUndo
<1>5. CASE UpdateFails
  BY <1>5 DEF UpdateFails, K!Update, SetFails, Value, KeychainQuiet, UndoKeychain,
         AfterUndo
<1>6. CASE AddItem
  BY <1>6 DEF AddItem, K!Add, Value, KeychainQuiet
<1>7. CASE AddFails
  BY <1>7 DEF AddFails, SetFails, KeychainQuiet, UndoKeychain, AfterUndo
<1>8. CASE ResolveItem
  BY <1>8 DEF ResolveItem, K!Unique, KeychainQuiet
<1>9. CASE ProveItem
  BY <1>9 DEF ProveItem, K!Verified, SetDone, KeychainQuiet, AfterUndo
<1>10. CASE ResolveFails
  BY <1>10 DEF ResolveFails, KeychainQuiet
<1>11. CASE DropItem
  BY <1>11 DEF DropItem, K!DeleteOwn, SetFails, KeychainQuiet, UndoKeychain, AfterUndo
<1>12. CASE PurgeItems
  BY <1>12, DeleteByNameFacts DEF PurgeItems, SetFails, KeychainQuiet, UndoKeychain,
         AfterUndo
<1>13. CASE CleanupFails
  BY <1>13 DEF CleanupFails, SetFails, KeychainQuiet, UndoKeychain, AfterUndo
<1>14. CASE DeleteItems
  BY <1>14, DeleteByNameFacts DEF DeleteItems, AfterUndo, KeychainQuiet
<1>15. CASE DeleteFails
  BY <1>15 DEF DeleteFails, AfterUndo, KeychainQuiet
<1>16. QED
  BY <1>1, <1>2, <1>3, <1>4, <1>5, <1>6, <1>7, <1>8, <1>9, <1>10, <1>11, <1>12, <1>13,
     <1>14, <1>15 DEF Keychain

LEMMA CommitKeepsUndo == TypeOK /\ CommitInv /\ UndoInv /\ Commit => UndoInv'
<1> SUFFICES ASSUME TypeOK, CommitInv, UndoInv, Commit PROVE UndoInv'
  OBVIOUS
<1> USE InstallationAssumption, ImageFacts DEF CommitInv, FileInv, ItemInv, UndoInv,
        QuietInv, ErrorInv, ErrorRestores, UsableSurvives, HonestInstall, Opens,
        Proceeding, Fresh, Value, Before, RestoreStep, TypeOK, F!FilesTypeOK, F!File,
        K!KeychainTypeOK, Item, ConfigFile, Goto, Finish, Fault, Quiet, files, keychain,
        memory, SaveStep, KeychainStep, CommitStep, UndoStep
<1>1. CASE TruncateConfig
  BY <1>1 DEF TruncateConfig
<1>2. CASE FillConfig
  BY <1>2 DEF FillConfig
<1>3. CASE ConfigFails
  BY <1>3 DEF ConfigFails
<1>4. CASE PrintKey
  BY <1>4 DEF PrintKey
<1>5. CASE PrintKeyFails
  BY <1>5 DEF PrintKeyFails
<1>6. QED
  BY <1>1, <1>2, <1>3, <1>4, <1>5 DEF Commit

LEMMA UndoKeepsUndo == TypeOK /\ CommitInv /\ UndoInv /\ Undo => UndoInv'
<1> SUFFICES ASSUME TypeOK, CommitInv, UndoInv, Undo PROVE UndoInv'
  OBVIOUS
<1> USE InstallationAssumption, ImageFacts DEF CommitInv, FileInv, ItemInv, UndoInv,
        QuietInv, ErrorInv, ErrorRestores, UsableSurvives, HonestInstall, Opens,
        Proceeding, Fresh, Value, Before, RestoreStep, TypeOK, F!FilesTypeOK, F!File,
        K!KeychainTypeOK, Item, ConfigFile, Goto, Finish, Fault, Quiet, files, keychain,
        memory, SaveStep, KeychainStep, CommitStep, UndoStep
<1>1. CASE RestoreConfig
  BY <1>1 DEF RestoreConfig, UndoKeychain
<1>2. CASE RefillConfig
  BY <1>2 DEF RefillConfig, UndoKeychain
<1>3. CASE RestoreConfigFails
  BY <1>3 DEF RestoreConfigFails, UndoKeychain
<1>4. CASE RestoreVault
  BY <1>4 DEF RestoreVault
<1>5. CASE RefillVault
  BY <1>5 DEF RefillVault, F!ReplaceVault
<1>6. CASE RestoreVaultFails
  BY <1>6 DEF RestoreVaultFails
<1>7. CASE RestoreBak
  BY <1>7 DEF RestoreBak
<1>8. CASE RefillBak
  BY <1>8 DEF RefillBak, F!ReplaceBak
<1>9. CASE RestoreBakFails
  BY <1>9 DEF RestoreBakFails
<1>10. QED
  BY <1>1, <1>2, <1>3, <1>4, <1>5, <1>6, <1>7, <1>8, <1>9 DEF Undo

-------------------------------------------------------------------------------

(* How far a commit got, and what one fault can have cost so far.          *)
THEOREM InvariantHolds == Spec => []IInv
<1>1. IInv /\ [Next]_vars => IInv'
  <2> SUFFICES ASSUME IInv, [Next]_vars PROVE IInv'
    OBVIOUS
  <2>1. TypeOK /\ CommitInv /\ UndoInv
    BY DEF IInv
  <2>2. CASE Outer
    BY <2>1, <2>2, OuterKeepsType, OuterKeepsCommit, OuterKeepsUndo DEF IInv, CommitInv,
       UndoInv
  <2>3. CASE Save
    BY <2>1, <2>3, SaveKeepsType, SaveKeepsCommit, SaveKeepsUndo DEF IInv, CommitInv,
       UndoInv
  <2>4. CASE Keychain
    BY <2>1, <2>4, KeychainKeepsType, KeychainKeepsCommit, KeychainKeepsUndo DEF IInv,
       CommitInv, UndoInv
  <2>5. CASE Commit
    BY <2>1, <2>5, CommitKeepsType, CommitKeepsCommit, CommitKeepsUndo DEF IInv,
       CommitInv, UndoInv
  <2>6. CASE Undo
    BY <2>1, <2>6, UndoKeepsType, UndoKeepsCommit, UndoKeepsUndo DEF IInv, CommitInv,
       UndoInv
  <2>7. CASE UNCHANGED vars
    BY <2>7 DEF vars, files, keychain, memory, IInv, TypeOK, F!FilesTypeOK, F!File,
       K!KeychainTypeOK, CommitInv, FileInv, ItemInv, HonestInstall, Proceeding, Opens, Fresh,
       UndoInv, QuietInv, ErrorInv, ErrorRestores, UsableSurvives, Before, Value
  <2>8. QED
    BY <2>2, <2>3, <2>4, <2>5, <2>6, <2>7 DEF Next, Outer
<1>2. QED
  BY InitIInv, <1>1, PTL DEF Spec

(* Every store, and every variable of a running init, keeps its type.      *)
THEOREM TypeCorrect == Spec => []TypeOK
<1>1. IInv => TypeOK
  BY DEF IInv
<1>2. QED
  BY <1>1, InvariantHolds, PTL

(* init succeeds (cmd_init.rs) only with an installation whose password    *)
(* opens its vault, and adopting one has not touched it.                   *)
THEOREM SuccessIsWorking == Spec => []HonestInstall
<1>1. IInv => HonestInstall
  BY DEF IInv, CommitInv
<1>2. QED
  BY <1>1, InvariantHolds, PTL

(* rollback_init: after one failed call, wherever it happens, and one item  *)
(* of another program at most, an error leaves what was there.             *)
THEOREM OneFaultIsUndone == Spec => []ErrorRestores
<1>1. IInv => ErrorRestores
  BY DEF IInv, UndoInv
<1>2. QED
  BY <1>1, InvariantHolds, PTL

(* An installation that worked before `init --force` survives one failed   *)
(* call or crash.                                                          *)
THEOREM OneFaultIsSurvived == Spec => []UsableSurvives
<1>1. IInv => UsableSurvives
  BY DEF IInv, UndoInv
<1>2. QED
  BY <1>1, InvariantHolds, PTL

(* set (keychain.rs) writes through no reference that does not prove to be  *)
(* kpexec's own, whatever other programs add in between; what it added and  *)
(* cannot prove it takes out, unless that call fails or init dies.          *)
THEOREM StraysAreTakenOut == Spec => NoPasswordStranded
<1> DEFINE Accounted ==
      kc' = Stray =>
        \/ kc = NoItem /\ pc = "add"
        \/ kc = Stray /\ (pc \in Unproved => pc' \in Unproved \/ faults' # faults \/ crowd)
<1>1. IInv /\ [Next]_vars => [Accounted]_vars
  <2> SUFFICES ASSUME IInv, Next PROVE Accounted
    OBVIOUS
  <2> USE InstallationAssumption DEF IInv, CommitInv, ItemInv, TypeOK, K!KeychainTypeOK, Item,
        keychain, Unproved, SaveStep, CommitStep, UndoStep
  <2>1. CASE Outer
    BY <2>1 DEF Outer, Refuse, Begin, ReadFails, Crash, OtherProgram, K!OtherProgram, Fault
  <2>2. CASE Save
    BY <2>2 DEF Save, CreateTmp, CreateTmpFails, WriteTmp, WriteTmpFails, TruncateBak, CopyBak,
         CopyBakFails, Publish, PublishFails
  <2>3. CASE Keychain
    <3>1. CASE FindItem \/ CheckItem \/ LookupFails \/ AddFails \/ DeleteFails
      BY <3>1 DEF FindItem, CheckItem, LookupFails, AddFails, DeleteFails
    <3>2. CASE UpdateItem \/ UpdateFails
      <4>1. kc \in Key /\ Value \in Item /\ pc = "update"
        BY <3>2, ImageFacts DEF UpdateItem, UpdateFails
      <4>2. kc' \in {Value, kc}
        BY <3>2, <4>1 DEF UpdateItem, UpdateFails, K!Update
      <4>3. QED
        BY <4>1, <4>2
    <3>3. CASE AddItem
      BY <3>3 DEF AddItem, K!Add
    <3>4. CASE ResolveItem \/ ResolveFails
      BY <3>4 DEF ResolveItem, ResolveFails, Goto
    <3>5. CASE ProveItem
      <4>1. pc = "prove" /\ kc' = kc
        BY <3>5 DEF ProveItem
      <4>2. kc = Stray => pc' = "drop"
        BY <3>5 DEF ProveItem, K!Verified, Goto
      <4>3. QED
        BY <4>1, <4>2
    <3>6. CASE CleanupFails
      BY <3>6 DEF CleanupFails, Fault
    <3>7. CASE DropItem
      BY <3>7 DEF DropItem, K!DeleteOwn
    <3>8. CASE PurgeItems \/ DeleteItems
      BY <3>8, DeleteByNameFacts DEF PurgeItems, DeleteItems
    <3>9. QED
      BY <2>3, <3>1, <3>2, <3>3, <3>4, <3>5, <3>6, <3>7, <3>8 DEF Keychain
  <2>4. CASE Commit
    BY <2>4 DEF Commit, TruncateConfig, FillConfig, ConfigFails, PrintKey, PrintKeyFails
  <2>5. CASE Undo
    BY <2>5 DEF Undo, RestoreConfig, RefillConfig, RestoreConfigFails, RestoreVault, RefillVault,
         RestoreVaultFails, RestoreBak, RefillBak, RestoreBakFails
  <2>6. QED
    BY <2>1, <2>2, <2>3, <2>4, <2>5 DEF Next, Outer
<1>2. QED
  BY <1>1, InvariantHolds, PTL DEF Spec, NoPasswordStranded

(* write_config, and the rollback that may put an old configuration back:   *)
(* config.toml comes to name the vault only while the Keychain opens it.    *)
THEOREM ConfigComesLast == Spec => ConfigIsLast
<1>1. IInv /\ [Next]_vars => [config' = OwnHint /\ config # OwnHint => Opens(vault, kc)]_vars
  <2> SUFFICES ASSUME IInv, Next, config' # config PROVE Opens(vault, kc)
    OBVIOUS
  <2>1. pc \in CommitStep \cup {"rbconfig", "rbfillconfig"}
    <3>1. CASE Outer
      BY <3>1 DEF Outer, Refuse, Begin, ReadFails, Crash, OtherProgram
    <3>2. CASE Save
      BY <3>2 DEF Save, CreateTmp, CreateTmpFails, WriteTmp, WriteTmpFails, TruncateBak, CopyBak,
           CopyBakFails, Publish, PublishFails
    <3>3. CASE Keychain
      BY <3>3 DEF Keychain, FindItem, CheckItem, UpdateItem, LookupFails, UpdateFails, AddItem,
           AddFails, ResolveItem, ProveItem, ResolveFails, DropItem, PurgeItems, CleanupFails,
           DeleteItems, DeleteFails, KeychainQuiet
    <3>4. CASE Commit
      BY <3>4 DEF Commit, TruncateConfig, FillConfig, ConfigFails, PrintKey, PrintKeyFails, CommitStep
    <3>5. CASE Undo
      BY <3>5 DEF Undo, RestoreConfig, RefillConfig, RestoreConfigFails, RestoreVault, RefillVault,
           RestoreVaultFails, RestoreBak, RefillBak, RestoreBakFails
    <3>6. QED
      BY <3>1, <3>2, <3>3, <3>4, <3>5 DEF Next, Outer
  <2>2. vault \in Image /\ vault.key = new /\ kc = new
    BY <2>1, ImageFacts DEF IInv, TypeOK, CommitInv, FileInv, ItemInv, Proceeding, SaveStep, CommitStep
  <2>3. QED
    BY <2>2 DEF Opens
<1>2. QED
  BY <1>1, InvariantHolds, PTL DEF Spec, ConfigIsLast

-------------------------------------------------------------------------------
(* doctor. *)

(* The parts of a report that says where the vault is: each check is in it. *)
LEMMA ReportParts ==
  ASSUME NEW v \in View, NamesVault(v)
  PROVE  /\ ConfigCheck(v) = {<<"config", "ok">>}
         /\ <<"log dir", IF v.logdir THEN "ok" ELSE "fail">> \in Report(v)
         /\ \A part \in {"integrity", "developer", "identifier", "team", "runtime"} :
              <<part, IF part \in v.signature THEN "ok" ELSE "fail">> \in Report(v)
         /\ <<"gatekeeper", Gatekeeper(v)>> \in Report(v)
         /\ <<"binding", IF Identity(v) /\ K!Unique /\ K!Verified THEN "ok" ELSE "fail">> \in Report(v)
         /\ MayRead(v) => VaultChecks(v) \subseteq Report(v)
<1>1. ConfigCheck(v) = {<<"config", "ok">>}
  BY DEF ConfigCheck, NamesVault
<1>2. LogDirCheck(v) \cup SignatureChecks(v) \cup BindingCheck(v) \subseteq Report(v)
  BY DEF Report
<1>3. <<"log dir", IF v.logdir THEN "ok" ELSE "fail">> \in Report(v)
  BY <1>2 DEF LogDirCheck
<1>4. \A part \in {"integrity", "developer", "identifier", "team", "runtime"} :
        <<part, IF part \in v.signature THEN "ok" ELSE "fail">> \in Report(v)
  BY <1>2 DEF SignatureChecks
<1>5. <<"gatekeeper", Gatekeeper(v)>> \in Report(v)
  BY <1>2 DEF SignatureChecks
<1>6. <<"binding", IF Identity(v) /\ K!Unique /\ K!Verified THEN "ok" ELSE "fail">> \in Report(v)
  BY <1>2 DEF BindingCheck
<1>7. MayRead(v) => VaultChecks(v) \subseteq Report(v)
  BY DEF Report
<1>8. QED
  BY <1>1, <1>3, <1>4, <1>5, <1>6, <1>7

LEMMA NoFailureMeansSound ==
  ASSUME NEW v \in View, NamesVault(v), Succeeds(v)
  PROVE  /\ K!Unique /\ Opens(vault, kc)
         /\ Trusted(v) /\ Gatekeeper(v) # "fail" /\ v.logdir /\ v.policies # "fail"
<1>1. \A name, level : <<name, level>> \in Report(v) => level # "fail"
  BY DEF Succeeds
<1>2. v.logdir /\ Gatekeeper(v) # "fail"
  BY <1>1, ReportParts
<1>3. \A part \in {"integrity", "developer", "identifier", "team", "runtime"} : part \in v.signature
  BY <1>1, ReportParts
<1>4. Trusted(v)
  BY <1>3, DoctorAssumption DEF Trusted
<1>5. Identity(v) /\ K!Unique /\ K!Verified
  BY <1>1, ReportParts
<1>6. VaultChecks(v) \subseteq Report(v)
  BY <1>4, <1>5, ReportParts DEF MayRead, BindingCheck
<1>7. Opens(vault, kc)
  BY <1>1, <1>6 DEF VaultChecks
<1>8. v.policies # "fail"
  BY <1>1, <1>6, <1>7 DEF VaultChecks
<1>9. QED
  BY <1>2, <1>4, <1>5, <1>7, <1>8

LEMMA SoundMeansNoFailure ==
  ASSUME TypeOK, NEW v \in View, NamesVault(v), K!Unique, Opens(vault, kc),
         Trusted(v), Gatekeeper(v) # "fail", v.logdir, v.policies # "fail"
  PROVE  Succeeds(v)
<1>1. K!Verified /\ vault # NoFile
  BY InstallationAssumption DEF Opens, K!Verified, Image
<1>2. ConfigCheck(v) = {<<"config", "ok">>} /\ PathCheck(v) = {<<"db_path", "ok">>}
      /\ LogDirCheck(v) = {<<"log dir", "ok">>}
  BY <1>1, ReportParts DEF PathCheck, LogDirCheck
<1>3. \A check \in SignatureChecks(v) : check[2] # "fail"
  BY DEF SignatureChecks, Trusted
<1>4. BindingCheck(v) = {<<"binding", "ok">>} /\ MayRead(v)
  BY <1>1 DEF BindingCheck, MayRead, Identity, Trusted
<1>5. \A check \in VaultChecks(v) : check[2] # "fail"
  <2>1. v.env \in {"ok", "warn"}
    BY DoctorAssumption
  <2>2. VaultChecks(v) = {<<"vault", "ok">>, <<"policies", v.policies>>, <<"env", v.env>>}
    BY DEF VaultChecks
  <2>3. QED
    BY <2>1, <2>2
<1>6. ASSUME NEW check \in Report(v) PROVE check[2] # "fail"
  <2>1. \/ check \in ConfigCheck(v) \/ check \in PathCheck(v) \/ check \in LogDirCheck(v)
        \/ check \in SignatureChecks(v) \/ check \in BindingCheck(v) \/ check \in VaultChecks(v)
    BY <1>4, <1>6 DEF Report
  <2>2. CASE \/ check \in ConfigCheck(v) \/ check \in PathCheck(v)
             \/ check \in LogDirCheck(v) \/ check \in BindingCheck(v)
    <3>1. CASE check = <<"config", "ok">>
      BY <3>1
    <3>2. CASE check = <<"db_path", "ok">>
      BY <3>2
    <3>3. CASE check = <<"log dir", "ok">>
      BY <3>3
    <3>4. CASE check = <<"binding", "ok">>
      BY <3>4
    <3>5. QED
      BY <1>2, <1>4, <2>2, <3>1, <3>2, <3>3, <3>4
  <2>3. QED
    BY <1>3, <1>5, <2>1, <2>2
<1>7. QED
  BY <1>6 DEF Succeeds

(* Whatever state init, its failures and other programs leave: doctor       *)
(* reports no failure for a vault that is configured exactly if the item is *)
(* unique, its password opens the vault, and the machine is in order.       *)
THEOREM DoctorIsRight == Spec => []DoctorTellsTruth
<1>1. TypeOK => DoctorTellsTruth
  BY NoFailureMeansSound, SoundMeansNoFailure DEF DoctorTellsTruth
<1>2. QED
  BY <1>1, TypeCorrect, PTL
==============================================================================
