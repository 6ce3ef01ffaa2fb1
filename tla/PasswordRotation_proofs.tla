----------------------- MODULE PasswordRotation_proofs -----------------------
(***************************************************************************)
(* TLAPS proofs about PasswordRotation, for every set of keys and contents *)
(* and every number of faults.                                             *)
(***************************************************************************)
EXTENDS PasswordRotation, TLAPS

-------------------------------------------------------------------------------
(* The inductive invariant says, call by call, what the stores hold.  The  *)
(* properties speak only of idle states; what makes them hold is where the *)
(* rotation stood when it ended, so every pc needs its clause.             *)

\* Before the rename: the original is in place and the Keychain opens it.
BeforeInv ==
  /\ pc \in SaveStep => vault = orig /\ kc = orig.key
  /\ pc \in {"create", "write", "truncate"} => bak = origBak
  /\ pc \in {"truncate", "copy", "publish"} => tmp = Rekeyed
  /\ pc = "publish" => bak = orig \/ faults >= 1

\* Between the rename and the end: the vault is re-encrypted, and the backup
\* still opens with the old key unless its copy failed.
AfterInv ==
  /\ pc \in CommitStep \cup {"rbkc"} => vault = Rekeyed /\ kc \in {orig.key, new}
  /\ pc = "kcset" => kc = orig.key
  /\ pc \in {"kcset", "kcget"} => bak = orig \/ faults >= 1
  /\ pc = "kcget" => kc = new \/ faults >= 1
  /\ pc \in {"bakupdate", "show"} => kc = new
  /\ pc = "show" => bak = vault

\* During the undo: every entry took a fault, a failed restoration a second.
UndoInv ==
  /\ pc \in UndoStep => faults >= 1 /\ (undo = "spoiled" => faults >= 2)
  /\ pc \in SaveStep \cup CommitStep \cup {"rbkc"} => undo = "clean"
  /\ pc \in {"rbvault", "rbbak"} =>
       /\ kc \in {orig.key, new}
       /\ kc = orig.key \/ faults >= 2
       /\ vault \in {orig, Rekeyed}
       /\ undo = "clean" => kc = orig.key
  /\ pc = "rbbak" =>
       /\ vault = orig \/ (undo = "spoiled" /\ faults >= 2)

\* Ended: the properties themselves.
IdleInv ==
  /\ SingleFaultRecoverable
  /\ HonestCommit
  /\ HonestRollback

PosInv ==
  /\ pc # "idle" => new # orig.key
  /\ BeforeInv
  /\ AfterInv
  /\ UndoInv
  /\ IdleInv

IInv == TypeOK /\ PosInv

-------------------------------------------------------------------------------

(* What the prover needs to know of images: the components of a snapshot,  *)
(* and that the re-encrypted database is one.                              *)
LEMMA ImageFacts ==
  ASSUME TypeOK
  PROVE  /\ orig.key \in Key
         /\ Rekeyed \in Image /\ Rekeyed.key = new /\ Rekeyed.db = orig.db
BY DEF TypeOK, Rekeyed, Image

(* The initial states satisfy the inductive invariant. *)
LEMMA InitIInv == Init => IInv
<1> SUFFICES ASSUME Init PROVE IInv
  OBVIOUS
<1>1. vault \in Image /\ kc = vault.key /\ vault.key \in Key
  BY DEF Init, Image
<1>2. TypeOK
  BY <1>1 DEF Init, TypeOK, F!FilesTypeOK, F!File, Outcome
<1>3. IdleInv
  BY <1>1 DEF Init, IdleInv, SingleFaultRecoverable, HonestCommit, HonestRollback, Opens
<1>4. BeforeInv /\ AfterInv /\ UndoInv /\ (pc # "idle" => new # orig.key)
  BY DEF Init, BeforeInv, AfterInv, UndoInv, SaveStep, CommitStep, UndoStep
<1>5. QED
  BY <1>2, <1>3, <1>4 DEF IInv, PosInv

LEMMA SaveKeepsType == TypeOK /\ Save => TypeOK'
<1> SUFFICES ASSUME TypeOK, Save PROVE TypeOK'
  OBVIOUS
<1> USE ImageFacts DEF TypeOK, Fault, Goto, Finish, Quiet, files, memory, F!FilesTypeOK,
        F!File, SaveStep, CommitStep, UndoStep, Outcome
<1>1. CASE CreateTmp
  BY <1>1 DEF CreateTmp, F!CreateTmp
<1>2. CASE CreateTmpFails
  BY <1>2 DEF CreateTmpFails
<1>3. CASE WriteTmp
  BY <1>3 DEF WriteTmp, F!WriteTmp
<1>4. CASE WriteTmpFails
  BY <1>4 DEF WriteTmpFails, F!DiscardTmp
<1>5. CASE TruncateBak
  BY <1>5 DEF TruncateBak, F!TruncateBak
<1>6. CASE CopyBak
  BY <1>6 DEF CopyBak, F!FillBak
<1>7. CASE CopyBakFails
  BY <1>7 DEF CopyBakFails
<1>8. CASE Publish
  BY <1>8 DEF Publish, F!Publish
<1>9. CASE PublishFails
  BY <1>9 DEF PublishFails, F!DiscardTmp
<1>10. QED
  BY <1>1, <1>2, <1>3, <1>4, <1>5, <1>6, <1>7, <1>8, <1>9 DEF Save

LEMMA CommitKeepsType == TypeOK /\ Commit => TypeOK'
<1> SUFFICES ASSUME TypeOK, Commit PROVE TypeOK'
  OBVIOUS
<1> USE ImageFacts DEF TypeOK, Fault, Goto, Finish, Quiet, files, memory, F!FilesTypeOK,
        F!File, SaveStep, CommitStep, UndoStep, Outcome
<1>1. CASE SetKeychain
  BY <1>1 DEF SetKeychain
<1>2. CASE SetKeychainFails
  BY <1>2 DEF SetKeychainFails
<1>3. CASE SetKeychainLost
  BY <1>3 DEF SetKeychainLost
<1>4. CASE VerifyKeychain
  BY <1>4 DEF VerifyKeychain
<1>5. CASE VerifyKeychainFails
  BY <1>5 DEF VerifyKeychainFails
<1>6. CASE UpdateBak
  BY <1>6 DEF UpdateBak, F!ReplaceBak
<1>7. CASE UpdateBakFails
  BY <1>7 DEF UpdateBakFails
<1>8. CASE Reveal
  BY <1>8 DEF Reveal
<1>9. CASE RevealFails
  BY <1>9 DEF RevealFails
<1>10. QED
  BY <1>1, <1>2, <1>3, <1>4, <1>5, <1>6, <1>7, <1>8, <1>9 DEF Commit

LEMMA UndoKeepsType == TypeOK /\ Undo => TypeOK'
<1> SUFFICES ASSUME TypeOK, Undo PROVE TypeOK'
  OBVIOUS
<1> USE ImageFacts DEF TypeOK, Fault, Goto, Finish, Quiet, files, memory, F!FilesTypeOK,
        F!File, SaveStep, CommitStep, UndoStep, Outcome
<1>1. CASE UndoKeychain
  BY <1>1 DEF UndoKeychain
<1>2. CASE UndoKeychainFails
  BY <1>2 DEF UndoKeychainFails
<1>3. CASE UndoKeychainLost
  BY <1>3 DEF UndoKeychainLost
<1>4. CASE UndoVault
  BY <1>4 DEF UndoVault, F!ReplaceVault
<1>5. CASE UndoVaultFails
  BY <1>5 DEF UndoVaultFails
<1>6. CASE UndoBak
  BY <1>6 DEF UndoBak, RollbackVerdict, F!ReplaceBak
<1>7. CASE UndoBakFails
  BY <1>7 DEF UndoBakFails
<1>8. QED
  BY <1>1, <1>2, <1>3, <1>4, <1>5, <1>6, <1>7 DEF Undo

(* Every call keeps the position clauses. *)
LEMMA SaveKeepsPosition == IInv /\ Save => PosInv'
<1> SUFFICES ASSUME IInv, Save PROVE PosInv'
  OBVIOUS
<1> Rekeyed' = Rekeyed
  BY DEF Save, Rekeyed, memory, Quiet, CreateTmp, CreateTmpFails, WriteTmp, WriteTmpFails,
         TruncateBak, CopyBak, CopyBakFails, Publish, PublishFails
<1> TypeOK /\ PosInv /\ faults \in Nat /\ orig \in Image /\ undo \in {"clean", "doubtful", "spoiled"}
  BY DEF IInv, TypeOK
<1> USE ImageFacts DEF Opens, Fault, Goto, Finish, Quiet, files, memory,
        SaveStep, CommitStep, UndoStep, PosInv, BeforeInv, AfterInv, UndoInv, IdleInv,
        SingleFaultRecoverable, HonestCommit, HonestRollback
<1>1. CASE CreateTmp
  BY <1>1 DEF CreateTmp, F!CreateTmp
<1>2. CASE CreateTmpFails
  BY <1>2 DEF CreateTmpFails
<1>3. CASE WriteTmp
  BY <1>3 DEF WriteTmp, F!WriteTmp
<1>4. CASE WriteTmpFails
  BY <1>4 DEF WriteTmpFails, F!DiscardTmp
<1>5. CASE TruncateBak
  BY <1>5 DEF TruncateBak, F!TruncateBak
<1>6. CASE CopyBak
  BY <1>6 DEF CopyBak, F!FillBak
<1>7. CASE CopyBakFails
  BY <1>7 DEF CopyBakFails
<1>8. CASE Publish
  BY <1>8 DEF Publish, F!Publish
<1>9. CASE PublishFails
  BY <1>9 DEF PublishFails, F!DiscardTmp
<1>10. QED
  BY <1>1, <1>2, <1>3, <1>4, <1>5, <1>6, <1>7, <1>8, <1>9 DEF Save

LEMMA CommitKeepsPosition == IInv /\ Commit => PosInv'
<1> SUFFICES ASSUME IInv, Commit PROVE PosInv'
  OBVIOUS
<1> Rekeyed' = Rekeyed
  BY DEF Commit, Rekeyed, memory, Quiet, SetKeychain, SetKeychainFails, SetKeychainLost,
         VerifyKeychain, VerifyKeychainFails, UpdateBak, UpdateBakFails, Reveal, RevealFails
<1> TypeOK /\ PosInv /\ faults \in Nat /\ orig \in Image /\ undo \in {"clean", "doubtful", "spoiled"}
  BY DEF IInv, TypeOK
<1> USE ImageFacts DEF Opens, Fault, Goto, Finish, Quiet, files, memory,
        SaveStep, CommitStep, UndoStep, PosInv, BeforeInv, AfterInv, UndoInv, IdleInv,
        SingleFaultRecoverable, HonestCommit, HonestRollback
<1>1. CASE SetKeychain
  BY <1>1 DEF SetKeychain
<1>2. CASE SetKeychainFails
  BY <1>2 DEF SetKeychainFails
<1>3. CASE SetKeychainLost
  BY <1>3 DEF SetKeychainLost
<1>4. CASE VerifyKeychain
  BY <1>4 DEF VerifyKeychain
<1>5. CASE VerifyKeychainFails
  BY <1>5 DEF VerifyKeychainFails
<1>6. CASE UpdateBak
  BY <1>6 DEF UpdateBak, F!ReplaceBak
<1>7. CASE UpdateBakFails
  BY <1>7 DEF UpdateBakFails
<1>8. CASE Reveal
  BY <1>8 DEF Reveal
<1>9. CASE RevealFails
  BY <1>9 DEF RevealFails
<1>10. QED
  BY <1>1, <1>2, <1>3, <1>4, <1>5, <1>6, <1>7, <1>8, <1>9 DEF Commit

LEMMA UndoKeepsPosition == IInv /\ Undo => PosInv'
<1> SUFFICES ASSUME IInv, Undo PROVE PosInv'
  OBVIOUS
<1> Rekeyed' = Rekeyed
  BY DEF Undo, Rekeyed, memory, Quiet, UndoKeychain, UndoKeychainFails, UndoKeychainLost,
         UndoVault, UndoVaultFails, UndoBak, UndoBakFails
<1> TypeOK /\ PosInv /\ faults \in Nat /\ orig \in Image /\ undo \in {"clean", "doubtful", "spoiled"}
  BY DEF IInv, TypeOK
<1> USE ImageFacts DEF Opens, Fault, Goto, Finish, Quiet, files, memory,
        SaveStep, CommitStep, UndoStep, PosInv, BeforeInv, AfterInv, UndoInv, IdleInv,
        SingleFaultRecoverable, HonestCommit, HonestRollback
<1>1. CASE UndoKeychain
  BY <1>1 DEF UndoKeychain
<1>2. CASE UndoKeychainFails
  BY <1>2 DEF UndoKeychainFails
<1>3. CASE UndoKeychainLost
  BY <1>3 DEF UndoKeychainLost
<1>4. CASE UndoVault
  BY <1>4 DEF UndoVault, F!ReplaceVault
<1>5. CASE UndoVaultFails
  BY <1>5 DEF UndoVaultFails
<1>6. CASE UndoBak
  BY <1>6 DEF UndoBak, RollbackVerdict, F!ReplaceBak
<1>7. CASE UndoBakFails
  BY <1>7 DEF UndoBakFails
<1>8. QED
  BY <1>1, <1>2, <1>3, <1>4, <1>5, <1>6, <1>7 DEF Undo

(* A rotation starts from a vault the Keychain opens. *)
LEMMA BeginKeepsIInv ==
  ASSUME IInv, NEW k \in Key, Begin(k)
  PROVE  IInv'
<1>1. TypeOK'
  BY DEF IInv, Begin, TypeOK, Opens, Goto, files, F!FilesTypeOK, F!File, SaveStep
<1>2. PosInv'
  BY DEF IInv, Begin, Opens, Goto, files, PosInv, BeforeInv, AfterInv, UndoInv, IdleInv,
         SaveStep, CommitStep, UndoStep, SingleFaultRecoverable, HonestCommit,
         HonestRollback
<1>3. QED
  BY <1>1, <1>2 DEF IInv

(* A crash is itself a fault: at its first one the rotation is still at a  *)
(* point where the vault or the backup opens.                              *)
LEMMA CrashKeepsIInv == IInv /\ Crash => IInv'
<1> SUFFICES ASSUME IInv, Crash PROVE IInv'
  OBVIOUS
<1> TypeOK /\ PosInv /\ faults \in Nat /\ orig \in Image
  BY DEF IInv, TypeOK
<1>1. TypeOK'
  BY DEF Crash, TypeOK, Fault, Goto, Finish, files, memory, F!FilesTypeOK, F!File, Outcome
<1>2. faults' >= 1 /\ (faults >= 1 => faults' > 1) /\ faults' \in Nat /\ pc' = "idle"
      /\ outcome' = "crashed"
  BY DEF Crash, Fault, Goto, Finish
<1>3. SingleFaultRecoverable'
  <2> SUFFICES ASSUME faults = 0
               PROVE  \E f \in {vault, bak} : Opens(f, kc) /\ f.db = orig.db
    BY <1>2 DEF SingleFaultRecoverable, Crash, Finish, Goto, files, memory, Opens
  <2>1. CASE pc \in SaveStep \cup {"kcset"}
    BY <2>1 DEF PosInv, BeforeInv, AfterInv, SaveStep, CommitStep, Opens
  <2>2. CASE pc \in {"kcget", "bakupdate", "show"}
    BY <2>2, ImageFacts DEF PosInv, AfterInv, CommitStep, Opens
  <2>3. pc \notin UndoStep
    BY DEF PosInv, UndoInv
  <2>4. QED
    BY <2>1, <2>2, <2>3 DEF Crash, TypeOK, CommitStep
<1>4. PosInv'
  BY <1>2, <1>3 DEF PosInv, BeforeInv, AfterInv, UndoInv, IdleInv, HonestCommit,
     HonestRollback, SaveStep, CommitStep, UndoStep
<1>5. QED
  BY <1>1, <1>4 DEF IInv

(* The invariant is inductive. *)
LEMMA IInvInductive == IInv /\ [Next]_vars => IInv'
<1> SUFFICES ASSUME IInv, [Next]_vars PROVE IInv'
  OBVIOUS
<1>1. ASSUME NEW k \in Key, Begin(k) PROVE IInv'
  BY <1>1, BeginKeepsIInv
<1>2. CASE Save
  BY <1>2, SaveKeepsType, SaveKeepsPosition DEF IInv
<1>3. CASE Commit
  BY <1>3, CommitKeepsType, CommitKeepsPosition DEF IInv
<1>4. CASE Undo
  BY <1>4, UndoKeepsType, UndoKeepsPosition DEF IInv
<1>5. CASE Crash
  BY <1>5, CrashKeepsIInv
<1>6. CASE UNCHANGED vars
  BY <1>6 DEF vars, files, memory, IInv, TypeOK, F!FilesTypeOK, PosInv, BeforeInv,
     AfterInv, UndoInv, IdleInv, SingleFaultRecoverable, HonestCommit, HonestRollback, Opens, Rekeyed
<1>7. QED
  BY <1>1, <1>2, <1>3, <1>4, <1>5, <1>6 DEF Next

(* The strengthened invariant holds in every reachable state. *)
THEOREM InvariantHolds == Spec => []IInv
<1>1. QED
  BY InitIInv, IInvInductive, PTL DEF Spec

-------------------------------------------------------------------------------
(* The results, for every Key, Db and MaxFaults.                           *)

(* Every variable of a rotation keeps its type. *)
THEOREM TypeCorrect == Spec => []TypeOK
<1>1. IInv => TypeOK
  BY DEF IInv
<1>2. QED
  BY <1>1, InvariantHolds, PTL

(* One failed call or one crash, wherever it strikes, leaves a file with   *)
(* the current content that the Keychain's password opens.                 *)
THEOREM SurvivesOneFault == Spec => []SingleFaultRecoverable
<1>1. IInv => SingleFaultRecoverable
  BY DEF IInv, PosInv, IdleInv
<1>2. QED
  BY <1>1, InvariantHolds, PTL

(* What rotate-password reports is what happened, after any number of      *)
(* faults: success and "rolled back" both describe the stores exactly, and *)
(* "recovery may be required" is never said after a single failure.        *)
THEOREM ReportsAreHonest ==
  Spec => []HonestVerdicts
<1>1. IInv => HonestVerdicts
  BY DEF IInv, PosInv, IdleInv, HonestVerdicts
<1>2. QED
  BY <1>1, InvariantHolds, PTL

(* The Keychain takes the new key only once the vault opens with it. *)
THEOREM KeychainIsSecond == Spec => KeychainFollowsVault
<1> DEFINE Follows == kc' # kc => \/ kc' = new /\ Opens(vault, new)
                                  \/ kc' = orig.key
<1>1. ASSUME IInv, Next PROVE Follows
  <2> TypeOK /\ PosInv
    BY <1>1 DEF IInv
  <2>1. ASSUME NEW k \in Key, Begin(k) PROVE Follows
    BY <2>1 DEF Begin
  <2>2. CASE Save \/ Crash
    BY <2>2 DEF Save, CreateTmp, CreateTmpFails, WriteTmp, WriteTmpFails, TruncateBak,
       CopyBak, CopyBakFails, Publish, PublishFails, Crash, Quiet
  <2>3. CASE Commit
    <3>1. pc = "kcset" => Opens(vault, new)
      BY ImageFacts DEF PosInv, AfterInv, CommitStep, Opens
    <3>2. QED
      BY <2>3, <3>1 DEF Commit, SetKeychain, SetKeychainFails, SetKeychainLost,
         VerifyKeychain, VerifyKeychainFails, UpdateBak, UpdateBakFails, Reveal,
         RevealFails, Quiet
  <2>4. CASE Undo
    BY <2>4 DEF Undo, UndoKeychain, UndoKeychainFails, UndoKeychainLost, UndoVault,
       UndoVaultFails, UndoBak, UndoBakFails, Quiet
  <2>5. QED
    BY <1>1, <2>1, <2>2, <2>3, <2>4 DEF Next
<1>2. IInv /\ [Next]_vars => [Follows]_vars
  BY <1>1
<1>3. QED
  BY <1>2, InvariantHolds, PTL DEF Spec, KeychainFollowsVault

-------------------------------------------------------------------------------
(* Refinement.  Only the step that ends a rotation moves the abstract      *)
(* cell; Begin, and every call in between, is a stutter.                   *)

(* What the cell can become when a rotation ends, from the images alone. *)
LEMMA CellWhenIdle ==
  ASSUME TypeOK, pc = "idle"
  PROVE  Cell = IF Opens(vault, kc) THEN vault ELSE NoFile
BY DEF Cell

(* A running rotation shows the original; it is usable. *)
LEMMA RunningCell ==
  ASSUME TypeOK, pc # "idle"
  PROVE  Cell = orig /\ Cell \in Abstract!Usable
BY DEF Cell, TypeOK, Image, Abstract!Usable

(* Calls that do not end the rotation leave the cell and the verdict. *)
LEMMA RunningStutters ==
  ASSUME IInv, pc # "idle", pc' # "idle", Save \/ Commit \/ Undo
  PROVE  UNCHANGED <<Cell, outcome>>
<1>1. orig' = orig
  BY DEF Save, CreateTmp, CreateTmpFails, WriteTmp, WriteTmpFails,
         TruncateBak, CopyBak,
     CopyBakFails, Publish, PublishFails, Commit, SetKeychain, SetKeychainFails,
     SetKeychainLost,
         VerifyKeychain, VerifyKeychainFails, UpdateBak, UpdateBakFails,
     Reveal, RevealFails, Undo, UndoKeychain, UndoKeychainFails, UndoKeychainLost,
     UndoVault, UndoVaultFails, UndoBak, UndoBakFails, Quiet, memory
<1>2. outcome' = outcome
  BY DEF Save, CreateTmp, CreateTmpFails, WriteTmp, WriteTmpFails,
         TruncateBak, CopyBak,
     CopyBakFails, Publish, PublishFails, Commit, SetKeychain, SetKeychainFails,
     SetKeychainLost,
         VerifyKeychain, VerifyKeychainFails, UpdateBak, UpdateBakFails,
     Reveal, RevealFails, Undo, UndoKeychain, UndoKeychainFails, UndoKeychainLost,
     UndoVault, UndoVaultFails, UndoBak, UndoBakFails, Quiet, Finish, Goto
<1>3. QED
  BY <1>1, <1>2 DEF Cell

(* The step that ends a rotation is an abstract step. *)
LEMMA EndingSteps ==
  ASSUME IInv, IInv', pc # "idle", pc' = "idle", Save \/ Commit \/ Undo \/ Crash
  PROVE  Abstract!Next
<1> TypeOK /\ PosInv /\ TypeOK' /\ PosInv'
  BY DEF IInv
<1>1. Cell = orig /\ Cell \in Abstract!Usable
  BY RunningCell
<1>2. Cell' = IF Opens(vault', kc') THEN vault' ELSE NoFile
  BY DEF Cell, Opens
<1>3. orig.key \in Key /\ orig.db \in Db /\ new \in Key
  BY DEF TypeOK, Image
<1>4. CASE Reveal \/ RevealFails
  <2>1. vault' = Rekeyed /\ kc' = new /\ new # orig.key
        /\ outcome' \in {"committed", "unshown"}
    BY <1>4 DEF PosInv, AfterInv, CommitStep, Reveal, RevealFails, files, Finish, Goto
  <2>2. Cell' = [key |-> new, db |-> orig.db]
    BY <1>2, <2>1, ImageFacts DEF Opens, Rekeyed
  <2>3. Abstract!Commit
    BY <1>1, <1>3, <2>1, <2>2 DEF Abstract!Commit
  <2>4. QED
    BY <2>3 DEF Abstract!Next
<1>5. vault' \in {orig, Rekeyed, NoFile, Torn} => Cell' \in
        {[key |-> k, db |-> Cell.db] : k \in Key} \cup {NoFile}
  BY <1>1, <1>2, <1>3, ImageFacts, RotationAssumption DEF Opens, Rekeyed, TypeOK, Image
<1>6. CASE UndoBak \/ UndoBakFails
  <2>1. vault' = vault /\ kc' = kc /\ (vault = orig \/ undo = "spoiled")
        /\ outcome' \in {"rolledBack", "misled", "recoveryNeeded"}
        /\ (outcome' = "rolledBack" => undo = "clean")
        /\ (outcome' = "misled" => undo = "doubtful")
    BY <1>6 DEF TypeOK, PosInv, UndoInv, UndoBak, UndoBakFails, files, Finish, Goto,
       F!ReplaceBak, RollbackVerdict
  <2>2. vault' \in {orig, Rekeyed}
    BY <1>6, <2>1 DEF PosInv, UndoInv, UndoBak, UndoBakFails
  <2>3. CASE outcome' = "recoveryNeeded"
    BY <1>1, <1>5, <2>2, <2>3 DEF Abstract!Interrupt, Abstract!Next
  <2>4. CASE outcome' = "rolledBack"
    <3>1. kc' = orig.key /\ vault' = orig
      BY <2>1, <2>4, <1>6 DEF PosInv, UndoInv, UndoBak, UndoBakFails
    <3>2. Cell' = Cell
      BY <1>1, <1>2, <3>1 DEF Opens, TypeOK
    <3>3. QED
      BY <1>1, <2>4, <3>2 DEF Abstract!Abort, Abstract!Next
  <2>5. CASE outcome' = "misled"
    <3>1. vault' = orig
      BY <2>1, <2>5
    <3>2. Cell' \in {Cell, NoFile}
      BY <1>1, <1>2, <3>1
    <3>3. QED
      BY <1>1, <2>5, <3>2 DEF Abstract!LostAbort, Abstract!Next
  <2>6. QED
    BY <2>1, <2>3, <2>4, <2>5
<1>7. CASE Crash
  <2>1. vault' = vault /\ outcome' = "crashed"
    BY <1>7 DEF Crash, files, Finish
  <2>2. vault \in {orig, Rekeyed}
    BY <1>7 DEF Crash, PosInv, BeforeInv, AfterInv, UndoInv, TypeOK, SaveStep, CommitStep, UndoStep
  <2>3. QED
    BY <1>1, <1>5, <2>1, <2>2 DEF Abstract!Interrupt, Abstract!Next
<1>8. QED
  BY <1>4, <1>6, <1>7 DEF Save, CreateTmp, CreateTmpFails, WriteTmp, WriteTmpFails,
     TruncateBak, CopyBak, CopyBakFails, Publish, PublishFails, Commit, SetKeychain,
     SetKeychainFails, SetKeychainLost,
         VerifyKeychain, VerifyKeychainFails, UpdateBak,
     UpdateBakFails, Undo, UndoKeychain, UndoKeychainFails, UndoKeychainLost, UndoVault,
     UndoVaultFails, Goto

(* rotate-password is atomic: observed between commands it changes the key *)
(* and nothing else, or changes nothing, unless it crashed or its own      *)
(* rollback failed.                                                        *)
THEOREM RotationIsAtomic == Spec => ImplementsAtomicRekey
<1>1. Init => Abstract!Init
  BY DEF Init, Abstract!Init, Abstract!Usable, Cell, Opens, Image
<1>2. ASSUME IInv, IInv', [Next]_vars
      PROVE  [Abstract!Next]_<<Cell, outcome>>
  <2> TypeOK
    BY <1>2 DEF IInv
  <2>1. ASSUME NEW k \in Key, Begin(k) PROVE UNCHANGED <<Cell, outcome>>
    BY <2>1 DEF Begin, Cell, Goto
  <2>2. CASE Save \/ Commit \/ Undo \/ Crash
    <3>1. pc # "idle"
      BY <2>2 DEF Save, CreateTmp, CreateTmpFails, WriteTmp, WriteTmpFails, TruncateBak,
         CopyBak, CopyBakFails, Publish, PublishFails, Commit, SetKeychain,
         SetKeychainFails, SetKeychainLost, VerifyKeychain, VerifyKeychainFails,
         UpdateBak, UpdateBakFails, Reveal, RevealFails, Undo, UndoKeychain,
         UndoKeychainFails, UndoKeychainLost, UndoVault, UndoVaultFails, UndoBak,
         UndoBakFails, Crash
    <3>2. CASE pc' = "idle"
      BY <1>2, <2>2, <3>1, <3>2, EndingSteps
    <3>3. CASE pc' # "idle"
      <4>1. ~Crash
        BY <3>3 DEF Crash, Finish, Goto
      <4>2. QED
        BY <1>2, <2>2, <3>1, <3>3, <4>1, RunningStutters
    <3>4. QED
      BY <3>2, <3>3
  <2>3. CASE UNCHANGED vars
    BY <2>3 DEF vars, files, memory, Cell, Opens
  <2>4. QED
    BY <1>2, <2>1, <2>2, <2>3 DEF Next
<1>3. QED
  BY <1>1, <1>2, InvariantHolds, PTL DEF Spec, ImplementsAtomicRekey, Abstract!Spec
===============================================================================
