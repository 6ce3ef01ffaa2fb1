-------------------------- MODULE VaultSession_proofs --------------------------
(***************************************************************************)
(* TLAPS proofs about VaultSession: the vault file is always a database    *)
(* (but for the rollback of an init), readers see a committed one and fail *)
(* only beside a command that changes the password, and no update is lost, *)
(* for any number of entry commands, rotations, inits, readers, failed     *)
(* calls and crashes.  One assumption is made: init, which takes no lock,  *)
(* runs beside no other command that writes.  The last section is about    *)
(* WriteLock, the lock those commands take; the two share no variable.     *)
(***************************************************************************)
EXTENDS VaultSession, WriteLock, TLAPS

\* Commands that change the vault file, and those that change its password.
Writer == Locker \cup Initializer
Rekeyer == Rotator \cup Initializer

\* init takes no lock, so an init that is started is the only writer.
Apart == \A cast \in Casts : \A i \in cast \cap Initializer : cast \subseteq {i} \cup Reader

Idle == {"start", "ended", "absent"}

\* The database that is at the vault's path.
Contents == IF vault \in Image THEN vault.db ELSE {}

\* Who can be where.
RolesInv ==
  /\ \A i \in Initializer : pc[i] # "absent" => \A c \in Writer \ {i} : pc[c] = "absent"
  /\ \A i \in Initializer : pc[i] \notin {"kcget", "open"}
  /\ \A r \in Reader : pc[r] \in Idle \cup {"kcget", "open"}
  /\ \A e \in Editor :
       pc[e] \in Idle \cup {"kcget", "open", "create", "write", "publish", "release"}
  /\ \A q \in Rotator : pc[q] # "rbfill"
  /\ \A c \in Command : verdict[c] # "none" => pc[c] = "ended"

\* A locker that has started and not ended holds the lock.
LockInv == \A c \in Locker : pc[c] \notin Idle => holder = c

\* The only open temporary file is the writer's, and nobody has moved it.
TempInv ==
  /\ \A c \in Command : location[c] = IF pc[c] \in {"write", "publish"} THEN "tmp" ELSE "none"
  /\ \A c \in Writer : pc[c] = "publish" => tmp = Saved(c)

\* What the writer works on is what is on disk, or differs in the password;
\* an init keeps the database, an empty one, to put it back.
MemoryInv ==
  /\ VaultIsWhole
  /\ \A c \in Writer : pc[c] \in {"create", "write", "publish"} => mem[c] \in Image /\ mem[c] = vault
  /\ \A q \in Rotator : pc[q] \in {"kcset", "rbkc", "rbvault", "release"} =>
       mem[q] \in Image /\ mem[q].db = Contents
  /\ \A i \in Initializer :
       /\ pc[i] # "absent" => Contents = {}
       /\ pc[i] \in {"kcset", "rbkc", "rbvault", "rbfill"} => mem[i] \in Image /\ mem[i].db = {}

\* The database has the updates that were published, and no others.
UpdatesInv ==
  /\ \A e \in Contents : pc[e] \in {"release", "ended"}
  /\ \A e \in Editor : pc[e] = "release" \/ verdict[e] = "ok" => e \in Contents

\* The Keychain's password opens the vault unless a rekey is half done or was
\* left half done.
KeysInv ==
  /\ \A q \in Rekeyer : pc[q] = "kcset" => Opens(vault, got[q])
  /\ \A q \in Rekeyer : pc[q] = "release" => Opens(vault, kc)
  /\ (\A q \in Rekeyer : \/ pc[q] \in {"start", "absent", "kcget", "open", "create", "write", "publish"}
                         \/ verdict[q] = "ok")
     => Opens(vault, kc)

\* Every rekey that has started had succeeded before reader r did.
Quiet(r) == \A q \in Rekeyer : pc[q] \in {"start", "absent"} \/ q \in settled[r]

\* What a reader was promised when it started.
ReadersInv ==
  /\ \A r \in Reader : \A c \in settled[r] : verdict[c] = "ok"
  /\ \A r \in Reader : verdict[r] = "ok" => mem[r] \in Image
  /\ \A r \in Reader : pc[r] = "open" /\ Quiet(r) => Opens(vault, got[r])
  /\ ReaderIsCurrent /\ ReadersFailOnlyDuringRekey

IInv ==
  TypeOK /\ RolesInv /\ LockInv /\ TempInv /\ MemoryInv /\ UpdatesInv /\ KeysInv /\ ReadersInv

-------------------------------------------------------------------------------

LEMMA InitIInv == Apart /\ Init => IInv
<1> SUFFICES ASSUME Apart, Init PROVE IInv
  OBVIOUS
<1>1. PICK cast \in Casts : pc = [c \in Command |-> IF c \in cast THEN "start" ELSE "absent"]
  BY DEF Init
<1>2. \A i \in Initializer : pc[i] # "absent" => \A c \in Writer \ {i} : pc[c] = "absent"
  BY <1>1, SessionAssumption DEF Apart, Writer, Locker, Command
<1>3. TypeOK /\ RolesInv /\ LockInv
  BY <1>2 DEF Init, TypeOK, RolesInv, LockInv, Step, Idle, Command, Locker, Image
<1>4. TempInv /\ MemoryInv
  BY DEF Init, TempInv, MemoryInv, VaultIsWhole, Contents, Writer, Command, Locker
<1>5. UpdatesInv /\ KeysInv
  BY DEF Init, UpdatesInv, KeysInv, Contents, Opens, Command, Rekeyer
<1>6. ReadersInv
  BY DEF Init, ReadersInv, ReaderIsCurrent, ReadersFailOnlyDuringRekey, Command
<1>7. QED
  BY <1>3, <1>4, <1>5, <1>6 DEF IInv

(* Only one command that writes is past its start and not at its end.      *)
LEMMA OneWriter ==
  ASSUME RolesInv, LockInv, NEW c \in Writer, pc[c] \notin Idle
  PROVE  /\ \A d \in Writer : d # c => pc[d] \in Idle
         /\ c \in Locker => \A i \in Initializer : pc[i] = "absent"
         /\ c \in Initializer => \A d \in Writer : d # c => pc[d] = "absent"
<1> USE DEF Idle, Writer
<1>1. CASE c \in Locker
  <2>1. \A i \in Initializer : pc[i] = "absent"
    BY <1>1, SessionAssumption DEF RolesInv, Locker
  <2>2. \A d \in Locker : d # c => pc[d] \in Idle
    BY <1>1 DEF LockInv
  <2>3. QED
    BY <1>1, <2>1, <2>2, SessionAssumption DEF Locker
<1>2. CASE c \in Initializer
  BY <1>2, SessionAssumption DEF RolesInv, Locker
<1>3. QED
  BY <1>1, <1>2

(* While a command with the lock is at work the file is a database.        *)
LEMMA LockedVaultIsWhole ==
  ASSUME RolesInv, LockInv, MemoryInv, NEW c \in Locker, pc[c] \notin Idle
  PROVE  vault \in Image
<1>1. \A i \in Initializer : pc[i] = "absent" /\ verdict[i] # "crashed"
  BY OneWriter DEF Writer, RolesInv, Command
<1>2. QED
  BY <1>1 DEF MemoryInv, VaultIsWhole

(* What a command saves is a database.                                     *)
LEMMA SavedIsImage ==
  ASSUME TypeOK, NEW c \in Writer, mem[c] \in Image
  PROVE  /\ Saved(c) \in Image
         /\ c \in Editor => Saved(c).db = mem[c].db \cup {c} /\ Saved(c).key = mem[c].key
         /\ c \in Rotator => Saved(c).db = mem[c].db
         /\ c \in Initializer => Saved(c).db = {}
         /\ c \in Rekeyer => Saved(c).key = got[c]
BY SessionAssumption DEF TypeOK, Saved, Image, Writer, Rekeyer, Locker, Command

(* The steps of a command. *)
Lock(c) == Acquire(c) \/ Refused(c) \/ Release(c)
Read(c) == StartReading(c) \/ GetCredential(c) \/ Open(c) \/ OpenFails(c)
SaveSteps(c) == Create(c) \/ Write(c) \/ Publish(c) \/ SaveFails(c)
KeychainSteps(c) == SetKeychain(c) \/ SetKeychainFails(c) \/ RestoreKeychain(c)
UndoSteps(c) == RestoreVault(c) \/ TruncateVault(c) \/ RefillVault(c)
AnyStep(c) ==
  Lock(c) \/ Read(c) \/ BeginInit(c) \/ SaveSteps(c) \/ KeychainSteps(c) \/ UndoSteps(c) \/ Crash(c)

(* Types.                                                                  *)
LEMMA StepKeepsType ==
  ASSUME IInv, NEW c \in Command, AnyStep(c)
  PROVE  TypeOK'
<1> TypeOK
  BY DEF IInv
<1> USE DEF TypeOK, Goto, End, Fault, files
<1>1. CASE Lock(c)
  <2>1. CASE Acquire(c)
    BY <2>1 DEF Acquire, Step, Succeeded
  <2>2. CASE Refused(c) \/ Release(c)
    BY <2>2 DEF Refused, Release, Step
  <2>3. QED
    BY <1>1, <2>1, <2>2 DEF Lock
<1>2. CASE Read(c)
  BY <1>2 DEF Read, StartReading, GetCredential, Open, OpenFails, Step, Succeeded, Opens
<1>3. CASE BeginInit(c)
  BY <1>3 DEF BeginInit, Step, Succeeded
<1>4. CASE SaveSteps(c)
  <2>1. CASE Create(c)
    BY <2>1 DEF Create, Step
  <2>2. CASE Write(c)
    <3>1. c \in Writer /\ mem[c] \in Image
      BY <2>2 DEF Write, IInv, RolesInv, MemoryInv, Command, Locker, Writer, Idle
    <3>2. Written(c) \subseteq Image \cup {Torn}
      BY <3>1, SavedIsImage DEF Written
    <3>3. QED
      BY <2>2, <3>2 DEF Write, Step
  <2>3. CASE Publish(c)
    BY <2>3 DEF Publish, Step
  <2>4. CASE SaveFails(c)
    <3>1. location' \in [Command -> {"none", "tmp", "vault", "gone"}]
      BY <2>4 DEF SaveFails, Moved
    <3>2. pc' \in [Command -> Step] /\ holder' \in Locker \cup {Nobody}
      BY <2>4 DEF SaveFails, Step
    <3>3. tmp' \in {tmp, NoFile} /\ faults' \in Nat
      BY <2>4 DEF SaveFails
    <3>4. verdict' \in [Command -> {"none", "ok", "refused", "error", "crashed"}]
      BY <2>4 DEF SaveFails
    <3>5. QED
      BY <2>4, <3>1, <3>2, <3>3, <3>4 DEF SaveFails
  <2>5. QED
    BY <1>4, <2>1, <2>2, <2>3, <2>4 DEF SaveSteps
<1>5. CASE KeychainSteps(c)
  BY <1>5 DEF KeychainSteps, SetKeychain, SetKeychainFails, RestoreKeychain, Step, Image
<1>6. CASE UndoSteps(c)
  BY <1>6 DEF UndoSteps, RestoreVault, TruncateVault, RefillVault, Moved, Step
<1>7. CASE Crash(c)
  BY <1>7 DEF Crash, Step
<1>8. QED
  BY <1>1, <1>2, <1>3, <1>4, <1>5, <1>6, <1>7 DEF AnyStep

(* Roles and the lock. *)
LEMMA StepKeepsRoles ==
  ASSUME IInv, NEW c \in Command, AnyStep(c)
  PROVE  RolesInv' /\ LockInv'
<1> TypeOK /\ RolesInv /\ LockInv
  BY DEF IInv
<1>a. pc[c] # "absent" /\ pc' = [pc EXCEPT ![c] = pc'[c]]
  <2> USE DEF TypeOK, Goto, End
  <2>1. CASE Lock(c) \/ Read(c) \/ BeginInit(c)
    BY <2>1 DEF Lock, Acquire, Refused, Release, Read, StartReading, GetCredential, Open, OpenFails, BeginInit
  <2>2. CASE SaveSteps(c)
    BY <2>2 DEF SaveSteps, Create, Write, Publish, SaveFails
  <2>3. CASE KeychainSteps(c) \/ UndoSteps(c) \/ Crash(c)
    BY <2>3 DEF KeychainSteps, SetKeychain, SetKeychainFails, RestoreKeychain, UndoSteps, RestoreVault,
       TruncateVault, RefillVault, Crash
  <2>4. QED
    BY <2>1, <2>2, <2>3 DEF AnyStep
<1>b. \A i \in Initializer : pc'[i] # "absent" => \A d \in Writer \ {i} : pc'[d] = "absent"
  BY <1>a DEF TypeOK, RolesInv, Writer, Command, Locker
<1> USE SessionAssumption DEF TypeOK, RolesInv, LockInv, Goto, End, Command, Locker, Idle
<1>1. CASE Lock(c)
  BY <1>b, <1>1 DEF Lock, Acquire, Refused, Release
<1>2. CASE Read(c)
  BY <1>b, <1>2 DEF Read, StartReading, GetCredential, Open, OpenFails
<1>3. CASE BeginInit(c)
  BY <1>b, <1>3 DEF BeginInit
<1>4. CASE SaveSteps(c)
  BY <1>b, <1>4 DEF SaveSteps, Create, Write, Publish, SaveFails
<1>5. CASE KeychainSteps(c)
  BY <1>b, <1>5 DEF KeychainSteps, SetKeychain, SetKeychainFails, RestoreKeychain
<1>6. CASE UndoSteps(c)
  BY <1>b, <1>6 DEF UndoSteps, RestoreVault, TruncateVault, RefillVault
<1>7. CASE Crash(c)
  BY <1>b, <1>7 DEF Crash
<1>8. QED
  BY <1>1, <1>2, <1>3, <1>4, <1>5, <1>6, <1>7 DEF AnyStep

(* The temporary file. *)
LEMMA StepKeepsTemp ==
  ASSUME IInv, NEW c \in Command, AnyStep(c)
  PROVE  TempInv'
<1> TypeOK /\ RolesInv /\ LockInv /\ TempInv /\ MemoryInv
  BY DEF IInv
<1>a. \A d \in Writer : d # c /\ (c \in Writer /\ pc[c] \notin Idle) => pc[d] \in Idle
  BY OneWriter
<1>b. \A d \in Reader : pc[d] \in Idle \cup {"kcget", "open"}
  BY DEF RolesInv
<1>c. \A d \in Command : d \in Writer \/ d \in Reader
  BY DEF Command, Writer, Locker
<1> USE SessionAssumption DEF TypeOK, TempInv, Saved, Goto, End, Command, Locker, Writer, Idle, files
<1>1. CASE Lock(c)
  BY <1>1 DEF Lock, Acquire, Refused, Release
<1>2. CASE Read(c)
  BY <1>2, <1>b DEF Read, StartReading, GetCredential, Open, OpenFails, RolesInv
<1>3. CASE BeginInit(c)
  BY <1>3 DEF BeginInit
<1>4. CASE SaveSteps(c)
  <2>0. c \in Writer /\ pc[c] \notin Idle
    BY <1>4, <1>b, <1>c DEF SaveSteps, Create, Write, Publish, SaveFails
  <2>a. \A d \in Command : d # c => location[d] = "none" /\ pc[d] \notin {"write", "publish"}
    BY <1>a, <1>b, <1>c, <2>0
  <2>1. CASE Create(c)
    BY <2>a, <2>1 DEF Create
  <2>2. CASE Write(c)
    BY <2>a, <2>2 DEF Write, Written
  <2>3. CASE Publish(c)
    BY <2>a, <2>3 DEF Publish
  <2>4. CASE SaveFails(c)
    <3>1. pc'[c] \notin {"write", "publish"} /\ \A d \in Command : d # c => pc'[d] = pc[d]
      BY <2>4 DEF SaveFails
    <3>2. \A d \in Command : location'[d] = "none"
      <4>1. CASE pc[c] = "create"
        BY <2>4, <2>a, <4>1 DEF SaveFails
      <4>2. CASE pc[c] # "create"
        <5>1. location' = [Moved("tmp", "gone") EXCEPT ![c] = "none"]
          BY <2>4, <4>2 DEF SaveFails
        <5>2. DOMAIN Moved("tmp", "gone") = Command
          BY DEF Moved
        <5>3. ASSUME NEW d \in Command, d # c PROVE Moved("tmp", "gone")[d] = "none"
          BY <2>a, <5>3 DEF Moved
        <5>4. QED
          BY <5>1, <5>2, <5>3
      <4>3. QED
        BY <4>1, <4>2
    <3>3. QED
      BY <2>a, <3>1, <3>2
  <2>5. QED
    BY <1>4, <2>1, <2>2, <2>3, <2>4 DEF SaveSteps
<1>5. CASE KeychainSteps(c)
  BY <1>5 DEF KeychainSteps, SetKeychain, SetKeychainFails, RestoreKeychain
<1>6. CASE UndoSteps(c)
  BY <1>6 DEF UndoSteps, RestoreVault, TruncateVault, RefillVault, Moved
<1>7. CASE Crash(c)
  BY <1>7 DEF Crash
<1>8. QED
  BY <1>1, <1>2, <1>3, <1>4, <1>5, <1>6, <1>7 DEF AnyStep

(* The vault file, and the images the commands hold in memory. *)
LEMMA StepKeepsMemory ==
  ASSUME IInv, NEW c \in Command, AnyStep(c)
  PROVE  MemoryInv'
<1> TypeOK /\ RolesInv /\ LockInv /\ TempInv /\ MemoryInv
  BY DEF IInv
<1>a. ASSUME c \in Writer, pc[c] \notin Idle
      PROVE  /\ \A d \in Writer : d # c => pc[d] \in Idle
             /\ c \in Locker => \A i \in Initializer : pc[i] = "absent"
             /\ c \in Initializer => \A d \in Writer : d # c => pc[d] = "absent"
  BY <1>a, OneWriter
<1>b. \A d \in Reader : pc[d] \in Idle \cup {"kcget", "open"}
  BY DEF RolesInv
<1>c. \A d \in Command : d \in Writer \/ d \in Reader
  BY DEF Command, Writer, Locker
<1>w. ASSUME c \in Locker, pc[c] \notin Idle PROVE vault \in Image
  BY <1>w, LockedVaultIsWhole
<1> USE SessionAssumption
    DEF TypeOK, RolesInv, MemoryInv, VaultIsWhole, Contents, Goto, End, Command, Locker, Writer, Idle, files
<1>1. CASE Lock(c)
  BY <1>1 DEF Lock, Acquire, Refused, Release
<1>2. CASE Read(c)
  BY <1>2, <1>w DEF Read, StartReading, GetCredential, Open, OpenFails, Opens
<1>3. CASE BeginInit(c)
  BY <1>3 DEF BeginInit
<1>4. CASE SaveSteps(c)
  <2>0. c \in Writer /\ pc[c] \notin Idle
    BY <1>4, <1>b, <1>c DEF SaveSteps, Create, Write, Publish, SaveFails
  <2>1. CASE Create(c)
    BY <1>a, <2>0, <2>1 DEF Create
  <2>2. CASE Write(c)
    BY <1>a, <2>0, <2>2 DEF Write, TempInv
  <2>3. CASE Publish(c)
    <3>1. vault' = Saved(c) /\ Saved(c) \in Image /\ mem[c] \in Image /\ mem[c] = vault
      BY <2>0, <2>3, SavedIsImage DEF Publish, TempInv
    <3>2. c \in Rotator \cup Initializer => Saved(c).db = vault.db /\ (c \in Initializer => vault.db = {})
      BY <2>0, <3>1, SavedIsImage
    <3>3. QED
      BY <1>a, <2>0, <2>3, <3>1, <3>2 DEF Publish
  <2>4. CASE SaveFails(c)
    BY <1>a, <1>w, <2>0, <2>4 DEF SaveFails
  <2>5. QED
    BY <1>4, <2>1, <2>2, <2>3, <2>4 DEF SaveSteps
<1>5. CASE KeychainSteps(c)
  BY <1>5 DEF KeychainSteps, SetKeychain, SetKeychainFails, RestoreKeychain
<1>6. CASE UndoSteps(c)
  <2>0. c \in Writer /\ pc[c] \notin Idle
    BY <1>6, <1>b, <1>c DEF UndoSteps, RestoreVault, TruncateVault, RefillVault
  <2>1. CASE RestoreVault(c)
    BY <1>a, <2>0, <2>1 DEF RestoreVault
  <2>2. CASE TruncateVault(c)
    BY <1>a, <2>0, <2>2 DEF TruncateVault
  <2>3. CASE RefillVault(c)
    BY <1>a, <2>0, <2>3 DEF RefillVault
  <2>4. QED
    BY <1>6, <2>1, <2>2, <2>3 DEF UndoSteps
<1>7. CASE Crash(c)
  BY <1>7 DEF Crash
<1>8. QED
  BY <1>1, <1>2, <1>3, <1>4, <1>5, <1>6, <1>7 DEF AnyStep

(* What each step does to the updates in the vault, and to those that are   *)
(* acknowledged.                                                           *)
LEMMA StepOnTable ==
  ASSUME IInv, NEW c \in Command, AnyStep(c)
  PROVE  \/ /\ c \in Editor /\ pc[c] = "publish" /\ pc'[c] = "release"
            /\ Contents' = Contents \cup {c} /\ verdict' = verdict
         \/ Contents' = Contents
<1> TypeOK /\ RolesInv /\ TempInv /\ MemoryInv
  BY DEF IInv
<1> USE SessionAssumption
    DEF TypeOK, RolesInv, MemoryInv, Contents, Goto, End, Command, Locker, Writer, Idle, files
<1>1. CASE Publish(c)
  <2>1. c \in Writer
    BY <1>1 DEF Publish
  <2>2. vault' = Saved(c) /\ Saved(c) \in Image /\ mem[c] \in Image /\ mem[c] = vault
    BY <1>1, <2>1, SavedIsImage DEF Publish, TempInv
  <2>3. /\ c \in Editor => Saved(c).db = vault.db \cup {c}
        /\ c \in Rotator => Saved(c).db = vault.db
        /\ c \in Initializer => Saved(c).db = {} /\ vault.db = {}
    BY <1>1, <2>1, <2>2, SavedIsImage DEF Publish
  <2>4. Contents = vault.db /\ Contents' = Saved(c).db
    BY <2>2
  <2>5. CASE c \in Editor
    BY <1>1, <2>3, <2>4, <2>5 DEF Publish
  <2>6. CASE c \notin Editor
    BY <2>1, <2>3, <2>4, <2>6
  <2>7. QED
    BY <2>5, <2>6
<1>2. CASE RestoreVault(c)
  BY <1>2 DEF RestoreVault
<1>3. CASE TruncateVault(c) \/ RefillVault(c)
  <2>1. c \in Initializer /\ pc[c] # "absent"
    BY <1>3 DEF TruncateVault, RefillVault
  <2>2. Contents = {}
    BY <2>1
  <2>3. vault' = Torn \/ (vault' \in Image /\ vault'.db = {})
    BY <1>3, <2>1 DEF TruncateVault, RefillVault
  <2>4. Contents' = {}
    <3>1. CASE vault' = Torn
      <4>1. vault' \notin Image
        BY <3>1
      <4>2. QED
        BY <4>1
    <3>2. CASE vault' \in Image /\ vault'.db = {}
      BY <3>2
    <3>3. QED
      BY <2>3, <3>1, <3>2
  <2>5. QED
    BY <2>2, <2>4
<1>4. CASE Write(c)
  BY <1>4 DEF Write, TempInv
<1>5. CASE Lock(c) \/ Read(c) \/ BeginInit(c) \/ Create(c) \/ SaveFails(c) \/ KeychainSteps(c) \/ Crash(c)
  BY <1>5 DEF Lock, Acquire, Refused, Release, Read, StartReading, GetCredential, Open, OpenFails, BeginInit,
     Create, SaveFails, KeychainSteps, SetKeychain, SetKeychainFails, RestoreKeychain, Crash
<1>6. QED
  BY <1>1, <1>2, <1>3, <1>4, <1>5 DEF AnyStep, SaveSteps, UndoSteps

(* What a step does to its own command, and not to the others.             *)
LEMMA StepOnPlaces ==
  ASSUME IInv, NEW c \in Command, AnyStep(c)
  PROVE  /\ \A d \in Command : d # c =>
              /\ pc'[d] = pc[d] /\ verdict'[d] = verdict[d] /\ got'[d] = got[d]
              /\ mem'[d] = mem[d] /\ settled'[d] = settled[d]
         /\ pc[c] # "ended" /\ pc'[c] \notin {"start", "absent"}
         /\ pc[c] = "release" => pc'[c] = "ended"
         /\ c \in Editor /\ pc'[c] = "release" => pc[c] = "publish" /\ Contents' = Contents \cup {c}
         /\ verdict'[c] = "ok" => pc'[c] = "ended" /\ (c \notin Reader => pc[c] = "release")
<1> TypeOK /\ RolesInv /\ TempInv /\ MemoryInv
  BY DEF IInv
<1> USE SessionAssumption
    DEF TypeOK, RolesInv, Goto, End, Command, Locker, Idle, files
<1>1. CASE Lock(c)
  BY <1>1 DEF Lock, Acquire, Refused, Release
<1>2. CASE Read(c)
  BY <1>2 DEF Read, StartReading, GetCredential, Open, OpenFails
<1>3. CASE BeginInit(c)
  BY <1>3 DEF BeginInit
<1>4. CASE SaveSteps(c)
  <2>1. CASE Publish(c)
    <3>1. c \in Editor => Contents' = Contents \cup {c}
      <4> SUFFICES ASSUME c \in Editor PROVE Contents' = Contents \cup {c}
        OBVIOUS
      <4>1. vault' = Saved(c) /\ Saved(c) \in Image /\ Saved(c).db = mem[c].db \cup {c}
            /\ mem[c] \in Image /\ mem[c] = vault
        BY <2>1, SavedIsImage DEF Publish, TempInv, MemoryInv, Writer
      <4>2. QED
        BY <4>1 DEF Contents
    <3>2. QED
      BY <2>1, <3>1 DEF Publish
  <2>2. CASE Create(c) \/ Write(c) \/ SaveFails(c)
    BY <2>2 DEF Create, Write, SaveFails
  <2>3. QED
    BY <1>4, <2>1, <2>2 DEF SaveSteps
<1>5. CASE KeychainSteps(c)
  BY <1>5 DEF KeychainSteps, SetKeychain, SetKeychainFails, RestoreKeychain
<1>6. CASE UndoSteps(c)
  BY <1>6 DEF UndoSteps, RestoreVault, TruncateVault, RefillVault
<1>7. CASE Crash(c)
  BY <1>7 DEF Crash
<1>8. QED
  BY <1>1, <1>2, <1>3, <1>4, <1>5, <1>6, <1>7 DEF AnyStep

LEMMA StepKeepsUpdates ==
  ASSUME IInv, NEW c \in Command, AnyStep(c)
  PROVE  UpdatesInv'
<1> RolesInv /\ UpdatesInv
  BY DEF IInv
<1>1. Contents \subseteq Editor /\ Contents' \subseteq Editor /\ Editor \subseteq Command
  BY DEF Contents, Image, Command
<1>2. \A e \in Contents' : pc'[e] \in {"release", "ended"}
  <2> SUFFICES ASSUME NEW e \in Contents' PROVE pc'[e] \in {"release", "ended"}
    OBVIOUS
  <2>1. CASE e \in Contents
    BY <1>1, <2>1, StepOnPlaces DEF UpdatesInv
  <2>2. CASE e \notin Contents
    BY <2>2, StepOnTable
  <2>3. QED
    BY <2>1, <2>2
<1>3. ASSUME NEW e \in Editor, pc'[e] = "release" \/ verdict'[e] = "ok"
      PROVE  e \in Contents'
  <2>1. Contents \subseteq Contents'
    BY StepOnTable
  <2>2. CASE e # c
    BY <1>1, <1>3, <2>1, <2>2, StepOnPlaces DEF UpdatesInv
  <2>3. CASE e = c
    BY <1>3, <2>1, <2>3, StepOnPlaces, SessionAssumption DEF UpdatesInv
  <2>4. QED
    BY <2>2, <2>3
<1>4. QED
  BY <1>2, <1>3 DEF UpdatesInv

(* Passwords.  A command that does not change them leaves what opens the   *)
(* vault; of one that does, what it may do when.                           *)
Early == {"start", "absent", "kcget", "open", "create", "write", "publish"}

LEMMA StepOnKeys ==
  ASSUME IInv, NEW c \in Command, AnyStep(c)
  PROVE  /\ c \notin Rekeyer => kc' = kc /\ \A k : Opens(vault', k) <=> Opens(vault, k)
         /\ c \in Rekeyer =>
              /\ pc'[c] \in Early => vault' = vault /\ kc' = kc /\ pc[c] \in Early
              /\ pc'[c] = "kcset" => Opens(vault', got'[c])
              /\ pc'[c] = "release" => Opens(vault', kc')
              /\ verdict'[c] = "ok" => Opens(vault', kc')
              /\ pc[c] \notin Idle \/ (vault' = vault /\ kc' = kc)
<1> TypeOK /\ RolesInv /\ TempInv /\ MemoryInv /\ KeysInv
  BY DEF IInv
<1> USE SessionAssumption
    DEF TypeOK, RolesInv, KeysInv, Early, Rekeyer, Goto, End, Command, Locker, Idle, files
<1>1. CASE Lock(c)
  BY <1>1 DEF Lock, Acquire, Refused, Release
<1>2. CASE Read(c)
  BY <1>2 DEF Read, StartReading, GetCredential, Open, OpenFails
<1>3. CASE BeginInit(c)
  BY <1>3 DEF BeginInit
<1>4. CASE SaveSteps(c)
  <2>1. CASE Publish(c)
    <3>1. c \in Writer
      BY <2>1 DEF Publish, Writer
    <3>2. vault' = Saved(c) /\ Saved(c) \in Image /\ mem[c] \in Image /\ mem[c] = vault
      BY <2>1, <3>1, SavedIsImage DEF Publish, TempInv, MemoryInv
    <3>3. /\ c \in Editor => Saved(c).key = vault.key
          /\ c \in Rekeyer => Saved(c).key = got[c]
      BY <3>1, <3>2, SavedIsImage
    <3>4. /\ c \notin Rekeyer => \A k : Opens(vault', k) <=> Opens(vault, k)
          /\ c \in Rekeyer => Opens(vault', got[c])
      BY <3>1, <3>2, <3>3 DEF Opens, Writer
    <3>5. QED
      BY <2>1, <3>4 DEF Publish
  <2>2. CASE Create(c) \/ SaveFails(c)
    BY <2>2 DEF Create, SaveFails
  <2>3. CASE Write(c)
    BY <2>3 DEF Write, TempInv
  <2>4. QED
    BY <1>4, <2>1, <2>2, <2>3 DEF SaveSteps
<1>5. CASE KeychainSteps(c)
  BY <1>5 DEF KeychainSteps, SetKeychain, SetKeychainFails, RestoreKeychain
<1>6. CASE UndoSteps(c)
  BY <1>6 DEF UndoSteps, RestoreVault, TruncateVault, RefillVault
<1>7. CASE Crash(c)
  BY <1>7 DEF Crash
<1>8. QED
  BY <1>1, <1>2, <1>3, <1>4, <1>5, <1>6, <1>7 DEF AnyStep

LEMMA StepKeepsKeys ==
  ASSUME IInv, NEW c \in Command, AnyStep(c)
  PROVE  KeysInv'
<1> RolesInv /\ LockInv /\ KeysInv
  BY DEF IInv
<1>1. \A q \in Rekeyer : q \in Command /\ q \in Writer
  BY DEF Rekeyer, Writer, Locker, Command
<1>2. \A q \in Rekeyer : q # c => pc'[q] = pc[q] /\ verdict'[q] = verdict[q] /\ got'[q] = got[q]
  BY <1>1, StepOnPlaces
<1>3. CASE c \notin Rekeyer
  BY <1>2, <1>3, StepOnKeys DEF KeysInv
<1>4. CASE c \in Rekeyer
  <2>1. ASSUME NEW q \in Rekeyer, pc'[q] = "kcset" PROVE Opens(vault', got'[q])
    <3>1. CASE q = c
      BY <1>4, <2>1, <3>1, StepOnKeys
    <3>2. CASE q # c
      <4>1. pc[c] \in Idle
        BY <1>1, <1>2, <1>4, <2>1, <3>2, OneWriter DEF Idle
      <4>2. QED
        BY <1>2, <1>4, <2>1, <3>2, <4>1, StepOnKeys DEF KeysInv
    <3>3. QED
      BY <3>1, <3>2
  <2>2. ASSUME NEW q \in Rekeyer, pc'[q] = "release" PROVE Opens(vault', kc')
    <3>1. CASE q = c
      BY <1>4, <2>2, <3>1, StepOnKeys
    <3>2. CASE q # c
      <4>1. pc[c] \in Idle
        BY <1>1, <1>2, <1>4, <2>2, <3>2, OneWriter DEF Idle
      <4>2. QED
        BY <1>2, <1>4, <2>2, <3>2, <4>1, StepOnKeys DEF KeysInv
    <3>3. QED
      BY <3>1, <3>2
  <2>3. ASSUME \A q \in Rekeyer : pc'[q] \in Early \/ verdict'[q] = "ok"
        PROVE  Opens(vault', kc')
    <3>1. CASE verdict'[c] = "ok"
      BY <1>4, <3>1, StepOnKeys
    <3>2. CASE pc'[c] \in Early
      <4>1. \A q \in Rekeyer : pc[q] \in Early \/ verdict[q] = "ok"
        BY <1>2, <1>4, <2>3, <3>2, StepOnKeys
      <4>2. QED
        BY <1>4, <3>2, <4>1, StepOnKeys DEF KeysInv, Early
    <3>3. QED
      BY <1>4, <2>3, <3>1, <3>2
  <2>4. QED
    BY <2>1, <2>2, <2>3 DEF KeysInv, Early, Opens
<1>5. QED
  BY <1>3, <1>4

(* What readers see.                                                       *)
LEMMA StepOnReader ==
  ASSUME IInv, NEW c \in Reader, AnyStep(c)
  PROVE  /\ settled'[c] \in {settled[c], Succeeded}
         /\ verdict'[c] = "ok" => mem'[c] = vault /\ vault \in Image /\ settled'[c] = settled[c]
         /\ verdict'[c] = "refused" =>
              pc[c] = "open" /\ ~Opens(vault, got[c]) /\ settled'[c] = settled[c]
         /\ pc'[c] = "open" => got'[c] = kc /\ settled'[c] = settled[c]
         /\ vault' = vault
<1> TypeOK /\ RolesInv
  BY DEF IInv
<1>1. c \in Command /\ c \notin Locker /\ c \notin Initializer /\ pc[c] \in Idle \cup {"kcget", "open"}
      /\ (verdict[c] # "none" => pc[c] = "ended")
  BY SessionAssumption DEF RolesInv, Command, Locker
<1> USE SessionAssumption DEF TypeOK, Goto, End, Idle, files
<1>2. CASE Lock(c) \/ Read(c)
  BY <1>1, <1>2 DEF Lock, Acquire, Refused, Release, Read, StartReading, GetCredential, Open, OpenFails, Opens
<1>3. CASE BeginInit(c) \/ SaveSteps(c) \/ KeychainSteps(c) \/ UndoSteps(c)
  BY <1>1, <1>3 DEF BeginInit, SaveSteps, Create, Write, Publish, SaveFails, KeychainSteps, SetKeychain,
     SetKeychainFails, RestoreKeychain, UndoSteps, RestoreVault, TruncateVault, RefillVault
<1>4. CASE Crash(c)
  BY <1>1, <1>4 DEF Crash
<1>5. QED
  BY <1>2, <1>3, <1>4 DEF AnyStep

(* A reader that has started is never quiet again once a rekey runs.       *)
LEMMA StepOnQuiet ==
  ASSUME IInv, NEW c \in Command, AnyStep(c), NEW r \in Reader, settled'[r] = settled[r], Quiet(r)'
  PROVE  Quiet(r) /\ c \notin Rekeyer
<1> RolesInv /\ ReadersInv /\ Rekeyer \subseteq Command
  BY DEF IInv, Rekeyer, Command
<1>1. c \notin settled[r]
  BY StepOnPlaces DEF RolesInv, ReadersInv
<1>2. c \notin Rekeyer
  BY <1>1, StepOnPlaces DEF Quiet
<1>3. Quiet(r)
  BY <1>2, StepOnPlaces DEF Quiet
<1>4. QED
  BY <1>2, <1>3

LEMMA StepKeepsReaders ==
  ASSUME IInv, NEW c \in Command, AnyStep(c)
  PROVE  ReadersInv'
<1> TypeOK /\ RolesInv /\ UpdatesInv /\ KeysInv /\ ReadersInv
  BY DEF IInv
<1>1. Contents \subseteq Editor /\ Editor \cup Reader \subseteq Command
  BY DEF Contents, Image, Command
<1>2. \A d \in Command : verdict[d] = "ok" => verdict'[d] = "ok"
  BY StepOnPlaces DEF RolesInv
<1>3. \A e \in Editor : pc[e] \in {"release", "ended"} => pc'[e] \in {"release", "ended"}
  BY <1>1, StepOnPlaces
<1>4. \A r \in Reader : r # c =>
        /\ pc'[r] = pc[r] /\ verdict'[r] = verdict[r] /\ got'[r] = got[r]
        /\ mem'[r] = mem[r] /\ settled'[r] = settled[r]
  BY <1>1, StepOnPlaces
<1>5. ASSUME NEW r \in Reader, NEW d \in settled'[r] PROVE verdict'[d] = "ok"
  <2>1. d \in Command
    BY <1>1, <1>5, StepKeepsType DEF TypeOK
  <2>2. verdict[d] = "ok"
    <3>1. CASE r # c
      BY <1>4, <1>5, <3>1 DEF ReadersInv
    <3>2. CASE r = c
      BY <1>5, <3>2, StepOnReader DEF ReadersInv, Succeeded
    <3>3. QED
      BY <3>1, <3>2
  <2>3. QED
    BY <1>2, <2>1, <2>2
<1>6. ASSUME NEW r \in Reader, verdict'[r] = "ok"
      PROVE  /\ mem'[r] \in Image
             /\ settled'[r] \cap Editor \subseteq mem'[r].db
             /\ \A e \in mem'[r].db : pc'[e] \in {"release", "ended"}
  <2>1. CASE r # c
    <3>1. mem'[r] \in Image /\ mem'[r].db \subseteq Editor
      BY <1>4, <1>6, <2>1 DEF ReadersInv, Image
    <3>2. QED
      BY <1>3, <1>4, <1>6, <2>1, <3>1 DEF ReadersInv, ReaderIsCurrent
  <2>2. CASE r = c
    <3>1. mem'[r] = vault /\ vault \in Image /\ Contents = vault.db /\ settled'[r] = settled[r]
      BY <1>6, <2>2, StepOnReader DEF Contents
    <3>2. settled[r] \cap Editor \subseteq Contents
      BY DEF ReadersInv, UpdatesInv
    <3>3. \A e \in Contents : pc'[e] \in {"release", "ended"}
      BY <1>1, <1>3 DEF UpdatesInv
    <3>4. QED
      BY <3>1, <3>2, <3>3
  <2>3. QED
    BY <2>1, <2>2
<1>7. ASSUME NEW r \in Reader, pc'[r] = "open", Quiet(r)' PROVE Opens(vault', got'[r])
  <2>1. CASE r # c
    <3>1. Quiet(r) /\ c \notin Rekeyer
      BY <1>4, <1>7, <2>1, StepOnQuiet
    <3>2. QED
      BY <1>4, <1>7, <2>1, <3>1, StepOnKeys DEF ReadersInv
  <2>2. CASE r = c
    <3>1. got'[r] = kc /\ settled'[r] = settled[r] /\ vault' = vault
      BY <1>7, <2>2, StepOnReader
    <3>2. Quiet(r)
      BY <1>7, <3>1, StepOnQuiet
    <3>3. \A q \in Rekeyer : pc[q] \in {"start", "absent"} \/ verdict[q] = "ok"
      BY <3>2 DEF Quiet, ReadersInv
    <3>4. QED
      BY <3>1, <3>3 DEF KeysInv
  <2>3. QED
    BY <2>1, <2>2
<1>8. ASSUME NEW r \in Reader, verdict'[r] = "refused" PROVE ~Quiet(r)'
  <2> SUFFICES ASSUME Quiet(r)' PROVE FALSE
    OBVIOUS
  <2>1. CASE r # c
    <3>1. Quiet(r) /\ verdict[r] = "refused"
      BY <1>4, <1>8, <2>1, StepOnQuiet
    <3>2. QED
      BY <3>1 DEF Quiet, ReadersInv, ReadersFailOnlyDuringRekey, Rekeyer
  <2>2. CASE r = c
    <3>1. pc[r] = "open" /\ ~Opens(vault, got[r]) /\ settled'[r] = settled[r]
      BY <1>8, <2>2, StepOnReader
    <3>2. QED
      BY <3>1, StepOnQuiet DEF ReadersInv
  <2>3. QED
    BY <2>1, <2>2
<1>9. ReaderIsCurrent' /\ ReadersFailOnlyDuringRekey'
  BY <1>6, <1>8 DEF ReaderIsCurrent, ReadersFailOnlyDuringRekey, Quiet, Rekeyer
<1>10. QED
  BY <1>5, <1>6, <1>7, <1>9 DEF ReadersInv, Opens, Quiet

LEMMA NextIsAnyStep == Next => \E c \in Command : AnyStep(c)
BY DEF Next, AnyStep, Lock, Read, SaveSteps, KeychainSteps, UndoSteps

(* Lock, temporary file, memory, updates and keys of all sessions at once. *)
THEOREM InvariantHolds == Apart /\ Spec => []IInv
<1> SUFFICES ASSUME Apart PROVE Spec => []IInv
  OBVIOUS
<1>1. Init => IInv
  BY InitIInv
<1>2. IInv /\ [Next]_vars => IInv'
  <2> SUFFICES ASSUME IInv, [Next]_vars PROVE IInv'
    OBVIOUS
  <2>1. CASE Next
    <3>1. PICK c \in Command : AnyStep(c)
      BY <2>1, NextIsAnyStep
    <3>2. QED
      BY <3>1, StepKeepsType, StepKeepsRoles, StepKeepsTemp, StepKeepsMemory, StepKeepsUpdates,
         StepKeepsKeys, StepKeepsReaders DEF IInv
  <2>2. CASE UNCHANGED vars
    <3>1. TypeOK' /\ RolesInv' /\ LockInv'
      BY <2>2 DEF vars, files, IInv, TypeOK, RolesInv, LockInv
    <3>2. TempInv' /\ MemoryInv'
      BY <2>2 DEF vars, files, IInv, TempInv, MemoryInv, VaultIsWhole, Contents, Saved
    <3>3. UpdatesInv' /\ KeysInv'
      BY <2>2 DEF vars, files, IInv, UpdatesInv, KeysInv, Contents, Opens
    <3>4. ReadersInv'
      BY <2>2 DEF vars, files, IInv, ReadersInv, ReaderIsCurrent, ReadersFailOnlyDuringRekey, Quiet, Opens
    <3>5. QED
      BY <3>1, <3>2, <3>3, <3>4 DEF IInv
  <2>3. QED
    BY <2>1, <2>2
<1>3. QED
  BY <1>1, <1>2, PTL DEF Spec

-------------------------------------------------------------------------------
(* The results, for all sets of commands and keys, and any number of       *)
(* failed calls and crashes.                                               *)

(* Every variable of a session keeps its type.                             *)
THEOREM TypeCorrect == Apart => (Spec => []TypeOK)
<1>1. IInv => TypeOK
  BY DEF IInv
<1>2. QED
  BY <1>1, InvariantHolds, PTL

(* Nobody who looks at the vault, at any instant, sees half a database: a  *)
(* save writes elsewhere and renames.  Only an init that undoes its work   *)
(* writes in place.                                                        *)
THEOREM VaultAlwaysWhole == Apart => (Spec => []VaultIsWhole)
<1>1. IInv => VaultIsWhole
  BY DEF IInv, MemoryInv
<1>2. QED
  BY <1>1, InvariantHolds, PTL

(* A reader, which takes no lock, gets a database that was current while   *)
(* it read.                                                                *)
THEOREM ReadersAreCurrent == Apart => (Spec => []ReaderIsCurrent)
<1>1. IInv => ReaderIsCurrent
  BY DEF IInv, ReadersInv
<1>2. QED
  BY <1>1, InvariantHolds, PTL

(* A reader fails to unlock only if a rotation or an init had started that *)
(* had not succeeded before the reader started: entry commands, however    *)
(* many, never make one fail.                                              *)
THEOREM ReadersFailForCause == Apart => (Spec => []ReadersFailOnlyDuringRekey)
<1>1. IInv => ReadersFailOnlyDuringRekey
  BY DEF IInv, ReadersInv
<1>2. QED
  BY <1>1, InvariantHolds, PTL

(* No update is lost, applied twice or acknowledged before it is in the    *)
(* vault: the commands implement one table of updates.                     *)
THEOREM NoUpdateIsLost == Apart => (Spec => ImplementsUpdateTable)
<1> SUFFICES ASSUME Apart PROVE Spec => ImplementsUpdateTable
  OBVIOUS
<1> DEFINE Stored == IF vault \in Image THEN vault.db ELSE {}
           Acked == {e \in Editor : verdict[e] = "ok"}
<1>1. Init => Table!Init
  BY DEF Init, Table!Init, Command
<1>2. ASSUME IInv, IInv', [Next]_vars PROVE [Table!Next]_<<Stored, Acked>>
  <2>1. Stored = Contents /\ Stored' = Contents'
    BY DEF Contents
  <2>2. ASSUME NEW c \in Command, AnyStep(c)
        PROVE  [Table!Next]_<<Stored, Acked>>
    <3>1. \A d \in Command : d # c => verdict'[d] = verdict[d]
      BY <1>2, <2>2, StepOnPlaces
    <3>2. CASE c \in Editor /\ pc[c] = "publish" /\ Contents' = Contents \cup {c} /\ verdict' = verdict
      <4>1. c \notin Contents
        BY <1>2, <3>2 DEF IInv, UpdatesInv
      <4>2. Table!Apply(c)
        BY <2>1, <3>2, <4>1 DEF Table!Apply
      <4>3. QED
        BY <3>2, <4>2 DEF Table!Next
    <3>3. CASE Contents' = Contents
      <4>1. CASE c \in Editor /\ verdict'[c] = "ok"
        <5>1. c \in Contents /\ Acked' = Acked \cup {c}
          BY <1>2, <2>2, <3>1, <3>3, <4>1, StepOnPlaces, SessionAssumption DEF IInv, UpdatesInv, Command
        <5>2. QED
          BY <2>1, <3>3, <4>1, <5>1 DEF Table!Next, Table!Acknowledge
      <4>2. CASE ~(c \in Editor /\ verdict'[c] = "ok")
        <5>1. c \in Editor => verdict[c] # "ok"
          BY <1>2, <2>2, StepOnPlaces DEF IInv, RolesInv
        <5>2. Acked' = Acked
          BY <3>1, <4>2, <5>1 DEF Command
        <5>3. QED
          BY <2>1, <3>3, <5>2
      <4>3. QED
        BY <4>1, <4>2
    <3>4. QED
      BY <1>2, <2>2, <3>2, <3>3, StepOnTable
  <2>3. CASE UNCHANGED vars
    BY <2>3 DEF vars, files
  <2>4. QED
    BY <1>2, <2>2, <2>3, NextIsAnyStep
<1>3. QED
  BY <1>1, <1>2, InvariantHolds, PTL DEF Spec, ImplementsUpdateTable, Table!Spec
-------------------------------------------------------------------------------
(***************************************************************************)
(* VaultSession takes and releases the lock in one step.  How far that is  *)
(* right is proved here of WriteLock, where it is a sequence of file       *)
(* operations: the lock excludes until an acquisition reads the file while *)
(* another decides, or fails to read it beside a holder, and again once    *)
(* the commands of that time are done, for any number of processes,        *)
(* identifiers, crashes and reused PIDs.                                   *)
(***************************************************************************)

\* Live processes are told apart by their PIDs.
PidsDistinct ==
  /\ \A p \in Running : pid[p] \in Pid /\ pid[p] \notin others
  /\ \A p, q \in Running : pid[p] = pid[q] => p = q

\* The one process that decides has read the holder's PID, if there is a
\* holder, and writes only when there is none.
OneDecides ==
  /\ \A p, q \in Deciding : p = q
  /\ \A p \in Holders : lockFile = pid[p]
  /\ \A p \in Proc : stage[p] = "judge" => \A q \in Holders : seen[p] = pid[q]
  /\ \A p \in Proc : stage[p] \in {"remove", "create", "write"} => Holders = {}
  /\ \A p \in Proc : stage[p] = "write" => p \in linked

\* A disturbance catches every process that decides or holds.
Disturbance == IF disturbed = {} THEN OneDecides ELSE disturbed = Engaged

LockIInv == LockTypeOK /\ PidsDistinct /\ Disturbance

-------------------------------------------------------------------------------

LEMMA InitLockIInv == LockInit => LockIInv
BY DEF LockInit, LockIInv, LockTypeOK, PidsDistinct, Disturbance, OneDecides, Deciding, Engaged, Running, Acquiring,
       Holders, AcquireStep

(* Every step of a process keeps the types. *)
LEMMA LockStepKeepsType ==
  ASSUME LockTypeOK, PidsDistinct, NEW p \in Proc, Start(p) \/ AcquireLock(p) \/ DropLock(p) \/ Killed(p)
  PROVE  LockTypeOK'
<1> USE DEF LockTypeOK, Enter, Exit, LockFault, Environment, AcquireStep
<1>1. CASE Start(p)
  BY <1>1 DEF Start
<1>2. CASE RefuseKeePassXC(p) \/ PassKeePassXC(p) \/ RefuseLive(p)
  BY <1>2 DEF RefuseKeePassXC, PassKeePassXC, RefuseLive
<1>r. CASE ReadLock(p) \/ ReadLockFails(p)
  <2>1. Engaged \subseteq Proc
    BY DEF Engaged, Deciding, Holders
  <2>2. QED
    BY <1>r, <2>1 DEF ReadLock, ReadLockFails, Decide
<1>3. CASE Reclaim(p) \/ FindFree(p) \/ RemoveStale(p) \/ RemoveStaleFails(p)
  BY <1>3 DEF Reclaim, FindFree, RemoveStale, RemoveStaleFails
<1>4. CASE CreateLock(p)
  BY <1>4 DEF CreateLock
<1>5. CASE WriteLockInfo(p)
  <2>1. pid[p] \in Pid
    BY <1>5 DEF WriteLockInfo, PidsDistinct, Running, Acquiring
  <2>2. QED
    BY <1>5, <2>1 DEF WriteLockInfo
<1>6. CASE WriteFails(p) \/ DropLock(p) \/ Killed(p)
  BY <1>6 DEF WriteFails, DropLock, Killed
<1>7. QED
  BY <1>1, <1>2, <1>r, <1>3, <1>4, <1>5, <1>6 DEF AcquireLock

(* Once started, a process keeps its PID until it exits, and no step but   *)
(* Start makes a process run.                                              *)
LEMMA LockStepKeepsPids ==
  ASSUME LockTypeOK, NEW p \in Proc, AcquireLock(p) \/ DropLock(p) \/ Killed(p)
  PROVE  others' = others /\ \A q \in Running' : q \in Running /\ pid'[q] = pid[q]
<1> USE DEF LockTypeOK, Enter, Exit, Environment, Running, Acquiring, Holders, AcquireStep
<1>1. CASE RefuseKeePassXC(p) \/ PassKeePassXC(p) \/ ReadLock(p) \/ ReadLockFails(p) \/ RefuseLive(p)
  BY <1>1 DEF RefuseKeePassXC, PassKeePassXC, ReadLock, ReadLockFails, Decide, RefuseLive
<1>2. CASE Reclaim(p) \/ FindFree(p) \/ RemoveStale(p) \/ RemoveStaleFails(p)
  BY <1>2 DEF Reclaim, FindFree, RemoveStale, RemoveStaleFails
<1>3. CASE CreateLock(p) \/ WriteLockInfo(p)
  BY <1>3 DEF CreateLock, WriteLockInfo
<1>4. CASE WriteFails(p) \/ DropLock(p) \/ Killed(p)
  BY <1>4 DEF WriteFails, DropLock, Killed
<1>5. QED
  BY <1>1, <1>2, <1>3, <1>4 DEF AcquireLock

(* PIDs of live processes stay distinct: a new process gets an unused one. *)
LEMMA LockStepKeepsDistinct ==
  ASSUME LockTypeOK, PidsDistinct, NEW p \in Proc,
         Start(p) \/ AcquireLock(p) \/ DropLock(p) \/ Killed(p)
  PROVE  PidsDistinct'
<1>1. CASE Start(p)
  <2>1. PICK n \in Pid \ Alive : pid' = [pid EXCEPT ![p] = n]
    BY <1>1 DEF Start
  <2>2. others' = others /\ Running' = Running \cup {p} /\ p \notin Running
    BY <1>1 DEF Start, Enter, Environment, Running, Acquiring, Holders, AcquireStep, LockTypeOK
  <2>3. pid'[p] = n /\ \A q \in Running : pid'[q] = pid[q] /\ pid[q] # n
    BY <2>1, <2>2 DEF LockTypeOK, Alive, Running, Acquiring, Holders
  <2>4. n \notin others
    BY <2>1 DEF Alive
  <2>5. QED
    BY <2>1, <2>2, <2>3, <2>4 DEF PidsDistinct
<1>2. CASE AcquireLock(p) \/ DropLock(p) \/ Killed(p)
  BY <1>2, LockStepKeepsPids DEF PidsDistinct
<1>3. QED
  BY <1>1, <1>2

(* The argument, operation by operation, while nothing has disturbed it. *)
LEMMA LockStepKeepsOne ==
  ASSUME LockTypeOK, PidsDistinct, OneDecides, disturbed = {}, disturbed' = {}, NEW p \in Proc,
         Start(p) \/ AcquireLock(p) \/ DropLock(p) \/ Killed(p)
  PROVE  OneDecides'
<1> USE DEF LockTypeOK, Enter, Exit, Environment, OneDecides, Deciding, Engaged,
        Holders, AcquireStep
<1>1. CASE Start(p)
  BY <1>1 DEF Start
<1>2. CASE RefuseKeePassXC(p) \/ PassKeePassXC(p)
  BY <1>2 DEF RefuseKeePassXC, PassKeePassXC
<1>3. CASE ReadLock(p)
  \* Nobody else decides, and the file names the holder.
  BY <1>3 DEF ReadLock, Decide
<1>r. CASE ReadLockFails(p)
  \* Nobody holds and nobody decides.
  BY <1>r DEF ReadLockFails, Decide
<1>4. CASE RefuseLive(p)
  BY <1>4 DEF RefuseLive
<1>5. CASE Reclaim(p)
  \* A holder would have been read, is alive, and has a PID that is not ours.
  <2>1. Holders = {}
    <3> SUFFICES ASSUME NEW q \in Holders PROVE FALSE
      OBVIOUS
    <3>1. seen[p] = pid[q] /\ q # p /\ pid[q] \in Alive
      BY <1>5 DEF Reclaim, Alive, Running
    <3>2. pid[q] # pid[p]
      BY <1>5, <3>1 DEF Reclaim, PidsDistinct, Running, Acquiring
    <3>3. QED
      BY <1>5, <3>1, <3>2 DEF Reclaim
  <2>2. QED
    BY <1>5, <2>1 DEF Reclaim
<1>6. CASE FindFree(p)
  \* A holder's PID would have been read.
  <2>1. Holders = {}
    <3> SUFFICES ASSUME NEW q \in Holders PROVE FALSE
      OBVIOUS
    <3>1. seen[p] = pid[q] /\ pid[q] \in Pid
      BY <1>6 DEF FindFree, PidsDistinct, Running, Acquiring
    <3>2. QED
      BY <1>6, <3>1, LockAssumption DEF FindFree
  <2>2. QED
    BY <1>6, <2>1 DEF FindFree
<1>7. CASE RemoveStale(p) \/ RemoveStaleFails(p)
  BY <1>7 DEF RemoveStale, RemoveStaleFails
<1>8. CASE CreateLock(p)
  BY <1>8 DEF CreateLock
<1>9. CASE WriteLockInfo(p)
  BY <1>9 DEF WriteLockInfo
<1>10. CASE WriteFails(p)
  BY <1>10 DEF WriteFails
<1>11. CASE DropLock(p)
  \* p was the only holder: any other would have the same PID in the file.
  <2>1. \A q \in Holders : q = p
    BY <1>11 DEF DropLock, PidsDistinct, Running
  <2>2. \A q \in Proc : stage[q] # "write"
    BY <1>11 DEF DropLock
  <2>3. QED
    BY <1>11, <2>1, <2>2 DEF DropLock
<1>12. CASE Killed(p)
  BY <1>12 DEF Killed
<1>13. QED
  BY <1>1, <1>2, <1>3, <1>r, <1>4, <1>5, <1>6, <1>7, <1>8, <1>9, <1>10, <1>11, <1>12 DEF AcquireLock

(* What a disturbance has caught are all that decide or hold, until the    *)
(* last of them exits, and then nobody does.                               *)
LEMMA LockStepKeepsDisturbed ==
  ASSUME LockTypeOK, disturbed = Engaged, disturbed # {}, NEW p \in Proc,
         Start(p) \/ AcquireLock(p) \/ DropLock(p) \/ Killed(p)
  PROVE  disturbed' = Engaged'
<1> USE DEF LockTypeOK, Enter, Engaged, Deciding, Holders, AcquireStep
<1>1. CASE RefuseKeePassXC(p) \/ RefuseLive(p) \/ WriteFails(p) \/ DropLock(p) \/ Killed(p)
  <2>1. Exit(p)
    BY <1>1 DEF RefuseKeePassXC, RefuseLive, WriteFails, DropLock, Killed
  <2>2. QED
    BY <2>1 DEF Exit
<1>2. CASE ReadLock(p) \/ ReadLockFails(p)
  BY <1>2 DEF ReadLock, ReadLockFails, Decide
<1>3. CASE Start(p) \/ PassKeePassXC(p)
  BY <1>3 DEF Start, PassKeePassXC
<1>4. CASE Reclaim(p) \/ FindFree(p) \/ RemoveStale(p) \/ RemoveStaleFails(p)
  BY <1>4 DEF Reclaim, FindFree, RemoveStale, RemoveStaleFails
<1>5. CASE CreateLock(p) \/ WriteLockInfo(p)
  BY <1>5 DEF CreateLock, WriteLockInfo
<1>6. QED
  BY <1>1, <1>2, <1>3, <1>4, <1>5 DEF AcquireLock

(* A disturbance begins with all that decide or hold, and ends with none.  *)
LEMMA LockStepKeepsDisturbance ==
  ASSUME LockTypeOK, PidsDistinct, Disturbance, NEW p \in Proc,
         Start(p) \/ AcquireLock(p) \/ DropLock(p) \/ Killed(p)
  PROVE  Disturbance'
<1>1. CASE disturbed = {} /\ disturbed' = {}
  BY <1>1, LockStepKeepsOne DEF Disturbance
<1>2. CASE disturbed = {} /\ disturbed' # {}
  <2>1. Decide(p, Deciding # {}) \/ Decide(p, Engaged # {})
    BY <1>2 DEF AcquireLock, Start, RefuseKeePassXC, PassKeePassXC, ReadLock, ReadLockFails, RefuseLive, Reclaim,
         FindFree, RemoveStale, RemoveStaleFails, CreateLock, WriteLockInfo, WriteFails, DropLock, Killed, Exit
  <2>2. disturbed' = Engaged \cup {p} /\ stage' = [stage EXCEPT ![p] = "judge"]
    BY <1>2, <2>1 DEF Decide, Enter
  <2>3. disturbed' = Engaged'
    BY <2>2 DEF Engaged, Deciding, Holders, AcquireStep, LockTypeOK
  <2>4. QED
    BY <1>2, <2>3 DEF Disturbance
<1>3. CASE disturbed # {} /\ disturbed' = {}
  <2>1. Engaged' = {}
    BY <1>3, LockStepKeepsDisturbed DEF Disturbance
  <2>2. Deciding' = {} /\ Holders' = {}
    BY <2>1 DEF Engaged
  <2>3. \A q \in Proc : stage'[q] \notin {"judge", "remove", "create", "write"}
    BY <2>2 DEF Deciding, AcquireStep
  <2>4. QED
    BY <1>3, <2>2, <2>3 DEF Disturbance, OneDecides
<1>4. CASE disturbed # {} /\ disturbed' # {}
  BY <1>4, LockStepKeepsDisturbed DEF Disturbance
<1>5. QED
  BY <1>1, <1>2, <1>3, <1>4

(* Other programs and KeePassXC touch neither the lock nor a process. *)
LEMMA WorldKeepsLock == LockIInv /\ World => LockIInv'
<1> SUFFICES ASSUME LockIInv, World PROVE LockIInv'
  OBVIOUS
<1> USE DEF LockIInv, LockTypeOK, PidsDistinct, Disturbance, OneDecides, Deciding, Engaged, Running, Acquiring,
        Holders, LockFault
<1>1. CASE OtherStarts
  BY <1>1 DEF OtherStarts, Alive
<1>2. CASE OtherExits
  BY <1>2 DEF OtherExits
<1>3. CASE KeePassXCOpens \/ KeePassXCCloses \/ KeePassXCCrashes
  BY <1>3 DEF KeePassXCOpens, KeePassXCCloses, KeePassXCCrashes
<1>4. QED
  BY <1>1, <1>2, <1>3 DEF World

(* What the one acquisition in flight knows is kept by every step.         *)
THEOREM LockInvariantHolds == LockSpec => []LockIInv
<1>1. LockIInv /\ [LockNext]_lockVars => LockIInv'
  <2> SUFFICES ASSUME LockIInv, [LockNext]_lockVars PROVE LockIInv'
    OBVIOUS
  <2>1. ASSUME NEW p \in Proc, Start(p) \/ AcquireLock(p) \/ DropLock(p) \/ Killed(p)
        PROVE  LockIInv'
    BY <2>1, LockStepKeepsType, LockStepKeepsDistinct, LockStepKeepsDisturbance DEF LockIInv
  <2>2. CASE World
    BY <2>2, WorldKeepsLock
  <2>3. CASE UNCHANGED lockVars
    BY <2>3 DEF lockVars, LockIInv, LockTypeOK, PidsDistinct, Disturbance, OneDecides, Deciding, Engaged, Running,
       Acquiring, Holders
  <2>4. QED
    BY <2>1, <2>2, <2>3 DEF LockNext
<1>2. QED
  BY InitLockIInv, <1>1, PTL DEF LockSpec

-------------------------------------------------------------------------------

(* Every variable of the lock keeps its type. *)
THEOREM LockTypesHold == LockSpec => []LockTypeOK
<1>1. LockIInv => LockTypeOK
  BY DEF LockIInv
<1>2. QED
  BY <1>1, LockInvariantHolds, PTL

(* The lock excludes and names its holder, whatever crashes, fails or      *)
(* reuses a PID, but for the commands caught in an overlap or a read that  *)
(* failed beside a holder, and until the last of them is done.             *)
THEOREM ExclusionUnlessDisturbed == LockSpec => []ExclusiveUnlessDisturbed
<1>1. LockIInv => ExclusiveUnlessDisturbed
  <2> SUFFICES ASSUME LockIInv, disturbed = {}, NEW p \in Holders PROVE Holders = {p} /\ lockFile = pid[p]
    BY DEF ExclusiveUnlessDisturbed
  <2>1. \A q \in Holders : q \in Running /\ lockFile = pid[q]
    BY DEF LockIInv, Disturbance, OneDecides, Running
  <2>2. QED
    BY <2>1 DEF LockIInv, PidsDistinct
<1>2. QED
  BY <1>1, LockInvariantHolds, PTL
===============================================================================
