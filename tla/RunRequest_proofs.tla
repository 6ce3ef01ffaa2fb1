--------------------------- MODULE RunRequest_proofs ---------------------------
(***************************************************************************)
(* TLAPS proofs about RunRequest: whatever executables, Keychain items and *)
(* exit codes there are, a run executes the bytes that were approved,      *)
(* takes the secret only from the vault that a proven item names, and      *)
(* reports one verdict.                                                    *)
(***************************************************************************)
EXTENDS RunRequest, TLAPS

Spawning == {"choose", "secret", "spawn", "wait"}
Verified == {"enforce"} \cup Spawning
Opened == {"resolve", "hash"} \cup Verified

\* What is known of the Keychain item on the way to the password, and after.
\* An item that was found bound stays so as long as it exists.
KeychainInv ==
  /\ pc \in {"binding", "read", "open"} \cup Opened => asked.signed
  /\ pc \in {"binding", "read"} => ref \in Ref
  /\ (pc = "read" /\ items[ref] # Nothing) => items[ref].bound
  /\ pc \in {"open"} \cup Opened => cred \in Item /\ cred.bound
  /\ pc \in Opened => cred.blesses

\* What is known of the executable: once hashed it matches the pin, and a
\* pinned one nobody can replace is still what was hashed.
PinInv ==
  /\ pc \in {"hash"} \cup Verified => asked.known
  /\ pc \in Verified => hashed # Missing /\ asked.pin \in {Unpinned, hashed}
  /\ (pc \in Verified /\ ~mutable) => exe = hashed
  /\ (pc \in Spawning /\ asked.pin # Unpinned) => ~mutable
  /\ pc \in {"secret", "spawn", "wait"} => ~asked.dryRun
  /\ pc \notin {"spawn", "wait", "emit", "done"} => ~secret

\* The verdict belongs to the step, and nothing is reported before the end.
VerdictInv ==
  /\ pc # "done" => log = <<>> /\ envelope = Nothing /\ exit = 0
  /\ pc \notin {"emit", "done"} => status = "success" /\ result = Nothing
  /\ (pc = "emit" /\ result # Nothing) => status = Verdict(result)
  /\ (pc = "emit" /\ result = Nothing /\ status = "success") => asked.dryRun
  /\ pc # "config" => (pc = "done" \/ asked.config = "named")

IInv ==
  /\ TypeOK /\ KeychainInv /\ PinInv /\ VerdictInv
  /\ PinnedBytesRan /\ SecretOnlyToSpawn /\ ReportsAgree

\* The steps by what they are for; each lemma below is about one group.
Unlock == LoadConfig \/ FindItem \/ CheckBinding \/ ReadItem \/ OpenVault \/ UnlockFails
Work ==
  \/ Resolve \/ ReadHash \/ Enforce \/ ChoosePath \/ TakeSecret
  \/ Spawn \/ SpawnFails \/ WaitFails \/ ChildEnds
  \/ ReplaceExe \/ \E r \in Ref : ChangeItem(r)
Emit == EmitSpawned \/ EmitDryRun \/ EmitError

-------------------------------------------------------------------------------

LEMMA Statuses ==
  /\ Status = {"success", "unknownEntry", "unknownCommand", "malformedPolicy", "exeHashMismatch",
               "unlockFailed", "redactionFailure", "timeout", "configError", "internal"}
  /\ \A s \in Status : ExitCodes[s] \in 0..255 /\ (ExitCodes[s] = 0 <=> s = "success")
BY DEF Status, ExitCodes

LEMMA InitIInv == Init => IInv
<1> SUFFICES ASSUME Init PROVE IInv
  OBVIOUS
<1> USE DEF Init
<1>1. TypeOK
  <2>1. "success" \in Status /\ <<>> \in Seq(Status)
    BY Statuses
  <2>2. pc \in {"config", "open", "resolve", "hash", "enforce", "choose", "secret", "spawn", "wait",
               "emit", "done"} \cup Unlocking
    OBVIOUS
  <2>3. exit \in 0..255
    OBVIOUS
  <2>4. QED
    BY <2>1, <2>2, <2>3 DEF TypeOK
<1>2. KeychainInv /\ PinInv /\ VerdictInv
  BY DEF KeychainInv, PinInv, VerdictInv, Opened, Verified, Spawning
<1>3. PinnedBytesRan /\ SecretOnlyToSpawn /\ ReportsAgree
  BY DEF PinnedBytesRan, SecretOnlyToSpawn, ReportsAgree
<1>4. QED
  BY <1>1, <1>2, <1>3 DEF IInv

(* Most steps only decide where the request goes on and with which status. *)
LEMMA DecisionKeepsTypes ==
  ASSUME TypeOK, UNCHANGED <<World, hashed, secret, ran, result, log, envelope>>,
         pc' \in {"find", "resolve", "hash", "emit", "done"},
         status' \in Status, exit' \in 0..255
  PROVE  TypeOK'
BY DEF TypeOK, World, Unlocked, Unlocking

(* The item behind a reference that was checked keeps its partition list.  *)
LEMMA Unlocks ==
  ASSUME IInv, Unlock
  PROVE  TypeOK' /\ KeychainInv'
<1> USE DEF IInv, TypeOK, KeychainInv, Opened, Verified, Spawning, Unlocking, Item, Nothing,
            Pass, Reject, World, Unlocked, Report
<1> USE Statuses
<1>1. CASE LoadConfig
  <2>1. "configError" \in Status /\ ExitCodes["configError"] \in 0..255
    BY Statuses
  <2>2. TypeOK'
    <3>1. TypeOK /\ status \in Status /\ exit \in 0..255
      OBVIOUS
    <3> HIDE DEF TypeOK
    <3>2. pc' \in {"find", "done"} /\ status' \in Status /\ exit' \in 0..255
      BY <1>1, <2>1, <3>1 DEF LoadConfig
    <3>3. QED
      BY <1>1, <3>1, <3>2, DecisionKeepsTypes DEF LoadConfig
  <2>3. KeychainInv'
    BY <1>1 DEF LoadConfig
  <2>4. QED
    BY <2>2, <2>3
<1>2. CASE FindItem
  BY <1>2 DEF FindItem, Present
<1>3. CASE CheckBinding
  BY <1>3 DEF CheckBinding, Present
<1>4. CASE ReadItem
  BY <1>4 DEF ReadItem, Present
<1>5. CASE OpenVault
  <2>1. TypeOK'
    <3>1. TypeOK /\ status \in Status /\ exit \in 0..255
      OBVIOUS
    <3> HIDE DEF TypeOK
    <3>2. pc' \in {"resolve", "emit"} /\ status' \in Status /\ exit' = exit
      BY <1>5, <3>1 DEF OpenVault
    <3>3. QED
      BY <1>5, <3>1, <3>2, DecisionKeepsTypes DEF OpenVault
  <2>2. KeychainInv'
    BY <1>5 DEF OpenVault
  <2>3. QED
    BY <2>1, <2>2
<1>6. CASE UnlockFails
  BY <1>6 DEF UnlockFails
<1>7. QED
  BY <1>1, <1>2, <1>3, <1>4, <1>5, <1>6 DEF Unlock

(* Later steps leave the Keychain alone. *)
LEMMA Requests ==
  ASSUME IInv, Work
  PROVE  TypeOK' /\ KeychainInv'
<1> USE DEF IInv, TypeOK, KeychainInv, Opened, Verified, Spawning, Unlocking, Item, Nothing,
            Pass, Reject, World, Unlocked, Report
<1> USE Statuses
<1>1. CASE Resolve
  <2>1. TypeOK'
    <3>1. /\ asked.entry \in {"single", "unknownEntry", "malformedPolicy"}
          /\ status \in Status /\ exit \in 0..255
      BY DEF Request
    <3> HIDE DEF TypeOK
    <3>2. pc' \in {"hash", "emit"} /\ status' \in Status /\ exit' \in 0..255
      BY <1>1, <3>1 DEF Resolve
    <3>3. TypeOK
      BY DEF IInv
    <3>4. QED
      BY <1>1, <3>2, <3>3, DecisionKeepsTypes DEF Resolve
  <2>2. KeychainInv'
    BY <1>1 DEF Resolve
  <2>3. QED
    BY <2>1, <2>2
<1>2. CASE ReadHash
  BY <1>2 DEF ReadHash
<1>3. CASE Enforce
  BY <1>3 DEF Enforce
<1>4. CASE ChoosePath
  BY <1>4 DEF ChoosePath, Choice
<1>5. CASE TakeSecret
  <2>1. CASE asked.stored
    <3>1. /\ secret' = TRUE /\ pc' = "spawn"
          /\ UNCHANGED <<status, World, hashed, ran, result, Report>>
      BY <1>5, <2>1 DEF TakeSecret
    <3>2. pc = "secret"
      BY <1>5 DEF TakeSecret
    <3>3. QED
      BY <3>1, <3>2
  <2>2. CASE ~asked.stored
    BY <1>5, <2>2 DEF TakeSecret
  <2>3. QED
    BY <2>1, <2>2
<1>6. CASE Spawn
  BY <1>6 DEF Spawn
<1>7. CASE SpawnFails
  BY <1>7 DEF SpawnFails
<1>8. CASE WaitFails
  BY <1>8 DEF WaitFails
<1>9. CASE ChildEnds
  BY <1>9 DEF ChildEnds, Verdict
<1>10. CASE ReplaceExe
  BY <1>10 DEF ReplaceExe
<1>11. CASE \E r \in Ref : ChangeItem(r)
  BY <1>11 DEF ChangeItem
<1>12. QED
  BY <1>1, <1>2, <1>3, <1>4, <1>5, <1>6, <1>7, <1>8, <1>9, <1>10, <1>11 DEF Work

(* Only ReplaceExe changes the file, and from the check of the pin to the  *)
(* spawn PinInv says that it cannot change a pinned one.                   *)
LEMMA KeepsPin ==
  ASSUME IInv, Unlock \/ Work \/ Emit
  PROVE  PinInv' /\ PinnedBytesRan' /\ SecretOnlyToSpawn'
<1> USE DEF IInv, PinInv, PinnedBytesRan, SecretOnlyToSpawn, KeychainInv, Opened, Verified,
            Spawning, Pass, Reject, Reported, World, Unlocked, Report
<1>1. CASE LoadConfig
  BY <1>1 DEF LoadConfig
<1>2. CASE FindItem
  BY <1>2 DEF FindItem
<1>3. CASE CheckBinding
  BY <1>3 DEF CheckBinding
<1>4. CASE ReadItem
  BY <1>4 DEF ReadItem
<1>5. CASE OpenVault
  BY <1>5 DEF OpenVault
<1>6. CASE UnlockFails
  BY <1>6 DEF UnlockFails
<1>7. CASE Resolve
  BY <1>7 DEF Resolve, TypeOK, Request
<1>8. CASE ReadHash
  BY <1>8 DEF ReadHash, TypeOK, Request
<1>9. CASE Enforce
  BY <1>9 DEF Enforce, TypeOK, Request
<1>10. CASE ChoosePath
  BY <1>10 DEF ChoosePath, Choice
<1>11. CASE TakeSecret
  BY <1>11 DEF TakeSecret
<1>12. CASE Spawn
  BY <1>12 DEF Spawn
<1>13. CASE SpawnFails
  BY <1>13 DEF SpawnFails
<1>14. CASE WaitFails
  BY <1>14 DEF WaitFails
<1>15. CASE ChildEnds
  BY <1>15 DEF ChildEnds, TypeOK
<1>16. CASE EmitSpawned
  BY <1>16 DEF EmitSpawned
<1>17. CASE EmitDryRun
  BY <1>17 DEF EmitDryRun
<1>18. CASE EmitError
  BY <1>18 DEF EmitError
<1>19. CASE ReplaceExe
  BY <1>19 DEF ReplaceExe
<1>20. CASE \E r \in Ref : ChangeItem(r)
  BY <1>20 DEF ChangeItem
<1>21. QED
  BY <1>1, <1>2, <1>3, <1>4, <1>5, <1>6, <1>7, <1>8, <1>9, <1>10, <1>11, <1>12, <1>13,
     <1>14, <1>15, <1>16, <1>17, <1>18, <1>19, <1>20 DEF Unlock, Work, Emit

(* Nothing is reported before the end. *)
LEMMA KeepsVerdict ==
  ASSUME IInv, Unlock \/ Work
  PROVE  VerdictInv' /\ ReportsAgree'
<1> USE DEF IInv, TypeOK, VerdictInv, ReportsAgree, Pass, Reject, World, Unlocked, Report,
            Unlocking, Item, Result, Nothing
<1>1. CASE LoadConfig
  BY <1>1 DEF LoadConfig
<1>2. CASE FindItem
  BY <1>2 DEF FindItem
<1>3. CASE CheckBinding
  BY <1>3 DEF CheckBinding
<1>4. CASE ReadItem
  BY <1>4 DEF ReadItem
<1>5. CASE OpenVault
  BY <1>5 DEF OpenVault
<1>6. CASE UnlockFails
  BY <1>6 DEF UnlockFails
<1>7. CASE Resolve
  BY <1>7 DEF Resolve, Request
<1>8. CASE ReadHash
  BY <1>8 DEF ReadHash
<1>9. CASE Enforce
  BY <1>9 DEF Enforce
<1>10. CASE ChoosePath
  BY <1>10 DEF ChoosePath, Choice, PinInv
<1>11. CASE TakeSecret
  BY <1>11 DEF TakeSecret
<1>12. CASE Spawn
  BY <1>12 DEF Spawn
<1>13. CASE SpawnFails
  BY <1>13 DEF SpawnFails
<1>14. CASE WaitFails
  BY <1>14 DEF WaitFails
<1>15. CASE ChildEnds
  BY <1>15 DEF ChildEnds, Verdict
<1>16. CASE ReplaceExe
  BY <1>16 DEF ReplaceExe
<1>17. CASE \E r \in Ref : ChangeItem(r)
  BY <1>17 DEF ChangeItem
<1>18. QED
  BY <1>1, <1>2, <1>3, <1>4, <1>5, <1>6, <1>7, <1>8, <1>9, <1>10, <1>11, <1>12, <1>13,
     <1>14, <1>15, <1>16, <1>17 DEF Unlock, Work

(* The reports agree because each is made of the one status. *)
LEMMA Emits ==
  ASSUME IInv, Emit
  PROVE  TypeOK' /\ KeychainInv' /\ VerdictInv' /\ ReportsAgree'
<1>1. pc = "emit" /\ pc' = "done" /\ log' = Append(log, status)
  BY DEF Emit, EmitSpawned, EmitDryRun, EmitError, Reported
<1>2. UNCHANGED <<World, hashed, secret, ran, result, status>>
  BY DEF Emit, EmitSpawned, EmitDryRun, EmitError
<1>3. status \in Status /\ asked \in Request /\ asked.config = "named" /\ log' = <<status>>
  BY <1>1 DEF IInv, TypeOK, VerdictInv
<1>4. KeychainInv' /\ VerdictInv'
  BY <1>1, <1>2, <1>3 DEF KeychainInv, VerdictInv, Opened, Verified, Spawning, World, Unlocked
<1>5. result # Nothing => result \in Result /\ status = Verdict(result)
  BY <1>1 DEF IInv, TypeOK, VerdictInv
<1>6. PICK code : /\ envelope' = IF asked.json
                    THEN [kind |-> "json", status |-> status, code |-> code] ELSE Nothing
                  /\ result # Nothing => code = result.code
  BY <1>1 DEF Emit, EmitSpawned, EmitDryRun, EmitError, Reported
<1>7. exit' = IF result # Nothing /\ status = "success" THEN result.code ELSE ExitCodes[status]
  BY <1>1 DEF Emit, EmitSpawned, EmitDryRun, EmitError
<1>8. TypeOK'
  <2>1. exit' \in 0..255
    <3>1. ExitCodes[status] \in 0..255
      BY <1>3, Statuses
    <3>2. result # Nothing => result.code \in 0..255
      BY <1>5, RequestAssumption DEF Result
    <3>3. QED
      BY <1>7, <3>1, <3>2
  <2>2. log' \in Seq(Status)
    BY <1>3
  <2>3. envelope' = Nothing \/ envelope'.status \in Status
    <3>1. CASE asked.json
      <4>1. envelope' = [kind |-> "json", status |-> status, code |-> code]
        BY <1>6, <3>1
      <4>2. QED
        BY <1>3, <4>1
    <3>2. CASE ~asked.json
      BY <1>6, <3>2
    <3>3. QED
      BY <3>1, <3>2
  <2>4. pc' \in {"emit", "done"}
    BY <1>1
  <2>5. QED
    BY <1>2, <2>1, <2>2, <2>3, <2>4 DEF IInv, TypeOK, World, Unlocked
<1>9. ReportsAgree'
  <2>1. UNCHANGED <<asked, result, status>>
    BY <1>2 DEF World
  <2>2. asked.json => envelope'.status = status /\ envelope'.code = code
    <3>1. asked.json => envelope' = [kind |-> "json", status |-> status, code |-> code]
      BY <1>6
    <3>2. QED
      BY <3>1
  <2>3. (result # Nothing /\ result.leaked) => exit' = ExitCodes["redactionFailure"]
    BY <1>5, <1>7 DEF Verdict
  <2>4. CASE result # Nothing /\ ~result.timedOut /\ ~result.leaked
    <3>1. status = "success" /\ exit' = result.code
      BY <1>5, <1>7, <2>4 DEF Verdict
    <3>2. asked.json => envelope'.status = "success" /\ envelope'.code = exit'
      BY <1>6, <2>2, <2>4, <3>1
    <3>3. QED
      BY <1>3, <2>1, <2>2, <2>3, <2>4, <3>1, <3>2 DEF ReportsAgree
  <2>5. CASE ~(result # Nothing /\ ~result.timedOut /\ ~result.leaked)
    <3>1. exit' = ExitCodes[status]
      BY <1>5, <1>7, <2>5 DEF Verdict, Result
    <3>2. exit' = 0 => status = "success"
      BY <1>3, <3>1, Statuses
    <3>3. result # Nothing => status # "success"
      BY <1>5, <2>5 DEF Verdict
    <3>4. exit' = 0 => asked.dryRun
      BY <1>1, <3>2, <3>3 DEF IInv, VerdictInv
    <3>5. QED
      BY <1>3, <2>1, <2>2, <2>3, <2>5, <3>1, <3>4 DEF ReportsAgree
  <2>6. QED
    BY <2>4, <2>5
<1>10. QED
  BY <1>4, <1>8, <1>9

-------------------------------------------------------------------------------

LEMMA StepIInv == IInv /\ [Next]_vars => IInv'
<1> SUFFICES ASSUME IInv, [Next]_vars PROVE IInv'
  OBVIOUS
<1>1. CASE Emit
  BY <1>1, Emits, KeepsPin DEF IInv
<1>2. CASE Unlock
  BY <1>2, Unlocks, KeepsPin, KeepsVerdict DEF IInv
<1>3. CASE Work
  BY <1>3, Requests, KeepsPin, KeepsVerdict DEF IInv
<1>4. CASE UNCHANGED vars
  BY <1>4 DEF vars, IInv, TypeOK, KeychainInv, PinInv, VerdictInv, PinnedBytesRan,
              SecretOnlyToSpawn, ReportsAgree
<1>5. QED
  BY <1>1, <1>2, <1>3, <1>4 DEF Next, Unlock, Work, Emit

LEMMA Inductive == Spec => []IInv
BY InitIInv, StepIInv, PTL DEF Spec

(* The type invariant of a request (src/src/cmd_run.rs, run).              *)
THEOREM TypeCorrect == Spec => []TypeOK
<1>1. IInv => TypeOK
  BY DEF IInv
<1>2. QED
  BY <1>1, Inductive, PTL

(* verify_exe: a pinned command executes the bytes its pin approved, for   *)
(* every executable and every moment at which it may be replaced.          *)
THEOREM PinnedBytesAlwaysRan == Spec => []PinnedBytesRan
<1>1. IInv => PinnedBytesRan
  BY DEF IInv
<1>2. QED
  BY <1>1, Inductive, PTL

(* get, open_with_credential and spawn_and_wait: the secret comes from the *)
(* vault that a proven Keychain item names, and only for a run that will   *)
(* spawn, whatever other programs do to the Keychain meanwhile.            *)
THEOREM SecretIsGuarded == Spec => []SecretOnlyToSpawn
<1>1. IInv => SecretOnlyToSpawn
  BY DEF IInv
<1>2. QED
  BY <1>1, Inductive, PTL

(* emit_spawned, emit_dry_run and emit_error: one record, and log,         *)
(* envelope and exit code tell the same, for every exit code of a child.   *)
THEOREM OneVerdict == Spec => []ReportsAgree
<1>1. IInv => ReportsAgree
  BY DEF IInv
<1>2. QED
  BY <1>1, Inductive, PTL
===============================================================================
