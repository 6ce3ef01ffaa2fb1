---------------------------- MODULE Commands_proofs ----------------------------
(***************************************************************************)
(* TLAPS proofs about Commands: its types, that a gated handler runs only  *)
(* after an approval, that rotation drops only the oldest file and that no *)
(* file outgrows its bound, for any number of processes that come and go,  *)
(* any log, and replies, timeouts, crashes and failures in any order.      *)
(***************************************************************************)
EXTENDS Commands, FiniteSetTheorems, TLAPS

\* A record that is being made room for is still to be written, the rename at
\* hand has a slot to go to, and a handle that is in a slot has a file there.
LogInv ==
  /\ \A c \in Command : pc[c] \in Rotating \cup {"append"} => left[c] > 0
  /\ \A c \in Command : pc[c] = "shift" => shift[c] \in 1..(Keep - 1)
  /\ \A c \in Command : handle[c] \in 0..Keep => log[handle[c]] # NoFile

\* A timeout leads to the exit and past the handler, the handler is entered
\* once, and what leads to it in a gated command is an approval.
GateInv ==
  \A c \in Command :
    /\ timedOut[c] => pc[c] = "exit" /\ ~acted[c]
    /\ acted[c] => pc[c] \notin {"idle", "gate", "wait", "handle"}
    /\ Gated(c) /\ (pc[c] = "handle" \/ acted[c]) => answer[c] = "yes"

\* Rotations that overlap know it, and one that does not has cleared the slot
\* it renames to.
RotationInv ==
  /\ \A c, d \in Command : c # d /\ {pc[c], pc[d]} \subseteq Rotating => clash[c]
  /\ \A c \in Command : ~clash[c] =>
       /\ pc[c] = "shift" => log[shift[c] + 1] = NoFile
       /\ pc[c] = "retire" => log[1] = NoFile

IInv == TypeOK /\ LogInv /\ GateInv

-------------------------------------------------------------------------------

LEMMA InitIInv == Init => IInv
<1> SUFFICES ASSUME Init PROVE IInv
  OBVIOUS
<1> USE LogAssumption DEF Init
<1>1. log \in [0..Keep -> Nat \cup {NoFile}]
  OBVIOUS
<1>2. TypeOK
  BY <1>1 DEF TypeOK, LogTypeOK, Kind, Step, Rotating
<1>3. LogInv /\ GateInv
  BY DEF LogInv, GateInv, Gated, Rotating
<1>4. QED
  BY <1>2, <1>3 DEF IInv

(* The steps of the log's files keep them, and every handle in a slot, whole. *)
LEMMA FilesStayBacked ==
  ASSUME LogTypeOK, \A d \in Command : handle[d] \in 0..Keep => log[handle[d]] # NoFile,
         NEW c \in Command, NEW n \in 0..(Keep - 1),
         RemoveOldest \/ Shift(n)
  PROVE  /\ LogTypeOK'
         /\ \A d \in Command : handle'[d] \in 0..Keep => log'[handle'[d]] # NoFile
<1> USE LogAssumption DEF LogTypeOK, logVars
<1>1. CASE RemoveOldest
  BY <1>1 DEF RemoveOldest
<1>2. CASE log[n] = NoFile
  BY <1>1, <1>2 DEF Shift
<1>3. CASE Shift(n) /\ log[n] # NoFile
  <2>1. /\ log' = [log EXCEPT ![n] = NoFile, ![n + 1] = log[n]]
        /\ handle' = [d \in Command |->
             IF handle[d] = n THEN n + 1 ELSE IF handle[d] = n + 1 THEN Gone ELSE handle[d]]
        /\ written' = written
    BY <1>3 DEF Shift
  <2>2. n \in 0..Keep /\ n + 1 \in 0..Keep /\ Gone \notin 0..Keep
    OBVIOUS
  <2>3. log' \in [0..Keep -> Nat \cup {NoFile}] /\ log'[n + 1] # NoFile
    BY <1>3, <2>1, <2>2
  <2>4. handle' \in [Command -> (0..Keep) \cup {Closed, Gone}]
    BY <2>1, <2>2
  <2>5. ASSUME NEW d \in Command, handle'[d] \in 0..Keep PROVE log'[handle'[d]] # NoFile
    BY <2>1, <2>2, <2>3, <2>5
  <2>6. QED
    BY <2>1, <2>3, <2>4, <2>5
<1>4. QED
  BY <1>1, <1>2, <1>3

(* Starting and ending a process. *)
LEMMA LifeKeepsIInv ==
  ASSUME IInv, NEW c \in Command, Start(c) \/ StartUnlogged(c) \/ Exit(c) \/ Crash(c)
  PROVE  IInv'
<1> USE LogAssumption DEF IInv, TypeOK, LogTypeOK, LogInv, GateInv, Rotating, Goto, gateVars, Kind,
        Step, Gated
<1>1. CASE Start(c)
  <2> USE <1>1 DEF Start, Begin, Open, OpenActive
  <2>1. LogTypeOK' /\ (\A d \in Command : handle'[d] \in 0..Keep => log'[handle'[d]] # NoFile)
    <3>1. 0 \in 0..Keep
      OBVIOUS
    <3>2. log' \in [0..Keep -> Nat \cup {NoFile}] /\ log'[0] # NoFile
      BY <3>1
    <3>3. written' \in [Command -> Nat] /\ handle' \in [Command -> (0..Keep) \cup {Closed, Gone}]
      BY <3>1
    <3>4. QED
      BY <3>1, <3>2, <3>3
  <2>2. pc' = [pc EXCEPT ![c] = IF kind'[c] = "change" THEN "gate" ELSE "handle"]
    OBVIOUS
  <2>3. TypeOK'
    BY <2>1, <2>2
  <2>4. LogInv'
    BY <2>1, <2>2
  <2>5. GateInv'
    BY <2>2
  <2>6. QED
    BY <2>3, <2>4, <2>5
<1>2. CASE StartUnlogged(c)
  <2>1. pc' = [pc EXCEPT ![c] = IF kind'[c] = "change" THEN "gate" ELSE "handle"]
    BY <1>2 DEF StartUnlogged, Begin
  <2>2. QED
    BY <1>2, <2>1 DEF StartUnlogged, Begin, Fault, logVars
<1>3. CASE Exit(c) \/ Crash(c)
  <2>1. End(c) /\ faults' \in Nat
    BY <1>3 DEF Exit, Crash, Fault
  <2>2. TypeOK'
    BY <2>1 DEF End, Close
  <2>3. LogInv'
    BY <2>1 DEF End, Close
  <2>4. GateInv'
    BY <2>1 DEF End, Close
  <2>5. QED
    BY <2>2, <2>3, <2>4
<1>4. QED
  BY <1>1, <1>2, <1>3

(* The gate, and the handler behind it. *)
LEMMA GateKeepsIInv ==
  ASSUME IInv, NEW c \in Command,
         RefuseSession(c) \/ Ask(c) \/ Reply(c) \/ Signal(c) \/ Answered(c) \/ TimesOut(c) \/ Handle(c)
  PROVE  IInv'
<1> USE LogAssumption DEF IInv, TypeOK, LogTypeOK, LogInv, GateInv, Rotating, Goto, gateVars, Kind,
        Step, Gated, LogQuiet, GateQuiet, logVars
<1>1. CASE RefuseSession(c) \/ Ask(c)
  <2>1. PICK next \in {"exit", "wait"} : pc' = [pc EXCEPT ![c] = next]
    BY <1>1 DEF RefuseSession, Ask
  <2>2. pc[c] = "gate" /\ LogQuiet /\ GateQuiet /\ UNCHANGED faults
    BY <1>1 DEF RefuseSession, Ask
  <2>3. TypeOK'
    BY <2>1, <2>2
  <2>4. LogInv'
    BY <2>1, <2>2
  <2>5. GateInv'
    BY <2>1, <2>2
  <2>6. QED
    BY <2>3, <2>4, <2>5
<1>2. CASE Reply(c)
  BY <1>2 DEF Reply
<1>3. CASE Signal(c)
  BY <1>3 DEF Signal
<1>4. CASE Answered(c)
  BY <1>4 DEF Answered
<1>5. CASE TimesOut(c)
  BY <1>5 DEF TimesOut
<1>6. CASE Handle(c)
  <2>1. Records(c) \subseteq Nat
    BY CommandsAssumption DEF Records
  <2>2. QED
    BY <1>6, <2>1 DEF Handle
<1>7. QED
  BY <1>1, <1>2, <1>3, <1>4, <1>5, <1>6

(* Writing and rotating change the log, and leave the gate alone. *)
LEMMA LogStepsKeepGate ==
  ASSUME GateInv, TypeOK, NEW c \in Command, GateQuiet,
         pc[c] \in Rotating \cup {"write", "append"},
         \E next \in Rotating \cup {"write", "append"} : pc' = [pc EXCEPT ![c] = next]
  PROVE  GateInv'
BY DEF GateInv, TypeOK, GateQuiet, gateVars, Rotating, Gated

LEMMA WritesKeepIInv ==
  ASSUME IInv, NEW c \in Command, Write(c) \/ Rotate(c) \/ WriteRotated(c) \/ WriteFails(c)
  PROVE  IInv'
<1> USE LogAssumption DEF IInv, TypeOK, LogTypeOK, Rotating, Goto, Step, GateQuiet, gateVars
<1>1. GateInv'
  <2>1. pc[c] \in Rotating \cup {"write", "append"} /\ GateQuiet
    BY DEF Write, Rotate, WriteRotated, WriteFails
  <2>2. \E next \in Rotating \cup {"write", "append"} : pc' = [pc EXCEPT ![c] = next]
    <3>1. CASE Write(c)
      <4>1. pc' = [pc EXCEPT ![c] = "write"]
        BY <3>1 DEF Write
      <4>2. QED
        BY <4>1
    <3>2. CASE Rotate(c) \/ WriteRotated(c) \/ WriteFails(c)
      BY <3>2 DEF Rotate, WriteRotated, WriteFails
    <3>3. QED
      BY <3>1, <3>2
  <2>3. QED
    BY <2>1, <2>2, LogStepsKeepGate
<1>2. left[c] > 0
  BY DEF Write, Rotate, WriteRotated, WriteFails, Done, LogInv
<1>3. CASE Write(c) \/ WriteRotated(c)
  <2>1. /\ AppendRecord(c) /\ left' = [left EXCEPT ![c] = @ - 1] /\ UNCHANGED <<shift, clash, faults>>
        /\ pc' = [pc EXCEPT ![c] = "write"] /\ GateQuiet
    BY <1>3 DEF Write, WriteRotated
  <2>2. /\ log' \in [0..Keep -> Nat \cup {NoFile}]
        /\ \A n \in 0..Keep : log[n] # NoFile => log'[n] # NoFile
    <3>1. log' = [n \in 0..Keep |-> IF n = handle[c] THEN log[n] + 1 ELSE log[n]]
      BY <2>1 DEF AppendRecord
    <3>2. ASSUME NEW n \in 0..Keep, n = handle[c] PROVE log[n] \in Nat
      BY <3>2 DEF LogInv
    <3>3. ASSUME NEW n \in 0..Keep
          PROVE  log'[n] \in Nat \cup {NoFile} /\ (log[n] # NoFile => log'[n] # NoFile)
      BY <3>1, <3>2
    <3>4. QED
      BY <3>1, <3>3
  <2>3. written' \in [Command -> Nat] /\ handle' = handle
    BY <2>1 DEF AppendRecord
  <2>4. TypeOK'
    <3>1. LogTypeOK'
      BY <2>2, <2>3
    <3>2. left' \in [Command -> Nat] /\ pc' \in [Command -> Step]
      BY <1>2, <2>1
    <3>3. kind' = kind /\ answer' = answer /\ signal' = signal /\ timedOut' = timedOut /\ acted' = acted
      BY <2>1
    <3>4. QED
      BY <2>1, <3>1, <3>2, <3>3
  <2>5. LogInv'
    BY <1>2, <2>1, <2>2, <2>3 DEF LogInv
  <2>6. QED
    BY <1>1, <2>4, <2>5
<1>4. CASE Rotate(c)
  <2>1. TypeOK'
    BY <1>4 DEF Rotate, logVars, Others
  <2>2. LogInv'
    BY <1>2, <1>4 DEF Rotate, logVars, LogInv
  <2>3. QED
    BY <1>1, <2>1, <2>2
<1>5. CASE WriteFails(c)
  <2>1. TypeOK'
    BY <1>2, <1>5 DEF WriteFails, Fault, logVars
  <2>2. LogInv'
    BY <1>2, <1>5 DEF WriteFails, logVars, LogInv
  <2>3. QED
    BY <1>1, <2>1, <2>2
<1>6. QED
  BY <1>3, <1>4, <1>5

LEMMA RotationKeepsIInv ==
  ASSUME IInv, NEW c \in Command,
         Remove(c) \/ ShiftFile(c) \/ Retire(c) \/ RotationFails(c) \/ Reopen(c)
  PROVE  IInv'
<1> USE LogAssumption DEF IInv, TypeOK, Rotating, Step, GateQuiet, gateVars
<1> DEFINE Backed == \A d \in Command : handle[d] \in 0..Keep => log[handle[d]] # NoFile
<1>1. /\ pc[c] \in Rotating /\ GateQuiet /\ left' = left /\ faults' \in Nat
      /\ clash' \in [Command -> BOOLEAN]
  <2>1. CASE Remove(c) \/ ShiftFile(c) \/ Retire(c) \/ Reopen(c)
    BY <2>1 DEF Remove, ShiftFile, Retire, Reopen
  <2>2. CASE RotationFails(c)
    BY <2>2 DEF RotationFails, Fault
  <2>3. QED
    BY <2>1, <2>2
<1>2. LogTypeOK' /\ Backed'
  <2>1. Backed
    BY DEF LogInv
  <2>2. CASE Remove(c) \/ Retire(c)
    BY <2>1, <2>2, FilesStayBacked DEF Remove, Retire
  <2>3. CASE ShiftFile(c)
    <3>1. shift[c] \in 0..(Keep - 1)
      BY <2>3 DEF ShiftFile, LogInv
    <3>2. QED
      BY <2>1, <2>3, <3>1, FilesStayBacked DEF ShiftFile
  <2>4. CASE RotationFails(c)
    BY <2>1, <2>4 DEF RotationFails, LogTypeOK, logVars
  <2>5. CASE Reopen(c)
    <3>1. OpenActive(c, 0) /\ 0 \in 0..Keep
      BY <2>5 DEF Reopen
    <3>2. log' \in [0..Keep -> Nat \cup {NoFile}] /\ log'[0] # NoFile
      BY <3>1 DEF OpenActive, LogTypeOK
    <3>3. \A n \in 0..Keep : log[n] # NoFile => log'[n] # NoFile
      BY <3>1 DEF OpenActive, LogTypeOK
    <3>4. QED
      BY <2>1, <3>1, <3>2, <3>3 DEF OpenActive, LogTypeOK
  <2>6. QED
    BY <2>2, <2>3, <2>4, <2>5
<1>3. /\ \E next \in Rotating \cup {"append"} : pc' = [pc EXCEPT ![c] = next]
      /\ shift' \in [Command -> 0..Keep]
      /\ \A d \in Command : pc'[d] = "shift" => shift'[d] \in 1..(Keep - 1)
  <2> USE DEF LogInv, Goto
  <2>1. CASE Remove(c) \/ (RotationFails(c) /\ EndRemove(c))
    BY <2>1 DEF Remove, EndRemove
  <2>2. CASE pc[c] = "shift" /\ EndShift(c)
    <3>1. shift[c] \in 1..(Keep - 1)
      BY <2>2
    <3>2. CASE shift[c] > 1
      <4>1. pc' = [pc EXCEPT ![c] = "shift"] /\ shift' = [shift EXCEPT ![c] = @ - 1]
        BY <2>2, <3>2 DEF EndShift
      <4>2. QED
        BY <3>1, <3>2, <4>1
    <3>3. CASE ~(shift[c] > 1)
      BY <2>2, <3>3 DEF EndShift
    <3>4. QED
      BY <3>2, <3>3
  <2>3. CASE pc[c] \in {"retire", "reopen"} /\ shift' = shift
               /\ (Goto(c, "reopen") \/ Goto(c, "append"))
    BY <2>3
  <2>4. QED
    BY <2>1, <2>2, <2>3 DEF ShiftFile, Retire, RotationFails, Reopen, Remove
<1>4. GateInv'
  BY <1>1, <1>3, LogStepsKeepGate
<1>5. LogInv'
  BY <1>1, <1>2, <1>3 DEF LogInv
<1>6. TypeOK'
  <2>1. pc' \in [Command -> Step]
    BY <1>3
  <2>2. kind' = kind /\ answer' = answer /\ signal' = signal /\ timedOut' = timedOut /\ acted' = acted
    BY <1>1
  <2>3. QED
    BY <1>1, <1>2, <1>3, <2>1, <2>2
<1>7. QED
  BY <1>4, <1>5, <1>6

(* The gate and the log: what every process knows of its own step.         *)
THEOREM InvariantHolds == Spec => []IInv
<1>1. IInv /\ [Next]_vars => IInv'
  <2> SUFFICES ASSUME IInv, [Next]_vars PROVE IInv'
    OBVIOUS
  <2>1. ASSUME NEW c \in Command,
               Own(c) \/ Handle(c) \/ Start(c) \/ StartUnlogged(c) \/ Crash(c) \/ Reply(c) \/ Signal(c)
        PROVE  IInv'
    BY <2>1, LifeKeepsIInv, GateKeepsIInv, WritesKeepIInv, RotationKeepsIInv DEF Own
  <2>2. CASE UNCHANGED vars
    BY <2>2 DEF vars, logVars, gateVars, IInv, TypeOK, LogTypeOK, LogInv, GateInv, Gated
  <2>3. QED
    BY <2>1, <2>2 DEF Next
<1>2. QED
  BY InitIInv, <1>1, PTL DEF Spec

-------------------------------------------------------------------------------

(* Every variable of the processes, the gate and the log keeps its type.   *)
THEOREM TypeCorrect == Spec => []TypeOK
<1>1. IInv => TypeOK
  BY DEF IInv
<1>2. QED
  BY <1>1, InvariantHolds, PTL

(* A handler that changes anything (commands.rs, dispatch) is entered only *)
(* after an approval of its own command that came before the deadline.     *)
THEOREM GatedByApproval == Spec => []ActsOnlyWithApproval
<1>1. IInv => ActsOnlyWithApproval
  BY DEF IInv, GateInv, ActsOnlyWithApproval
<1>2. QED
  BY <1>1, InvariantHolds, PTL

-------------------------------------------------------------------------------
(* The slots of the log.                                                   *)

(* An append leaves an empty slot empty, and opening one fills the first.  *)
LEMMA EmptySlotsStay ==
  ASSUME IInv, NEW c \in Command, NEW n \in 1..Keep, log[n] = NoFile,
         AppendRecord(c) \/ (\E count \in Nat : OpenActive(c, count)) \/ UNCHANGED log
  PROVE  log'[n] = NoFile
<1> USE LogAssumption DEF IInv, TypeOK, LogTypeOK, LogInv
<1>1. CASE AppendRecord(c)
  <2>1. n # handle[c]
    OBVIOUS
  <2>2. QED
    BY <1>1, <2>1 DEF AppendRecord
<1>2. CASE \E count \in Nat : OpenActive(c, count)
  BY <1>2 DEF OpenActive
<1>3. QED
  BY <1>1, <1>2

LEMMA InitRotationInv == Init => RotationInv
BY DEF Init, RotationInv, Rotating

(* Steps of a process that does not rotate after it. *)
LEMMA OutsideRotation ==
  ASSUME IInv, RotationInv, NEW c \in Command,
         \/ Start(c) \/ StartUnlogged(c) \/ Exit(c) \/ Crash(c)
         \/ RefuseSession(c) \/ Ask(c) \/ Answered(c) \/ TimesOut(c) \/ Handle(c)
         \/ Write(c) \/ WriteRotated(c) \/ WriteFails(c) \/ Reopen(c)
  PROVE  RotationInv'
<1> USE LogAssumption DEF Goto, Rotating
<1>1. /\ pc' = [pc EXCEPT ![c] = pc'[c]] /\ pc'[c] \notin Rotating
      /\ \A d \in Command \ {c} : shift'[d] = shift[d] /\ clash'[d] = clash[d]
  <2> USE DEF IInv, TypeOK
  <2>1. CASE Start(c) \/ StartUnlogged(c)
    <3>1. pc' = [pc EXCEPT ![c] = IF kind'[c] = "change" THEN "gate" ELSE "handle"]
      BY <2>1 DEF Start, StartUnlogged, Begin, Gated
    <3>2. QED
      BY <2>1, <3>1 DEF Start, StartUnlogged, Begin
  <2>2. CASE Exit(c) \/ Crash(c)
    BY <2>2 DEF Exit, Crash, End
  <2>3. CASE RefuseSession(c) \/ Ask(c) \/ Answered(c) \/ TimesOut(c) \/ Handle(c)
    BY <2>3 DEF RefuseSession, Ask, Answered, TimesOut, Handle, LogQuiet
  <2>4. CASE Write(c)
    BY <2>4 DEF Write
  <2>5. CASE WriteRotated(c) \/ WriteFails(c) \/ Reopen(c)
    BY <2>5 DEF WriteRotated, WriteFails, Reopen
  <2>6. QED
    BY <2>1, <2>2, <2>3, <2>4, <2>5
<1>2. \A n \in 1..Keep : log[n] = NoFile => log'[n] = NoFile
  <2>1. AppendRecord(c) \/ (\E count \in Nat : OpenActive(c, count)) \/ UNCHANGED log
    <3>1. CASE Start(c)
      <4>1. (IF log[0] = NoFile THEN 0 ELSE log[0]) \in Nat
        BY DEF IInv, TypeOK, LogTypeOK
      <4>2. QED
        BY <3>1, <4>1 DEF Start, Open
    <3>2. CASE Reopen(c)
      BY <3>2 DEF Reopen
    <3>3. CASE ~Start(c) /\ ~Reopen(c)
      BY <3>3 DEF StartUnlogged, Exit, Crash, End, Close, RefuseSession, Ask, Answered, TimesOut,
           Handle, Write, WriteRotated, WriteFails, LogQuiet, logVars
    <3>4. QED
      BY <3>1, <3>2, <3>3
  <2>2. QED
    BY <2>1, EmptySlotsStay
<1>3. QED
  BY <1>1, <1>2 DEF RotationInv, IInv, TypeOK, LogInv

(* The calls of a rotation. *)
LEMMA InsideRotation ==
  ASSUME IInv, RotationInv, NEW c \in Command,
         Rotate(c) \/ Remove(c) \/ ShiftFile(c) \/ Retire(c) \/ RotationFails(c)
  PROVE  RotationInv'
<1> USE LogAssumption DEF Goto, Rotating, IInv, TypeOK, LogTypeOK, LogInv
<1>1. CASE Rotate(c)
  <2>1. \A d \in Command : clash'[d] = (IF d = c THEN Others(c) # {} ELSE clash[d] \/ d \in Others(c))
    BY <1>1 DEF Rotate
  <2>2. pc' = [pc EXCEPT ![c] = "remove"] /\ UNCHANGED <<log, shift>>
    BY <1>1 DEF Rotate, logVars
  <2>3. QED
    BY <2>1, <2>2 DEF RotationInv, Others
<1>2. CASE Remove(c) \/ ShiftFile(c) \/ Retire(c)
  <2>1. pc[c] \in Rotating /\ clash' = clash
    BY <1>2 DEF Remove, ShiftFile, Retire
  <2>2. \E next \in Rotating : pc' = [pc EXCEPT ![c] = next]
    <3>1. CASE Remove(c)
      BY <3>1 DEF Remove, EndRemove
    <3>2. CASE ShiftFile(c)
      <4>1. pc' = [pc EXCEPT ![c] = IF shift[c] > 1 THEN "shift" ELSE "retire"]
        BY <3>2 DEF ShiftFile, EndShift
      <4>2. QED
        BY <4>1
    <3>3. CASE Retire(c)
      BY <3>3 DEF Retire
    <3>4. QED
      BY <1>2, <3>1, <3>2, <3>3
  <2>3. /\ pc'[c] = "shift" => log'[shift'[c] + 1] = NoFile
        /\ pc'[c] = "retire" => log'[1] = NoFile
    <3>1. CASE Remove(c)
      BY <3>1 DEF Remove, EndRemove, RemoveOldest
    <3>2. CASE ShiftFile(c)
      <4>1. shift[c] \in 1..(Keep - 1) /\ Shift(shift[c])
        BY <3>2 DEF ShiftFile
      <4>2. log'[shift[c]] = NoFile
        BY <4>1 DEF Shift, logVars
      <4>3. CASE shift[c] > 1
        <5>1. shift'[c] = shift[c] - 1 /\ pc'[c] = "shift"
          BY <3>2, <4>3 DEF ShiftFile, EndShift
        <5>2. QED
          BY <4>1, <4>2, <5>1
      <4>4. CASE ~(shift[c] > 1)
        BY <3>2, <4>1, <4>2, <4>4 DEF ShiftFile, EndShift
      <4>5. QED
        BY <4>3, <4>4
    <3>3. CASE Retire(c)
      BY <3>3 DEF Retire
    <3>4. QED
      BY <1>2, <3>1, <3>2, <3>3
  <2>4. QED
    BY <2>1, <2>2, <2>3 DEF RotationInv
<1>3. CASE RotationFails(c)
  <2>1. pc[c] \in Rotating /\ clash' = [clash EXCEPT ![c] = TRUE] /\ UNCHANGED log
    BY <1>3 DEF RotationFails, logVars
  <2>2. /\ \A d \in Command \ {c} : pc'[d] = pc[d] /\ shift'[d] = shift[d]
        /\ \E next \in Rotating : pc' = [pc EXCEPT ![c] = next]
    <3>1. CASE EndRemove(c)
      BY <3>1 DEF EndRemove
    <3>2. CASE EndShift(c) /\ pc[c] = "shift"
      <4>1. pc' = [pc EXCEPT ![c] = IF shift[c] > 1 THEN "shift" ELSE "retire"]
        BY <3>2 DEF EndShift
      <4>2. \A d \in Command \ {c} : shift'[d] = shift[d]
        BY <3>2 DEF EndShift
      <4>3. QED
        BY <4>1, <4>2
    <3>3. CASE Goto(c, "reopen") /\ UNCHANGED shift
      BY <3>3
    <3>4. QED
      BY <1>3, <3>1, <3>2, <3>3 DEF RotationFails
  <2>3. QED
    BY <2>1, <2>2 DEF RotationInv
<1>4. QED
  BY <1>1, <1>2, <1>3

(* Rotations that overlap know it; one that does not has its slots to itself. *)
THEOREM RotationHolds == Spec => []RotationInv
<1>1. IInv /\ RotationInv /\ [Next]_vars => RotationInv'
  <2> SUFFICES ASSUME IInv, RotationInv, [Next]_vars PROVE RotationInv'
    OBVIOUS
  <2>1. ASSUME NEW c \in Command, Reply(c) \/ Signal(c) PROVE RotationInv'
    BY <2>1 DEF Reply, Signal, LogQuiet, logVars, RotationInv
  <2>2. ASSUME NEW c \in Command,
               Own(c) \/ Handle(c) \/ Start(c) \/ StartUnlogged(c) \/ Crash(c)
        PROVE  RotationInv'
    BY <2>2, OutsideRotation, InsideRotation DEF Own
  <2>3. CASE UNCHANGED vars
    BY <2>3 DEF vars, logVars, RotationInv
  <2>4. QED
    BY <2>1, <2>2, <2>3 DEF Next
<1>2. QED
  BY InitRotationInv, InvariantHolds, <1>1, PTL DEF Spec

LEMMA SubsetIsNotLarger ==
  ASSUME NEW S, NEW T \in SUBSET S, IsFiniteSet(S)
  PROVE  ~(Cardinality(S) < Cardinality(T))
<1>1. Cardinality(T) <= Cardinality(S) /\ IsFiniteSet(T)
  BY FS_Subset
<1>2. Cardinality(T) \in Nat /\ Cardinality(S) \in Nat
  BY <1>1, FS_CardinalityType
<1>3. QED
  BY <1>1, <1>2

LEMMA FilesAreFinite == IsFiniteSet(Files) /\ IsFiniteSet(Files')
<1>1. IsFiniteSet(0..Keep)
  BY LogAssumption, FS_Interval
<1>2. Files \in SUBSET (0..Keep) /\ Files' \in SUBSET (0..Keep)
  BY DEF Files
<1>3. QED
  BY <1>1, <1>2, FS_Subset

(* Rotation of the audit log (logging.rs) drops the oldest generation and  *)
(* no other, unless it meets another rotation or one of its calls fails.   *)
THEOREM OnlyTheOldestIsDropped == Spec => OldestGoesFirst
<1> DEFINE Drops == Cardinality(Files') < Cardinality(Files) =>
             \/ Files \ Files' = {Keep} /\ \A n \in Files' : log'[n] = log[n]
             \/ \E c \in Command : clash[c] /\ pc[c] \in {"shift", "retire"}
<1>1. IInv /\ RotationInv /\ [Next]_vars => [Drops]_vars
  <2> SUFFICES ASSUME IInv, RotationInv, Next PROVE Drops
    OBVIOUS
  <2> USE LogAssumption DEF IInv, TypeOK, LogTypeOK, LogInv
  <2>1. PICK c \in Command :
          Own(c) \/ Handle(c) \/ Start(c) \/ StartUnlogged(c) \/ Crash(c) \/ Reply(c) \/ Signal(c)
    BY DEF Next
  <2>2. CASE Files \subseteq Files'
    BY <2>2, FilesAreFinite, SubsetIsNotLarger
  <2>3. CASE Remove(c)
    <3>1. log' = [log EXCEPT ![Keep] = NoFile]
      BY <2>3 DEF Remove, RemoveOldest
    <3>2. Files' = Files \ {Keep} /\ \A n \in Files' : log'[n] = log[n]
      BY <3>1 DEF Files
    <3>3. CASE Keep \in Files
      BY <3>2, <3>3
    <3>4. CASE Keep \notin Files
      BY <2>2, <3>2, <3>4
    <3>5. QED
      BY <3>3, <3>4
  <2>4. CASE ShiftFile(c) \/ Retire(c)
    <3>1. pc[c] \in {"shift", "retire"}
      BY <2>4 DEF ShiftFile, Retire
    <3>2. CASE ~clash[c]
      <4>1. PICK n \in 0..(Keep - 1) : Shift(n) /\ log[n + 1] = NoFile
        <5>1. CASE ShiftFile(c)
          <6>1. shift[c] \in 1..(Keep - 1) /\ Shift(shift[c]) /\ log[shift[c] + 1] = NoFile
            BY <3>2, <5>1 DEF ShiftFile, RotationInv
          <6>2. QED
            BY <6>1
        <5>2. CASE Retire(c)
          BY <3>2, <5>2 DEF Retire, RotationInv
        <5>3. QED
          BY <2>4, <5>1, <5>2
      <4>2. CASE log[n] = NoFile
        BY <2>2, <4>1, <4>2 DEF Shift, logVars, Files
      <4>3. CASE log[n] # NoFile
        <5>1. log' = [log EXCEPT ![n] = NoFile, ![n + 1] = log[n]]
          BY <4>1, <4>3 DEF Shift
        <5>2. Files' = (Files \ {n}) \cup {n + 1} /\ n \in Files /\ n + 1 \notin Files
          BY <4>1, <4>3, <5>1 DEF Files
        <5>3. IsFiniteSet(Files \ {n}) /\ Cardinality(Files \ {n}) = Cardinality(Files) - 1
          BY <5>2, FilesAreFinite, FS_RemoveElement
        <5>4. Cardinality(Files') = Cardinality(Files \ {n}) + 1
          BY <5>2, <5>3, FS_AddElement
        <5>5. Cardinality(Files) \in Nat
          BY FilesAreFinite, FS_CardinalityType
        <5>6. QED
          BY <5>3, <5>4, <5>5
      <4>4. QED
        BY <4>2, <4>3
    <3>3. QED
      BY <3>1, <3>2
  <2>5. CASE ~Remove(c) /\ ~ShiftFile(c) /\ ~Retire(c)
    <3>1. \/ AppendRecord(c) \/ UNCHANGED log \/ \E count \in Nat : OpenActive(c, count)
      <4>1. CASE Start(c)
        <5>1. (IF log[0] = NoFile THEN 0 ELSE log[0]) \in Nat
          OBVIOUS
        <5>2. QED
          BY <4>1, <5>1 DEF Start, Open
      <4>2. CASE Reopen(c)
        BY <4>2 DEF Reopen
      <4>3. CASE ~Start(c) /\ ~Reopen(c)
        BY <2>1, <2>5, <4>3 DEF Own, StartUnlogged, Exit, Crash, End, Close, RefuseSession, Ask,
             Reply, Signal, Answered, TimesOut, Handle, Write, Rotate, WriteRotated, WriteFails,
             RotationFails, GateQuiet, LogQuiet, logVars
      <4>4. QED
        BY <4>1, <4>2, <4>3
    <3>2. Files \subseteq Files'
      <4>1. CASE AppendRecord(c)
        <5>1. ASSUME NEW n \in 0..Keep, log[n] # NoFile PROVE log'[n] # NoFile
          BY <4>1, <5>1 DEF AppendRecord
        <5>2. QED
          BY <5>1 DEF Files
      <4>2. CASE UNCHANGED log
        BY <4>2 DEF Files
      <4>3. CASE \E count \in Nat : OpenActive(c, count)
        BY <4>3 DEF OpenActive, Files
      <4>4. QED
        BY <3>1, <4>1, <4>2, <4>3
    <3>3. QED
      BY <2>2, <3>2
  <2>6. QED
    BY <2>3, <2>4, <2>5
<1>2. QED
  BY InvariantHolds, RotationHolds, <1>1, PTL DEF Spec, OldestGoesFirst

-------------------------------------------------------------------------------
(* The size of the log's files.  A file with a process that has read its   *)
(* length, or made it, is bounded by that process's count, and any file by *)
(* its limit, each plus what the other processes that have it open and     *)
(* have not seen it full may still write: a set of tokens, one a record.   *)

(* What the open files may still be given. *)
Owed(n) == [c \in Command |->
  IF handle[c] = n /\ pc[c] \notin Rotating
  THEN IF Full(c) THEN 0
       ELSE IF pc[c] \in {"gate", "wait", "handle"} THEN MaxWarnings
       ELSE IF pc[c] \in {"write", "append"} THEN left[c] ELSE 0
  ELSE IF n = 0 /\ pc[c] = "reopen" THEN left[c] ELSE 0]

Owing == [Command -> 0..MaxWarnings]
Tokens(p, S) == {t \in S \X (1..MaxWarnings) : t[2] <= p[t[1]]}
Weight(p, S) == Cardinality(Tokens(p, S))
Budget == (Cardinality(Command) - 1 + faults) * MaxWarnings

(* A process that has read or made the file, and counts what it adds. *)
Leads(z, n) == handle[z] = n /\ pc[z] \notin Rotating /\ written[z] <= Cap

SlotFits(n) ==
  \/ log[n] + Weight(Owed(n), Command) <= Cap + Budget
  \/ \E z \in Command : Leads(z, n) /\ log[n] + Weight(Owed(n), Command \ {z}) <= written[z] + Budget

CountInv == \A c \in Command :
  /\ left[c] <= MaxWarnings
  /\ pc[c] = "idle" => handle[c] = Closed
  /\ pc[c] \in Rotating => Full(c)
  /\ pc[c] = "append" => written[c] = 0

SizeInv == CountInv /\ \A n \in 0..Keep : log[n] # NoFile => SlotFits(n)

LEMMA TokensAreFinite ==
  ASSUME NEW S \in SUBSET Command, NEW p
  PROVE  /\ IsFiniteSet(Tokens(p, S)) /\ Weight(p, S) \in Nat
         /\ Cardinality(S) \in Nat /\ Weight(p, S) <= Cardinality(S) * MaxWarnings
<1>1. IsFiniteSet(S) /\ Cardinality(S) \in Nat
  BY CommandsAssumption, FS_Subset, FS_CardinalityType
<1>2. MaxWarnings \in Nat /\ IsFiniteSet(1..MaxWarnings) /\ Cardinality(1..MaxWarnings) = MaxWarnings
  <2>1. MaxWarnings \in Nat /\ MaxWarnings > 0
    BY CommandsAssumption
  <2>2. QED
    BY <2>1, FS_Interval
<1>3. IsFiniteSet(S \X (1..MaxWarnings)) /\ Cardinality(S \X (1..MaxWarnings)) = Cardinality(S) * MaxWarnings
  BY <1>1, <1>2, FS_Product
<1>4. Tokens(p, S) \in SUBSET (S \X (1..MaxWarnings))
  BY DEF Tokens
<1>5. IsFiniteSet(Tokens(p, S)) /\ Weight(p, S) <= Cardinality(S \X (1..MaxWarnings))
  BY <1>3, <1>4, FS_Subset DEF Weight
<1>6. QED
  BY <1>1, <1>3, <1>5, FS_CardinalityType DEF Weight

LEMMA LessIsOwed ==
  ASSUME NEW p \in Owing, NEW q \in Owing, NEW S \in SUBSET Command, NEW T \in SUBSET Command,
         \A c \in S : p[c] > 0 => c \in T /\ p[c] <= q[c]
  PROVE  Weight(p, S) <= Weight(q, T)
<1>1. Tokens(p, S) \subseteq Tokens(q, T)
  BY CommandsAssumption DEF Tokens, Owing
<1>2. QED
  BY <1>1, TokensAreFinite, FS_Subset DEF Weight

LEMMA OneIsPaid ==
  ASSUME NEW p \in Owing, NEW q \in Owing, NEW S \in SUBSET Command, NEW z \in S, p[z] < q[z],
         \A c \in S \ {z} : p[c] <= q[c]
  PROVE  Weight(p, S) + 1 <= Weight(q, S)
<1> DEFINE t == <<z, q[z]>>
<1>1. q[z] \in 1..MaxWarnings
  BY CommandsAssumption DEF Owing
<1>2. t \in Tokens(q, S)
  BY <1>1 DEF Tokens
<1>3. ASSUME NEW u \in Tokens(p, S) PROVE u \in Tokens(q, S) \ {t}
  <2>1. u[1] \in S /\ u[2] \in 1..MaxWarnings /\ u[2] <= p[u[1]] /\ u = <<u[1], u[2]>>
    BY DEF Tokens
  <2>2. p[u[1]] \in Nat /\ q[u[1]] \in Nat
    BY <2>1, CommandsAssumption DEF Owing
  <2>3. u[2] <= q[u[1]]
    BY <2>1, <2>2, <1>1
  <2>4. u # t
    BY <2>1, <2>2, <1>1
  <2>5. QED
    BY <2>1, <2>3, <2>4 DEF Tokens
<1>4. IsFiniteSet(Tokens(q, S) \ {t}) /\ Cardinality(Tokens(q, S) \ {t}) = Weight(q, S) - 1
  <2> HIDE DEF t
  <2>1. QED
    BY <1>2, TokensAreFinite, FS_RemoveElement DEF Weight
<1>5. Weight(p, S) <= Weight(q, S) - 1
  <2> HIDE DEF t
  <2>1. Tokens(p, S) \subseteq Tokens(q, S) \ {t}
    BY <1>3
  <2>2. QED
    BY <1>4, <2>1, FS_Subset DEF Weight
<1>6. QED
  BY <1>5, TokensAreFinite

LEMMA OneOwesMore ==
  ASSUME NEW p \in Owing, NEW S \in SUBSET Command, NEW z \in S
  PROVE  Weight(p, S) <= Weight(p, S \ {z}) + MaxWarnings
<1>1. Tokens(p, S) = Tokens(p, S \ {z}) \cup Tokens(p, {z})
  BY DEF Tokens
<1>2. /\ IsFiniteSet(Tokens(p, S \ {z})) /\ Weight(p, S \ {z}) \in Nat
      /\ IsFiniteSet(Tokens(p, {z})) /\ Weight(p, {z}) \in Nat
      /\ Weight(p, {z}) <= Cardinality({z}) * MaxWarnings
  BY TokensAreFinite
<1>3. Weight(p, S) = Weight(p, S \ {z}) + Weight(p, {z}) - Cardinality(Tokens(p, S \ {z}) \cap Tokens(p, {z}))
  BY <1>1, <1>2, FS_Union DEF Weight
<1>4. IsFiniteSet(Tokens(p, S \ {z}) \cap Tokens(p, {z}))
  BY <1>2, FS_Intersection
<1>5. Cardinality(Tokens(p, S \ {z}) \cap Tokens(p, {z})) \in Nat
  BY <1>4, FS_CardinalityType
<1>6. Cardinality({z}) = 1
  BY FS_Singleton
<1>7. QED
  BY <1>2, <1>3, <1>5, <1>6, CommandsAssumption

LEMMA BudgetGrows ==
  ASSUME TypeOK, faults' \in {faults, faults + 1}
  PROVE  /\ Budget \in Nat /\ Budget' \in Nat /\ Budget <= Budget'
         /\ (Cardinality(Command) - 1) * MaxWarnings <= Budget'
         /\ faults' = faults + 1 => Budget' = Budget + MaxWarnings
         /\ MaxWarnings \in Nat
<1> DEFINE N == Cardinality(Command)
<1>1. N \in Nat /\ N # 0
  BY CommandsAssumption, FS_CardinalityType, FS_EmptySet
<1>2. MaxWarnings \in Nat /\ faults \in Nat
  BY CommandsAssumption DEF TypeOK
<1>3. Budget = (N - 1) * MaxWarnings + faults * MaxWarnings
  <2> HIDE DEF N
  <2>1. \A a, b, m \in Nat : (a + b) * m = a * m + b * m
    OBVIOUS
  <2>2. N - 1 \in Nat
    BY <1>1
  <2>3. (N - 1 + faults) * MaxWarnings = (N - 1) * MaxWarnings + faults * MaxWarnings
    BY <2>1, <2>2, <1>2
  <2>4. QED
    BY <2>3 DEF Budget, N
<1>4. Budget' = (N - 1) * MaxWarnings + faults' * MaxWarnings
  <2> HIDE DEF N
  <2>1. \A a, b, m \in Nat : (a + b) * m = a * m + b * m
    OBVIOUS
  <2>2. N - 1 \in Nat /\ faults' \in Nat
    BY <1>1, <1>2
  <2>3. (N - 1 + faults') * MaxWarnings = (N - 1) * MaxWarnings + faults' * MaxWarnings
    BY <2>1, <2>2, <1>2
  <2>4. QED
    BY <2>3 DEF Budget, N
<1>5. /\ (faults + 1) * MaxWarnings = faults * MaxWarnings + MaxWarnings
      /\ faults * MaxWarnings \in Nat /\ (N - 1) * MaxWarnings \in Nat
  <2> HIDE DEF N
  <2>1. \A a, m \in Nat : (a + 1) * m = a * m + m /\ a * m \in Nat
    OBVIOUS
  <2>2. N - 1 \in Nat
    BY <1>1
  <2>3. QED
    BY <2>1, <2>2, <1>2
<1>6. QED
  <2> DEFINE A == (N - 1) * MaxWarnings
             F == faults * MaxWarnings
  <2>1. A \in Nat /\ F \in Nat /\ Budget = A + F
    BY <1>3, <1>5
  <2>2. ASSUME faults' = faults PROVE Budget' = A + F
    BY <1>4, <2>2
  <2>3. ASSUME faults' = faults + 1 PROVE Budget' = A + F + MaxWarnings
    <3>1. Budget' = A + (faults + 1) * MaxWarnings
      BY <1>4, <2>3
    <3>2. (faults + 1) * MaxWarnings = F + MaxWarnings
      BY <1>5
    <3> HIDE DEF A, F
    <3>3. QED
      BY <2>1, <3>1, <3>2, <1>2
  <2>4. (Cardinality(Command) - 1) * MaxWarnings = A
    OBVIOUS
  <2> HIDE DEF A, F
  <2>5. QED
    BY <2>1, <2>2, <2>3, <2>4, <1>2

LEMMA OwedIsOwing == TypeOK /\ CountInv => \A n \in 0..Keep : Owed(n) \in Owing
BY CommandsAssumption DEF TypeOK, CountInv, Owed, Owing

LEMMA OwedIsOwingNext == (TypeOK /\ CountInv)' => \A n \in 0..Keep : Owed(n)' \in Owing
<1>1. (TypeOK /\ CountInv => \A n \in 0..Keep : Owed(n) \in Owing)'
  BY OwedIsOwing, PTL
<1>2. QED
  BY <1>1 DEF Owing

(* A file is in slot m that was in slot n, nobody owes it more, and who leads *)
(* it goes on or owes it nothing.                                             *)
LEMMA FileSettles ==
  ASSUME TypeOK /\ CountInv, (TypeOK /\ CountInv)', faults' \in {faults, faults + 1},
         NEW n \in 0..Keep, NEW m \in 0..Keep,
         log[n] # NoFile, log'[m] = log[n], SlotFits(n),
         \A c \in Command : Owed(m)'[c] <= Owed(n)[c],
         \A z \in Command : Leads(z, n) =>
           (Leads(z, m)' /\ written'[z] = written[z]) \/ Owed(m)'[z] = 0
  PROVE  SlotFits(m)'
<1>1. Budget \in Nat /\ Budget' \in Nat /\ Budget <= Budget'
  BY BudgetGrows
<1>2. log[n] \in Nat /\ Cap \in Nat /\ written \in [Command -> Nat]
  BY LogAssumption DEF TypeOK, LogTypeOK
<1>3. Owed(n) \in Owing /\ Owed(m)' \in Owing
  BY OwedIsOwing, OwedIsOwingNext
<1>4. ASSUME NEW S \in SUBSET Command
      PROVE  /\ Weight(Owed(m)', S) <= Weight(Owed(n), S)
             /\ Weight(Owed(m)', S) \in Nat /\ Weight(Owed(n), S) \in Nat
  <2>1. Weight(Owed(m)', S) <= Weight(Owed(n), S)
    BY <1>3, LessIsOwed
  <2>2. QED
    BY <2>1, TokensAreFinite
<1>5. CASE log[n] + Weight(Owed(n), Command) <= Cap + Budget
  <2>1. log'[m] + Weight(Owed(m)', Command) <= Cap + Budget'
    BY <1>1, <1>2, <1>4, <1>5
  <2>2. QED
    BY <2>1 DEF SlotFits, Weight, Tokens
<1>6. ASSUME NEW z \in Command, Leads(z, n),
             log[n] + Weight(Owed(n), Command \ {z}) <= written[z] + Budget
      PROVE  SlotFits(m)'
  <2>1. log'[m] + Weight(Owed(m)', Command \ {z}) <= written[z] + Budget'
    BY <1>1, <1>2, <1>4, <1>6
  <2>2. CASE Leads(z, m)' /\ written'[z] = written[z]
    BY <2>1, <2>2 DEF SlotFits, Weight, Tokens
  <2>3. CASE Owed(m)'[z] = 0
    <3>1. Weight(Owed(m)', Command) <= Weight(Owed(m)', Command \ {z})
      BY <1>3, <2>3, LessIsOwed, CommandsAssumption DEF Owing
    <3>2. written[z] <= Cap
      BY <1>6 DEF Leads
    <3>3. Weight(Owed(m)', Command) \in Nat
      BY <1>4
    <3>4. log'[m] + Weight(Owed(m)', Command) <= Cap + Budget'
      BY <1>1, <1>2, <1>4, <2>1, <3>1, <3>2, <3>3
    <3>5. QED
      BY <3>4 DEF SlotFits, Weight, Tokens
  <2>4. QED
    BY <1>6, <2>2, <2>3
<1>7. QED
  BY <1>5, <1>6 DEF SlotFits

(* What a step of c leaves alone. *)
OthersStay(c) == \A d \in Command \ {c} :
  handle'[d] = handle[d] /\ pc'[d] = pc[d] /\ written'[d] = written[d] /\ left'[d] = left[d]

LEMMA OthersOwe ==
  ASSUME TypeOK, NEW c \in Command, OthersStay(c), NEW n \in 0..Keep, NEW d \in Command \ {c}
  PROVE  Owed(n)'[d] = Owed(n)[d] /\ Leads(d, n)' = Leads(d, n)
BY DEF OthersStay, Owed, Leads, Full

LEMMA FileStays ==
  ASSUME TypeOK /\ CountInv, (TypeOK /\ CountInv)', faults' \in {faults, faults + 1},
         NEW c \in Command, OthersStay(c), NEW n \in 0..Keep,
         log[n] # NoFile, log'[n] = log[n], SlotFits(n),
         Owed(n)'[c] <= Owed(n)[c],
         Leads(c, n) => (Leads(c, n)' /\ written'[c] = written[c]) \/ Owed(n)'[c] = 0
  PROVE  SlotFits(n)'
<1>1. \A d \in Command \ {c} : Owed(n)'[d] = Owed(n)[d] /\ (Leads(d, n)' <=> Leads(d, n))
  BY OthersOwe
<1>2. Owed(n) \in [Command -> Nat]
  BY OwedIsOwing, CommandsAssumption DEF Owing
<1>3. \A d \in Command : Owed(n)'[d] <= Owed(n)[d]
  BY <1>1, <1>2
<1>4. \A z \in Command : Leads(z, n) =>
         (Leads(z, n)' /\ written'[z] = written[z]) \/ Owed(n)'[z] = 0
  BY <1>1 DEF OthersStay
<1>5. QED
  BY <1>3, <1>4, FileSettles

(* Who opens a file with room in it, or makes one, leads it. *)
LEMMA OpenedFileFits ==
  ASSUME TypeOK, (TypeOK /\ CountInv)', faults' \in {faults, faults + 1},
         NEW c \in Command, Leads(c, 0)', written'[c] = log'[0]
  PROVE  SlotFits(0)'
<1>1. Budget' \in Nat /\ (Cardinality(Command) - 1) * MaxWarnings <= Budget'
  BY BudgetGrows
<1>2. Cardinality(Command \ {c}) = Cardinality(Command) - 1
  BY CommandsAssumption, FS_RemoveElement
<1>3. /\ Weight(Owed(0)', Command \ {c}) \in Nat
      /\ Weight(Owed(0)', Command \ {c}) <= Cardinality(Command \ {c}) * MaxWarnings
  BY TokensAreFinite
<1>4. (Cardinality(Command) - 1) * MaxWarnings \in Int
  <2>1. Cardinality(Command \ {c}) \in Nat
    BY TokensAreFinite
  <2>2. QED
    BY <1>2, <2>1, CommandsAssumption
<1>5. Weight(Owed(0)', Command \ {c}) <= Budget'
  BY <1>1, <1>2, <1>3, <1>4
<1>6. written'[c] \in Nat
  BY DEF TypeOK, LogTypeOK
<1>7. log'[0] + Weight(Owed(0)', Command \ {c}) <= written'[c] + Budget'
  BY <1>1, <1>3, <1>5, <1>6
<1>8. QED
  BY <1>7 DEF SlotFits, Weight, Tokens

(* A record is counted by its writer if it leads, and was owed if not. *)
LEMMA AppendFits ==
  ASSUME TypeOK /\ CountInv, (TypeOK /\ CountInv)', faults' = faults,
         NEW c \in Command, OthersStay(c), NEW n \in 0..Keep,
         log[n] # NoFile, log'[n] = log[n] + 1, SlotFits(n), ~Full(c),
         handle'[c] = n, written'[c] = written[c] + 1, pc'[c] \notin Rotating,
         Owed(n)'[c] < Owed(n)[c]
  PROVE  SlotFits(n)'
<1>1. /\ log[n] \in Nat /\ Cap \in Nat /\ written \in [Command -> Nat]
      /\ Budget \in Nat /\ Budget' = Budget
  BY LogAssumption, BudgetGrows DEF TypeOK, LogTypeOK, Budget
<1>2. Owed(n) \in Owing /\ Owed(n)' \in Owing
  BY OwedIsOwing, OwedIsOwingNext
<1>3. \A d \in Command \ {c} : Owed(n)'[d] = Owed(n)[d] /\ (Leads(d, n)' <=> Leads(d, n))
  BY OthersOwe
<1>4. \A d \in Command : Owed(n)'[d] <= Owed(n)[d]
  BY <1>2, <1>3, CommandsAssumption DEF Owing
<1>5. ASSUME NEW S \in SUBSET Command, c \in S
      PROVE  /\ Weight(Owed(n)', S) + 1 <= Weight(Owed(n), S)
             /\ Weight(Owed(n)', S) \in Nat /\ Weight(Owed(n), S) \in Nat
  <2>1. Weight(Owed(n)', S) + 1 <= Weight(Owed(n), S)
    BY <1>2, <1>4, <1>5, OneIsPaid
  <2>2. QED
    BY <2>1, TokensAreFinite
<1>6. CASE log[n] + Weight(Owed(n), Command) <= Cap + Budget
  <2>1. log'[n] + Weight(Owed(n)', Command) <= Cap + Budget'
    BY <1>1, <1>5, <1>6
  <2>2. QED
    BY <2>1 DEF SlotFits, Weight, Tokens
<1>7. ASSUME NEW z \in Command, Leads(z, n),
             log[n] + Weight(Owed(n), Command \ {z}) <= written[z] + Budget
      PROVE  SlotFits(n)'
  <2>1. CASE z = c
    <3>1. Weight(Owed(n)', Command \ {c}) <= Weight(Owed(n), Command \ {c})
      BY <1>2, <1>4, LessIsOwed
    <3>2. Weight(Owed(n)', Command \ {c}) \in Nat /\ Weight(Owed(n), Command \ {c}) \in Nat
      BY TokensAreFinite
    <3>3. log'[n] + Weight(Owed(n)', Command \ {c}) <= written'[c] + Budget'
      BY <1>1, <1>7, <2>1, <3>1, <3>2
    <3>4. Leads(c, n)'
      BY <1>1, LogAssumption DEF Leads, Full
    <3>5. QED
      BY <3>3, <3>4 DEF SlotFits, Weight, Tokens
  <2>2. CASE z # c
    <3>1. Leads(z, n)' /\ written'[z] = written[z]
      BY <1>3, <1>7, <2>2 DEF OthersStay
    <3>2. log'[n] + Weight(Owed(n)', Command \ {z}) <= written'[z] + Budget'
      <4>1. c \in Command \ {z}
        BY <2>2
      <4>2. QED
        BY <1>1, <1>5, <1>7, <3>1, <4>1
    <3>3. QED
      BY <3>1, <3>2 DEF SlotFits, Weight, Tokens
  <2>3. QED
    BY <2>1, <2>2
<1>8. QED
  BY <1>6, <1>7 DEF SlotFits

(* A rotation whose last rename failed comes back to the file: a fault. *)
LEMMA FaultPays ==
  ASSUME TypeOK /\ CountInv, (TypeOK /\ CountInv)', faults' = faults + 1,
         NEW c \in Command, OthersStay(c), NEW n \in 0..Keep,
         log[n] # NoFile, log'[n] = log[n], SlotFits(n),
         pc[c] \in Rotating
  PROVE  SlotFits(n)'
<1>1. /\ log[n] \in Nat /\ Cap \in Nat /\ written \in [Command -> Nat]
      /\ Budget \in Nat /\ Budget' = Budget + MaxWarnings /\ MaxWarnings \in Nat
  <2>1. log[n] \in Nat /\ Cap \in Nat /\ written \in [Command -> Nat]
    BY LogAssumption DEF TypeOK, LogTypeOK
  <2>2. Budget \in Nat /\ Budget' = Budget + MaxWarnings /\ MaxWarnings \in Nat
    BY BudgetGrows
  <2>3. QED
    BY <2>1, <2>2
<1>2. Owed(n) \in Owing /\ Owed(n)' \in Owing
  BY OwedIsOwing, OwedIsOwingNext
<1>3. \A d \in Command \ {c} : Owed(n)'[d] = Owed(n)[d] /\ (Leads(d, n)' <=> Leads(d, n))
  BY OthersOwe
<1>4. ASSUME NEW S \in SUBSET Command, c \in S
      PROVE  /\ Weight(Owed(n)', S) <= Weight(Owed(n), S) + MaxWarnings
             /\ Weight(Owed(n)', S) \in Nat /\ Weight(Owed(n), S) \in Nat
  <2>1. /\ Weight(Owed(n)', S) \in Nat /\ Weight(Owed(n), S) \in Nat
        /\ Weight(Owed(n)', S \ {c}) \in Nat
    BY TokensAreFinite
  <2>2. Weight(Owed(n)', S) <= Weight(Owed(n)', S \ {c}) + MaxWarnings
    BY <1>2, <1>4, OneOwesMore
  <2>3. \A d \in S \ {c} : Owed(n)'[d] > 0 => d \in S /\ Owed(n)'[d] <= Owed(n)[d]
    BY <1>2, <1>3, CommandsAssumption DEF Owing
  <2>4. Weight(Owed(n)', S \ {c}) <= Weight(Owed(n), S)
    BY <1>2, <2>3, LessIsOwed
  <2>5. QED
    BY <1>1, <2>1, <2>2, <2>4
<1>5. CASE log[n] + Weight(Owed(n), Command) <= Cap + Budget
  <2>1. log'[n] + Weight(Owed(n)', Command) <= Cap + Budget'
    BY <1>1, <1>4, <1>5
  <2>2. QED
    BY <2>1 DEF SlotFits, Weight, Tokens
<1>6. ASSUME NEW z \in Command, Leads(z, n),
             log[n] + Weight(Owed(n), Command \ {z}) <= written[z] + Budget
      PROVE  SlotFits(n)'
  <2>1. z # c /\ c \in Command \ {z}
    BY <1>6 DEF Leads
  <2>2. Leads(z, n)' /\ written'[z] = written[z]
    BY <1>3, <1>6, <2>1 DEF OthersStay
  <2>3. log'[n] + Weight(Owed(n)', Command \ {z}) <= written'[z] + Budget'
    BY <1>1, <1>4, <1>6, <2>1, <2>2
  <2>4. QED
    BY <2>2, <2>3 DEF SlotFits, Weight, Tokens
<1>7. QED
  BY <1>5, <1>6 DEF SlotFits

LEMMA InitSizeInv == Init => SizeInv
<1> SUFFICES ASSUME Init PROVE SizeInv
  OBVIOUS
<1>1. TypeOK /\ CountInv
  <2>1. TypeOK
    BY InitIInv DEF IInv
  <2>2. QED
    BY <2>1, CommandsAssumption DEF Init, CountInv, Rotating
<1>2. ASSUME NEW n \in 0..Keep, log[n] # NoFile PROVE SlotFits(n)
  <2>1. log[n] \in Nat /\ Cap \in Nat /\ log[n] <= Cap
    BY <1>2, LogAssumption DEF Init
  <2>2. Owed(n) \in Owing /\ \A c \in Command : Owed(n)[c] = 0
    BY <1>1, OwedIsOwing, LogAssumption DEF Init, Owed
  <2>3. Weight(Owed(n), Command) <= Weight(Owed(n), {})
    BY <2>2, LessIsOwed, CommandsAssumption DEF Owing
  <2>4. Weight(Owed(n), {}) <= 0
    <3>1. Weight(Owed(n), {}) <= Cardinality({}) * MaxWarnings /\ Cardinality({}) = 0
      BY TokensAreFinite, FS_EmptySet
    <3>2. QED
      BY <3>1, CommandsAssumption
  <2>5. Weight(Owed(n), Command) \in Nat /\ Weight(Owed(n), {}) \in Nat
    BY TokensAreFinite
  <2>6. Budget \in Nat
    <3>1. Cardinality(Command) \in Nat /\ Cardinality(Command) # 0
      BY CommandsAssumption, FS_CardinalityType, FS_EmptySet
    <3>2. Cardinality(Command) - 1 + faults \in Nat
      BY <3>1, <1>1 DEF TypeOK
    <3>3. QED
      BY <3>2, CommandsAssumption DEF Budget
  <2>7. log[n] + Weight(Owed(n), Command) <= Cap + Budget
    BY <2>1, <2>3, <2>4, <2>5, <2>6
  <2>8. QED
    BY <2>7 DEF SlotFits
<1>3. QED
  BY <1>1, <1>2 DEF SizeInv

LEMMA StartKeepsSize ==
  ASSUME IInv, IInv', SizeInv, NEW c \in Command, Start(c) \/ StartUnlogged(c)
  PROVE  SizeInv'
<1> USE DEF IInv
<1>1. /\ pc[c] = "idle" /\ handle[c] = Closed /\ pc'[c] \in {"gate", "handle"}
      /\ OthersStay(c) /\ faults' \in {faults, faults + 1} /\ left' = left
  BY DEF Start, StartUnlogged, Begin, Goto, Open, OpenActive, logVars, Fault, OthersStay, TypeOK,
     LogTypeOK, SizeInv, CountInv
<1>2. CountInv'
  BY <1>1 DEF SizeInv, CountInv, OthersStay, Full, Rotating
<1>3. \A n \in 0..Keep : Owed(n)[c] = 0 /\ ~Leads(c, n)
  BY <1>1, LogAssumption DEF Owed, Leads
<1>4. ASSUME NEW n \in 0..Keep, log'[n] # NoFile PROVE SlotFits(n)'
  <2>1. CASE n # 0 \/ StartUnlogged(c) \/ (log[0] # NoFile /\ Full(c)')
    <3>1. log'[n] = log[n]
      BY <2>1 DEF Start, StartUnlogged, Open, OpenActive, logVars, TypeOK, LogTypeOK
    <3>2. Owed(n)'[c] = 0
      <4>1. CASE StartUnlogged(c)
        BY <4>1, <1>1, LogAssumption DEF StartUnlogged, logVars, Owed
      <4>2. CASE Start(c)
        <5>1. handle'[c] = 0 /\ pc'[c] \notin Rotating
          BY <4>2, <1>1 DEF Start, Open, OpenActive, TypeOK, LogTypeOK, Rotating
        <5>2. n # 0 \/ Full(c)'
          BY <2>1, <4>2, <1>1, <5>1, LogAssumption DEF StartUnlogged, logVars
        <5>3. QED
          BY <5>1, <5>2, <1>1 DEF Owed, Full
      <4>3. QED
        BY <4>1, <4>2
    <3>3. QED
      BY <1>1, <1>2, <1>3, <1>4, <3>1, <3>2, FileStays DEF SizeInv
  <2>2. CASE n = 0 /\ Start(c) /\ ~(log[0] # NoFile /\ Full(c)')
    <3>1. handle'[c] = 0 /\ written'[c] = log'[0] /\ (log[0] = NoFile => log'[0] = 0)
      BY <2>2 DEF Start, Open, OpenActive, TypeOK, LogTypeOK
    <3>2. written'[c] <= Cap
      <4>1. CASE log[0] = NoFile
        BY <3>1, <4>1, LogAssumption
      <4>2. CASE ~Full(c)'
        BY <4>2, LogAssumption DEF Full, TypeOK, LogTypeOK
      <4>3. QED
        BY <2>2, <4>1, <4>2
    <3>3. Leads(c, 0)'
      BY <1>1, <3>1, <3>2 DEF Leads, Rotating
    <3>4. QED
      BY <1>1, <1>2, <2>2, <3>1, <3>3, OpenedFileFits
  <2>3. QED
    BY <2>1, <2>2
<1>5. QED
  BY <1>2, <1>4 DEF SizeInv

(* Steps that leave the log's files alone, and owe them less. *)
LEMMA QuietKeepsSize ==
  ASSUME IInv, IInv', SizeInv, NEW c \in Command,
         \/ Exit(c) \/ Crash(c)
         \/ RefuseSession(c) \/ Ask(c) \/ Answered(c) \/ TimesOut(c) \/ Handle(c)
         \/ Rotate(c) \/ WriteFails(c) \/ (RotationFails(c) /\ pc[c] # "retire")
  PROVE  SizeInv'
<1> USE DEF IInv
<1>1. /\ log' = log /\ OthersStay(c) /\ faults' \in {faults, faults + 1}
      /\ (handle'[c] = handle[c] /\ written'[c] = written[c]) \/ (handle'[c] = Closed /\ pc'[c] = "idle" /\ left'[c] = 0)
  <2> USE DEF OthersStay, TypeOK, LogTypeOK, Goto
  <2>1. CASE Exit(c) \/ Crash(c)
    BY <2>1 DEF Exit, Crash, End, Close, Fault
  <2>2. CASE RefuseSession(c) \/ Ask(c) \/ Answered(c) \/ TimesOut(c) \/ Handle(c)
    BY <2>2 DEF RefuseSession, Ask, Answered, TimesOut, Handle, LogQuiet, logVars
  <2>3. CASE Rotate(c) \/ WriteFails(c)
    BY <2>3 DEF Rotate, WriteFails, Fault, logVars
  <2>4. CASE RotationFails(c)
    BY <2>4 DEF RotationFails, Fault, EndRemove, EndShift, logVars
  <2>5. QED
    BY <2>1, <2>2, <2>3, <2>4
<1>2. /\ left'[c] <= MaxWarnings
      /\ pc'[c] = "idle" => handle'[c] = Closed
      /\ pc'[c] \in Rotating => Full(c) /\ pc[c] \in Rotating \cup {"write"}
      /\ pc'[c] \notin {"append", "reopen"}
      /\ pc'[c] \in {"gate", "wait", "handle"} => pc[c] \in {"gate", "wait", "handle"}
      /\ pc'[c] \in {"write"} => pc[c] = "handle" \/ (pc[c] \in {"write", "append", "reopen"} /\ left'[c] <= left[c])
  <2> USE DEF TypeOK, LogTypeOK, Goto, SizeInv, CountInv, Rotating, LogInv
  <2>1. CASE Exit(c) \/ Crash(c)
    BY <2>1, CommandsAssumption DEF Exit, Crash, End, Close
  <2>2. CASE RefuseSession(c) \/ Ask(c) \/ Answered(c) \/ TimesOut(c)
    BY <2>2 DEF RefuseSession, Ask, Answered, TimesOut, LogQuiet, logVars
  <2>3. CASE Handle(c)
    <3>1. \A n \in Records(c) : n <= MaxWarnings
      BY CommandsAssumption DEF Records
    <3>2. QED
      BY <2>3, <3>1 DEF Handle
  <2>4. CASE Rotate(c)
    BY <2>4 DEF Rotate
  <2>5. CASE WriteFails(c)
    BY <2>5, CommandsAssumption DEF WriteFails, Done
  <2>6. CASE RotationFails(c) /\ pc[c] = "remove"
    BY <2>6 DEF RotationFails, EndRemove, logVars
  <2>7. CASE RotationFails(c) /\ pc[c] = "shift"
    BY <2>7 DEF RotationFails, EndShift, logVars
  <2>8. QED
    BY <2>1, <2>2, <2>3, <2>4, <2>5, <2>6, <2>7 DEF RotationFails
<1>3. CountInv'
  BY <1>1, <1>2 DEF SizeInv, CountInv, OthersStay, Full, Rotating
<1>4. ASSUME NEW n \in 0..Keep, log'[n] # NoFile PROVE SlotFits(n)'
  <2>1. left[c] \in Nat /\ left'[c] \in Nat /\ left[c] <= MaxWarnings /\ MaxWarnings \in Nat
    BY CommandsAssumption DEF TypeOK, SizeInv, CountInv
  <2>2. Owed(n)'[c] <= Owed(n)[c]
    <3>1. CASE handle'[c] = Closed /\ pc'[c] = "idle"
      BY <3>1, <2>1, LogAssumption DEF Owed, Rotating
    <3>2. CASE handle'[c] = handle[c] /\ written'[c] = written[c]
      BY <3>2, <1>2, <2>1 DEF Owed, Full, Rotating, SizeInv, CountInv
    <3>3. QED
      BY <1>1, <3>1, <3>2
  <2>3. Leads(c, n) => (Leads(c, n)' /\ written'[c] = written[c]) \/ Owed(n)'[c] = 0
    <3>1. CASE handle'[c] = Closed /\ pc'[c] = "idle"
      BY <3>1, LogAssumption DEF Owed, Rotating
    <3>2. CASE handle'[c] = handle[c] /\ written'[c] = written[c]
      BY <3>2, <1>2 DEF Owed, Leads, Full, Rotating
    <3>3. QED
      BY <1>1, <3>1, <3>2
  <2>4. QED
    BY <1>1, <1>3, <1>4, <2>2, <2>3, FileStays DEF SizeInv
<1>5. QED
  BY <1>3, <1>4 DEF SizeInv

LEMMA AppendKeepsSize ==
  ASSUME IInv, IInv', SizeInv, NEW c \in Command, Write(c) \/ WriteRotated(c)
  PROVE  SizeInv'
<1> USE DEF IInv
<1>1. /\ pc[c] \in {"write", "append"} /\ pc'[c] = "write" /\ ~Full(c)
      /\ left[c] > 0 /\ left'[c] = left[c] - 1 /\ AppendRecord(c)
      /\ handle' = handle /\ written'[c] = written[c] + 1
      /\ OthersStay(c) /\ faults' = faults
  BY DEF Write, WriteRotated, Done, Goto, AppendRecord, Full, OthersStay, TypeOK, LogTypeOK,
     LogInv, SizeInv, CountInv
<1>2. CountInv'
  BY <1>1, CommandsAssumption DEF SizeInv, CountInv, OthersStay, Full, Rotating, TypeOK
<1>3. ASSUME NEW n \in 0..Keep, log'[n] # NoFile PROVE SlotFits(n)'
  <2>1. log'[n] = (IF n = handle[c] THEN log[n] + 1 ELSE log[n])
    BY <1>1 DEF AppendRecord
  <2>2. CASE n = handle[c]
    <3>1. log[n] # NoFile
      BY <2>2 DEF LogInv
    <3>2. Owed(n)'[c] < Owed(n)[c]
      BY <1>1, <2>2 DEF Owed, Rotating, TypeOK
    <3>3. QED
      BY <1>1, <1>2, <2>1, <2>2, <3>1, <3>2, AppendFits DEF SizeInv, Rotating
  <2>3. CASE n # handle[c]
    <3>1. Owed(n)'[c] <= Owed(n)[c] /\ ~Leads(c, n)
      BY <1>1, <2>3 DEF Owed, Rotating, Leads
    <3>2. QED
      BY <1>1, <1>2, <1>3, <2>1, <2>3, <3>1, FileStays DEF SizeInv
  <2>4. QED
    BY <2>2, <2>3
<1>4. QED
  BY <1>2, <1>3 DEF SizeInv

LEMMA ReopenKeepsSize ==
  ASSUME IInv, IInv', SizeInv, NEW c \in Command, Reopen(c)
  PROVE  SizeInv'
<1> USE DEF IInv
<1>1. /\ pc[c] = "reopen" /\ pc'[c] = "append" /\ handle'[c] = 0 /\ written'[c] = 0
      /\ log' = [log EXCEPT ![0] = IF @ = NoFile THEN 0 ELSE @]
      /\ OthersStay(c) /\ faults' = faults /\ left' = left
  BY DEF Reopen, OpenActive, Goto, OthersStay, TypeOK, LogTypeOK
<1>2. CountInv'
  BY <1>1 DEF SizeInv, CountInv, OthersStay, Full, Rotating
<1>3. ~Full(c)' /\ ~(0 > Cap) /\ left[c] \in Nat
  BY <1>1, LogAssumption DEF Full, TypeOK
<1>4. ASSUME NEW n \in 0..Keep, log'[n] # NoFile PROVE SlotFits(n)'
  <2>1. CASE n = 0 /\ log[0] = NoFile
    <3>1. Leads(c, 0)' /\ written'[c] = log'[0]
      BY <1>1, <1>3, <2>1, LogAssumption DEF Leads, Rotating, TypeOK, LogTypeOK
    <3>2. QED
      BY <1>1, <1>2, <2>1, <3>1, OpenedFileFits
  <2>2. CASE n # 0 \/ log[0] # NoFile
    <3>1. log'[n] = log[n]
      BY <1>1, <2>2 DEF TypeOK, LogTypeOK
    <3>2. Owed(n)'[c] <= Owed(n)[c] /\ ~Leads(c, n)
      BY <1>1, <1>3 DEF Owed, Rotating, Leads
    <3>3. QED
      BY <1>1, <1>2, <1>4, <3>1, <3>2, FileStays DEF SizeInv
  <2>3. QED
    BY <2>1, <2>2
<1>5. QED
  BY <1>2, <1>4 DEF SizeInv

LEMMA FailedRetireKeepsSize ==
  ASSUME IInv, IInv', SizeInv, NEW c \in Command, RotationFails(c), pc[c] = "retire"
  PROVE  SizeInv'
<1> USE DEF IInv
<1>1. /\ pc'[c] = "reopen" /\ UNCHANGED <<log, handle, written, left>>
      /\ OthersStay(c) /\ faults' = faults + 1
  BY DEF RotationFails, Goto, Fault, logVars, OthersStay, TypeOK
<1>2. CountInv'
  BY <1>1 DEF SizeInv, CountInv, OthersStay, Full, Rotating
<1>3. ASSUME NEW n \in 0..Keep, log'[n] # NoFile PROVE SlotFits(n)'
  BY <1>1, <1>2, <1>3, FaultPays DEF SizeInv, Rotating
<1>4. QED
  BY <1>2, <1>3 DEF SizeInv

(* A rotation's call that succeeds moves a file and the handles in it. *)
LEMMA MoveKeepsSize ==
  ASSUME IInv, IInv', SizeInv, NEW c \in Command, Remove(c) \/ ShiftFile(c) \/ Retire(c)
  PROVE  SizeInv'
<1> USE LogAssumption DEF IInv
<1>1. /\ pc[c] \in Rotating \ {"reopen"} /\ pc'[c] \in Rotating
      /\ pc'[c] = "reopen" => Retire(c)
      /\ \A d \in Command \ {c} : pc'[d] = pc[d]
      /\ UNCHANGED <<written, left, faults>>
  <2> USE DEF Rotating, TypeOK, Goto
  <2>1. CASE Remove(c)
    BY <2>1 DEF Remove, RemoveOldest, EndRemove
  <2>2. CASE ShiftFile(c)
    BY <2>2 DEF ShiftFile, EndShift, Shift, logVars
  <2>3. CASE Retire(c)
    BY <2>3 DEF Retire, Shift, logVars
  <2>4. QED
    BY <2>1, <2>2, <2>3
<1>2. \A d \in Command : handle[d] = Closed => handle'[d] = Closed
  <2>1. CASE Remove(c)
    BY <2>1 DEF Remove, RemoveOldest
  <2>2. ASSUME NEW n \in 0..(Keep - 1), Shift(n)
        PROVE  \A d \in Command : handle[d] = Closed => handle'[d] = Closed
    BY <2>2 DEF Shift, logVars
  <2>3. QED
    BY <2>1, <2>2 DEF ShiftFile, Retire, LogInv
<1>3. CountInv'
  BY <1>1, <1>2 DEF SizeInv, CountInv, Full, Rotating
<1>4. ASSUME NEW n \in 0..Keep, NEW m \in 0..Keep, log[n] # NoFile, log'[m] = log[n],
             m # 0 \/ ~Retire(c), n = 0 \/ m # 0,
             \A d \in Command : handle[d] = n <=> handle'[d] = m
      PROVE  SlotFits(m)'
  <2>1. Owed(n) \in [Command -> Nat]
    BY <1>3, OwedIsOwing, CommandsAssumption DEF SizeInv, Owing
  <2>2. \A d \in Command : Owed(m)'[d] <= Owed(n)[d]
    <3>1. \A d \in Command \ {c} : Owed(m)'[d] = Owed(n)[d] \/ Owed(m)'[d] = 0
      BY <1>1, <1>4 DEF Owed, Full, Rotating
    <3>2. Owed(m)'[c] = 0
      BY <1>1, <1>4 DEF Owed, Rotating
    <3>3. \A d \in Command : Owed(n)[d] \in Nat
      BY <2>1
    <3>4. QED
      BY <3>1, <3>2, <3>3
  <2>3. \A z \in Command : Leads(z, n) => Leads(z, m)' /\ written'[z] = written[z]
    BY <1>1, <1>4 DEF Leads
  <2>4. QED
    BY <1>1, <1>3, <1>4, <2>2, <2>3, FileSettles DEF SizeInv
<1>5. ASSUME NEW m \in 0..Keep, log'[m] # NoFile PROVE SlotFits(m)'
  <2> USE DEF TypeOK, LogTypeOK
  <2>1. CASE Remove(c)
    <3>1. m # Keep /\ log'[m] = log[m] /\ ~Retire(c)
      BY <1>5, <2>1 DEF Remove, RemoveOldest, Retire
    <3>2. \A d \in Command : handle[d] = m <=> handle'[d] = m
      BY <2>1, <3>1 DEF Remove, RemoveOldest
    <3>3. QED
      BY <1>4, <1>5, <3>1, <3>2
  <2>2. ASSUME NEW k \in 0..(Keep - 1), Shift(k), Retire(c) => k = 0
        PROVE  SlotFits(m)'
    <3>1. CASE log[k] = NoFile
      <4>1. log' = log /\ handle' = handle
        BY <2>2, <3>1 DEF Shift, logVars
      <4>2. m # 0 \/ ~Retire(c)
        BY <1>5, <2>2, <3>1, <4>1
      <4>3. QED
        BY <1>4, <1>5, <4>1, <4>2
    <3>2. CASE log[k] # NoFile
      <4>1. /\ log' = [log EXCEPT ![k] = NoFile, ![k + 1] = log[k]]
            /\ handle' = [d \in Command |->
                 IF handle[d] = k THEN k + 1 ELSE IF handle[d] = k + 1 THEN Gone ELSE handle[d]]
        BY <2>2, <3>2 DEF Shift
      <4>2. CASE m = k + 1
        <5>1. m # k
          BY <2>2, <4>2
        <5>2. log'[m] = log[k]
          BY <4>1, <4>2, <5>1
        <5>3. \A d \in Command : handle[d] = k <=> handle'[d] = m
          <6>1. Gone # m
            BY LogAssumption
          <6> HIDE DEF TypeOK, LogTypeOK
          <6>2. QED
            BY <4>1, <4>2, <5>1, <6>1
        <5>4. QED
          BY <1>4, <3>2, <4>2, <5>2, <5>3
      <4>3. CASE m # k + 1
        <5>1. m # k /\ log'[m] = log[m]
          BY <1>5, <4>1, <4>3
        <5>2. \A d \in Command : handle[d] = m <=> handle'[d] = m
          BY <4>1, <4>3, <5>1
        <5>3. m # 0 \/ ~Retire(c)
          BY <2>2, <5>1
        <5>4. QED
          BY <1>4, <1>5, <5>1, <5>2, <5>3
      <4>4. QED
        BY <4>2, <4>3
    <3>3. QED
      BY <3>1, <3>2
  <2>3. ASSUME ShiftFile(c) PROVE shift[c] \in 0..(Keep - 1) /\ Shift(shift[c]) /\ ~Retire(c)
    BY <2>3 DEF ShiftFile, Retire, LogInv
  <2>4. ASSUME Retire(c) PROVE 0 \in 0..(Keep - 1) /\ Shift(0)
    BY <2>4 DEF Retire
  <2>5. QED
    BY <2>1, <2>2, <2>3, <2>4
<1>6. QED
  BY <1>3, <1>5 DEF SizeInv

(* The weight of the records still owed bounds every file of the log.      *)
THEOREM SizeInvHolds == Spec => []SizeInv
<1>1. IInv /\ IInv' /\ SizeInv /\ [Next]_vars => SizeInv'
  <2> SUFFICES ASSUME IInv, IInv', SizeInv, [Next]_vars PROVE SizeInv'
    OBVIOUS
  <2>1. ASSUME UNCHANGED <<log, handle, written, pc, left, faults>> PROVE SizeInv'
    <3>1. CountInv'
      BY <2>1 DEF SizeInv, CountInv, Full
    <3>2. ASSUME NEW n \in 0..Keep, log'[n] # NoFile PROVE SlotFits(n)'
      <4>1. Owed(n)' = Owed(n)
        BY <2>1 DEF Owed, Full
      <4>2. /\ log'[n] = log[n] /\ Budget' = Budget /\ written' = written
            /\ \A z \in Command : Leads(z, n)' <=> Leads(z, n)
        BY <2>1 DEF Budget, Leads
      <4>3. SlotFits(n)
        BY <3>2, <4>2 DEF SizeInv
      <4>4. QED
        BY <4>1, <4>2, <4>3 DEF SlotFits, Weight, Tokens
    <3>3. QED
      BY <3>1, <3>2 DEF SizeInv
  <2>2. ASSUME NEW c \in Command,
               Own(c) \/ Handle(c) \/ Start(c) \/ StartUnlogged(c) \/ Crash(c) \/ Reply(c) \/ Signal(c)
        PROVE  SizeInv'
    <3>1. CASE Reply(c) \/ Signal(c)
      BY <2>1, <3>1 DEF Reply, Signal, LogQuiet, logVars
    <3>2. CASE Own(c) \/ Handle(c) \/ Start(c) \/ StartUnlogged(c) \/ Crash(c)
      BY <3>2, StartKeepsSize, QuietKeepsSize, AppendKeepsSize, ReopenKeepsSize,
         FailedRetireKeepsSize, MoveKeepsSize DEF Own
    <3>3. QED
      BY <2>2, <3>1, <3>2
  <2>3. QED
    BY <2>1, <2>2 DEF Next, vars, logVars
<1>2. QED
  BY InitSizeInv, InvariantHolds, <1>1, PTL DEF Spec

(* No file of the audit log (logging.rs) outgrows its limit by more than   *)
(* what the other processes, and those whose calls failed, may write       *)
(* without looking at it again.                                            *)
THEOREM LogStaysBounded == Spec => []SizeBounded
<1>1. IInv /\ SizeInv => SizeBounded
  <2> SUFFICES ASSUME IInv, SizeInv, NEW n \in 0..Keep, log[n] # NoFile
               PROVE  log[n] <= Cap + Budget
    BY DEF SizeBounded, Budget
  <2>1. log[n] \in Nat /\ Cap \in Nat /\ written \in [Command -> Nat]
    BY LogAssumption DEF IInv, TypeOK, LogTypeOK
  <2>2. Budget \in Int
    <3>1. Cardinality(Command) \in Nat
      BY CommandsAssumption, FS_CardinalityType
    <3>2. QED
      BY <3>1, CommandsAssumption DEF Budget, IInv, TypeOK
  <2>3. \A S \in SUBSET Command : Weight(Owed(n), S) \in Nat
    BY TokensAreFinite
  <2>4. SlotFits(n)
    BY DEF SizeInv
  <2>5. CASE log[n] + Weight(Owed(n), Command) <= Cap + Budget
    <3>1. Weight(Owed(n), Command) \in Nat
      BY <2>3
    <3>2. QED
      BY <2>1, <2>2, <2>5, <3>1
  <2>6. ASSUME NEW z \in Command, Leads(z, n),
               log[n] + Weight(Owed(n), Command \ {z}) <= written[z] + Budget
        PROVE  log[n] <= Cap + Budget
    <3>1. Weight(Owed(n), Command \ {z}) \in Nat /\ written[z] \in Nat /\ written[z] <= Cap
      BY <2>1, <2>3, <2>6 DEF Leads
    <3>2. QED
      BY <2>1, <2>2, <2>6, <3>1
  <2>7. QED
    BY <2>4, <2>5, <2>6 DEF SlotFits
<1>2. QED
  BY <1>1, InvariantHolds, SizeInvHolds, PTL
===============================================================================
