------------------------------- MODULE Commands -------------------------------
(***************************************************************************)
(* The life of a kpexec process around its handler: main opens the audit   *)
(* log (src/src/main.rs, logging.rs), dispatch asks for the user's         *)
(* presence before a handler that changes anything (commands.rs,           *)
(* user_presence.rs, user_presence_shim.m), and the handler leaves its     *)
(* records in the log.  The log is opened first, so a process that waits   *)
(* for its user holds a handle and a count while others write and rotate.  *)
(*                                                                         *)
(* `run` writes one record, a failed init a warning for each restoration   *)
(* that failed, and other commands none.  What the handlers do is the      *)
(* subject of the other modules; here a handler is entered, and may return *)
(* or not.                                                                 *)
(***************************************************************************)
EXTENDS AuditLog, FiniteSets

CONSTANTS
  MaxWarnings,  \* the records a handler may write
  MaxFaults     \* bound on failed calls and crashes of a behaviour

ASSUME CommandsAssumption ==
  /\ IsFiniteSet(Command) /\ Command # {}
  /\ MaxWarnings \in Nat \ {0} /\ MaxFaults \in Nat

VARIABLES
  pc,       \* per process: its next step
  kind,     \* "run", "change" (the gated ones), "look" (the others)
  answer,   \* what LocalAuthentication's reply has stored; an error is a "no"
  signal,   \* whether the reply has signalled the semaphore
  timedOut, \* whether the wait for the reply gave up
  acted,    \* whether the handler has returned
  left,     \* records it has still to write
  shift,    \* the slot its rotation renames next
  clash,    \* its rotation met another, or one of its renames failed
  faults

gateVars == <<answer, signal, timedOut>>
vars == <<logVars, gateVars, pc, kind, acted, left, shift, clash, faults>>

Kind == {"run", "change", "look"}

\* authorization_reason
Gated(c) == kind[c] = "change"

Rotating == {"remove", "shift", "retire", "reopen"}
Step == {"idle", "gate", "wait", "handle", "write", "append", "exit"} \cup Rotating

TypeOK ==
  /\ LogTypeOK
  /\ pc \in [Command -> Step] /\ kind \in [Command -> Kind]
  /\ answer \in [Command -> {"none", "yes", "no"}]
  /\ signal \in [Command -> BOOLEAN] /\ timedOut \in [Command -> BOOLEAN]
  /\ acted \in [Command -> BOOLEAN] /\ clash \in [Command -> BOOLEAN]
  /\ left \in [Command -> Nat] /\ shift \in [Command -> 0..Keep] /\ faults \in Nat

\* No process; a log with any number of generations, none fuller than Cap.
Init ==
  /\ \E g \in 0..(Keep + 1), last \in 1..Cap :
       log = [n \in 0..Keep |-> IF n >= g THEN NoFile ELSE IF n = 0 THEN last ELSE Cap]
  /\ handle = [c \in Command |-> Closed] /\ written = [c \in Command |-> 0]
  /\ pc = [c \in Command |-> "idle"] /\ kind = [c \in Command |-> "look"]
  /\ answer = [c \in Command |-> "none"]
  /\ signal = [c \in Command |-> FALSE] /\ timedOut = signal
  /\ acted = signal /\ clash = signal
  /\ left = [c \in Command |-> 0] /\ shift = [c \in Command |-> 0] /\ faults = 0

Goto(c, next) == pc' = [pc EXCEPT ![c] = next]
Fault == faults < MaxFaults /\ faults' = faults + 1
GateQuiet == UNCHANGED <<gateVars, kind, acted>>
LogQuiet == UNCHANGED <<logVars, left, shift, clash>>

\* authorization_reason: whether dispatch asks the gate first.
Begin(c) ==
  /\ pc[c] = "idle"
  /\ \E k \in Kind : kind' = [kind EXCEPT ![c] = k]
  /\ Goto(c, IF Gated(c)' THEN "gate" ELSE "handle")
  /\ UNCHANGED <<gateVars, acted, left, shift, clash>>

\* The next rename of a rotation, from the oldest to the youngest.
EndShift(c) ==
  IF shift[c] > 1 THEN shift' = [shift EXCEPT ![c] = @ - 1] /\ UNCHANGED pc
  ELSE Goto(c, "retire") /\ UNCHANGED shift

-------------------------------------------------------------------------------
(* Faulty variants of single definitions, for mutation testing of the      *)
(* properties below; the specification does not use them.                  *)

\* TimesOut: the result is read all the same.
ResultReadAnyway(c) ==
  /\ pc[c] = "wait" /\ ~signal[c]
  /\ Goto(c, IF answer[c] = "yes" THEN "handle" ELSE "exit")
  /\ timedOut' = [timedOut EXCEPT ![c] = TRUE]
  /\ LogQuiet /\ UNCHANGED <<kind, answer, signal, acted, faults>>

\* TimesOut: the semaphore is waited for without a deadline.
WaitForever(c) == pc[c] = "wait" /\ FALSE /\ UNCHANGED vars

\* EndRemove: the loop over the middle files misses the youngest.
LoopTooShort(c) ==
  /\ Goto(c, IF Keep > 2 THEN "shift" ELSE "retire")
  /\ shift' = [shift EXCEPT ![c] = Keep - 1]

\* Start: the count starts at nothing, not at the length of the file.
LengthIgnored(c) == Begin(c) /\ OpenActive(c, 0) /\ UNCHANGED faults

-------------------------------------------------------------------------------
(* main                                                                    *)

Start(c) == Begin(c) /\ Open(c) /\ UNCHANGED faults

\* The log cannot be opened: logging is off for this process, which goes on.
StartUnlogged(c) == Begin(c) /\ Fault /\ UNCHANGED logVars

\* The process ends and takes all it knew with it, a late reply too.
End(c) ==
  /\ Goto(c, "idle") /\ Close(c)
  /\ kind' = [kind EXCEPT ![c] = "look"] /\ answer' = [answer EXCEPT ![c] = "none"]
  /\ signal' = [signal EXCEPT ![c] = FALSE] /\ timedOut' = [timedOut EXCEPT ![c] = FALSE]
  /\ acted' = [acted EXCEPT ![c] = FALSE] /\ left' = [left EXCEPT ![c] = 0]
  /\ shift' = [shift EXCEPT ![c] = 0] /\ clash' = [clash EXCEPT ![c] = FALSE]

\* tracing drops a record if there is no log.
Done(c) == pc[c] = "write" /\ (left[c] = 0 \/ handle[c] = Closed)

Exit(c) == (pc[c] = "exit" \/ Done(c)) /\ End(c) /\ UNCHANGED faults

Crash(c) == pc[c] # "idle" /\ Fault /\ End(c)

-------------------------------------------------------------------------------
(* The gate: kpexec_authorize_user_presence.                               *)

\* A remote session, one without a screen, or no means to authenticate.
RefuseSession(c) ==
  /\ pc[c] = "gate" /\ Goto(c, "exit")
  /\ LogQuiet /\ GateQuiet /\ UNCHANGED faults

\* evaluatePolicy returns at once.
Ask(c) ==
  /\ pc[c] = "gate" /\ Goto(c, "wait")
  /\ LogQuiet /\ GateQuiet /\ UNCHANGED faults

\* The reply stores its result on a thread of the framework ...
Reply(c) ==
  /\ answer[c] = "none"
  /\ pc[c] = "wait" \/ (timedOut[c] /\ pc[c] = "exit")
  /\ \E a \in {"yes", "no"} : answer' = [answer EXCEPT ![c] = a]
  /\ LogQuiet /\ UNCHANGED <<pc, kind, signal, timedOut, acted, faults>>

\* ... and then signals the waiting thread.
Signal(c) ==
  /\ answer[c] # "none" /\ pc[c] # "idle" /\ ~signal[c]
  /\ signal' = [signal EXCEPT ![c] = TRUE]
  /\ LogQuiet /\ UNCHANGED <<pc, kind, answer, timedOut, acted, faults>>

\* map_native_result: anything but an approval is an error.
Answered(c) ==
  /\ pc[c] = "wait" /\ signal[c]
  /\ Goto(c, IF answer[c] = "yes" THEN "handle" ELSE "exit")
  /\ LogQuiet /\ GateQuiet /\ UNCHANGED faults

\* After 120 s the context is invalidated; a late reply finds nobody waiting.
TimesOut(c) ==
  /\ pc[c] = "wait" /\ ~signal[c] /\ Goto(c, "exit")
  /\ timedOut' = [timedOut EXCEPT ![c] = TRUE]
  /\ LogQuiet /\ UNCHANGED <<kind, answer, signal, acted, faults>>

-------------------------------------------------------------------------------
(* The handler and its records.                                            *)

Records(c) ==
  IF kind[c] = "run" THEN {1} ELSE IF Gated(c) THEN 0..MaxWarnings ELSE {0}

\* The handler was entered before, and returns now, if it does: a prompt waits
\* for its user without a deadline, and run for all that hold its child's pipes.
Handle(c) ==
  /\ pc[c] = "handle" /\ Goto(c, "write")
  /\ acted' = [acted EXCEPT ![c] = TRUE]
  /\ \E n \in Records(c) : left' = [left EXCEPT ![c] = n]
  /\ UNCHANGED <<logVars, gateVars, kind, shift, clash, faults>>

Others(c) == {d \in Command \ {c} : pc[d] \in Rotating}

\* RotatingWriter::write appends, or rotates first.
Write(c) ==
  /\ pc[c] = "write" /\ ~Done(c) /\ ~Full(c) /\ AppendRecord(c)
  /\ left' = [left EXCEPT ![c] = @ - 1]
  /\ GateQuiet /\ UNCHANGED <<pc, shift, clash, faults>>

Rotate(c) ==
  /\ pc[c] = "write" /\ ~Done(c) /\ Full(c) /\ Goto(c, "remove")
  /\ clash' = [d \in Command |->
       IF d = c THEN Others(c) # {} ELSE clash[d] \/ d \in Others(c)]
  /\ GateQuiet /\ UNCHANGED <<logVars, left, shift, faults>>

WriteRotated(c) ==
  /\ pc[c] = "append" /\ AppendRecord(c) /\ Goto(c, "write")
  /\ left' = [left EXCEPT ![c] = @ - 1]
  /\ GateQuiet /\ UNCHANGED <<shift, clash, faults>>

\* The disk is full, or the log cannot be opened again: the record is lost.
WriteFails(c) ==
  /\ pc[c] \in {"append", "reopen"} \/ (pc[c] = "write" /\ ~Done(c) /\ ~Full(c))
  /\ Fault /\ Goto(c, "write")
  /\ left' = [left EXCEPT ![c] = @ - 1]
  /\ GateQuiet /\ UNCHANGED <<logVars, shift, clash>>

\* RotatingWriter::rotate, call by call; the errors of its removal and its
\* renames are ignored.
EndRemove(c) ==
  /\ Goto(c, IF Keep > 1 THEN "shift" ELSE "retire")
  /\ shift' = [shift EXCEPT ![c] = Keep - 1]

Remove(c) ==
  /\ pc[c] = "remove" /\ RemoveOldest /\ EndRemove(c)
  /\ GateQuiet /\ UNCHANGED <<left, clash, faults>>

ShiftFile(c) ==
  /\ pc[c] = "shift" /\ Shift(shift[c]) /\ EndShift(c)
  /\ GateQuiet /\ UNCHANGED <<left, clash, faults>>

Retire(c) ==
  /\ pc[c] = "retire" /\ Shift(0) /\ Goto(c, "reopen")
  /\ GateQuiet /\ UNCHANGED <<left, shift, clash, faults>>

RotationFails(c) ==
  /\ Fault /\ clash' = [clash EXCEPT ![c] = TRUE]
  /\ \/ pc[c] = "remove" /\ EndRemove(c)
     \/ pc[c] = "shift" /\ EndShift(c)
     \/ pc[c] = "retire" /\ Goto(c, "reopen") /\ UNCHANGED shift
  /\ GateQuiet /\ UNCHANGED <<logVars, left>>

Reopen(c) ==
  /\ pc[c] = "reopen" /\ OpenActive(c, 0) /\ Goto(c, "append")
  /\ GateQuiet /\ UNCHANGED <<left, shift, clash, faults>>

-------------------------------------------------------------------------------

Own(c) ==
  \/ Exit(c) \/ RefuseSession(c) \/ Ask(c) \/ Answered(c) \/ TimesOut(c)
  \/ Write(c) \/ Rotate(c) \/ WriteRotated(c) \/ WriteFails(c)
  \/ Remove(c) \/ ShiftFile(c) \/ Retire(c) \/ RotationFails(c) \/ Reopen(c)

Next == \E c \in Command :
  \/ Own(c) \/ Handle(c) \/ Reply(c) \/ Signal(c)
  \/ Start(c) \/ StartUnlogged(c) \/ Crash(c)

Spec == Init /\ [][Next]_vars

\* A started process runs on and its timer fires; nobody has to reply, no
\* handler has to return, and no command has to be started.
FairSpec == Spec /\ \A c \in Command : WF_vars(Own(c))

-------------------------------------------------------------------------------
(* Properties.                                                             *)

\* A handler that changes anything runs only after its user approved this
\* very command in time: not after a denial, a timeout, an error, or a reply
\* that comes too late, and not on the approval of an earlier command.
ActsOnlyWithApproval ==
  \A c \in Command : Gated(c) /\ (pc[c] = "handle" \/ acted[c]) =>
    answer[c] = "yes" /\ ~timedOut[c]

\* No log file outgrows its limit by more than what the other processes, and
\* those whose calls failed, may write without looking at it again.
SizeBounded ==
  \A n \in 0..Keep : log[n] # NoFile =>
    log[n] <= Cap + (Cardinality(Command) - 1 + faults) * MaxWarnings

Files == {n \in 0..Keep : log[n] # NoFile}

\* Rotation drops only the oldest generation, unless it meets another
\* rotation or one of its calls fails (logging.rs: "dropping the oldest").
OldestGoesFirst ==
  [][Cardinality(Files') < Cardinality(Files) =>
       \/ Files \ Files' = {Keep} /\ \A n \in Files' : log'[n] = log[n]
       \/ \E c \in Command : clash[c] /\ pc[c] \in {"shift", "retire"}]_vars

\* No command is for ever at its gate, whether its user answers or not
\* (user_presence_shim.m: "must not be able to hang a CLI mutation forever"), or
\* at its log, whatever others rename meanwhile: it comes to its handler, or to
\* its end.  What the handler waits for is its own affair.
OnlyHandlersMayHang ==
  \A c \in Command : pc[c] \notin {"idle", "handle"} ~> pc[c] \in {"idle", "handle"}
===============================================================================
