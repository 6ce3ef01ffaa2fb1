--------------------------- MODULE RunChild_proofs ---------------------------
(***************************************************************************)
(* TLAPS proofs about RunChild: its types, that the captured output is     *)
(* complete, and who is signalled - for any descendants that fork, close,  *)
(* write, hang and leave the group, any pipe, and any limit.               *)
(***************************************************************************)
EXTENDS RunChild, TLAPS

-------------------------------------------------------------------------------
(* The inductive invariant. *)

\* What was read of a stream is kept up to the limit; a writer still holds the
\* pipe it writes to, and a stream that was read to its end has no writer left.
StreamInv ==
  /\ \A s \in Stream :
       /\ pipe[s] <= sent[s]
       /\ kept[s] = IF sent[s] - pipe[s] < Limit THEN sent[s] - pipe[s] ELSE Limit
       /\ reader[s] = "ended" => pipe[s] = 0 /\ \A p \in Live : s \notin held[p]
  /\ \A p \in Process : want[p] # "nothing" => p \in Live /\ want[p] \in held[p]
  /\ main = "spawn" => \A s \in Stream : reader[s] = "none"
  /\ main \in {"joinerr", "done"} => reader["stdout"] = "ended"
  /\ main = "done" => reader["stderr"] = "ended"

\* The waiter announces a child that has ended, and how it ended is decided once.
WaiterInv ==
  /\ main = "spawn" => Live = {} /\ how = "none" /\ waiter = "none"
  /\ \A p \in group : state[p] # "none"
  /\ chan => waiter = "ended"
  /\ waiter \in {"reaped", "ended"} => state[Child] = "gone"
  /\ state[Child] \in {"zombie", "gone"} <=> how # "none"
  /\ how = "term" => pending[Child] = "term" /\ habit[Child] = "dies"
  /\ how = "kill" => pending[Child] = "kill"

\* Of a group that was sent SIGTERM, who is not signalled was forked by a member
\* that SIGTERM does not kill.
Warned ==
  \/ \A p \in group \cap Live : pending[p] # "none"
  \/ \E p \in Process : pending[p] = "term" /\ habit[p] # "dies"

Cleared ==
  \/ \A p \in group \cap Live : Doomed(p)
  \/ how = "exit"
  \/ how = "term" /\ \E p \in Kin : pending[p] = "term" /\ habit[p] # "dies"

SignalInv ==
  /\ main \in {"spawn", "wait"} => ~timedOut
  /\ main \in {"term", "grace", "kill"} => timedOut
  /\ ~timedOut \/ main = "term" => \A p \in Process : pending[p] = "none"
  /\ ~timedOut => stranger # "hit"
  /\ main \in {"grace", "kill"} => Warned /\ \A p \in Process : pending[p] # "kill"
  /\ timedOut /\ main \in {"joinwaiter", "joinout", "joinerr", "done"} => Cleared

IInv == TypeOK /\ StreamInv /\ WaiterInv /\ SignalInv

\* The steps of Next that are not kpexec's own.
Outer ==
  \/ Reuse
  \/ \E p \in Process :
       \/ \E k \in Kin : Fork(p, k)
       \/ Detach(p)
       \/ \E s \in Stream : Close(p, s) \/ BeginWrite(p, s) \/ EndWrite(p, s)
       \/ Exit(p) \/ HandleTerm(p) \/ Die(p)

LEMMA InitIInv == Init => IInv
<1> SUFFICES ASSUME Init PROVE IInv
  OBVIOUS
<1> USE RunAssumption DEF Init, Process, Stream, Live
<1>1. TypeOK
  <2>1. habit \in [Process -> Habit]
    BY DEF Habit
  <2>2. /\ held \in [Process -> SUBSET Stream] /\ group \subseteq Process
        /\ want \in [Process -> Stream \cup {"nothing"}]
    OBVIOUS
  <2>3. /\ kept \in [Stream -> 0..Limit]
        /\ pipe \in [Stream -> 0..PipeCap] /\ sent \in [Stream -> 0..MaxOut]
    OBVIOUS
  <2>4. /\ state \in [Process -> {"none", "live", "zombie", "gone"}]
        /\ pending \in [Process -> {"none", "term", "kill"}]
        /\ reader \in [Stream -> {"none", "reading", "ended"}]
    OBVIOUS
  <2>5. QED
    BY <2>1, <2>2, <2>3, <2>4 DEF TypeOK, MainStep
<1>2. StreamInv
  BY DEF StreamInv
<1>3. WaiterInv /\ SignalInv
  BY DEF WaiterInv, SignalInv
<1>4. QED
  BY <1>1, <1>2, <1>3 DEF IInv

-------------------------------------------------------------------------------
(* Every variable keeps its type. *)

LEMMA MainKeepsType == TypeOK /\ Main => TypeOK'
<1> SUFFICES ASSUME TypeOK, Main PROVE TypeOK'
  OBVIOUS
<1> USE RunAssumption DEF TypeOK, MainStep, Habit, Goto, threads, procs, pipes, Outside,
        Process, Stream, Live, Running, Doomed
<1>1. CASE Spawn
  BY <1>1 DEF Spawn
<1>2. CASE SpawnFails
  BY <1>2 DEF SpawnFails
<1>3. CASE Receive
  BY <1>3 DEF Receive
<1>4. CASE TimeoutExpires
  BY <1>4 DEF TimeoutExpires
<1>5. CASE Terminate
  BY <1>5 DEF Terminate, Signal, KeepOthers
<1>6. CASE GraceExpires
  BY <1>6 DEF GraceExpires
<1>7. CASE Kill
  BY <1>7 DEF Kill, Signal, KeepOthers
<1>8. CASE JoinWaiter
  BY <1>8 DEF JoinWaiter
<1>9. CASE JoinOut
  BY <1>9 DEF JoinOut
<1>10. CASE JoinErr
  BY <1>10 DEF JoinErr
<1>11. QED
  BY <1>1, <1>2, <1>3, <1>4, <1>5, <1>6, <1>7, <1>8, <1>9, <1>10 DEF Main

LEMMA ThreadKeepsType == TypeOK /\ Thread => TypeOK'
<1> SUFFICES ASSUME TypeOK, Thread PROVE TypeOK'
  OBVIOUS
<1> USE RunAssumption DEF TypeOK, MainStep, Habit, Goto, threads, procs, pipes, Outside,
        Process, Stream, Live, Running, Doomed
<1>1. CASE Reap
  BY <1>1 DEF Reap
<1>2. CASE Announce
  BY <1>2 DEF Announce
<1>3. CASE \E s \in Stream : ReadChunk(s)
  BY <1>3 DEF ReadChunk
<1>4. CASE \E s \in Stream : ReadEof(s)
  BY <1>4 DEF ReadEof
<1>5. QED
  BY <1>1, <1>2, <1>3, <1>4 DEF Thread

LEMMA OuterKeepsType == TypeOK /\ Outer => TypeOK'
<1> SUFFICES ASSUME TypeOK, Outer PROVE TypeOK'
  OBVIOUS
<1> USE RunAssumption DEF TypeOK, MainStep, Habit, Goto, threads, procs, pipes, Outside,
        Process, Stream, Live, Running, Doomed
<1>1. CASE Reuse
  BY <1>1 DEF Reuse
<1>2. CASE \E p \in Process, k \in Kin : Fork(p, k)
  BY <1>2 DEF Fork
<1>3. CASE \E p \in Process : Detach(p)
  BY <1>3 DEF Detach
<1>4. CASE \E p \in Process, s \in Stream : Close(p, s)
  BY <1>4 DEF Close
<1>5. CASE \E p \in Process, s \in Stream : BeginWrite(p, s)
  BY <1>5 DEF BeginWrite
<1>6. CASE \E p \in Process, s \in Stream : EndWrite(p, s)
  BY <1>6 DEF EndWrite
<1>7. CASE \E p \in Process : Exit(p)
  BY <1>7 DEF Exit, End
<1>8. CASE \E p \in Process : HandleTerm(p)
  BY <1>8 DEF HandleTerm, End
<1>9. CASE \E p \in Process : Die(p)
  BY <1>9 DEF Die, End
<1>10. QED
  BY <1>1, <1>2, <1>3, <1>4, <1>5, <1>6, <1>7, <1>8, <1>9 DEF Outer

-------------------------------------------------------------------------------
(* What is written to a pipe is read, or is still in it. *)

LEMMA MainKeepsStream == IInv /\ Main => StreamInv'
<1> SUFFICES ASSUME IInv, Main PROVE StreamInv'
  OBVIOUS
<1> USE RunAssumption DEF IInv, StreamInv, TypeOK, MainStep, Habit, Goto, threads,
        procs, pipes, Outside, Process, Stream, Live, Running, Doomed
<1>1. CASE Spawn
  BY <1>1 DEF Spawn
<1>2. CASE SpawnFails
  BY <1>2 DEF SpawnFails
<1>3. CASE Receive
  BY <1>3 DEF Receive
<1>4. CASE TimeoutExpires
  BY <1>4 DEF TimeoutExpires
<1>5. CASE Terminate
  BY <1>5 DEF Terminate, Signal, KeepOthers
<1>6. CASE GraceExpires
  BY <1>6 DEF GraceExpires
<1>7. CASE Kill
  BY <1>7 DEF Kill, Signal, KeepOthers
<1>8. CASE JoinWaiter
  BY <1>8 DEF JoinWaiter
<1>9. CASE JoinOut
  BY <1>9 DEF JoinOut
<1>10. CASE JoinErr
  BY <1>10 DEF JoinErr
<1>11. QED
  BY <1>1, <1>2, <1>3, <1>4, <1>5, <1>6, <1>7, <1>8, <1>9, <1>10 DEF Main

LEMMA ThreadKeepsStream == IInv /\ Thread => StreamInv'
<1> SUFFICES ASSUME IInv, Thread PROVE StreamInv'
  OBVIOUS
<1> USE RunAssumption DEF IInv, StreamInv, TypeOK, MainStep, Habit, Goto, threads,
        procs, pipes, Outside, Process, Stream, Live, Running, Doomed
<1>1. CASE Reap
  BY <1>1 DEF Reap
<1>2. CASE Announce
  BY <1>2 DEF Announce
<1>3. CASE \E s \in Stream : ReadChunk(s)
  BY <1>3 DEF ReadChunk
<1>4. CASE \E s \in Stream : ReadEof(s)
  BY <1>4 DEF ReadEof
<1>5. QED
  BY <1>1, <1>2, <1>3, <1>4 DEF Thread

LEMMA OuterKeepsStream == IInv /\ Outer => StreamInv'
<1> SUFFICES ASSUME IInv, Outer PROVE StreamInv'
  OBVIOUS
<1> USE RunAssumption DEF IInv, StreamInv, TypeOK, MainStep, Habit, Goto, threads,
        procs, pipes, Outside, Process, Stream, Live, Running, Doomed
<1>1. CASE Reuse
  BY <1>1 DEF Reuse
<1>2. CASE \E p \in Process, k \in Kin : Fork(p, k)
  BY <1>2 DEF Fork
<1>3. CASE \E p \in Process : Detach(p)
  BY <1>3 DEF Detach
<1>4. CASE \E p \in Process, s \in Stream : Close(p, s)
  BY <1>4 DEF Close
<1>5. CASE \E p \in Process, s \in Stream : BeginWrite(p, s)
  BY <1>5 DEF BeginWrite
<1>6. CASE \E p \in Process, s \in Stream : EndWrite(p, s)
  BY <1>6 DEF EndWrite
<1>7. CASE \E p \in Process : Exit(p)
  BY <1>7 DEF Exit, End
<1>8. CASE \E p \in Process : HandleTerm(p)
  BY <1>8 DEF HandleTerm, End
<1>9. CASE \E p \in Process : Die(p)
  BY <1>9 DEF Die, End
<1>10. QED
  BY <1>1, <1>2, <1>3, <1>4, <1>5, <1>6, <1>7, <1>8, <1>9 DEF Outer

-------------------------------------------------------------------------------
(* The end of the child. *)

LEMMA MainKeepsWaiter == IInv /\ Main => WaiterInv'
<1> SUFFICES ASSUME IInv, Main PROVE WaiterInv'
  OBVIOUS
<1> USE RunAssumption DEF IInv, WaiterInv, TypeOK, MainStep, Habit, Goto, threads,
        procs, pipes, Outside, Process, Stream, Live, Running, Doomed
<1>1. CASE Spawn
  BY <1>1 DEF Spawn
<1>2. CASE SpawnFails
  BY <1>2 DEF SpawnFails
<1>3. CASE Receive
  BY <1>3 DEF Receive
<1>4. CASE TimeoutExpires
  BY <1>4 DEF TimeoutExpires
<1>5. CASE Terminate
  BY <1>5 DEF Terminate, Signal, KeepOthers
<1>6. CASE GraceExpires
  BY <1>6 DEF GraceExpires
<1>7. CASE Kill
  BY <1>7 DEF Kill, Signal, KeepOthers
<1>8. CASE JoinWaiter
  BY <1>8 DEF JoinWaiter
<1>9. CASE JoinOut
  BY <1>9 DEF JoinOut
<1>10. CASE JoinErr
  BY <1>10 DEF JoinErr
<1>11. QED
  BY <1>1, <1>2, <1>3, <1>4, <1>5, <1>6, <1>7, <1>8, <1>9, <1>10 DEF Main

LEMMA ThreadKeepsWaiter == IInv /\ Thread => WaiterInv'
<1> SUFFICES ASSUME IInv, Thread PROVE WaiterInv'
  OBVIOUS
<1> USE RunAssumption DEF IInv, WaiterInv, TypeOK, MainStep, Habit, Goto, threads,
        procs, pipes, Outside, Process, Stream, Live, Running, Doomed
<1>1. CASE Reap
  BY <1>1 DEF Reap
<1>2. CASE Announce
  BY <1>2 DEF Announce
<1>3. CASE \E s \in Stream : ReadChunk(s)
  BY <1>3 DEF ReadChunk
<1>4. CASE \E s \in Stream : ReadEof(s)
  BY <1>4 DEF ReadEof
<1>5. QED
  BY <1>1, <1>2, <1>3, <1>4 DEF Thread

LEMMA OuterKeepsWaiter == IInv /\ Outer => WaiterInv'
<1> SUFFICES ASSUME IInv, Outer PROVE WaiterInv'
  OBVIOUS
<1> USE RunAssumption DEF IInv, WaiterInv, TypeOK, MainStep, Habit, Goto, threads,
        procs, pipes, Outside, Process, Stream, Live, Running, Doomed
<1>1. CASE Reuse
  BY <1>1 DEF Reuse
<1>2. CASE \E p \in Process, k \in Kin : Fork(p, k)
  BY <1>2 DEF Fork
<1>3. CASE \E p \in Process : Detach(p)
  BY <1>3 DEF Detach
<1>4. CASE \E p \in Process, s \in Stream : Close(p, s)
  BY <1>4 DEF Close
<1>5. CASE \E p \in Process, s \in Stream : BeginWrite(p, s)
  BY <1>5 DEF BeginWrite
<1>6. CASE \E p \in Process, s \in Stream : EndWrite(p, s)
  BY <1>6 DEF EndWrite
<1>7. CASE \E p \in Process : Exit(p)
  BY <1>7 DEF Exit, End
<1>8. CASE \E p \in Process : HandleTerm(p)
  BY <1>8 DEF HandleTerm, End
<1>9. CASE \E p \in Process : Die(p)
  BY <1>9 DEF Die, End
<1>10. QED
  BY <1>1, <1>2, <1>3, <1>4, <1>5, <1>6, <1>7, <1>8, <1>9 DEF Outer

-------------------------------------------------------------------------------
(* Who is signalled, and who is spared. *)

LEMMA MainKeepsSignal == IInv /\ Main => SignalInv'
<1> SUFFICES ASSUME IInv, Main PROVE SignalInv'
  OBVIOUS
<1> USE RunAssumption DEF IInv, SignalInv, WaiterInv, Warned, Cleared, GroupExists,
        TypeOK, MainStep, Habit, Goto, threads, procs, pipes, Outside, Process, Stream,
        Live, Running, Doomed
<1>1. CASE Spawn
  BY <1>1 DEF Spawn
<1>2. CASE SpawnFails
  BY <1>2 DEF SpawnFails
<1>3. CASE Receive
  BY <1>3 DEF Receive
<1>4. CASE TimeoutExpires
  BY <1>4 DEF TimeoutExpires
<1>5. CASE Terminate
  BY <1>5 DEF Terminate, Signal, KeepOthers
<1>6. CASE GraceExpires
  BY <1>6 DEF GraceExpires
<1>7. CASE Kill
  BY <1>7 DEF Kill, Signal, KeepOthers
<1>8. CASE JoinWaiter
  BY <1>8 DEF JoinWaiter
<1>9. CASE JoinOut
  BY <1>9 DEF JoinOut
<1>10. CASE JoinErr
  BY <1>10 DEF JoinErr
<1>11. QED
  BY <1>1, <1>2, <1>3, <1>4, <1>5, <1>6, <1>7, <1>8, <1>9, <1>10 DEF Main

LEMMA ThreadKeepsSignal == IInv /\ Thread => SignalInv'
<1> SUFFICES ASSUME IInv, Thread PROVE SignalInv'
  OBVIOUS
<1> USE RunAssumption DEF IInv, SignalInv, WaiterInv, Warned, Cleared, GroupExists,
        TypeOK, MainStep, Habit, Goto, threads, procs, pipes, Outside, Process, Stream,
        Live, Running, Doomed
<1>1. CASE Reap
  BY <1>1 DEF Reap
<1>2. CASE Announce
  BY <1>2 DEF Announce
<1>3. CASE \E s \in Stream : ReadChunk(s)
  BY <1>3 DEF ReadChunk
<1>4. CASE \E s \in Stream : ReadEof(s)
  BY <1>4 DEF ReadEof
<1>5. QED
  BY <1>1, <1>2, <1>3, <1>4 DEF Thread

LEMMA OuterKeepsSignal == IInv /\ Outer => SignalInv'
<1> SUFFICES ASSUME IInv, Outer PROVE SignalInv'
  OBVIOUS
<1> USE RunAssumption DEF IInv, SignalInv, WaiterInv, Warned, Cleared, GroupExists,
        TypeOK, MainStep, Habit, Goto, threads, procs, pipes, Outside, Process, Stream,
        Live, Running, Doomed
<1>1. CASE Reuse
  BY <1>1 DEF Reuse
<1>2. CASE \E p \in Process, k \in Kin : Fork(p, k)
  <2>1. PICK p \in Process, k \in Kin : Fork(p, k)
    BY <1>2
  <2>2. /\ Running(p) /\ Live' = Live \cup {k} /\ k # Child /\ k \notin group
        /\ group' = (IF p \in group THEN group \cup {k} ELSE group)
        /\ UNCHANGED <<main, timedOut, how, habit, pending, stranger>>
    BY <2>1 DEF Fork
  <2>3. Warned => Warned'
    <3>1. CASE p \in group
      BY <2>2, <3>1
    <3>2. CASE p \notin group
      <4>1. group' \cap Live' = group \cap Live
        BY <2>2, <3>2
      <4>2. QED
        BY <2>2, <4>1
    <3>3. QED
      BY <3>1, <3>2
  <2>4. Cleared => Cleared'
    <3>1. CASE p \in group
      BY <2>2, <3>1
    <3>2. CASE p \notin group
      <4>1. group' \cap Live' = group \cap Live
        BY <2>2, <3>2
      <4>2. QED
        BY <2>2, <4>1
    <3>3. QED
      BY <3>1, <3>2
  <2>5. QED
    BY <2>2, <2>3, <2>4
<1>3. CASE \E p \in Process : Detach(p)
  BY <1>3 DEF Detach
<1>4. CASE \E p \in Process, s \in Stream : Close(p, s)
  BY <1>4 DEF Close
<1>5. CASE \E p \in Process, s \in Stream : BeginWrite(p, s)
  BY <1>5 DEF BeginWrite
<1>6. CASE \E p \in Process, s \in Stream : EndWrite(p, s)
  BY <1>6 DEF EndWrite
<1>7. CASE \E p \in Process : Exit(p)
  BY <1>7 DEF Exit, End
<1>8. CASE \E p \in Process : HandleTerm(p)
  BY <1>8 DEF HandleTerm, End
<1>9. CASE \E p \in Process : Die(p)
  BY <1>9 DEF Die, End
<1>10. QED
  BY <1>1, <1>2, <1>3, <1>4, <1>5, <1>6, <1>7, <1>8, <1>9 DEF Outer

-------------------------------------------------------------------------------

(* Streams, threads and signals of a run, from spawn to the last join.     *)
THEOREM InvariantHolds == Spec => []IInv
<1>1. IInv /\ [Next]_vars => IInv'
  <2> SUFFICES ASSUME IInv, [Next]_vars PROVE IInv'
    OBVIOUS
  <2>1. TypeOK
    BY DEF IInv
  <2>2. CASE Main
    BY <2>1, <2>2, MainKeepsType, MainKeepsStream, MainKeepsWaiter, MainKeepsSignal DEF IInv
  <2>3. CASE Thread
    BY <2>1, <2>3, ThreadKeepsType, ThreadKeepsStream, ThreadKeepsWaiter, ThreadKeepsSignal DEF IInv
  <2>4. CASE Outer
    BY <2>1, <2>4, OuterKeepsType, OuterKeepsStream, OuterKeepsWaiter, OuterKeepsSignal DEF IInv
  <2>5. CASE UNCHANGED vars
    BY <2>5 DEF vars, threads, procs, pipes, IInv, TypeOK, StreamInv, WaiterInv, SignalInv,
         Warned, Cleared, Live, Doomed
  <2>6. QED
    BY <2>2, <2>3, <2>4, <2>5 DEF Next, Outer, Behave, Proceed
<1>2. QED
  BY InitIInv, <1>1, PTL DEF Spec

(* Every thread, process and pipe keeps its type, and no reader keeps more *)
(* than its limit.                                                         *)
THEOREM TypeCorrect == Spec => []TypeOK
<1>1. IInv => TypeOK
  BY DEF IInv
<1>2. QED
  BY <1>1, InvariantHolds, PTL

(* spawn_and_wait returns all that was written, up to the limit, and only  *)
(* when nobody can write any more.                                         *)
THEOREM NothingIsMissed == Spec => []CaptureIsComplete
<1>1. IInv => CaptureIsComplete
  <2> SUFFICES ASSUME IInv, main = "done", NEW s \in Stream
               PROVE  /\ kept[s] = IF sent[s] < Limit THEN sent[s] ELSE Limit
                      /\ pipe[s] = 0
                      /\ \A p \in Live : s \notin held[p]
    BY DEF CaptureIsComplete
  <2>1. reader[s] = "ended"
    BY DEF IInv, StreamInv, Stream
  <2>2. QED
    BY <2>1 DEF IInv, StreamInv, TypeOK
<1>2. QED
  BY <1>1, InvariantHolds, PTL

(* signal_group: a run in time signals nobody, and of one that timed out   *)
(* only the stated exceptions survive.                                     *)
THEOREM WhoIsSpared == Spec => []NoSurvivor
<1>1. IInv => NoSurvivor
  BY DEF IInv, SignalInv, Cleared, NoSurvivor
<1>2. QED
  BY <1>1, InvariantHolds, PTL
===============================================================================
