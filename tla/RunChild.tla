------------------------------- MODULE RunChild -------------------------------
(***************************************************************************)
(* spawn_and_wait of `kpexec run` (src/src/cmd_run.rs): a child process in *)
(* a group of its own, the descendants it forks, the two pipes they write  *)
(* to, a thread that waits for the child, a thread that drains each pipe,  *)
(* and the main thread with its timeout.                                   *)
(*                                                                         *)
(* Processes are free to fork, to leave the group, to close the pipes, to  *)
(* exit, and to take SIGTERM in three ways; a write to a full pipe blocks. *)
(* A chunk of output is a unit; the bound a reader keeps is a number of    *)
(* chunks.  Timers fire at any moment their receive is still empty.        *)
(***************************************************************************)
EXTENDS Naturals, FiniteSets

CONSTANTS
  Child, Kin,       \* the spawned process, and the descendants it may fork
  ChildMay, KinMay, \* how they may take SIGTERM
  CanDetach,        \* may descendants leave the process group?
  PidReuse,         \* may a stranger's group get the child's PID?
  PipeCap,          \* chunks a pipe holds
  Limit,            \* chunks a reader keeps (capture_limit)
  MaxOut            \* bound on the chunks written to a pipe

\* On SIGTERM a process dies of it, or goes on for a while and exits when it
\* chooses, or hangs and never exits of its own accord.
Habit == {"dies", "handles", "hangs"}

ASSUME RunAssumption ==
  /\ Child \notin Kin
  /\ ChildMay \subseteq Habit /\ KinMay \subseteq Habit
  /\ {CanDetach, PidReuse} \subseteq BOOLEAN
  /\ PipeCap \in Nat \ {0} /\ Limit \in Nat /\ MaxOut \in Nat

Process == {Child} \cup Kin
Stream == {"stdout", "stderr"}

VARIABLES
  main,      \* the main thread's next step
  timedOut,  \* its verdict
  waiter,    \* the waiting thread
  chan,      \* is its message in the channel?
  reader,    \* the reader threads
  kept,      \* chunks they retain
  state,     \* of each process
  how,       \* how the child ended
  habit,     \* what a process does on SIGTERM
  pending,   \* the strongest signal a process was sent
  group,     \* members of the child's process group
  held,      \* the write ends a process holds
  want,      \* the write a process is in
  pipe,      \* chunks in each pipe
  sent,      \* chunks ever written to each pipe
  stranger   \* a group of another user program under the child's PID

threads == <<waiter, chan, reader, kept>>
procs == <<state, how, habit, pending, group, held, want>>
pipes == <<pipe, sent>>
vars == <<main, timedOut, threads, procs, pipes, stranger>>

MainStep ==
  {"spawn", "wait", "term", "grace", "kill", "joinwaiter", "joinout", "joinerr", "done", "failed"}

TypeOK ==
  /\ main \in MainStep /\ timedOut \in BOOLEAN
  /\ waiter \in {"none", "waiting", "reaped", "ended"} /\ chan \in BOOLEAN
  /\ reader \in [Stream -> {"none", "reading", "ended"}]
  /\ kept \in [Stream -> 0..Limit]
  /\ state \in [Process -> {"none", "live", "zombie", "gone"}]
  /\ how \in {"none", "exit", "term", "kill"}
  /\ habit \in [Process -> Habit]
  /\ pending \in [Process -> {"none", "term", "kill"}]
  /\ group \subseteq Process
  /\ held \in [Process -> SUBSET Stream]
  /\ want \in [Process -> Stream \cup {"nothing"}]
  /\ pipe \in [Stream -> 0..PipeCap] /\ sent \in [Stream -> 0..MaxOut]
  /\ stranger \in {"none", "present", "hit"}

Init ==
  /\ main = "spawn" /\ timedOut = FALSE
  /\ waiter = "none" /\ chan = FALSE
  /\ reader = [s \in Stream |-> "none"] /\ kept = [s \in Stream |-> 0]
  /\ state = [p \in Process |-> "none"] /\ how = "none"
  /\ habit \in {h \in [Process -> ChildMay \cup KinMay] :
                  h[Child] \in ChildMay /\ \A k \in Kin : h[k] \in KinMay}
  /\ pending = [p \in Process |-> "none"] /\ group = {}
  /\ held = [p \in Process |-> {}] /\ want = [p \in Process |-> "nothing"]
  /\ pipe = [s \in Stream |-> 0] /\ sent = [s \in Stream |-> 0]
  /\ stranger = "none"

Goto(next) == main' = next

Live == {p \in Process : state[p] = "live"}

\* A process with a fatal signal pending takes no further step of its own.
Doomed(p) == pending[p] = "kill" \/ (pending[p] = "term" /\ habit[p] = "dies")

Running(p) == p \in Live /\ ~Doomed(p)

\* The group id is taken as long as a member has not been reaped.
GroupExists == \E p \in group : state[p] \in {"live", "zombie"}

\* (A faulty variant of Signal, for mutation testing: kill(pid, signal)
\* reaches the child alone.)
SignalChildOnly(signal) ==
  /\ pending' = [pending EXCEPT ![Child] = signal]
  /\ UNCHANGED stranger

\* signal_group: kill(-pid, signal), its result ignored.
Signal(signal) ==
  IF GroupExists \/ stranger = "none"
  THEN /\ pending' = [p \in Process |->
                        IF p \in group \cap Live /\ pending[p] # "kill"
                        THEN signal ELSE pending[p]]
       /\ UNCHANGED stranger
  ELSE stranger' = "hit" /\ UNCHANGED pending

KeepOthers == UNCHANGED <<state, how, habit, group, held, want>>

-------------------------------------------------------------------------------
(* Faulty variants of single steps, for mutation testing of the properties *)
(* below; the specification does not use them.                             *)

\* ReadChunk: a reader stops at its limit instead of draining.
StopAtLimit(s) ==
  /\ reader[s] = "reading" /\ pipe[s] > 0 /\ kept[s] < Limit
  /\ pipe' = [pipe EXCEPT ![s] = @ - 1]
  /\ kept' = [kept EXCEPT ![s] = @ + 1]
  /\ UNCHANGED <<main, timedOut, waiter, chan, reader, procs, sent, stranger>>

\* ReadChunk: everything is retained.
KeepEverything(s) ==
  /\ reader[s] = "reading" /\ pipe[s] > 0
  /\ pipe' = [pipe EXCEPT ![s] = @ - 1]
  /\ kept' = [kept EXCEPT ![s] = @ + 1]
  /\ UNCHANGED <<main, timedOut, waiter, chan, reader, procs, sent, stranger>>

\* JoinErr: the exit of the child counts as the end of its output.
StderrNotJoined ==
  /\ main = "joinerr" /\ Goto("done")
  /\ UNCHANGED <<timedOut, threads, procs, pipes, stranger>>

\* GraceExpires: the second signal is forgotten.
NoSecondSignal ==
  /\ main = "grace" /\ ~chan /\ Goto("joinwaiter")
  /\ UNCHANGED <<timedOut, threads, procs, pipes, stranger>>

-------------------------------------------------------------------------------
(* The main thread. *)

Spawn ==
  /\ main = "spawn" /\ Goto("wait")
  /\ state' = [state EXCEPT ![Child] = "live"] /\ group' = {Child}
  /\ held' = [held EXCEPT ![Child] = Stream]
  /\ reader' = [s \in Stream |-> "reading"] /\ waiter' = "waiting"
  /\ UNCHANGED <<timedOut, chan, kept, how, habit, pending, want, pipes, stranger>>

SpawnFails ==
  /\ main = "spawn" /\ Goto("failed")
  /\ UNCHANGED <<timedOut, threads, procs, pipes, stranger>>

\* recv_timeout returns the message, within the timeout or within the grace.
Receive ==
  /\ main \in {"wait", "grace"} /\ chan /\ chan' = FALSE /\ Goto("joinwaiter")
  /\ UNCHANGED <<timedOut, waiter, reader, kept, procs, pipes, stranger>>

TimeoutExpires ==
  /\ main = "wait" /\ ~chan /\ timedOut' = TRUE /\ Goto("term")
  /\ UNCHANGED <<threads, procs, pipes, stranger>>

Terminate ==
  /\ main = "term" /\ Signal("term") /\ Goto("grace")
  /\ KeepOthers /\ UNCHANGED <<timedOut, threads, pipes>>

GraceExpires ==
  /\ main = "grace" /\ ~chan /\ Goto("kill")
  /\ UNCHANGED <<timedOut, threads, procs, pipes, stranger>>

Kill ==
  /\ main = "kill" /\ Signal("kill") /\ Goto("joinwaiter")
  /\ KeepOthers /\ UNCHANGED <<timedOut, threads, pipes>>

JoinWaiter ==
  /\ main = "joinwaiter" /\ waiter = "ended" /\ Goto("joinout")
  /\ UNCHANGED <<timedOut, threads, procs, pipes, stranger>>

JoinOut ==
  /\ main = "joinout" /\ reader["stdout"] = "ended" /\ Goto("joinerr")
  /\ UNCHANGED <<timedOut, threads, procs, pipes, stranger>>

JoinErr ==
  /\ main = "joinerr" /\ reader["stderr"] = "ended" /\ Goto("done")
  /\ UNCHANGED <<timedOut, threads, procs, pipes, stranger>>

-------------------------------------------------------------------------------
(* The waiter and the readers. *)

Reap ==
  /\ waiter = "waiting" /\ state[Child] = "zombie"
  /\ state' = [state EXCEPT ![Child] = "gone"] /\ waiter' = "reaped"
  /\ UNCHANGED <<main, timedOut, chan, reader, kept, how, habit, pending, group, held, want, pipes, stranger>>

Announce ==
  /\ waiter = "reaped" /\ chan' = TRUE /\ waiter' = "ended"
  /\ UNCHANGED <<main, timedOut, reader, kept, procs, pipes, stranger>>

\* Past its limit a reader drains without retaining.
ReadChunk(s) ==
  /\ reader[s] = "reading" /\ pipe[s] > 0
  /\ pipe' = [pipe EXCEPT ![s] = @ - 1]
  /\ kept' = [kept EXCEPT ![s] = IF @ < Limit THEN @ + 1 ELSE @]
  /\ UNCHANGED <<main, timedOut, waiter, chan, reader, procs, sent, stranger>>

\* End of file: the pipe is empty and nobody holds its write end.
ReadEof(s) ==
  /\ reader[s] = "reading" /\ pipe[s] = 0
  /\ \A p \in Live : s \notin held[p]
  /\ reader' = [reader EXCEPT ![s] = "ended"]
  /\ UNCHANGED <<main, timedOut, waiter, chan, kept, procs, pipes, stranger>>

-------------------------------------------------------------------------------
(* The child and its descendants. *)

Outside == UNCHANGED <<main, timedOut, threads, stranger>>

Fork(p, k) ==
  /\ Running(p) /\ want[p] = "nothing" /\ state[k] = "none"
  /\ state' = [state EXCEPT ![k] = "live"]
  /\ group' = IF p \in group THEN group \cup {k} ELSE group
  /\ held' = [held EXCEPT ![k] = held[p]]
  /\ Outside /\ UNCHANGED <<how, habit, pending, want, pipes>>

\* setsid; the leader of the group cannot.
Detach(k) ==
  /\ CanDetach /\ Running(k) /\ k # Child /\ k \in group
  /\ group' = group \ {k}
  /\ Outside /\ UNCHANGED <<state, how, habit, pending, held, want, pipes>>

Close(p, s) ==
  /\ Running(p) /\ want[p] = "nothing" /\ s \in held[p]
  /\ held' = [held EXCEPT ![p] = @ \ {s}]
  /\ Outside /\ UNCHANGED <<state, how, habit, pending, group, want, pipes>>

BeginWrite(p, s) ==
  /\ Running(p) /\ want[p] = "nothing" /\ s \in held[p] /\ sent[s] < MaxOut
  /\ want' = [want EXCEPT ![p] = s]
  /\ Outside /\ UNCHANGED <<state, how, habit, pending, group, held, pipes>>

EndWrite(p, s) ==
  /\ Running(p) /\ want[p] = s
  /\ IF sent[s] < MaxOut
     THEN /\ pipe[s] < PipeCap
          /\ pipe' = [pipe EXCEPT ![s] = @ + 1] /\ sent' = [sent EXCEPT ![s] = @ + 1]
     ELSE UNCHANGED pipes
  /\ want' = [want EXCEPT ![p] = "nothing"]
  /\ Outside /\ UNCHANGED <<state, how, habit, pending, group, held>>

\* A dead child stays a zombie until it is reaped; launchd reaps the others.
End(p, manner) ==
  /\ state' = [state EXCEPT ![p] = IF p = Child THEN "zombie" ELSE "gone"]
  /\ how' = IF p = Child THEN manner ELSE how
  /\ held' = [held EXCEPT ![p] = {}] /\ want' = [want EXCEPT ![p] = "nothing"]
  /\ Outside /\ UNCHANGED <<habit, pending, group, pipes>>

Exit(p) ==
  /\ Running(p) /\ want[p] = "nothing"
  /\ habit[p] = "hangs" => pending[p] = "none"
  /\ End(p, "exit")

\* A handler for SIGTERM that cleans up and exits.
HandleTerm(p) == Running(p) /\ pending[p] = "term" /\ habit[p] = "handles" /\ End(p, "exit")

Die(p) == p \in Live /\ Doomed(p) /\ End(p, pending[p])

\* The PID, no longer used, goes to the leader of a new group.
Reuse ==
  /\ PidReuse /\ waiter # "none" /\ ~GroupExists /\ stranger = "none"
  /\ stranger' = "present"
  /\ UNCHANGED <<main, timedOut, threads, procs, pipes>>

-------------------------------------------------------------------------------

Main ==
  \/ Spawn \/ SpawnFails \/ Receive \/ TimeoutExpires \/ Terminate
  \/ GraceExpires \/ Kill \/ JoinWaiter \/ JoinOut \/ JoinErr

Thread == Reap \/ Announce \/ \E s \in Stream : ReadChunk(s) \/ ReadEof(s)

Behave(p) ==
  \/ \E k \in Kin : Fork(p, k)
  \/ \E s \in Stream : Close(p, s) \/ BeginWrite(p, s)
  \/ Exit(p)

\* What the kernel, or the program on its own SIGTERM, sees through.
Proceed(p) == HandleTerm(p) \/ Die(p) \/ \E s \in Stream : EndWrite(p, s)

Next ==
  \/ Main \/ Thread \/ Reuse
  \/ \E p \in Process : Behave(p) \/ Proceed(p) \/ Detach(p)

Spec == Init /\ [][Next]_vars

\* Threads are scheduled, time passes, blocked writes resume and signals are
\* delivered.  Nothing makes a process exit.
FairSpec ==
  /\ Spec
  /\ WF_vars(Main) /\ WF_vars(Reap \/ Announce)
  /\ \A s \in Stream : WF_vars(ReadChunk(s) \/ ReadEof(s))
  /\ \A p \in Process : WF_vars(Proceed(p))

-------------------------------------------------------------------------------
(* Properties. *)

\* What the run returns of a stream is all that anybody wrote to it, up to the
\* limit, and nobody can write to it any more (the readers are joined after
\* the child, and reach end of file only when every descendant closed it).
CaptureIsComplete ==
  main = "done" => \A s \in Stream :
    /\ kept[s] = IF sent[s] < Limit THEN sent[s] ELSE Limit
    /\ pipe[s] = 0
    /\ \A p \in Live : s \notin held[p]

\* A run that did not time out signalled nobody.  One that did, and whose
\* child was ended by its signals, left no live member of the group without a
\* fatal signal ("Signalling the group tears down the whole tree"), unless the
\* child died of SIGTERM and a descendant did not.  A child that exits by
\* itself during the grace period spares what it forked meanwhile.
NoSurvivor ==
  main = "done" =>
    IF timedOut
    THEN \/ how = "exit"
         \/ \A p \in group \cap Live : Doomed(p)
         \/ how = "term" /\ \E p \in Kin : pending[p] = "term" /\ habit[p] # "dies"
    ELSE stranger # "hit" /\ \A p \in Process : pending[p] = "none"

\* A run that does not end is kept open by a process that could go on but
\* does not, with a pipe in its hands, and that SIGKILL missed because it left
\* the group or because the child ended before SIGKILL was due.  So no pipe
\* blocks a process: not a reader that has all it keeps, nor one stream
\* waiting for the other; and a child that hangs on SIGTERM ends.
OnlySparedProcessesDelay ==
  []<>(\/ main \in {"spawn", "done", "failed"}
       \/ \E p \in Process :
            /\ Running(p) /\ want[p] = "nothing" /\ held[p] # {}
            /\ p \notin group \/ how \in {"exit", "term"})

\* signal_group ("This is what makes the timeout enforceable even against
\* targets that spawn long-running grandchildren holding the output pipes
\* open"): once the timeout has expired the run ends.
TimeoutEnds == main = "term" ~> main = "done"
===============================================================================
