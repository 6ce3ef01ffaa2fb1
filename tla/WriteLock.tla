------------------------------- MODULE WriteLock -------------------------------
(***************************************************************************)
(* The vault write lock (src/src/lock.rs): `<vault>.kpexec-lock` holds the *)
(* PID of the process that writes the vault.  VaultLock::acquire is a      *)
(* sequence of file operations with nothing to make it atomic, so each is  *)
(* an action here.  Processes start, are killed and have their PIDs        *)
(* reused; KeePassXC, which knows nothing of kpexec's lock, opens and      *)
(* closes the database as its user likes.                                  *)
(*                                                                         *)
(* The names differ from those of VaultSession, whose commands take this   *)
(* lock, so that both can be extended by the module of their proofs.       *)
(***************************************************************************)
EXTENDS Naturals, FiniteSets

CONSTANTS
  Proc,          \* kpexec commands that write the vault
  Pid,           \* process identifiers
  NoPid,         \* the process is not running
  NoLock,        \* the lock file does not exist
  Unparsable,    \* it exists but names no PID: created and not yet written
  Outsiders,     \* may programs other than kpexec be given a PID?
  MaxLockFaults  \* bound on crashes, failed writes, KeePassXC sessions, reused PIDs

ASSUME LockAssumption ==
  /\ NoPid \notin Pid /\ NoLock \notin Pid /\ Unparsable \notin Pid
  /\ NoLock # Unparsable
  /\ Outsiders \in BOOLEAN /\ MaxLockFaults \in Nat

VARIABLES
  lockFile,    \* what is at the lock path
  stage, pid,  \* per process: its next operation, and its identifier
  seen,        \* the lock content a process read
  linked,      \* processes whose open lock file is still the one at the path
  others,      \* identifiers of live programs that are not kpexec
  kpxc,        \* KeePassXC: "closed", "editing", or crashed with its lockfile left
  disturbed,   \* history: the processes there when one read while another decided, or
               \* failed to read beside a holder, and those that came to them since
  lockFaults

lockVars == <<lockFile, stage, pid, seen, linked, others, kpxc, disturbed, lockFaults>>

AcquireStep == {"kpxc", "read", "judge", "remove", "create", "write"}

Acquiring == {p \in Proc : stage[p] \in AcquireStep}
Holders == {p \in Proc : stage[p] = "held"}
Running == Acquiring \cup Holders

\* Between its read of the lock file and its own entry there, a process acts on
\* what it read.
Deciding == {p \in Proc : stage[p] \in AcquireStep \ {"kpxc", "read"}}
Engaged == Deciding \cup Holders

\* process_alive: kill(pid, 0) finds the process, of whatever program.
Alive == {pid[p] : p \in Running} \cup others

LockTypeOK ==
  /\ lockFile \in Pid \cup {NoLock, Unparsable}
  /\ stage \in [Proc -> {"exited", "held"} \cup AcquireStep]
  /\ pid \in [Proc -> Pid \cup {NoPid}]
  /\ seen \in [Proc -> Pid \cup {NoLock, Unparsable}]
  /\ linked \subseteq Proc
  /\ others \subseteq Pid
  /\ kpxc \in {"closed", "editing", "stale"}
  /\ disturbed \subseteq Proc
  /\ lockFaults \in Nat

\* Also the state after a crash: a lock naming a process that is gone.
LockInit ==
  /\ lockFile \in Pid \cup {NoLock, Unparsable}
  /\ stage = [p \in Proc |-> "exited"] /\ pid = [p \in Proc |-> NoPid]
  /\ seen = [p \in Proc |-> NoLock]
  /\ linked = {} /\ others = {}
  /\ kpxc = "closed" /\ disturbed = {} /\ lockFaults = 0

Enter(p, next) == stage' = [stage EXCEPT ![p] = next]

\* A process begins to decide on what it read; a disturbance catches all.
Decide(p, disturbance) ==
  /\ Enter(p, "judge")
  /\ disturbed' = IF disturbed # {} \/ disturbance THEN Engaged \cup {p} ELSE {}

Exit(p) ==
  /\ Enter(p, "exited") /\ pid' = [pid EXCEPT ![p] = NoPid]
  /\ disturbed' = disturbed \ {p}

LockFault == lockFaults < MaxLockFaults /\ lockFaults' = lockFaults + 1

Environment == <<others, kpxc>>

-------------------------------------------------------------------------------
(* Faulty variants of single steps, for mutation testing of the properties *)
(* below; the specification does not use them.                             *)

\* RefuseLive: the guard is built first, so refusing drops it.
RefusalDropsLock(p) ==
  /\ stage[p] = "judge" /\ seen[p] \in Alive \ {pid[p]} /\ Exit(p)
  /\ lockFile' = NoLock /\ linked' = {}
  /\ UNCHANGED <<seen, Environment, lockFaults>>

\* RefuseLive: a lock that cannot be parsed counts as held.
RefuseUnreadable(p) ==
  /\ stage[p] = "judge" /\ seen[p] \in (Alive \ {pid[p]}) \cup {Unparsable} /\ Exit(p)
  /\ UNCHANGED <<lockFile, seen, linked, Environment, lockFaults>>

\* WriteLockInfo: the PID is taken from an exited process slot.
NoPidRecorded(p) ==
  /\ stage[p] = "write" /\ Enter(p, "held") /\ lockFile' = NoPid
  /\ UNCHANGED <<pid, seen, linked, Environment, disturbed, lockFaults>>

-------------------------------------------------------------------------------
(* VaultLock::acquire. *)

Start(p) ==
  /\ stage[p] = "exited"
  /\ \E n \in Pid \ Alive : pid' = [pid EXCEPT ![p] = n]
  /\ Enter(p, "kpxc")
  /\ UNCHANGED <<lockFile, seen, linked, Environment, disturbed, lockFaults>>

\* Refused while KeePassXC's lockfile exists, live or left behind.
RefuseKeePassXC(p) ==
  /\ stage[p] = "kpxc" /\ kpxc # "closed" /\ Exit(p)
  /\ UNCHANGED <<lockFile, seen, linked, Environment, lockFaults>>

PassKeePassXC(p) ==
  /\ stage[p] = "kpxc" /\ kpxc = "closed" /\ Enter(p, "read")
  /\ UNCHANGED <<lockFile, pid, seen, linked, Environment, disturbed, lockFaults>>

ReadLock(p) ==
  /\ stage[p] = "read" /\ seen' = [seen EXCEPT ![p] = lockFile] /\ Decide(p, Deciding # {})
  /\ UNCHANGED <<lockFile, pid, linked, Environment, lockFaults>>

\* read_to_string fails on a file that is there: acquire goes on as if there
\* were no lock.
ReadLockFails(p) ==
  /\ stage[p] = "read" /\ lockFile # NoLock /\ LockFault
  /\ seen' = [seen EXCEPT ![p] = NoLock] /\ Decide(p, Engaged # {})
  /\ UNCHANGED <<lockFile, pid, linked, Environment>>

\* Another process with the recorded PID is alive.
RefuseLive(p) ==
  /\ stage[p] = "judge" /\ seen[p] \in Alive \ {pid[p]} /\ Exit(p)
  /\ UNCHANGED <<lockFile, seen, linked, Environment, lockFaults>>

\* Dead holder, unparsable, or our own PID.
Reclaim(p) ==
  /\ stage[p] = "judge" /\ seen[p] \in (Pid \cup {Unparsable}) \ (Alive \ {pid[p]})
  /\ Enter(p, "remove")
  /\ UNCHANGED <<lockFile, pid, seen, linked, Environment, disturbed, lockFaults>>

FindFree(p) ==
  /\ stage[p] = "judge" /\ seen[p] = NoLock /\ Enter(p, "create")
  /\ UNCHANGED <<lockFile, pid, seen, linked, Environment, disturbed, lockFaults>>

\* remove_file takes whatever is at the path by now; its result is ignored.
RemoveStale(p) ==
  /\ stage[p] = "remove" /\ Enter(p, "create")
  /\ lockFile' = NoLock /\ linked' = {}
  /\ UNCHANGED <<pid, seen, Environment, disturbed, lockFaults>>

RemoveStaleFails(p) ==
  /\ stage[p] = "remove" /\ LockFault /\ Enter(p, "create")
  /\ UNCHANGED <<lockFile, pid, seen, linked, Environment, disturbed>>

\* std::fs::write first creates or truncates ...
CreateLock(p) ==
  /\ stage[p] = "create" /\ Enter(p, "write")
  /\ lockFile' = Unparsable /\ linked' = linked \cup {p}
  /\ UNCHANGED <<pid, seen, Environment, disturbed, lockFaults>>

\* ... then writes, into a file that may have been unlinked since.
WriteLockInfo(p) ==
  /\ stage[p] = "write" /\ Enter(p, "held")
  /\ lockFile' = IF p \in linked THEN pid[p] ELSE lockFile
  /\ UNCHANGED <<pid, seen, linked, Environment, disturbed, lockFaults>>

\* fs::write returns an error; an empty lock file may stay behind.
WriteFails(p) ==
  /\ stage[p] \in {"create", "write"} /\ LockFault /\ Exit(p)
  /\ UNCHANGED <<lockFile, seen, linked, Environment>>

-------------------------------------------------------------------------------

\* Drop removes the file at the path, whoever wrote it.
DropLock(p) ==
  /\ stage[p] = "held" /\ Exit(p)
  /\ lockFile' = NoLock /\ linked' = {}
  /\ UNCHANGED <<seen, Environment, lockFaults>>

\* Killed: Drop does not run.
Killed(p) ==
  /\ stage[p] # "exited" /\ LockFault /\ Exit(p)
  /\ UNCHANGED <<lockFile, seen, linked, Environment>>

OtherStarts ==
  /\ Outsiders /\ LockFault
  /\ \E n \in Pid \ Alive : others' = others \cup {n}
  /\ UNCHANGED <<lockFile, stage, pid, seen, linked, kpxc, disturbed>>

OtherExits ==
  /\ \E n \in others : others' = others \ {n}
  /\ UNCHANGED <<lockFile, stage, pid, seen, linked, kpxc, disturbed, lockFaults>>

KeePassXCOpens ==
  /\ kpxc # "editing" /\ LockFault /\ kpxc' = "editing"
  /\ UNCHANGED <<lockFile, stage, pid, seen, linked, others, disturbed>>

\* Closing, or the user deleting the lockfile of a crashed KeePassXC.
KeePassXCCloses ==
  /\ kpxc # "closed" /\ kpxc' = "closed"
  /\ UNCHANGED <<lockFile, stage, pid, seen, linked, others, disturbed, lockFaults>>

KeePassXCCrashes ==
  /\ kpxc = "editing" /\ LockFault /\ kpxc' = "stale"
  /\ UNCHANGED <<lockFile, stage, pid, seen, linked, others, disturbed>>

-------------------------------------------------------------------------------

AcquireLock(p) ==
  \/ RefuseKeePassXC(p) \/ PassKeePassXC(p) \/ ReadLock(p) \/ ReadLockFails(p)
  \/ RefuseLive(p) \/ Reclaim(p) \/ FindFree(p)
  \/ RemoveStale(p) \/ RemoveStaleFails(p)
  \/ CreateLock(p) \/ WriteLockInfo(p) \/ WriteFails(p)

World == OtherStarts \/ OtherExits \/ KeePassXCOpens \/ KeePassXCCloses \/ KeePassXCCrashes

LockNext == (\E p \in Proc : Start(p) \/ AcquireLock(p) \/ DropLock(p) \/ Killed(p)) \/ World

LockSpec == LockInit /\ [][LockNext]_lockVars

\* A started command runs until it exits or is killed; commands keep being
\* started; KeePassXC is closed at some point.  Nothing makes another program
\* that was given the recorded PID exit.
LockFairSpec ==
  /\ LockSpec
  /\ \A p \in Proc : WF_lockVars(AcquireLock(p) \/ DropLock(p)) /\ WF_lockVars(Start(p))
  /\ WF_lockVars(KeePassXCCloses)

-------------------------------------------------------------------------------
(* Properties. *)

\* lock.rs ("a second kpexec process sees the file and refuses", "adequate
\* for serializing kpexec-vs-kpexec"): at most one process holds the lock.
MutualExclusion == \A p, q \in Holders : p = q

\* The lock holds: its holder is alone, and its PID is in the file for others
\* to find, whatever crashes, failed writes, reused PIDs and refused attempts
\* there are.  Only two things break it, a command that reads the file while
\* another decides and a read that fails beside a holder, and the damage does
\* not last: it is over when the commands it caught, and those that came while
\* they were there, are done.
ExclusiveUnlessDisturbed ==
  disturbed = {} => \A p \in Holders : Holders = {p} /\ lockFile = pid[p]

\* lock.rs ("a crashed holder must not wedge the vault forever"): while
\* commands are still tried, one gets the lock sooner or later, whatever
\* crashes and failed writes left behind, unless the lock names the PID of a
\* live program that is not kpexec.
OnlyReusedPidWedges == Holders = {} ~> (Holders # {} \/ lockFile \in others)
===============================================================================
