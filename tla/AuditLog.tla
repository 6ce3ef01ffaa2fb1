------------------------------- MODULE AuditLog -------------------------------
(***************************************************************************)
(* The rotating log file (RotatingWriter in src/src/logging.rs) and what   *)
(* its calls do to the directory: slot 0 is kpexec.log, slot n is          *)
(* kpexec.log.n, and a slot has a file of so many records or none.  Every  *)
(* process has its own handle and its own count of what is in the file.    *)
(* An open file follows its renaming, so a handle is the slot its file is  *)
(* in now, or Gone once the file is in none.                               *)
(***************************************************************************)
EXTENDS Integers

CONSTANTS
  Command,             \* the processes that may run at the same time
  Keep,                \* KEEP_ROTATED: how many rotated files are kept
  Cap,                 \* MAX_LOG_BYTES, in records
  NoFile, Closed, Gone

ASSUME LogAssumption ==
  /\ Keep \in Nat \ {0} /\ Cap \in Nat \ {0}
  /\ NoFile \notin Nat /\ {Closed, Gone} \cap (0..Keep) = {} /\ Closed # Gone

VARIABLES
  log,      \* the file of each slot
  handle,   \* the file each process has open
  written   \* what each process believes its file holds

logVars == <<log, handle, written>>

LogTypeOK ==
  /\ log \in [0..Keep -> Nat \cup {NoFile}]
  /\ handle \in [Command -> (0..Keep) \cup {Closed, Gone}]
  /\ written \in [Command -> Nat]

\* Opens kpexec.log for appending, creating it if it is not there.
OpenActive(c, count) ==
  /\ log' = [log EXCEPT ![0] = IF @ = NoFile THEN 0 ELSE @]
  /\ handle' = [handle EXCEPT ![c] = 0]
  /\ written' = [written EXCEPT ![c] = count]

\* RotatingWriter::open asks the file for its length.
Open(c) == OpenActive(c, IF log[0] = NoFile THEN 0 ELSE log[0])

Close(c) ==
  /\ handle' = [handle EXCEPT ![c] = Closed] /\ written' = [written EXCEPT ![c] = 0]
  /\ UNCHANGED log

\* RotatingWriter::write rotates first, by its own count.
Full(c) == written[c] + 1 > Cap /\ written[c] > 0

\* A record is appended to the open file, wherever it is by now.
AppendRecord(c) ==
  /\ log' = [n \in 0..Keep |-> IF n = handle[c] THEN log[n] + 1 ELSE log[n]]
  /\ written' = [written EXCEPT ![c] = @ + 1]
  /\ UNCHANGED handle

\* rotate: the oldest is removed ...
RemoveOldest ==
  /\ log' = [log EXCEPT ![Keep] = NoFile]
  /\ handle' = [c \in Command |-> IF handle[c] = Keep THEN Gone ELSE handle[c]]
  /\ UNCHANGED written

\* ... and a file that exists is renamed to the next slot, whose file, if it
\* has one, is replaced.
Shift(n) ==
  IF log[n] = NoFile THEN UNCHANGED logVars
  ELSE /\ log' = [log EXCEPT ![n] = NoFile, ![n + 1] = log[n]]
       /\ handle' = [c \in Command |->
            IF handle[c] = n THEN n + 1 ELSE IF handle[c] = n + 1 THEN Gone ELSE handle[c]]
       /\ UNCHANGED written
===============================================================================
