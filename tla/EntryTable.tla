------------------------------ MODULE EntryTable ------------------------------
(***************************************************************************)
(* The entries of a vault and the commands that change them                *)
(* (src/src/cmd_entry.rs, and the mutators of src/src/vault.rs), with what *)
(* `kpexec check` says of an entry and what `kpexec run` makes of it.      *)
(*                                                                         *)
(* A command locks, opens, changes its copy of the database and saves it:  *)
(* one step here, as VaultSession!ImplementsUpdateTable allows.  Only what *)
(* `entry add` and `add-command` collect beforehand, with the pins of the  *)
(* moment, happens outside the lock.  KeePassXC edits the same database    *)
(* and knows none of kpexec's rules.  All commands of the model run one    *)
(* executable, and its path does not change.                               *)
(***************************************************************************)
EXTENDS Naturals, Sequences

CONSTANTS
  Slot,         \* KeePass entries
  Id, Name,     \* kpexec.id values; names of command templates
  Inject,       \* the rest of a policy: description, variable, limits
  Hash,         \* contents of the executable
  Unpinned,     \* the pin of a command authored with --no-pin
  Free,         \* no entry with a kpexec.id
  Malformed,    \* a policy that does not parse
  Missing,      \* there is no executable
  Proc,         \* commands that have collected templates and wait for the lock
  MaxCommands,  \* bound on the templates of a policy
  MaxNew        \* bound on the templates one command collects

Command == [name : Name, pin : Hash \cup {Unpinned}]
Commands == UNION {[1..n -> Command] : n \in 0..MaxCommands}
Policy == [inject : Inject, commands : Commands]
Entry == [id : Id, secret : BOOLEAN, policy : Policy \cup {Malformed}]

\* A file that the user can write or replace cannot be pinned; one with no
\* execute bit set can.
Executable == [hash : Hash, fixed : BOOLEAN, mode : {"plain", "executable"}]

ASSUME EntryAssumption ==
  /\ Unpinned \notin Hash /\ Free \notin Entry
  /\ Malformed \notin Policy /\ Missing \notin Executable
  /\ MaxCommands \in Nat /\ MaxNew \in 1..MaxCommands

VARIABLES
  entries,  \* the database: in each slot an Entry, or Free
  disk,     \* the executable, or Missing
  job       \* per process: the templates it collected, or none yet

vars == <<entries, disk, job>>

Init ==
  /\ entries = [s \in Slot |-> Free]
  /\ disk \in Executable
  /\ job = [p \in Proc |-> <<>>]

-------------------------------------------------------------------------------
(* Looking up.                                                             *)

NamesOf(cmds) == {cmds[i].name : i \in DOMAIN cmds}

\* duplicate_command_names is empty.
Distinct(cmds) == \A i, j \in DOMAIN cmds : cmds[i].name = cmds[j].name => i = j

Matches(id) == {s \in Slot : entries[s] # Free /\ entries[s].id = id}

\* (A faulty variant of Only, for mutation testing: one of several will do.)
AnyMatch(id) == Matches(id)

\* entry_id_of: exactly one match.
Only(id) == {s \in Slot : Matches(id) = {s}}

\* find_entry and require_entry: besides, its policy parses.
Found(id) == {s \in Only(id) : entries[s].policy # Malformed}

\* duplicate_ids is empty.
NoDuplicates ==
  \A s, t \in Slot :
    entries[s] # Free /\ entries[t] # Free /\ entries[s].id = entries[t].id => s = t

\* insert_entry, with the secret that was entered.
Stored(id, i, cmds) == [id |-> id, secret |-> TRUE, policy |-> [inject |-> i, commands |-> cmds]]

\* remove_entry, of whatever has the id.
Without(id) == [s \in Slot |-> IF s \in Matches(id) THEN Free ELSE entries[s]]

\* What remains of the templates without those of one name.
Retained(cmds, name) ==
  LET of[i \in 0..Len(cmds)] ==
        IF i = 0 THEN <<>>
        ELSE IF cmds[i].name = name THEN of[i - 1] ELSE Append(of[i - 1], cmds[i])
  IN of[Len(cmds)]

\* update_policy, for the templates of one entry.
Rewritten(s, cmds) == [entries EXCEPT ![s].policy.commands = cmds]

\* pin::compute and require_enforceable, for an author who wants a pin.
Pinnable == disk # Missing /\ disk.fixed

-------------------------------------------------------------------------------
(* Faulty variants of single definitions, for mutation testing of the      *)
(* properties below; the specification does not use them.                  *)

\* Add: an existing entry does not matter.
AddUnchecked(p, id, force) ==
  /\ job[p] # <<>> /\ Distinct(job[p])
  /\ \E s \in Slot, i \in Inject :
       /\ entries[s] = Free /\ entries' = [entries EXCEPT ![s] = Stored(id, i, job[p])]
  /\ job' = [job EXCEPT ![p] = <<>>]
  /\ UNCHANGED disk

\* RmCommand: the last template may go.
RmAnyCommand(id, name) ==
  /\ \E s \in Found(id) :
       entries' = Rewritten(s, Retained(entries[s].policy.commands, name))
  /\ UNCHANGED <<disk, job>>

\* Repin: the other templates are filtered out.
RepinFilters(id, target) ==
  /\ Pinnable
  /\ \E s \in Found(id) :
       LET chosen == SelectSeq(entries[s].policy.commands, LAMBDA c : c.name \in target)
       IN /\ chosen # <<>>
          /\ entries' = Rewritten(s, [i \in DOMAIN chosen |-> [chosen[i] EXCEPT !.pin = disk.hash]])
  /\ UNCHANGED <<disk, job>>

\* Clean: templates may share a name.
CleanTemplates(id) ==
  /\ NoDuplicates
  /\ \E s \in Found(id) :
       /\ entries[s].secret
       /\ \A i \in DOMAIN entries[s].policy.commands :
            Pinnable /\ entries[s].policy.commands[i].pin = disk.hash

-------------------------------------------------------------------------------
(* The commands.  One that is refused changes nothing; only a collected    *)
(* job is dropped.                                                         *)

\* collect_commands, before the lock: pins are those of the moment.
Collect(p) ==
  /\ job[p] = <<>>
  /\ \E n \in 1..MaxNew, noPin \in BOOLEAN, name \in [1..MaxNew -> Name] :
       /\ noPin \/ Pinnable
       /\ job' = [job EXCEPT ![p] = [i \in 1..n |->
            [name |-> name[i], pin |-> IF noPin THEN Unpinned ELSE disk.hash]]]
  /\ UNCHANGED <<entries, disk>>

Refused(p) ==
  /\ job[p] # <<>> /\ job' = [job EXCEPT ![p] = <<>>]
  /\ UNCHANGED <<entries, disk>>

\* add: the id is new, or --force replaces the one entry that has it.
Add(p, id, force) ==
  /\ job[p] # <<>> /\ Distinct(job[p])
  /\ Matches(id) = {} \/ (force /\ Only(id) # {})
  /\ \E s \in Slot, i \in Inject :
       /\ Without(id)[s] = Free
       /\ entries' = [Without(id) EXCEPT ![s] = Stored(id, i, job[p])]
  /\ job' = [job EXCEPT ![p] = <<>>]
  /\ UNCHANGED disk

AddCommand(p, id) ==
  /\ job[p] # <<>>
  /\ \E s \in Found(id) :
       LET extended == entries[s].policy.commands \o job[p]
       IN /\ Distinct(extended) /\ Len(extended) <= MaxCommands
          /\ entries' = Rewritten(s, extended)
  /\ job' = [job EXCEPT ![p] = <<>>]
  /\ UNCHANGED disk

RmCommand(id, name) ==
  /\ \E s \in Found(id) :
       LET kept == Retained(entries[s].policy.commands, name)
       IN /\ kept # entries[s].policy.commands /\ kept # <<>>
          /\ entries' = Rewritten(s, kept)
  /\ UNCHANGED <<disk, job>>

SetSecret(id) ==
  /\ \E s \in Found(id) : entries' = [entries EXCEPT ![s].secret = TRUE]
  /\ UNCHANGED <<disk, job>>

Edit(id, inject) ==
  /\ \E s \in Found(id) : entries' = [entries EXCEPT ![s].policy.inject = inject]
  /\ UNCHANGED <<disk, job>>

Rm(id) ==
  /\ Found(id) # {} /\ entries' = Without(id)
  /\ UNCHANGED <<disk, job>>

\* Every template with a name of target: one name, or all.
Repin(id, target) ==
  /\ Pinnable
  /\ \E s \in Found(id) :
       /\ target = Name \/ target \subseteq NamesOf(entries[s].policy.commands)
       /\ LET cmds == entries[s].policy.commands
          IN entries' = Rewritten(s, [i \in DOMAIN cmds |->
               IF cmds[i].name \in target THEN [cmds[i] EXCEPT !.pin = disk.hash] ELSE cmds[i]])
  /\ UNCHANGED <<disk, job>>

-------------------------------------------------------------------------------
(* KeePassXC, and whoever installs executables.                            *)

\* An entry is cloned, deleted, given another id, loses its password, gets a
\* policy that does not parse, or one with a template copied and repinned.
KeePassXCEdits ==
  /\ \E s \in Slot :
       /\ entries[s] # Free
       /\ \/ \E t \in Slot : entries[t] = Free /\ entries' = [entries EXCEPT ![t] = entries[s]]
          \/ entries' = [entries EXCEPT ![s] = Free]
          \/ \E id \in Id : entries' = [entries EXCEPT ![s].id = id]
          \/ entries' = [entries EXCEPT ![s].secret = FALSE]
          \/ entries' = [entries EXCEPT ![s].policy = Malformed]
          \/ /\ entries[s].policy # Malformed
             /\ LET cmds == entries[s].policy.commands
                IN \E i \in DOMAIN cmds, pin \in Hash \cup {Unpinned} :
                     /\ Len(cmds) < MaxCommands
                     /\ entries' = Rewritten(s, Append(cmds, [cmds[i] EXCEPT !.pin = pin]))
  /\ UNCHANGED <<disk, job>>

Install ==
  /\ disk' \in Executable \cup {Missing}
  /\ UNCHANGED <<entries, job>>

-------------------------------------------------------------------------------

\* Changes to an entry that is there.
Amend ==
  \/ \E p \in Proc, id \in Id : AddCommand(p, id)
  \/ \E id \in Id, name \in Name : RmCommand(id, name)
  \/ \E id \in Id : SetSecret(id)
  \/ \E id \in Id, inject \in Inject : Edit(id, inject)
  \/ \E id \in Id, target \in {Name} \cup {{n} : n \in Name} : Repin(id, target)

Commit ==
  \/ \E p \in Proc, id \in Id, force \in BOOLEAN : Add(p, id, force)
  \/ Amend
  \/ \E id \in Id : Rm(id)

Next == (\E p \in Proc : Collect(p) \/ Refused(p)) \/ Commit \/ KeePassXCEdits \/ Install

Spec == Init /\ [][Next]_vars

-------------------------------------------------------------------------------
(* What check says of an entry, and what run makes of it.                  *)

\* `check --entry id` has no failure and no warning: check_command_pin computes
\* the pin, and looks at no execute bit.
Clean(id) ==
  /\ NoDuplicates
  /\ \E s \in Found(id) :
       /\ entries[s].secret
       /\ Distinct(entries[s].policy.commands)
       /\ \A i \in DOMAIN entries[s].policy.commands :
            Pinnable /\ entries[s].policy.commands[i].pin = disk.hash

\* Policy::command, of an entry that was found: the first with that name.
Template(id, name) ==
  {c \in Command : \E s \in Found(id) :
     LET cmds == entries[s].policy.commands
     IN \E i \in DOMAIN cmds : /\ cmds[i] = c /\ c.name = name
                               /\ \A j \in 1..(i - 1) : cmds[j].name # name}

\* verify_exe accepts the template, and read_secret finds a secret.
Runs(id, name) ==
  /\ \E s \in Found(id) : entries[s].secret
  /\ disk # Missing /\ disk.mode = "executable"
  /\ \E c \in Template(id, name) : c.pin # Unpinned => c.pin = disk.hash /\ disk.fixed

\* list shows every entry that find_entry finds, or nothing when some id is
\* duplicated.
Listed == IF NoDuplicates THEN UNION {Found(id) : id \in Id} ELSE {}

Ambiguous(id, name) ==
  \E s \in Found(id) : LET cmds == entries[s].policy.commands
    IN \E i, j \in DOMAIN cmds : i # j /\ cmds[i].name = name /\ cmds[j].name = name

-------------------------------------------------------------------------------
(* Properties.                                                             *)

ChangesOnlyUnique ==
  \A s \in Slot : entries[s] # Free /\ entries'[s] # entries[s] => Matches(entries[s].id) = {s}

\* vault.rs ("deterministic, never pick-first"): a command changes an entry
\* only if no other entry has its id, whatever KeePassXC cloned.
NeverPickFirst == [][ChangesOnlyUnique \/ ~Commit]_vars

\* kpexec never makes an id ambiguous, not with --force and not when the id
\* was taken while the command collected its templates.
IdsStayUnique ==
  [][\/ \A id \in Id : (\A s, t \in Matches(id) : s = t) => (\A s, t \in Matches(id)' : s = t)
     \/ ~Commit]_vars

Sound(e) == e.policy # Malformed /\ e.policy.commands # <<>> /\ Distinct(e.policy.commands)

\* What kpexec writes has a template, and no two of one name, unless
\* KeePassXC had broken that rule before.
AuthoredPoliciesSound ==
  [][\/ \A s \in Slot : \/ entries'[s] = Free \/ Sound(entries'[s])
                        \/ entries[s] # Free /\ ~Sound(entries[s])
     \/ ~Commit]_vars

\* The templates of an entry that are still in it, with the pin they had or
\* that of the executable that is installed.
Kept(old, new) ==
  {i \in DOMAIN old : \E j \in DOMAIN new :
     /\ new[j].name = old[i].name
     /\ new[j].pin = old[i].pin \/ (disk # Missing /\ new[j].pin = disk.hash)}

\* A change to an entry keeps all its templates, unless it removes those of
\* one name and does nothing else.
AmendmentsKeepTemplates ==
  [][entries' # entries /\ Amend =>
       \A s \in Slot : entries'[s] # entries[s] =>
         LET old == entries[s].policy.commands
             new == entries'[s].policy.commands
         IN \A i \in DOMAIN old \ Kept(old, new) :
              new = Retained(old, old[i].name)]_vars

\* An entry that check finds clean is listed, and each of its templates runs
\* under its own name, no other having it, if and only if the installed file has
\* an execute bit: run refuses a file without one (verify_exe), and check does
\* not look for it; nothing else keeps what check finds clean from running.
CleanRunsIfExecutable ==
  \A id \in Id : Clean(id) =>
    /\ Found(id) \subseteq Listed
    /\ \A s \in Found(id) : \A name \in NamesOf(entries[s].policy.commands) :
         /\ ~Ambiguous(id, name)
         /\ Runs(id, name) <=> disk.mode = "executable"

\* design.md ("resolve exactly one entry and command ... duplicate command
\* names reject"): what runs is the only template of its name.
ResolvesExactlyOne ==
  \A id \in Id, name \in Name : Runs(id, name) => ~Ambiguous(id, name)
===============================================================================
