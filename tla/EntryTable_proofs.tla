-------------------------- MODULE EntryTable_proofs --------------------------
(***************************************************************************)
(* TLAPS proofs about EntryTable: a command acts on an entry only if no    *)
(* other has its id, and never makes an id ambiguous; it keeps the         *)
(* templates it does not remove, writes only policies that are sound, and  *)
(* an entry that check finds clean runs - for any number of entries, ids   *)
(* and templates, and whatever KeePassXC does in between.  What a template *)
(* is plays no part in the first two, so all their invariant has to say of *)
(* an entry is that it has an id.                                          *)
(***************************************************************************)
EXTENDS EntryTable, WellFoundedInduction, TLAPS

Shape ==
  /\ entries = [s \in Slot |-> entries[s]]
  /\ \A s \in Slot : entries[s] # Free => "id" \in DOMAIN entries[s]

\* What a command that amends the entry s leaves of the table.
AmendsOnly(s) ==
  /\ entries' = [entries EXCEPT ![s] = entries'[s]]
  /\ entries'[s].id = entries[s].id
  /\ "id" \in DOMAIN entries'[s]

-------------------------------------------------------------------------------

(* Setting another field keeps the id. *)
LEMMA FieldsKeepId ==
  ASSUME Shape, NEW s \in Slot, entries[s] # Free, NEW x,
         \/ entries' = [entries EXCEPT ![s].policy.commands = x]
         \/ entries' = [entries EXCEPT ![s].policy.inject = x]
         \/ entries' = [entries EXCEPT ![s].policy = x]
         \/ entries' = [entries EXCEPT ![s].secret = x]
  PROVE  AmendsOnly(s)
<1> USE DEF Shape, AmendsOnly
<1>1. CASE entries' = [entries EXCEPT ![s].policy.commands = x]
  BY <1>1
<1>2. CASE entries' = [entries EXCEPT ![s].policy.inject = x]
  BY <1>2
<1>3. CASE entries' = [entries EXCEPT ![s].policy = x]
  BY <1>3
<1>4. CASE entries' = [entries EXCEPT ![s].secret = x]
  BY <1>4
<1>5. QED
  BY <1>1, <1>2, <1>3, <1>4

(* A command that amends an entry finds it by its id, and alone. *)
LEMMA AmendsWhatItFound ==
  ASSUME Shape, Amend
  PROVE  \E s \in Slot : entries[s] # Free /\ Matches(entries[s].id) = {s} /\ AmendsOnly(s)
<1>1. ASSUME NEW id, NEW s \in Found(id)
      PROVE  s \in Slot /\ entries[s] # Free /\ entries[s].id = id /\ Matches(entries[s].id) = {s}
  BY <1>1 DEF Found, Only, Matches
<1>2. CASE \E p \in Proc, id \in Id : AddCommand(p, id)
  BY <1>1, <1>2, FieldsKeepId DEF AddCommand, Rewritten
<1>3. CASE \E id \in Id, name \in Name : RmCommand(id, name)
  BY <1>1, <1>3, FieldsKeepId DEF RmCommand, Rewritten
<1>4. CASE \E id \in Id : SetSecret(id)
  BY <1>1, <1>4, FieldsKeepId DEF SetSecret
<1>5. CASE \E id \in Id, inject \in Inject : Edit(id, inject)
  BY <1>1, <1>5, FieldsKeepId DEF Edit
<1>6. CASE \E id \in Id, target \in {Name} \cup {{n} : n \in Name} : Repin(id, target)
  BY <1>1, <1>6, FieldsKeepId DEF Repin, Rewritten
<1>7. QED
  BY <1>2, <1>3, <1>4, <1>5, <1>6 DEF Amend

(* add: a free slot, or one that the replaced entry frees, gets the entry. *)
LEMMA AddsToFreeSlot ==
  ASSUME NEW p, NEW id, NEW force, Add(p, id, force)
  PROVE  /\ Matches(id) = {} \/ Only(id) # {}
         /\ \E s \in Slot : /\ Without(id)[s] = Free
                            /\ entries' = [Without(id) EXCEPT ![s] = entries'[s]]
                            /\ entries'[s].id = id /\ "id" \in DOMAIN entries'[s]
<1>1. PICK s \in Slot, i \in Inject :
        /\ Without(id)[s] = Free
        /\ entries' = [Without(id) EXCEPT ![s] = Stored(id, i, job[p])]
  BY DEF Add
<1>2. entries'[s] = Stored(id, i, job[p])
  BY <1>1 DEF Without
<1>3. entries' = [Without(id) EXCEPT ![s] = entries'[s]]
  BY <1>1, <1>2
<1>4. Stored(id, i, job[p]).id = id /\ "id" \in DOMAIN Stored(id, i, job[p])
  BY DEF Stored
<1>5. entries'[s].id = id /\ "id" \in DOMAIN entries'[s]
  BY <1>2, <1>4
<1>6. Matches(id) = {} \/ Only(id) # {}
  BY DEF Add
<1>7. QED
  BY <1>1, <1>3, <1>5, <1>6

(* The table keeps its shape. *)
LEMMA ShapeIsKept == Shape /\ [Next]_vars => Shape'
<1> SUFFICES ASSUME Shape, [Next]_vars PROVE Shape'
  OBVIOUS
<1>1. CASE Amend
  BY <1>1, AmendsWhatItFound DEF Shape, AmendsOnly
<1>2. ASSUME NEW p \in Proc, NEW id \in Id, NEW force \in BOOLEAN, Add(p, id, force) PROVE Shape'
  BY <1>2, AddsToFreeSlot DEF Shape, Without
<1>3. CASE \E id \in Id : Rm(id)
  BY <1>3 DEF Rm, Shape, Without
<1>4. CASE KeePassXCEdits
  <2>1. PICK s \in Slot :
          /\ entries[s] # Free
          /\ \/ \E t \in Slot : entries[t] = Free /\ entries' = [entries EXCEPT ![t] = entries[s]]
             \/ entries' = [entries EXCEPT ![s] = Free]
             \/ \E id \in Id : entries' = [entries EXCEPT ![s].id = id]
             \/ AmendsOnly(s)
    BY <1>4, FieldsKeepId DEF KeePassXCEdits, Rewritten
  <2>2. QED
    BY <2>1 DEF Shape, AmendsOnly
<1>5. CASE UNCHANGED entries
  BY <1>5 DEF Shape
<1>6. QED
  BY <1>1, <1>2, <1>3, <1>4, <1>5 DEF Next, Commit, Collect, Refused, Install, vars

(* Every entry has an id, whatever the commands and KeePassXC do.          *)
THEOREM ShapeHolds == Spec => []Shape
<1>1. Init => Shape
  BY DEF Init, Shape
<1>2. QED
  BY <1>1, ShapeIsKept, PTL DEF Spec

-------------------------------------------------------------------------------

(* vault.rs, "never pick-first": whatever KeePassXC cloned, a command       *)
(* changes or removes an entry only if no other has the same id.            *)
THEOREM OnlyUniqueEntriesChange == Spec => NeverPickFirst
<1>1. Shape /\ [Next]_vars => [ChangesOnlyUnique \/ ~Commit]_vars
  <2> DEFINE Fair(s) == entries[s] = Free \/ entries'[s] = entries[s] \/ Matches(entries[s].id) = {s}
  <2> SUFFICES ASSUME Shape, Commit, NEW s \in Slot PROVE Fair(s)
    BY DEF ChangesOnlyUnique
  <2>1. CASE Amend
    BY <2>1, AmendsWhatItFound DEF AmendsOnly, Shape
  <2>2. ASSUME NEW p \in Proc, NEW id \in Id, NEW force \in BOOLEAN, Add(p, id, force)
        PROVE  Fair(s)
    <3>1. PICK t \in Slot :
            /\ Without(id)[t] = Free
            /\ entries' = [Without(id) EXCEPT ![t] = entries'[t]]
      BY <2>2, AddsToFreeSlot
    <3>2. Matches(id) = {} \/ \E u \in Slot : Matches(id) = {u}
      BY <2>2, AddsToFreeSlot DEF Only
    <3>3. CASE s \in Matches(id)
      BY <3>2, <3>3 DEF Matches
    <3>4. CASE s \notin Matches(id)
      <4>1. Without(id)[s] = entries[s]
        BY <3>4 DEF Without
      <4>2. CASE s = t
        BY <3>1, <4>1, <4>2
      <4>3. CASE s # t
        BY <3>1, <4>1, <4>3 DEF Without
      <4>4. QED
        BY <4>2, <4>3
    <3>5. QED
      BY <3>3, <3>4
  <2>3. ASSUME NEW id \in Id, Rm(id) PROVE Fair(s)
    BY <2>3 DEF Rm, Found, Only, Without, Matches
  <2>4. QED
    BY <2>1, <2>2, <2>3 DEF Commit
<1>2. QED
  BY <1>1, ShapeHolds, PTL DEF Spec, NeverPickFirst

(* entry add, with or without --force, and the other commands: an id that  *)
(* one entry has at most stays so.                                         *)
THEOREM NoIdBecomesAmbiguous == Spec => IdsStayUnique
<1>1. Shape /\ [Next]_vars =>
        [\/ \A id \in Id : (\A s, t \in Matches(id) : s = t) => (\A s, t \in Matches(id)' : s = t)
         \/ ~Commit]_vars
  <2> DEFINE One(id) == \A s, t \in Matches(id) : s = t
  <2> SUFFICES ASSUME Shape, Commit, NEW id \in Id, One(id) PROVE One(id)'
    OBVIOUS
  <2>1. CASE Matches(id)' \subseteq Matches(id)
    BY <2>1
  <2>2. CASE Amend
    <3>1. Matches(id)' \subseteq Matches(id)
      BY <2>2, AmendsWhatItFound DEF AmendsOnly, Shape, Matches
    <3>2. QED
      BY <2>1, <3>1
  <2>3. ASSUME NEW p \in Proc, NEW x \in Id, NEW force \in BOOLEAN, Add(p, x, force)
        PROVE  One(id)'
    <3>1. PICK s \in Slot :
            /\ entries' = [Without(x) EXCEPT ![s] = entries'[s]]
            /\ entries'[s].id = x
      BY <2>3, AddsToFreeSlot
    <3>2. CASE id = x
      BY <3>1, <3>2 DEF Without, Matches
    <3>3. CASE id # x
      <4>1. Matches(id)' \subseteq Matches(id)
        BY <3>1, <3>3 DEF Without, Matches
      <4>2. QED
        BY <2>1, <4>1
    <3>4. QED
      BY <3>2, <3>3
  <2>4. CASE \E x \in Id : Rm(x)
    <3>1. Matches(id)' \subseteq Matches(id)
      BY <2>4 DEF Rm, Without, Matches
    <3>2. QED
      BY <2>1, <3>1
  <2>5. QED
    BY <2>2, <2>3, <2>4 DEF Commit
<1>2. QED
  BY <1>1, ShapeHolds, PTL DEF Spec, IdsStayUnique

-------------------------------------------------------------------------------
(* What remains of a list of templates is computed by a recursive function *)
(* of its positions, so what it returns is proved by induction on them.    *)

LEMMA Induction ==
  ASSUME NEW T, 0 \in T, \A n \in Nat : n \in T => n + 1 \in T
  PROVE  Nat \subseteq T
<1> DEFINE R == OpToRel(<, Nat)
           Out == Nat \ T
<1>1. IsWellFoundedOn(R, Nat)
  BY NatLessThanWellFounded
<1>2. SUFFICES ASSUME Out # {} PROVE FALSE
  OBVIOUS
<1>3. PICK n \in Out : \A m \in Out : <<m, n>> \notin R
  <2> HIDE DEF R, Out
  <2>1. Out \subseteq Nat
    BY DEF Out
  <2>2. QED
    BY <1>1, <1>2, <2>1, WFMin
<1>4. n \in Nat /\ n # 0 /\ n - 1 \in Nat
  OBVIOUS
<1>5. <<n - 1, n>> \in R
  BY <1>4 DEF OpToRel
<1>6. n - 1 \in T
  BY <1>3, <1>4, <1>5
<1>7. QED
  BY <1>4, <1>6

(* The function that Retained is defined by exists. *)
LEMMA RetainedExists ==
  ASSUME NEW S, NEW cmds \in Seq(S), NEW name
  PROVE  \E of : /\ of = [i \in 0..Len(cmds) |->
                       IF i = 0 THEN <<>>
                       ELSE IF cmds[i].name = name THEN of[i - 1] ELSE Append(of[i - 1], cmds[i])]
                 /\ Retained(cmds, name) = of[Len(cmds)]
<1> DEFINE Body(of, n) == [i \in 0..n |->
             IF i = 0 THEN <<>>
             ELSE IF cmds[i].name = name THEN of[i - 1] ELSE Append(of[i - 1], cmds[i])]
           T == {n \in Nat : \E of : of = Body(of, n)}
<1>1. Nat \subseteq T
  <2>1. 0 \in T
    <3>1. Body([i \in {0} |-> <<>>], 0) = [i \in {0} |-> <<>>]
      OBVIOUS
    <3>2. QED
      BY <3>1
  <2>2. ASSUME NEW n \in Nat, n \in T PROVE n + 1 \in T
    <3>1. PICK of : of = Body(of, n)
      BY <2>2
    <3> DEFINE last == IF cmds[n + 1].name = name THEN of[n] ELSE Append(of[n], cmds[n + 1])
               longer == [i \in 0..(n + 1) |-> IF i = n + 1 THEN last ELSE of[i]]
    <3>2. ASSUME NEW i \in 0..(n + 1) PROVE longer[i] = Body(longer, n + 1)[i]
      <4>1. CASE i = n + 1
        BY <4>1
      <4>2. CASE i \in 0..n
        <5>1. longer[i] = of[i] /\ of[i] = Body(of, n)[i]
          <6>1. longer[i] = of[i]
            BY <4>2
          <6> HIDE DEF Body, longer
          <6>2. QED
            BY <3>1, <6>1
        <5>2. i # 0 => longer[i - 1] = of[i - 1]
          BY <4>2
        <5>3. QED
          BY <4>2, <5>1, <5>2
      <4>3. QED
        BY <4>1, <4>2
    <3>3. longer = Body(longer, n + 1)
      <4> HIDE DEF last
      <4>1. QED
        BY <3>2
    <3>4. QED
      <4> HIDE DEF Body, longer
      <4>1. QED
        BY <3>3
  <2>3. QED
    <3> HIDE DEF T
    <3>1. QED
      BY <2>1, <2>2, Induction
<1>2. PICK of : of = Body(of, Len(cmds))
  <2>1. Len(cmds) \in Nat
    OBVIOUS
  <2> HIDE DEF Body
  <2>2. QED
    BY <1>1, <2>1
<1> DEFINE chosen == CHOOSE f : f = Body(f, Len(cmds))
<1>3. chosen = Body(chosen, Len(cmds))
  <2> HIDE DEF Body
  <2>1. QED
    BY <1>2
<1>4. Retained(cmds, name) = chosen[Len(cmds)]
  BY DEF Retained
<1>5. QED
  BY <1>3, <1>4

(* What remains of the templates: those of other names, each once. *)
LEMMA RetainedKeepsOthers ==
  ASSUME NEW S, NEW cmds \in Seq(S), NEW name
  PROVE  /\ Retained(cmds, name) \in Seq(S) /\ Len(Retained(cmds, name)) <= Len(cmds)
         /\ \A i \in DOMAIN cmds : cmds[i].name # name =>
              \E j \in DOMAIN Retained(cmds, name) : Retained(cmds, name)[j] = cmds[i]
         /\ Distinct(cmds) => Distinct(Retained(cmds, name))
<1>1. PICK of : /\ of = [i \in 0..Len(cmds) |->
                     IF i = 0 THEN <<>>
                     ELSE IF cmds[i].name = name THEN of[i - 1] ELSE Append(of[i - 1], cmds[i])]
                /\ Retained(cmds, name) = of[Len(cmds)]
  BY RetainedExists
<1> DEFINE Good(n) ==
             /\ of[n] \in Seq(S) /\ Len(of[n]) <= n
             /\ \A i \in 1..n : cmds[i].name # name => \E j \in DOMAIN of[n] : of[n][j] = cmds[i]
             /\ \A j \in DOMAIN of[n] : \E i \in 1..n : of[n][j] = cmds[i]
             /\ Distinct(cmds) => Distinct(of[n])
           T == {n \in Nat : n <= Len(cmds) => Good(n)}
<1>2. Len(cmds) \in Nat /\ DOMAIN cmds = 1..Len(cmds)
  OBVIOUS
<1>3. Good(0)
  <2>1. of[0] = <<>>
    BY <1>1, <1>2
  <2>2. QED
    BY <2>1 DEF Distinct
<1>4. ASSUME NEW n \in Nat, n + 1 <= Len(cmds), Good(n) PROVE Good(n + 1)
  <2>1. n + 1 \in 0..Len(cmds) /\ n + 1 # 0 /\ (n + 1) - 1 = n /\ n + 1 \in DOMAIN cmds
    BY <1>2, <1>4
  <2>2. of[n + 1] = IF cmds[n + 1].name = name THEN of[n] ELSE Append(of[n], cmds[n + 1])
    BY <1>1, <2>1
  <2>3. CASE cmds[n + 1].name = name
    <3>1. of[n + 1] = of[n]
      BY <2>2, <2>3
    <3>2. \A i \in 1..(n + 1) : i \in 1..n \/ i = n + 1
      OBVIOUS
    <3>3. QED
      BY <1>4, <2>3, <3>1, <3>2
  <2>4. CASE cmds[n + 1].name # name
    <3> DEFINE c == cmds[n + 1]
               old == of[n]
    <3>1. of[n + 1] = Append(old, c) /\ c \in S /\ old \in Seq(S)
      BY <1>4, <2>1, <2>2, <2>4
    <3> HIDE DEF old
    <3>2. /\ of[n + 1] \in Seq(S) /\ Len(of[n + 1]) = Len(old) + 1 /\ Len(old) \in Nat
          /\ DOMAIN of[n + 1] = 1..(Len(old) + 1) /\ DOMAIN old = 1..Len(old)
          /\ \A j \in DOMAIN old : of[n + 1][j] = old[j]
          /\ of[n + 1][Len(old) + 1] = c
      BY <3>1
    <3>3. /\ Len(old) <= n
          /\ \A i \in 1..n : cmds[i].name # name => \E j \in DOMAIN old : old[j] = cmds[i]
          /\ \A j \in DOMAIN old : \E i \in 1..n : old[j] = cmds[i]
          /\ Distinct(cmds) => Distinct(old)
      BY <1>4 DEF old
    <3>4. \A i \in 1..(n + 1) : cmds[i].name # name => \E j \in DOMAIN of[n + 1] : of[n + 1][j] = cmds[i]
      <4> SUFFICES ASSUME NEW i \in 1..(n + 1), cmds[i].name # name
                   PROVE  \E j \in DOMAIN of[n + 1] : of[n + 1][j] = cmds[i]
        OBVIOUS
      <4>1. CASE i = n + 1
        BY <3>2, <4>1
      <4>2. CASE i \in 1..n
        <5>1. PICK j \in DOMAIN old : old[j] = cmds[i]
          BY <3>3, <4>2
        <5>2. j \in DOMAIN of[n + 1] /\ of[n + 1][j] = cmds[i]
          BY <3>2, <5>1
        <5>3. QED
          BY <5>2
      <4>3. QED
        BY <4>1, <4>2
    <3>5. ASSUME NEW j \in DOMAIN of[n + 1]
          PROVE  \/ j = Len(old) + 1 /\ of[n + 1][j] = c
                 \/ j \in DOMAIN old /\ of[n + 1][j] = old[j]
      BY <3>2
    <3>6. \A j \in DOMAIN of[n + 1] : \E i \in 1..(n + 1) : of[n + 1][j] = cmds[i]
      <4>1. \A i \in 1..n : i \in 1..(n + 1)
        OBVIOUS
      <4>2. n + 1 \in 1..(n + 1)
        OBVIOUS
      <4>3. QED
        BY <3>3, <3>5, <4>1, <4>2
    <3>7. Distinct(cmds) => Distinct(of[n + 1])
      <4> SUFFICES ASSUME Distinct(cmds) PROVE Distinct(of[n + 1])
        OBVIOUS
      <4>1. \A j \in DOMAIN old : old[j].name # c.name
        <5> SUFFICES ASSUME NEW j \in DOMAIN old, old[j].name = c.name PROVE FALSE
          OBVIOUS
        <5>1. PICK i \in 1..n : old[j] = cmds[i]
          BY <3>3
        <5>2. i \in DOMAIN cmds /\ i # n + 1
          BY <1>2, <1>4
        <5>3. QED
          BY <2>1, <5>1, <5>2 DEF Distinct
      <4>2. Distinct(old)
        BY <3>3
      <4>3. QED
        BY <3>5, <4>1, <4>2 DEF Distinct
    <3>8. QED
      BY <3>2, <3>3, <3>4, <3>6, <3>7
  <2>5. QED
    BY <2>3, <2>4
<1>5. Nat \subseteq T
  <2>1. 0 \in T
    BY <1>3
  <2>2. ASSUME NEW n \in Nat, n \in T PROVE n + 1 \in T
    <3>1. n + 1 <= Len(cmds) => n <= Len(cmds)
      BY <1>2
    <3> HIDE DEF Good
    <3>2. QED
      BY <1>4, <2>2, <3>1
  <2>3. QED
    <3> HIDE DEF T
    <3>1. QED
      BY <2>1, <2>2, Induction
<1>6. Good(Len(cmds))
  <2> HIDE DEF Good
  <2>1. QED
    BY <1>2, <1>5
<1>7. QED
  BY <1>1, <1>2, <1>6

-------------------------------------------------------------------------------

(* What is in the database, on the disk and in a command's hands. *)
TypeInv ==
  /\ entries \in [Slot -> Entry \cup {Free}]
  /\ disk \in Executable \cup {Missing}
  /\ job \in [Proc -> Commands]

(* What a command may make of the templates of an entry. *)
Amended(old, new) ==
  \/ new = old
  \/ \E p \in Proc : job[p] # <<>> /\ new = old \o job[p] /\ Distinct(new)
  \/ \E name \in Name : new = Retained(old, name) /\ new # <<>>
  \/ /\ Pinnable /\ DOMAIN new = DOMAIN old
     /\ \A i \in DOMAIN old : new[i].name = old[i].name /\ new[i].pin \in {old[i].pin, disk.hash}

LEMMA CommandsAreSequences ==
  \A cmds : cmds \in Commands <=> cmds \in Seq(Command) /\ Len(cmds) <= MaxCommands
<1>1. MaxCommands \in Nat
  BY EntryAssumption
<1>2. ASSUME NEW cmds \in Commands PROVE cmds \in Seq(Command) /\ Len(cmds) <= MaxCommands
  <2>1. PICK n \in 0..MaxCommands : cmds \in [1..n -> Command]
    BY DEF Commands
  <2>2. QED
    BY <1>1, <2>1
<1>3. ASSUME NEW cmds \in Seq(Command), Len(cmds) <= MaxCommands PROVE cmds \in Commands
  <2>1. cmds \in [1..Len(cmds) -> Command] /\ Len(cmds) \in 0..MaxCommands
    BY <1>1, <1>3
  <2>2. QED
    BY <2>1 DEF Commands
<1>4. QED
  BY <1>2, <1>3

LEMMA NoTemplates == <<>> \in Commands
<1>1. <<>> \in Seq(Command) /\ Len(<<>>) = 0
  OBVIOUS
<1>2. Len(<<>>) <= MaxCommands
  BY <1>1, EntryAssumption
<1>3. QED
  BY <1>1, <1>2, CommandsAreSequences

(* An entry that a command finds is well formed. *)
LEMMA FoundIsWhole ==
  ASSUME TypeInv, NEW id, NEW s \in Found(id)
  PROVE  /\ s \in Slot /\ entries[s] \in Entry /\ entries[s].policy \in Policy
         /\ entries[s].policy.commands \in Commands /\ entries[s] # Free
BY EntryAssumption DEF TypeInv, Found, Only, Matches, Entry, Policy

LEMMA RewritingKeepsEntry ==
  ASSUME NEW e \in Entry, e.policy \in Policy, NEW cmds \in Commands, NEW i \in Inject
  PROVE  /\ [e EXCEPT !.policy.commands = cmds] \in Entry
         /\ [e EXCEPT !.policy.commands = cmds].policy \in Policy
         /\ [e EXCEPT !.policy.commands = cmds].policy.commands = cmds
         /\ [e EXCEPT !.policy.inject = i] \in Entry
         /\ [e EXCEPT !.policy.inject = i].policy \in Policy
         /\ [e EXCEPT !.policy.inject = i].policy.commands = e.policy.commands
BY DEF Entry, Policy

(* What Amend does to the one entry it changes. *)
AmendsTo(s, e) ==
  /\ s \in Slot /\ entries[s] \in Entry /\ entries[s].policy \in Policy
  /\ e \in Entry /\ e.policy \in Policy
  /\ entries' = [entries EXCEPT ![s] = e]
  /\ Amended(entries[s].policy.commands, e.policy.commands)

LEMMA RewrittenAmends ==
  ASSUME TypeInv, NEW id, NEW s \in Found(id), NEW cmds \in Commands,
         entries' = Rewritten(s, cmds), Amended(entries[s].policy.commands, cmds)
  PROVE  \E e : AmendsTo(s, e)
<1>1. /\ s \in Slot /\ entries[s] \in Entry /\ entries[s].policy \in Policy
  BY FoundIsWhole
<1> DEFINE e == [entries[s] EXCEPT !.policy.commands = cmds]
<1>2. entries' = [entries EXCEPT ![s] = e]
  BY DEF Rewritten
<1>3. Inject # {}
  BY <1>1 DEF Policy
<1>4. e \in Entry /\ e.policy \in Policy /\ e.policy.commands = cmds
  BY <1>1, <1>3, RewritingKeepsEntry
<1> HIDE DEF e
<1>5. AmendsTo(s, e)
  BY <1>1, <1>2, <1>4 DEF AmendsTo
<1>6. QED
  BY <1>5

LEMMA AmendChangesOne ==
  ASSUME TypeInv, Amend
  PROVE  \E s, e : AmendsTo(s, e)
<1>1. ASSUME NEW p \in Proc, NEW id \in Id, AddCommand(p, id) PROVE \E s, e : AmendsTo(s, e)
  <2>1. PICK s \in Found(id) :
          LET extended == entries[s].policy.commands \o job[p]
          IN /\ Distinct(extended) /\ Len(extended) <= MaxCommands
             /\ entries' = Rewritten(s, extended)
    BY <1>1 DEF AddCommand
  <2> DEFINE new == entries[s].policy.commands \o job[p]
  <2>2. entries[s].policy.commands \in Seq(Command) /\ job[p] \in Seq(Command) /\ job[p] # <<>>
    BY <1>1, FoundIsWhole, CommandsAreSequences DEF AddCommand, TypeInv
  <2>3. new \in Commands
    <3>1. new \in Seq(Command)
      BY <2>2
    <3>2. Len(new) <= MaxCommands
      BY <2>1
    <3> HIDE DEF new
    <3>3. QED
      BY <3>1, <3>2, CommandsAreSequences
  <2>4. Amended(entries[s].policy.commands, new)
    BY <2>1, <2>2 DEF Amended
  <2>5. QED
    BY <2>1, <2>3, <2>4, RewrittenAmends
<1>2. ASSUME NEW id \in Id, NEW name \in Name, RmCommand(id, name) PROVE \E s, e : AmendsTo(s, e)
  <2>1. PICK s \in Found(id) :
          LET kept == Retained(entries[s].policy.commands, name)
          IN kept # <<>> /\ entries' = Rewritten(s, kept)
    BY <1>2 DEF RmCommand
  <2> DEFINE new == Retained(entries[s].policy.commands, name)
  <2>2. entries[s].policy.commands \in Seq(Command) /\ Len(entries[s].policy.commands) <= MaxCommands
    BY FoundIsWhole, CommandsAreSequences
  <2>3. new \in Seq(Command) /\ Len(new) <= Len(entries[s].policy.commands)
    BY <2>2, RetainedKeepsOthers
  <2>4. new \in Commands
    <3>1. Len(new) <= MaxCommands
      <4> HIDE DEF new
      <4>1. QED
        BY <2>2, <2>3, EntryAssumption
    <3>2. QED
      BY <2>3, <3>1, CommandsAreSequences
  <2>5. Amended(entries[s].policy.commands, new)
    BY <2>1 DEF Amended
  <2>6. QED
    BY <2>1, <2>4, <2>5, RewrittenAmends
<1>3. ASSUME NEW id \in Id, NEW s \in Found(id), NEW e,
             entries' = [entries EXCEPT ![s] = e], e \in Entry, e.policy \in Policy,
             e.policy.commands = entries[s].policy.commands
      PROVE  \E t, f : AmendsTo(t, f)
  <2>1. AmendsTo(s, e)
    BY <1>3, FoundIsWhole DEF AmendsTo, Amended
  <2>2. QED
    BY <2>1
<1>4. ASSUME NEW id \in Id, SetSecret(id) PROVE \E s, e : AmendsTo(s, e)
  <2>1. PICK s \in Found(id) : entries' = [entries EXCEPT ![s].secret = TRUE]
    BY <1>4 DEF SetSecret
  <2> DEFINE e == [entries[s] EXCEPT !.secret = TRUE]
  <2>2. entries' = [entries EXCEPT ![s] = e]
    BY <2>1
  <2>3. e \in Entry /\ e.policy = entries[s].policy /\ e.policy \in Policy
    BY FoundIsWhole DEF Entry
  <2>4. QED
    BY <1>3, <2>2, <2>3
<1>5. ASSUME NEW id \in Id, NEW inject \in Inject, Edit(id, inject) PROVE \E s, e : AmendsTo(s, e)
  <2>1. PICK s \in Found(id) : entries' = [entries EXCEPT ![s].policy.inject = inject]
    BY <1>5 DEF Edit
  <2> DEFINE e == [entries[s] EXCEPT !.policy.inject = inject]
  <2>2. entries' = [entries EXCEPT ![s] = e]
    BY <2>1
  <2>3. /\ entries[s] \in Entry /\ entries[s].policy \in Policy
        /\ entries[s].policy.commands \in Commands
    BY FoundIsWhole
  <2>4. e \in Entry /\ e.policy \in Policy /\ e.policy.commands = entries[s].policy.commands
    BY <2>3, RewritingKeepsEntry
  <2>5. QED
    BY <1>3, <2>2, <2>4
<1>6. ASSUME NEW id \in Id, NEW target, Repin(id, target) PROVE \E s, e : AmendsTo(s, e)
  <2>1. PICK s \in Found(id) :
          LET cmds == entries[s].policy.commands
          IN entries' = Rewritten(s, [i \in DOMAIN cmds |->
               IF cmds[i].name \in target THEN [cmds[i] EXCEPT !.pin = disk.hash] ELSE cmds[i]])
    BY <1>6 DEF Repin
  <2> DEFINE cmds == entries[s].policy.commands
             new == [i \in DOMAIN cmds |->
               IF cmds[i].name \in target THEN [cmds[i] EXCEPT !.pin = disk.hash] ELSE cmds[i]]
  <2>2. cmds \in Seq(Command) /\ Len(cmds) <= MaxCommands
    BY FoundIsWhole, CommandsAreSequences
  <2>3. Pinnable /\ disk.hash \in Hash
    BY <1>6, EntryAssumption DEF Repin, Pinnable, TypeInv, Executable
  <2>4. \A c \in Command :
          /\ [c EXCEPT !.pin = disk.hash] \in Command
          /\ [c EXCEPT !.pin = disk.hash].name = c.name
          /\ [c EXCEPT !.pin = disk.hash].pin = disk.hash
    BY <2>3 DEF Command
  <2>5. \A i \in DOMAIN cmds : cmds[i] \in Command
    BY <2>2
  <2>6. new \in Seq(Command) /\ Len(new) = Len(cmds)
    BY <2>2, <2>4, <2>5
  <2>7. new \in Commands
    BY <2>2, <2>6, CommandsAreSequences
  <2>8. Amended(cmds, new)
    BY <2>3, <2>4, <2>5 DEF Amended
  <2>9. QED
    BY <2>1, <2>7, <2>8, RewrittenAmends
<1>7. QED
  BY <1>1, <1>2, <1>4, <1>5, <1>6 DEF Amend

LEMMA TypeInvIsKept == TypeInv /\ [Next]_vars => TypeInv'
<1> SUFFICES ASSUME TypeInv, [Next]_vars PROVE TypeInv'
  OBVIOUS
<1>1. CASE Commit
  <2>1. job' \in [Proc -> Commands] /\ disk' = disk
    <3>1. <<>> \in Commands
      BY NoTemplates
    <3>2. \A p \in Proc : \A id, force : Add(p, id, force) => job' \in [Proc -> Commands] /\ disk' = disk
      BY <3>1 DEF Add, TypeInv
    <3>3. \A p \in Proc : \A id : AddCommand(p, id) => job' \in [Proc -> Commands] /\ disk' = disk
      BY <3>1 DEF AddCommand, TypeInv
    <3>4. QED
      BY <1>1, <3>2, <3>3 DEF Commit, Amend, RmCommand, SetSecret, Edit, Rm, Repin, TypeInv
  <2>2. entries' \in [Slot -> Entry \cup {Free}]
    <3>1. CASE Amend
      BY <3>1, AmendChangesOne DEF AmendsTo, TypeInv
    <3>2. ASSUME NEW p \in Proc, NEW id \in Id, NEW force, Add(p, id, force)
          PROVE  entries' \in [Slot -> Entry \cup {Free}]
      <4>1. PICK s \in Slot, i \in Inject : entries' = [Without(id) EXCEPT ![s] = Stored(id, i, job[p])]
        BY <3>2 DEF Add
      <4>2. Stored(id, i, job[p]) \in Entry
        BY DEF Stored, Entry, Policy, TypeInv
      <4>3. QED
        BY <4>1, <4>2 DEF Without, TypeInv
    <3>3. CASE \E id \in Id : Rm(id)
      BY <3>3 DEF Rm, Without, TypeInv
    <3>4. QED
      BY <1>1, <3>1, <3>2, <3>3 DEF Commit
  <2>3. QED
    BY <2>1, <2>2 DEF TypeInv
<1>2. CASE KeePassXCEdits
  <2>1. PICK s \in Slot :
          /\ entries[s] # Free
          /\ \/ \E t \in Slot : entries[t] = Free /\ entries' = [entries EXCEPT ![t] = entries[s]]
             \/ entries' = [entries EXCEPT ![s] = Free]
             \/ \E id \in Id : entries' = [entries EXCEPT ![s].id = id]
             \/ entries' = [entries EXCEPT ![s].secret = FALSE]
             \/ entries' = [entries EXCEPT ![s].policy = Malformed]
             \/ /\ entries[s].policy # Malformed
                /\ LET cmds == entries[s].policy.commands
                   IN \E i \in DOMAIN cmds, pin \in Hash \cup {Unpinned} :
                        /\ Len(cmds) < MaxCommands
                        /\ entries' = Rewritten(s, Append(cmds, [cmds[i] EXCEPT !.pin = pin]))
    BY <1>2 DEF KeePassXCEdits
  <2>2. entries[s] \in Entry
    BY <2>1 DEF TypeInv
  <2>3. /\ \A id \in Id : [entries[s] EXCEPT !.id = id] \in Entry
        /\ [entries[s] EXCEPT !.secret = FALSE] \in Entry
        /\ [entries[s] EXCEPT !.policy = Malformed] \in Entry
    BY <2>2 DEF Entry
  <2>4. ASSUME entries[s].policy # Malformed,
               NEW i \in DOMAIN entries[s].policy.commands, NEW pin \in Hash \cup {Unpinned},
               Len(entries[s].policy.commands) < MaxCommands
        PROVE  [entries[s] EXCEPT !.policy.commands =
                  Append(@, [entries[s].policy.commands[i] EXCEPT !.pin = pin])] \in Entry
    <3> DEFINE cmds == entries[s].policy.commands
    <3>1. entries[s].policy \in Policy /\ cmds \in Commands
      BY <2>2, <2>4 DEF Entry, Policy
    <3>2. cmds \in Seq(Command) /\ cmds[i] \in Command
      BY <3>1, CommandsAreSequences
    <3>3. [cmds[i] EXCEPT !.pin = pin] \in Command
      BY <3>2 DEF Command
    <3>4. Append(cmds, [cmds[i] EXCEPT !.pin = pin]) \in Commands
      <4> HIDE DEF cmds
      <4>1. Len(cmds) < MaxCommands
        BY <2>4 DEF cmds
      <4> DEFINE longer == Append(cmds, [cmds[i] EXCEPT !.pin = pin])
      <4>2. longer \in Seq(Command) /\ Len(longer) = Len(cmds) + 1 /\ Len(cmds) \in Nat
        BY <3>2, <3>3
      <4>3. Len(longer) <= MaxCommands
        <5> HIDE DEF longer
        <5>1. QED
          BY <4>1, <4>2, EntryAssumption
      <4> HIDE DEF longer
      <4>4. longer \in Commands
        BY <4>2, <4>3, CommandsAreSequences
      <4>5. QED
        BY <4>4 DEF longer
    <3>5. Inject # {}
      BY <3>1 DEF Policy
    <3>6. QED
      BY <2>2, <3>1, <3>4, <3>5, RewritingKeepsEntry
  <2>5. entries' \in [Slot -> Entry \cup {Free}]
    <3>1. CASE \E t \in Slot : entries' = [entries EXCEPT ![t] = entries[s]]
      BY <3>1 DEF TypeInv
    <3>2. CASE entries' = [entries EXCEPT ![s] = Free]
      BY <3>2 DEF TypeInv
    <3>3. CASE \/ \E id \in Id : entries' = [entries EXCEPT ![s].id = id]
               \/ entries' = [entries EXCEPT ![s].secret = FALSE]
               \/ entries' = [entries EXCEPT ![s].policy = Malformed]
      BY <2>3, <3>3 DEF TypeInv
    <3>4. ASSUME entries[s].policy # Malformed,
                 NEW i \in DOMAIN entries[s].policy.commands, NEW pin \in Hash \cup {Unpinned},
                 Len(entries[s].policy.commands) < MaxCommands,
                 entries' = Rewritten(s, Append(entries[s].policy.commands,
                                [entries[s].policy.commands[i] EXCEPT !.pin = pin]))
          PROVE  entries' \in [Slot -> Entry \cup {Free}]
      BY <2>4, <3>4 DEF Rewritten, TypeInv
    <3>5. QED
      BY <2>1, <3>1, <3>2, <3>3, <3>4
  <2>6. QED
    BY <1>2, <2>5 DEF KeePassXCEdits, TypeInv
<1>3. ASSUME NEW p \in Proc, Collect(p) PROVE TypeInv'
  <2>1. PICK n \in 1..MaxNew, noPin \in BOOLEAN, name \in [1..MaxNew -> Name] :
          /\ noPin \/ Pinnable
          /\ job' = [job EXCEPT ![p] = [i \in 1..n |->
               [name |-> name[i], pin |-> IF noPin THEN Unpinned ELSE disk.hash]]]
    BY <1>3 DEF Collect
  <2>2. (IF noPin THEN Unpinned ELSE disk.hash) \in Hash \cup {Unpinned}
    BY <2>1 DEF Pinnable, TypeInv, Executable
  <2>3. ASSUME NEW i \in 1..n
        PROVE  [name |-> name[i], pin |-> IF noPin THEN Unpinned ELSE disk.hash] \in Command
    <3>1. name[i] \in Name
      BY EntryAssumption
    <3>2. QED
      BY <2>2, <3>1 DEF Command
  <2>4. [i \in 1..n |-> [name |-> name[i], pin |-> IF noPin THEN Unpinned ELSE disk.hash]] \in Commands
    <3>1. n \in 0..MaxCommands
      BY EntryAssumption
    <3>2. QED
      BY <2>3, <3>1 DEF Commands
  <2>5. QED
    BY <1>3, <2>1, <2>4 DEF Collect, TypeInv
<1>4. CASE \E p \in Proc : Refused(p)
  <2>1. <<>> \in Commands
    BY NoTemplates
  <2>2. QED
    BY <1>4, <2>1 DEF Refused, TypeInv
<1>5. CASE Install \/ UNCHANGED vars
  BY <1>5 DEF Install, vars, TypeInv
<1>6. QED
  BY <1>1, <1>2, <1>3, <1>4, <1>5 DEF Next

(* The slots, the installed executable and what was collected are typed.   *)
THEOREM TypesHold == Spec => []TypeInv
<1>1. Init => TypeInv
  <2>1. <<>> \in Commands
    BY NoTemplates
  <2>2. QED
    BY <2>1 DEF Init, TypeInv
<1>2. QED
  BY <1>1, TypeInvIsKept, PTL DEF Spec

-------------------------------------------------------------------------------

(* What an amendment leaves: a template it does not keep is one of those    *)
(* whose name it removes.                                                  *)
LEMMA AmendedKeeps ==
  ASSUME TypeInv, NEW old \in Commands, NEW new, Amended(old, new), NEW i \in DOMAIN old \ Kept(old, new)
  PROVE  new = Retained(old, old[i].name)
<1>1. old \in Seq(Command)
  BY CommandsAreSequences
<1>2. ~ \E j \in DOMAIN new : /\ new[j].name = old[i].name
                              /\ new[j].pin = old[i].pin \/ (disk # Missing /\ new[j].pin = disk.hash)
  BY DEF Kept
<1>3. CASE new = old
  BY <1>2, <1>3
<1>4. ASSUME NEW p \in Proc, new = old \o job[p] PROVE FALSE
  <2>1. job[p] \in Seq(Command)
    BY CommandsAreSequences DEF TypeInv
  <2>2. i \in DOMAIN new /\ new[i] = old[i]
    BY <1>1, <1>4, <2>1
  <2>3. QED
    BY <1>2, <2>2
<1>5. ASSUME NEW name \in Name, new = Retained(old, name) PROVE new = Retained(old, old[i].name)
  <2>1. old[i].name # name => \E j \in DOMAIN new : new[j] = old[i]
    BY <1>1, <1>5, RetainedKeepsOthers
  <2>2. QED
    BY <1>2, <1>5, <2>1
<1>6. CASE /\ Pinnable /\ DOMAIN new = DOMAIN old
           /\ \A k \in DOMAIN old : new[k].name = old[k].name /\ new[k].pin \in {old[k].pin, disk.hash}
  BY <1>2, <1>6 DEF Pinnable
<1>7. QED
  BY <1>3, <1>4, <1>5, <1>6 DEF Amended

(* What an amendment makes of a sound policy is sound. *)
LEMMA AmendedIsSound ==
  ASSUME TypeInv, NEW old \in Commands, NEW new, Amended(old, new), old # <<>>, Distinct(old)
  PROVE  new # <<>> /\ Distinct(new)
<1>1. old \in Seq(Command)
  BY CommandsAreSequences
<1>2. CASE new = old
  BY <1>2
<1>3. ASSUME NEW p \in Proc, job[p] # <<>>, new = old \o job[p], Distinct(new)
      PROVE  new # <<>> /\ Distinct(new)
  <2>1. job[p] \in Seq(Command)
    BY CommandsAreSequences DEF TypeInv
  <2>2. QED
    BY <1>1, <1>3, <2>1
<1>4. ASSUME NEW name \in Name, new = Retained(old, name), new # <<>> PROVE new # <<>> /\ Distinct(new)
  BY <1>1, <1>4, RetainedKeepsOthers
<1>5. CASE /\ DOMAIN new = DOMAIN old
           /\ \A k \in DOMAIN old : new[k].name = old[k].name
  <2>1. DOMAIN old # {}
    BY <1>1
  <2>2. QED
    BY <1>5, <2>1 DEF Distinct
<1>6. QED
  BY <1>2, <1>3, <1>4, <1>5 DEF Amended

(* Whatever an entry command (cmd_entry.rs) changes in an entry, all its   *)
(* templates are kept, with their pins or that of the installed executable,*)
(* unless it removes those of one name and does nothing else.              *)
THEOREM TemplatesAreKept == Spec => AmendmentsKeepTemplates
<1> DEFINE Keeps == entries' # entries /\ Amend =>
             \A s \in Slot : entries'[s] # entries[s] =>
               LET old == entries[s].policy.commands
                   new == entries'[s].policy.commands
               IN \A i \in DOMAIN old \ Kept(old, new) : new = Retained(old, old[i].name)
<1>1. TypeInv /\ [Next]_vars => [Keeps]_vars
  <2> SUFFICES ASSUME TypeInv, Amend, NEW s \in Slot, entries'[s] # entries[s],
                      NEW i \in DOMAIN entries[s].policy.commands \
                                  Kept(entries[s].policy.commands, entries'[s].policy.commands)
               PROVE  entries'[s].policy.commands =
                        Retained(entries[s].policy.commands, entries[s].policy.commands[i].name)
    OBVIOUS
  <2>1. PICK t, e : AmendsTo(t, e)
    BY AmendChangesOne
  <2>2. t = s /\ entries'[s] = e
    BY <2>1 DEF AmendsTo, TypeInv
  <2>3. entries[s].policy.commands \in Commands /\ Amended(entries[s].policy.commands, e.policy.commands)
    BY <2>1, <2>2 DEF AmendsTo, Policy
  <2>4. QED
    BY <2>2, <2>3, AmendedKeeps
<1>2. QED
  BY <1>1, TypesHold, PTL DEF Spec, AmendmentsKeepTemplates

(* What the entry commands write has a template, and no two of one name,   *)
(* unless KeePassXC had broken that rule before.                           *)
THEOREM AuthorsAreSound == Spec => AuthoredPoliciesSound
<1> DEFINE Keeps == \A s \in Slot : \/ entries'[s] = Free \/ Sound(entries'[s])
                                    \/ entries[s] # Free /\ ~Sound(entries[s])
<1>1. TypeInv /\ [Next]_vars => [Keeps \/ ~Commit]_vars
  <2> DEFINE Good(s) == \/ entries'[s] = Free \/ Sound(entries'[s])
                        \/ entries[s] # Free /\ ~Sound(entries[s])
  <2> SUFFICES ASSUME TypeInv, Commit, NEW s \in Slot PROVE Good(s)
    OBVIOUS
  <2>1. CASE Amend
    <3>1. PICK t, e : AmendsTo(t, e)
      BY <2>1, AmendChangesOne
    <3>2. CASE s = t
      <4>1. entries'[s] = e /\ entries[s] # Free /\ e.policy # Malformed
        BY <3>1, <3>2, EntryAssumption DEF AmendsTo, TypeInv
      <4>2. entries[s].policy.commands \in Commands /\ Amended(entries[s].policy.commands, e.policy.commands)
        BY <3>1, <3>2 DEF AmendsTo, Policy
      <4>3. Sound(entries[s]) => Sound(e)
        BY <4>1, <4>2, AmendedIsSound DEF Sound
      <4>4. QED
        BY <4>1, <4>3
    <3>3. CASE s # t
      BY <3>1, <3>3 DEF AmendsTo, TypeInv
    <3>4. QED
      BY <3>2, <3>3
  <2>2. ASSUME NEW p \in Proc, NEW id \in Id, NEW force \in BOOLEAN, Add(p, id, force)
        PROVE  Good(s)
    <3>1. PICK t \in Slot, i \in Inject : entries' = [Without(id) EXCEPT ![t] = Stored(id, i, job[p])]
      BY <2>2 DEF Add
    <3>2. job[p] # <<>> /\ Distinct(job[p]) /\ job[p] \in Commands
      BY <2>2 DEF Add, TypeInv
    <3>3. Stored(id, i, job[p]).policy \in Policy /\ Stored(id, i, job[p]).policy.commands = job[p]
      BY <3>2 DEF Stored, Policy
    <3>4. Sound(Stored(id, i, job[p]))
      BY <3>2, <3>3, EntryAssumption DEF Sound
    <3>5. QED
      BY <3>1, <3>4 DEF Without, TypeInv
  <2>3. CASE \E id \in Id : Rm(id)
    BY <2>3 DEF Rm, Without, TypeInv
  <2>4. QED
    BY <2>1, <2>2, <2>3 DEF Commit
<1>2. QED
  BY <1>1, TypesHold, PTL DEF Spec, AuthoredPoliciesSound

(* What check finds clean is listed, is the only template of its name, and *)
(* runs exactly if the installed file has an execute bit.                  *)
THEOREM CleanEntriesRun == Spec => []CleanRunsIfExecutable
<1>1. TypeInv => CleanRunsIfExecutable
  <2> SUFFICES ASSUME TypeInv, NEW id \in Id, Clean(id)
               PROVE  /\ Found(id) \subseteq Listed
                      /\ \A s \in Found(id) : \A name \in NamesOf(entries[s].policy.commands) :
                           /\ ~Ambiguous(id, name)
                           /\ Runs(id, name) <=> disk.mode = "executable"
    BY DEF CleanRunsIfExecutable
  <2>1. Found(id) \subseteq Listed
    BY DEF Listed, Clean
  <2>2. PICK s \in Found(id) :
          /\ entries[s].secret
          /\ Distinct(entries[s].policy.commands)
          /\ \A i \in DOMAIN entries[s].policy.commands :
               Pinnable /\ entries[s].policy.commands[i].pin = disk.hash
    BY DEF Clean
  <2>3. Found(id) = {s}
    BY <2>2 DEF Found, Only
  <2> DEFINE cmds == entries[s].policy.commands
  <2>4. cmds \in Seq(Command)
    BY FoundIsWhole, CommandsAreSequences
  <2>5. ASSUME NEW name \in NamesOf(cmds)
        PROVE  ~Ambiguous(id, name) /\ (Runs(id, name) <=> disk.mode = "executable")
    <3>1. PICK i \in DOMAIN cmds : cmds[i].name = name
      BY <2>5 DEF NamesOf
    <3>2. \A j \in DOMAIN cmds : cmds[j].name = name => j = i
      BY <2>2, <3>1 DEF Distinct
    <3>3. cmds[i] \in Command /\ \A j \in 1..(i - 1) : cmds[j].name # name
      BY <2>4, <3>1, <3>2
    <3>4. cmds[i] \in Template(id, name)
      BY <2>3, <3>1, <3>3 DEF Template
    <3>5. disk # Missing /\ disk.fixed /\ cmds[i].pin = disk.hash
      BY <2>2, <3>1 DEF Pinnable
    <3>6. Runs(id, name) <=> disk.mode = "executable"
      BY <2>2, <2>3, <3>4, <3>5 DEF Runs
    <3>7. ~Ambiguous(id, name)
      BY <2>3, <3>2 DEF Ambiguous
    <3>8. QED
      BY <3>6, <3>7
  <2>6. QED
    BY <2>1, <2>3, <2>5
<1>2. QED
  BY <1>1, TypesHold, PTL
===============================================================================
