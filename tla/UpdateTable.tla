----------------------------- MODULE UpdateTable -----------------------------
(***************************************************************************)
(* What the entry commands promise to their users: the vault is a table of *)
(* updates.  A command applies its update, once, and then acknowledges it; *)
(* a command that is refused, fails or dies may have applied it or not.    *)
(* Nothing is ever taken away.                                             *)
(***************************************************************************)
CONSTANT Update

VARIABLES table, acked

Init == table = {} /\ acked = {}

Apply(u) == u \notin table /\ table' = table \cup {u} /\ UNCHANGED acked

Acknowledge(u) == u \in table /\ acked' = acked \cup {u} /\ UNCHANGED table

Next == \E u \in Update : Apply(u) \/ Acknowledge(u)

Spec == Init /\ [][Next]_<<table, acked>>
==============================================================================
