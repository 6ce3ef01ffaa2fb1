---------------------------- MODULE MCInstallation ----------------------------
(* A small instance of Installation, and of Doctor on its stores, for TLC. *)
EXTENDS Doctor, TLC

Sound ==
  [signature |-> {"integrity", "developer", "identifier", "team", "runtime"},
   assessed |-> FALSE, words |-> {"not an app", "rejected"}, torn |-> "empty",
   logdir |-> TRUE, policies |-> "ok", env |-> "warn"]

\* A sound machine, and each thing that may be wrong with it.
MCView ==
  {Sound, [Sound EXCEPT !.torn = "whole"], [Sound EXCEPT !.torn = "unreadable"],
   [Sound EXCEPT !.assessed = TRUE, !.words = {"notarized"}],
   [Sound EXCEPT !.words = {"rejected"}], [Sound EXCEPT !.words = {}],
   [Sound EXCEPT !.logdir = FALSE],
   [Sound EXCEPT !.policies = "warn"], [Sound EXCEPT !.policies = "fail"]}
  \cup {[Sound EXCEPT !.signature = @ \ {part}] : part \in Sound.signature}
===============================================================================
