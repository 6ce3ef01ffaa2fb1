-------------------------------- MODULE Doctor --------------------------------
(***************************************************************************)
(* `kpexec doctor` (src/src/doctor.rs) on the stores of Installation.  It  *)
(* writes nothing that lasts, so it is a function: from the stores, and a  *)
(* view of the machine they are on, to a report.  The view has the code    *)
(* signature, the words of the Gatekeeper assessment, what an unfinished   *)
(* config.toml parses as, and the parts of the report that other modules   *)
(* decide: the log directory, the policies, and the .env files nearby.     *)
(***************************************************************************)
EXTENDS Installation

CONSTANT View  \* the machines doctor is run on

Level == {"ok", "warn", "fail"}

ASSUME DoctorAssumption ==
  View \subseteq
    [signature : SUBSET {"integrity", "developer", "identifier", "team", "runtime"},
     assessed : BOOLEAN,  \* spctl's exit status
     words : SUBSET {"notarized", "not an app", "rejected"},
     torn : {"unreadable", "empty", "whole"},
     logdir : BOOLEAN, policies : Level, env : {"ok", "warn"}]

-------------------------------------------------------------------------------
(* Faulty variants of single definitions, for mutation testing; the        *)
(* specification does not use them.                                        *)

\* BindingCheck: an inspection that fails is only a warning.
InspectionFailureWarns(v) ==
  {<<"binding", IF ~K!Unique THEN "warn" ELSE IF K!Verified THEN "ok" ELSE "fail">>}

-------------------------------------------------------------------------------

Trusted(v) == v.signature = {"integrity", "developer", "identifier", "team", "runtime"}

\* What the Keychain backend requires of the running executable.
Identity(v) == {"integrity", "developer", "identifier", "team"} \subseteq v.signature

\* parse_gatekeeper_assessment: the first of the phrases that applies.
Gatekeeper(v) ==
  CASE v.assessed /\ "notarized" \in v.words -> "ok"
    [] "not an app" \in v.words              -> "warn"
    [] "rejected" \in v.words                -> "fail"
    [] OTHER                                 -> "warn"

\* config::load_from; a vault that is not the one of Installation is elsewhere,
\* and no report is asked for.  A write cut off by a crash leaves an empty file, or a
\* part that does not parse, or enough.
Parsed(v) ==
  CASE config = NoFile  -> "absent"
    [] config = Torn    -> v.torn
    [] config = OwnHint -> "whole"
    [] OTHER            -> "elsewhere"

ConfigCheck(v) ==
  {<<"config", CASE Parsed(v) = "absent" -> "warn" [] Parsed(v) = "unreadable" -> "fail"
                 [] OTHER -> "ok">>}

NamesVault(v) == Parsed(v) = "whole"

PathCheck(v) ==
  {<<"db_path", IF ~NamesVault(v) THEN "warn" ELSE IF vault = NoFile THEN "fail" ELSE "ok">>}

LogDirCheck(v) == {<<"log dir", IF v.logdir THEN "ok" ELSE "fail">>}

SignatureChecks(v) ==
  {<<part, IF part \in v.signature THEN "ok" ELSE "fail">> :
     part \in {"integrity", "developer", "identifier", "team", "runtime"}}
  \cup {<<"gatekeeper", Gatekeeper(v)>>}

\* acl_binding fails without the release identity, and unless it finds one item.
BindingCheck(v) ==
  {<<"binding", IF Identity(v) /\ K!Unique /\ K!Verified THEN "ok" ELSE "fail">>}

\* The gate before any protected read.
MayRead(v) == Trusted(v) /\ BindingCheck(v) = {<<"binding", "ok">>}

\* Vault::open, and what check and the scan for .env files say of its content.
VaultChecks(v) ==
  IF Opens(vault, kc)
  THEN {<<"vault", "ok">>, <<"policies", v.policies>>, <<"env", v.env>>}
  ELSE {<<"vault", "fail">>, <<"policies", "warn">>}

Report(v) ==
  ConfigCheck(v) \cup PathCheck(v) \cup LogDirCheck(v) \cup SignatureChecks(v) \cup
  (IF ~NamesVault(v) THEN {<<"vault", "warn">>}
   ELSE BindingCheck(v) \cup IF MayRead(v) THEN VaultChecks(v) ELSE {<<"vault", "warn">>})

Succeeds(v) == \A check \in Report(v) : check[2] # "fail"

-------------------------------------------------------------------------------

\* Whatever calls of init failed, or died, before: doctor reports no failure
\* for a vault that is configured only if run could open that vault, and a
\* failure only if something is wrong with it or with the machine.
DoctorTellsTruth ==
  pc = "idle" => \A v \in View : NamesVault(v) =>
    (Succeeds(v) <=>
       /\ K!Unique /\ Opens(vault, kc)
       /\ Trusted(v) /\ Gatekeeper(v) # "fail" /\ v.logdir /\ v.policies # "fail")
===============================================================================
