-------------------------------- MODULE Output --------------------------------
(***************************************************************************)
(* What `kpexec run` makes of its child's output: the bounded capture      *)
(* (capture_limit and spawn_reader of src/src/cmd_run.rs) and the pipeline *)
(* of src/src/output.rs: redact every form of the secret, scan again, cut  *)
(* at the policy's limit, decode, and add a notice to what was cut.        *)
(*                                                                         *)
(* A stream is a sequence of bytes of a small alphabet; characters have    *)
(* one byte or two.  The child writes words: forms of the secret,          *)
(* beginnings of them, and beginnings of the marker.  How bytes arrive,    *)
(* and when, is RunChild's subject.  The suppression line is a fixed text, *)
(* and the envelope that may quote a stream is cmd_run.rs's.               *)
(***************************************************************************)
EXTENDS Integers, Sequences, SequencesExt, FiniteSetsExt

CONSTANTS
  Byte,
  Stream,     \* stdout and stderr
  Secrets,    \* the secrets an entry may have
  Codes,      \* escaping functions: what a special byte becomes
  Marker,     \* REDACTION_MARKER
  Notice,     \* TRUNCATION_MARKER
  Lead, Trail,   \* the first and the second byte of characters of two bytes
  Replacement,  \* U+FFFD, which stands for what is not UTF-8
  Caps,       \* policies: max_stdout_bytes and max_stderr_bytes
  MaxPasses,  \* MAX_REDACTION_PASSES
  MaxWords    \* bound on what the child writes

\* u and w can lie over each other, u shifted by d, and agree where both have a byte.
Agree(u, w, d) == \A p \in DOMAIN u : p + d \in DOMAIN w => u[p] = w[p + d]

\* An escape is never empty, and no end of the marker is a beginning of it.
ASSUME OutputAssumption ==
  /\ Marker \in Seq(Byte) /\ Marker # <<>>
  /\ \A d \in 1..(Len(Marker) - 1) : ~Agree(Marker, Marker, d)
  /\ Notice \in Seq(Byte) /\ Notice # <<>>
  /\ Lead \subseteq Byte /\ Trail \subseteq Byte \ Lead
  /\ Replacement \in Byte \ (Lead \cup Trail)
  /\ \A s \in Secrets : s \in Seq(Byte) /\ s # <<>>
  /\ Codes \in Seq(ToSet(Codes))
  /\ \A code \in ToSet(Codes) : \A b \in DOMAIN code : code[b] \in Seq(Byte) /\ code[b] # <<>>
  /\ Caps \subseteq [Stream -> Nat] /\ {MaxPasses, MaxWords} \subseteq Nat \ {0}

VARIABLES
  secret, cap,
  written,   \* per stream: everything the child wrote
  retained,  \* per stream: what the reader kept of it
  count,     \* words so far
  report     \* what is emitted

vars == <<secret, cap, written, retained, count, report>>

NotYet == [verdict |-> "none"]

-------------------------------------------------------------------------------
(* Forms of the secret, and the redaction of a byte sequence.              *)

Encode(code, s) ==
  FlattenSeq([i \in DOMAIN s |-> IF s[i] \in DOMAIN code THEN code[s[i]] ELSE <<s[i]>>])

\* secret_variants: the exact form first.  (The source drops duplicates, which
\* makes no difference.)
Forms == [s \in Secrets |-> <<s>> \o [k \in DOMAIN Codes |-> Encode(Codes[k], s)]]

\* max_secret_variant_len
Longest == [s \in Secrets |-> Max({Len(Forms[s][k]) : k \in DOMAIN Forms[s]})]

At(text, i, word) ==
  i + Len(word) - 1 <= Len(text) /\ SubSeq(text, i, i + Len(word) - 1) = word

\* (A faulty variant of Matching, for mutation testing: only the exact form.)
MatchingExactly(text, i, s) == {k \in {1} : At(text, i, Forms[s][k])}

Matching(text, i, s) == {k \in DOMAIN Forms[s] : At(text, i, Forms[s][k])}

\* replace_all_variants: from left to right, the first form that matches.
Pass(text, s) ==
  LET from[i \in 1..(Len(text) + 1)] ==
        IF i > Len(text) THEN <<>>
        ELSE IF Matching(text, i, s) = {} THEN <<text[i]>> \o from[i + 1]
        ELSE Marker \o from[i + Len(Forms[s][Min(Matching(text, i, s))])]
  IN from[1]

\* redact_bounded (which stops early when a pass changes nothing).
Redacted(text, s) ==
  LET after[n \in 0..MaxPasses] == IF n = 0 THEN text ELSE Pass(after[n - 1], s)
  IN after[MaxPasses]

\* not contains_any_variant
Clean(text, s) ==
  \A k \in DOMAIN Forms[s] : \A i \in DOMAIN text : ~At(text, i, Forms[s][k])

-------------------------------------------------------------------------------
(* Limits.                                                                 *)

\* (Faulty variants of Cut and CaptureLimit, for mutation testing: a marker is
\* split; the look-ahead does not make up for the shrinking.)
CutAnywhere(text, max) == IF Len(text) <= max THEN Len(text) ELSE max
CaptureLookAhead(max, longest) == max + longest

\* truncate_no_split_marker: how many bytes of text remain.
Cut(text, max) ==
  LET split == {j \in 1..max : j + Len(Marker) - 1 > max /\ At(text, j, Marker)}
  IN IF Len(text) <= max THEN Len(text)
     ELSE IF split = {} THEN max ELSE Min(split) - 1

\* capture_limit
CaptureLimit(max, longest) ==
  IF longest > Len(Marker)
  THEN ((max + Len(Marker)) \div Len(Marker)) * longest + longest - 1
  ELSE max + longest

-------------------------------------------------------------------------------

Init ==
  /\ secret \in Secrets /\ cap \in Caps
  /\ written = [s \in Stream |-> <<>>] /\ retained = [s \in Stream |-> <<>>]
  /\ count = 0 /\ report = NotYet

Beginnings(word) == {SubSeq(word, 1, n) : n \in 1..Len(word)}

Words == Beginnings(Marker) \cup UNION {Beginnings(Forms[secret][k]) : k \in DOMAIN Forms[secret]}

\* The child writes; the reader keeps what fits.
Write(s) ==
  /\ report = NotYet /\ count < MaxWords /\ count' = count + 1
  /\ \E word \in Words :
       LET remaining == CaptureLimit(cap[s], Longest[secret]) - Len(retained[s])
           kept == SubSeq(word, 1, IF Len(word) < remaining THEN Len(word) ELSE remaining)
       IN /\ written' = [written EXCEPT ![s] = @ \o word]
          /\ retained' = [retained EXCEPT ![s] = @ \o kept]
  /\ UNCHANGED <<secret, cap, report>>

\* (A faulty variant of Suppressed, for mutation testing: both must be unclean.)
SuppressedIfBoth(redacted) == \A s \in Stream : ~Clean(redacted[s], secret)

Suppressed(redacted) == \E s \in Stream : ~Clean(redacted[s], secret)

\* from_utf8_lossy: a byte that is not part of a whole character is replaced.
Broken(text, i) ==
  \/ text[i] \in Lead /\ (i = Len(text) \/ text[i + 1] \notin Trail)
  \/ text[i] \in Trail /\ (i = 1 \/ text[i - 1] \notin Lead)

Decoded(text) == [i \in DOMAIN text |-> IF Broken(text, i) THEN Replacement ELSE text[i]]

\* What is left of a stream, as it is emitted.
Shown(text, truncated) == Decoded(text) \o (IF truncated THEN Notice ELSE <<>>)

\* Both pipes are closed: process.
Process ==
  /\ report = NotYet
  /\ LET redacted == [s \in Stream |-> Redacted(retained[s], secret)]
         truncated == [s \in Stream |-> Len(redacted[s]) > cap[s]]
         left == [s \in Stream |-> SubSeq(redacted[s], 1, Cut(redacted[s], cap[s]))]
     IN report' =
          IF Suppressed(redacted) THEN [verdict |-> "suppressed"]
          ELSE [verdict |-> "shown", truncated |-> truncated,
                text |-> [s \in Stream |-> Shown(left[s], truncated[s])]]
  /\ UNCHANGED <<secret, cap, written, retained, count>>

Next == (\E s \in Stream : Write(s)) \/ Process

Spec == Init /\ [][Next]_vars

-------------------------------------------------------------------------------
(* Properties.                                                             *)

\* A form shares some bytes with the marker, at an end of either or inside.
Meets(form) == \E d \in (1 - Len(form))..(Len(Marker) - 1) : Agree(form, Marker, d)

Apart == \A k \in DOMAIN Forms[secret] : ~Meets(Forms[secret][k])

Occurs(word, text) == \E i \in DOMAIN text : At(text, i, word)

\* The longest part of text that fits and does not end inside a marker.
Fitting(text, max) ==
  LET whole == {n \in 0..Len(text) :
        n <= max /\ \A j \in 1..n : At(text, j, Marker) => j + Len(Marker) - 1 <= n}
  IN SubSeq(text, 1, Max(whole))

\* The bounded capture cannot be seen: what is emitted, and whether it is said
\* to be truncated, is what redacting the whole stream and then limiting it
\* would give, wherever the limits fall.  Only when the child itself writes the
\* marker, and the capture ends in it, may the cut be inside that one.
CaptureIsInvisible ==
  report.verdict = "shown" /\ Apart =>
    \A s \in Stream :
      LET ideal == Pass(written[s], secret)
          long == Len(ideal) > cap[s]
      IN /\ report.truncated[s] = long
         /\ \E n \in 0..cap[s] :
              n <= Len(ideal) /\ report.text[s] = Shown(SubSeq(ideal, 1, n), long)
         /\ ~Occurs(Marker, written[s]) => report.text[s] = Shown(Fitting(ideal, cap[s]), long)

\* A form ends in a beginning of the notice, or is inside it.
RunsIntoNotice(form) ==
  \E d \in (1 - Len(form))..(Len(Notice) - Len(form)) : Agree(form, Notice, d)

\* A form of the secret is in what is emitted, whichever stream it came by, only
\* if what is added after the last scan makes it: the notice at the end of a
\* truncated stream, which may complete a form or contain one, or U+FFFD in
\* place of a byte that is not UTF-8, if that character is in the secret.
NoFormShown ==
  report.verdict = "shown" =>
    \A s \in Stream : \A k \in DOMAIN Forms[secret] :
      LET form == Forms[secret][k]
      IN Occurs(form, report.text[s]) =>
           (report.truncated[s] /\ RunsIntoNotice(form)) \/ Replacement \in ToSet(form)

\* Output is suppressed only for a secret that can lie over the marker: one of
\* any other kind never survives the passes.
SuppressedForCause == report.verdict = "suppressed" => ~Apart
===============================================================================
