------------------------------- MODULE MCOutput -------------------------------
(* A small instance of Output for TLC: a marker of three bytes, secrets shorter *)
(* and longer than it, one that overlaps itself, one that only shares a byte    *)
(* with the marker and two that can lie over it; a notice that completes one of *)
(* the secrets, and a secret that broken characters are decoded to.            *)
EXTENDS Output

MCByte == {"a", "b", "c", "d", "e", "m", "n", "o", "q", "r", "u", "w"}
MCMarker == <<"m", "n", "o">>
MCNotice == <<"b", "w">>
MCCodes == <<[b \in {"q"} |-> <<"e", "e", "q">>], [b \in {"q"} |-> <<"e", "d">>]>>
MCSecrets ==
  {<<"a">>, <<"a", "q">>, <<"a", "b", "a", "b">>, <<"n", "a">>, <<"n">>, <<"o", "a", "a">>,
   <<"c", "u", "r">>}
MCCaps == {[s \in Stream |-> IF s = "stdout" THEN n ELSE 7] : n \in {0, 4}}
===============================================================================
