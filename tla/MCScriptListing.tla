--------------------------- MODULE MCScriptListing ---------------------------
(***************************************************************************)
(* Scripts of either layout, empty or with commands, that tell their key,  *)
(* a wrong one or none, one of them of another game; and everything that   *)
(* can be typed in six characters.                                         *)
(***************************************************************************)
EXTENDS ScriptListing

\* A script with its key k at word w: "big", "little", at an argument whose
\* expression comes "first" or "later", or nowhere.
Script(k, w, n) ==
  [old |-> w \in {"big", "little"}, clue |-> w # "none", little |-> w = "little",
   first |-> IF w = "later" THEN 1 ELSE 0, key |-> k, count |-> n]

MCFiles == {Script(1, "first", 2), Script(1, "big", 1), Script(1, "little", 1),
            Script(1, "later", 1), Script(1, "none", 0), Script(1, "none", 1),
            Script(2, "first", 1)}

MCChars == {"a", "b", "newline"}
MCExit == <<"a", "b">>
MCInputs == UNION {[1..n -> MCChars] : n \in 0..6}
==============================================================================
