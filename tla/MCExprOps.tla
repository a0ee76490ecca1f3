------------------------------ MODULE MCExprOps ------------------------------
(***************************************************************************)
(* Integers of five bits, doubles of which one is too long for the buffer  *)
(* and one has more decimals than are printed, and strings that are        *)
(* numbers, begin like numbers, or are none.                               *)
(***************************************************************************)
EXTENDS ExprOps

MCInts == {-16, -7, -1, 0, 2, 15}
MCFloats == {NaN, -8, 0, 1, 40, 2048}
MCTexts == {<<QUOTE, QUOTE>>, <<2, NUL>>, <<7>>, <<1, DOT, 5>>, <<1, 9>>, <<MINUS, 2, LETTER>>, <<LETTER>>,
            <<QUOTE, 3, QUOTE>>, <<BACKSLASH, BACKSLASH, LETTER_N>>, <<BACKSLASH, LETTER_T, BACKSLASH>>,
            <<BACKSLASH, QUOTE>>}
==============================================================================
