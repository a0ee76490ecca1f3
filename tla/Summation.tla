------------------------------ MODULE Summation ------------------------------
(***************************************************************************)
(* Adding up: where the records of a file, or the entries of an index, end.*)
(***************************************************************************)
EXTENDS Integers

\* f[1] + ... + f[k].
SumTo(f, k) == LET s[i \in 0..k] == IF i = 0 THEN 0 ELSE s[i - 1] + f[i] IN s[k]
==============================================================================
