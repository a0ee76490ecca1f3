------------------------------ MODULE MCLibyuris ------------------------------
(***************************************************************************)
(* Three threads that share four addresses, so that an address is given   *)
(* out again while calls that knew it are still running.                   *)
(***************************************************************************)
EXTENDS Libyuris, TLC

CONSTANTS t1, t2, t3, a1, a2, a3, a4

MCThreads == {t1, t2, t3}
MCAddresses == {a1, a2, a3, a4}
Symmetry == Permutations(MCThreads) \cup Permutations(MCAddresses)
==============================================================================
