------------------------------ MODULE ExprValue ------------------------------
(***************************************************************************)
(* struct expr_value of src/include/expr.h and the heap its strings live   *)
(* in.  Numbers and text are opaque: a value is its type and, for a        *)
(* string, the heap block it points to.  Blocks are numbered from 1 and a  *)
(* number is never given out twice; NIL is the NULL pointer.               *)
(***************************************************************************)
EXTENDS Naturals

NIL == 0

Value == [type : {"NONE", "INT", "FLOAT", "STR"}, ptr : Nat]

NONE_V == [type |-> "NONE", ptr |-> NIL]     \* (struct expr_value){0}
INT_V == [type |-> "INT", ptr |-> NIL]
FLT_V == [type |-> "FLOAT", ptr |-> NIL]
STR_V(p) == [type |-> "STR", ptr |-> p]

\* The value is a string with a block of its own, the block FREE_EXPR frees.
Owns(v) == v.type = "STR" /\ v.ptr # NIL
Blocks(vs) == {v.ptr : v \in {u \in vs : Owns(u)}}

\* The heap after FREE_EXPR(v), and whether that free hits a dead block.
FREE_EXPR(heap, v) == IF Owns(v) THEN heap \ {v.ptr} ELSE heap
BadFree(heap, v) == Owns(v) /\ v.ptr \notin heap
==============================================================================
