-------------------------------- MODULE ExprVM --------------------------------
(***************************************************************************)
(* eval_expr of src/src/expr.c: one call of the stack machine that         *)
(* evaluates an expression, instruction by instruction, and the heap       *)
(* blocks its strings own.                                                 *)
(*                                                                         *)
(* The bytes of the expression are not modelled: any instruction may come  *)
(* next, and any conversion between numbers and text may give any number.  *)
(* stack[] is the whole C array, so the slots above sp keep the stale      *)
(* copies that popping leaves in them.                                     *)
(***************************************************************************)
EXTENDS ExprValue, FiniteSets

CONSTANTS
  StackSize,  \* EXPR_STACK_SIZE
  MaxLen      \* the most instructions an expression holds (a bound)

ASSUME SizeAssumption == StackSize \in Nat /\ StackSize >= 2
ASSUME LenAssumption == MaxLen \in Nat

VARIABLES
  pc,     \* "call", "run", "end" (returned) or "crash" (killed by a signal)
  left,   \* instructions not yet executed
  stack,  \* the array stack[0..StackSize-1]
  sp,     \* the number of values on the stack
  heap,   \* the live heap blocks this call has allocated
  next,   \* the next block malloc returns
  rc,     \* what eval_expr returned, once pc = "end"
  out,    \* *out, the caller's struct
  fault   \* a dead block has been freed or read

vars == <<pc, left, stack, sp, heap, next, rc, out, fault>>

Slots == 0..(StackSize - 1)
OnStack == {stack[i] : i \in 0..(sp - 1)}

------------------------------------------------------------------------------
\* Leaving the machine.

\* Mutant: cleanup starts at the second slot.
CleanupSkipsFirst(n, h) ==
  /\ heap' = h \ Blocks({stack[i] : i \in 1..(n - 1)})
  /\ fault' = (fault \/ \E i \in 1..(n - 1) : BadFree(h, stack[i]))

\* cleanup: FREE_EXPR of the n values on the stack, when the heap is h.
Cleanup(n, h) ==
  /\ heap' = h \ Blocks({stack[i] : i \in 0..(n - 1)})
  /\ fault' = (fault \/ \E i \in 0..(n - 1) :
                          \/ BadFree(h, stack[i])
                          \/ \E j \in 0..(i - 1) :
                               Owns(stack[i]) /\ stack[j] = stack[i])

\* goto fail_...: clean up the n values on the stack and return code.  *out is
\* left as it was.
Fail(code, n, h) ==
  /\ Cleanup(n, h)
  /\ pc' = "end" /\ rc' = code /\ sp' = n
  /\ UNCHANGED <<stack, out>>

\* SIGSEGV on a NULL string in strtol, strtod or strcmp, SIGFPE in a division.
Crash == pc' = "crash" /\ UNCHANGED <<stack, sp, heap, next, rc, out, fault>>

\* Mutant: PUSH lets the stack grow one value too far.
FullLate(n) == n > StackSize

Full(n) == n >= StackSize

\* PUSH(v) onto n values, when the heap is h.
Push(n, v, h) ==
  IF Full(n) THEN Fail("EOVERFLOW", n, h)
  ELSE /\ stack' = [stack EXCEPT ![n] = v]
       /\ sp' = n + 1
       /\ heap' = h
       /\ UNCHANGED <<pc, rc, out, fault>>

\* Mutant: FREE_EXPR of the first operand is forgotten.
ReplaceFreesOne(n, v, h) ==
  /\ stack' = [stack EXCEPT ![n] = v]
  /\ sp' = n + 1
  /\ heap' = FREE_EXPR(h, stack[sp - 1])
  /\ fault' = (fault \/ BadFree(h, stack[sp - 1]))
  /\ UNCHANGED <<pc, rc, out>>

\* Pop all but n values, PUSH(v) and FREE_EXPR the popped ones: they are
\* copies, so the slots above the new top keep pointing at the freed blocks.
Replace(n, v, h) ==
  LET popped == n..(sp - 1)
  IN  /\ stack' = [stack EXCEPT ![n] = v]
      /\ sp' = n + 1
      /\ heap' = h \ Blocks({stack[i] : i \in popped})
      /\ fault' = (fault \/ \E i \in popped :
                              \/ BadFree(h, stack[i])
                              \/ \E j \in popped \ {i} :
                                   Owns(stack[i]) /\ stack[j] = stack[i])
      /\ UNCHANGED <<pc, rc, out>>

Executing == pc = "run" /\ left > 0 /\ left' = left - 1

IsNull(v) == v.type = "STR" /\ v.ptr = NIL
Arithmetic(vs) == IF \A v \in vs : v.type = "INT" THEN INT_V ELSE FLT_V

------------------------------------------------------------------------------
\* A call, and one action per kind of instruction.

\* A NULL argument is refused.
Call == /\ pc = "call"
        /\ \/ pc' = "run" /\ UNCHANGED rc
           \/ pc' = "end" /\ rc' = "EINVAL"
        /\ UNCHANGED <<left, stack, sp, heap, next, out, fault>>

\* The expression ends inside an instruction, or an operator finds fewer
\* operands than it takes.
BadInstruction == /\ Executing
                  /\ Fail("EINVAL", sp, heap)
                  /\ UNCHANGED next

\* OP_PUSH_I8, _I16, _I32, _I64, _F64
PushNumber == /\ Executing
              /\ \E v \in {INT_V, FLT_V} : Push(sp, v, heap)
              /\ UNCHANGED next

\* OP_PUSH_STR.  The copy of the bytes or the string made of them may not be
\* had (ENOMEM) or not be text (EINVAL).  A strdup("") that fails leaks the
\* copy, a conversion to nothing the empty result, and a full stack the string.
PushStr ==
  /\ Executing
  /\ \/ /\ \E code \in {"ENOMEM", "EINVAL"} : Fail(code, sp, heap)
        /\ UNCHANGED next
     \/ /\ \/ \E code \in {"ENOMEM", "EINVAL"} : Fail(code, sp, heap \cup {next})
           \/ Push(sp, STR_V(next), heap \cup {next})
        /\ next' = next + 1

\* OP_NOP, the opcodes not implemented and the unknown ones.
Skip == Executing /\ UNCHANGED <<pc, stack, sp, heap, next, rc, out, fault>>

\* op_add joins the texts of its operands if one is a string; a malloc that
\* fails makes the result a string without a block.
OpAdd(a, b) ==
  IF "STR" \notin {a.type, b.type}
  THEN Replace(sp - 2, Arithmetic({a, b}), heap) /\ UNCHANGED next
  ELSE \/ Replace(sp - 2, STR_V(NIL), heap) /\ UNCHANGED next
       \/ /\ Replace(sp - 2, STR_V(next), heap \cup {next})
          /\ next' = next + 1

\* op_mul, op_sub
OpArith(a, b) ==
  IF IsNull(a) \/ IsNull(b) THEN Crash
  ELSE Replace(sp - 2, Arithmetic({a, b}), heap) /\ UNCHANGED next

\* op_div, op_mod: the least integer divided by -1 traps.
OpDiv(a, b) == \/ OpArith(a, b)
               \/ Arithmetic({a, b}) = INT_V /\ Crash

\* op_bit_*, op_lt, op_lte, op_gt, op_gte: to_int or to_float of both.
OpConvert(a, b) ==
  IF IsNull(a) \/ IsNull(b) THEN Crash
  ELSE Replace(sp - 2, INT_V, heap) /\ UNCHANGED next

\* op_eq, op_neq.  Two strings are compared by strcmp only if their lengths
\* agree; otherwise a string is converted.
OpEq(a, b) ==
  \/ /\ \/ {a.type, b.type} = {"STR"}
        \/ ~IsNull(a) /\ ~IsNull(b)
     /\ Replace(sp - 2, INT_V, heap) /\ UNCHANGED next
  \/ (IsNull(a) \/ IsNull(b)) /\ Crash

\* op_log_and, op_log_or: b is converted only if a does not decide.
OpLog(a, b) == \/ /\ ~IsNull(a)
                  /\ Replace(sp - 2, INT_V, heap) /\ UNCHANGED next
               \/ (IsNull(a) \/ IsNull(b)) /\ Crash

\* The operators of op_table take the two top values.
Binary ==
  /\ Executing /\ sp >= 2
  /\ LET a == stack[sp - 2]
         b == stack[sp - 1]
     IN  \/ OpAdd(a, b) \/ OpArith(a, b) \/ OpDiv(a, b)
         \/ OpConvert(a, b) \/ OpEq(a, b) \/ OpLog(a, b)

OP_NEG == /\ Executing /\ sp >= 1
          /\ LET top == stack[sp - 1]
             IN  IF IsNull(top) THEN Crash
                 ELSE /\ Replace(sp - 1, IF top.type = "FLOAT" THEN FLT_V ELSE INT_V,
                                 heap)
                      /\ UNCHANGED next

\* Mutant: the string that OP_TO_STR pushes back is also freed.
ToStrFrees ==
  /\ Executing /\ sp >= 1
  /\ LET top == stack[sp - 1]
     IN  IF top.type = "STR"
         THEN Replace(sp - 1, top, heap) /\ UNCHANGED next
         ELSE \/ Fail("ENOMEM", sp - 1, heap) /\ UNCHANGED next
              \/ Push(sp - 1, STR_V(next), heap \cup {next}) /\ next' = next + 1

\* A string is pushed back; a number is printed into a new one.
OP_TO_STR ==
  /\ Executing /\ sp >= 1
  /\ LET top == stack[sp - 1]
     IN  IF top.type = "STR"
         THEN UNCHANGED <<pc, stack, sp, heap, next, rc, out, fault>>
         ELSE \/ Fail("ENOMEM", sp - 1, heap) /\ UNCHANGED next
              \/ Push(sp - 1, STR_V(next), heap \cup {next}) /\ next' = next + 1

\* A number is pushed back; a string is read as one and freed.
OP_TO_NUM ==
  /\ Executing /\ sp >= 1
  /\ LET top == stack[sp - 1]
     IN  IF IsNull(top) THEN Crash
         ELSE /\ \E v \in IF top.type = "STR" THEN {INT_V, FLT_V} ELSE {top} :
                    Replace(sp - 1, v, heap)
              /\ UNCHANGED next

\* The expression may end after any instruction.  The top value is moved to
\* *out, or stack[0] if there is none, and the rest is freed.
Finish == LET n == IF sp > 0 THEN sp - 1 ELSE 0
          IN  /\ pc = "run"
              /\ out' = stack[n]
              /\ Cleanup(n, heap)
              /\ pc' = "end" /\ rc' = "0" /\ sp' = n
              /\ UNCHANGED <<left, stack, next>>

------------------------------------------------------------------------------
Init == /\ pc = "call" /\ left = MaxLen
        /\ stack = [i \in Slots |-> NONE_V] /\ sp = 0
        /\ heap = {} /\ next = 1
        /\ rc = "none" /\ out = NONE_V
        /\ fault = FALSE

Next == \/ Call \/ BadInstruction \/ PushNumber \/ PushStr \/ Skip
        \/ Binary \/ OP_NEG \/ OP_TO_STR \/ OP_TO_NUM
        \/ Finish

Spec == Init /\ [][Next]_vars

------------------------------------------------------------------------------
\* Properties

TypeOK == /\ pc \in {"call", "run", "end", "crash"}
          /\ left \in 0..MaxLen
          /\ stack \in [Slots -> Value]
          /\ sp \in 0..StackSize
          /\ heap \subseteq Nat \ {NIL}
          /\ next \in Nat \ {NIL}
          /\ rc \in {"none", "0", "EINVAL", "ENOMEM", "EOVERFLOW"}
          /\ out \in Value
          /\ fault \in BOOLEAN

\* Between two instructions every live block is owned by exactly one value
\* below sp, whatever stale copies lie above it: nothing leaks while an
\* expression runs, and no block has two owners that would both free it.
StackOwnsHeap ==
  pc = "run" =>
    /\ heap = Blocks(OnStack)
    /\ \A i, j \in 0..(sp - 1) :
          Owns(stack[i]) /\ stack[j] = stack[i] => i = j

\* No operator, conversion, error exit or cleanup reads or frees a block that
\* has been freed.
NoFault == ~fault

\* A successful eval_expr hands its caller a live block of its own, or none,
\* and leaves no other block behind, also when it takes its result from the
\* slot of an empty stack.
ResultOwned == (pc = "end" /\ rc = "0") => heap = Blocks({out})

\* A failed eval_expr frees every value on the stack and loses at most the one
\* string it was about to push; it leaves *out alone.
FailureFrees ==
  (pc = "end" /\ rc # "0") => Cardinality(heap) <= 1 /\ out = NONE_V

\* Whichever way eval_expr ends, it leaves no block that nobody will free but the
\* string in hand of a failure.
NothingLeft == ResultOwned /\ FailureFrees
==============================================================================
