----------------------------- MODULE ExprVMProofs -----------------------------
(***************************************************************************)
(* Theorems about ExprVM, for a stack of any size and expressions of any   *)
(* length: who owns the strings, and that none is freed twice; and about   *)
(* ExprOps, for integers and doubles of any width, a buffer of any size    *)
(* and any values: what the operators make of them.                        *)
(***************************************************************************)
EXTENDS ExprVM, ExprOps, DataFacts, FiniteSetTheorems, TLAPS

\* The slots below n of the array st that own a block.
Owners(st, n) == {i \in 0..(n - 1) : Owns(st[i])}

\* The n values on st own the blocks of h, each its own.
Owned(st, n, h) == /\ \A i \in Owners(st, n) : st[i].ptr \in h
                   /\ \A b \in h : \E i \in Owners(st, n) : st[i].ptr = b
                   /\ \A i, j \in Owners(st, n) : st[i].ptr = st[j].ptr => i = j

\* Two values that own the same block are the same value.
LEMMA SameBlock == ASSUME NEW a \in Value, NEW b \in Value, Owns(a), Owns(b), a.ptr = b.ptr
                   PROVE  a = b
BY DEF Value, Owns

\* What StackOwnsHeap says of the n values on st, in terms of slots.
LEMMA OwnedStack ==
  ASSUME NEW st \in [Slots -> Value], NEW n \in 0..StackSize, NEW h
  PROVE  (/\ h = Blocks({st[i] : i \in 0..(n - 1)})
          /\ \A i, j \in 0..(n - 1) : Owns(st[i]) /\ st[j] = st[i] => i = j)
         <=> Owned(st, n, h)
<1> DEFINE OneOwner == \A i, j \in 0..(n - 1) : Owns(st[i]) /\ st[j] = st[i] => i = j
           AllOwners == \A b : b \in h <=> \E i \in 0..(n - 1) : Owns(st[i]) /\ st[i].ptr = b
<1>1. \A i \in 0..(n - 1) : st[i] \in Value
  BY SizeAssumption DEF Slots
<1>2. h = Blocks({st[i] : i \in 0..(n - 1)}) <=> AllOwners
  BY DEF Blocks
<1>3. AllOwners /\ OneOwner => Owned(st, n, h)
  <2>1. OneOwner => \A i, j \in Owners(st, n) : st[i].ptr = st[j].ptr => i = j
    BY <1>1, SameBlock DEF Owners
  <2> QED  BY <2>1 DEF Owned, Owners
<1>4. Owned(st, n, h) => AllOwners /\ OneOwner
  BY DEF Owned, Owners
<1> QED  BY <1>2, <1>3, <1>4

\* The blocks of the slots in A.
LEMMA BlocksOfSlots == ASSUME NEW st, NEW A, NEW b
                       PROVE  b \in Blocks({st[i] : i \in A}) <=>
                                 \E i \in A : Owns(st[i]) /\ st[i].ptr = b
BY DEF Blocks

\* A value that brings a block of its own, or none, to a heap without it.
Brings(v, h, h2) == \/ h2 = h /\ ~Owns(v)
                    \/ Owns(v) /\ v.ptr \notin h /\ h2 = h \cup {v.ptr}

\* A value pushed on n values.
LEMMA PushOwned ==
  ASSUME NEW st \in [Slots -> Value], NEW n \in Slots, NEW h, NEW h2, NEW v \in Value,
         Brings(v, h, h2), Owned(st, n, h)
  PROVE  Owned([st EXCEPT ![n] = v], n + 1, h2)
<1> DEFINE new == [st EXCEPT ![n] = v]
<1>1. \A i \in 0..(n - 1) : i # n /\ new[i] = st[i]
  BY DEF Slots
<1>2. new[n] = v
  OBVIOUS
<1>3. Owners(new, n + 1) = Owners(st, n) \cup (IF Owns(v) THEN {n} ELSE {})
  BY <1>1, <1>2 DEF Owners, Slots
<1>4. \A i \in Owners(st, n) : i # n /\ new[i] = st[i]
  BY <1>1 DEF Owners
<1> HIDE DEF new
<1>5. ASSUME h2 = h, ~Owns(v)
      PROVE  Owned(new, n + 1, h2)
  BY <1>3, <1>4, <1>5 DEF Owned
<1>6. ASSUME Owns(v), v.ptr \notin h, h2 = h \cup {v.ptr}
      PROVE  Owned(new, n + 1, h2)
  BY <1>2, <1>3, <1>4, <1>6 DEF Owned
<1> QED  BY <1>5, <1>6 DEF Brings, new

\* Values that own nothing are not missed.
LEMMA DropOwned ==
  ASSUME NEW st, NEW n \in Nat, NEW m \in Nat, n <= m, NEW h, Owned(st, m, h),
         \A i \in n..(m - 1) : ~Owns(st[i])
  PROVE  Owned(st, n, h)
<1> Owners(st, m) = Owners(st, n)
  BY DEF Owners
<1> QED  BY DEF Owned

\* What n values own once those above them, up to m, are freed.
LEMMA FreeOwned ==
  ASSUME NEW st, NEW n \in Nat, NEW m \in Nat, n <= m, NEW h, Owned(st, m, h),
         NEW freed, \A b : b \in freed <=> \E i \in n..(m - 1) : Owns(st[i]) /\ st[i].ptr = b
  PROVE  Owned(st, n, h \ freed)
<1>1. Owners(st, n) \subseteq Owners(st, m)
  BY DEF Owners
<1>2. \A i \in Owners(st, n) : st[i].ptr \in h /\ st[i].ptr \notin freed
  <2> TAKE i \in Owners(st, n)
  <2>1. \A j \in n..(m - 1) : Owns(st[j]) => j \in Owners(st, m) /\ j # i
    BY DEF Owners
  <2> QED  BY <1>1, <2>1 DEF Owned
<1>3. \A b \in h \ freed : \E i \in Owners(st, n) : st[i].ptr = b
  <2> TAKE b \in h \ freed
  <2>1. PICK i \in Owners(st, m) : st[i].ptr = b
    BY DEF Owned
  <2>2. i \in 0..(n - 1)
    BY <2>1 DEF Owners
  <2> QED  BY <2>1, <2>2 DEF Owners
<1> QED  BY <1>1, <1>2, <1>3 DEF Owned

------------------------------------------------------------------------------
\* The invariant

\* Before its first instruction the machine is as it was initialised, and until
\* it returns *out is.
Untouched == /\ pc = "call" => heap = {} /\ sp = 0
             /\ pc = "call" \/ (pc = "run" /\ sp = 0) => stack[0] = NONE_V
             /\ pc \in {"call", "run"} => out = NONE_V

\* malloc returns a block that is not in use.
Fresh == pc = "run" => \A b \in heap : b < next

Inv == TypeOK /\ StackOwnsHeap /\ NoFault /\ ResultOwned /\ FailureFrees /\ Untouched /\ Fresh

\* The initial state has the invariant.
LEMMA InitInv == Init => Inv
<1> SUFFICES ASSUME Init PROVE Inv
  OBVIOUS
<1>1. TypeOK
  <2>1. NONE_V \in Value
    BY DEF NONE_V, Value, NIL
  <2>2. stack \in [Slots -> Value] /\ out \in Value
    BY <2>1 DEF Init
  <2>3. left \in 0..MaxLen /\ sp \in 0..StackSize /\ next \in Nat \ {NIL}
    BY SizeAssumption, LenAssumption DEF Init, NIL
  <2>4. fault \in BOOLEAN
    BY Zenon DEF Init
  <2> QED  BY <2>2, <2>3, <2>4 DEF Init, TypeOK
<1>2. stack[0] = NONE_V
  BY SizeAssumption DEF Init, Slots
<1> QED  BY <1>1, <1>2 DEF Init, Inv, StackOwnsHeap, NoFault, ResultOwned, FailureFrees, Untouched, Fresh

\* The values on the stack of a running machine own its heap.
LEMMA RunningOwned == ASSUME Inv, pc = "run"
                      PROVE  Owned(stack, sp, heap)
BY OwnedStack DEF Inv, StackOwnsHeap, TypeOK, OnStack

\* The new value of a slot and the heap that holds its block: no block, or the
\* one malloc returned.
Made(v, h) == \/ ~Owns(v) /\ h = heap /\ next' = next
              \/ v = STR_V(next) /\ h = heap \cup {next} /\ next' = next + 1

\* A block malloc returned is new to the heap, and the next one is new again.
LEMMA MadeBrings == ASSUME Inv, pc = "run", NEW v, NEW h, Made(v, h)
                    PROVE  /\ Brings(v, heap, h)
                           /\ h \subseteq Nat \ {NIL} /\ heap \subseteq h
                           /\ \A b \in h : b < next'
                           /\ next' \in Nat \ {NIL}
<1>1. \A b \in heap : b < next
  BY DEF Inv, Fresh
<1>2. next \in Nat \ {NIL} /\ heap \subseteq Nat \ {NIL}
  BY DEF Inv, TypeOK
<1>3. CASE ~Owns(v) /\ h = heap /\ next' = next
  BY <1>1, <1>2, <1>3 DEF Brings
<1>4. CASE v = STR_V(next) /\ h = heap \cup {next} /\ next' = next + 1
  BY <1>1, <1>2, <1>4 DEF Brings, Owns, STR_V, NIL
<1> QED  BY <1>3, <1>4 DEF Made

\* A machine that goes on with a value on its stack.
LEMMA RunOn ==
  ASSUME TypeOK', NoFault', pc' = "run", out' = NONE_V, sp' > 0,
         Owned(stack', sp', heap'), \A b \in heap' : b < next'
  PROVE  Inv'
<1>1. StackOwnsHeap'
  BY OwnedStack DEF TypeOK, StackOwnsHeap, OnStack
<1>2. sp' # 0
  BY DEF TypeOK
<1> QED  BY <1>1, <1>2 DEF Inv, ResultOwned, FailureFrees, Untouched, Fresh

\* Freeing n values of the stack frees n blocks, each once.
LEMMA CleanupOnce ==
  ASSUME Inv, pc = "run", NEW n \in Nat, n <= sp, NEW h, heap \subseteq h, Cleanup(n, h)
  PROVE  /\ heap' = h \ Blocks({stack[i] : i \in 0..(n - 1)})
         /\ fault' = FALSE
<1>1. Owned(stack, sp, heap)
  BY RunningOwned
<1>2. sp \in Nat /\ ~fault
  BY DEF Inv, TypeOK, NoFault
<1>3. \A i \in 0..(n - 1) : Owns(stack[i]) => i \in Owners(stack, sp)
  BY <1>2 DEF Owners
<1>4. \A i \in 0..(n - 1) : ~BadFree(h, stack[i])
  BY <1>1, <1>3 DEF BadFree, Owned
<1>5. \A i \in 0..(n - 1) : \A j \in 0..(i - 1) : ~(Owns(stack[i]) /\ stack[j] = stack[i])
  <2> TAKE i \in 0..(n - 1)
  <2> TAKE j \in 0..(i - 1)
  <2>1. j \in 0..(n - 1) /\ j # i
    OBVIOUS
  <2> QED  BY <1>1, <1>3, <2>1 DEF Owned
<1>6. fault' = (fault \/ \E i \in 0..(n - 1) :
                             \/ BadFree(h, stack[i])
                             \/ \E j \in 0..(i - 1) : Owns(stack[i]) /\ stack[j] = stack[i])
  BY Zenon DEF Cleanup
<1>7. heap' = h \ Blocks({stack[i] : i \in 0..(n - 1)})
  BY DEF Cleanup
<1> QED  BY <1>2, <1>4, <1>5, <1>6, <1>7

\* Every exit that fails.
LEMMA FailInv ==
  ASSUME Inv, pc = "run", NEW n \in Nat, n <= sp, \A i \in n..(sp - 1) : ~Owns(stack[i]),
         NEW h, h = heap \/ h = heap \cup {next},
         NEW code \in {"EINVAL", "ENOMEM", "EOVERFLOW"}, Fail(code, n, h),
         next' \in {next, next + 1}, left' \in 0..MaxLen
  PROVE  Inv'
<1>1. /\ heap' = h \ Blocks({stack[i] : i \in 0..(n - 1)})
      /\ fault' = FALSE
  BY CleanupOnce DEF Fail
<1>2. sp \in Nat /\ next \in Nat /\ next # NIL /\ heap \subseteq Nat \ {NIL}
  BY DEF Inv, TypeOK
<1>3. heap \subseteq Blocks({stack[i] : i \in 0..(n - 1)})
  <2> SUFFICES ASSUME NEW b \in heap PROVE b \in Blocks({stack[i] : i \in 0..(n - 1)})
    OBVIOUS
  <2>1. PICK i \in Owners(stack, sp) : stack[i].ptr = b
    BY RunningOwned DEF Owned
  <2>2. i \in 0..(n - 1) /\ Owns(stack[i])
    BY <1>2, <2>1 DEF Owners
  <2> QED  BY <2>1, <2>2, BlocksOfSlots
<1>4. heap' \subseteq {next}
  BY <1>1, <1>3
<1>5. Cardinality(heap') <= 1
  <2>1. IsFiniteSet({next}) /\ Cardinality({next}) = 1
    BY FS_Singleton
  <2> QED  BY <1>4, <2>1, FS_Subset, FS_CardinalityType
<1>6. out' = NONE_V
  BY DEF Fail, Inv, Untouched
<1>7. TypeOK'
  <2>1. heap' \subseteq Nat \ {NIL} /\ next' \in Nat \ {NIL}
    BY <1>2, <1>4 DEF NIL
  <2> fault' \in BOOLEAN
    BY <1>1
  <2>2. pc' = "end" /\ rc' = code /\ sp' = n /\ stack' = stack /\ out' = out
    BY DEF Fail
  <2>3. n \in 0..StackSize /\ stack \in [Slots -> Value] /\ out \in Value
    BY SizeAssumption DEF Inv, TypeOK
  <2> QED  BY <2>1, <2>2, <2>3 DEF TypeOK
<1> QED  BY <1>1, <1>5, <1>6, <1>7
         DEF Fail, Inv, NoFault, StackOwnsHeap, ResultOwned, FailureFrees, Untouched, Fresh

\* PUSH over values that own nothing.
LEMMA PushInv ==
  ASSUME Inv, pc = "run", NEW n \in Nat, n <= sp, \A i \in n..(sp - 1) : ~Owns(stack[i]),
         NEW v \in Value, NEW h, Made(v, h), Push(n, v, h), left' \in 0..MaxLen
  PROVE  Inv'
<1>1. CASE n >= StackSize
  <2>1. Fail("EOVERFLOW", n, h)
    BY <1>1 DEF Push, Full
  <2>2. (h = heap \/ h = heap \cup {next}) /\ next' \in {next, next + 1}
    BY DEF Made
  <2> QED  BY <2>1, <2>2, FailInv
<1>2. CASE ~(n >= StackSize)
  <2>1. /\ stack' = [stack EXCEPT ![n] = v]
        /\ sp' = n + 1 /\ heap' = h
        /\ UNCHANGED <<pc, rc, out, fault>>
    BY <1>2 DEF Push, Full
  <2>2. n \in Slots /\ sp \in Nat /\ stack \in [Slots -> Value]
    BY <1>2, SizeAssumption DEF Slots, Inv, TypeOK
  <2>3. Owned(stack', sp', heap')
    <3>1. Owned(stack, n, heap)
      BY <2>2, RunningOwned, DropOwned
    <3> QED  BY <2>1, <2>2, <3>1, MadeBrings, PushOwned
  <2>4. TypeOK'
    <3>1. stack' \in [Slots -> Value] /\ sp' \in 0..StackSize
      BY <2>1, <2>2, SizeAssumption DEF Slots
    <3>2. heap' \subseteq Nat \ {NIL} /\ next' \in Nat \ {NIL}
      BY <2>1, MadeBrings
    <3> QED  BY <2>1, <3>1, <3>2 DEF Inv, TypeOK
  <2>5. NoFault' /\ out' = NONE_V /\ pc' = "run"
    BY <2>1 DEF Inv, NoFault, Untouched
  <2> QED  BY <2>1, <2>3, <2>4, <2>5, MadeBrings, RunOn
<1> QED  BY <1>1, <1>2

\* Popping values, pushing one and freeing those popped.
LEMMA ReplaceInv ==
  ASSUME Inv, pc = "run", NEW n \in Nat, n < sp,
         NEW v \in Value, NEW h, Made(v, h), Replace(n, v, h), left' \in 0..MaxLen
  PROVE  Inv'
<1> DEFINE freed == Blocks({stack[i] : i \in n..(sp - 1)})
<1>1. /\ stack' = [stack EXCEPT ![n] = v]
      /\ sp' = n + 1 /\ heap' = h \ freed
      /\ UNCHANGED <<pc, rc, out>>
  BY DEF Replace
<1>2. n \in Slots /\ sp \in Nat /\ stack \in [Slots -> Value] /\ n + 1 \in 0..StackSize
  BY SizeAssumption DEF Slots, Inv, TypeOK
<1>3. Owned(stack, sp, heap) /\ Owned(stack, n, heap \ freed)
  <2>1. \A b : b \in freed <=> \E i \in n..(sp - 1) : Owns(stack[i]) /\ stack[i].ptr = b
    BY BlocksOfSlots
  <2> HIDE DEF freed
  <2>2. Owned(stack, sp, heap)
    BY RunningOwned
  <2>3. n <= sp
    BY <1>2
  <2>4. Owned(stack, n, heap \ freed)
    BY <1>2, <2>1, <2>2, <2>3, FreeOwned
  <2> QED  BY <2>2, <2>4
<1>4. freed \subseteq heap
  <2>0. \A b : b \in freed <=> \E i \in n..(sp - 1) : Owns(stack[i]) /\ stack[i].ptr = b
    BY BlocksOfSlots
  <2> HIDE DEF freed
  <2> SUFFICES ASSUME NEW b \in freed PROVE b \in heap
    OBVIOUS
  <2>1. PICK i \in n..(sp - 1) : Owns(stack[i]) /\ stack[i].ptr = b
    BY <2>0
  <2>2. i \in Owners(stack, sp)
    BY <2>1 DEF Owners
  <2> QED  BY <1>3, <2>1, <2>2 DEF Owned
<1> HIDE DEF freed
<1>5. Brings(v, heap \ freed, h \ freed)
  BY <1>4, MadeBrings DEF Brings
<1>6. Owned(stack', sp', heap')
  BY <1>1, <1>2, <1>3, <1>5, PushOwned
<1>7. fault' = FALSE
  <2>1. \A i \in n..(sp - 1) : Owns(stack[i]) => i \in Owners(stack, sp)
    BY DEF Owners
  <2>2. \A i \in n..(sp - 1) : ~BadFree(h, stack[i])
    BY <1>3, <2>1, MadeBrings DEF BadFree, Owned
  <2>3. \A i \in n..(sp - 1) : \A j \in (n..(sp - 1)) \ {i} : ~(Owns(stack[i]) /\ stack[j] = stack[i])
    BY <1>3, <2>1 DEF Owned
  <2>4. fault' = (fault \/ \E i \in n..(sp - 1) :
                              \/ BadFree(h, stack[i])
                              \/ \E j \in (n..(sp - 1)) \ {i} : Owns(stack[i]) /\ stack[j] = stack[i])
    BY Zenon DEF Replace
  <2>5. ~fault
    BY DEF Inv, NoFault
  <2> QED  BY <2>2, <2>3, <2>4, <2>5
<1>8. TypeOK'
  <2>1. stack' \in [Slots -> Value] /\ sp' \in 0..StackSize
    BY <1>1, <1>2
  <2>2. heap' \subseteq Nat \ {NIL} /\ next' \in Nat \ {NIL}
    BY <1>1, MadeBrings
  <2> fault' \in BOOLEAN
    BY <1>7
  <2> QED  BY <1>1, <2>1, <2>2 DEF Inv, TypeOK
<1>9. NoFault' /\ out' = NONE_V /\ pc' = "run"
  BY <1>1, <1>7 DEF Inv, NoFault, Untouched
<1> QED  BY <1>1, <1>2, <1>6, <1>8, <1>9, MadeBrings, RunOn

\* An instruction that changes nothing but what is left to execute.
LEMMA IdleInv == ASSUME Inv, UNCHANGED <<pc, stack, sp, heap, next, rc, out, fault>>, left' \in 0..MaxLen
                 PROVE  Inv'
<1>1. UNCHANGED OnStack
  BY DEF OnStack
<1> QED  BY <1>1 DEF Inv, TypeOK, StackOwnsHeap, NoFault, ResultOwned, FailureFrees, Untouched, Fresh

\* A signal ends the process with its memory.
LEMMA CrashInv == ASSUME Inv, Crash, left' \in 0..MaxLen
                  PROVE  Inv'
BY DEF Crash, Inv, TypeOK, StackOwnsHeap, NoFault, ResultOwned, FailureFrees, Untouched, Fresh

\* Numbers own nothing, nor does a string without a block.
LEMMA Numbers == /\ INT_V \in Value /\ FLT_V \in Value /\ STR_V(NIL) \in Value
                 /\ ~Owns(INT_V) /\ ~Owns(FLT_V) /\ ~Owns(STR_V(NIL))
                 /\ \A vs : Arithmetic(vs) \in {INT_V, FLT_V}
BY DEF INT_V, FLT_V, STR_V, Owns, Value, NIL, Arithmetic

\* A number made of the n-th value and those above it.
LEMMA NumberInv ==
  ASSUME Inv, pc = "run", NEW n \in Nat, n < sp, left' \in 0..MaxLen,
         NEW v \in {INT_V, FLT_V, STR_V(NIL)}, Replace(n, v, heap), UNCHANGED next
  PROVE  Inv'
<1>1. Made(v, heap)
  BY Numbers DEF Made
<1> QED  BY <1>1, Numbers, ReplaceInv

------------------------------------------------------------------------------
\* The instructions

\* What is known of the machine at an instruction.
LEMMA ExecutingLeft == ASSUME Inv, Executing
                       PROVE  pc = "run" /\ left' \in 0..MaxLen /\ sp \in Nat /\ sp <= StackSize
BY SizeAssumption, LenAssumption DEF Inv, TypeOK, Executing

\* A string made of the next block.
LEMMA NewString == ASSUME Inv
                   PROVE  STR_V(next) \in Value /\ next \in Nat
BY DEF Inv, TypeOK, STR_V, Value

\* A call that starts, or is refused, has the invariant.
LEMMA CallInv == ASSUME Inv, Call
                 PROVE  Inv'
<1>1. pc = "call" /\ UNCHANGED <<left, stack, sp, heap, next, out, fault>> /\ pc' \in {"run", "end"}
      /\ rc' \in {rc, "EINVAL"} /\ (pc' = "end" => rc' = "EINVAL")
  BY DEF Call
<1>2. heap = {} /\ sp = 0 /\ stack[0] = NONE_V /\ out = NONE_V
  BY <1>1 DEF Inv, Untouched
<1>3. TypeOK' /\ NoFault'
  BY <1>1 DEF Inv, TypeOK, NoFault
<1>4. StackOwnsHeap'
  <2>1. Owned(stack', sp', heap')
    BY <1>1, <1>2 DEF Owned, Owners
  <2> QED  BY <1>3, <2>1, OwnedStack DEF TypeOK, StackOwnsHeap, OnStack
<1>5. Cardinality(heap') <= 1
  BY <1>1, <1>2, FS_EmptySet
<1> QED  BY <1>1, <1>2, <1>3, <1>4, <1>5 DEF Inv, ResultOwned, FailureFrees, Untouched, Fresh

\* So has the exit from an instruction that cannot be executed,
LEMMA BadInstructionInv == ASSUME Inv, BadInstruction
                           PROVE  Inv'
<1>1. Executing /\ Fail("EINVAL", sp, heap) /\ next' = next
  BY DEF BadInstruction
<1>2. \A i \in sp..(sp - 1) : ~Owns(stack[i])
  BY <1>1, ExecutingLeft
<1> QED  BY <1>1, <1>2, ExecutingLeft, FailInv

\* a push of a number,
LEMMA PushNumberInv == ASSUME Inv, PushNumber
                       PROVE  Inv'
<1>1. Executing /\ next' = next
  BY DEF PushNumber
<1>2. PICK v \in {INT_V, FLT_V} : Push(sp, v, heap)
  BY DEF PushNumber
<1>3. Made(v, heap) /\ v \in Value
  BY <1>1, Numbers DEF Made
<1>4. \A i \in sp..(sp - 1) : ~Owns(stack[i])
  BY <1>1, ExecutingLeft
<1> QED  BY <1>1, <1>2, <1>3, <1>4, ExecutingLeft, PushInv

\* a push of a string with each of its exits,
LEMMA PushStrInv == ASSUME Inv, PushStr
                    PROVE  Inv'
<1>1. Executing
  BY DEF PushStr
<1>2. pc = "run" /\ left' \in 0..MaxLen /\ sp \in Nat /\ sp <= sp
  BY <1>1, ExecutingLeft
<1>3. \A i \in sp..(sp - 1) : ~Owns(stack[i])
  BY <1>2
<1>4. ASSUME NEW code \in {"ENOMEM", "EINVAL"}, Fail(code, sp, heap), next' = next
      PROVE  Inv'
  BY <1>2, <1>3, <1>4, FailInv
<1>5. ASSUME NEW code \in {"ENOMEM", "EINVAL"}, Fail(code, sp, heap \cup {next}), next' = next + 1
      PROVE  Inv'
  BY <1>2, <1>3, <1>5, FailInv
<1>6. ASSUME Push(sp, STR_V(next), heap \cup {next}), next' = next + 1
      PROVE  Inv'
  <2>1. Made(STR_V(next), heap \cup {next})
    BY <1>6 DEF Made
  <2> QED  BY <1>2, <1>3, <1>6, <2>1, NewString, PushInv
<1> QED  BY <1>4, <1>5, <1>6 DEF PushStr

\* an operator, whose operands are copies of what is freed,
LEMMA BinaryInv == ASSUME Inv, Binary
                   PROVE  Inv'
<1> DEFINE a == stack[sp - 2]
           b == stack[sp - 1]
<1>1. Executing /\ sp >= 2
  BY DEF Binary
<1>2. pc = "run" /\ left' \in 0..MaxLen /\ sp - 2 \in Nat /\ sp - 2 < sp
  BY <1>1, ExecutingLeft
<1>3. OpAdd(a, b) \/ OpArith(a, b) \/ OpDiv(a, b) \/ OpConvert(a, b) \/ OpEq(a, b) \/ OpLog(a, b)
  BY DEF Binary
<1> HIDE DEF a, b
<1>4. ASSUME NEW v \in {INT_V, FLT_V, STR_V(NIL)}, Replace(sp - 2, v, heap), UNCHANGED next
      PROVE  Inv'
  BY <1>2, <1>4, NumberInv
<1>5. Crash => Inv'
  BY <1>2, CrashInv
<1>6. CASE OpAdd(a, b)
  <2>1. ASSUME Replace(sp - 2, STR_V(next), heap \cup {next}), next' = next + 1
        PROVE  Inv'
    <3>1. Made(STR_V(next), heap \cup {next})
      BY <2>1 DEF Made
    <3> QED  BY <1>2, <2>1, <3>1, NewString, ReplaceInv
  <2> QED  BY <1>4, <1>6, <2>1, Numbers DEF OpAdd
<1>7. OpArith(a, b) => Inv'
  BY <1>4, <1>5, Numbers DEF OpArith
<1>8. OpDiv(a, b) => Inv'
  BY <1>5, <1>7 DEF OpDiv
<1>9. OpConvert(a, b) => Inv'
  BY <1>4, <1>5 DEF OpConvert
<1>10. OpEq(a, b) => Inv'
  BY <1>4, <1>5 DEF OpEq
<1>11. OpLog(a, b) => Inv'
  BY <1>4, <1>5 DEF OpLog
<1> QED  BY <1>3, <1>6, <1>7, <1>8, <1>9, <1>10, <1>11

\* a negation,
LEMMA NegInv == ASSUME Inv, OP_NEG
                PROVE  Inv'
<1> DEFINE top == stack[sp - 1]
<1>1. Executing /\ sp >= 1
  BY DEF OP_NEG
<1>2. pc = "run" /\ left' \in 0..MaxLen /\ sp - 1 \in Nat /\ sp - 1 < sp
  BY <1>1, ExecutingLeft
<1>3. \/ Crash
      \/ \E v \in {INT_V, FLT_V} : Replace(sp - 1, v, heap) /\ UNCHANGED next
  BY DEF OP_NEG
<1>4. CASE Crash
  BY <1>2, <1>4, CrashInv
<1>5. CASE \E v \in {INT_V, FLT_V} : Replace(sp - 1, v, heap) /\ UNCHANGED next
  BY <1>2, <1>5, NumberInv
<1> QED  BY <1>3, <1>4, <1>5

\* a conversion to text,
LEMMA ToStrInv == ASSUME Inv, OP_TO_STR
                  PROVE  Inv'
<1>1. Executing /\ sp >= 1
  BY DEF OP_TO_STR
<1>2. pc = "run" /\ left' \in 0..MaxLen /\ sp - 1 \in Nat /\ sp - 1 <= sp
  BY <1>1, ExecutingLeft
<1>3. CASE stack[sp - 1].type = "STR"
  BY <1>2, <1>3, IdleInv DEF OP_TO_STR
<1>4. CASE stack[sp - 1].type # "STR"
  <2>1. \A i \in (sp - 1)..(sp - 1) : ~Owns(stack[i])
    BY <1>2, <1>4 DEF Owns
  <2>2. ASSUME Fail("ENOMEM", sp - 1, heap), next' = next
        PROVE  Inv'
    BY <1>2, <2>1, <2>2, FailInv
  <2>3. ASSUME Push(sp - 1, STR_V(next), heap \cup {next}), next' = next + 1
        PROVE  Inv'
    <3>1. Made(STR_V(next), heap \cup {next})
      BY <2>3 DEF Made
    <3> QED  BY <1>2, <2>1, <2>3, <3>1, NewString, PushInv
  <2> QED  BY <1>4, <2>2, <2>3 DEF OP_TO_STR
<1> QED  BY <1>3, <1>4

\* a conversion to a number,
LEMMA ToNumInv == ASSUME Inv, OP_TO_NUM
                  PROVE  Inv'
<1> DEFINE top == stack[sp - 1]
<1>1. Executing /\ sp >= 1
  BY DEF OP_TO_NUM
<1>2. pc = "run" /\ left' \in 0..MaxLen /\ sp - 1 \in Nat /\ sp - 1 < sp
  BY <1>1, ExecutingLeft
<1>3. top \in Value
  BY <1>2, ExecutingLeft, <1>1, SizeAssumption DEF Inv, TypeOK, Slots
<1>4. CASE IsNull(top)
  BY <1>2, <1>4, CrashInv DEF OP_TO_NUM
<1>5. CASE ~IsNull(top)
  <2>1. UNCHANGED next
    BY <1>5 DEF OP_TO_NUM
  <2>2. PICK v \in IF top.type = "STR" THEN {INT_V, FLT_V} ELSE {top} : Replace(sp - 1, v, heap)
    BY <1>5 DEF OP_TO_NUM
  <2>3. v \in Value /\ ~Owns(v)
    BY <1>3, Numbers DEF Owns
  <2>4. Made(v, heap)
    BY <2>1, <2>3 DEF Made
  <2> QED  BY <1>2, <2>2, <2>3, <2>4, ReplaceInv
<1> QED  BY <1>4, <1>5

\* and the end, which moves a value to *out and frees the others.
LEMMA FinishInv == ASSUME Inv, Finish
                   PROVE  Inv'
<1> DEFINE n == IF sp > 0 THEN sp - 1 ELSE 0
<1>1. pc = "run" /\ out' = stack[n] /\ Cleanup(n, heap) /\ pc' = "end" /\ rc' = "0" /\ sp' = n
      /\ UNCHANGED <<left, stack, next>>
  BY DEF Finish
<1>2. n \in Nat /\ n <= sp /\ n \in Slots /\ n \in 0..StackSize /\ sp \in Nat
  BY SizeAssumption DEF Inv, TypeOK, Slots
<1> HIDE DEF n
<1>3. heap' = heap \ Blocks({stack[i] : i \in 0..(n - 1)}) /\ fault' = FALSE
  BY <1>1, <1>2, CleanupOnce
<1>4. \A b : b \in heap' <=> b \in heap /\ ~\E i \in 0..(n - 1) : Owns(stack[i]) /\ stack[i].ptr = b
  <2> DEFINE freed == Blocks({stack[i] : i \in 0..(n - 1)})
  <2>1. \A b : b \in freed <=> \E i \in 0..(n - 1) : Owns(stack[i]) /\ stack[i].ptr = b
    BY BlocksOfSlots
  <2>2. heap' = heap \ freed
    BY <1>3
  <2> HIDE DEF freed
  <2> QED  BY <2>1, <2>2
<1>5. Owned(stack, sp, heap)
  BY <1>1, RunningOwned
<1>6. \A b : b \in heap' <=> Owns(stack[n]) /\ stack[n].ptr = b
  <2>1. CASE sp = 0
    <3>1. ~Owns(stack[n])
      BY <1>1, <2>1 DEF n, Inv, Untouched, Owns, NONE_V
    <3>2. heap = {}
      BY <1>5, <2>1 DEF Owned, Owners
    <3> QED  BY <1>4, <3>1, <3>2
  <2>2. CASE sp > 0
    <3>1. n = sp - 1
      BY <2>2 DEF n
    <3>2. \A i : i \in Owners(stack, sp) <=> (i \in 0..(n - 1) \/ i = n) /\ Owns(stack[i])
      BY <1>2, <3>1 DEF Owners
    <3>3. ASSUME NEW b, b \in heap'
          PROVE  Owns(stack[n]) /\ stack[n].ptr = b
      BY <1>4, <1>5, <3>2, <3>3 DEF Owned
    <3>4. ASSUME Owns(stack[n])
          PROVE  stack[n].ptr \in heap'
      <4>1. n \in Owners(stack, sp) /\ n \notin 0..(n - 1)
        BY <1>2, <3>2, <3>4
      <4> QED  BY <1>4, <1>5, <3>2, <4>1 DEF Owned
    <3> QED  BY <3>3, <3>4
  <2> QED  BY <1>2, <2>1, <2>2
<1>7. heap' = Blocks({out'})
  BY <1>1, <1>6 DEF Blocks
<1>8. TypeOK'
  <2>1. heap' \subseteq Nat \ {NIL} /\ stack[n] \in Value
    BY <1>2, <1>3 DEF Inv, TypeOK
  <2> fault' \in BOOLEAN
    BY <1>3
  <2> QED  BY <1>1, <1>2, <2>1 DEF Inv, TypeOK
<1>9. NoFault'
  BY <1>3 DEF NoFault
<1> QED  BY <1>1, <1>7, <1>8, <1>9
         DEF Inv, StackOwnsHeap, ResultOwned, FailureFrees, Untouched, Fresh

\* Every step of the machine keeps the invariant.
LEMMA NextInv == Inv /\ [Next]_vars => Inv'
<1> SUFFICES ASSUME Inv, [Next]_vars PROVE Inv'
  OBVIOUS
<1>1. CASE Call            BY <1>1, CallInv
<1>2. CASE BadInstruction  BY <1>2, BadInstructionInv
<1>3. CASE PushNumber      BY <1>3, PushNumberInv
<1>4. CASE PushStr         BY <1>4, PushStrInv
<1>5. CASE Skip            BY <1>5, IdleInv, ExecutingLeft DEF Skip
<1>6. CASE Binary          BY <1>6, BinaryInv
<1>7. CASE OP_NEG          BY <1>7, NegInv
<1>8. CASE OP_TO_STR       BY <1>8, ToStrInv
<1>9. CASE OP_TO_NUM       BY <1>9, ToNumInv
<1>10. CASE Finish         BY <1>10, FinishInv
<1>11. CASE UNCHANGED vars
  BY <1>11, IdleInv DEF vars, Inv, TypeOK
<1> QED  BY <1>1, <1>2, <1>3, <1>4, <1>5, <1>6, <1>7, <1>8, <1>9, <1>10, <1>11 DEF Next

\* The invariant of eval_expr holds of every evaluation.
THEOREM Invariant == Spec => []Inv
BY InitInv, NextInv, PTL DEF Spec

------------------------------------------------------------------------------
\* The theorems

\* eval_expr keeps its stack within EXPR_STACK_SIZE and its values whole.
THEOREM TypeCorrect == Spec => []TypeOK
<1> Inv => TypeOK
  BY DEF Inv
<1> QED  BY Invariant, PTL

\* Between two instructions each live string has exactly one owner on the stack.
THEOREM StackIsOwner == Spec => []StackOwnsHeap
<1> Inv => StackOwnsHeap
  BY DEF Inv
<1> QED  BY Invariant, PTL

\* No string is freed twice, or read once it is freed, on any path.
THEOREM NoDoubleFree == Spec => []NoFault
<1> Inv => NoFault
  BY DEF Inv
<1> QED  BY Invariant, PTL

\* eval_expr leaves the block of its result to the caller and no other, and
\* when it fails at most the string in hand.
THEOREM NothingLeaks == Spec => []NothingLeft
<1> Inv => NothingLeft
  BY DEF Inv, NothingLeft
<1> QED  BY Invariant, PTL

------------------------------------------------------------------------------
(* Powers of two, and the doubles among the numbers                        *)

\* Powers of two.
LEMMA Powers ==
  /\ Pow2 \in [Nat -> Nat \ {0}]
  /\ Pow2[0] = 1
  /\ \A n \in Nat : Pow2[n + 1] = 2 * Pow2[n]
<1> DEFINE m == [n \in Nat |-> n]
           z == [n \in {0} |-> 1]
           r == [n \in Nat \ {0} |-> n - 1]
           h == [n \in Nat \ {0} |-> [y \in Nat \ {0} |-> 2 * y]]
<1>1. Descends(Nat, Nat \ {0}, m, {0}, z, r, h)
  BY DEF Descends
<1>2. PICK f : f \in [Nat -> Nat \ {0}] /\ Recurs(f, Nat, {0}, z, r, h)
  <2> HIDE DEF m, z, r, h
  <2> QED  BY <1>1, Recursion
<1>3. f = [n \in Nat |-> IF n = 0 THEN 1 ELSE 2 * f[n - 1]]
  <2>1. ASSUME NEW n \in Nat  PROVE f[n] = IF n = 0 THEN 1 ELSE 2 * f[n - 1]
    <3>1. f[n] = IF n \in {0} THEN z[n] ELSE h[n][f[r[n]]]
      BY <1>2 DEF Recurs
    <3>2. n # 0 => r[n] = n - 1 /\ r[n] \in Nat /\ f[r[n]] \in Nat \ {0}
      BY <1>2
    <3> QED  BY <3>1, <3>2
  <2> QED  BY <1>2, <2>1
<1>4. Pow2 = [n \in Nat |-> IF n = 0 THEN 1 ELSE 2 * Pow2[n - 1]]
  BY <1>3 DEF Pow2
<1>5. Pow2 \in [Nat -> Nat \ {0}]
  <2>1. /\ \A n \in {0} : Pow2[n] = z[n]
        /\ \A n \in Nat \ {0} : Pow2[r[n]] \in Nat \ {0} => Pow2[n] = h[n][Pow2[r[n]]]
    BY <1>4
  <2> HIDE DEF m, z, r, h
  <2>2. \A n \in Nat : Pow2[n] \in Nat \ {0}
    BY <1>1, <2>1, RecursionType
  <2> QED  BY <1>4, <2>2
<1> QED  BY <1>4, <1>5

\* Powers of ten.
LEMMA PowersOfTen == (\A n \in Nat : Pow10[n] \in Nat \ {0}) /\ Pow10[1] = 10
<1> DEFINE m == [n \in Nat |-> n]
           z == [n \in {0} |-> 1]
           r == [n \in Nat \ {0} |-> n - 1]
           h == [n \in Nat \ {0} |-> [y \in Nat \ {0} |-> 10 * y]]
<1>1. Descends(Nat, Nat \ {0}, m, {0}, z, r, h)
  BY DEF Descends
<1>2. PICK f : f \in [Nat -> Nat \ {0}] /\ Recurs(f, Nat, {0}, z, r, h)
  <2> HIDE DEF m, z, r, h
  <2> QED  BY <1>1, Recursion
<1>3. f = [n \in Nat |-> IF n = 0 THEN 1 ELSE 10 * f[n - 1]]
  <2>1. ASSUME NEW n \in Nat  PROVE f[n] = IF n = 0 THEN 1 ELSE 10 * f[n - 1]
    <3>1. f[n] = IF n \in {0} THEN z[n] ELSE h[n][f[r[n]]]
      BY <1>2 DEF Recurs
    <3>2. n # 0 => r[n] = n - 1 /\ r[n] \in Nat /\ f[r[n]] \in Nat \ {0}
      BY <1>2
    <3> QED  BY <3>1, <3>2
  <2> QED  BY <1>2, <2>1
<1>4. Pow10 = [n \in Nat |-> IF n = 0 THEN 1 ELSE 10 * Pow10[n - 1]]
  BY <1>3 DEF Pow10
<1>5. \A n \in Nat : Pow10[n] \in Nat \ {0}
  <2>1. /\ \A n \in {0} : Pow10[n] = z[n]
        /\ \A n \in Nat \ {0} : Pow10[r[n]] \in Nat \ {0} => Pow10[n] = h[n][Pow10[r[n]]]
    BY <1>4
  <2> HIDE DEF m, z, r, h
  <2> QED  BY <1>1, <2>1, RecursionType
<1>6. Pow10[0] = 1 /\ Pow10[1] = 10 * Pow10[0]
  BY <1>4
<1> QED  BY <1>5, <1>6

\* The widths of integers and of significands.
LEMMA Widths ==
  /\ Pow2[W - 1] \in Nat \ {0} /\ Pow2[W] = 2 * Pow2[W - 1]
  /\ Pow2[P - 1] \in Nat \ {0} /\ Pow2[P] = 2 * Pow2[P - 1]
<1>1. W - 1 \in Nat /\ P - 1 \in Nat /\ (W - 1) + 1 = W /\ (P - 1) + 1 = P
  BY WidthAssumption
<1> QED  BY <1>1, Powers

\* The least and the greatest integer.
LEMMA Bounds == MIN \in Int /\ MAX \in Int /\ MIN <= -1 /\ MAX = -MIN - 1
BY Widths DEF MIN, MAX

\* A result is cut to its last W bits.
LEMMA WrappedType == ASSUME NEW n \in Int  PROVE Wrapped(n) \in MIN..MAX
<1> DEFINE M == Pow2[W - 1]
<1>1. M \in Nat \ {0} /\ MIN = -M /\ MAX = M - 1 /\ Pow2[W] = 2 * M
  BY Widths DEF MIN, MAX
<1> HIDE DEF M
<1>2. (n - MIN) % Pow2[W] \in 0..(2 * M - 1)
  BY <1>1
<1> QED  BY <1>1, <1>2 DEF Wrapped

\* How far doubles are apart.
LEMMA StepIs ==
  /\ Step \in [Nat -> Nat \ {0}]
  /\ \A a \in Nat : Step[a] = IF a < Pow2[P] THEN 1 ELSE 2 * Step[a \div 2]
<1> DEFINE B == {a \in Nat : a < Pow2[P]}
           m == [a \in Nat |-> a]
           z == [a \in B |-> 1]
           r == [a \in Nat \ B |-> a \div 2]
           h == [a \in Nat \ B |-> [y \in Nat \ {0} |-> 2 * y]]
<1>1. Pow2[P] \in Nat \ {0}
  BY Widths
<1>2. Descends(Nat, Nat \ {0}, m, B, z, r, h)
  <2>1. \A a \in Nat \ B : a > 0
    BY <1>1
  <2>2. r \in [Nat \ B -> Nat] /\ \A a \in Nat \ B : m[r[a]] < m[a]
    BY <2>1, Halves
  <2>3. h \in [Nat \ B -> [Nat \ {0} -> Nat \ {0}]] /\ z \in [B -> Nat \ {0}] /\ B \subseteq Nat
    OBVIOUS
  <2> HIDE DEF B, r, h, z
  <2> QED  BY <2>2, <2>3 DEF Descends
<1>3. PICK f : f \in [Nat -> Nat \ {0}] /\ Recurs(f, Nat, B, z, r, h)
  <2> HIDE DEF B, m, z, r, h
  <2> QED  BY <1>2, Recursion
<1>4. f = [a \in Nat |-> IF a < Pow2[P] THEN 1 ELSE 2 * f[a \div 2]]
  <2>1. ASSUME NEW a \in Nat  PROVE f[a] = IF a < Pow2[P] THEN 1 ELSE 2 * f[a \div 2]
    <3>1. f[a] = IF a \in B THEN z[a] ELSE h[a][f[r[a]]]
      BY <1>3 DEF Recurs
    <3>2. a \notin B => r[a] = a \div 2 /\ a \div 2 \in Nat /\ f[a \div 2] \in Nat \ {0}
      BY <1>3, Halves
    <3> QED  BY <3>1, <3>2
  <2> HIDE DEF B, z, r, h
  <2> QED  BY <1>3, <2>1
<1>5. Step = [a \in Nat |-> IF a < Pow2[P] THEN 1 ELSE 2 * Step[a \div 2]]
  BY <1>4 DEF Step
<1>6. Step \in [Nat -> Nat \ {0}]
  <2>1. /\ \A a \in B : Step[a] = z[a]
        /\ \A a \in Nat \ B : Step[r[a]] \in Nat \ {0} => Step[a] = h[a][Step[r[a]]]
    BY <1>5
  <2> HIDE DEF B, m, z, r, h
  <2>2. \A a \in Nat : Step[a] \in Nat \ {0}
    BY <1>2, <2>1, RecursionType
  <2> QED  BY <1>5, <2>2
<1> QED  BY <1>5, <1>6

\* The distance of doubles is a power of two, and has room for between P - 1 and P bits.
LEMMA StepFits ==
  ASSUME NEW a \in Nat
  PROVE  /\ \E k \in Nat : Step[a] = Pow2[k]
         /\ a < Step[a] * Pow2[P]
         /\ Step[a] = 1 \/ Step[a] * Pow2[P] <= 2 * a
<1> DEFINE T == Pow2[P]
           Right(x) == /\ \E k \in Nat : Step[x] = Pow2[k]
                       /\ x < Step[x] * T
                       /\ Step[x] = 1 \/ Step[x] * T <= 2 * x
           A == {x \in Nat : ~Right(x)}
<1>1. T \in Nat \ {0}
  BY Widths
<1>2. CASE A = {}
  BY <1>2
<1>3. CASE A # {}
  <2>1. PICK x \in A : \A y \in A : x <= y
    <3> HIDE DEF Right
    <3> QED  BY <1>3, LeastExists
  <2>2. x \in Nat /\ ~Right(x)
    BY <2>1
  <2>3. x >= T
    <3>1. x < T => Step[x] = 1
      BY <2>2, StepIs
    <3>2. Pow2[0] = 1
      BY Powers
    <3> QED  BY <1>1, <2>2, <3>1, <3>2
  <2> DEFINE y == x \div 2
             s == Step[y]
  <2>4. y \in Nat /\ y < x /\ (x = 2 * y \/ x = 2 * y + 1)
    BY <1>1, <2>2, <2>3, Halves
  <2>5. Right(y)
    BY <2>1, <2>4
  <2>6. s \in Nat \ {0} /\ Step[x] = 2 * s
    BY <2>2, <2>3, <2>4, <1>1, StepIs
  <2>7. \E k \in Nat : Step[x] = Pow2[k]
    BY <2>5, <2>6, Powers
  <2> HIDE DEF T, s, y
  <2>8. y < s * T /\ (s = 1 \/ s * T <= 2 * y)
    BY <2>5 DEF s
  <2>9. PICK u \in Nat : u = s * T /\ (2 * s) * T = 2 * u
    BY <1>1, <2>6
  <2>10. x < 2 * u
    BY <2>4, <2>8, <2>9
  <2>11. 2 * u <= 2 * x
    <3>1. CASE s = 1
      <4>1. u = T
        BY <1>1, <2>9, <3>1
      <4> QED  BY <1>1, <2>2, <2>3, <4>1
    <3>2. CASE s # 1
      BY <2>4, <2>8, <2>9, <3>2
    <3> QED  BY <3>1, <3>2
  <2> QED  BY <2>2, <2>6, <2>7, <2>9, <2>10, <2>11
<1> QED  BY <1>2, <1>3

\* Scaling a number that uses all P bits scales the distance.
LEMMA StepScaled ==
  ASSUME NEW q \in Nat, q < Pow2[P], Pow2[P] <= 2 * q, NEW k \in Nat
  PROVE  Step[q * Pow2[k]] = Pow2[k]
<1> DEFINE T == Pow2[P]
           A == {j \in Nat : Step[q * Pow2[j]] # Pow2[j]}
<1>1. T \in Nat \ {0}
  BY Widths
<1>2. CASE A = {}
  BY <1>2
<1>3. CASE A # {}
  <2>1. PICK j \in A : \A i \in A : j <= i
    BY <1>3, LeastExists
  <2>2. CASE j = 0
    <3>1. Pow2[j] = 1 /\ q * Pow2[j] = q
      BY <2>2, Powers
    <3>2. Step[q] = 1
      BY StepIs
    <3> QED  BY <2>1, <3>1, <3>2
  <2>3. CASE j # 0
    <3>1. j - 1 \in Nat /\ (j - 1) + 1 = j /\ j - 1 \notin A
      BY <2>1, <2>3
    <3>2. PICK p \in Nat \ {0} : p = Pow2[j - 1] /\ Pow2[j] = 2 * p
      BY <3>1, Powers
    <3>3. Step[q * p] = p
      BY <3>1, <3>2
    <3>4. PICK u \in Nat : u = q * p /\ q * (2 * p) = 2 * u /\ q <= u
      BY <3>2
    <3>5. (2 * u) \div 2 = u /\ 2 * u \in Nat /\ 2 * u >= T
      BY <1>1, <3>4
    <3>6. Step[2 * u] = 2 * Step[u]
      BY <1>1, <3>5, StepIs
    <3> QED  BY <2>1, <3>2, <3>3, <3>4, <3>6
  <2> QED  BY <2>2, <2>3
<1> QED  BY <1>2, <1>3

\* The positive part of RoundedRatio.
Near(a, d) == LET s == Step[a \div d] IN Nearest(a, d * s) * s

\* Nearest is next to the quotient.
LEMMA NearestIs ==
  ASSUME NEW a \in Nat, NEW u \in Nat \ {0}
  PROVE  /\ a \div u \in Nat /\ a % u \in 0..(u - 1) /\ a = u * (a \div u) + (a % u)
         /\ \E up \in {0, 1} : /\ Nearest(a, u) = (a \div u) + up
                               /\ up = 0 => 2 * (a % u) <= u
                               /\ up = 1 => 2 * (a % u) >= u
         /\ Nearest(a, u) \in Nat
<1> DEFINE q == a \div u
           rest == 2 * (a % u)
           up == IF rest > u \/ (rest = u /\ q % 2 = 1) THEN 1 ELSE 0
<1>1. q \in Nat /\ a % u \in 0..(u - 1) /\ a = u * q + (a % u)
  BY Division
<1>2. Nearest(a, u) = q + up /\ up \in {0, 1}
  BY DEF Nearest
<1>3. (up = 0 => rest <= u) /\ (up = 1 => rest >= u)
  BY <1>1
<1> HIDE DEF up
<1> QED  BY <1>1, <1>2, <1>3

\* No other integer is nearer to a / u.
LEMMA NoneNearer ==
  ASSUME NEW a \in Nat, NEW u \in Nat \ {0}, NEW m \in Nat
  PROVE  /\ Nearest(a, u) \in Nat /\ Abs(u * Nearest(a, u) - a) <= Abs(u * m - a)
         /\ 2 * Abs(u * Nearest(a, u) - a) <= u
<1> DEFINE q == a \div u
           r == a % u
<1>1. /\ q \in Nat /\ r \in 0..(u - 1) /\ a = u * q + r /\ Nearest(a, u) \in Nat
  BY NearestIs
<1>2. PICK up \in {0, 1} : /\ Nearest(a, u) = q + up
                           /\ up = 0 => 2 * r <= u
                           /\ up = 1 => 2 * r >= u
  BY NearestIs
<1> HIDE DEF q, r
<1> DEFINE x == u * Nearest(a, u) - a
<1>3. x \in Int /\ Abs(x) <= r /\ Abs(x) <= u - r
  <2>1. CASE up = 0
    <3>1. u * Nearest(a, u) = u * q
      BY <1>1, <1>2, <2>1
    <3> QED  BY <1>1, <1>2, <2>1, <3>1 DEF Abs
  <2>2. CASE up = 1
    <3>1. u * Nearest(a, u) = u * q + u
      BY <1>1, <1>2, <2>2
    <3> QED  BY <1>1, <1>2, <2>2, <3>1 DEF Abs
  <2> QED  BY <2>1, <2>2
<1> HIDE DEF x
<1>6. 2 * Abs(x) <= u
  BY <1>1, <1>3 DEF Abs
<1>4. CASE m <= q
  <2>1. PICK c \in Nat : q = m + c
    BY <1>1, <1>4
  <2>2. u * q = u * m + u * c /\ u * c \in Nat /\ u * m \in Nat
    BY <2>1
  <2>3. Abs(u * m - a) >= r
    BY <1>1, <2>2 DEF Abs
  <2>4. Abs(u * m - a) \in Int /\ Abs(x) \in Int
    BY <1>3, <2>2 DEF Abs
  <2> QED  BY <1>1, <1>3, <2>3, <2>4 DEF x
<1>5. CASE ~(m <= q)
  <2>1. PICK c \in Nat : m = q + 1 + c
    <3>1. m - q - 1 \in Nat /\ m = q + 1 + (m - q - 1)
      BY <1>1, <1>5
    <3> QED  BY <3>1
  <2>2. u * m = u * q + u + u * c /\ u * c \in Nat /\ u * m \in Nat /\ u * q \in Nat
    BY <1>1, <2>1
  <2>3. Abs(u * m - a) >= u - r
    BY <1>1, <2>2 DEF Abs
  <2>4. Abs(u * m - a) \in Int /\ Abs(x) \in Int
    BY <1>3, <2>2 DEF Abs
  <2> QED  BY <1>1, <1>3, <2>3, <2>4 DEF x
<1> QED  BY <1>4, <1>5, <1>6 DEF x

\* Near rounds to a multiple of the distance, whose P bits are about the size of a / d.
LEMMA NearIs ==
  ASSUME NEW a \in Nat, NEW d \in Nat \ {0}
  PROVE  \E s, u \in Nat \ {0} :
            /\ s = Step[a \div d] /\ u = d * s /\ \E k \in Nat : s = Pow2[k]
            /\ Near(a, d) = Nearest(a, u) * s /\ Near(a, d) \in Nat
            /\ a < u * Pow2[P]
            /\ s = 1 \/ u * Pow2[P] <= 2 * a
<1> DEFINE b == a \div d
           T == Pow2[P]
           s == Step[b]
           u == d * s
<1>1. b \in Nat /\ a % d \in 0..(d - 1) /\ a = d * b + (a % d)
  BY Division
<1>2. s \in Nat \ {0} /\ T \in Nat \ {0}
  BY <1>1, StepIs, Widths
<1>3. u \in Nat \ {0}
  BY <1>2
<1>4. (\E k \in Nat : s = Pow2[k]) /\ b < s * T /\ (s = 1 \/ s * T <= 2 * b)
  BY <1>1, StepFits
<1>5. Near(a, d) = Nearest(a, u) * s
  BY DEF Near
<1>6. Near(a, d) \in Nat
  <2>1. Nearest(a, u) \in Nat
    BY <1>3, NearestIs
  <2> QED  BY <1>2, <1>5, <2>1
<1>11. s = Step[a \div d] /\ u = d * s
  OBVIOUS
<1> HIDE DEF b, T, s, u
<1> DEFINE w == s * T
<1>7. w \in Nat /\ u * T = d * w
  BY <1>2, <1>11
<1>8. b < w /\ (s = 1 \/ w <= 2 * b)
  BY <1>4
<1> HIDE DEF w
<1>9. a < d * w
  <2>1. PICK c \in Nat : w = b + 1 + c
    <3>1. w - b - 1 \in Nat /\ w = b + 1 + (w - b - 1)
      BY <1>1, <1>7, <1>8
    <3> QED  BY <3>1
  <2>2. d * w = d * b + d + d * c /\ d * c \in Nat /\ d * b \in Nat
    BY <1>1, <2>1
  <2> QED  BY <1>1, <2>2
<1>10. w <= 2 * b => d * w <= 2 * a
  <2> SUFFICES ASSUME w <= 2 * b  PROVE d * w <= 2 * a
    OBVIOUS
  <2>1. PICK c \in Nat : 2 * b = w + c
    <3>1. 2 * b - w \in Nat /\ 2 * b = w + (2 * b - w)
      BY <1>1, <1>7
    <3> QED  BY <3>1
  <2>2. 2 * (d * b) = d * (2 * b) /\ d * (2 * b) = d * w + d * c /\ d * c \in Nat /\ d * b \in Nat /\ d * w \in Nat
    BY <1>1, <1>7, <2>1
  <2> QED  BY <1>1, <2>2
<1> QED  BY <1>2, <1>3, <1>4, <1>5, <1>6, <1>7, <1>8, <1>9, <1>10, <1>11 DEF T

\* A multiple of its own distance is a double.
LEMMA NearSame ==
  ASSUME NEW s \in Nat \ {0}, NEW q \in Nat, Step[q * s] = s
  PROVE  Near(q * s, 1) = q * s
<1> DEFINE a == q * s
<1>1. a \in Nat /\ a = q * s + 0 /\ a \div 1 = a /\ 1 * s = s
  OBVIOUS
<1>2. a \div s = q /\ a % s = 0
  BY <1>1, DivisionIs
<1> HIDE DEF a
<1>3. PICK up \in {0, 1} : Nearest(a, s) = q + up /\ (up = 1 => 2 * (a % s) >= s)
  BY <1>1, <1>2, NearestIs
<1>4. Nearest(a, s) = q
  BY <1>2, <1>3
<1>5. Near(a, 1) = Nearest(a, s) * s
  BY <1>1 DEF Near, a
<1> QED  BY <1>4, <1>5 DEF a

\* What has been rounded is a double.
LEMMA NearTwice ==
  ASSUME NEW a \in Nat, NEW d \in Nat \ {0}
  PROVE  Near(a, d) \in Nat /\ Near(Near(a, d), 1) = Near(a, d)
<1> DEFINE T == Pow2[P]
           H == Pow2[P - 1]
<1>0. PICK s \in Nat \ {0}, u \in Nat \ {0} :
         /\ \E k \in Nat : s = Pow2[k]
         /\ a < u * T /\ (s = 1 \/ u * T <= 2 * a)
         /\ Near(a, d) = Nearest(a, u) * s /\ Near(a, d) \in Nat
  BY NearIs
<1> DEFINE q == a \div u
<1>1. /\ s \in Nat \ {0} /\ u \in Nat \ {0} /\ H \in Nat \ {0} /\ T = 2 * H /\ Near(a, d) \in Nat
      /\ a < u * T /\ (s = 1 \/ u * T <= 2 * a)
      /\ Near(a, d) = Nearest(a, u) * s
  BY <1>0, Widths
<1>2. PICK k \in Nat : s = Pow2[k]
  BY <1>0
<1>3. q \in Nat /\ a = u * q + (a % u) /\ a % u \in 0..(u - 1)
  BY <1>1, NearestIs
<1>4. PICK up \in {0, 1} : Nearest(a, u) = q + up
  BY <1>1, NearestIs
<1> HIDE DEF q, T, H
<1>5. q < T
  <2>1. CASE q >= T
    <3>1. PICK c \in Nat : q = T + c
      BY <1>1, <1>3, <2>1
    <3>2. u * q = u * T + u * c /\ u * c \in Nat /\ u * T \in Nat
      BY <1>1, <3>1
    <3> QED  BY <1>1, <1>3, <3>2
  <2> QED  BY <1>1, <1>3, <2>1
<1>6. s # 1 => H <= q
  <2> SUFFICES ASSUME s # 1, q < H  PROVE FALSE
    BY <1>1, <1>3
  <2>1. PICK c \in Nat : H = q + 1 + c
    <3>1. H - q - 1 \in Nat /\ H = q + 1 + (H - q - 1)
      BY <1>1, <1>3
    <3> QED  BY <3>1
  <2>2. u * T = 2 * (u * H) /\ u * H = u * q + u + u * c /\ u * c \in Nat /\ u * q \in Nat
    BY <1>1, <1>3, <2>1
  <2> QED  BY <1>1, <1>3, <2>2
<1>7. CASE q + up < T
  <2>1. Step[(q + up) * s] = s
    <3>1. CASE s = 1
      <4>1. (q + up) * s = q + up /\ q + up \in Nat
        BY <1>3, <3>1
      <4> QED  BY <1>7, <3>1, <4>1, StepIs DEF T
    <3>2. CASE s # 1
      <4>1. q + up \in Nat /\ T <= 2 * (q + up)
        BY <1>1, <1>3, <1>6, <3>2
      <4> QED  BY <1>2, <1>7, <4>1, StepScaled DEF T
    <3> QED  BY <3>1, <3>2
  <2>2. q + up \in Nat
    BY <1>3
  <2>3. Near((q + up) * s, 1) = (q + up) * s
    BY <1>1, <2>1, <2>2, NearSame
  <2> QED  BY <1>1, <1>4, <2>3
<1>8. CASE q + up = T
  <2>1. k + 1 \in Nat /\ Pow2[k + 1] = 2 * s /\ 2 * s \in Nat \ {0}
    BY <1>1, <1>2, Powers
  <2>2. Near(a, d) = H * (2 * s)
    BY <1>1, <1>4, <1>8
  <2>3. H < T /\ T <= 2 * H
    BY <1>1
  <2>4. Step[H * (2 * s)] = 2 * s
    BY <1>1, <2>1, <2>3, StepScaled DEF T
  <2> QED  BY <1>1, <2>1, <2>2, <2>4, NearSame
<1> QED  BY <1>1, <1>3, <1>5, <1>7, <1>8

\* Of two powers of two, one divides the other.
LEMMA PowersDivide ==
  ASSUME NEW k \in Nat, NEW j \in Nat
  PROVE  j < k => 2 * Pow2[j] <= Pow2[k] /\ \E m \in Nat : Pow2[k] = m * Pow2[j]
<1> DEFINE Right(x) == j < x => 2 * Pow2[j] <= Pow2[x] /\ \E m \in Nat : Pow2[x] = m * Pow2[j]
           A == {x \in Nat : ~Right(x)}
<1>1. CASE A = {}
  BY <1>1
<1>2. CASE A # {}
  <2>1. PICK x \in A : \A y \in A : x <= y
    <3> HIDE DEF Right
    <3> QED  BY <1>2, LeastExists
  <2>2. x \in Nat /\ j < x /\ ~Right(x)
    BY <2>1
  <2>3. x - 1 \in Nat /\ x = (x - 1) + 1 /\ Right(x - 1)
    <3>1. x - 1 \in Nat /\ x = (x - 1) + 1 /\ ~(x <= x - 1)
      BY <2>2
    <3> HIDE DEF Right
    <3> QED  BY <2>1, <3>1
  <2> DEFINE p == Pow2[x - 1]
             g == Pow2[j]
  <2>4. p \in Nat \ {0} /\ g \in Nat \ {0} /\ Pow2[x] = 2 * p
    BY <2>3, Powers
  <2>5. CASE j = x - 1
    <3>1. p = g
      BY <2>5
    <3> HIDE DEF p, g
    <3>2. 2 \in Nat
      OBVIOUS
    <3> QED  BY <2>2, <2>4, <3>1, <3>2 DEF g
  <2>6. CASE j # x - 1
    <3>1. j < x - 1
      BY <2>2, <2>6
    <3>2. PICK m \in Nat : p = m * g
      BY <2>3, <3>1
    <3>3. 2 * g <= p
      BY <2>3, <3>1
    <3> HIDE DEF p, g
    <3>4. 2 * p = (2 * m) * g /\ 2 * m \in Nat /\ 2 * g <= 2 * p
      BY <2>4, <3>2, <3>3
    <3> QED  BY <2>2, <2>4, <3>4 DEF g
  <2> QED  BY <2>5, <2>6
<1> QED  BY <1>1, <1>2

\* No other double is nearer to a / d.
LEMMA NoDoubleNearer ==
  ASSUME NEW a \in Nat, NEW d \in Nat \ {0}, NEW m \in Nat, Near(m, 1) = m
  PROVE  Abs(d * Near(a, d) - a) <= Abs(d * m - a)
<1> DEFINE T == Pow2[P]
           H == Pow2[P - 1]
<1>0. PICK s \in Nat \ {0}, u \in Nat \ {0} :
         /\ s = Step[a \div d] /\ u = d * s /\ \E k \in Nat : s = Pow2[k]
         /\ Near(a, d) = Nearest(a, u) * s /\ Near(a, d) \in Nat
         /\ a < u * T
         /\ s = 1 \/ u * T <= 2 * a
  BY NearIs
<1>1. /\ s \in Nat \ {0} /\ u \in Nat \ {0} /\ u = d * s /\ H \in Nat \ {0} /\ T = 2 * H
      /\ a < u * T /\ (s = 1 \/ u * T <= 2 * a)
      /\ Near(a, d) = Nearest(a, u) * s
  BY <1>0, Widths
<1>2. PICK k \in Nat : s = Pow2[k]
  BY <1>0
<1> HIDE DEF T, H
<1>3. Nearest(a, u) \in Nat /\ \A c \in Nat : Abs(u * Nearest(a, u) - a) <= Abs(u * c - a)
  BY <1>1, NoneNearer
<1>4. d * Near(a, d) = u * Nearest(a, u)
  BY <1>1, <1>3
<1>5. ASSUME NEW c \in Nat, m = c * s  PROVE Abs(d * Near(a, d) - a) <= Abs(d * m - a)
  <2>1. d * m = u * c
    BY <1>1, <1>5
  <2> QED  BY <1>3, <1>4, <2>1
<1> DEFINE z == Step[m]
<1>6. /\ z \in Nat \ {0} /\ m < z * T /\ \E c \in Nat : m = c * z
  <2>1. PICK x \in Nat \ {0}, y \in Nat \ {0} :
           /\ x = Step[m \div 1] /\ y = 1 * x /\ m < y * T
           /\ Near(m, 1) = Nearest(m, y) * x
    BY NearIs DEF T
  <2>2. z \in Nat \ {0} /\ m < z * T /\ m = Nearest(m, z) * z
    <3>1. m \div 1 = m /\ y = x
      BY <2>1
    <3> QED  BY <2>1, <3>1
  <2>3. Nearest(m, z) \in Nat
    BY <2>2, NearestIs
  <2> QED  BY <2>2, <2>3
<1>7. PICK j \in Nat : z = Pow2[j]
  BY StepFits
<1> HIDE DEF z
<1>8. PICK c \in Nat : m = c * z
  BY <1>6
<1>9. CASE j >= k
  <2>1. PICK e \in Nat : z = e * s
    <3>1. CASE j = k
      <4>1. z = 1 * s
        BY <1>1, <1>2, <1>7, <3>1
      <4> QED  BY <4>1
    <3>2. CASE j # k
      BY <1>2, <1>7, <1>9, <3>2, PowersDivide
    <3> QED  BY <3>1, <3>2
  <2>2. m = (c * e) * s /\ c * e \in Nat
    BY <1>1, <1>8, <2>1
  <2> QED  BY <1>5, <2>2
<1>10. CASE j < k
  <2>1. 2 * z <= s
    BY <1>2, <1>7, <1>10, PowersDivide
  <2>2. s # 1
    BY <1>6, <2>1
  <2>3. m < H * s
    <3>1. PICK e \in Nat : s = 2 * z + e
      BY <1>1, <1>6, <2>1
    <3>2. H * s = z * T + H * e /\ H * e \in Nat /\ z * T \in Nat
      BY <1>1, <1>6, <3>1
    <3> QED  BY <1>6, <3>2
  <2>4. d * m < u * H /\ d * m \in Nat /\ u * H \in Nat
    <3>1. PICK e \in Nat : H * s = m + 1 + e
      <4>1. H * s - m - 1 \in Nat /\ H * s = m + 1 + (H * s - m - 1)
        BY <1>1, <2>3
      <4> QED  BY <4>1
    <3>2. d * (H * s) = d * m + d + d * e /\ d * e \in Nat /\ d * m \in Nat
      BY <3>1
    <3>3. d * (H * s) = u * H
      BY <1>1
    <3> QED  BY <1>1, <3>2, <3>3
  <2>5. u * H <= a
    <3>1. u * T = 2 * (u * H)
      BY <1>1
    <3> QED  BY <1>1, <2>2, <2>4, <3>1
  <2>6. Abs(u * H - a) <= Abs(d * m - a)
    BY <2>4, <2>5 DEF Abs
  <2>7. Abs(u * Nearest(a, u) - a) <= Abs(u * H - a)
    BY <1>1, <1>3
  <2>8. Abs(u * Nearest(a, u) - a) \in Int /\ Abs(u * H - a) \in Int /\ Abs(d * m - a) \in Int
    <3>1. u * Nearest(a, u) \in Int
      BY <1>1, <1>3
    <3> QED  BY <2>4, <3>1 DEF Abs
  <2> QED  BY <1>4, <2>6, <2>7, <2>8
<1> QED  BY <1>9, <1>10

\* Rounding a ratio gives a double on the same side of 0.
LEMMA RatioIs ==
  ASSUME NEW n \in Int, NEW d \in Nat \ {0}
  PROVE  /\ RoundedRatio(n, d) = (IF n < 0 THEN -Near(Abs(n), d) ELSE Near(Abs(n), d))
         /\ Abs(n) \in Nat /\ Near(Abs(n), d) \in Nat /\ RoundedRatio(n, d) \in Int
<1> DEFINE m == Near(Abs(n), d)
<1>1. Abs(n) \in Nat
  BY DEF Abs
<1>2. m \in Nat
  BY <1>1, NearTwice
<1>3. RoundedRatio(n, d) = (IF n < 0 THEN -1 ELSE 1) * m
  BY DEF RoundedRatio, Near
<1> HIDE DEF m
<1>4. RoundedRatio(n, d) = (IF n < 0 THEN -m ELSE m)
  BY <1>2, <1>3
<1> QED  BY <1>1, <1>2, <1>4 DEF m

\* A number whose size is a double is one.
LEMMA SignedDouble ==
  ASSUME NEW m \in Nat, Near(m, 1) = m
  PROVE  Rounded(m) = m /\ Rounded(-m) = -m
<1>1. Abs(m) = m /\ Abs(-m) = m /\ -m \in Int /\ m \in Int /\ 1 \in Nat \ {0}
  BY DEF Abs
<1>2. Rounded(m) = (IF m < 0 THEN -m ELSE m)
  BY <1>1, RatioIs DEF Rounded
<1>3. Rounded(-m) = (IF -m < 0 THEN -m ELSE m)
  BY <1>1, RatioIs DEF Rounded
<1> QED  BY <1>2, <1>3

\* The size of a double is one.
LEMMA DoubleSize ==
  ASSUME NEW h \in Int, Rounded(h) = h
  PROVE  Abs(h) \in Nat /\ Near(Abs(h), 1) = Abs(h)
<1>1. /\ Rounded(h) = (IF h < 0 THEN -Near(Abs(h), 1) ELSE Near(Abs(h), 1))
      /\ Abs(h) \in Nat /\ Near(Abs(h), 1) \in Nat
  BY RatioIs DEF Rounded
<1> QED  BY <1>1 DEF Abs

\* Rounding gives a double, is odd and leaves doubles and 0 alone.
LEMMA RoundedIs ==
  ASSUME NEW h \in Int
  PROVE  /\ Rounded(h) \in Int /\ Rounded(Rounded(h)) = Rounded(h)
         /\ Rounded(-h) = -Rounded(h) /\ Rounded(0) = 0
<1> DEFINE m == Near(Abs(h), 1)
<1>1. m \in Nat /\ Near(m, 1) = m /\ Rounded(h) = (IF h < 0 THEN -m ELSE m)
  BY RatioIs, NearTwice DEF Rounded
<1>2. Rounded(m) = m /\ Rounded(-m) = -m
  <2> HIDE DEF m
  <2> QED  BY <1>1, SignedDouble
<1>3. Rounded(0) = 0
  <2>1. Step[0] = 1 /\ 0 * 1 = 0
    BY Widths, StepIs
  <2>2. Near(0, 1) = 0
    BY <2>1, NearSame
  <2> QED  BY <2>2, SignedDouble
<1>4. Abs(-h) = Abs(h) /\ -h \in Int
  BY DEF Abs
<1>5. Rounded(-h) = (IF -h < 0 THEN -m ELSE m)
  BY <1>4, RatioIs DEF Rounded
<1>6. h = 0 => m = 0
  <2>1. Abs(0) = 0 /\ 0 \in Nat
    BY DEF Abs
  <2>2. Rounded(0) = (IF 0 < 0 THEN -Near(0, 1) ELSE Near(0, 1))
    BY <2>1, RatioIs DEF Rounded
  <2> QED  BY <1>3, <2>1, <2>2
<1> HIDE DEF m
<1> QED  BY <1>1, <1>2, <1>3, <1>5, <1>6

\* What has been rounded is a double.
LEMMA RatioRepresentable ==
  ASSUME NEW n \in Int, NEW d \in Nat \ {0}
  PROVE  RoundedRatio(n, d) \in Int /\ Representable(RoundedRatio(n, d))
<1> DEFINE m == Near(Abs(n), d)
<1>1. m \in Nat /\ Near(m, 1) = m /\ RoundedRatio(n, d) = (IF n < 0 THEN -m ELSE m)
  BY RatioIs, NearTwice
<1> HIDE DEF m
<1> QED  BY <1>1, SignedDouble DEF Representable

LEMMA RoundedRepresentable == ASSUME NEW h \in Int  PROVE Rounded(h) \in Int /\ Representable(Rounded(h))
BY RoundedIs DEF Representable

\* Integers divide towards 0; only -1 makes a quotient of opposite sign as large.
LEMMA Quotients ==
  ASSUME NEW n \in Int, NEW d \in Int \ {0},
         NEW q, q = Quotient(n, d), NEW r, r = Remainder(n, d)
  PROVE  /\ q \in Int /\ r \in Int /\ n = q * d + r
         /\ Abs(r) < Abs(d) /\ Abs(r) <= Abs(n) /\ r * n >= 0
         /\ Abs(q) <= Abs(n)
         /\ n < 0 /\ q = -n => d = -1
<1> DEFINE a == Abs(n)
           b == Abs(d)
           p == a \div b
           e == a % b
<1>1. a \in Nat /\ b \in Nat \ {0} /\ (a = n \/ a = -n) /\ (b = d \/ b = -d)
  BY DEF Abs
<1>2. /\ n < 0 => a = -n /\ a > 0
      /\ ~(n < 0) => a = n
      /\ d < 0 => b = -d
      /\ ~(d < 0) => b = d
  BY DEF Abs
<1>3. q = IF (n < 0) = (d < 0) THEN p ELSE -p
  BY DEF Quotient
<1>4. r = n - d * q
  BY DEF Remainder
<1> HIDE DEF a, b
<1>5. p \in Nat /\ e \in 0..(b - 1) /\ a = b * p + e
  BY <1>1, Division
<1> HIDE DEF p, e
<1>6. PICK m \in Nat : m = b * p /\ p <= m /\ (m = p => p = 0 \/ b = 1)
  <2>1. b * p \in Nat
    BY <1>1, <1>5
  <2>2. PICK c \in Nat : b = c + 1
    BY <1>1
  <2>3. b * p = c * p + p /\ c * p \in Nat
    BY <1>5, <2>2
  <2>4. p # 0 /\ c # 0 => c * p # 0
    BY <1>5, <2>2
  <2> QED  BY <1>5, <2>1, <2>2, <2>3, <2>4
<1>7. r = IF n < 0 THEN -e ELSE e
  <2>1. d * q = IF n < 0 THEN -m ELSE m
    <3>1. CASE n < 0 /\ d < 0
      BY <1>1, <1>2, <1>3, <1>5, <1>6, <3>1
    <3>2. CASE n < 0 /\ ~(d < 0)
      BY <1>1, <1>2, <1>3, <1>5, <1>6, <3>2
    <3>3. CASE ~(n < 0) /\ d < 0
      BY <1>1, <1>2, <1>3, <1>5, <1>6, <3>3
    <3>4. CASE ~(n < 0) /\ ~(d < 0)
      BY <1>1, <1>2, <1>3, <1>5, <1>6, <3>4
    <3> QED  BY <3>1, <3>2, <3>3, <3>4
  <2> QED  BY <1>2, <1>4, <1>5, <1>6, <2>1
<1>8. q \in Int /\ r \in Int /\ n = q * d + r
  <2>1. q \in Int
    BY <1>3, <1>5
  <2>2. q * d = d * q /\ d * q \in Int
    BY <2>1
  <2> QED  BY <1>4, <2>1, <2>2
<1>9. Abs(r) = e /\ e < b /\ e <= a
  <2>1. Abs(r) = e
    BY <1>5, <1>7 DEF Abs
  <2> QED  BY <1>1, <1>5, <1>6, <2>1
<1>10. r * n >= 0
  <2>1. r * n = e * a
    BY <1>1, <1>2, <1>5, <1>7
  <2> QED  BY <1>1, <1>5, <2>1
<1>11. Abs(q) = p /\ p <= a
  <2>1. Abs(q) = p
    BY <1>3, <1>5 DEF Abs
  <2> QED  BY <1>1, <1>5, <1>6, <2>1
<1>12. ASSUME n < 0, q = -n  PROVE d = -1
  <2>1. d < 0 /\ p = a /\ q = p
    BY <1>2, <1>3, <1>5, <1>12
  <2>2. m <= a
    BY <1>1, <1>5, <1>6
  <2>3. p # 0 /\ m = p
    BY <1>1, <1>2, <1>5, <1>6, <1>12, <2>1, <2>2
  <2>4. b = 1
    BY <1>6, <2>3
  <2> QED  BY <1>2, <2>1, <2>4
<1> QED  BY <1>8, <1>9, <1>10, <1>11, <1>12 DEF a, b

\* A double becomes an integer that fits.
LEMMA FloatToIntType == ASSUME NEW h \in Int  PROVE FloatToInt(h) \in MIN..MAX
<1>1. MIN \in MIN..MAX
  BY Bounds
<1> QED  BY <1>1 DEF FloatToInt

------------------------------------------------------------------------------
(* The digits of numbers, and texts                                        *)

\* The least of a set of numbers.
LEMMA LeastIs ==
  ASSUME NEW S, S \subseteq Nat, S # {}
  PROVE  Least(S) \in S /\ \A x \in S : Least(S) <= x
BY LeastExists DEF Least

\* The first character behind the digits from i on.
LEMMA DigitsEnd ==
  ASSUME NEW t \in Seq(Chars), NEW i \in Nat \ {0}, i <= Len(t) + 1
  PROVE  /\ Digits(t, i) \in Nat /\ i + Digits(t, i) <= Len(t) + 1
         /\ \A j \in i..(i + Digits(t, i) - 1) : t[j] \in 0..9
         /\ i + Digits(t, i) <= Len(t) => t[i + Digits(t, i)] > 9
<1> DEFINE S == {j \in i..Len(t) : t[j] > 9} \cup {Len(t) + 1}
           e == Least(S)
<1>1. Len(t) \in Nat /\ \A j \in 1..Len(t) : t[j] \in 0..20
  BY DEF Chars
<1>2. S \subseteq Nat /\ S # {}
  BY <1>1
<1>3. e \in S /\ \A x \in S : e <= x
  <2> HIDE DEF S
  <2> QED  BY <1>2, LeastIs
<1>4. e \in i..(Len(t) + 1) /\ (e <= Len(t) => t[e] > 9)
  BY <1>1, <1>3
<1>5. ASSUME NEW j \in i..(e - 1)  PROVE t[j] \in 0..9
  <2>1. j \in 1..Len(t) /\ j \in i..Len(t) /\ j < e /\ j \notin S
    BY <1>1, <1>3, <1>4
  <2> QED  BY <1>1, <2>1
<1>6. Digits(t, i) = e - i
  BY DEF Digits
<1> HIDE DEF e, S
<1>7. i + Digits(t, i) = e /\ e - i \in Nat
  BY <1>4, <1>6
<1> QED  BY <1>1, <1>4, <1>5, <1>6, <1>7

\* There is no other place with such characters.
LEMMA DigitsAre ==
  ASSUME NEW t \in Seq(Chars), NEW i \in Nat \ {0}, NEW d \in Nat, i + d <= Len(t) + 1,
         \A j \in i..(i + d - 1) : t[j] \in 0..9,
         i + d <= Len(t) => t[i + d] > 9
  PROVE  Digits(t, i) = d
<1> DEFINE x == Digits(t, i)
<1>1. Len(t) \in Nat /\ i <= Len(t) + 1
  OBVIOUS
<1>2. /\ x \in Nat /\ i + x <= Len(t) + 1
      /\ \A j \in i..(i + x - 1) : t[j] \in 0..9
      /\ i + x <= Len(t) => t[i + x] > 9
  BY <1>1, DigitsEnd
<1> HIDE DEF x
<1>3. CASE x < d
  <2>1. i + x \in i..(i + d - 1) /\ i + x <= Len(t)
    BY <1>1, <1>2, <1>3
  <2>2. t[i + x] \in 0..9
    BY <2>1
  <2> QED  BY <1>2, <2>1, <2>2
<1>4. CASE d < x
  <2>1. i + d \in i..(i + x - 1) /\ i + d <= Len(t)
    BY <1>1, <1>2, <1>4
  <2>2. t[i + d] \in 0..9
    BY <1>2, <2>1
  <2> QED  BY <2>1, <2>2
<1>5. x = d
  BY <1>2, <1>3, <1>4
<1> QED  BY <1>5 DEF x

\* The value of the digits, read from left to right.
LEMMA DigitsValueIs ==
  ASSUME NEW t \in Seq(Chars), NEW i \in Nat \ {0}, i <= Len(t) + 1,
         NEW d, d = Digits(t, i)
  PROVE  \E v \in [0..d -> Nat] :
            /\ DigitsValue(t, i) = v[d] /\ v[0] = 0
            /\ \A k \in 1..d : v[k] = 10 * v[k - 1] + t[i + k - 1]
<1>1. d \in Nat /\ \A k \in 1..d : t[i + k - 1] \in 0..9
  BY DigitsEnd
<1> DEFINE D == 0..d
           m == [k \in D |-> k]
           z == [k \in {0} |-> 0]
           r == [k \in D \ {0} |-> k - 1]
           h == [k \in D \ {0} |-> [y \in Nat |-> 10 * y + t[i + k - 1]]]
           E(v) == v = [k \in D |-> IF k = 0 THEN 0 ELSE 10 * v[k - 1] + t[i + k - 1]]
<1>2. ASSUME NEW k \in D \ {0}  PROVE k \in 1..d /\ k - 1 \in D /\ t[i + k - 1] \in Nat /\ k - 1 < k
  <2>1. k \in 1..d /\ k - 1 \in D /\ k - 1 < k
    BY <1>1
  <2> QED  BY <1>1, <2>1
<1>3. Descends(D, Nat, m, {0}, z, r, h)
  <2>1. m \in [D -> Nat] /\ {0} \subseteq D /\ z \in [{0} -> Nat]
    BY <1>1
  <2>2. r \in [D \ {0} -> D] /\ \A k \in D \ {0} : m[r[k]] < m[k]
    BY <1>2
  <2>3. h \in [D \ {0} -> [Nat -> Nat]]
    <3>1. \A k \in D \ {0}, y \in Nat : 10 * y + t[i + k - 1] \in Nat
      BY <1>2
    <3> HIDE DEF D
    <3> QED  BY <3>1
  <2> HIDE DEF D, m, z, r, h
  <2> QED  BY <2>1, <2>2, <2>3 DEF Descends
<1>4. PICK f : f \in [D -> Nat] /\ Recurs(f, D, {0}, z, r, h)
  <2> HIDE DEF D, m, z, r, h
  <2> QED  BY <1>3, Recursion
<1>5. E(f)
  <2>1. ASSUME NEW k \in D  PROVE f[k] = IF k = 0 THEN 0 ELSE 10 * f[k - 1] + t[i + k - 1]
    <3>1. f[k] = IF k \in {0} THEN z[k] ELSE h[k][f[r[k]]]
      BY <1>4 DEF Recurs
    <3>2. k # 0 => r[k] = k - 1 /\ k - 1 \in D /\ f[k - 1] \in Nat
      BY <1>4, <1>2
    <3> QED  BY <3>1, <3>2
  <2> HIDE DEF D, z, r, h
  <2> QED  BY <1>4, <2>1
<1> DEFINE v == CHOOSE v : E(v)
<1>6. E(v) /\ DigitsValue(t, i) = v[d]
  BY <1>5 DEF DigitsValue
<1> HIDE DEF v
<1>7. v \in [D -> Nat]
  <2>1. v \in [D -> Nat] <=> \A k \in D : v[k] \in Nat
    <3> HIDE DEF D
    <3> QED  BY <1>6
  <2>2. \A k \in {0} : v[k] = z[k]
    BY <1>1, <1>6
  <2>3. \A k \in D \ {0} : v[r[k]] \in Nat => v[k] = h[k][v[r[k]]]
    <3> SUFFICES ASSUME NEW k \in D \ {0}, v[r[k]] \in Nat  PROVE v[k] = h[k][v[r[k]]]
      OBVIOUS
    <3>1. r[k] = k - 1 /\ k # 0
      OBVIOUS
    <3>2. v[k] = 10 * v[k - 1] + t[i + k - 1]
      BY <1>6, <3>1
    <3> HIDE DEF D
    <3> QED  BY <3>1, <3>2
  <2> HIDE DEF D, m, z, r, h
  <2> QED  BY <1>3, <2>1, <2>2, <2>3, RecursionType
<1>8. v[0] = 0 /\ \A k \in 1..d : v[k] = 10 * v[k - 1] + t[i + k - 1]
  BY <1>1, <1>6
<1> QED  BY <1>6, <1>7, <1>8

\* The digits of a number.
LEMMA DecimalIs ==
  /\ Decimal \in [Nat -> Seq(0..9)]
  /\ \A n \in Nat : Decimal[n] = IF n < 10 THEN <<n>> ELSE Append(Decimal[n \div 10], n % 10)
<1> DEFINE B == 0..9
           S == Seq(0..9)
           m == [n \in Nat |-> n]
           z == [n \in B |-> <<n>>]
           r == [n \in Nat \ B |-> n \div 10]
           h == [n \in Nat \ B |-> [y \in S |-> Append(y, n % 10)]]
<1>1. ASSUME NEW n \in Nat  PROVE n \div 10 \in Nat /\ n % 10 \in 0..9 /\ (n \notin B => n \div 10 < n)
  OBVIOUS
<1>2. Descends(Nat, S, m, B, z, r, h)
  <2>1. m \in [Nat -> Nat] /\ B \subseteq Nat /\ z \in [B -> S]
    OBVIOUS
  <2>2. r \in [Nat \ B -> Nat] /\ \A n \in Nat \ B : m[r[n]] < m[n]
    BY <1>1
  <2>3. h \in [Nat \ B -> [S -> S]]
    <3>1. \A n \in Nat \ B, y \in S : Append(y, n % 10) \in S
      BY <1>1
    <3> HIDE DEF B, S
    <3> QED  BY <3>1
  <2> HIDE DEF B, S, m, z, r, h
  <2> QED  BY <2>1, <2>2, <2>3 DEF Descends
<1>3. PICK f : f \in [Nat -> S] /\ Recurs(f, Nat, B, z, r, h)
  <2> HIDE DEF B, S, m, z, r, h
  <2> QED  BY <1>2, Recursion
<1>4. f = [n \in Nat |-> IF n < 10 THEN <<n>> ELSE Append(f[n \div 10], n % 10)]
  <2>1. ASSUME NEW n \in Nat  PROVE f[n] = IF n < 10 THEN <<n>> ELSE Append(f[n \div 10], n % 10)
    <3>1. f[n] = IF n \in B THEN z[n] ELSE h[n][f[r[n]]]
      BY <1>3 DEF Recurs
    <3>2. n \notin B => r[n] = n \div 10 /\ f[n \div 10] \in S
      BY <1>1, <1>3
    <3>3. n \in B <=> n < 10
      OBVIOUS
    <3> HIDE DEF S
    <3> QED  BY <3>1, <3>2, <3>3
  <2> HIDE DEF B, S, z, r, h
  <2> QED  BY <1>3, <2>1
<1>5. Decimal = [n \in Nat |-> IF n < 10 THEN <<n>> ELSE Append(Decimal[n \div 10], n % 10)]
  BY <1>4 DEF Decimal
<1>6. Decimal \in [Nat -> S]
  <2>1. \A n \in B : Decimal[n] = z[n]
    BY <1>5
  <2>2. \A n \in Nat \ B : Decimal[r[n]] \in S => Decimal[n] = h[n][Decimal[r[n]]]
    <3> SUFFICES ASSUME NEW n \in Nat \ B, Decimal[r[n]] \in S
                 PROVE  Decimal[n] = h[n][Decimal[r[n]]]
      OBVIOUS
    <3>1. r[n] = n \div 10 /\ ~(n < 10)
      OBVIOUS
    <3>2. Decimal[n] = Append(Decimal[n \div 10], n % 10)
      BY <1>5, <3>1
    <3> HIDE DEF S
    <3> QED  BY <3>1, <3>2
  <2> HIDE DEF B, S, m, z, r, h
  <2>3. \A n \in Nat : Decimal[n] \in S
    BY <1>2, <2>1, <2>2, RecursionType
  <2> QED  BY <1>5, <2>3
<1> QED  BY <1>5, <1>6

\* The digits of a number, read from left to right, give it back.
LEMMA DecimalReads ==
  ASSUME NEW n \in Nat
  PROVE  /\ Decimal[n] \in Seq(0..9) /\ Len(Decimal[n]) \in Nat \ {0}
         /\ \A v : /\ v[0] = 0
                   /\ \A k \in 1..Len(Decimal[n]) : v[k] = 10 * v[k - 1] + Decimal[n][k]
                   => v[Len(Decimal[n])] = n
<1> DEFINE Right(x) == /\ Len(Decimal[x]) \in Nat \ {0}
                       /\ \A v : /\ v[0] = 0
                                 /\ \A k \in 1..Len(Decimal[x]) : v[k] = 10 * v[k - 1] + Decimal[x][k]
                                 => v[Len(Decimal[x])] = x
           A == {x \in Nat : ~Right(x)}
<1>1. \A x \in Nat : Decimal[x] \in Seq(0..9)
  BY DecimalIs
<1>2. CASE A = {}
  BY <1>1, <1>2
<1>3. CASE A # {}
  <2>1. PICK x \in A : \A y \in A : x <= y
    <3> HIDE DEF Right
    <3> QED  BY <1>3, LeastExists
  <2>2. x \in Nat /\ ~Right(x)
    BY <2>1
  <2>3. CASE x < 10
    <3>1. Decimal[x] = <<x>>
      BY <2>2, <2>3, DecimalIs
    <3>2. Len(Decimal[x]) = 1 /\ Decimal[x][1] = x
      BY <3>1
    <3>3. ASSUME NEW v, v[0] = 0, \A k \in 1..1 : v[k] = 10 * v[k - 1] + Decimal[x][k]
          PROVE  v[1] = x
      <4>1. v[1] = 10 * v[0] + Decimal[x][1]
        BY <3>3
      <4> QED  BY <2>2, <3>2, <3>3, <4>1
    <3> QED  BY <2>2, <3>2, <3>3
  <2>4. CASE ~(x < 10)
    <3> DEFINE y == x \div 10
               c == x % 10
               q == Decimal[y]
               n1 == Len(q)
    <3>1. y \in Nat /\ y < x /\ c \in 0..9 /\ x = 10 * y + c
      <4>1. \A b \in Nat : b >= 10 => b \div 10 \in Nat /\ b \div 10 < b /\ b % 10 \in 0..9
                                     /\ b = 10 * (b \div 10) + (b % 10)
        OBVIOUS
      <4>2. x \in Nat /\ x >= 10
        BY <2>2, <2>4
      <4> QED  BY <4>1, <4>2
    <3>2. Right(y) /\ q \in Seq(0..9)
      BY <1>1, <2>1, <3>1
    <3>3. Decimal[x] = Append(q, c)
      BY <2>2, <2>4, DecimalIs
    <3> HIDE DEF y, c, q
    <3>4. /\ n1 \in Nat /\ Len(Decimal[x]) = n1 + 1 /\ Decimal[x][n1 + 1] = c
          /\ \A k \in 1..n1 : Decimal[x][k] = q[k]
      BY <3>1, <3>2, <3>3
    <3>5. /\ n1 # 0
          /\ \A v : v[0] = 0 /\ (\A k \in 1..n1 : v[k] = 10 * v[k - 1] + q[k]) => v[n1] = y
      BY <3>2, <3>4 DEF q
    <3> HIDE DEF n1
    <3>6. ASSUME NEW v, v[0] = 0, \A k \in 1..(n1 + 1) : v[k] = 10 * v[k - 1] + Decimal[x][k]
          PROVE  v[n1 + 1] = x
      <4>1. ASSUME NEW k \in 1..n1  PROVE v[k] = 10 * v[k - 1] + q[k]
        <5>1. k \in 1..(n1 + 1)
          BY <3>4
        <5> QED  BY <3>4, <3>6, <5>1
      <4>2. v[n1] = y
        BY <3>5, <3>6, <4>1
      <4>3. n1 + 1 \in 1..(n1 + 1) /\ (n1 + 1) - 1 = n1
        BY <3>4
      <4>4. v[n1 + 1] = 10 * v[n1] + c
        BY <3>4, <3>6, <4>3
      <4> QED  BY <3>1, <4>2, <4>4
    <3>7. n1 + 1 \in Nat \ {0}
      BY <3>4
    <3> QED  BY <2>2, <3>4, <3>6, <3>7
  <2> QED  BY <2>3, <2>4
<1> QED  BY <1>2, <1>3

\* The characters of a text that does not end early.
Plain == Chars \ {NUL}

\* A text without NUL is a text.
LEMMA PlainIsChars == \A t \in Seq(Plain) : t \in Seq(Chars)
<1>1. Plain \subseteq Chars
  BY DEF Plain
<1> HIDE DEF Plain, Chars
<1> QED  BY <1>1

\* A string as the C library sees it ends before its first NUL.
LEMMA CStrIs ==
  ASSUME NEW t \in Seq(Chars)
  PROVE  CStr(t) \in Seq(Plain) /\ (t \in Seq(Plain) => CStr(t) = t)
<1> DEFINE S == {i \in 1..Len(t) : t[i] = NUL} \cup {Len(t) + 1}
           e == Least(S)
<1>1. Len(t) \in Nat /\ \A i \in 1..Len(t) : t[i] \in Chars
  OBVIOUS
<1>2. S \subseteq Nat /\ S # {}
  BY <1>1
<1>3. e \in S /\ \A x \in S : e <= x
  <2> HIDE DEF S
  <2> QED  BY <1>2, LeastIs
<1>4. e \in 1..(Len(t) + 1)
  BY <1>1, <1>3
<1>5. \A i \in 1..(e - 1) : t[i] \in Plain
  <2> SUFFICES ASSUME NEW i \in 1..(e - 1)  PROVE t[i] \in Plain
    OBVIOUS
  <2>1. i \in 1..Len(t) /\ i < e
    BY <1>1, <1>4
  <2>2. i \notin S
    BY <1>3, <2>1
  <2> QED  BY <1>1, <2>1, <2>2 DEF Plain
<1>6. CStr(t) = SubSeq(t, 1, e - 1)
  BY DEF CStr
<1>7. t \in Seq(Plain) => e = Len(t) + 1
  <2> SUFFICES ASSUME t \in Seq(Plain)  PROVE e = Len(t) + 1
    OBVIOUS
  <2>1. \A i \in 1..Len(t) : t[i] # NUL
    BY DEF Plain
  <2> QED  BY <1>3, <2>1
<1> HIDE DEF e, S
<1>8. CStr(t) \in Seq(Plain)
  <2>1. e - 1 \in Nat /\ e - 1 <= Len(t)
    BY <1>1, <1>4
  <2>2. CStr(t) = [i \in 1..(e - 1) |-> t[i]]
    BY <1>1, <1>6, <2>1
  <2>3. CStr(t) \in [1..(e - 1) -> Plain]
    BY <1>5, <2>2
  <2> QED  BY <2>1, <2>3, FunctionIsSeq
<1>9. t \in Seq(Plain) => CStr(t) = t
  BY <1>1, <1>6, <1>7
<1> QED  BY <1>8, <1>9

\* A sign is one character or none.
LEMMA SignIs ==
  ASSUME NEW t \in Seq(Chars)
  PROVE  /\ SignLen(t) \in {0, 1} /\ SignLen(t) <= Len(t)
         /\ SignLen(t) = 1 <=> Len(t) > 0 /\ t[1] = MINUS
         /\ \A n \in Int : Signed(t, n) \in Int
<1>1. Len(t) \in Nat /\ (t # << >> <=> Len(t) > 0)
  <2> HIDE DEF Chars
  <2> QED  BY EmptySeq, LenProperties
<1>2. SignLen(t) = IF Len(t) > 0 /\ t[1] = MINUS THEN 1 ELSE 0
  BY <1>1 DEF SignLen
<1>3. \A n \in Int : Signed(t, n) \in Int
  BY DEF Signed
<1> HIDE DEF MINUS
<1> QED  BY <1>1, <1>2, <1>3

\* What the library's parsers answer with.
LEMMA ParsedType ==
  ASSUME NEW t \in Seq(Chars)
  PROVE  /\ strtoll(t).n \in MIN..MAX
         /\ strtod(t).n \in Int /\ Representable(strtod(t).n)
<1> DEFINE i == SignLen(t) + 1
           d == Digits(t, i)
<1>1. i \in Nat \ {0} /\ i <= Len(t) + 1 /\ Len(t) \in Nat
  <2>1. Len(t) \in Nat
    BY LenProperties
  <2>2. SignLen(t) \in {0, 1} /\ SignLen(t) <= Len(t)
    BY SignIs
  <2> QED  BY <2>1, <2>2
<1>2. d \in Nat /\ i + d <= Len(t) + 1 /\ DigitsValue(t, i) \in Nat
  <2>1. d \in Nat /\ i + d <= Len(t) + 1
    BY <1>1, DigitsEnd
  <2>2. PICK v \in [0..d -> Nat] : DigitsValue(t, i) = v[d]
    BY <1>1, DigitsValueIs
  <2> QED  BY <2>1, <2>2
<1>3. strtoll(t).n \in MIN..MAX
  <2> DEFINE v == Signed(t, DigitsValue(t, i))
  <2>1. v \in Int
    BY <1>2, SignIs
  <2>2. strtoll(t).n = IF v < MIN THEN MIN ELSE IF v > MAX THEN MAX ELSE v
    BY DEF strtoll
  <2> HIDE DEF v
  <2> QED  BY <2>1, <2>2, Bounds
<1> DEFINE point == i + d <= Len(t) /\ t[i + d] = DOT
           e == IF point THEN Digits(t, i + d + 1) ELSE 0
           fraction == IF point THEN DigitsValue(t, i + d + 1) ELSE 0
           n == Unit * (Pow10[e] * DigitsValue(t, i) + fraction)
           x == Signed(t, n)
<1>4. x \in Int /\ Pow10[e] \in Nat \ {0}
  <2>1. point => i + d + 1 \in Nat \ {0} /\ i + d + 1 <= Len(t) + 1
    BY <1>1, <1>2
  <2>2. e \in Nat
    BY <2>1, DigitsEnd
  <2>3. fraction \in Nat
    <3>1. CASE point
      <4>1. PICK v \in [0..Digits(t, i + d + 1) -> Nat] :
                    DigitsValue(t, i + d + 1) = v[Digits(t, i + d + 1)]
        BY <2>1, <3>1, DigitsValueIs
      <4>2. Digits(t, i + d + 1) \in Nat
        BY <2>1, <3>1, DigitsEnd
      <4> QED  BY <3>1, <4>1, <4>2
    <3>2. CASE ~point
      BY <3>2
    <3> QED  BY <3>1, <3>2
  <2> HIDE DEF e, fraction
  <2>4. Pow10[e] \in Nat \ {0} /\ Unit \in Nat
    BY <2>2, PowersOfTen, WidthAssumption
  <2> DEFINE w == Pow10[e]
             y == DigitsValue(t, i)
  <2>5. w \in Nat /\ y \in Nat
    BY <1>2, <2>4
  <2> HIDE DEF w, y
  <2>6. Unit * (w * y + fraction) \in Int
    BY <2>3, <2>4, <2>5
  <2>7. n \in Int
    BY <2>6 DEF w, y
  <2> HIDE DEF n
  <2> QED  BY <2>4, <2>7, SignIs
<1>5. strtod(t).n \in {NaN, 0, RoundedRatio(x, Pow10[e])}
  BY DEF strtod
<1> DEFINE w == Pow10[e]
<1> HIDE DEF x, w
<1>6. /\ NaN \in Int /\ Representable(NaN) /\ 0 \in Int /\ Representable(0)
      /\ RoundedRatio(x, w) \in Int /\ Representable(RoundedRatio(x, w))
  <2>1. Rounded(0) = 0
    BY RoundedIs
  <2>2. w \in Nat \ {0} /\ x \in Int
    BY <1>4 DEF w
  <2> QED  BY <2>1, <2>2, RatioRepresentable, PushedAssumption DEF Representable
<1> QED  BY <1>3, <1>5, <1>6 DEF w

------------------------------------------------------------------------------
(* Values, and what operators make of them                                 *)

\* The texts of numbers.
Int64s == {Int64(n) : n \in MIN..MAX}
Doubles == {Double(h) : h \in {x \in Int : Representable(x)}}
Strings == {Text(t, l) : t \in Seq(Chars), l \in Nat}
NumberValues == Int64s \cup Doubles
Values == NumberValues \cup Strings

\* The types of values.
LEMMA Kinds ==
  ASSUME NEW v
  PROVE  /\ v \in Int64s => v.type = "INT" /\ v.n \in MIN..MAX /\ v = Int64(v.n)
         /\ v \in Doubles => v.type = "FLOAT" /\ v.n \in Int /\ Representable(v.n) /\ v = Double(v.n)
         /\ v \in Strings => v.type = "STR" /\ v.text \in Seq(Chars) /\ v.len \in Nat
<1>1. v \in Int64s => v.type = "INT" /\ v.n \in MIN..MAX /\ v = Int64(v.n)
  BY DEF Int64s, Int64
<1>2. v \in Doubles => v.type = "FLOAT" /\ v.n \in Int /\ Representable(v.n) /\ v = Double(v.n)
  BY DEF Doubles, Double
<1>3. v \in Strings => v.type = "STR" /\ v.text \in Seq(Chars) /\ v.len \in Nat
  BY DEF Strings, Text
<1> QED  BY <1>1, <1>2, <1>3

\* Values are made of what belongs in them.
LEMMA ValuesMade ==
  /\ \A n \in MIN..MAX : Int64(n) \in Int64s
  /\ \A h \in Int : Representable(h) => Double(h) \in Doubles
  /\ \A t \in Seq(Chars), l \in Nat : Text(t, l) \in Strings
BY DEF Int64s, Doubles, Strings

\* The tenths of a double are no further from it than half of one, and as many as it has
\* if it has nothing behind them.
LEMMA TenthsIs ==
  ASSUME NEW n \in Int
  PROVE  /\ Abs(n) \in Nat /\ Tenths(n) \in Nat
         /\ 2 * Abs(Unit * Tenths(n) - 10 * Abs(n)) <= Unit
         /\ (10 * Abs(n)) % Unit = 0 => Unit * Tenths(n) = 10 * Abs(n)
<1> DEFINE a == 10 * Abs(n)
<1>1. Abs(n) \in Nat /\ a \in Nat /\ Unit \in Nat \ {0}
  BY WidthAssumption DEF Abs
<1> HIDE DEF a
<1>2. Tenths(n) = Nearest(a, Unit)
  BY DEF Tenths, a
<1>3. Nearest(a, Unit) \in Nat /\ 2 * Abs(Unit * Nearest(a, Unit) - a) <= Unit
  BY <1>1, NoneNearer
<1>4. a % Unit = 0 => Unit * Nearest(a, Unit) = a
  <2> SUFFICES ASSUME a % Unit = 0  PROVE Unit * Nearest(a, Unit) = a
    OBVIOUS
  <2>0. a \div Unit \in Nat /\ a = Unit * (a \div Unit) + (a % Unit)
    BY <1>1, Division
  <2>1. a \div Unit \in Nat /\ a = Unit * (a \div Unit)
    <3> DEFINE q == a \div Unit
               e == a % Unit
    <3>1. q \in Nat /\ a = Unit * q + e /\ e = 0
      BY <2>0
    <3> HIDE DEF q, e
    <3> QED  BY <1>1, <3>1 DEF q
  <2> DEFINE q == a \div Unit
             x == Unit * Nearest(a, Unit)
             y == Unit * q
  <2>2. Abs(x - a) <= Abs(y - a)
    BY <1>1, <2>1, NoneNearer
  <2>3. x \in Int /\ y = a
    BY <1>1, <1>3, <2>1
  <2> HIDE DEF x, y
  <2> QED  BY <1>1, <2>2, <2>3 DEF Abs, x
<1> QED  BY <1>1, <1>2, <1>3, <1>4 DEF a

\* The text of a number has no NUL, and is whole if it fits the buffer.
LEMMA PrintedIs ==
  ASSUME NEW v \in Int64s \cup Doubles
  PROVE  /\ Printed(v) \in Seq(Plain) /\ Len(Printed(v)) \in Nat \ {0}
         /\ nbr_to_str(v) \in Seq(Plain)
         /\ Fits(v) => nbr_to_str(v) = Printed(v)
<1>1. v.n \in Int /\ (v \in Int64s => v.type = "INT") /\ (v \in Doubles => v.type = "FLOAT")
  BY Bounds DEF Int64s, Doubles, Int64, Double
<1>2. Sign(v.n) \in Seq(Plain) /\ Len(Sign(v.n)) \in Nat
  <2>1. MINUS \in Plain
    BY DEF Plain, Chars, MINUS, NUL
  <2>2. <<MINUS>> \in Seq(Plain) /\ << >> \in Seq(Plain)
    BY <2>1
  <2> QED  BY <2>2 DEF Sign
<1>3. ASSUME NEW n \in Nat  PROVE Decimal[n] \in Seq(Plain) /\ Len(Decimal[n]) \in Nat \ {0}
  <2>1. 0..9 \subseteq Plain
    BY DEF Plain, Chars, NUL
  <2>2. Decimal[n] \in Seq(0..9) /\ Len(Decimal[n]) \in Nat \ {0}
    BY DecimalReads
  <2> QED  BY <2>1, <2>2
<1> DEFINE g == Tenths(v.n)
<1>4. Abs(v.n) \in Nat /\ g \div 10 \in Nat /\ g % 10 \in 0..9
  <2>1. Abs(v.n) \in Nat /\ g \in Nat
    BY <1>1, TenthsIs
  <2> HIDE DEF g
  <2> QED  BY <2>1
<1>5. <<NAN>> \in Seq(Plain) /\ <<DOT, g % 10>> \in Seq(Plain)
  BY <1>4 DEF Plain, Chars, NAN, DOT, NUL
<1>6. Printed(v) \in Seq(Plain) /\ Len(Printed(v)) \in Nat \ {0}
  <2>1. CASE v.type = "INT"
    <3> DEFINE s == Sign(v.n)
               q == Decimal[Abs(v.n)]
    <3>1. Printed(v) = s \o q
      BY <2>1 DEF Printed
    <3>2. s \in Seq(Plain) /\ Len(s) \in Nat /\ q \in Seq(Plain) /\ Len(q) \in Nat \ {0}
      BY <1>2, <1>3, <1>4
    <3> HIDE DEF s, q
    <3>3. s \o q \in Seq(Plain) /\ Len(s \o q) = Len(s) + Len(q)
      BY <3>2, ConcatProperties
    <3> QED  BY <3>1, <3>2, <3>3
  <2>2. CASE v.type # "INT" /\ v.n = NaN
    <3>1. Printed(v) = <<NAN>>
      BY <2>2 DEF Printed
    <3> QED  BY <1>5, <3>1
  <2>3. CASE v.type # "INT" /\ v.n # NaN
    <3> DEFINE s == Sign(v.n)
               q == Decimal[g \div 10]
               e == <<DOT, g % 10>>
               u == s \o q
    <3>1. Printed(v) = u \o e
      BY <2>3 DEF Printed
    <3>2. s \in Seq(Plain) /\ q \in Seq(Plain) /\ e \in Seq(Plain) /\ Len(e) = 2
      BY <1>2, <1>3, <1>4, <1>5
    <3> HIDE DEF s, q, e
    <3>3. u \in Seq(Plain) /\ Len(u) \in Nat
      BY <3>2, ConcatProperties
    <3> HIDE DEF u
    <3>4. u \o e \in Seq(Plain) /\ Len(u \o e) = Len(u) + Len(e)
      BY <3>2, <3>3, ConcatProperties
    <3> QED  BY <3>1, <3>2, <3>3, <3>4
  <2> QED  BY <2>1, <2>2, <2>3
<1> DEFINE p == Printed(v)
           k == Least({Len(p), NumberBufSize - 1})
<1>7. k \in 0..Len(p) /\ (Fits(v) => k = Len(p)) /\ nbr_to_str(v) = SubSeq(p, 1, k)
  <2>1. {Len(p), NumberBufSize - 1} \subseteq Nat /\ Len(p) \in Nat
    BY <1>6, WidthAssumption
  <2>2. k \in {Len(p), NumberBufSize - 1} /\ k <= Len(p) /\ k <= NumberBufSize - 1
    BY <2>1, LeastIs
  <2>3. Fits(v) => Len(p) <= NumberBufSize - 1
    BY <2>1, WidthAssumption DEF Fits
  <2>4. nbr_to_str(v) = SubSeq(p, 1, k)
    BY DEF nbr_to_str
  <2> HIDE DEF p, k
  <2> QED  BY <2>1, <2>2, <2>3, <2>4
<1> HIDE DEF k
<1>8. SubSeq(p, 1, k) \in Seq(Plain) /\ (k = Len(p) => SubSeq(p, 1, k) = p)
  <2> HIDE DEF p
  <2>1. p \in Seq(Plain)
    BY <1>6 DEF p
  <2> QED  BY <1>7, <2>1
<1> QED  BY <1>6, <1>7, <1>8

\* What a value is converted to.
LEMMA Conversions ==
  ASSUME NEW v \in Values
  PROVE  /\ to_int(v) \in MIN..MAX
         /\ to_float(v) \in Int /\ Representable(to_float(v))
         /\ str_to_nbr(v) \in NumberValues
         /\ TextOf(v) \in Seq(Plain) /\ LenOf(v) \in Nat
         /\ AsText(v) \in Strings
<1>1. CASE v \in Int64s
  <2>1. v.type = "INT" /\ v.n \in MIN..MAX /\ v.n \in Int
    BY <1>1, Kinds, Bounds
  <2>2. to_int(v) = v.n /\ to_float(v) = Rounded(Unit * v.n) /\ Unit * v.n \in Int /\ str_to_nbr(v) = v
    BY <2>1, WidthAssumption DEF to_int, to_float, str_to_nbr
  <2>3. nbr_to_str(v) \in Seq(Plain) /\ nbr_to_str(v) \in Seq(Chars) /\ nbr_to_str_len(v) \in Nat
    BY <1>1, PrintedIs, PlainIsChars DEF nbr_to_str_len
  <2>4. TextOf(v) \in Seq(Plain) /\ LenOf(v) \in Nat
    BY <2>1, <2>3 DEF TextOf, LenOf
  <2>5. AsText(v) \in Strings
    BY <2>1, <2>3, ValuesMade DEF AsText
  <2> QED  BY <1>1, <2>1, <2>2, <2>4, <2>5, RoundedRepresentable DEF NumberValues
<1>2. CASE v \in Doubles
  <2>1. v.type = "FLOAT" /\ v.n \in Int /\ Representable(v.n)
    BY <1>2, Kinds
  <2>2. to_int(v) = FloatToInt(v.n) /\ to_float(v) = v.n /\ str_to_nbr(v) = v
    BY <2>1 DEF to_int, to_float, str_to_nbr
  <2>3. nbr_to_str(v) \in Seq(Plain) /\ nbr_to_str(v) \in Seq(Chars) /\ nbr_to_str_len(v) \in Nat
    BY <1>2, PrintedIs, PlainIsChars DEF nbr_to_str_len
  <2>4. TextOf(v) \in Seq(Plain) /\ LenOf(v) \in Nat
    BY <2>1, <2>3 DEF TextOf, LenOf
  <2>5. AsText(v) \in Strings
    BY <2>1, <2>3, ValuesMade DEF AsText
  <2> QED  BY <1>2, <2>1, <2>2, <2>4, <2>5, FloatToIntType DEF NumberValues
<1>3. CASE v \in Strings
  <2>1. v.type = "STR" /\ v.text \in Seq(Chars) /\ v.len \in Nat
    BY <1>3, Kinds
  <2>2. CStr(v.text) \in Seq(Plain) /\ CStr(v.text) \in Seq(Chars)
    BY <2>1, CStrIs, PlainIsChars
  <2>3. /\ strtoll(CStr(v.text)).n \in MIN..MAX
        /\ strtod(CStr(v.text)).n \in Int /\ Representable(strtod(CStr(v.text)).n)
    BY <2>2, ParsedType
  <2>4. to_int(v) = strtoll(CStr(v.text)).n /\ to_float(v) = strtod(CStr(v.text)).n
    BY <2>1 DEF to_int, to_float
  <2>5. str_to_nbr(v) \in {Int64(strtoll(CStr(v.text)).n), Double(strtod(CStr(v.text)).n), Int64(0)}
    BY <2>1 DEF str_to_nbr
  <2>6. Int64(0) \in Int64s
    <3>1. 0 \in MIN..MAX
      BY Bounds
    <3> QED  BY <3>1, ValuesMade
  <2>7. str_to_nbr(v) \in NumberValues
    BY <2>3, <2>5, <2>6, ValuesMade DEF NumberValues
  <2> QED  BY <1>3, <2>1, <2>2, <2>3, <2>4, <2>7 DEF TextOf, LenOf, AsText
<1> QED  BY <1>1, <1>2, <1>3 DEF Values, NumberValues

\* What is computed with doubles is one.
LEMMA FloatType ==
  ASSUME NEW a, NEW b, NEW h \in Int, Representable(h)
  PROVE  Float(a, b, h) \in Doubles
<1>1. NaN \in Int /\ Representable(NaN)
  BY PushedAssumption DEF Representable
<1> QED  BY <1>1, ValuesMade DEF Float

\* Truth values are integers.
LEMMA TruthIs == \A p : Truth(p) \in Int64s /\ Truth(p).n = (IF p THEN 1 ELSE 0)
<1>1. MAX \in Int /\ MAX >= 1 /\ MIN \in Int /\ MIN <= 0
  <2>1. W - 2 \in Nat /\ (W - 2) + 1 = W - 1
    BY WidthAssumption
  <2>2. Pow2[W - 1] = 2 * Pow2[W - 2] /\ Pow2[W - 2] \in Nat \ {0}
    BY <2>1, Powers
  <2> QED  BY <2>2 DEF MAX, MIN
<1>2. Int64(0) \in Int64s /\ Int64(1) \in Int64s
  BY <1>1, ValuesMade
<1> QED  BY <1>2 DEF Truth, Int64

\* What two values are computed to.
LEMMA Results ==
  ASSUME NEW a \in Values, NEW b \in Values, NEW op \in Operators,
         op \in {"div", "mod"} => BothInt(a, b), ~Traps(op, a, b)
  PROVE  Result(op, a, b) \in Values /\ (op # "add" => Result(op, a, b) \in NumberValues)
<1>1. ASSUME BothInt(a, b)  PROVE a.n \in MIN..MAX /\ b.n \in MIN..MAX /\ a.n \in Int /\ b.n \in Int
  BY <1>1, Kinds, Bounds DEF BothInt, Values, NumberValues
<1> DEFINE g == to_float(a)
           h == to_float(b)
<1>2. g \in Int /\ h \in Int
  BY Conversions
<1> HIDE DEF g, h
<1> DEFINE sum == Rounded(g + h)
           difference == Rounded(g - h)
           product == RoundedRatio(g * h, Unit)
<1>3. /\ sum \in Int /\ Representable(sum) /\ difference \in Int /\ Representable(difference)
      /\ product \in Int /\ Representable(product)
  <2>1. g + h \in Int /\ g - h \in Int /\ g * h \in Int /\ Unit \in Nat \ {0}
    BY <1>2, WidthAssumption
  <2> QED  BY <2>1, RoundedRepresentable, RatioRepresentable
<1> HIDE DEF sum, difference, product
<1>4. \A x \in Int : Int64(Wrapped(x)) \in NumberValues
  BY WrappedType, ValuesMade DEF Values, NumberValues
<1>5. op_add(a, b) \in Values
  <2>1. TextOf(a) \o TextOf(b) \in Seq(Chars) /\ LenOf(a) + LenOf(b) \in Nat
    <3>1. TextOf(a) \o TextOf(b) \in Seq(Plain)
      BY Conversions, ConcatProperties
    <3>2. LenOf(a) + LenOf(b) \in Nat
      BY Conversions
    <3> QED  BY <3>1, <3>2, PlainIsChars
  <2>2. Text(TextOf(a) \o TextOf(b), LenOf(a) + LenOf(b)) \in Values
    BY <2>1, ValuesMade DEF Values, NumberValues
  <2>3. Float(a, b, sum) \in Values
    BY <1>3, FloatType DEF Values, NumberValues
  <2>4. BothInt(a, b) => Int64(Wrapped(a.n + b.n)) \in Values
    BY <1>1, <1>4 DEF Values
  <2> QED  BY <2>2, <2>3, <2>4 DEF op_add, g, h, sum
<1>6. op_sub(a, b) \in NumberValues
  <2>1. Float(a, b, difference) \in NumberValues
    BY <1>3, FloatType DEF Values, NumberValues
  <2>2. BothInt(a, b) => Int64(Wrapped(a.n - b.n)) \in NumberValues
    BY <1>1, <1>4
  <2> QED  BY <2>1, <2>2 DEF op_sub, g, h, difference
<1>7. op_mul(a, b) \in NumberValues
  <2>1. Float(a, b, product) \in NumberValues
    BY <1>3, FloatType DEF Values, NumberValues
  <2>2. BothInt(a, b) => Int64(Wrapped(a.n * b.n)) \in NumberValues
    <3>1. BothInt(a, b) => a.n * b.n \in Int
      BY <1>1
    <3> QED  BY <1>4, <3>1
  <2> QED  BY <2>1, <2>2 DEF op_mul, g, h, product
<1>8. op \in {"div", "mod"} => op_div(a, b) \in NumberValues /\ op_mod(a, b) \in NumberValues
  <2> SUFFICES ASSUME op \in {"div", "mod"}  PROVE op_div(a, b) \in NumberValues /\ op_mod(a, b) \in NumberValues
    OBVIOUS
  <2>1. /\ a.n \in MIN..MAX /\ b.n \in MIN..MAX /\ a.n \in Int /\ b.n \in Int
        /\ ~(a.n = MIN /\ b.n = -1)
    BY <1>1 DEF Traps
  <2>2. Int64(0) \in Int64s
    BY Bounds, ValuesMade
  <2>3. ASSUME b.n # 0  PROVE Quotient(a.n, b.n) \in MIN..MAX /\ Remainder(a.n, b.n) \in MIN..MAX
    <3> DEFINE n == a.n
               d == b.n
               q == Quotient(n, d)
               r == Remainder(n, d)
    <3>1. /\ q \in Int /\ r \in Int /\ n \in Int /\ d \in Int
          /\ Abs(q) <= Abs(n) /\ Abs(r) <= Abs(n) /\ Abs(r) < Abs(d)
          /\ n < 0 /\ q = -n => d = -1
      BY <2>1, <2>3, Quotients
    <3>2. n \in MIN..MAX /\ d \in MIN..MAX /\ ~(n = MIN /\ d = -1)
      BY <2>1
    <3> HIDE DEF n, d, q, r
    <3>3. Abs(n) <= -MIN /\ (Abs(n) = -MIN => n = MIN)
      BY <3>1, <3>2, Bounds DEF Abs
    <3>4. q \in MIN..MAX
      <4>1. q >= MIN /\ q <= -MIN
        BY <3>1, <3>3, Bounds DEF Abs
      <4>2. q = -MIN => n = MIN
        BY <3>1, <3>3, Bounds DEF Abs
      <4>3. q # -MIN
        BY <3>1, <3>2, <4>2, Bounds
      <4> QED  BY <3>1, <4>1, <4>3, Bounds
    <3>5. r \in MIN..MAX
      <4>1. Abs(r) < -MIN
        BY <3>1, <3>2, Bounds DEF Abs
      <4> QED  BY <3>1, <4>1, Bounds DEF Abs
    <3> QED  BY <3>4, <3>5 DEF n, d, q, r
  <2> QED  BY <2>2, <2>3, ValuesMade DEF op_div, op_mod, Values, NumberValues
<1>9. \A S \in SUBSET Nat : OfBits(S) \in NumberValues
  <2> SUFFICES ASSUME NEW S \in SUBSET Nat  PROVE OfBits(S) \in NumberValues
    OBVIOUS
  <2> DEFINE f == [k \in 1..W |-> IF k - 1 \in S THEN Pow2[k - 1] ELSE 0]
  <2>1. W \in Nat /\ \A k \in 1..W : f[k] \in Nat
    BY WidthAssumption, Powers
  <2> HIDE DEF f
  <2>2. SumTo(f, W) \in Int
    BY <2>1, SumToNat
  <2> QED  BY <1>4, <2>2 DEF OfBits, f
<1>10. op_bit_and(a, b) \in NumberValues /\ op_bit_or(a, b) \in NumberValues /\ op_bit_xor(a, b) \in NumberValues
  <2>1. Bits(a) \subseteq Nat /\ Bits(b) \subseteq Nat
    BY WidthAssumption DEF Bits
  <2>2. /\ Bits(a) \cap Bits(b) \in SUBSET Nat /\ Bits(a) \cup Bits(b) \in SUBSET Nat
        /\ (Bits(a) \cup Bits(b)) \ (Bits(a) \cap Bits(b)) \in SUBSET Nat
    BY <2>1
  <2> QED  BY <1>9, <2>2 DEF op_bit_and, op_bit_or, op_bit_xor
<1>11. \A p : Truth(p) \in NumberValues
  BY TruthIs DEF Values, NumberValues
<1>12. op_lt(a, b) \in NumberValues /\ op_gt(a, b) \in NumberValues /\ op_lte(a, b) \in NumberValues /\ op_gte(a, b) \in NumberValues
  BY <1>11 DEF op_lt, op_gt, op_lte, op_gte
<1>13. op_eq(a, b) \in NumberValues /\ op_neq(a, b) \in NumberValues
  BY <1>11 DEF op_eq, op_neq
<1>14. op_log_and(a, b) \in NumberValues /\ op_log_or(a, b) \in NumberValues
  BY <1>11 DEF op_log_and, op_log_or
<1> QED  BY <1>5, <1>6, <1>7, <1>8, <1>10, <1>12, <1>13, <1>14 DEF Result, Operators, Values

\* What op_neg gives.
LEMMA NegatedType == ASSUME NEW v \in Values  PROVE Negated(v) \in Values
<1>1. CASE v.type = "FLOAT"
  <2>1. v.n \in Int /\ Representable(v.n)
    BY <1>1, Kinds DEF Values, NumberValues
  <2>2. v.n # NaN => Rounded(v.n) = v.n /\ Rounded(-v.n) = -v.n /\ -v.n \in Int
    <3>1. Rounded(-v.n) = -Rounded(v.n) /\ -v.n \in Int
      BY <2>1, RoundedIs
    <3> QED  BY <2>1, <3>1 DEF Representable
  <2>3. NaN \in Int /\ Representable(NaN)
    BY PushedAssumption DEF Representable
  <2>4. v.n # NaN => Representable(-v.n) /\ -v.n \in Int
    BY <2>2 DEF Representable
  <2>5. (IF v.n = NaN THEN NaN ELSE -v.n) \in {x \in Int : Representable(x)}
    BY <2>3, <2>4
  <2>6. Double(IF v.n = NaN THEN NaN ELSE -v.n) \in Doubles
    BY <2>5, ValuesMade
  <2> QED  BY <1>1, <2>6 DEF Negated, Values, NumberValues
<1>2. CASE v.type # "FLOAT"
  <2>1. -to_int(v) \in Int
    BY Conversions, Bounds
  <2> QED  BY <1>2, <2>1, WrappedType, ValuesMade DEF Negated, Values, NumberValues
<1> QED  BY <1>1, <1>2

------------------------------------------------------------------------------
(* Numbers printed and read back, and compared                             *)

\* The text of a number: its sign, its digits, and for a double what follows them.
IsNumberText(p, n, a, e) ==
  LET i == SignLen(p) + 1
      d == Digits(p, i)
  IN  /\ p \in Seq(Plain) /\ p \in Seq(Chars) /\ d \in Nat \ {0}
      /\ Len(p) = SignLen(p) + d + Len(e) /\ SignLen(p) = (IF n < 0 THEN 1 ELSE 0)
      /\ DigitsValue(p, i) = a
      /\ \A k \in 1..Len(e) : p[SignLen(p) + d + k] = e[k]
      /\ p # << >> /\ p[1] # NAN
\* What has been printed reads as that.
LEMMA NumberText ==
  ASSUME NEW n \in Int, NEW a \in Nat, NEW e \in Seq(Plain), Len(e) > 0 => e[1] > 9
  PROVE  IsNumberText((Sign(n) \o Decimal[a]) \o e, n, a, e)
<1> DEFINE p == (Sign(n) \o Decimal[a]) \o e
           i == SignLen(p) + 1
           d == Digits(p, i)
           s == Sign(n)
           q == Decimal[a]
           b == s \o q
           l == IF n < 0 THEN 1 ELSE 0
           m == Len(q)
<1>1. /\ s \in Seq(Plain) /\ Len(s) = l /\ (l = 1 => s[1] = MINUS)
  <2>1. MINUS \in Plain
    BY DEF Plain, Chars, MINUS, NUL
  <2>2. <<MINUS>> \in Seq(Plain) /\ << >> \in Seq(Plain) /\ Len(<<MINUS>>) = 1 /\ Len(<< >>) = 0 /\ <<MINUS>>[1] = MINUS
    BY <2>1
  <2> QED  BY <2>2 DEF Sign
<1>2. /\ q \in Seq(Plain) /\ m \in Nat \ {0} /\ \A k \in 1..m : q[k] \in 0..9
  <2>1. 0..9 \subseteq Plain
    BY DEF Plain, Chars, NUL
  <2>2. q \in Seq(0..9) /\ m \in Nat \ {0}
    BY DecimalReads
  <2> HIDE DEF q
  <2>3. \A k \in 1..m : q[k] \in 0..9
    BY <2>2, ElementOfSeq
  <2>4. q \in Seq(Plain)
    BY <2>1, <2>2, SeqMonotonic
  <2> QED  BY <2>2, <2>3, <2>4
<1>3. \A v : /\ v[0] = 0 /\ (\A k \in 1..m : v[k] = 10 * v[k - 1] + q[k]) => v[m] = a
  BY DecimalReads
<1>4. l \in {0, 1}
  OBVIOUS
<1> HIDE DEF s, q, m, l
<1>5. /\ b \in Seq(Plain) /\ Len(b) = l + m
      /\ \A k \in 1..(l + m) : b[k] = IF k <= l THEN s[k] ELSE q[k - l]
  <2>1. /\ s \o q \in Seq(Plain) /\ Len(s \o q) = Len(s) + Len(q)
        /\ \A k \in 1..(Len(s) + Len(q)) : (s \o q)[k] = IF k <= Len(s) THEN s[k] ELSE q[k - Len(s)]
    BY <1>1, <1>2, ConcatProperties
  <2> QED  BY <1>1, <2>1 DEF m
<1>6. p = b \o e
  BY DEF s, q
<1> HIDE DEF b, p, i, d
<1>7. /\ p \in Seq(Plain) /\ Len(p) = l + m + Len(e) /\ Len(e) \in Nat
      /\ \A k \in 1..(l + m + Len(e)) : p[k] = IF k <= l + m THEN b[k] ELSE e[k - (l + m)]
  <2>1. /\ b \o e \in Seq(Plain) /\ Len(b \o e) = Len(b) + Len(e)
        /\ \A k \in 1..(Len(b) + Len(e)) : (b \o e)[k] = IF k <= Len(b) THEN b[k] ELSE e[k - Len(b)]
    BY <1>5, ConcatProperties
  <2> QED  BY <1>5, <1>6, <2>1, LenProperties
<1>8. l = 1 => p[1] = MINUS
  <2> SUFFICES ASSUME l = 1  PROVE p[1] = MINUS
    OBVIOUS
  <2>1. 1 \in 1..(l + m + Len(e)) /\ 1 <= l + m /\ 1 \in 1..(l + m) /\ 1 <= l
    BY <1>2, <1>4, <1>7
  <2> QED  BY <1>1, <1>5, <1>7, <2>1
<1>9. \A k \in 1..m : p[l + k] = q[k]
  <2> SUFFICES ASSUME NEW k \in 1..m  PROVE p[l + k] = q[k]
    OBVIOUS
  <2>1. l + k \in 1..(l + m + Len(e)) /\ l + k <= l + m /\ l + k \in 1..(l + m) /\ ~(l + k <= l) /\ (l + k) - l = k
    BY <1>2, <1>4, <1>7
  <2> QED  BY <1>5, <1>7, <2>1
<1>10. \A k \in 1..Len(e) : p[l + m + k] = e[k]
  <2> SUFFICES ASSUME NEW k \in 1..Len(e)  PROVE p[l + m + k] = e[k]
    OBVIOUS
  <2>1. l + m + k \in 1..(l + m + Len(e)) /\ ~(l + m + k <= l + m) /\ (l + m + k) - (l + m) = k
    BY <1>2, <1>4, <1>7
  <2> QED  BY <1>7, <2>1
<1>11. l = 0 => p[1] \in 0..9
  <2> SUFFICES ASSUME l = 0  PROVE p[1] \in 0..9
    OBVIOUS
  <2>1. 1 \in 1..m /\ l + 1 = 1
    BY <1>2
  <2>2. p[l + 1] = q[1] /\ q[1] \in 0..9
    BY <1>2, <1>9, <2>1
  <2> QED  BY <2>1, <2>2
<1>12. SignLen(p) = l /\ p[1] # NAN /\ p \in Seq(Chars) /\ p # << >>
  <2>1. p \in Seq(Chars) /\ Len(p) > 0
    BY <1>2, <1>4, <1>7, PlainIsChars
  <2>2. p # << >>
    BY <2>1
  <2>3. p[1] # NAN /\ (p[1] = MINUS <=> l = 1)
    <3>1. CASE l = 1
      BY <1>8, <3>1 DEF NAN, MINUS
    <3>2. CASE l = 0
      BY <1>11, <3>2 DEF NAN, MINUS
    <3> QED  BY <1>4, <3>1, <3>2
  <2> QED  BY <1>4, <2>1, <2>2, <2>3 DEF SignLen
<1>13. i = l + 1 /\ i \in Nat \ {0}
  BY <1>4, <1>12 DEF i
<1>14. d = m
  <2>1. i + m <= Len(p) + 1
    BY <1>2, <1>4, <1>7, <1>13
  <2>2. ASSUME NEW j \in i..(i + m - 1)  PROVE p[j] \in 0..9
    <3>1. j - l \in 1..m /\ l + (j - l) = j
      BY <1>2, <1>4, <1>13
    <3>2. p[l + (j - l)] = q[j - l]
      BY <1>9, <3>1
    <3> QED  BY <1>2, <3>1, <3>2
  <2>3. ASSUME i + m <= Len(p)  PROVE p[i + m] > 9
    <3>1. 1 \in 1..Len(e) /\ i + m = l + m + 1 /\ Len(e) > 0
      BY <1>2, <1>4, <1>7, <1>13, <2>3
    <3>2. p[l + m + 1] = e[1]
      BY <1>10, <3>1
    <3> QED  BY <3>1, <3>2
  <2>4. m \in Nat
    BY <1>2
  <2>5. Digits(p, i) = m
    BY <1>12, <1>13, <2>1, <2>2, <2>3, <2>4, DigitsAre
  <2> QED  BY <2>5 DEF d
<1>15. DigitsValue(p, i) = a
  <2>1. i <= Len(p) + 1
    BY <1>2, <1>4, <1>7, <1>13
  <2>2. PICK v \in [0..d -> Nat] : /\ DigitsValue(p, i) = v[d] /\ v[0] = 0
                                   /\ \A k \in 1..d : v[k] = 10 * v[k - 1] + p[i + k - 1]
    BY <1>12, <1>13, <2>1, DigitsValueIs DEF d
  <2>3. \A k \in 1..m : v[k] = 10 * v[k - 1] + q[k]
    <3> SUFFICES ASSUME NEW k \in 1..m  PROVE v[k] = 10 * v[k - 1] + q[k]
      OBVIOUS
    <3>1. i + k - 1 = l + k /\ k \in 1..d
      BY <1>2, <1>4, <1>13, <1>14
    <3>2. v[k] = 10 * v[k - 1] + p[i + k - 1]
      BY <2>2, <3>1
    <3> QED  BY <1>9, <3>1, <3>2
  <2>4. v[m] = a
    BY <1>3, <2>2, <2>3
  <2> QED  BY <1>14, <2>2, <2>4
<1>16. SignLen(p) = IF n < 0 THEN 1 ELSE 0
  BY <1>12 DEF l
<1>17. \A k \in 1..Len(e) : p[SignLen(p) + d + k] = e[k]
  BY <1>10, <1>12, <1>14
<1>18. IsNumberText(p, n, a, e)
  BY <1>2, <1>7, <1>12, <1>14, <1>15, <1>16, <1>17 DEF i, d, IsNumberText
<1> QED  BY <1>18 DEF p

\* A number printed in full is read back as itself, or as a double next to it.
LEMMA ReadBack ==
  ASSUME NEW v \in NumberValues, Fits(v)
  PROVE  /\ str_to_nbr(AsText(v)).type = v.type
         /\ Prints(v) => str_to_nbr(AsText(v)) = v
         /\ ~Prints(v) => 10 * Abs(str_to_nbr(AsText(v)).n - v.n) <= Unit
<1> DEFINE t == Printed(v)
<1>1. v.type # "STR" /\ v.n \in Int /\ t \in Seq(Plain) /\ nbr_to_str(v) = t
  BY Kinds, Bounds, PrintedIs DEF NumberValues
<1>2. t \in Seq(Chars) /\ CStr(t) = t
  BY <1>1, PlainIsChars, CStrIs
<1>3. str_to_nbr(AsText(v)) = IF Whole(t, strtoll(t)) THEN Int64(strtoll(t).n)
                              ELSE IF Whole(t, strtod(t)) THEN Double(strtod(t).n)
                              ELSE Int64(0)
  BY <1>1, <1>2 DEF str_to_nbr, AsText, Text
<1> DEFINE n == v.n
           a == Abs(n)
           i == SignLen(t) + 1
           d == Digits(t, i)
<1>4. a \in Nat /\ (a = n \/ a = -n) /\ (n < 0 => a = -n) /\ (~(n < 0) => a = n)
  BY <1>1 DEF Abs
<1>5. CASE v \in Int64s
  <2>1. v.type = "INT" /\ n \in MIN..MAX /\ v = Int64(n)
    BY <1>5, Kinds
  <2>2. t = (Sign(n) \o Decimal[a]) \o << >>
    <3>1. t = Sign(n) \o Decimal[a]
      BY <2>1 DEF Printed
    <3> QED  BY <1>1, <3>1, ConcatEmptySeq
  <2>3. << >> \in Seq(Plain) /\ Len(<< >>) = 0
    BY EmptySeq
  <2> HIDE DEF t, n, a
  <2>4. /\ d \in Nat \ {0} /\ Len(t) = SignLen(t) + d + 0
        /\ SignLen(t) = (IF n < 0 THEN 1 ELSE 0) /\ DigitsValue(t, i) = a
    <3> DEFINE e == << >>
    <3>1. e \in Seq(Plain) /\ Len(e) = 0 /\ ~(Len(e) > 0) /\ n \in Int /\ t = (Sign(n) \o Decimal[a]) \o e
      BY <1>1, <2>2, <2>3 DEF n
    <3> HIDE DEF e
    <3>2. IsNumberText((Sign(n) \o Decimal[a]) \o e, n, a, e)
      BY <1>4, <3>1, NumberText
    <3>3. IsNumberText(t, n, a, e)
      BY <3>1, <3>2
    <3> QED  BY <3>1, <3>3 DEF IsNumberText
  <2>5. Signed(t, a) = n
    BY <1>1, <1>4, <2>4 DEF Signed, n
  <2>6. strtoll(t).used = SignLen(t) + d /\ strtoll(t).n = n
    <3>1. strtoll(t).n = IF n < MIN THEN MIN ELSE IF n > MAX THEN MAX ELSE n
      BY <2>4, <2>5 DEF strtoll
    <3>2. strtoll(t).used = IF d = 0 THEN 0 ELSE SignLen(t) + d
      BY DEF strtoll
    <3> QED  BY <2>1, <2>4, <3>1, <3>2, Bounds
  <2>7. Whole(t, strtoll(t))
    BY <2>4, <2>6 DEF Whole
  <2> QED  BY <1>3, <2>1, <2>6, <2>7 DEF Prints
<1>6. CASE v \in Doubles /\ n = NaN
  <2>1. v.type = "FLOAT" /\ v = Double(NaN)
    BY <1>6, Kinds
  <2>2. t = <<NAN>>
    BY <1>6, <2>1 DEF Printed
  <2>3. Len(t) = 1 /\ t[1] = NAN /\ t # << >>
    BY <2>2
  <2> HIDE DEF t, n
  <2>4. SignLen(t) = 0
    BY <2>3 DEF SignLen, NAN, MINUS
  <2>5. Digits(t, 1) = 0
    <3>1. /\ 1 \in Nat \ {0} /\ 0 \in Nat /\ 1 + 0 <= Len(t) + 1
          /\ \A j \in 1..(1 + 0 - 1) : t[j] \in 0..9
          /\ 1 + 0 <= Len(t) => t[1 + 0] > 9
      BY <2>3 DEF NAN
    <3> QED  BY <1>2, <3>1, DigitsAre
  <2>6. ~Whole(t, strtoll(t))
    BY <2>4, <2>5 DEF strtoll, Whole
  <2>7. strtod(t) = [used |-> 1, n |-> NaN]
    BY <2>3 DEF strtod
  <2>8. Whole(t, strtod(t))
    BY <2>3, <2>7 DEF Whole
  <2>9. Prints(v)
    BY <1>6, <2>1 DEF Prints, n
  <2> QED  BY <1>3, <2>1, <2>6, <2>7, <2>8, <2>9
<1>7. CASE v \in Doubles /\ n # NaN
  <2> DEFINE g == Tenths(n)
             x == g \div 10
             y == g % 10
             e == <<DOT, y>>
  <2>1. v.type = "FLOAT" /\ v = Double(n) /\ Rounded(n) = n
    BY <1>7, Kinds DEF Representable
  <2>0. /\ g \in Nat /\ 2 * Abs(Unit * g - 10 * a) <= Unit
        /\ Prints(v) => Unit * g = 10 * a
    BY <1>1, <1>7, <2>1, TenthsIs DEF Prints
  <2>2. x \in Nat /\ y \in 0..9 /\ g = 10 * x + y
    <3> HIDE DEF g
    <3> QED  BY <2>0, Division
  <2>3. t = (Sign(n) \o Decimal[x]) \o e
    BY <1>7, <2>1 DEF Printed
  <2> HIDE DEF t, n, a, g, x, y
  <2>4. e \in Seq(Plain) /\ Len(e) = 2 /\ e[1] = DOT /\ e[2] = y /\ e[1] > 9
    BY <2>2 DEF Plain, Chars, DOT, NUL
  <2> HIDE DEF e
  <2>5. /\ d \in Nat \ {0} /\ Len(t) = SignLen(t) + d + 2
        /\ SignLen(t) = (IF n < 0 THEN 1 ELSE 0) /\ DigitsValue(t, i) = x
        /\ \A k \in 1..2 : t[SignLen(t) + d + k] = e[k]
        /\ t # << >> /\ t[1] # NAN
    <3>1. n \in Int /\ (Len(e) > 0 => e[1] > 9)
      BY <1>1, <2>4 DEF n
    <3> HIDE DEF i, d
    <3>2. IsNumberText((Sign(n) \o Decimal[x]) \o e, n, x, e)
      BY <2>2, <2>4, <3>1, NumberText
    <3>3. IsNumberText(t, n, x, e)
      BY <2>3, <3>2
    <3> QED  BY <2>4, <3>3 DEF IsNumberText, i, d
  <2>6. SignLen(t) \in {0, 1}
    BY <2>5
  <2> HIDE DEF d
  <2>7. /\ i + d <= Len(t) /\ i + d + 1 = Len(t) /\ i + d \in Nat \ {0}
        /\ t[i + d] = DOT /\ t[i + d + 1] = y
    <3>1. i + d = SignLen(t) + d + 1 /\ i + d + 1 = SignLen(t) + d + 2 /\ 1 \in 1..2 /\ 2 \in 1..2
      BY <2>5, <2>6
    <3>2. t[SignLen(t) + d + 1] = e[1] /\ t[SignLen(t) + d + 2] = e[2]
      BY <2>5, <3>1
    <3> QED  BY <2>4, <2>5, <2>6, <3>1, <3>2
  <2>8. ~Whole(t, strtoll(t))
    <3>1. strtoll(t).used = IF d = 0 THEN 0 ELSE SignLen(t) + d
      BY DEF strtoll, d
    <3> QED  BY <2>5, <2>6, <3>1 DEF Whole
  <2>9. Digits(t, i + d + 1) = 1
    <3> DEFINE j == i + d + 1
    <3>1. j \in Nat \ {0} /\ j = Len(t) /\ t[j] \in 0..9
      BY <2>2, <2>7
    <3> HIDE DEF j
    <3>2. /\ 1 \in Nat /\ j + 1 <= Len(t) + 1 /\ ~(j + 1 <= Len(t))
          /\ \A k \in j..(j + 1 - 1) : t[k] \in 0..9
      BY <3>1
    <3>3. Digits(t, j) = 1
      BY <1>2, <3>1, <3>2, DigitsAre
    <3> QED  BY <3>3 DEF j
  <2>10. DigitsValue(t, i + d + 1) = y
    <3> DEFINE j == i + d + 1
    <3>1. j \in Nat \ {0} /\ j <= Len(t) + 1 /\ Digits(t, j) = 1 /\ t[j] = y
      BY <2>2, <2>7, <2>9
    <3> HIDE DEF j
    <3> DEFINE l == Digits(t, j)
    <3> HIDE DEF t, l
    <3>0. \E z \in [0..l -> Nat] :
             DigitsValue(t, j) = z[l] /\ z[0] = 0 /\ \A k \in 1..l : z[k] = 10 * z[k - 1] + t[j + k - 1]
      <4>1. t \in Seq(Chars) /\ j \in Nat \ {0} /\ j <= Len(t) + 1 /\ l = Digits(t, j)
        BY <1>2, <3>1 DEF l
      <4> QED  BY <4>1, DigitsValueIs
    <3>2. PICK z \in [0..1 -> Nat] :
             DigitsValue(t, j) = z[1] /\ z[0] = 0 /\ \A k \in 1..1 : z[k] = 10 * z[k - 1] + t[j + k - 1]
      BY <3>0, <3>1 DEF l
    <3>3. 1 \in 1..1 /\ 1 - 1 = 0 /\ j + 1 - 1 = j
      BY <3>1
    <3>4. z[1] = 10 * z[0] + t[j]
      BY <3>2, <3>3
    <3> QED  BY <2>2, <3>1, <3>2, <3>4 DEF j
  <2>11. strtod(t).used = SignLen(t) + d + 1 + 1 /\ strtod(t).n = RoundedRatio(Signed(t, Unit * g), 10)
    <3> DEFINE point == i + d <= Len(t) /\ t[i + d] = DOT
               f == IF point THEN Digits(t, i + d + 1) ELSE 0
               fraction == IF point THEN DigitsValue(t, i + d + 1) ELSE 0
    <3>1. strtod(t) = [used |-> IF d + f = 0 THEN 0 ELSE SignLen(t) + d + (IF point THEN 1 ELSE 0) + f,
                       n |-> IF d + f = 0 THEN 0
                             ELSE RoundedRatio(Signed(t, Unit * (Pow10[f] * DigitsValue(t, i) + fraction)), Pow10[f])]
      BY <2>5 DEF strtod, d
    <3>2. point /\ f = 1 /\ fraction = y
      BY <2>7, <2>9, <2>10
    <3> HIDE DEF point, f, fraction
    <3>3. Pow10[f] * DigitsValue(t, i) + fraction = g /\ Pow10[f] = 10
      BY <2>2, <2>5, <3>2, PowersOfTen
    <3>4. d + f # 0
      BY <2>5, <3>2
    <3> QED  BY <2>5, <3>1, <3>2, <3>3, <3>4
  <2>12. Whole(t, strtod(t))
    BY <2>5, <2>6, <2>11 DEF Whole
  <2>13. str_to_nbr(AsText(v)) = Double(RoundedRatio(Signed(t, Unit * g), 10))
    BY <1>3, <2>8, <2>11, <2>12
  <2> DEFINE u == Unit * g
             m == Near(u, 10)
             z == RoundedRatio(Signed(t, u), 10)
  <2>14. u \in Nat /\ m \in Nat /\ Abs(10 * m - u) <= Abs(10 * a - u)
    <3>1. u \in Nat
      BY <2>0, WidthAssumption
    <3>2. a \in Nat /\ Near(a, 1) = a
      BY <1>1, <2>1, DoubleSize DEF n, a
    <3> HIDE DEF u
    <3> QED  BY <3>1, <3>2, NearTwice, NoDoubleNearer
  <2>15. z = IF n < 0 THEN -m ELSE m
    <3>1. u = 0 => m = 0
      <4> SUFFICES ASSUME u = 0  PROVE m = 0
        OBVIOUS
      <4>1. Near(0, 1) = 0
        BY DoubleSize, RoundedIs DEF Abs
      <4> HIDE DEF u
      <4>2. Abs(10 * m - 0) <= Abs(10 * 0 - 0)
        BY <4>1, NoDoubleNearer
      <4> QED  BY <2>14, <4>2 DEF Abs
    <3> HIDE DEF u
    <3>2. Signed(t, u) = IF n < 0 THEN -u ELSE u
      BY <2>5 DEF Signed
    <3>3. -u \in Int /\ u \in Int /\ Abs(u) = u /\ Abs(-u) = u
      BY <2>14 DEF Abs
    <3>4. RoundedRatio(u, 10) = m /\ RoundedRatio(-u, 10) = IF -u < 0 THEN -m ELSE m
      <4>1. RoundedRatio(u, 10) = IF u < 0 THEN -m ELSE m
        BY <3>3, RatioIs
      <4>2. RoundedRatio(-u, 10) = IF -u < 0 THEN -m ELSE m
        BY <3>3, RatioIs
      <4> QED  BY <2>14, <4>1, <4>2
    <3> HIDE DEF m
    <3> QED  BY <2>14, <3>1, <3>2, <3>4
  <2> HIDE DEF m, z
  <2>16. z - n \in Int /\ Abs(z - n) = Abs(m - a)
    <3>1. n \in Int /\ a \in Nat /\ m \in Nat /\ a = (IF n < 0 THEN -n ELSE n)
      BY <1>1, <1>4, <2>14 DEF n
    <3>2. CASE n < 0
      <4>1. z - n = -(m - a)
        BY <2>15, <3>1, <3>2
      <4> QED  BY <3>1, <4>1 DEF Abs
    <3>3. CASE ~(n < 0)
      <4>1. z - n = m - a
        BY <2>15, <3>1, <3>3
      <4> QED  BY <3>1, <4>1 DEF Abs
    <3> QED  BY <3>2, <3>3
  <2>17. 10 * Abs(m - a) <= Unit /\ (u = 10 * a => m = a)
    <3>0. 2 * Abs(u - 10 * a) <= Unit
      BY <2>0
    <3> HIDE DEF u
    <3>1. Abs(10 * a - u) = Abs(u - 10 * a)
      BY <1>4, <2>14 DEF Abs
    <3> QED  BY <1>4, <2>14, <3>0, <3>1, WidthAssumption DEF Abs
  <2>18. str_to_nbr(AsText(v)).type = v.type /\ str_to_nbr(AsText(v)).n = z
    BY <2>1, <2>13 DEF Double, z
  <2>19. Prints(v) => z = n
    <3>1. Prints(v) => m = a
      BY <2>0, <2>17
    <3> QED  BY <1>1, <1>4, <2>15, <3>1 DEF n
  <2> QED  BY <2>1, <2>13, <2>16, <2>17, <2>18, <2>19 DEF n, z
<1> QED  BY <1>5, <1>6, <1>7 DEF NumberValues

\* A number equals its text.
LEMMA EqualsItsText ==
  ASSUME NEW v \in NumberValues, Fits(v), Prints(v), v.n # NaN
  PROVE  op_eq(v, AsText(v)) = Int64(1)
<1>1. str_to_nbr(AsText(v)) = v
  BY ReadBack
<1>2. v.type \in {"INT", "FLOAT"} /\ str_to_nbr(v) = v
  BY Kinds DEF NumberValues, str_to_nbr
<1>3. op_eq(v, AsText(v)) = Truth(IF BothInt(v, v) THEN v.n = v.n ELSE Same(to_float(v), to_float(v)))
  BY <1>1, <1>2 DEF op_eq
<1>4. ~BothInt(v, v) => to_float(v) = v.n
  BY <1>2 DEF BothInt, to_float
<1>5. IF BothInt(v, v) THEN v.n = v.n ELSE Same(to_float(v), to_float(v))
  BY <1>4 DEF Same
<1> QED  BY <1>3, <1>5 DEF Truth

\* An exact number is compared by its double, as text too.
LEMMA ExactDouble ==
  ASSUME NEW v \in Values, Exact(v)
  PROVE  /\ to_float(v) \in Int /\ to_float(v) # NaN
         /\ to_float(str_to_nbr(v)) = to_float(v)
         /\ str_to_nbr(v).type = "INT" => str_to_nbr(v).n \in Int /\ to_float(v) = Unit * str_to_nbr(v).n
<1>1. to_float(v) \in Int /\ to_float(v) # NaN /\ Rounded(to_float(v)) = to_float(v)
  BY Conversions DEF Exact, Representable
<1>2. str_to_nbr(v).type = "INT" => str_to_nbr(v).n \in Int /\ to_float(v) = Unit * str_to_nbr(v).n
  BY Conversions, Kinds, Bounds DEF Exact, NumberValues
<1>3. CASE v.type # "STR"
  BY <1>1, <1>2, <1>3 DEF str_to_nbr
<1>4. CASE v.type = "STR"
  <2> DEFINE x == str_to_nbr(v)
  <2>1. CASE x.type = "INT"
    <3>1. to_float(x) = Rounded(Unit * x.n)
      BY <2>1 DEF to_float
    <3> QED  BY <1>1, <1>2, <2>1, <3>1
  <2>2. CASE x.type # "INT"
    <3>1. x = Double(strtod(CStr(v.text)).n)
      BY <1>4, <2>2 DEF str_to_nbr, Int64, Exact
    <3>2. to_float(v) = strtod(CStr(v.text)).n
      BY <1>4 DEF to_float
    <3>3. to_float(x) = strtod(CStr(v.text)).n
      BY <3>1 DEF to_float, Double
    <3> QED  BY <1>1, <1>2, <3>2, <3>3
  <2> QED  BY <2>1, <2>2
<1> QED  BY <1>3, <1>4

\* The order of the operands does not matter, and != is the opposite of =.
LEMMA ComparisonsOfTwo ==
  ASSUME NEW a \in Values, NEW b \in Values
  PROVE  /\ op_neq(a, b).n = 1 - op_eq(a, b).n
         /\ op_eq(b, a) = op_eq(a, b) /\ op_gt(b, a) = op_lt(a, b)
<1>1. op_neq(a, b).n = 1 - op_eq(a, b).n
  <2>1. op_eq(a, b).n \in {0, 1}
    BY TruthIs DEF op_eq
  <2>2. op_neq(a, b).n = IF op_eq(a, b).n = 0 THEN 1 ELSE 0
    BY TruthIs DEF op_neq
  <2> QED  BY <2>1, <2>2
<1>2. op_eq(b, a) = op_eq(a, b)
  <2>1. CASE a.type = "STR" /\ b.type = "STR"
    <3>1. (a.len = b.len /\ CStr(a.text) = CStr(b.text)) = (b.len = a.len /\ CStr(b.text) = CStr(a.text))
      OBVIOUS
    <3> QED  BY <2>1, <3>1 DEF op_eq
  <2>2. CASE ~(a.type = "STR" /\ b.type = "STR")
    <3> DEFINE x == str_to_nbr(a)
               y == str_to_nbr(b)
    <3>1. BothInt(x, y) = BothInt(y, x)
      BY DEF BothInt
    <3>2. Same(to_float(x), to_float(y)) = Same(to_float(y), to_float(x))
      BY DEF Same
    <3>3. /\ op_eq(a, b) = Truth(IF BothInt(x, y) THEN x.n = y.n ELSE Same(to_float(x), to_float(y)))
          /\ op_eq(b, a) = Truth(IF BothInt(y, x) THEN y.n = x.n ELSE Same(to_float(y), to_float(x)))
      BY <2>2 DEF op_eq
    <3> HIDE DEF x, y
    <3>4. (IF BothInt(x, y) THEN x.n = y.n ELSE Same(to_float(x), to_float(y)))
          = (IF BothInt(y, x) THEN y.n = x.n ELSE Same(to_float(y), to_float(x)))
      BY <3>1, <3>2
    <3> QED  BY <3>3, <3>4
  <2> QED  BY <2>1, <2>2
<1>3. op_gt(b, a) = op_lt(a, b)
  <2>1. BothInt(a, b) = BothInt(b, a)
    BY DEF BothInt
  <2>2. CASE BothInt(a, b)
    <3>1. (a.n < b.n) = (b.n > a.n)
      BY <2>2, Kinds, Bounds DEF BothInt, Values, NumberValues
    <3> QED  BY <2>1, <2>2, <3>1 DEF op_gt, op_lt
  <2>3. CASE ~BothInt(a, b)
    BY <2>1, <2>3 DEF op_gt, op_lt
  <2> QED  BY <2>2, <2>3
<1> QED  BY <1>1, <1>2, <1>3

\* One of two integers, or of two exact numbers, is the less or they are equal.
LEMMA OneOfThree ==
  ASSUME NEW a \in Values, NEW b \in Values,
         BothInt(a, b) \/ (Exact(a) /\ Exact(b) /\ "STR" \notin {a.type} \cap {b.type})
  PROVE  /\ op_lt(a, b).n + op_eq(a, b).n + op_gt(a, b).n = 1
         /\ op_lte(a, b).n = 1 - op_gt(a, b).n
         /\ op_gte(a, b).n = 1 - op_lt(a, b).n
<1>1. \E g, h \in Int :
         /\ op_lt(a, b) = Truth(g < h) /\ op_gt(a, b) = Truth(h < g) /\ op_eq(a, b) = Truth(g = h)
         /\ op_lte(a, b) = Truth(g <= h) /\ op_gte(a, b) = Truth(h <= g)
  <2>1. CASE BothInt(a, b)
    <3>1. a.type = "INT" /\ b.type = "INT" /\ a.n \in Int /\ b.n \in Int
      BY <2>1, Kinds, Bounds DEF BothInt, Values, NumberValues
    <3>2. str_to_nbr(a) = a /\ str_to_nbr(b) = b
      BY <3>1 DEF str_to_nbr
    <3>3. op_lt(a, b) = Truth(a.n < b.n) /\ op_eq(a, b) = Truth(a.n = b.n)
      BY <2>1, <3>1, <3>2 DEF op_lt, op_eq
    <3>4. op_gt(a, b) = Truth(b.n < a.n)
      <4>1. (a.n > b.n) = (b.n < a.n)
        BY <3>1
      <4> QED  BY <2>1, <4>1 DEF op_gt
    <3>5. op_lte(a, b) = Truth(a.n <= b.n)
      BY <2>1 DEF op_lte
    <3>6. op_gte(a, b) = Truth(b.n <= a.n)
      <4>1. (a.n >= b.n) = (b.n <= a.n)
        BY <3>1
      <4> QED  BY <2>1, <4>1 DEF op_gte
    <3> QED  BY <3>1, <3>3, <3>4, <3>5, <3>6
  <2>2. CASE ~BothInt(a, b)
    <3> DEFINE g == to_float(a)
               h == to_float(b)
               x == str_to_nbr(a)
               y == str_to_nbr(b)
    <3>1. ~(a.type = "STR" /\ b.type = "STR")
      BY <2>2
    <3>2. /\ g \in Int /\ g # NaN /\ to_float(x) = g /\ (x.type = "INT" => x.n \in Int /\ g = Unit * x.n)
          /\ h \in Int /\ h # NaN /\ to_float(y) = h /\ (y.type = "INT" => y.n \in Int /\ h = Unit * y.n)
      BY <2>2, ExactDouble
    <3>3. op_eq(a, b) = Truth(IF BothInt(x, y) THEN x.n = y.n ELSE Same(to_float(x), to_float(y)))
      BY <3>1 DEF op_eq
    <3>4. /\ op_lt(a, b) = Truth(Less(g, h)) /\ op_gt(a, b) = Truth(Less(h, g))
          /\ op_lte(a, b) = Truth(Less(g, h) \/ Same(g, h))
          /\ op_gte(a, b) = Truth(Less(h, g) \/ Same(g, h))
      BY <2>2 DEF op_lt, op_gt, op_lte, op_gte
    <3> HIDE DEF g, h, x, y
    <3>5. Less(g, h) = (g < h) /\ Less(h, g) = (h < g) /\ Same(g, h) = (g = h)
      BY <3>2 DEF Less, Same
    <3>6. (IF BothInt(x, y) THEN x.n = y.n ELSE Same(to_float(x), to_float(y))) = (g = h)
      <4>1. \A i, j \in Int : Unit * i = Unit * j <=> i = j
        BY WidthAssumption
      <4>2. CASE BothInt(x, y)
        BY <3>2, <4>1, <4>2 DEF BothInt
      <4>3. CASE ~BothInt(x, y)
        BY <3>2, <4>3 DEF Same
      <4> QED  BY <4>2, <4>3
    <3>7. (Less(g, h) \/ Same(g, h)) = (g <= h) /\ (Less(h, g) \/ Same(g, h)) = (h <= g)
      <4>1. (g < h \/ g = h) = (g <= h) /\ (h < g \/ g = h) = (h <= g)
        BY <3>2
      <4> QED  BY <3>5, <4>1, Zenon
    <3> QED  BY <3>2, <3>3, <3>4, <3>5, <3>6, <3>7
  <2> QED  BY <2>1, <2>2
<1>2. PICK g \in Int, h \in Int :
         /\ op_lt(a, b) = Truth(g < h) /\ op_gt(a, b) = Truth(h < g) /\ op_eq(a, b) = Truth(g = h)
         /\ op_lte(a, b) = Truth(g <= h) /\ op_gte(a, b) = Truth(h <= g)
  BY <1>1
<1>3. /\ op_lt(a, b).n = (IF g < h THEN 1 ELSE 0) /\ op_gt(a, b).n = (IF h < g THEN 1 ELSE 0)
      /\ op_eq(a, b).n = (IF g = h THEN 1 ELSE 0)
      /\ op_lte(a, b).n = (IF g <= h THEN 1 ELSE 0) /\ op_gte(a, b).n = (IF h <= g THEN 1 ELSE 0)
  BY <1>2, TruthIs
<1> QED  BY <1>3

------------------------------------------------------------------------------
(* Strings pushed                                                          *)

\* What an escape stands for is a character.
LEMMA EscapedType == \A c : Escaped(c) \in Chars
BY DEF Escaped, Chars, BACKSLASH, LETTER_N, NEWLINE, LETTER_T, TAB, NUL

\* Replacing an escape gives a text.
LEMMA ReplacedType ==
  ASSUME NEW s \in Seq(Chars), NEW i \in Nat \ {0}
  PROVE  Replaced(s, i) \in Seq(Chars)
<1>1. CASE ~IsEscape(s, i)
  BY <1>1 DEF Replaced
<1>2. CASE IsEscape(s, i)
  <2> DEFINE n == Len(s)
             a == SubSeq(s, 1, i - 1)
             e == <<Escaped(s[i + 1])>>
             b == SubSeq(s, i + 2, n)
  <2>1. n \in Nat /\ i < n
    BY <1>2 DEF IsEscape
  <2>2. a \in Seq(Chars) /\ b \in Seq(Chars)
    <3>1. /\ \A k \in 1..(i - 1) : s[k] \in Chars
          /\ \A k \in (i + 2)..n : s[k] \in Chars
          /\ i - 1 \in Int /\ i + 2 \in Int /\ n \in Int /\ 1 \in Int
      <4> HIDE DEF Chars
      <4> QED  BY <2>1
    <3> QED  BY <3>1, SubSeqProperties
  <2>3. e \in Seq(Chars)
    BY EscapedType
  <2> HIDE DEF a, e, b, Chars
  <2>4. (a \o e) \o b \in Seq(Chars)
    BY <2>2, <2>3, ConcatProperties
  <2> QED  BY <1>2, <2>4 DEF Replaced, Moved, a, e, b, n
<1> QED  BY <1>1, <1>2

\* The string after each step of the loop.
LEMMA UnescapeSteps ==
  ASSUME NEW t \in Seq(Chars)
  PROVE  \E s \in [0..Len(t) -> Seq(Chars)] :
            /\ Unescape(t) = s[Len(t)] /\ s[0] = t
            /\ \A k \in 1..Len(t) : s[k] = Replaced(s[k - 1], k)
<1> DEFINE n == Len(t)
           D == 0..n
           S == Seq(Chars)
           m == [k \in D |-> k]
           z == [k \in {0} |-> t]
           r == [k \in D \ {0} |-> k - 1]
           h == [k \in D \ {0} |-> [y \in S |-> Replaced(y, k)]]
           E(s) == s = [i \in D |-> IF i = 0 THEN t ELSE Replaced(s[i - 1], i)]
<1>1. n \in Nat
  OBVIOUS
<1> HIDE DEF n
<1>2. ASSUME NEW k \in D \ {0}
      PROVE  k \in 1..n /\ k \in Nat \ {0} /\ k - 1 \in D /\ k - 1 < k
  BY <1>1
<1>3. Descends(D, S, m, {0}, z, r, h)
  <2>1. m \in [D -> Nat] /\ {0} \subseteq D /\ z \in [{0} -> S]
    BY <1>1
  <2>2. r \in [D \ {0} -> D] /\ \A k \in D \ {0} : m[r[k]] < m[k]
    BY <1>2
  <2>3. h \in [D \ {0} -> [S -> S]]
    <3>1. \A k \in D \ {0}, y \in S : Replaced(y, k) \in S
      BY <1>2, ReplacedType
    <3> HIDE DEF D, S
    <3> QED  BY <3>1
  <2> HIDE DEF D, S, m, z, r, h
  <2> QED  BY <2>1, <2>2, <2>3 DEF Descends
<1>4. PICK f : f \in [D -> S] /\ Recurs(f, D, {0}, z, r, h)
  <2> HIDE DEF D, S, m, z, r, h
  <2> QED  BY <1>3, Recursion
<1>5. E(f)
  <2>1. ASSUME NEW k \in D  PROVE f[k] = IF k = 0 THEN t ELSE Replaced(f[k - 1], k)
    <3>1. f[k] = IF k \in {0} THEN z[k] ELSE h[k][f[r[k]]]
      BY <1>4 DEF Recurs
    <3>2. k # 0 => r[k] = k - 1 /\ k - 1 \in D /\ f[k - 1] \in S
      BY <1>4, <1>2
    <3> HIDE DEF D, S
    <3> QED  BY <3>1, <3>2
  <2> HIDE DEF D, S, z, r, h
  <2> QED  BY <1>4, <2>1
<1> DEFINE s == CHOOSE s : E(s)
<1>6. E(s) /\ Unescape(t) = s[n]
  BY <1>5 DEF Unescape, n
<1> HIDE DEF s
<1>7. s \in [D -> S]
  <2>1. s \in [D -> S] <=> \A k \in D : s[k] \in S
    <3> HIDE DEF D, S
    <3> QED  BY <1>6
  <2>2. \A k \in {0} : s[k] = z[k]
    BY <1>1, <1>6
  <2>3. \A k \in D \ {0} : s[r[k]] \in S => s[k] = h[k][s[r[k]]]
    <3> SUFFICES ASSUME NEW k \in D \ {0}, s[r[k]] \in S  PROVE s[k] = h[k][s[r[k]]]
      OBVIOUS
    <3>1. r[k] = k - 1 /\ k # 0
      OBVIOUS
    <3>2. s[k] = Replaced(s[k - 1], k)
      BY <1>6, <3>1
    <3> HIDE DEF D, S
    <3> QED  BY <3>1, <3>2
  <2> HIDE DEF D, S, m, z, r, h
  <2> QED  BY <1>3, <2>1, <2>2, <2>3, RecursionType
<1>8. s[0] = t /\ \A k \in 1..n : s[k] = Replaced(s[k - 1], k)
  BY <1>1, <1>6
<1> QED  BY <1>6, <1>7, <1>8 DEF n

\* What is read from each position on.
LEMMA ReadingSteps ==
  ASSUME NEW t \in Seq(Chars)
  PROVE  \E r \in [1..(Len(t) + 1) -> Seq(Chars)] :
            /\ Reading(t) = r[1] /\ r[Len(t) + 1] = << >>
            /\ \A i \in 1..Len(t) :
                  r[i] = IF IsEscape(t, i) THEN <<Escaped(t[i + 1])>> \o r[i + 2] ELSE <<t[i]>> \o r[i + 1]
<1> DEFINE n == Len(t)
           D == 1..(n + 1)
           B == {n + 1}
           S == Seq(Chars)
           m == [i \in D |-> n + 1 - i]
           z == [i \in B |-> << >>]
           after == [i \in D \ B |-> IF IsEscape(t, i) THEN i + 2 ELSE i + 1]
           h == [i \in D \ B |-> [y \in S |-> IF IsEscape(t, i) THEN <<Escaped(t[i + 1])>> \o y ELSE <<t[i]>> \o y]]
           V(r, i) == IF IsEscape(t, i) THEN <<Escaped(t[i + 1])>> \o r[i + 2] ELSE <<t[i]>> \o r[i + 1]
           E(r) == r = [i \in D |->
                          IF i > n THEN << >>
                          ELSE IF IsEscape(t, i) THEN <<Escaped(t[i + 1])>> \o r[i + 2]
                          ELSE <<t[i]>> \o r[i + 1]]
<1>1. n \in Nat /\ (\A i \in 1..n : t[i] \in Chars) /\ (\A i \in D : IsEscape(t, i) => i + 1 <= n)
  <2>1. n \in Nat /\ (\A i \in 1..n : t[i] \in Chars)
    OBVIOUS
  <2> QED  BY <2>1 DEF IsEscape
<1> HIDE DEF n
<1>2. ASSUME NEW i \in D \ B
      PROVE  /\ i \in 1..n /\ i + 1 \in D /\ ~(i > n) /\ i # n + 1
             /\ IsEscape(t, i) => i + 2 \in D
             /\ <<t[i]>> \in S /\ <<Escaped(t[i + 1])>> \in S
  <2>1. i \in 1..n /\ i + 1 \in D /\ ~(i > n) /\ i # n + 1 /\ (IsEscape(t, i) => i + 2 \in D)
    BY <1>1
  <2>2. t[i] \in Chars /\ Escaped(t[i + 1]) \in Chars
    BY <1>1, <2>1, EscapedType
  <2> HIDE DEF D, B
  <2> QED  BY <2>1, <2>2
<1>3. Descends(D, S, m, B, z, after, h)
  <2>1. m \in [D -> Nat] /\ B \subseteq D /\ z \in [B -> S]
    BY <1>1
  <2>2. after \in [D \ B -> D] /\ \A i \in D \ B : m[after[i]] < m[i]
    <3>1. \A i \in D \ B : after[i] \in D /\ after[i] > i
      BY <1>2
    <3>2. after \in [D \ B -> D]
      <4> HIDE DEF D, B
      <4> QED  BY <3>1
    <3>3. ASSUME NEW i \in D \ B  PROVE m[after[i]] < m[i]
      <4>1. after[i] \in D /\ after[i] > i
        BY <3>1
      <4> HIDE DEF after
      <4> QED  BY <1>1, <4>1
    <3> HIDE DEF D, B, m, after
    <3> QED  BY <3>2, <3>3
  <2>3. h \in [D \ B -> [S -> S]]
    <3>1. \A i \in D \ B, y \in S : <<Escaped(t[i + 1])>> \o y \in S /\ <<t[i]>> \o y \in S
      BY <1>2, ConcatProperties
    <3> HIDE DEF D, B, S
    <3> QED  BY <3>1
  <2> HIDE DEF D, B, S, m, z, after, h
  <2> QED  BY <2>1, <2>2, <2>3 DEF Descends
<1>4. PICK f : f \in [D -> S] /\ Recurs(f, D, B, z, after, h)
  <2> HIDE DEF D, B, S, m, z, after, h
  <2> QED  BY <1>3, Recursion
<1>5. E(f)
  <2>1. ASSUME NEW i \in D  PROVE f[i] = IF i > n THEN << >> ELSE V(f, i)
    <3>1. f[i] = IF i \in B THEN z[i] ELSE h[i][f[after[i]]]
      BY <1>4 DEF Recurs
    <3>2. CASE i \in B
      BY <1>1, <3>1, <3>2
    <3>3. CASE i \notin B
      <4>1. ~(i > n) /\ after[i] = (IF IsEscape(t, i) THEN i + 2 ELSE i + 1) /\ after[i] \in D
        BY <1>2, <3>3
      <4>2. f[after[i]] \in S
        BY <1>4, <4>1
      <4>3. h[i][f[after[i]]] = IF IsEscape(t, i) THEN <<Escaped(t[i + 1])>> \o f[after[i]] ELSE <<t[i]>> \o f[after[i]]
        <5> HIDE DEF D, B, S, after
        <5> QED  BY <3>3, <4>2
      <4> HIDE DEF D, B, S, after, h
      <4> QED  BY <3>1, <3>3, <4>1, <4>3
    <3> QED  BY <3>2, <3>3
  <2> HIDE DEF D, S, B, z, after, h
  <2> QED  BY <1>4, <2>1
<1> DEFINE r == CHOOSE r : E(r)
<1>6. E(r) /\ Reading(t) = r[1]
  BY <1>5 DEF Reading, n
<1> HIDE DEF r
<1>7. \A i \in D : r[i] = IF i > n THEN << >> ELSE V(r, i)
  BY <1>6
<1>8. r \in [D -> S]
  <2>1. r \in [D -> S] <=> \A i \in D : r[i] \in S
    <3> HIDE DEF D, S
    <3> QED  BY <1>6
  <2>2. \A i \in B : r[i] = z[i]
    <3>1. \A i \in B : i \in D /\ i > n
      BY <1>1
    <3> HIDE DEF D, V
    <3> QED  BY <1>7, <3>1
  <2>3. \A i \in D \ B : r[after[i]] \in S => r[i] = h[i][r[after[i]]]
    <3> SUFFICES ASSUME NEW i \in D \ B, r[after[i]] \in S  PROVE r[i] = h[i][r[after[i]]]
      OBVIOUS
    <3>1. after[i] = IF IsEscape(t, i) THEN i + 2 ELSE i + 1
      OBVIOUS
    <3>2. r[i] = V(r, i)
      BY <1>2, <1>7
    <3>3. h[i][r[after[i]]] = IF IsEscape(t, i) THEN <<Escaped(t[i + 1])>> \o r[after[i]] ELSE <<t[i]>> \o r[after[i]]
      <4> HIDE DEF D, B, S, after
      <4> QED  OBVIOUS
    <3> HIDE DEF D, B, S, after, h
    <3> QED  BY <3>1, <3>2, <3>3
  <2> HIDE DEF D, S, B, m, z, after, h
  <2> QED  BY <1>3, <2>1, <2>2, <2>3, RecursionType
<1>9. r[n + 1] = << >> /\ \A i \in 1..n : r[i] = V(r, i)
  <2>1. n + 1 \in D /\ n + 1 > n /\ \A i \in 1..n : i \in D /\ ~(i > n)
    BY <1>1
  <2> HIDE DEF D, V
  <2> QED  BY <1>7, <2>1
<1> QED  BY <1>6, <1>8, <1>9 DEF n

\* Joining texts is associative.
LEMMA JoinedThree ==
  \A p, c, x \in Seq(Chars) : (p \o c) \o x = p \o (c \o x)
<1> HIDE DEF Chars
<1> QED  BY ConcatAssociative

\* What the loop has put into place and what it has still to look at.
LEMMA UnescapeIsReading ==
  ASSUME NEW t \in Seq(Chars)
  PROVE  Unescape(t) = Reading(t) /\ Unescape(t) \in Seq(Chars)
<1> DEFINE n == Len(t)
           S == Seq(Chars)
           Rest(j) == SubSeq(t, j, n)
<1>1. n \in Nat /\ \A i \in 1..n : t[i] \in Chars
  OBVIOUS
<1>2. PICK s \in [0..n -> S] : Unescape(t) = s[n] /\ s[0] = t /\ \A k \in 1..n : s[k] = Replaced(s[k - 1], k)
  BY UnescapeSteps
<1>3. PICK r \in [1..(n + 1) -> S] :
         /\ Reading(t) = r[1] /\ r[n + 1] = << >>
         /\ \A i \in 1..n : r[i] = IF IsEscape(t, i) THEN <<Escaped(t[i + 1])>> \o r[i + 2] ELSE <<t[i]>> \o r[i + 1]
  BY ReadingSteps
<1> DEFINE Done(k, p, j) == /\ s[k] = p \o Rest(j) /\ p \o r[j] = r[1]
                            /\ Len(p) = k \/ j = n + 1
                            /\ Len(p) <= k /\ Len(p) <= j - 1
           C(k) == \E p \in S, j \in 1..(n + 1) : Done(k, p, j)
<1> HIDE DEF n, Rest
<1>4. C(0)
  <2>1. << >> \in S /\ Len(<< >>) = 0 /\ 1 \in 1..(n + 1)
    BY <1>1, EmptySeq
  <2>2. Rest(1) = t /\ << >> \o t = t
    BY SubSeqFull, ConcatEmptySeq DEF Rest, n
  <2>3. r[1] \in S /\ << >> \o r[1] = r[1]
    BY <1>3, <2>1, ConcatEmptySeq
  <2> HIDE DEF S
  <2>4. Done(0, << >>, 1)
    BY <1>2, <2>1, <2>2, <2>3
  <2> QED  BY <2>1, <2>4
<1>5. ASSUME NEW k \in 0..(n - 1), C(k)  PROVE C(k + 1)
  <2>1. PICK p \in S, j \in 1..(n + 1) : Done(k, p, j)
    BY <1>5
  <2>2. s[k + 1] = Replaced(s[k], k + 1) /\ s[k] = p \o Rest(j) /\ Len(p) \in Nat
    <3>1. k + 1 \in 1..n /\ (k + 1) - 1 = k
      BY <1>1
    <3> QED  BY <1>2, <2>1, <3>1, LenProperties
  <2>3. CASE j = n + 1
    <3>1. Rest(j) = << >> /\ s[k] = p
      <4>1. Rest(j) = << >>
        BY <1>1, <2>3, SubSeqEmpty DEF Rest
      <4> QED  BY <2>2, <4>1, ConcatEmptySeq
    <3>2. ~IsEscape(s[k], k + 1)
      BY <2>1, <2>2, <3>1 DEF IsEscape
    <3>3. s[k + 1] = s[k]
      BY <2>2, <3>2 DEF Replaced
    <3>4. Len(p) <= k + 1
      BY <2>1, <2>2
    <3>5. Done(k + 1, p, j)
      BY <2>1, <2>3, <3>3, <3>4
    <3> QED  BY <2>1, <3>5
  <2>4. CASE j # n + 1
    <3> DEFINE u == Rest(j)
               x == s[k]
    <3>1. Len(p) = k /\ j \in 1..n /\ k + 1 <= j
      BY <1>1, <2>1, <2>4
    <3>2. /\ u \in S /\ Len(u) = n - j + 1
          /\ \A i \in 1..Len(u) : u[i] = t[j + i - 1]
          /\ SubSeq(u, 2, Len(u)) = Rest(j + 1)
          /\ SubSeq(u, 3, Len(u)) = Rest(j + 2)
      <4>1. j \in 1..(Len(t) + 1) /\ j + 2 - 1 = j + 1 /\ j + 3 - 1 = j + 2 /\ Len(t) = n
        BY <1>1 DEF n
      <4>2. u = SubSeq(t, j, n) /\ Rest(j + 1) = SubSeq(t, j + 1, n) /\ Rest(j + 2) = SubSeq(t, j + 2, n)
        BY DEF Rest
      <4> HIDE DEF u
      <4>3. ASSUME NEW m \in Nat \ {0}
            PROVE  /\ u \in Seq(Chars) /\ Len(u) = n - j + 1
                   /\ \A i \in 1..Len(u) : u[i] = t[j + i - 1]
                   /\ SubSeq(u, m, Len(u)) = SubSeq(t, j + m - 1, n)
        <5>1. LET v == SubSeq(t, j, Len(t))
              IN  /\ v \in Seq(Chars) /\ Len(v) = Len(t) - j + 1
                  /\ \A i \in 1..Len(v) : v[i] = t[j + i - 1]
                  /\ SubSeq(v, m, Len(v)) = SubSeq(t, j + m - 1, Len(t))
          BY <4>1, BackOfBack
        <5> QED  BY <4>1, <4>2, <5>1
      <4>4. 2 \in Nat \ {0} /\ 3 \in Nat \ {0}
        OBVIOUS
      <4>5. SubSeq(u, 2, Len(u)) = Rest(j + 1) /\ SubSeq(u, 3, Len(u)) = Rest(j + 2)
        BY <4>1, <4>2, <4>3, <4>4
      <4> QED  BY <4>3, <4>4, <4>5
    <3> HIDE DEF u
    <3>3. /\ x = p \o u /\ x \in S /\ Len(x) = k + Len(u)
          /\ \A i \in 1..Len(u) : x[k + i] = u[i]
      <4>1. x = p \o u
        BY <2>2 DEF u
      <4>2. /\ p \o u \in S /\ Len(p \o u) = Len(p) + Len(u)
            /\ \A i \in 1..(Len(p) + Len(u)) : (p \o u)[i] = IF i <= Len(p) THEN p[i] ELSE u[i - Len(p)]
        BY <3>2, ConcatProperties
      <4>3. \A i \in 1..Len(u) : k + i \in 1..(Len(p) + Len(u)) /\ ~(k + i <= Len(p)) /\ (k + i) - Len(p) = i
        BY <3>1, <3>2, <1>1
      <4> HIDE DEF x
      <4> QED  BY <3>1, <4>1, <4>2, <4>3
    <3>4. /\ SubSeq(x, 1, k) = p
          /\ SubSeq(x, k + 3, Len(x)) = Rest(j + 2)
      <4>1. /\ SubSeq(p \o u, 1, Len(p)) = p
            /\ SubSeq(p \o u, Len(p) + 3, Len(p \o u)) = SubSeq(u, 3, Len(u))
        <5>1. p \in Seq(Chars) /\ u \in Seq(Chars)
          BY <2>1, <3>2
        <5>2. 3 \in Nat \ {0}
          OBVIOUS
        <5> QED  BY <5>1, <5>2, JoinedParts
      <4> HIDE DEF x
      <4>2. x = p \o u /\ Len(p) = k
        BY <3>1, <3>3
      <4>3. SubSeq(x, 1, k) = p /\ SubSeq(x, k + 3, Len(x)) = SubSeq(u, 3, Len(u))
        BY <4>1, <4>2, Zenon
      <4> QED  BY <3>2, <4>3
    <3> HIDE DEF x
    <3>5. IsEscape(x, k + 1) <=> IsEscape(t, j)
      <4>1. k + 1 < Len(x) <=> j < Len(t)
        BY <1>1, <3>1, <3>2, <3>3 DEF n
      <4>2. x[k + 1] = t[j]
        <5>1. 1 \in 1..Len(u) /\ j + 1 - 1 = j
          BY <1>1, <3>1, <3>2
        <5>2. x[k + 1] = u[1] /\ u[1] = t[j + 1 - 1]
          BY <3>2, <3>3, <5>1
        <5> QED  BY <5>1, <5>2
      <4>3. j < Len(t) => x[(k + 1) + 1] = t[j + 1]
        <5> SUFFICES ASSUME j < Len(t)  PROVE x[(k + 1) + 1] = t[j + 1]
          OBVIOUS
        <5>1. 2 \in 1..Len(u) /\ (k + 1) + 1 = k + 2 /\ j + 2 - 1 = j + 1
          BY <1>1, <3>1, <3>2 DEF n
        <5>2. x[k + 2] = u[2] /\ u[2] = t[j + 2 - 1]
          BY <3>2, <3>3, <5>1
        <5> QED  BY <5>1, <5>2
      <4> QED  BY <4>1, <4>2, <4>3 DEF IsEscape
    <3>6. CASE IsEscape(t, j)
      <4> DEFINE c == <<Escaped(t[j + 1])>>
      <4>1. c \in S /\ Len(c) = 1 /\ j + 2 \in 1..(n + 1)
        <5>1. j < n
          BY <3>6 DEF IsEscape, n
        <5> QED  BY <1>1, <5>1, EscapedType
      <4>2. x[(k + 1) + 1] = t[j + 1]
        <5>1. j < n
          BY <3>6 DEF IsEscape, n
        <5>2. 2 \in 1..Len(u) /\ (k + 1) + 1 = k + 2 /\ j + 2 - 1 = j + 1
          BY <1>1, <3>1, <3>2, <5>1
        <5>3. x[k + 2] = u[2] /\ u[2] = t[j + 2 - 1]
          BY <3>2, <3>3, <5>2
        <5> QED  BY <5>2, <5>3
      <4>3. s[k + 1] = (p \o c) \o Rest(j + 2)
        <5>1. s[k + 1] = Moved(x, k + 1)
          BY <2>2, <3>5, <3>6 DEF Replaced, x
        <5>2. (k + 1) - 1 = k /\ (k + 1) + 2 = k + 3
          BY <1>1
        <5>3. Moved(x, k + 1) = SubSeq(x, 1, k) \o c \o SubSeq(x, k + 3, Len(x))
          BY <4>2, <5>2 DEF Moved
        <5> QED  BY <3>4, <5>1, <5>3
      <4>4. r[j] = c \o r[j + 2] /\ r[j + 2] \in S
        BY <1>3, <3>1, <3>6, <4>1
      <4> HIDE DEF c
      <4>5. (p \o c) \o r[j + 2] = r[1]
        <5>1. (p \o c) \o r[j + 2] = p \o (c \o r[j + 2])
          <6>1. p \in Seq(Chars) /\ c \in Seq(Chars) /\ r[j + 2] \in Seq(Chars)
            BY <2>1, <4>1, <4>4
          <6> QED  BY <6>1, JoinedThree
        <5> QED  BY <2>1, <4>4, <5>1, Zenon
      <4>6. p \o c \in S /\ Len(p \o c) = k + 1
        <5>1. p \o c \in S /\ Len(p \o c) = Len(p) + Len(c)
          BY <4>1, ConcatProperties
        <5> QED  BY <3>1, <4>1, <5>1
      <4>7. Done(k + 1, p \o c, j + 2)
        BY <1>1, <3>1, <4>3, <4>5, <4>6
      <4> QED  BY <4>1, <4>6, <4>7
    <3>7. CASE ~IsEscape(t, j)
      <4> DEFINE c == <<t[j]>>
      <4>1. c \in S /\ Len(c) = 1 /\ j + 1 \in 1..(n + 1)
        BY <1>1, <3>1
      <4>2. s[k + 1] = x
        BY <2>2, <3>5, <3>7 DEF Replaced, x
      <4>3. u = c \o Rest(j + 1)
        <5>1. j \in 1..Len(t) /\ Len(t) \in j..Len(t)
          BY <1>1, <3>1 DEF n
        <5> QED  BY <5>1, SubSeqRecursiveFirst DEF u, Rest, n
      <4>4. Rest(j + 1) \in S
        <5>1. j + 1 \in 1..(Len(t) + 1)
          BY <1>1, <3>1 DEF n
        <5> QED  BY <5>1, BackOfBack DEF Rest, n
      <4>5. r[j] = c \o r[j + 1] /\ r[j + 1] \in S
        BY <1>3, <3>1, <3>7, <4>1
      <4> HIDE DEF c
      <4>6. (p \o c) \o r[j + 1] = r[1] /\ s[k + 1] = (p \o c) \o Rest(j + 1)
        <5>1. /\ (p \o c) \o r[j + 1] = p \o (c \o r[j + 1])
              /\ (p \o c) \o Rest(j + 1) = p \o (c \o Rest(j + 1))
          <6>1. /\ p \in Seq(Chars) /\ c \in Seq(Chars)
                /\ r[j + 1] \in Seq(Chars) /\ Rest(j + 1) \in Seq(Chars)
            BY <2>1, <4>1, <4>4, <4>5
          <6> QED  BY <6>1, JoinedThree
        <5>2. (p \o c) \o r[j + 1] = r[1]
          BY <2>1, <4>5, <5>1, Zenon
        <5> QED  BY <3>3, <4>2, <4>3, <5>1, <5>2, Zenon
      <4>7. p \o c \in S /\ Len(p \o c) = k + 1
        <5>1. p \o c \in S /\ Len(p \o c) = Len(p) + Len(c)
          BY <4>1, ConcatProperties
        <5> QED  BY <3>1, <4>1, <5>1
      <4>8. Done(k + 1, p \o c, j + 1)
        BY <1>1, <3>1, <4>6, <4>7
      <4> QED  BY <4>1, <4>7, <4>8
    <3> QED  BY <3>6, <3>7
  <2> QED  BY <2>3, <2>4
<1>6. C(n)
  <2> DEFINE A == {k \in 0..n : ~C(k)}
  <2>1. CASE A = {}
    <3>1. n \in 0..n
      BY <1>1
    <3> QED  BY <2>1, <3>1
  <2>2. CASE A # {}
    <3>1. PICK k \in A : \A i \in A : k <= i
      <4>1. A \subseteq Nat
        BY <1>1
      <4> HIDE DEF A
      <4> QED  BY <2>2, <4>1, LeastExists
    <3>2. k \in 0..n /\ k # 0
      BY <1>4, <3>1
    <3>3. k - 1 \in 0..(n - 1) /\ k - 1 \notin A /\ k - 1 \in 0..n /\ (k - 1) + 1 = k
      <4>1. k - 1 \in 0..(n - 1) /\ k - 1 \in 0..n /\ (k - 1) + 1 = k /\ ~(k <= k - 1)
        BY <1>1, <3>2
      <4> HIDE DEF A
      <4> QED  BY <3>1, <4>1
    <3>4. C(k - 1)
      <4> HIDE DEF C
      <4> QED  BY <3>3
    <3> HIDE DEF C
    <3>5. C(k)
      BY <1>5, <3>3, <3>4
    <3> QED  BY <3>1, <3>5
  <2> QED  BY <2>1, <2>2
<1>7. PICK p \in S, j \in 1..(n + 1) : Done(n, p, j)
  BY <1>6
<1>8. Len(p) \in Nat
  BY LenProperties
<1>9. j = n + 1
  BY <1>1, <1>7, <1>8
<1>10. Rest(j) = << >>
  BY <1>1, <1>9, SubSeqEmpty DEF Rest
<1>11. s[n] = p /\ p = r[1]
  BY <1>3, <1>7, <1>9, <1>10, ConcatEmptySeq
<1> QED  BY <1>2, <1>3, <1>11

\* Without its quotes a text is a text.
LEMMA UnquotedType == ASSUME NEW t \in Seq(Chars)  PROVE Unquoted(t) \in Seq(Chars)
<1>1. Len(t) >= 2 => SubSeq(t, 2, Len(t) - 1) \in Seq(Chars)
  <2> HIDE DEF Chars
  <2>1. Len(t) \in Nat /\ \A i \in 2..(Len(t) - 1) : t[i] \in Chars
    BY LenProperties, ElementOfSeq
  <2>2. 2 \in Int /\ Len(t) - 1 \in Int
    BY <2>1
  <2> QED  BY <2>1, <2>2, SubSeqProperties
<1> QED  BY <1>1 DEF Unquoted

\* A string without a NUL inside is as long as its text.
Honest(v) == v \in Strings => v.text \in Seq(Plain) /\ v.len = Len(v.text)

\* What OP_PUSH_STR pushes.
LEMMA PushedString ==
  ASSUME NEW t \in Seq(Chars)
  PROVE  /\ OP_PUSH_STR(t) \in Strings
         /\ OP_PUSH_STR(t).text = Reading(Unquoted(t))
         /\ PlainText(OP_PUSH_STR(t)) => Honest(OP_PUSH_STR(t))
<1> DEFINE s == Unescape(Unquoted(t))
<1>1. s \in Seq(Chars) /\ s = Reading(Unquoted(t)) /\ Len(s) \in Nat
  <2>1. s \in Seq(Chars) /\ s = Reading(Unquoted(t))
    BY UnquotedType, UnescapeIsReading
  <2> HIDE DEF s
  <2> QED  BY <2>1, LenProperties
<1>2. OP_PUSH_STR(t) = Text(s, Len(s))
  BY DEF OP_PUSH_STR
<1> HIDE DEF s
<1>3. /\ OP_PUSH_STR(t).type = "STR" /\ OP_PUSH_STR(t).text = s /\ OP_PUSH_STR(t).len = Len(s)
  BY <1>2 DEF Text
<1>4. OP_PUSH_STR(t) \in Strings
  BY <1>1, <1>2, ValuesMade
<1>5. ASSUME PlainText(OP_PUSH_STR(t))  PROVE s \in Seq(Plain)
  <2>1. NUL \notin {s[i] : i \in DOMAIN s}
    BY <1>3, <1>5 DEF PlainText
  <2>2. s \in [1..Len(s) -> Chars] /\ DOMAIN s = 1..Len(s)
    BY <1>1, LenProperties
  <2>3. s \in [1..Len(s) -> Plain]
    <3> HIDE DEF Chars, NUL
    <3> QED  BY <2>1, <2>2 DEF Plain
  <2> QED  BY <1>1, <2>3, FunctionIsSeq
<1> QED  BY <1>1, <1>3, <1>4, <1>5 DEF Honest

\* What an expression pushes.
LEMMA PushedValues ==
  ASSUME NEW c \in Pushed
  PROVE  c \in Values /\ (PlainText(c) => Honest(c))
<1>1. CASE \E n \in Ints : c = Int64(n)
  <2>1. c \in Int64s
    BY <1>1, ValuesMade, PushedAssumption
  <2>2. c \notin Strings
    BY <2>1, Kinds
  <2> QED  BY <2>1, <2>2 DEF Honest, Values, NumberValues
<1>2. CASE \E h \in Floats : c = Double(h)
  <2>1. c \in Doubles
    BY <1>2, ValuesMade, PushedAssumption
  <2>2. c \notin Strings
    BY <2>1, Kinds
  <2> QED  BY <2>1, <2>2 DEF Honest, Values, NumberValues
<1>3. CASE \E t \in Texts : c = OP_PUSH_STR(t)
  BY <1>3, PushedString, PushedAssumption DEF Values
<1> QED  BY <1>1, <1>2, <1>3 DEF Pushed

------------------------------------------------------------------------------
(* The value on top, through any number of operators                       *)

\* The inductive invariant.
OpsInv ==
  /\ val \in Values /\ raw \in Seq(Chars) /\ ops \in 0..MaxOps
  /\ clean \in BOOLEAN /\ trap \in BOOLEAN
  /\ raw # NotString => val = OP_PUSH_STR(raw)
  /\ clean => Honest(val)

\* It holds of the first value.
LEMMA OpsInitInv == OpsInit => OpsInv
<1> SUFFICES ASSUME OpsInit  PROVE OpsInv
  OBVIOUS
<1>1. val \in Pushed
  BY DEF OpsInit, Pushed
<1>2. raw \in Seq(Chars) /\ (raw # NotString => val = OP_PUSH_STR(raw))
  <2>1. << >> \in Seq(Chars)
    BY EmptySeq
  <2> QED  BY <2>1, PushedAssumption DEF OpsInit, NotString
<1>3. ops \in 0..MaxOps /\ clean = PlainText(val) /\ trap = FALSE
  BY OpsAssumption DEF OpsInit
<1>4. PlainText(val) \in BOOLEAN
  BY DEF PlainText
<1> QED  BY <1>1, <1>2, <1>3, <1>4, PushedValues DEF OpsInv

\* The text of an operand of op_add is as long as it is said to be.
LEMMA TextOfIs ==
  ASSUME NEW v \in Values, Honest(v)
  PROVE  TextOf(v) \in Seq(Plain) /\ LenOf(v) = Len(TextOf(v))
<1>1. CASE v \in Strings
  <2>1. v.type = "STR" /\ v.text \in Seq(Chars) /\ v.text \in Seq(Plain) /\ v.len = Len(v.text)
    BY <1>1, Kinds DEF Honest
  <2>2. CStr(v.text) = v.text
    BY <2>1, CStrIs
  <2> QED  BY <2>1, <2>2 DEF TextOf, LenOf
<1>2. CASE v \in NumberValues
  <2>1. v.type # "STR" /\ nbr_to_str(v) \in Seq(Plain)
    BY <1>2, Kinds, PrintedIs DEF NumberValues
  <2> QED  BY <2>1 DEF TextOf, LenOf
<1> QED  BY <1>1, <1>2 DEF Values

LEMMA HonestSum ==
  ASSUME NEW a \in Values, NEW b \in Values, Honest(a), Honest(b)
  PROVE  Honest(op_add(a, b))
<1>1. CASE "STR" \in {a.type, b.type}
  <2> DEFINE x == TextOf(a)
             y == TextOf(b)
  <2>1. x \in Seq(Plain) /\ y \in Seq(Plain) /\ LenOf(a) = Len(x) /\ LenOf(b) = Len(y)
    BY TextOfIs
  <2>2. op_add(a, b) = Text(x \o y, LenOf(a) + LenOf(b))
    BY <1>1 DEF op_add
  <2> HIDE DEF x, y
  <2>3. x \o y \in Seq(Plain) /\ Len(x \o y) = Len(x) + Len(y)
    BY <2>1, ConcatProperties
  <2> QED  BY <2>1, <2>2, <2>3 DEF Honest, Text
<1>2. CASE "STR" \notin {a.type, b.type}
  <2>1. op_add(a, b).type # "STR"
    BY <1>2 DEF op_add, Float, Int64, Double
  <2> QED  BY <2>1, Kinds DEF Honest
<1> QED  BY <1>1, <1>2

\* A binary operator keeps it.
LEMMA ApplyBinaryInv == OpsInv /\ ApplyBinary => OpsInv'
<1> SUFFICES ASSUME OpsInv, ApplyBinary  PROVE OpsInv'
  OBVIOUS
<1>1. PICK op \in Operators, c \in Pushed : \E a, b \in {val, c} :
        /\ {a, b} = {val, c}
        /\ op \in {"div", "mod"} => BothInt(a, b)
        /\ IF Traps(op, a, b) THEN trap' = TRUE /\ UNCHANGED <<val, raw, ops>>
                              ELSE Compute(Result(op, a, b))
        /\ clean' = (clean /\ PlainText(c))
  BY DEF ApplyBinary
<1>2. PICK a \in {val, c}, b \in {val, c} :
        /\ {a, b} = {val, c}
        /\ op \in {"div", "mod"} => BothInt(a, b)
        /\ IF Traps(op, a, b) THEN trap' = TRUE /\ UNCHANGED <<val, raw, ops>>
                              ELSE Compute(Result(op, a, b))
        /\ clean' = (clean /\ PlainText(c))
  BY <1>1
<1>3. val \in Values /\ c \in Values /\ a \in Values /\ b \in Values
  BY <1>1, <1>2, PushedValues DEF OpsInv
<1>4. clean' \in BOOLEAN
  BY <1>2 DEF OpsInv, PlainText
<1>5. CASE Traps(op, a, b)
  <2>1. trap' = TRUE /\ UNCHANGED <<val, raw, ops>>
    BY <1>2, <1>5
  <2>2. clean' => clean
    BY <1>2
  <2> QED  BY <1>4, <2>1, <2>2 DEF OpsInv, Honest
<1>6. CASE ~Traps(op, a, b)
  <2>1. val' = Result(op, a, b) /\ raw' = NotString /\ ops' = ops + 1 /\ trap' = trap
    BY <1>2, <1>6 DEF Compute
  <2>2. val' \in Values /\ (op # "add" => val' \in NumberValues)
    BY <1>1, <1>2, <1>3, <1>6, <2>1, Results
  <2>3. ops' \in 0..MaxOps
    BY <2>1, OpsAssumption DEF OpsInv, ApplyBinary
  <2>4. ASSUME clean'  PROVE Honest(val')
    <3>1. CASE op = "add"
      <4>1. Honest(val) /\ Honest(c)
        BY <1>1, <1>2, <2>4, PushedValues DEF OpsInv
      <4>2. Honest(a) /\ Honest(b)
        BY <1>2, <4>1
      <4>3. val' = op_add(a, b)
        BY <2>1, <3>1 DEF Result
      <4> QED  BY <1>3, <4>2, <4>3, HonestSum
    <3>2. CASE op # "add"
      BY <2>2, <3>2, Kinds DEF Honest, NumberValues
    <3> QED  BY <3>1, <3>2
  <2>5. raw' \in Seq(Chars) /\ raw' = NotString
    BY <2>1, EmptySeq DEF NotString
  <2> QED  BY <1>4, <2>1, <2>2, <2>3, <2>4, <2>5 DEF OpsInv, Honest
<1> QED  BY <1>5, <1>6

\* A unary operator keeps it.
LEMMA ApplyUnaryInv == OpsInv /\ ApplyUnary => OpsInv'
<1> SUFFICES ASSUME OpsInv, ApplyUnary  PROVE OpsInv'
  OBVIOUS
<1>1. PICK v \in {Negated(val), str_to_nbr(val), AsText(val)} : Compute(v)
  BY DEF ApplyUnary
<1>2. val' = v /\ raw' = NotString /\ ops' = ops + 1 /\ trap' = trap /\ val \in Values
  BY <1>1 DEF Compute, OpsInv
<1>3. v \in Values
  BY <1>1, <1>2, NegatedType, Conversions DEF Values
<1>4. ops' \in 0..MaxOps /\ clean' \in BOOLEAN
  BY <1>2, OpsAssumption DEF OpsInv, ApplyUnary
<1>5. raw' \in Seq(Chars)
  BY <1>2, EmptySeq DEF NotString
<1>6. ASSUME clean'  PROVE Honest(val')
  <2>1. CASE val' \notin Strings
    BY <2>1 DEF Honest
  <2>2. CASE val' \in Strings
    <3>1. val' = AsText(val) /\ clean /\ (val.type # "STR" => Fits(val))
      <4>1. Negated(val).type # "STR"
        BY DEF Negated, Double, Int64
      <4>2. str_to_nbr(val).type # "STR"
        BY <1>2, Conversions, Kinds DEF NumberValues
      <4>3. val'.type = "STR"
        BY <2>2, Kinds
      <4> QED  BY <1>6, <4>1, <4>2, <4>3 DEF ApplyUnary, Compute
    <3>2. CASE val.type = "STR"
      BY <3>1, <3>2 DEF AsText, OpsInv
    <3>3. CASE val.type # "STR"
      <4>1. val \in NumberValues
        BY <1>2, <3>3, Kinds DEF Values
      <4>2. nbr_to_str(val) \in Seq(Plain) /\ nbr_to_str(val) = Printed(val)
        BY <3>1, <3>3, <4>1, PrintedIs DEF NumberValues
      <4>3. val' = Text(nbr_to_str(val), Len(Printed(val)))
        BY <3>1, <3>3 DEF AsText, nbr_to_str_len
      <4> QED  BY <4>2, <4>3 DEF Honest, Text
    <3> QED  BY <3>2, <3>3
  <2> QED  BY <2>1, <2>2
<1> QED  BY <1>2, <1>3, <1>4, <1>5, <1>6 DEF OpsInv, Honest

\* So does every step.
LEMMA OpsNextInv == OpsInv /\ [ApplyBinary \/ ApplyUnary]_opsVars => OpsInv'
<1>1. OpsInv /\ UNCHANGED opsVars => OpsInv'
  BY DEF OpsInv, opsVars, Honest
<1> QED  BY <1>1, ApplyBinaryInv, ApplyUnaryInv

\* It always holds.
LEMMA OpsInvariant == OpsSpec => []OpsInv
BY OpsInitInv, OpsNextInv, PTL DEF OpsSpec

\* Every operator gives a value of one of the three types, an integer that fits its W
\* bits among them, whatever the operands are.
THEOREM OpsTypeCorrect == OpsSpec => []OpsTypeOK
<1>1. OpsInv => OpsTypeOK
  <2> SUFFICES ASSUME OpsInv  PROVE OpsTypeOK
    OBVIOUS
  <2> QED  BY Kinds DEF OpsInv, OpsTypeOK, Values, NumberValues
<1> QED  BY <1>1, OpsInvariant, PTL

\* A string pushed is what its bytes stand for, for every string; and strings computed
\* from texts without NULs and from numbers that fit their buffer are as long as said.
THEOREM TextsAreRight == OpsSpec => []TextsRight
<1>1. OpsInv => TextsRight
  <2> SUFFICES ASSUME OpsInv  PROVE TextsRight
    OBVIOUS
  <2>1. raw # NotString => val.text = Reading(Unquoted(raw))
    BY PushedString DEF OpsInv
  <2>2. ASSUME val.type = "STR", clean  PROVE val.len = Len(CStr(val.text))
    <3>1. val \in Strings
      BY <2>2, Kinds DEF OpsInv, Values, NumberValues
    <3>2. val.text \in Seq(Plain) /\ val.len = Len(val.text) /\ val.text \in Seq(Chars)
      BY <2>2, <3>1, Kinds DEF OpsInv, Honest
    <3> QED  BY <3>2, CStrIs
  <2> QED  BY <2>1, <2>2 DEF TextsRight
<1> QED  BY <1>1, OpsInvariant, PTL

\* The comparisons order the integers, and all numbers a double holds exactly, whether
\* they come as numbers or as text.
THEOREM ComparisonsOrder == OpsSpec => []Ordered
<1>1. OpsInv => Ordered
  <2> SUFFICES ASSUME OpsInv  PROVE Ordered
    OBVIOUS
  <2>1. val \in Values
    BY DEF OpsInv
  <2> QED  BY <2>1, PushedValues, ComparisonsOfTwo, OneOfThree DEF Ordered
<1> QED  BY <1>1, OpsInvariant, PTL

\* Integers divide towards 0 with a remainder of the dividend's sign; and a number that
\* fits the buffer is read back with its type: as itself, and equal to its text, if it
\* has no more decimals than are printed, and at most one in the last of them off if it
\* has.
THEOREM NumbersAreExact == OpsSpec => []NumbersExact
<1>1. OpsInv => NumbersExact
  <2> SUFFICES ASSUME OpsInv  PROVE NumbersExact
    OBVIOUS
  <2>1. val \in Values
    BY DEF OpsInv
  <2>2. ASSUME val.type = "INT", NEW c \in Pushed, c.type = "INT", c.n # 0
        PROVE  LET q == op_div(val, c).n
                   r == op_mod(val, c).n
               IN  val.n = q * c.n + r /\ Abs(r) < Abs(c.n) /\ r * val.n >= 0
    <3>1. val.n \in Int /\ c.n \in Int \ {0}
      BY <2>1, <2>2, PushedValues, Kinds, Bounds DEF Values, NumberValues
    <3>2. op_div(val, c).n = Quotient(val.n, c.n) /\ op_mod(val, c).n = Remainder(val.n, c.n)
      BY <2>2 DEF op_div, op_mod, Int64
    <3> DEFINE n == val.n
               d == c.n
               q == Quotient(n, d)
               r == Remainder(n, d)
    <3> HIDE DEF n, d, q, r
    <3>3. n \in Int /\ d \in Int \ {0} /\ q = Quotient(n, d) /\ r = Remainder(n, d)
      BY <3>1 DEF n, d, q, r
    <3>4. n = q * d + r /\ Abs(r) < Abs(d) /\ r * n >= 0
      BY <3>3, Quotients
    <3> QED  BY <3>2, <3>4 DEF n, d, q, r
  <2>3. ASSUME val.type # "STR", Fits(val)
        PROVE  LET read == str_to_nbr(AsText(val))
               IN  /\ read.type = val.type
                   /\ Prints(val) => read = val /\ (val.n # NaN => op_eq(val, AsText(val)) = Int64(1))
                   /\ ~Prints(val) => 10 * Abs(read.n - val.n) <= Unit
    <3>1. val \in NumberValues
      BY <2>1, <2>3, Kinds DEF Values
    <3> QED  BY <2>3, <3>1, ReadBack, EqualsItsText
  <2> QED  BY <2>2, <2>3 DEF NumbersExact
<1> QED  BY <1>1, OpsInvariant, PTL
==============================================================================
