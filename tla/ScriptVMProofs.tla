---------------------------- MODULE ScriptVMProofs ----------------------------
(***************************************************************************)
(* Proofs about the script VM, for any number of variables, any largest    *)
(* index and any width of the integers: its variables own their strings    *)
(* whatever is set and freed, and free_vm frees every one of them, whether *)
(* or not it returns.                                                      *)
(***************************************************************************)
EXTENDS ScriptVM, DataFacts, TLAPS

\* A live block has been given out, so the next one is new.
Fresh == \A b \in heap : b < next

\* There is no block before there is a table; the table starts at 0, has room
\* for every definition while it is filled, and is there while it is freed.
Shape ==
  /\ Len(variables) <= MaxVars
  /\ pc \in {"main", "freed"} => values = NULL
  /\ pc = "main" => heap = {}
  /\ pc = "free" => values # NULL
  /\ values # NULL => \E d \in Indexes : DOMAIN values = 0..d
  /\ pc = "init" => /\ i <= Len(variables)
                    /\ values # NULL =>
                         \A k \in DOMAIN variables : variables[k].variable_idx \in DOMAIN values

\* No string lies beyond max_idx, where free_vm does not look, nor behind the
\* value it has come to.
Walked ==
  values # NULL =>
    \A k \in DOMAIN values :
       (k > max_idx \/ (pc = "free" /\ k < i)) => ~Owns(values[k])

\* Every block belongs to a variable, and those not evaluated yet have none.
Kept ==
  (pc \in {"init", "ready"} /\ Distinct /\ values # NULL) =>
    /\ \A b \in heap : \E k \in DOMAIN values : Owns(values[k]) /\ values[k].ptr = b
    /\ pc = "init" =>
         \A k \in DOMAIN variables : k > i => ~Owns(values[variables[k].variable_idx])

Inv == TypeOK /\ ValuesOwned /\ Fresh /\ Shape /\ Walked /\ Kept

------------------------------------------------------------------------------
(* Values, variables and the array.                                        *)

\* Two strings in one block are one value.
LEMMA SameBlock ==
  ASSUME NEW u \in Value, NEW v \in Value, Owns(u), Owns(v), u.ptr = v.ptr
  PROVE  u = v
BY DEF Value, Owns

\* The values that are there before anything is stored, and those stored.
LEMMA ValueTypes ==
  ASSUME next \in Nat \ {NIL}
  PROVE  /\ {NONE_V, INT_V, FLT_V, STR_V(NIL), STR_V(next)} \subseteq Value
         /\ ~Owns(NONE_V) /\ ~Owns(INT_V) /\ ~Owns(FLT_V) /\ ~Owns(STR_V(NIL))
         /\ Owns(STR_V(next)) /\ STR_V(next).ptr = next
BY DEF Value, NONE_V, INT_V, FLT_V, STR_V, NIL, Owns

LEMMA EvaluatedType ==
  ASSUME next \in Nat \ {NIL}, NEW type \in {"YSV_NONE", "YSV_INT", "YSV_FLOAT", "YSV_EXPR"},
         NEW v \in Evaluated(type)
  PROVE  v \in Value /\ (Owns(v) => v = STR_V(next))
BY ValueTypes DEF Evaluated

LEMMA GivenType ==
  ASSUME next \in Nat \ {NIL}, NEW v \in Given
  PROVE  v \in Value /\ (Owns(v) => v = STR_V(next))
BY ValueTypes DEF Given

\* The one block of a value.
LEMMA OneBlock ==
  ASSUME NEW v
  PROVE  Blocks({v}) = IF Owns(v) THEN {v.ptr} ELSE {}
BY DEF Blocks

\* The blocks of the values of a table are those its values own.
LEMMA BlocksElem ==
  ASSUME NEW f, NEW b
  PROVE  b \in Blocks({f[k] : k \in DOMAIN f})
            <=> \E k \in DOMAIN f : Owns(f[k]) /\ f[k].ptr = b
BY DEF Blocks

\* A variable of the file has an index and a type.
LEMMA VariableType ==
  ASSUME variables \in Seq(Variable)
  PROVE  /\ Len(variables) \in Nat
         /\ DOMAIN variables = 1..Len(variables)
         /\ \A k \in DOMAIN variables :
              /\ variables[k].variable_idx \in Indexes
              /\ variables[k].type \in {"YSV_NONE", "YSV_INT", "YSV_FLOAT", "YSV_EXPR"}
<1>1. Len(variables) \in Nat /\ DOMAIN variables = 1..Len(variables)
  BY LenProperties
<1>2. \A k \in DOMAIN variables : variables[k] \in Variable
  BY SeqDomain
<1>3. QED
  BY <1>1, <1>2 DEF Variable

\* The largest index of a file is an index, and none of its variables has a
\* larger one.
LEMMA LargestIndex ==
  ASSUME variables \in Seq(Variable)
  PROVE  /\ max_variable_idx \in Indexes
         /\ \A k \in DOMAIN variables : variables[k].variable_idx <= max_variable_idx
<1> DEFINE S == {0} \cup {variables[k].variable_idx : k \in DOMAIN variables}
<1>1. S \subseteq 0..MaxIdx /\ 0 \in S
  <2>1. 0 \in 0..MaxIdx
    BY LimitAssumption
  <2>2. \A k \in DOMAIN variables : variables[k].variable_idx \in 0..MaxIdx
    BY VariableType DEF Indexes
  <2>3. QED
    BY <2>1, <2>2
<1>2. \A k \in DOMAIN variables : variables[k].variable_idx \in S
  OBVIOUS
<1>3. max_variable_idx = Max(S)
  BY DEF max_variable_idx
<1> HIDE DEF S
<1>4. PICK m \in S : \A x \in S : x <= m
  <2>1. MaxIdx \in Nat /\ S # {}
    BY <1>1, LimitAssumption
  <2>2. QED
    BY <1>1, <2>1, GreatestBelow
<1>5. m \in Int /\ \A x \in S : x \in Int
  BY <1>1
<1>6. \E x \in S : \A y \in S : x >= y
  BY <1>4, <1>5
<1>7. Max(S) \in S /\ \A y \in S : Max(S) >= y
  BY <1>6 DEF Max
<1>8. QED
  BY <1>1, <1>2, <1>3, <1>5, <1>7 DEF Indexes

------------------------------------------------------------------------------
(* Every step preserves the invariant.                                     *)

LEMMA InitInv == Init => Inv
<1> SUFFICES ASSUME Init  PROVE Inv
  OBVIOUS
<1>1. /\ pc = "main" /\ loaded = {} /\ variables = << >> /\ values = NULL
      /\ max_idx = 0 /\ i = 0 /\ heap = {} /\ next = 1 /\ fault = FALSE
      /\ res.def = NULL
  BY DEF Init
<1>2. /\ variables \in Seq(Variable) /\ Len(variables) = 0
  BY <1>1
<1>3. TypeOK
  <2>1. 0 \in Indexes /\ 0 \in 0..(Limit - 1) /\ 1 \in Nat \ {NIL}
    BY LimitAssumption DEF Indexes, NIL
  <2>2. QED
    BY <1>1, <1>2, <2>1 DEF TypeOK
<1>4. ValuesOwned /\ Fresh /\ Walked /\ Kept
  BY <1>1 DEF ValuesOwned, Fresh, Walked, Kept
<1>5. Shape
  BY <1>1, <1>2, CountAssumption DEF Shape
<1>6. QED
  BY <1>3, <1>4, <1>5 DEF Inv

\* What a step that only answers changes of the invariant: nothing.
LEMMA AnswerInv ==
  ASSUME Inv, UNCHANGED <<table, values, max_idx, i, heap, next, fault>>,
         pc' \in {pc, "crash"} \/ (pc = "init" /\ pc' = "ready"),
         res'.def \in {NULL} \cup Nat
  PROVE  Inv'
<1>1. TypeOK'
  BY DEF Inv, TypeOK, table
<1>2. ValuesOwned' /\ Fresh'
  BY DEF Inv, ValuesOwned, Fresh
<1>3. Shape'
  BY DEF Inv, Shape, table
<1>4. Walked'
  BY DEF Inv, Walked
<1>5. Kept'
  BY DEF Inv, Kept, Distinct, table
<1>6. QED
  BY <1>1, <1>2, <1>3, <1>4, <1>5 DEF Inv

LEMMA LoadInv ==
  ASSUME Inv, NEW name \in {"ysc", "ystl", "ysv", "ysl"}, Load(name)
  PROVE  Inv'
<1>1. /\ pc = "main" /\ values = NULL /\ heap = {}
      /\ UNCHANGED <<pc, values, max_idx, i, heap, next, fault, res>>
  BY DEF Load, Inv, Shape
<1>2. loaded' \subseteq {"ysc", "ystl", "ysv", "ysl"}
  BY DEF Load, Inv, TypeOK
<1>3. variables' \in Seq(Variable) /\ Len(variables') <= MaxVars
  <2>1. CASE name = "ysv"
    <3>1. variables' \in BoundedSeq(Variable, MaxVars)
      BY <2>1 DEF Load
    <3>2. PICK m \in 0..MaxVars : variables' \in [1..m -> Variable]
      BY <3>1 DEF BoundedSeq, SeqOf
    <3>3. m \in Nat /\ m <= MaxVars
      BY CountAssumption
    <3>4. variables' \in Seq(Variable)
      BY <3>2, <3>3, FunctionIsSeq
    <3>5. Len(variables') = m
      BY <3>2, <3>3, <3>4, LenProperties
    <3>6. QED
      BY <3>3, <3>4, <3>5
  <2>2. CASE name # "ysv"
    BY <2>2 DEF Load, Inv, TypeOK, Shape
  <2>3. QED
    BY <2>1, <2>2
<1>4. TypeOK'
  BY <1>1, <1>2, <1>3 DEF Inv, TypeOK
<1>5. ValuesOwned' /\ Fresh' /\ Shape' /\ Walked' /\ Kept'
  BY <1>1, <1>3 DEF Inv, ValuesOwned, Fresh, Shape, Walked, Kept
<1>6. QED
  BY <1>4, <1>5 DEF Inv

LEMMA vm_init_varsInv ==
  ASSUME Inv, vm_init_vars
  PROVE  Inv'
<1> DEFINE d == max_variable_idx
<1>1. /\ pc = "main" /\ pc' = "init" /\ max_idx' = 0 /\ i' = 0
      /\ values' \in {NULL, [k \in 0..d |-> NONE_V]}
      /\ UNCHANGED <<loaded, variables, heap, next, fault, res>>
  BY DEF vm_init_vars
<1>2. /\ heap = {} /\ ~fault /\ variables \in Seq(Variable) /\ next \in Nat \ {NIL}
      /\ Len(variables) <= MaxVars
  BY <1>1 DEF Inv, Shape, ValuesOwned, TypeOK
<1>3. /\ d \in Indexes
      /\ \A k \in DOMAIN variables : variables[k].variable_idx <= d
  BY <1>2, LargestIndex
<1> HIDE DEF d
<1>4. d \in Nat /\ 0 \in 0..d
  BY <1>3, LimitAssumption DEF Indexes
<1>5. NONE_V \in Value /\ ~Owns(NONE_V)
  BY <1>2, ValueTypes
<1>6. values' # NULL => /\ DOMAIN values' = 0..d
                        /\ values' \in [0..d -> Value]
                        /\ \A k \in DOMAIN values' : ~Owns(values'[k])
  BY <1>1, <1>5
<1>7. \A k \in DOMAIN variables : variables[k].variable_idx \in 0..d
  BY <1>2, <1>3, <1>4, VariableType DEF Indexes
<1>8. TypeOK'
  <2>1. values' # NULL => values' \in [DOMAIN values' -> Value] /\ 0..max_idx' \subseteq DOMAIN values'
    BY <1>1, <1>4, <1>6
  <2>2. max_idx' \in Indexes /\ i' \in 0..(Limit - 1)
    BY <1>1, LimitAssumption DEF Indexes
  <2>3. QED
    BY <1>1, <2>1, <2>2 DEF Inv, TypeOK
<1>9. ValuesOwned' /\ Fresh' /\ Walked'
  BY <1>1, <1>2, <1>6 DEF ValuesOwned, Fresh, Walked
<1>10. Shape'
  <2>1. Len(variables) \in Nat
    BY <1>2, VariableType
  <2>2. i' <= Len(variables')
    BY <1>1, <2>1
  <2>3. values' # NULL =>
          /\ \E e \in Indexes : DOMAIN values' = 0..e
          /\ \A k \in DOMAIN variables' : variables'[k].variable_idx \in DOMAIN values'
    BY <1>1, <1>3, <1>6, <1>7
  <2>4. QED
    BY <1>1, <1>2, <2>2, <2>3 DEF Shape
<1>11. Kept'
  BY <1>1, <1>2, <1>6, <1>7 DEF Kept
<1>12. QED
  BY <1>8, <1>9, <1>10, <1>11 DEF Inv

\* A value is stored over another one of which at most the own block is freed:
\* the strings keep their owners.
LEMMA StoreOwned ==
  ASSUME TypeOK, ValuesOwned, Fresh, Shape, values # NULL,
         NEW idx \in DOMAIN values, NEW v \in Value, Owns(v) => v.ptr = next,
         values' = [values EXCEPT ![idx] = v],
         NEW kept, kept \subseteq heap,
         \A b \in heap : b \notin kept => Owns(values[idx]) /\ b = values[idx].ptr,
         heap' = kept \cup Blocks({v}),
         next' = IF Owns(v) THEN next + 1 ELSE next,
         ~fault'
  PROVE  /\ ValuesOwned' /\ Fresh'
         /\ values' # NULL
         /\ DOMAIN values' = DOMAIN values
         /\ values' \in [DOMAIN values -> Value]
         /\ heap' \subseteq Nat \ {NIL} /\ next' \in Nat \ {NIL}
         /\ \A k \in DOMAIN values : values'[k] = IF k = idx THEN v ELSE values[k]
<1>1. /\ values \in [DOMAIN values -> Value]
      /\ next \in Nat \ {NIL} /\ heap \subseteq Nat \ {NIL}
      /\ \A b \in heap : b < next
  BY DEF TypeOK, Fresh
<1>2. /\ DOMAIN values' = DOMAIN values
      /\ values' \in [DOMAIN values -> Value]
      /\ \A k \in DOMAIN values : values'[k] = IF k = idx THEN v ELSE values[k]
  BY <1>1
<1>3. values' # NULL
  <2>1. PICK d \in Indexes : DOMAIN values = 0..d
    BY DEF Shape
  <2>2. QED
    BY <1>2, <2>1, NullAssumption
<1>4. \A b : b \in heap' <=> (b \in kept \/ (Owns(v) /\ b = next))
  BY OneBlock
<1>5. heap' \subseteq Nat \ {NIL} /\ next' \in Nat \ {NIL}
  <2>1. next + 1 \in Nat \ {NIL}
    BY <1>1 DEF NIL
  <2>2. QED
    BY <1>1, <1>4, <2>1
<1>6. Fresh'
  <2>1. ASSUME NEW b \in heap'  PROVE b < next'
    <3>1. next' \in {next, next + 1} /\ (b \in heap \/ (b = next /\ next' = next + 1))
      BY <1>4
    <3>2. QED
      BY <1>1, <3>1
  <2>2. QED
    BY <2>1 DEF Fresh
<1>7. next \notin heap
  BY <1>1
<1>8. \A k, m \in DOMAIN values :
         Owns(values[k]) => /\ values[k].ptr \in heap
                            /\ values[m] = values[k] => m = k
  BY DEF ValuesOwned
<1>9. ASSUME NEW k \in DOMAIN values, NEW m \in DOMAIN values, Owns(values'[k])
      PROVE  /\ values'[k].ptr \in heap'
             /\ values'[m] = values'[k] => m = k
  <2>1. CASE k = idx
    <3>1. values'[k] = v /\ v.ptr = next
      BY <1>2, <1>9, <2>1
    <3>2. values'[k].ptr \in heap'
      BY <1>4, <1>9, <3>1
    <3>3. ASSUME values'[m] = v, m # k  PROVE FALSE
      <4>1. values[m] = v
        BY <1>2, <2>1, <3>3
      <4>2. v.ptr \in heap
        BY <1>8, <1>9, <3>1, <4>1
      <4>3. QED
        BY <1>7, <3>1, <4>2
    <3>4. QED
      BY <3>1, <3>2, <3>3
  <2>2. CASE k # idx
    <3>1. values'[k] = values[k] /\ Owns(values[k]) /\ values[k].ptr \in heap
      BY <1>2, <1>8, <1>9, <2>2
    <3>2. values[k].ptr \in kept
      <4>1. ASSUME values[k].ptr \notin kept  PROVE FALSE
        <5>1. Owns(values[idx]) /\ values[k].ptr = values[idx].ptr
          BY <3>1, <4>1
        <5>2. values[k] \in Value /\ values[idx] \in Value
          BY <1>1
        <5>3. values[k] = values[idx]
          BY <3>1, <5>1, <5>2, SameBlock
        <5>4. QED
          BY <1>8, <2>2, <3>1, <5>3
      <4>2. QED
        BY <4>1
    <3>3. ASSUME values'[m] = values[k]  PROVE m = k
      <4>1. CASE m = idx
        <5>1. v = values[k]
          BY <1>2, <3>3, <4>1
        <5>2. QED
          BY <1>7, <3>1, <5>1
      <4>2. CASE m # idx
        BY <1>2, <1>8, <3>1, <3>3, <4>2
      <4>3. QED
        BY <4>1, <4>2
    <3>4. QED
      BY <1>4, <3>1, <3>2, <3>3
  <2>3. QED
    BY <2>1, <2>2
<1>10. ValuesOwned'
  BY <1>2, <1>9 DEF ValuesOwned
<1>11. QED
  BY <1>2, <1>3, <1>5, <1>6, <1>10

LEMMA InitVarInv ==
  ASSUME Inv, InitVar
  PROVE  Inv'
<1> DEFINE idx == variables[i + 1].variable_idx
<1>1. /\ pc = "init" /\ i < Len(variables) /\ i <= Len(variables)
      /\ UNCHANGED <<loaded, variables, fault, res>>
      /\ variables \in Seq(Variable) /\ i \in Nat /\ next \in Nat \ {NIL}
  BY LimitAssumption DEF InitVar, table, Inv, TypeOK
<1>2. CASE values = NULL
  <2>1. pc' = "crash" /\ UNCHANGED <<values, max_idx, i, heap, next>>
    BY <1>2 DEF InitVar
  <2>2. res'.def \in {NULL} \cup Nat
    BY <1>1 DEF Inv, TypeOK
  <2>3. QED
    BY <1>1, <2>1, <2>2, AnswerInv DEF table
<1>3. CASE values # NULL
  <2>1. i + 1 \in DOMAIN variables
    BY <1>1, VariableType
  <2>2. /\ idx \in Indexes
        /\ variables[i + 1].type \in {"YSV_NONE", "YSV_INT", "YSV_FLOAT", "YSV_EXPR"}
    BY <1>1, <2>1, VariableType
  <2>3. PICK v \in Evaluated(variables[i + 1].type) :
               /\ max_idx' = Larger(idx)
               /\ values' = [values EXCEPT ![idx] = v]
               /\ IF Owns(v) THEN heap' = heap \cup {next} /\ next' = next + 1
                             ELSE UNCHANGED <<heap, next>>
               /\ i' = i + 1
               /\ UNCHANGED pc
    BY <1>3 DEF InitVar
  <2>4. v \in Value /\ (Owns(v) => v.ptr = next)
    BY <1>1, <2>2, EvaluatedType, ValueTypes
  <2>5. PICK d \in Indexes : DOMAIN values = 0..d
    BY <1>3 DEF Inv, Shape
  <2>6. idx \in DOMAIN values
    BY <1>1, <1>3, <2>1 DEF Inv, Shape
  <2> HIDE DEF idx
  <2>7. heap' = heap \cup Blocks({v}) /\ next' = IF Owns(v) THEN next + 1 ELSE next
    BY <2>3, <2>4, OneBlock
  <2>8. ~fault'
    BY <1>1 DEF Inv, ValuesOwned
  <2>9. /\ ValuesOwned' /\ Fresh'
        /\ values' # NULL
        /\ DOMAIN values' = DOMAIN values
        /\ values' \in [DOMAIN values -> Value]
        /\ heap' \subseteq Nat \ {NIL} /\ next' \in Nat \ {NIL}
        /\ \A k \in DOMAIN values : values'[k] = IF k = idx THEN v ELSE values[k]
    BY <1>3, <2>3, <2>4, <2>6, <2>7, <2>8, StoreOwned DEF Inv
  <2>10. max_idx \in Nat /\ idx \in Nat /\ d \in Nat /\ 0..max_idx \subseteq 0..d
    BY <1>3, <2>2, <2>5, LimitAssumption DEF Inv, TypeOK, Indexes
  <2>11. /\ max_idx' \in Indexes /\ max_idx' \in Nat
         /\ max_idx <= max_idx' /\ idx <= max_idx' /\ max_idx' \in 0..d
    BY <2>2, <2>3, <2>5, <2>6, <2>10 DEF Larger, Inv, TypeOK, Indexes
  <2>12. i' \in 0..(Limit - 1) /\ i' <= Len(variables)
    <3>1. Len(variables) \in Nat /\ Len(variables) <= MaxVars
      BY <1>1, VariableType DEF Inv, Shape
    <3>2. MaxVars \in Nat /\ MaxVars <= Limit - 1 /\ Limit \in Nat
      BY CountAssumption, LimitAssumption
    <3>3. i' = i + 1
      BY <2>3
    <3>4. QED
      BY <1>1, <3>1, <3>2, <3>3
  <2>13. TypeOK'
    <3>1. 0..max_idx' \subseteq DOMAIN values'
      BY <2>5, <2>9, <2>10, <2>11
    <3>2. QED
      BY <1>1, <2>3, <2>9, <2>11, <2>12, <3>1 DEF Inv, TypeOK
  <2>14. Shape'
    <3>1. \A k \in DOMAIN variables : variables[k].variable_idx \in DOMAIN values
      BY <1>1, <1>3 DEF Inv, Shape
    <3>2. QED
      BY <1>1, <2>3, <2>5, <2>9, <2>12, <3>1 DEF Inv, Shape
  <2>15. Walked'
    <3>1. ASSUME NEW k \in DOMAIN values, k > max_idx'  PROVE ~Owns(values'[k])
      <4>1. k > max_idx /\ k # idx
        BY <2>5, <2>10, <2>11, <3>1
      <4>2. QED
        BY <1>3, <2>9, <4>1 DEF Inv, Walked
    <3>2. QED
      BY <1>1, <2>3, <2>9, <3>1 DEF Walked
  <2>16. Kept'
    <3> SUFFICES ASSUME Distinct
                 PROVE  /\ \A b \in heap' : \E k \in DOMAIN values' :
                              Owns(values'[k]) /\ values'[k].ptr = b
                        /\ \A k \in DOMAIN variables :
                              k > i' => ~Owns(values'[variables[k].variable_idx])
      BY <1>1 DEF Kept, Distinct
    <3>1. /\ \A b \in heap : \E k \in DOMAIN values : Owns(values[k]) /\ values[k].ptr = b
          /\ \A k \in DOMAIN variables : k > i => ~Owns(values[variables[k].variable_idx])
      BY <1>1, <1>3 DEF Inv, Kept
    <3>2. ~Owns(values[idx])
      BY <1>1, <2>1, <3>1 DEF idx
    <3>3. ASSUME NEW b \in heap'
          PROVE  \E k \in DOMAIN values' : Owns(values'[k]) /\ values'[k].ptr = b
      <4>1. CASE b \in heap
        <5>1. PICK k \in DOMAIN values : Owns(values[k]) /\ values[k].ptr = b
          BY <3>1, <4>1
        <5>2. k # idx
          BY <3>2, <5>1
        <5>3. QED
          BY <2>9, <5>1, <5>2
      <4>2. CASE b \notin heap
        <5>1. Owns(v) /\ b = v.ptr
          BY <2>7, <3>3, <4>2, OneBlock
        <5>2. QED
          BY <2>6, <2>9, <5>1
      <4>3. QED
        BY <4>1, <4>2
    <3>4. ASSUME NEW k \in DOMAIN variables, k > i'
          PROVE  ~Owns(values'[variables[k].variable_idx])
      <4>1. k \in Nat /\ k > i /\ k # i + 1
        BY <1>1, <2>3, <3>4, VariableType
      <4>2. variables[k].variable_idx # idx
        BY <2>1, <4>1 DEF Distinct, idx
      <4>3. variables[k].variable_idx \in DOMAIN values
        BY <1>1, <1>3 DEF Inv, Shape
      <4>4. QED
        BY <2>9, <3>1, <4>1, <4>2, <4>3
    <3>5. QED
      BY <3>3, <3>4
  <2>17. QED
    BY <2>9, <2>13, <2>14, <2>15, <2>16 DEF Inv
<1>4. QED
  BY <1>2, <1>3

LEMMA InitDoneInv ==
  ASSUME Inv, InitDone
  PROVE  Inv'
BY AnswerInv DEF InitDone, Inv, TypeOK, table

LEMMA vm_var_getInv ==
  ASSUME Inv, NEW idx \in 0..(Limit - 1), vm_var_get(idx)
  PROVE  Inv'
<1>1. pc' \in {pc, "crash"} /\ UNCHANGED <<table, values, max_idx, i, heap, next, fault>>
  BY DEF vm_var_get
<1>2. res'.def \in {NULL} \cup Nat
  BY DEF vm_var_get, Answer, Inv, TypeOK
<1>3. QED
  BY <1>1, <1>2, AnswerInv

LEMMA vm_var_defInv ==
  ASSUME Inv, NEW idx \in 0..(Limit - 1), vm_var_def(idx)
  PROVE  Inv'
<1>1. pc' \in {pc, "crash"} /\ UNCHANGED <<table, values, max_idx, i, heap, next, fault>>
  BY DEF vm_var_def
<1>2. res'.def \in {NULL} \cup Nat
  BY LimitAssumption DEF vm_var_def, Answer
<1>3. QED
  BY <1>1, <1>2, AnswerInv

LEMMA vm_var_setInv ==
  ASSUME Inv, NEW idx \in 0..(Limit - 1), vm_var_set(idx)
  PROVE  Inv'
<1>1. pc = "ready" /\ UNCHANGED <<loaded, variables, max_idx, i>>
  BY DEF vm_var_set, table
<1>2. res'.def \in {NULL} \cup Nat
  BY DEF vm_var_set, Answer, Inv, TypeOK
<1>3. CASE idx > max_idx \/ values = NULL
  <2>1. pc' \in {pc, "crash"} /\ UNCHANGED <<values, heap, next, fault>>
    BY <1>3 DEF vm_var_set
  <2>2. QED
    BY <1>1, <1>2, <2>1, AnswerInv DEF table
<1>4. CASE ~(idx > max_idx) /\ values # NULL
  <2>1. PICK v \in Given :
            /\ values' = [values EXCEPT ![idx] = v]
            /\ heap' = Exchanged(values[idx], v)
            /\ fault' = (fault \/ BadFree(heap, values[idx]))
            /\ next' = IF Owns(v) THEN next + 1 ELSE next
            /\ UNCHANGED pc
    BY <1>4 DEF vm_var_set
  <2>2. max_idx \in Nat /\ 0..max_idx \subseteq DOMAIN values /\ next \in Nat \ {NIL}
    BY <1>4, LimitAssumption DEF Inv, TypeOK, Indexes
  <2>3. idx \in DOMAIN values /\ idx \in Nat /\ idx <= max_idx
    BY <1>4, <2>2, LimitAssumption
  <2>4. v \in Value /\ (Owns(v) => v.ptr = next)
    BY <2>2, GivenType, ValueTypes
  <2> DEFINE kept == FREE_EXPR(heap, values[idx])
  <2>5. /\ kept \subseteq heap
        /\ \A b \in heap : b \notin kept => Owns(values[idx]) /\ b = values[idx].ptr
        /\ Owns(values[idx]) => values[idx].ptr \notin kept
        /\ heap' = kept \cup Blocks({v})
    BY <2>1 DEF FREE_EXPR, Exchanged
  <2> HIDE DEF kept
  <2>6. ~fault'
    BY <1>4, <2>1, <2>3 DEF Inv, ValuesOwned, BadFree
  <2>7. /\ ValuesOwned' /\ Fresh'
        /\ values' # NULL
        /\ DOMAIN values' = DOMAIN values
        /\ values' \in [DOMAIN values -> Value]
        /\ heap' \subseteq Nat \ {NIL} /\ next' \in Nat \ {NIL}
        /\ \A k \in DOMAIN values : values'[k] = IF k = idx THEN v ELSE values[k]
    BY <1>4, <2>1, <2>3, <2>4, <2>5, <2>6, StoreOwned DEF Inv
  <2>8. TypeOK'
    BY <1>1, <1>2, <1>4, <2>1, <2>6, <2>7 DEF Inv, TypeOK
  <2>9. Shape'
    BY <1>1, <1>4, <2>1, <2>7 DEF Inv, Shape
  <2>10. Walked'
    <3>1. ASSUME NEW k \in DOMAIN values, k > max_idx  PROVE ~Owns(values'[k])
      <4>1. k # idx
        BY <2>2, <2>3, <3>1
      <4>2. QED
        BY <1>4, <2>7, <3>1, <4>1 DEF Inv, Walked
    <3>2. QED
      BY <1>1, <2>1, <2>7, <3>1 DEF Walked
  <2>11. Kept'
    <3> SUFFICES ASSUME Distinct, NEW b \in heap'
                 PROVE  \E k \in DOMAIN values' : Owns(values'[k]) /\ values'[k].ptr = b
      BY <1>1, <2>1 DEF Kept, Distinct
    <3>1. CASE b \in kept
      <4>1. PICK k \in DOMAIN values : Owns(values[k]) /\ values[k].ptr = b
        BY <1>1, <1>4, <2>5, <3>1 DEF Inv, Kept
      <4>2. k # idx
        BY <2>5, <3>1, <4>1
      <4>3. QED
        BY <2>7, <4>1, <4>2
    <3>2. CASE b \notin kept
      <4>1. Owns(v) /\ b = v.ptr
        BY <2>5, <3>2, OneBlock
      <4>2. QED
        BY <2>3, <2>7, <4>1
    <3>3. QED
      BY <3>1, <3>2
  <2>12. QED
    BY <2>7, <2>8, <2>9, <2>10, <2>11 DEF Inv
<1>5. QED
  BY <1>3, <1>4

LEMMA free_vmInv ==
  ASSUME Inv, free_vm
  PROVE  Inv'
<1>1. /\ variables' = << >> /\ i' = 0
      /\ loaded' \subseteq {"ysc", "ystl", "ysv", "ysl"}
      /\ pc' = IF values = NULL THEN "freed" ELSE "free"
      /\ UNCHANGED <<values, max_idx, heap, next, fault, res>>
  BY DEF free_vm
<1>2. variables' \in Seq(Variable) /\ Len(variables') = 0 /\ 0 \in 0..(Limit - 1)
  BY <1>1, LimitAssumption
<1>3. TypeOK'
  BY <1>1, <1>2 DEF Inv, TypeOK
<1>4. ValuesOwned' /\ Fresh' /\ Kept'
  BY <1>1 DEF Inv, ValuesOwned, Fresh, Kept
<1>5. Shape'
  BY <1>1, <1>2, CountAssumption DEF Inv, Shape
<1>6. Walked'
  <2>1. ASSUME values # NULL, NEW k \in DOMAIN values  PROVE ~(k < 0)
    BY <2>1 DEF Inv, Shape
  <2>2. QED
    BY <1>1, <2>1 DEF Inv, Walked
<1>7. QED
  BY <1>3, <1>4, <1>5, <1>6 DEF Inv

LEMMA FreeValueInv ==
  ASSUME Inv, FreeValue
  PROVE  Inv'
<1>1. /\ pc = "free" /\ values # NULL /\ ~fault
      /\ UNCHANGED <<loaded, variables, max_idx, next, res>>
  BY DEF FreeValue, table, Inv, Shape, ValuesOwned
<1>2. CASE i <= max_idx
  <2>1. /\ heap' = FREE_EXPR(heap, values[i])
        /\ fault' = (fault \/ BadFree(heap, values[i]))
        /\ values' = [values EXCEPT ![i] = [@ EXCEPT !.ptr = NIL]]
        /\ i' = (i + 1) % Limit
        /\ pc' = pc
    BY <1>2 DEF FreeValue, WithinBound, NextIndex
  <2>2. /\ i \in Nat /\ max_idx \in Nat /\ 0..max_idx \subseteq DOMAIN values
        /\ values \in [DOMAIN values -> Value] /\ heap \subseteq Nat \ {NIL}
        /\ Limit \in Nat \ {0} /\ i \in 0..(Limit - 1)
    BY <1>1, LimitAssumption DEF Inv, TypeOK, Indexes
  <2>3. i \in DOMAIN values
    BY <1>2, <2>2
  <2>4. PICK d \in Indexes : DOMAIN values = 0..d
    BY <1>1 DEF Inv, Shape
  <2> DEFINE v == [values[i] EXCEPT !.ptr = NIL]
  <2>5. v \in Value /\ ~Owns(v)
    BY <2>2, <2>3 DEF Value, Owns, NIL
  <2>6. values' = [values EXCEPT ![i] = v]
    BY <2>1
  <2> HIDE DEF v
  <2> DEFINE kept == FREE_EXPR(heap, values[i])
  <2>7. /\ kept \subseteq heap
        /\ \A b \in heap : b \notin kept => Owns(values[i]) /\ b = values[i].ptr
        /\ heap' = kept
    BY <2>1 DEF FREE_EXPR
  <2> HIDE DEF kept
  <2>8. heap' = kept \cup Blocks({v}) /\ next' = IF Owns(v) THEN next + 1 ELSE next
    BY <1>1, <2>5, <2>7, OneBlock
  <2>9. ~fault'
    BY <1>1, <2>1, <2>3 DEF Inv, ValuesOwned, BadFree
  <2>10. /\ ValuesOwned' /\ Fresh'
         /\ values' # NULL
         /\ DOMAIN values' = DOMAIN values
         /\ values' \in [DOMAIN values -> Value]
         /\ heap' \subseteq Nat \ {NIL}
         /\ \A k \in DOMAIN values : values'[k] = IF k = i THEN v ELSE values[k]
    BY <1>1, <2>3, <2>5, <2>6, <2>7, <2>8, <2>9, StoreOwned DEF Inv
  <2>11. i' \in 0..(Limit - 1) /\ i' <= i + 1
    <3>1. CASE i + 1 = Limit
      BY <2>1, <2>2, <3>1
    <3>2. CASE i + 1 < Limit
      BY <2>1, <2>2, <3>2
    <3>3. QED
      BY <2>2, <3>1, <3>2
  <2>12. TypeOK'
    BY <1>1, <2>1, <2>9, <2>10, <2>11 DEF Inv, TypeOK
  <2>13. Shape'
    BY <1>1, <2>1, <2>4, <2>10 DEF Inv, Shape
  <2>14. Walked'
    <3>1. ASSUME NEW k \in DOMAIN values, k > max_idx \/ k < i'
          PROVE  ~Owns(values'[k])
      <4>1. CASE k = i
        BY <2>5, <2>10, <4>1
      <4>2. CASE k # i
        <5>1. k \in Nat
          BY <2>4
        <5>2. k > max_idx \/ k < i
          BY <2>2, <2>11, <3>1, <4>2, <5>1
        <5>3. QED
          BY <1>1, <2>10, <4>2, <5>2 DEF Inv, Walked
      <4>3. QED
        BY <4>1, <4>2
    <3>2. QED
      BY <1>1, <2>10, <3>1 DEF Walked
  <2>15. Kept'
    BY <1>1, <2>1 DEF Kept
  <2>16. QED
    BY <2>10, <2>12, <2>13, <2>14, <2>15 DEF Inv
<1>3. CASE ~(i <= max_idx)
  <2>1. values' = NULL /\ pc' = "freed" /\ UNCHANGED <<i, heap, fault>>
    BY <1>3 DEF FreeValue, WithinBound
  <2>2. TypeOK' /\ ValuesOwned' /\ Fresh' /\ Walked' /\ Kept'
    BY <1>1, <2>1 DEF Inv, TypeOK, ValuesOwned, Fresh, Walked, Kept
  <2>3. Shape'
    BY <1>1, <2>1 DEF Inv, Shape
  <2>4. QED
    BY <2>2, <2>3 DEF Inv
<1>4. QED
  BY <1>2, <1>3

LEMMA NextInv == Inv /\ [Next]_vars => Inv'
<1> SUFFICES ASSUME Inv, [Next]_vars  PROVE Inv'
  OBVIOUS
<1>1. CASE \E name \in {"ysc", "ystl", "ysv", "ysl"} : Load(name)
  BY <1>1, LoadInv
<1>2. CASE vm_init_vars
  BY <1>2, vm_init_varsInv
<1>3. CASE InitVar
  BY <1>3, InitVarInv
<1>4. CASE InitDone
  BY <1>4, InitDoneInv
<1>5. CASE \E idx \in 0..(Limit - 1) : vm_var_get(idx) \/ vm_var_set(idx) \/ vm_var_def(idx)
  BY <1>5, vm_var_getInv, vm_var_setInv, vm_var_defInv
<1>6. CASE free_vm
  BY <1>6, free_vmInv
<1>7. CASE FreeValue
  BY <1>7, FreeValueInv
<1>8. CASE UNCHANGED vars
  BY <1>8 DEF vars, table, Inv, TypeOK, ValuesOwned, Fresh, Shape, Walked, Kept, Distinct
<1>9. QED
  BY <1>1, <1>2, <1>3, <1>4, <1>5, <1>6, <1>7, <1>8 DEF Next

LEMMA Invariance == Spec => []Inv
<1>1. QED
  BY InitInv, NextInv, PTL DEF Spec

------------------------------------------------------------------------------
(* What is proved of the script VM.                                        *)

\* After every call and every iteration of the two loops the state of the VM is as
\* vm.h declares it, the index of a loop is a uint16_t, and values[0..max_idx] lies
\* within what vm_init_vars allocated.
THEOREM TypeCorrect == Spec => []TypeOK
<1>1. Inv => TypeOK
  BY DEF Inv
<1>2. QED
  BY <1>1, Invariance, PTL

\* However vm_var_set and free_vm are called, no two variables own one string,
\* none points at a freed one, and nothing is freed twice.
THEOREM StringsHaveOneOwner == Spec => []ValuesOwned
<1>1. Inv => ValuesOwned
  BY DEF Inv
<1>2. QED
  BY <1>1, Invariance, PTL

\* While the VM is in use every live string belongs to a variable, if the YSV
\* file gives no index twice.
THEOREM NothingLeaks == Spec => []NoLeak
<1>1. Inv => NoLeak
  <2> SUFFICES ASSUME Inv, pc = "ready", Distinct, values # NULL
               PROVE  heap \subseteq Blocks({values[k] : k \in DOMAIN values})
    BY DEF NoLeak
  <2>1. \A b \in heap : \E k \in DOMAIN values : Owns(values[k]) /\ values[k].ptr = b
    BY DEF Inv, Kept
  <2>2. QED
    BY <2>1, BlocksElem
<1>2. QED
  BY <1>1, Invariance, PTL

\* When the loop of free_vm ends, whatever the indexes and wherever it wrapped,
\* no variable owns a string any more: max_idx bounds all that own one.
THEOREM FreesAll == Spec => FreedAll
<1>1. Inv /\ [Next]_vars =>
        [(pc = "free" /\ pc' = "freed") => \A k \in DOMAIN values : ~Owns(values[k])]_vars
  <2> SUFFICES ASSUME Inv, Next, pc = "free", pc' = "freed", NEW k \in DOMAIN values
               PROVE  ~Owns(values[k])
    OBVIOUS
  <2>1. FreeValue
    BY DEF Next, Load, vm_init_vars, InitVar, InitDone, vm_var_get, vm_var_set,
           vm_var_def, free_vm
  <2>2. ~(i <= max_idx)
    BY <2>1 DEF FreeValue, WithinBound
  <2>3. values # NULL
    BY DEF Inv, Shape
  <2>4. k \in Nat /\ i \in Nat /\ max_idx \in Nat
    BY <2>3, LimitAssumption DEF Inv, Shape, TypeOK, Indexes
  <2>5. k > max_idx \/ k < i
    BY <2>2, <2>4
  <2>6. QED
    BY <2>3, <2>5 DEF Inv, Walked
<1>2. QED
  BY <1>1, Invariance, PTL DEF Spec, FreedAll
==============================================================================
