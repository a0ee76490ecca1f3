------------------------------- MODULE ScriptVM -------------------------------
(***************************************************************************)
(* The script VM of src/src/vm.c: the definitions main hands it, the       *)
(* variables vm_init_vars creates from YSV, vm_var_get, vm_var_set and     *)
(* vm_var_def on them, and free_vm.  The two loops of vm.c over uint16_t   *)
(* indexes are modelled one iteration at a time.                           *)
(*                                                                         *)
(* Nothing calls vm_var_get, vm_var_set and vm_var_def yet.  Their caller  *)
(* here keeps to the one discipline that the shallow copies of expr_value  *)
(* allow: a value given to vm_var_set is not used again by the caller, so  *)
(* it is a number or a string with a block of its own.                     *)
(***************************************************************************)
EXTENDS ExprValue, Integers, Sequences, FiniteSets, SequencesExt, FiniteSetsExt

CONSTANTS
  Limit,      \* how many numbers uint16_t has, 65536
  MaxIdx,     \* the largest variable index a YSV file uses
  MaxVars,    \* the most variables it defines (a bound)
  MaxBlocks,  \* the most strings ever allocated (a bound)
  NULL

ASSUME LimitAssumption == Limit \in Nat \ {0} /\ MaxIdx \in 0..(Limit - 1)
ASSUME CountAssumption == MaxVars \in 0..(Limit - 1) /\ MaxBlocks \in Nat

Indexes == 0..MaxIdx
Variable == [variable_idx : Indexes, type : {"YSV_NONE", "YSV_INT", "YSV_FLOAT", "YSV_EXPR"}]

ASSUME NullAssumption == /\ NULL \notin Nat
                         /\ \A last \in Indexes : NULL \notin [0..last -> Value]

VARIABLES
  pc,         \* "main", "init" and "free" (in those loops), "ready", "freed",
              \* "crash"
  loaded,     \* the definitions vm points to: "ysc", "ystl", "ysv", "ysl"
  variables,  \* ysv->variables[0..variable_count-1]
  values,     \* vm->vars.values: NULL, or an array of expr_value
  max_idx,    \* vm->vars.max_idx
  i,          \* the index of the loop that runs
  heap,       \* the live string blocks
  next,       \* the next block malloc returns
  fault,      \* a dead block has been freed
  res         \* the last vm_var_* call and its answer: [op, idx, ok, def]

table == <<loaded, variables>>
vars == <<pc, loaded, variables, values, max_idx, i, heap, next, fault, res>>

\* ysv->max_variable_idx, as parse_ysv leaves it.
max_variable_idx == Max({0} \cup {variables[k].variable_idx : k \in DOMAIN variables})

Answer(op, idx, ok, def) == res' = [op |-> op, idx |-> idx, ok |-> ok, def |-> def]

------------------------------------------------------------------------------
\* What main does before vm_init_vars.

\* The definitions are parsed in this order and vm is pointed at each.
Load(name) ==
  /\ pc = "main"
  /\ loaded = (CASE name = "ysc" -> {}
                 [] name = "ystl" -> {"ysc"}
                 [] name = "ysv" -> {"ysc", "ystl"}
                 [] name = "ysl" -> {"ysc", "ystl", "ysv"})
  /\ loaded' = loaded \cup {name}
  /\ IF name = "ysv" THEN variables' \in BoundedSeq(Variable, MaxVars)
                     ELSE UNCHANGED variables
  /\ UNCHANGED <<pc, values, max_idx, i, heap, next, fault, res>>

------------------------------------------------------------------------------
\* vm_init_vars

\* The array is calloc'ed, all EXPR_NONE; the result of calloc is not checked.
vm_init_vars ==
  /\ pc = "main" /\ "ysl" \in loaded
  /\ values' \in {NULL, [k \in 0..max_variable_idx |-> NONE_V]}
  /\ max_idx' = 0 /\ i' = 0
  /\ pc' = "init"
  /\ UNCHANGED <<loaded, variables, heap, next, fault, res>>

\* What evaluating an initial value may store: eval_expr leaves val zeroed when
\* it fails or the expression is empty, and gives it a new string otherwise.
\* See ResultOwned and FailureFrees of ExprVM; a string may have no text.
Evaluated(type) ==
  CASE type = "YSV_INT" -> {INT_V}
    [] type = "YSV_FLOAT" -> {FLT_V}
    [] type = "YSV_NONE" -> {NONE_V}
    [] type = "YSV_EXPR" -> {NONE_V, INT_V, FLT_V, STR_V(NIL)} \cup
                            (IF next <= MaxBlocks THEN {STR_V(next)} ELSE {})

\* Mutant: the bound is one past the largest index.
OnePast(idx) == IF idx >= max_idx THEN idx + 1 ELSE max_idx

Larger(idx) == IF idx > max_idx THEN idx ELSE max_idx

\* One iteration of the loop over ysv->variables.
InitVar ==
  /\ pc = "init" /\ i < Len(variables)
  /\ LET var == variables[i + 1]
         idx == var.variable_idx
     IN  IF values = NULL THEN pc' = "crash" /\ UNCHANGED <<values, max_idx, i, heap, next>>
         ELSE \E v \in Evaluated(var.type) :
                /\ max_idx' = Larger(idx)
                /\ values' = [values EXCEPT ![idx] = v]
                /\ IF Owns(v) THEN heap' = heap \cup {next} /\ next' = next + 1
                              ELSE UNCHANGED <<heap, next>>
                /\ i' = i + 1
                /\ UNCHANGED pc
  /\ UNCHANGED <<table, fault, res>>

InitDone == /\ pc = "init" /\ i = Len(variables)
            /\ pc' = "ready"
            /\ UNCHANGED <<table, values, max_idx, i, heap, next, fault, res>>

------------------------------------------------------------------------------
\* Variable access

vm_var_get(idx) ==
  /\ pc = "ready"
  /\ IF idx > max_idx THEN Answer("get", idx, FALSE, NULL) /\ UNCHANGED pc
     ELSE IF values = NULL THEN pc' = "crash" /\ UNCHANGED res
     ELSE Answer("get", idx, TRUE, NULL) /\ UNCHANGED pc
  /\ UNCHANGED <<table, values, max_idx, i, heap, next, fault>>

\* A number, or a string the caller has just made.
Given == {INT_V, FLT_V} \cup (IF next <= MaxBlocks THEN {STR_V(next)} ELSE {})

\* Mutant: the old value is not freed.
KeepingOld(old, val) == heap \cup Blocks({val})

\* Mutant: FREE_EXPR comes after the assignment.
FreeingNew(old, val) == heap \ Blocks({val})

\* The strings there are once val has taken the place of old.
Exchanged(old, val) == FREE_EXPR(heap, old) \cup Blocks({val})

\* The old value is freed and val takes its place.
vm_var_set(idx) ==
  /\ pc = "ready"
  /\ IF idx > max_idx
     THEN Answer("set", idx, FALSE, NULL) /\ UNCHANGED <<pc, values, heap, next, fault>>
     ELSE IF values = NULL THEN pc' = "crash" /\ UNCHANGED <<values, heap, next, fault, res>>
     ELSE \E val \in Given :
            /\ values' = [values EXCEPT ![idx] = val]
            /\ heap' = Exchanged(values[idx], val)
            /\ fault' = (fault \/ BadFree(heap, values[idx]))
            /\ next' = IF Owns(val) THEN next + 1 ELSE next
            /\ Answer("set", idx, TRUE, NULL)
            /\ UNCHANGED pc
  /\ UNCHANGED <<table, max_idx, i>>

\* The position in ysv->variables of the definition returned.
vm_var_def(idx) ==
  /\ pc = "ready"
  /\ IF idx > max_idx THEN Answer("def", idx, FALSE, NULL)
                      ELSE Answer("def", idx, TRUE, idx)
  /\ UNCHANGED <<pc, table, values, max_idx, i, heap, next, fault>>

------------------------------------------------------------------------------
\* free_vm

\* main calls it on every path that ends, whatever has been loaded by then, and
\* it may be called again.  The tables are freed first.
free_vm ==
  /\ pc \in {"main", "ready", "freed"}
  /\ loaded' = loaded \cap {"ystl"}
  /\ variables' = << >>
  /\ pc' = IF values = NULL THEN "freed" ELSE "free"
  /\ i' = 0
  /\ UNCHANGED <<values, max_idx, heap, next, fault, res>>

\* Mutant: the loop stops before the last value.
BelowLast == i < max_idx

\* The condition of the loop.
WithinBound == i <= max_idx

\* Mutant: the index of the loop is a narrower integer.
NarrowIndex == (i + 1) % (Limit \div 2)

NextIndex == (i + 1) % Limit

\* One iteration of the loop over vars.values, or its end.  The index wraps.
FreeValue ==
  /\ pc = "free"
  /\ IF WithinBound
     THEN /\ heap' = FREE_EXPR(heap, values[i])
          /\ fault' = (fault \/ BadFree(heap, values[i]))
          /\ values' = [values EXCEPT ![i] = [@ EXCEPT !.ptr = NIL]]
          /\ i' = NextIndex
          /\ UNCHANGED pc
     ELSE values' = NULL /\ pc' = "freed" /\ UNCHANGED <<i, heap, fault>>
  /\ UNCHANGED <<table, max_idx, next, res>>

------------------------------------------------------------------------------
Init == /\ pc = "main" /\ loaded = {} /\ variables = << >>
        /\ values = NULL /\ max_idx = 0 /\ i = 0
        /\ heap = {} /\ next = 1 /\ fault = FALSE
        /\ res = [op |-> "none", idx |-> 0, ok |-> TRUE, def |-> NULL]

Next == \/ \E name \in {"ysc", "ystl", "ysv", "ysl"} : Load(name)
        \/ vm_init_vars \/ InitVar \/ InitDone
        \/ \E idx \in 0..(Limit - 1) :
              vm_var_get(idx) \/ vm_var_set(idx) \/ vm_var_def(idx)
        \/ free_vm \/ FreeValue

Spec == Init /\ [][Next]_vars

\* free_vm runs to its end once called: it is a sequential loop of one thread.
FairSpec == Spec /\ WF_vars(FreeValue)

------------------------------------------------------------------------------
\* Properties

TypeOK == /\ pc \in {"main", "init", "ready", "free", "freed", "crash"}
          /\ loaded \subseteq {"ysc", "ystl", "ysv", "ysl"}
          /\ variables \in Seq(Variable)
          /\ values # NULL => /\ values \in [DOMAIN values -> Value]
                            /\ 0..max_idx \subseteq DOMAIN values
          /\ max_idx \in Indexes
          /\ i \in 0..(Limit - 1)
          /\ heap \subseteq Nat \ {NIL}
          /\ next \in Nat \ {NIL}
          /\ fault \in BOOLEAN
          /\ res.def \in {NULL} \cup Nat

\* Two variables never own one string block and a variable never points at a
\* freed one, between any two calls and while free_vm runs; so nothing is freed
\* twice, however often variables are set and the VM freed.
ValuesOwned ==
  /\ ~fault
  /\ values # NULL =>
       \A k, m \in DOMAIN values :
          Owns(values[k]) => /\ values[k].ptr \in heap
                             /\ values[m] = values[k] => m = k

Distinct == \A k, m \in DOMAIN variables :
              variables[k].variable_idx = variables[m].variable_idx => k = m

\* Every live string belongs to a variable, unless two definitions of the YSV
\* file had the same index: vm_init_vars stores over the first one's value.
NoLeak == (pc = "ready" /\ Distinct /\ values # NULL) =>
             heap \subseteq Blocks({values[k] : k \in DOMAIN values})

\* free_vm has freed every variable's string when it gives up the array.
FreedAll == [][(pc = "free" /\ pc' = "freed") =>
                 \A k \in DOMAIN values : ~Owns(values[k])]_vars

\* vm.h:52 of free_vm: "free resources owned by the VM".  It does, and returns.
FreeTerminates == pc = "free" ~> pc = "freed"

\* vm.h:50 of vm_var_def: "get variable definition from YSV".  Asked for a
\* variable that the YSV file defines, it returns that variable's definition.
DefMatches ==
  (/\ res.op = "def" /\ res.ok /\ pc = "ready"
   /\ \E k \in DOMAIN variables : variables[k].variable_idx = res.idx) =>
     /\ res.def + 1 \in DOMAIN variables
     /\ variables[res.def + 1].variable_idx = res.idx
==============================================================================
