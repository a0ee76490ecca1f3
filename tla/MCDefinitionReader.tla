-------------------------- MODULE MCDefinitionReader --------------------------
(***************************************************************************)
(* Files of up to three records, of versions on both sides of each change  *)
(* of format, ending around the end of their header, of each record and of *)
(* what follows the records.                                               *)
(***************************************************************************)
EXTENDS DefinitionReader

Args1 == [name : {0, 2}, type : {3, 4}]
Commands == {<< >>} \cup {<<c>> : c \in [name : {0, 3}, args : {<< >>} \cup {<<a>> : a \in Args1}]}
            \cup {<<c, d>> : c, d \in [name : {3}, args : {<< >>, <<[name |-> 2, type |-> 3]>>,
                     <<[name |-> 0, type |-> 1], [name |-> 1, type |-> 2]>>}]}
            \cup {[i \in 1..3 |-> [name |-> 1, args |-> << >>]]}
Scripts == {<< >>} \cup {<<r>> : r \in [len : {0, 1, 255, 256}, text : BOOLEAN]}
           \cup {<<r, s>> : r, s \in [len : {4}, text : BOOLEAN]}
           \cup {[i \in 1..3 |-> [len |-> 2, text |-> TRUE]]}
Var == [scope : {1}, idx : 0..MaxIdx, type : {0, 3}, dims : {0}, len : {2}, code : {TRUE}]
OddVar == [scope : {3, 4}, idx : {1}, type : 0..4, dims : {1, 8, 9}, len : {0, 2}, code : BOOLEAN]
Variables == {<< >>} \cup {<<v>> : v \in OddVar} \cup {<<v, w>> : v, w \in Var}
             \cup {<<v, w, x>> : v, w, x \in {u \in Var : u.type = 0}}
Labels == {<< >>} \cup {<<r>> : r \in [len : {0, 1, 255}, text : BOOLEAN]}
          \cup {<<r, s>> : r, s \in [len : {3}, text : BOOLEAN]}

RecordsOf(k) == CASE k = "ysc" -> Commands [] k = "ystl" -> Scripts
                  [] k = "ysv" -> Variables [] k = "ysl" -> Labels
Versions(k) == CASE k = "ystl" -> {300, 301, 469, 470} [] k = "ysv" -> {480, 481}
                 [] OTHER -> {450}

Whole == UNION {[kind : {k}, magic : {TRUE}, padding : {FALSE}, version : Versions(k),
                 recs : RecordsOf(k), errs : {IF k = "ysc" THEN 37 ELSE 0}, size : {0}] : k \in Kinds}

Cut(f) == {f} \cup
          {[f EXCEPT !.size = HeaderSize[f.kind] + d] : d \in {-1, 0, 1}} \cup
          {[f EXCEPT !.size = RustEnd(f, i) + d] : i \in 0..Len(f.recs), d \in {-13, -8, -3, -2, -1, 0, 1}} \cup
          {[f EXCEPT !.size = RustEnd(f, Len(f.recs)) + f.errs + 256 + d] : d \in {-1, 0, 1}}

Odd == {[kind |-> k, magic |-> k = "ysc", padding |-> TRUE, version |-> 450, recs |-> << >>,
         errs |-> 0, size |-> 20] : k \in Kinds}

MCFiles == {f \in Odd \cup UNION {Cut(f) : f \in Whole} : f.size >= 0}
==============================================================================
