--------------------------- MODULE DefinitionReader ---------------------------
(***************************************************************************)
(* The parsers of definition files in src/src/script_reader.c, on the byte *)
(* readers of utils.c: parse_ysc (commands), parse_ystl (scripts),         *)
(* parse_ysv (variables) and parse_ysl (labels), with free_ysv and         *)
(* free_ysl.  The parsers of libyuris for the same files are functions     *)
(* here, to compare them with.                                             *)
(*                                                                         *)
(* A file is its records and its size, which may end it anywhere; of a     *)
(* record only what its size and the checks depend on is kept.             *)
(***************************************************************************)
EXTENDS Integers, Sequences, FiniteSets, Summation

CONSTANTS
  Files,         \* the files there are
  MaxIdx,        \* the largest index of a variable (a bound)
  MAX_YSC_COMMANDS, MAX_YSC_ARGS, YSTL_MAX_SCRIPTS,  \* 255, 128 and 1024
  NULL

\* text: it can be converted from CP932.  code: libyuris can read the expression.
Kinds == {"ysc", "ystl", "ysv", "ysl"}
Command == [name : Nat, args : Seq([name : Nat, type : Nat])]     \* lengths
Script == [len : Nat, text : BOOLEAN]
Variable == [scope : Nat, idx : 0..MaxIdx, type : Nat, dims : Nat, len : Nat, code : BOOLEAN]
Label == [len : Nat, text : BOOLEAN]

RecordOf(kind) == CASE kind = "ysc" -> Command [] kind = "ystl" -> Script
                    [] kind = "ysv" -> Variable [] kind = "ysl" -> Label

\* padding: the last word of the header of a ysc.  errs: how many bytes the 37
\* messages of a ysc have that follow its records, with 256 bytes behind them.
ASSUME FilesAssumption ==
  \A f \in Files : /\ f.kind \in Kinds /\ f.magic \in BOOLEAN /\ f.padding \in BOOLEAN
                   /\ f.version \in Nat /\ f.size \in Nat /\ f.errs \in Nat
                   /\ f.recs \in Seq(RecordOf(f.kind))
ASSUME BoundsAssumption ==
  {MaxIdx, MAX_YSC_COMMANDS, MAX_YSC_ARGS, YSTL_MAX_SCRIPTS} \subseteq Nat

YSV_EXPR == 3
ZERO == [idx |-> 0, type |-> 0]     \* as calloc leaves a variable

VARIABLES
  pc,      \* "idle", "records", "parsed": the caller's
  file,
  offset,
  n,       \* records read
  table,   \* of a ysv: the index and type of out->variables, from 0 on
  lookup,  \* out->lookup: a variable for each index, or NULL for it
  live,    \* "table" and "lookup", if allocated
  strs,    \* the records with a string allocated
  rc       \* what the parser returned

vars == <<pc, file, offset, n, table, lookup, live, strs, rc>>

kind == file.kind
count == Len(file.recs)
left == file.size - offset
rec == file.recs[n + 1]

\* Nothing is freed by the exits of the parsers.
Fail(code) == pc' = "idle" /\ rc' = code

------------------------------------------------------------------------------
\* The headers

HeaderSize == [ysc |-> 16, ystl |-> 12, ysv |-> 10, ysl |-> 12]

\* Mutant: one record too many passes.
OneTooMany(k, c) == /\ k = "ysc" => c <= MAX_YSC_COMMANDS + 1
                    /\ k = "ystl" => c <= YSTL_MAX_SCRIPTS + 1

\* The arrays of the caller are large enough for the records announced.
WithinTable(k, c) == /\ k = "ysc" => c <= MAX_YSC_COMMANDS
                     /\ k = "ystl" => c <= YSTL_MAX_SCRIPTS

\* What the header makes a parser return, or "none".  parse_ysc wants more than a
\* header, and only the parsers of variables and labels read the magic as a field.
HeaderError(f) ==
  IF f.size < (IF f.kind = "ysc" THEN 17 ELSE 4)
    THEN IF f.kind = "ystl" THEN "EBADMSG" ELSE "EINVAL"
  ELSE IF ~f.magic THEN IF f.kind \in {"ysc", "ystl"} THEN "EBADMSG" ELSE "EINVAL"
  ELSE IF f.size < HeaderSize[f.kind] \/ ~WithinTable(f.kind, Len(f.recs))
          \/ (f.kind = "ysc" /\ f.padding) THEN "EINVAL"
  ELSE "none"

\* The parser is called: it keeps nothing from one call to the next.  The 256 words
\* behind the header of labels are skipped whether the file has them or not.
Begin ==
  /\ pc = "idle" /\ rc = "none"
  /\ offset' = HeaderSize[kind] + IF kind = "ysl" THEN 4 * 256 ELSE 0
  /\ \/ /\ HeaderError(file) = "none"
        /\ table' = [i \in 0..(IF kind = "ysv" THEN count ELSE 0) - 1 |-> ZERO]
        /\ live' = IF kind \in {"ysv", "ysl"} THEN {"table"} ELSE {}
        /\ pc' = "records" /\ UNCHANGED rc
     \/ /\ HeaderError(file) # "none" \/ kind \in {"ysv", "ysl"}
        /\ Fail(IF HeaderError(file) # "none" THEN HeaderError(file) ELSE "ENOMEM")
        /\ UNCHANGED <<table, live>>
  /\ UNCHANGED <<file, n, lookup, strs>>

------------------------------------------------------------------------------
\* The records

Advance(size) == offset' = offset + size /\ n' = n + 1 /\ UNCHANGED <<pc, rc>>
Stuck(code) == Fail(code) /\ UNCHANGED <<offset, n>>

\* parse_ysc: read_str takes a string and its NUL, of which the first 63 bytes are
\* kept; a command has a name.
ReadCommand ==
  /\ pc = "records" /\ kind = "ysc" /\ n < count
  /\ LET size == rec.name + 2 + SumTo([a \in DOMAIN rec.args |-> rec.args[a].name + 3], Len(rec.args))
     IN  IF /\ size <= left /\ rec.name > 0 /\ Len(rec.args) <= MAX_YSC_ARGS
            /\ \A a \in DOMAIN rec.args : rec.args[a].type <= 3
         THEN Advance(size) ELSE Stuck("EINVAL")
  /\ UNCHANGED <<file, table, lookup, live, strs>>

\* Mutant: text_count is not read.
ScriptSizeWithoutText(r, version) == 24 + r.len

ScriptSize(r, version) == 24 + r.len + IF version > 300 THEN 4 ELSE 0

\* parse_ystl: the path, which must fit its array with a NUL and be convertible;
\* if it is not the code is a stale errno or EILSEQ.
ReadScript ==
  /\ pc = "records" /\ kind = "ystl" /\ n < count
  /\ IF rec.len \notin 1..255 \/ 8 + rec.len > left THEN Stuck("EINVAL")
     ELSE IF ~rec.text THEN Stuck("EILSEQ")
     ELSE IF ScriptSize(rec, file.version) > left THEN Stuck("EINVAL")
     ELSE Advance(ScriptSize(rec, file.version))
  /\ UNCHANGED <<file, table, lookup, live, strs>>

\* parse_ysv: the bytes of a variable up to its type, its initial value, and all.
HeadSize(version) == IF version >= 481 THEN 7 ELSE 6
ValueAt(r, version) == HeadSize(version) + 1 + 4 * r.dims
VariableSize(r, version) ==
  ValueAt(r, version) + CASE r.type \in {1, 2} -> 8 [] r.type = YSV_EXPR -> 2 + r.len [] OTHER -> 0

\* Mutant: the type is stored with the value.
StoredBefore(r, version) == VariableSize(r, version)

\* The bytes of a variable that must be there for its type to be stored.
StoredAfter(r, version) == HeadSize(version)

\* A variable is stored in the table up to its type.  The block of an expression
\* is allocated before its bytes are read.
ReadVariable ==
  /\ pc = "records" /\ kind = "ysv" /\ n < count
  /\ LET stored == rec.scope <= 3 /\ StoredAfter(rec, file.version) <= left
         string == rec.type = YSV_EXPR
         headed == /\ rec.scope <= 3 /\ rec.type <= 3 /\ rec.dims <= 8
                   /\ ValueAt(rec, file.version) + (IF string THEN 2 ELSE 0) <= left
     IN  /\ table' = IF stored THEN [table EXCEPT ![n] = [idx |-> rec.idx, type |-> rec.type]]
                               ELSE table
         /\ \/ ~headed /\ Stuck("EINVAL") /\ UNCHANGED strs
            \/ headed /\ string /\ Stuck("ENOMEM") /\ UNCHANGED strs
            \/ /\ headed
               /\ strs' = IF string THEN strs \cup {n} ELSE strs
               /\ IF VariableSize(rec, file.version) <= left
                  THEN Advance(VariableSize(rec, file.version)) ELSE Stuck("EINVAL")
  /\ UNCHANGED <<file, lookup, live>>

\* parse_ysl: read_fixed takes no name of no bytes, and of one that cannot be
\* converted, or has no room, NULL is kept.
ReadLabel ==
  /\ pc = "records" /\ kind = "ysl" /\ n < count
  /\ \/ left >= 1 /\ Stuck("ENOMEM") /\ UNCHANGED strs
     \/ (rec.len = 0 \/ 1 + rec.len > left) /\ Stuck("EINVAL") /\ UNCHANGED strs
     \/ /\ rec.len > 0 /\ 1 + rec.len <= left
        /\ strs' \in IF rec.text THEN {strs, strs \cup {n}} ELSE {strs}
        /\ IF 13 + rec.len <= left THEN Advance(13 + rec.len) ELSE Stuck("EINVAL")
  /\ UNCHANGED <<file, table, lookup, live>>

------------------------------------------------------------------------------
\* The end

Greatest(S) == CHOOSE x \in S : \A y \in S : y <= x

\* Mutant: of the variables but the last.
IndexesButLast == {0} \cup {table[v].idx : v \in DOMAIN table \ {count - 1}}

Indexes == {0} \cup {table[v].idx : v \in DOMAIN table}

\* The last variable of an index.
LastOf(i) == LET vs == {v \in DOMAIN table : table[v].idx = i}
             IN  IF vs = {} THEN NULL ELSE Greatest(vs)

\* All records are read; of variables the lookup table is made.
Finish ==
  /\ pc = "records" /\ n = count
  /\ \/ /\ kind = "ysv"
        /\ \/ Fail("ENOMEM") /\ UNCHANGED <<lookup, live>>
           \/ /\ lookup' = [i \in 0..Greatest(Indexes) |-> LastOf(i)]
              /\ live' = live \cup {"lookup"} /\ pc' = "parsed" /\ rc' = "0"
     \/ /\ kind # "ysv"
        /\ pc' = "parsed" /\ rc' = "0" /\ UNCHANGED <<lookup, live>>
  /\ UNCHANGED <<file, offset, n, table, strs>>

\* The records whose string free_ysv or free_ysl frees, if it is not NULL.
Reachable == IF kind = "ysv" THEN {v \in DOMAIN table : table[v].type = YSV_EXPR} ELSE 0..(count - 1)

\* The caller of a parser that succeeded frees its result.
Free == /\ pc = "parsed"
        /\ strs' = strs \ Reachable
        /\ live' = live \ {"table", "lookup"}
        /\ table' = << >> /\ lookup' = << >> /\ pc' = "idle"
        /\ UNCHANGED <<file, offset, n, rc>>

Init == /\ pc = "idle" /\ file \in Files /\ offset = 0 /\ n = 0
        /\ table = << >> /\ lookup = << >> /\ live = {} /\ strs = {} /\ rc = "none"

Next == Begin \/ ReadCommand \/ ReadScript \/ ReadVariable \/ ReadLabel \/ Finish \/ Free

Spec == Init /\ [][Next]_vars

------------------------------------------------------------------------------
\* The parsers of libyuris: yscm.rs, ystl.rs, ysvr.rs and yslb.rs

RustHeader == [ysc |-> 16, ystl |-> 12, ysv |-> 10, ysl |-> 12 + 4 * 256]

RustRecord(f, r) ==
  CASE f.kind = "ysc" ->
         r.name + 1 + 1 + SumTo([a \in DOMAIN r.args |-> r.args[a].name + 1 + 2], Len(r.args))
    [] f.kind = "ystl" -> 4 + 4 + r.len + 8 + (IF f.version < 470 THEN 8 ELSE 12)
    [] f.kind = "ysv" ->
         (IF f.version < 481 THEN 7 ELSE 8) + 4 * r.dims
           + (CASE r.type = 0 -> 0 [] r.type \in {1, 2} -> 8 [] OTHER -> 2 + r.len)
    [] f.kind = "ysl" -> 1 + r.len + 4 + 4 + 2 + 1 + 1

\* Where the first k records end.
RustEnd(f, k) ==
  RustHeader[f.kind] + SumTo([i \in 1..k |-> RustRecord(f, f.recs[i])], k)

\* The records can be read.  A type of variable that does not exist and an expression
\* that is none are refused.
RustRecords(f) ==
  /\ f.magic /\ f.version \in 200..500
  /\ f.kind = "ysv" =>
        \A i \in DOMAIN f.recs : f.recs[i].type <= 3 /\ (f.recs[i].type = 3 => f.recs[i].code)
  /\ f.size >= RustEnd(f, Len(f.recs))

\* A file ends behind its records, or what belongs behind them, with no byte more:
\* assert_eof.
AtEnd(f) == f.size = RustEnd(f, Len(f.recs)) + IF f.kind = "ysc" THEN f.errs + 256 ELSE 0

\* parse of each of the four.
RustReads(f) == RustRecords(f) /\ AtEnd(f)

------------------------------------------------------------------------------
\* Properties

TypeOK ==
  /\ pc \in {"idle", "records", "parsed"}
  /\ kind \in Kinds
  /\ offset \in Nat
  /\ n \in 0..count
  /\ pc \in {"records", "parsed"} =>      \* within the array of the caller
        (kind = "ysc" => n <= MAX_YSC_COMMANDS) /\ (kind = "ystl" => n <= YSTL_MAX_SCRIPTS)
  /\ \A v \in DOMAIN table : table[v].idx \in 0..MaxIdx /\ table[v].type \in Nat
  /\ \A i \in DOMAIN lookup : lookup[i] \in DOMAIN table \cup {NULL}
  /\ live \subseteq {"table", "lookup"}
  /\ strs \subseteq 0..(count - 1)
  /\ rc \in {"none", "0", "EINVAL", "EBADMSG", "EILSEQ", "ENOMEM"}

\* Every variable of a parsed file is found under its index, unless a later one
\* has the same index: the table is large enough for all of them.
AllFound ==
  (pc = "parsed" /\ kind = "ysv") =>
     \A v \in DOMAIN table :
        /\ table[v].idx \in DOMAIN lookup
        /\ lookup[table[v].idx] \in {w \in DOMAIN table : w >= v /\ table[w].idx = table[v].idx}

\* Wherever a parser stops, in the middle of a record too, the function that frees
\* its result would find every string it has allocated; and it leaves nothing.
Released == /\ (pc # "idle" \/ rc # "0") => strs \subseteq Reachable
            /\ (pc = "idle" /\ rc = "0") => live = {} /\ strs = {}

\* What the player's parsers are stricter about than those of libyuris: the sizes of
\* their tables, names that must not be empty, and codes without a meaning.
WithinLimits(f) ==
  /\ Len(f.recs) > 0 /\ WithinTable(f.kind, Len(f.recs))
  /\ f.kind = "ysc" => ~f.padding
  /\ \A i \in DOMAIN f.recs :
        LET r == f.recs[i]
        IN  CASE f.kind = "ysc" -> /\ r.name > 0 /\ Len(r.args) <= MAX_YSC_ARGS
                                   /\ \A a \in DOMAIN r.args : r.args[a].type <= 3
              [] f.kind = "ystl" -> r.len \in 1..255 /\ r.text
              [] f.kind = "ysv" -> r.scope <= 3 /\ r.dims <= 8
                                   /\ (r.type = YSV_EXPR => r.code)
              [] f.kind = "ysl" -> r.len > 0

\* The player and libyuris disagree about lists of scripts of these versions: the
\* player reads a text_count, from 301 on, that libyuris expects from 470 on.
Disputed(f) == f.kind = "ystl" /\ f.version \in 301..469

\* The player's parsers and those of libyuris have the same records end at the same
\* byte, but for lists of scripts in dispute, of which each record is the 4 bytes of
\* text_count longer.  A file within the limits of the player is read by it if, and
\* only if, libyuris can read its records; and libyuris reads those of them that end
\* where they should, for the player does not look at what follows the records.
ParsersAgree ==
  /\ pc \in {"records", "parsed"} =>
        offset = RustEnd(file, n) + IF Disputed(file) THEN 4 * n ELSE 0
  /\ (/\ ~Disputed(file) /\ WithinLimits(file) /\ file.version \in 200..500
      /\ rc \notin {"none", "ENOMEM"}) =>
        /\ rc = "0" <=> RustRecords(file)
        /\ RustReads(file) <=> rc = "0" /\ AtEnd(file)
==============================================================================
