------------------------ MODULE DefinitionReaderProofs ------------------------
(***************************************************************************)
(* Proofs about the parsers of definition files, for any file, any limits  *)
(* of the caller's arrays and any number of records: what they allocate is *)
(* found again, the lookup table has every variable, and the parsers read  *)
(* the files that libyuris reads.                                          *)
(***************************************************************************)
EXTENDS DefinitionReader, DataFacts, TLAPS

\* Before the call and while records are read: the header was accepted, the table
\* of variables has a place for each, and a string belongs to a record read.
Parsing ==
  /\ file \in Files
  /\ (pc = "idle" /\ rc = "none") => n = 0 /\ table = << >> /\ strs = {}
  /\ pc = "records" => rc = "none" /\ \A v \in strs : v < n
  /\ pc = "parsed" => rc = "0" /\ n = count
  /\ pc \in {"records", "parsed"} =>
       /\ HeaderError(file) = "none"
       /\ kind = "ysv" => DOMAIN table = 0..(count - 1)
  /\ pc # "parsed" => lookup = << >>

\* What n records of f have more than libyuris has them have.
Extra(f, k) == IF Disputed(f) THEN 4 * k ELSE 0

\* The records read are whole, and libyuris has them end at the same place.
SameEnds ==
  pc \in {"records", "parsed"} =>
    /\ n > 0 => offset <= file.size
    /\ kind = "ysv" => \A i \in 1..n : file.recs[i].type <= 3
    /\ offset = RustEnd(file, n) + Extra(file, n)

\* What a parser has said of a file is what libyuris says.
Verdict ==
  (/\ ~Disputed(file) /\ WithinLimits(file) /\ file.version \in 200..500
   /\ rc \notin {"none", "ENOMEM"}) => (rc = "0" <=> RustRecords(file))

Inv == TypeOK /\ AllFound /\ Released /\ Parsing /\ SameEnds /\ Verdict

------------------------------------------------------------------------------
(* Files, and where libyuris has their records end.                        *)

LEMMA FileType ==
  ASSUME NEW f \in Files
  PROVE  /\ f.kind \in {"ysc", "ystl", "ysv", "ysl"}
         /\ f.version \in Nat /\ f.size \in Nat
         /\ f.magic \in BOOLEAN /\ f.padding \in BOOLEAN
         /\ Len(f.recs) \in Nat /\ DOMAIN f.recs = 1..Len(f.recs)
         /\ \A i \in 1..Len(f.recs) : f.recs[i] \in RecordOf(f.kind)
<1>1. f.kind \in Kinds /\ f.recs \in Seq(RecordOf(f.kind))
  BY FilesAssumption
<1>2. Len(f.recs) \in Nat /\ DOMAIN f.recs = 1..Len(f.recs)
  BY <1>1, LenProperties
<1>3. \A i \in DOMAIN f.recs : f.recs[i] \in RecordOf(f.kind)
  BY <1>1, SeqDomain
<1>4. QED
  BY <1>1, <1>2, <1>3, FilesAssumption DEF Kinds

\* The sizes of the arguments of a command, as either program adds them up.
LEMMA ArgsSize ==
  ASSUME NEW r \in Command
  PROVE  /\ SumTo([a \in DOMAIN r.args |-> r.args[a].name + 3], Len(r.args)) \in Nat
         /\ SumTo([a \in DOMAIN r.args |-> r.args[a].name + 1 + 2], Len(r.args))
              = SumTo([a \in DOMAIN r.args |-> r.args[a].name + 3], Len(r.args))
<1> DEFINE p == [a \in DOMAIN r.args |-> r.args[a].name + 3]
           q == [a \in DOMAIN r.args |-> r.args[a].name + 1 + 2]
           k == Len(r.args)
<1>1. r.args \in Seq([name : Nat, type : Nat])
  BY DEF Command
<1>2. k \in Nat /\ DOMAIN r.args = 1..k /\ \A a \in 1..k : r.args[a] \in [name : Nat, type : Nat]
  <2>1. k \in Nat /\ DOMAIN r.args = 1..k
    BY <1>1, LenProperties
  <2>2. \A a \in 1..k : r.args[a] \in [name : Nat, type : Nat]
    BY <1>1, ElementOfSeq
  <2>3. QED
    BY <2>1, <2>2
<1>3. \A a \in 1..k : p[a] \in Nat /\ q[a] = p[a]
  <2> SUFFICES ASSUME NEW a \in 1..k  PROVE p[a] \in Nat /\ q[a] = p[a]
    OBVIOUS
  <2>1. r.args[a].name \in Nat
    BY <1>2
  <2>2. p[a] = r.args[a].name + 3 /\ q[a] = r.args[a].name + 1 + 2
    BY <1>2
  <2> HIDE DEF p, q
  <2>3. QED
    BY <2>1, <2>2
<1> HIDE DEF p, q, k
<1>4. SumTo(p, k) \in Nat
  BY <1>2, <1>3, SumToNat
<1>5. SumTo(q, k) = SumTo(p, k)
  BY <1>2, <1>3, SumToSame
<1>6. QED
  BY <1>4, <1>5 DEF p, q, k

\* The size of a record of each kind for libyuris.
LEMMA RustRecordIs ==
  ASSUME NEW f \in Files, NEW r \in RecordOf(f.kind)
  PROVE  /\ f.kind = "ysc" =>
              /\ r \in Command
              /\ RustRecord(f, r) = r.name + 2
                   + SumTo([a \in DOMAIN r.args |-> r.args[a].name + 3], Len(r.args))
         /\ f.kind = "ystl" =>
              /\ r \in Script
              /\ RustRecord(f, r) = 16 + r.len + (IF f.version < 470 THEN 8 ELSE 12)
         /\ f.kind = "ysv" =>
              /\ r \in Variable
              /\ RustRecord(f, r) = (IF f.version < 481 THEN 7 ELSE 8) + 4 * r.dims
                   + (IF r.type = 0 THEN 0 ELSE IF r.type \in {1, 2} THEN 8 ELSE 2 + r.len)
         /\ f.kind = "ysl" => r \in Label /\ RustRecord(f, r) = 13 + r.len
         /\ RustRecord(f, r) \in Nat /\ RustRecord(f, r) > 0
<1>1. f.kind \in {"ysc", "ystl", "ysv", "ysl"} /\ f.version \in Nat
  BY FileType
<1>2. CASE f.kind = "ysc"
  <2>1. r \in Command /\ r.name \in Nat
    BY <1>2 DEF RecordOf, Command
  <2>2. RustRecord(f, r) =
          r.name + 1 + 1 + SumTo([a \in DOMAIN r.args |-> r.args[a].name + 1 + 2], Len(r.args))
    BY <1>2 DEF RustRecord
  <2>3. QED
    BY <1>2, <2>1, <2>2, ArgsSize
<1>3. CASE f.kind = "ystl"
  <2>1. r \in Script /\ r.len \in Nat
    BY <1>3 DEF RecordOf, Script
  <2>2. RustRecord(f, r) = 4 + 4 + r.len + 8 + (IF f.version < 470 THEN 8 ELSE 12)
    BY <1>3 DEF RustRecord
  <2>3. QED
    BY <1>1, <1>3, <2>1, <2>2
<1>4. CASE f.kind = "ysv"
  <2>1. r \in Variable /\ r.len \in Nat /\ r.dims \in Nat
    BY <1>4 DEF RecordOf, Variable
  <2>2. RustRecord(f, r) = (IF f.version < 481 THEN 7 ELSE 8) + 4 * r.dims
           + (CASE r.type = 0 -> 0 [] r.type \in {1, 2} -> 8 [] OTHER -> 2 + r.len)
    BY <1>4 DEF RustRecord
  <2>3. QED
    BY <1>1, <1>4, <2>1, <2>2
<1>5. CASE f.kind = "ysl"
  <2>1. r \in Label /\ r.len \in Nat
    BY <1>5 DEF RecordOf, Label
  <2>2. RustRecord(f, r) = 1 + r.len + 4 + 4 + 2 + 1 + 1
    BY <1>5 DEF RustRecord
  <2>3. QED
    BY <1>5, <2>1, <2>2
<1>6. QED
  BY <1>1, <1>2, <1>3, <1>4, <1>5

\* The same for one kind of file each.
LEMMA CommandRecord ==
  ASSUME NEW f \in Files, NEW r \in RecordOf(f.kind), f.kind = "ysc"
  PROVE  r \in Command /\ RustRecord(f, r) = r.name + 2
           + SumTo([a \in DOMAIN r.args |-> r.args[a].name + 3], Len(r.args))
BY RustRecordIs

LEMMA ScriptRecord ==
  ASSUME NEW f \in Files, NEW r \in RecordOf(f.kind), f.kind = "ystl"
  PROVE  r \in Script /\ RustRecord(f, r) = 16 + r.len + (IF f.version < 470 THEN 8 ELSE 12)
BY RustRecordIs

LEMMA LabelRecord ==
  ASSUME NEW f \in Files, NEW r \in RecordOf(f.kind), f.kind = "ysl"
  PROVE  r \in Label /\ RustRecord(f, r) = 13 + r.len
<1>1. r \in Label /\ r.len \in Nat
  BY DEF RecordOf, Label
<1>2. RustRecord(f, r) = 1 + r.len + 4 + 4 + 2 + 1 + 1
  BY DEF RustRecord
<1>3. QED
  BY <1>1, <1>2

\* The records start behind the header.
LEMMA RustEndStart ==
  ASSUME NEW f \in Files
  PROVE  RustEnd(f, 0) = IF f.kind = "ysc" THEN 16 ELSE IF f.kind = "ystl" THEN 12
                         ELSE IF f.kind = "ysv" THEN 10 ELSE 1036
<1> DEFINE sizes == [i \in 1..0 |-> RustRecord(f, f.recs[i])]
<1>1. RustEnd(f, 0) = RustHeader[f.kind] + SumTo(sizes, 0)
  BY DEF RustEnd
<1> HIDE DEF sizes
<1>2. SumTo(sizes, 0) = 0
  BY SumToStep
<1>3. RustHeader[f.kind] = IF f.kind = "ysc" THEN 16 ELSE IF f.kind = "ystl" THEN 12
                           ELSE IF f.kind = "ysv" THEN 10 ELSE 1036
  BY FileType DEF RustHeader
<1>4. QED
  BY <1>1, <1>2, <1>3

\* Each record ends where the one before did, and as many bytes on.
LEMMA RustEndStep ==
  ASSUME NEW f \in Files, NEW k \in Nat, k < Len(f.recs)
  PROVE  /\ RustEnd(f, k) \in Nat
         /\ RustEnd(f, k + 1) = RustEnd(f, k) + RustRecord(f, f.recs[k + 1])
         /\ RustRecord(f, f.recs[k + 1]) \in Nat \ {0}
<1> DEFINE Sizes(j) == [i \in 1..j |-> RustRecord(f, f.recs[i])]
<1>1. \A j : RustEnd(f, j) = RustHeader[f.kind] + SumTo(Sizes(j), j)
  BY DEF RustEnd
<1>2. RustHeader[f.kind] \in Nat
  BY FileType DEF RustHeader
<1>3. \A i \in 1..k : Sizes(k + 1)[i] = Sizes(k)[i]
  OBVIOUS
<1>4. Sizes(k + 1)[k + 1] = RustRecord(f, f.recs[k + 1])
  OBVIOUS
<1> HIDE DEF Sizes
<1>6. SumTo(Sizes(k + 1), k + 1) = SumTo(Sizes(k + 1), k) + RustRecord(f, f.recs[k + 1])
  BY <1>4, SumToStep
<1>7. SumTo(Sizes(k + 1), k) = SumTo(Sizes(k), k)
  BY <1>3, SumToSame
<1>8. \A i \in 1..(k + 1) : RustRecord(f, f.recs[i]) \in Nat \ {0}
  <2>1. ASSUME NEW i \in 1..(k + 1)  PROVE RustRecord(f, f.recs[i]) \in Nat \ {0}
    <3>1. PICK r \in RecordOf(f.kind) : r = f.recs[i]
      BY FileType
    <3>2. RustRecord(f, r) \in Nat /\ RustRecord(f, r) > 0
      BY RustRecordIs
    <3>3. QED
      BY <3>1, <3>2
  <2>2. QED
    BY <2>1
<1>9. RustRecord(f, f.recs[k + 1]) \in Nat \ {0}
  BY <1>8
<1>10. SumTo(Sizes(k), k) \in Nat
  <2>1. \A i \in 1..k : Sizes(k)[i] \in Nat
    BY <1>8 DEF Sizes
  <2>2. QED
    BY <2>1, SumToNat
<1>11. RustEnd(f, k) \in Nat
  BY <1>1, <1>2, <1>10
<1>12. RustEnd(f, k + 1) = RustEnd(f, k) + RustRecord(f, f.recs[k + 1])
  BY <1>1, <1>2, <1>6, <1>7, <1>9, <1>10
<1>13. QED
  BY <1>9, <1>11, <1>12

\* The ends of the records follow each other; the last is the end of the file.
LEMMA RustEndGrows ==
  ASSUME NEW f \in Files, NEW j \in Nat, NEW k \in Nat, j <= k, k <= Len(f.recs), 0 < k
  PROVE  RustEnd(f, j) \in Nat /\ RustEnd(f, k) \in Nat /\ RustEnd(f, j) <= RustEnd(f, k)
<1> DEFINE S == {m \in Nat : /\ j <= m /\ m <= k
                             /\ ~ (RustEnd(f, m) \in Nat /\ RustEnd(f, j) <= RustEnd(f, m))}
<1>1. Len(f.recs) \in Nat
  BY FileType
<1>2. RustEnd(f, j) \in Nat
  <2>1. CASE j < Len(f.recs)
    BY <2>1, RustEndStep
  <2>2. CASE j >= Len(f.recs)
    <3>1. j - 1 \in Nat /\ j - 1 < Len(f.recs) /\ (j - 1) + 1 = j
      BY <1>1, <2>2
    <3>2. RustEnd(f, j) = RustEnd(f, j - 1) + RustRecord(f, f.recs[j])
          /\ RustEnd(f, j - 1) \in Nat /\ RustRecord(f, f.recs[j]) \in Nat
      BY <3>1, RustEndStep
    <3>3. QED
      BY <3>2
  <2>3. QED
    BY <1>1, <2>1, <2>2
<1>3. CASE S = {}
  <2>1. k \notin S /\ k <= k
    BY <1>3
  <2>2. QED
    BY <1>2, <2>1
<1>4. CASE S # {}
  <2>1. PICK m \in S : \A x \in S : m <= x
    BY <1>4, LeastExists
  <2>2. /\ m \in Nat /\ j <= m /\ m <= k
        /\ ~ (RustEnd(f, m) \in Nat /\ RustEnd(f, j) <= RustEnd(f, m))
    BY <2>1
  <2>3. m # j
    BY <1>2, <2>2
  <2>4. /\ m - 1 \in Nat /\ m - 1 < Len(f.recs) /\ (m - 1) + 1 = m
        /\ j <= m - 1 /\ m - 1 <= k
    BY <1>1, <2>2, <2>3
  <2>5. m - 1 \notin S
    BY <2>1, <2>4
  <2>6. RustEnd(f, m - 1) \in Nat /\ RustEnd(f, j) <= RustEnd(f, m - 1)
    BY <2>4, <2>5
  <2>7. /\ RustEnd(f, m) = RustEnd(f, m - 1) + RustRecord(f, f.recs[m])
        /\ RustRecord(f, f.recs[m]) \in Nat
    BY <2>4, RustEndStep
  <2>8. QED
    BY <1>2, <2>2, <2>6, <2>7
<1>5. QED
  BY <1>3, <1>4

\* libyuris does not read a file that ends within a record.
LEMMA ShortFile ==
  ASSUME NEW f \in Files, NEW k \in Nat, k < Len(f.recs),
         f.size < RustEnd(f, k) + RustRecord(f, f.recs[k + 1])
  PROVE  ~RustRecords(f)
<1>1. Len(f.recs) \in Nat /\ f.size \in Nat
  BY FileType
<1>2. /\ RustEnd(f, k + 1) = RustEnd(f, k) + RustRecord(f, f.recs[k + 1])
      /\ RustEnd(f, k) \in Nat /\ RustRecord(f, f.recs[k + 1]) \in Nat
  BY RustEndStep
<1>3. k + 1 \in Nat /\ k + 1 <= Len(f.recs) /\ Len(f.recs) <= Len(f.recs) /\ 0 < Len(f.recs)
  BY <1>1
<1>4. RustEnd(f, k + 1) <= RustEnd(f, Len(f.recs)) /\ RustEnd(f, Len(f.recs)) \in Nat
  BY <1>1, <1>3, RustEndGrows
<1>5. f.size < RustEnd(f, Len(f.recs))
  BY <1>1, <1>2, <1>4
<1>6. QED
  BY <1>1, <1>4, <1>5 DEF RustRecords

\* Nor one whose header the player refuses, unless for a limit of its own.
LEMMA BadHeader ==
  ASSUME NEW f \in Files, WithinLimits(f), HeaderError(f) # "none"
  PROVE  ~RustRecords(f)
<1>1. /\ f.kind \in {"ysc", "ystl", "ysv", "ysl"} /\ f.size \in Nat
      /\ Len(f.recs) \in Nat /\ 0 < Len(f.recs)
  BY FileType DEF WithinLimits
<1>2. WithinTable(f.kind, Len(f.recs)) /\ (f.kind = "ysc" => ~f.padding)
  BY DEF WithinLimits
<1>3. CASE ~f.magic
  BY <1>3 DEF RustRecords
<1>4. CASE f.magic
  <2>1. f.size < (IF f.kind = "ysc" THEN 17 ELSE 4) \/ f.size < HeaderSize[f.kind]
    BY <1>2, <1>4 DEF HeaderError
  <2>2. HeaderSize[f.kind] = IF f.kind = "ysc" THEN 16 ELSE IF f.kind = "ysv" THEN 10 ELSE 12
    BY <1>1 DEF HeaderSize
  <2>3. /\ RustEnd(f, 0) \in Nat /\ RustRecord(f, f.recs[0 + 1]) \in Nat \ {0}
        /\ RustEnd(f, 0) = IF f.kind = "ysc" THEN 16 ELSE IF f.kind = "ystl" THEN 12
                           ELSE IF f.kind = "ysv" THEN 10 ELSE 1036
    BY <1>1, RustEndStep, RustEndStart
  <2>4. f.size < RustEnd(f, 0) + RustRecord(f, f.recs[0 + 1])
    <3>1. f.size < 17 /\ (f.kind # "ysc" => f.size < 12) /\ (f.kind = "ysv" => f.size < 10)
      BY <1>1, <2>1, <2>2
    <3>2. QED
      BY <1>1, <2>3, <3>1
  <2>5. QED
    BY <1>1, <2>4, ShortFile
<1>5. QED
  BY <1>3, <1>4

------------------------------------------------------------------------------
(* Every step preserves the invariant.                                     *)

\* The file that is read and its records.
LEMMA RecordType ==
  ASSUME Inv
  PROVE  /\ file \in Files /\ kind \in {"ysc", "ystl", "ysv", "ysl"}
         /\ file.size \in Nat /\ file.version \in Nat
         /\ count \in Nat /\ offset \in Nat /\ n \in Nat /\ n <= count
         /\ n < count => rec \in RecordOf(kind) /\ rec = file.recs[n + 1]
<1>1. file \in Files
  BY DEF Inv, Parsing
<1>2. /\ kind \in {"ysc", "ystl", "ysv", "ysl"}
      /\ file.size \in Nat /\ file.version \in Nat /\ count \in Nat
      /\ \A i \in 1..count : file.recs[i] \in RecordOf(kind)
  BY <1>1, FileType DEF kind, count
<1>3. offset \in Nat /\ n \in Nat /\ n <= count
  BY <1>2 DEF Inv, TypeOK
<1>4. n < count => n + 1 \in 1..count
  BY <1>2, <1>3
<1>5. QED
  BY <1>1, <1>2, <1>3, <1>4 DEF rec

LEMMA InitInv == Init => Inv
<1> SUFFICES ASSUME Init  PROVE Inv
  OBVIOUS
<1>1. /\ pc = "idle" /\ file \in Files /\ offset = 0 /\ n = 0
      /\ table = << >> /\ lookup = << >> /\ live = {} /\ strs = {} /\ rc = "none"
  BY DEF Init
<1>2. kind \in Kinds /\ 0 \in 0..count
  BY <1>1, FileType DEF kind, count, Kinds
<1>3. TypeOK
  BY <1>1, <1>2 DEF TypeOK
<1>4. AllFound /\ Released /\ Parsing /\ SameEnds /\ Verdict
  BY <1>1 DEF AllFound, Released, Parsing, SameEnds, Verdict
<1>5. QED
  BY <1>3, <1>4 DEF Inv

\* What the strings and the table are like at any time.
StringsFound ==
  /\ \A v \in DOMAIN table : table[v].idx \in 0..MaxIdx /\ table[v].type \in Nat
  /\ strs \subseteq 0..(count - 1)
  /\ strs \subseteq Reachable

\* A parser that gives up: libyuris would too, if memory was not what it lacked.
LEMMA FailInv ==
  ASSUME Inv, pc # "parsed", pc' = "idle", UNCHANGED <<file, offset, n, lookup>>,
         StringsFound', live' \subseteq {"table", "lookup"},
         rc' \in {"EINVAL", "EBADMSG", "EILSEQ", "ENOMEM"},
         rc' = "ENOMEM" \/ (~Disputed(file) /\ WithinLimits(file) => ~RustRecords(file))
  PROVE  Inv'
<1>1. lookup' = << >>
  BY DEF Inv, Parsing
<1>2. TypeOK'
  BY <1>1 DEF Inv, TypeOK, StringsFound, kind, count
<1>3. AllFound' /\ SameEnds'
  BY DEF AllFound, SameEnds
<1>4. Released'
  BY DEF Released, StringsFound
<1>5. Parsing'
  BY <1>1 DEF Inv, Parsing
<1>6. Verdict'
  BY DEF Verdict
<1>7. QED
  BY <1>2, <1>3, <1>4, <1>5, <1>6 DEF Inv

\* A parser that goes on to the next record: libyuris has the record end there.
LEMMA AdvanceInv ==
  ASSUME Inv, pc = "records", n < count, NEW size \in Nat, Advance(size), size <= left,
         UNCHANGED <<file, lookup, live>>,
         StringsFound', DOMAIN table' = DOMAIN table, \A v \in strs' : v <= n,
         kind = "ysv" => rec.type <= 3,
         ~Disputed(file) => size = RustRecord(file, rec),
         kind = "ystl" /\ Disputed(file) => size = RustRecord(file, rec) + 4
  PROVE  Inv'
<1>1. /\ offset' = offset + size /\ n' = n + 1 /\ pc' = "records" /\ rc' = rc
      /\ rc = "none" /\ lookup' = << >> /\ HeaderError(file) = "none"
  BY DEF Advance, Inv, Parsing
<1>2. /\ count \in Nat /\ n \in Nat /\ offset \in Nat /\ file \in Files /\ file.size \in Nat
      /\ rec = file.recs[n + 1] /\ count' = count /\ kind' = kind
  BY RecordType DEF count, kind
<1>3. n' \in 0..count /\ offset' \in Nat
  BY <1>1, <1>2
<1>4. /\ kind = "ysc" => n' <= MAX_YSC_COMMANDS
      /\ kind = "ystl" => n' <= YSTL_MAX_SCRIPTS
  <2>1. WithinTable(kind, count)
    BY <1>1 DEF HeaderError, kind, count
  <2>2. MAX_YSC_COMMANDS \in Nat /\ YSTL_MAX_SCRIPTS \in Nat
    BY BoundsAssumption
  <2>3. QED
    BY <1>1, <1>2, <2>1, <2>2 DEF WithinTable
<1>5. TypeOK'
  BY <1>1, <1>2, <1>3, <1>4 DEF Inv, TypeOK, StringsFound
<1>6. AllFound' /\ Verdict'
  BY <1>1 DEF AllFound, Verdict
<1>7. Released'
  BY <1>1 DEF Released, StringsFound
<1>8. Parsing'
  <2>1. \A v \in strs' : v < n'
    <3>1. \A v \in strs' : v \in Int
      BY <1>2 DEF StringsFound
    <3>2. QED
      BY <1>1, <1>2, <3>1
  <2>2. QED
    BY <1>1, <1>2, <2>1 DEF Inv, Parsing
<1>9. SameEnds'
  <2>1. offset' <= file.size
    BY <1>1, <1>2 DEF left
  <2>2. ASSUME kind = "ysv", NEW i \in 1..n'  PROVE file.recs[i].type <= 3
    <3>1. i \in 1..n \/ i = n + 1
      BY <1>1, <1>2
    <3>2. QED
      BY <1>2, <2>2, <3>1 DEF Inv, SameEnds
  <2>3. offset' = RustEnd(file, n') + Extra(file, n')
    <3>1. offset = RustEnd(file, n) + Extra(file, n)
      BY DEF Inv, SameEnds
    <3>2. /\ RustEnd(file, n + 1) = RustEnd(file, n) + RustRecord(file, rec)
          /\ RustEnd(file, n) \in Nat /\ RustRecord(file, rec) \in Nat
      BY <1>2, RustEndStep DEF count
    <3>3. CASE Disputed(file)
      <4>1. size = RustRecord(file, rec) + 4
        BY <3>3 DEF Disputed, kind
      <4>2. Extra(file, n) = 4 * n /\ Extra(file, n + 1) = 4 * (n + 1)
        BY <3>3 DEF Extra
      <4>3. QED
        BY <1>1, <1>2, <3>1, <3>2, <4>1, <4>2
    <3>4. CASE ~Disputed(file)
      <4>1. Extra(file, n) = 0 /\ Extra(file, n + 1) = 0
        BY <3>4 DEF Extra
      <4>2. QED
        BY <1>1, <3>1, <3>2, <3>4, <4>1
    <3>5. QED
      BY <3>3, <3>4
  <2>4. QED
    BY <1>1, <1>2, <2>1, <2>2, <2>3 DEF SameEnds
<1>10. QED
  BY <1>5, <1>6, <1>7, <1>8, <1>9 DEF Inv

LEMMA StuckShort ==
  ASSUME Inv, pc = "records", n < count, ~Disputed(file), RustRecord(file, rec) > left
  PROVE  ~RustRecords(file)
<1>1. /\ file \in Files /\ n \in Nat /\ count = Len(file.recs) /\ rec = file.recs[n + 1]
      /\ file.size \in Nat /\ offset \in Nat
  BY RecordType DEF count
<1>2. offset = RustEnd(file, n)
  <2>1. Extra(file, n) = 0 /\ offset = RustEnd(file, n) + Extra(file, n)
    BY DEF Inv, SameEnds, Extra
  <2>2. RustEnd(file, n) \in Nat
    BY <1>1, RustEndStep
  <2>3. QED
    BY <2>1, <2>2
<1>3. RustRecord(file, rec) \in Nat
  BY <1>1, RustEndStep
<1>4. file.size < RustEnd(file, n) + RustRecord(file, rec)
  BY <1>1, <1>2, <1>3 DEF left
<1>5. QED
  BY <1>1, <1>4, ShortFile

\* What the limits of the player mean for the record it reads.
LEMMA LimitsOfRecord ==
  ASSUME Inv, n < count, WithinLimits(file)
  PROVE  /\ kind = "ysc" => /\ rec.name > 0 /\ Len(rec.args) <= MAX_YSC_ARGS
                            /\ \A a \in DOMAIN rec.args : rec.args[a].type <= 3
         /\ kind = "ystl" => rec.len \in 1..255 /\ rec.text
         /\ kind = "ysv" => rec.scope <= 3 /\ rec.dims <= 8
         /\ kind = "ysl" => rec.len > 0
<1>1. n + 1 \in DOMAIN file.recs /\ rec = file.recs[n + 1]
  BY RecordType, FileType DEF count
<1>2. kind = file.kind
  BY DEF kind
<1>3. LET r == file.recs[n + 1]
      IN  CASE kind = "ysc" -> /\ r.name > 0 /\ Len(r.args) <= MAX_YSC_ARGS
                               /\ \A a \in DOMAIN r.args : r.args[a].type <= 3
            [] kind = "ystl" -> r.len \in 1..255 /\ r.text
            [] kind = "ysv" -> r.scope <= 3 /\ r.dims <= 8 /\ (r.type = YSV_EXPR => r.code)
            [] kind = "ysl" -> r.len > 0
  BY <1>1, <1>2 DEF WithinLimits
<1>4. QED
  BY <1>1, <1>3

\* A step that leaves the table and the strings alone.
LEMMA SameStrings ==
  ASSUME Inv, pc = "records", UNCHANGED <<file, table, strs>>
  PROVE  StringsFound' /\ DOMAIN table' = DOMAIN table /\ \A v \in strs' : v <= n
<1>1. StringsFound
  BY DEF Inv, TypeOK, Released, StringsFound
<1>2. StringsFound'
  BY <1>1 DEF StringsFound, Reachable, kind, count
<1>3. \A v \in strs : v <= n
  <2>1. \A v \in strs : v \in Int /\ v < n
    BY RecordType DEF Inv, Parsing, TypeOK
  <2>2. QED
    BY <2>1, RecordType
<1>4. QED
  BY <1>2, <1>3

LEMMA BeginInv == ASSUME Inv, Begin PROVE Inv'
<1>1. /\ pc = "idle" /\ rc = "none" /\ n = 0 /\ table = << >> /\ strs = {} /\ lookup = << >>
      /\ UNCHANGED <<file, n, lookup, strs>>
      /\ offset' = HeaderSize[kind] + IF kind = "ysl" THEN 4 * 256 ELSE 0
  BY DEF Begin, Inv, Parsing
<1>2. /\ file \in Files /\ kind \in {"ysc", "ystl", "ysv", "ysl"} /\ count \in Nat
      /\ kind' = kind /\ count' = count
  BY <1>1, RecordType DEF kind, count
<1>3. offset' \in Nat /\ offset' = RustEnd(file, 0)
  <2>1. HeaderSize[kind] = IF kind = "ysc" THEN 16 ELSE IF kind = "ysv" THEN 10 ELSE 12
    BY <1>2 DEF HeaderSize
  <2>2. RustEnd(file, 0) = IF kind = "ysc" THEN 16 ELSE IF kind = "ystl" THEN 12
                           ELSE IF kind = "ysv" THEN 10 ELSE 1036
    BY <1>2, RustEndStart DEF kind
  <2>3. QED
    BY <1>1, <1>2, <2>1, <2>2
<1>4. CASE /\ HeaderError(file) = "none"
           /\ table' = [i \in 0..(IF kind = "ysv" THEN count ELSE 0) - 1 |-> ZERO]
           /\ live' = IF kind \in {"ysv", "ysl"} THEN {"table"} ELSE {}
           /\ pc' = "records" /\ UNCHANGED rc
  <2>1. /\ kind = "ysv" => DOMAIN table' = 0..(count - 1)
        /\ \A v \in DOMAIN table' : table'[v].idx \in 0..MaxIdx /\ table'[v].type \in Nat
    BY <1>2, <1>4, BoundsAssumption DEF ZERO
  <2>2. TypeOK'
    <3>1. 0 <= MAX_YSC_COMMANDS /\ 0 <= YSTL_MAX_SCRIPTS /\ 0 \in 0..count
      BY <1>2, BoundsAssumption
    <3>2. live' \subseteq {"table", "lookup"}
      BY <1>4
    <3>3. QED
      BY <1>1, <1>2, <1>3, <1>4, <2>1, <3>1, <3>2 DEF Inv, TypeOK
  <2>3. AllFound' /\ Released' /\ Verdict'
    BY <1>1, <1>4 DEF AllFound, Released, Verdict
  <2>4. Parsing'
    BY <1>1, <1>2, <1>4, <2>1 DEF Parsing
  <2>5. SameEnds'
    <3>1. RustEnd(file, 0) \in Nat /\ Extra(file, 0) = 0
      BY <1>2, RustEndStart DEF Extra
    <3>2. QED
      BY <1>1, <1>2, <1>3, <1>4, <3>1 DEF SameEnds
  <2>6. QED
    BY <2>2, <2>3, <2>4, <2>5 DEF Inv
<1>5. CASE /\ HeaderError(file) # "none" \/ kind \in {"ysv", "ysl"}
           /\ Fail(IF HeaderError(file) # "none" THEN HeaderError(file) ELSE "ENOMEM")
           /\ UNCHANGED <<table, live>>
  <2>1. pc' = "idle" /\ rc' = IF HeaderError(file) # "none" THEN HeaderError(file) ELSE "ENOMEM"
    BY <1>5 DEF Fail
  <2>2. HeaderError(file) \in {"none", "EBADMSG", "EINVAL"}
    BY DEF HeaderError
  <2>3. rc' = "ENOMEM" \/ (WithinLimits(file) => ~RustRecords(file))
    BY <1>2, <2>1, BadHeader
  <2>4. AllFound' /\ Released' /\ SameEnds'
    <3>1. pc' = "idle" /\ rc' # "0" /\ strs' = {}
      BY <1>1, <2>1, <2>2
    <3>2. QED
      BY <3>1 DEF AllFound, Released, SameEnds
  <2>5. TypeOK'
    BY <1>1, <1>2, <1>3, <1>5, <2>1, <2>2 DEF Inv, TypeOK
  <2>6. Parsing'
    BY <1>1, <1>2, <2>1, <2>2 DEF Parsing
  <2>7. Verdict'
    BY <1>1, <2>1, <2>2, <2>3 DEF Verdict
  <2>8. QED
    BY <2>4, <2>5, <2>6, <2>7 DEF Inv
<1>6. QED
  BY <1>4, <1>5 DEF Begin

LEMMA ReadCommandInv == ASSUME Inv, ReadCommand PROVE Inv'
<1> DEFINE args == SumTo([a \in DOMAIN rec.args |-> rec.args[a].name + 3], Len(rec.args))
           size == rec.name + 2 + args
           ok == /\ size <= left /\ rec.name > 0 /\ Len(rec.args) <= MAX_YSC_ARGS
                 /\ \A a \in DOMAIN rec.args : rec.args[a].type <= 3
<1>1. /\ pc = "records" /\ kind = "ysc" /\ n < count
      /\ UNCHANGED <<file, table, lookup, live, strs>>
      /\ IF ok THEN Advance(size) ELSE Stuck("EINVAL")
  BY DEF ReadCommand
<1>2. /\ file \in Files /\ file.size \in Nat /\ offset \in Nat /\ rec \in RecordOf(file.kind)
      /\ file.kind = "ysc"
  BY <1>1, RecordType DEF kind
<1>3. rec \in Command /\ size \in Nat /\ RustRecord(file, rec) = size
  <2>1. rec \in Command /\ RustRecord(file, rec) = size
    BY <1>2, CommandRecord
  <2>2. rec.name \in Nat
    BY <2>1 DEF Command
  <2>3. args \in Nat
    BY <2>1, ArgsSize
  <2> HIDE DEF args
  <2>4. QED
    BY <2>1, <2>2, <2>3
<1>4. StringsFound' /\ DOMAIN table' = DOMAIN table /\ \A v \in strs' : v <= n
  BY <1>1, SameStrings
<1> HIDE DEF args, size
<1>5. CASE ok
  BY <1>1, <1>3, <1>4, <1>5, AdvanceInv
<1>6. CASE ~ok
  <2>1. pc' = "idle" /\ rc' = "EINVAL" /\ UNCHANGED <<offset, n>>
    BY <1>1, <1>6 DEF Stuck, Fail
  <2>2. ASSUME ~Disputed(file), WithinLimits(file)  PROVE ~RustRecords(file)
    <3>1. ~(size <= left)
      BY <1>1, <1>6, <2>2, LimitsOfRecord
    <3>2. RustRecord(file, rec) > left
      BY <1>2, <1>3, <3>1 DEF left
    <3>3. QED
      BY <1>1, <2>2, <3>2, StuckShort
  <2>3. live' \subseteq {"table", "lookup"}
    BY <1>1 DEF Inv, TypeOK
  <2>4. QED
    BY <1>1, <1>4, <2>1, <2>2, <2>3, FailInv
<1>7. QED
  BY <1>5, <1>6

LEMMA ReadScriptInv == ASSUME Inv, ReadScript PROVE Inv'
<1> DEFINE size == ScriptSize(rec, file.version)
<1>1. /\ pc = "records" /\ kind = "ystl" /\ kind # "ysv" /\ n < count
      /\ UNCHANGED <<file, table, lookup, live, strs>>
      /\ \/ rec.len \notin 1..255 /\ Stuck("EINVAL")
         \/ 8 + rec.len > left /\ Stuck("EINVAL")
         \/ ~rec.text /\ Stuck("EILSEQ")
         \/ size > left /\ Stuck("EINVAL")
         \/ ~(size > left) /\ Advance(size)
  BY DEF ReadScript
<1>2. /\ file \in Files /\ file.size \in Nat /\ offset \in Nat /\ rec \in RecordOf(file.kind)
      /\ file.kind = "ystl" /\ file.version \in Nat
  BY <1>1, RecordType DEF kind
<1>3. /\ rec.len \in Nat
      /\ RustRecord(file, rec) = 16 + rec.len + (IF file.version < 470 THEN 8 ELSE 12)
  <2>1. /\ rec \in Script
        /\ RustRecord(file, rec) = 16 + rec.len + (IF file.version < 470 THEN 8 ELSE 12)
    BY <1>2, ScriptRecord
  <2>2. rec.len \in Nat
    BY <2>1 DEF Script
  <2>3. QED
    BY <2>1, <2>2
<1>4. size = 24 + rec.len + (IF file.version > 300 THEN 4 ELSE 0) /\ size \in Nat
  BY <1>2, <1>3 DEF ScriptSize
<1>5. /\ ~Disputed(file) => size = RustRecord(file, rec)
      /\ Disputed(file) => size = RustRecord(file, rec) + 4
  BY <1>2, <1>3, <1>4 DEF Disputed
<1>6. StringsFound' /\ DOMAIN table' = DOMAIN table /\ \A v \in strs' : v <= n
  BY <1>1, SameStrings
<1> HIDE DEF size
<1>7. left \in Int
  BY <1>2 DEF left
<1>8. CASE ~(size > left) /\ Advance(size)
  <2>1. size <= left
    BY <1>4, <1>7, <1>8
  <2>2. QED
    BY <1>1, <1>4, <1>5, <1>6, <1>8, <2>1, AdvanceInv
<1>9. CASE /\ rec.len \notin 1..255 \/ 8 + rec.len > left \/ ~rec.text \/ size > left
           /\ Stuck("EINVAL") \/ Stuck("EILSEQ")
  <2>1. pc' = "idle" /\ rc' \in {"EINVAL", "EILSEQ"} /\ UNCHANGED <<offset, n>>
    BY <1>9 DEF Stuck, Fail
  <2>2. ASSUME ~Disputed(file), WithinLimits(file)  PROVE ~RustRecords(file)
    <3>1. 8 + rec.len > left \/ size > left
      BY <1>1, <1>9, <2>2, LimitsOfRecord
    <3>2. RustRecord(file, rec) > left
      BY <1>2, <1>3, <1>4, <1>5, <1>7, <2>2, <3>1
    <3>3. QED
      BY <1>1, <2>2, <3>2, StuckShort
  <2>3. live' \subseteq {"table", "lookup"}
    BY <1>1 DEF Inv, TypeOK
  <2>4. QED
    BY <1>1, <1>6, <2>1, <2>2, <2>3, FailInv
<1>10. QED
  BY <1>1, <1>8, <1>9

\* What is known of the variable that is read.
LEMMA VariableIs ==
  ASSUME Inv, kind = "ysv", n < count
  PROVE  /\ rec.scope \in Nat /\ rec.idx \in 0..MaxIdx /\ rec.type \in Nat /\ rec.dims \in Nat
         /\ rec.len \in Nat
         /\ RustRecord(file, rec) = (IF file.version < 481 THEN 7 ELSE 8) + 4 * rec.dims
              + (IF rec.type = 0 THEN 0 ELSE IF rec.type \in {1, 2} THEN 8 ELSE 2 + rec.len)
<1>1. file \in Files /\ rec \in RecordOf(file.kind) /\ file.kind = "ysv"
  BY RecordType DEF kind
<1>2. PICK r \in RecordOf(file.kind) : r = rec
  BY <1>1
<1>3. /\ r \in Variable
      /\ RustRecord(file, r) = (IF file.version < 481 THEN 7 ELSE 8) + 4 * r.dims
           + (IF r.type = 0 THEN 0 ELSE IF r.type \in {1, 2} THEN 8 ELSE 2 + r.len)
  BY <1>1, RustRecordIs
<1>4. r.scope \in Nat /\ r.idx \in 0..MaxIdx /\ r.type \in Nat /\ r.dims \in Nat /\ r.len \in Nat
  BY <1>3 DEF Variable
<1>5. QED
  BY <1>2, <1>3, <1>4

LEMMA ReadVariableInv == ASSUME Inv, ReadVariable PROVE Inv'
<1> DEFINE ver == file.version
           stored == rec.scope <= 3 /\ StoredAfter(rec, ver) <= left
           string == rec.type = YSV_EXPR
           headed == /\ rec.scope <= 3 /\ rec.type <= 3 /\ rec.dims <= 8
                     /\ ValueAt(rec, ver) + (IF string THEN 2 ELSE 0) <= left
           size == VariableSize(rec, ver)
<1>1. /\ pc = "records" /\ kind = "ysv" /\ n < count
      /\ UNCHANGED <<file, lookup, live>>
      /\ table' = IF stored THEN [table EXCEPT ![n] = [idx |-> rec.idx, type |-> rec.type]]
                            ELSE table
      /\ \/ ~headed /\ Stuck("EINVAL") /\ UNCHANGED strs
         \/ headed /\ string /\ Stuck("ENOMEM") /\ UNCHANGED strs
         \/ /\ headed
            /\ strs' = IF string THEN strs \cup {n} ELSE strs
            /\ IF size <= left THEN Advance(size) ELSE Stuck("EINVAL")
  BY DEF ReadVariable
<1>2. /\ file \in Files /\ file.size \in Nat /\ offset \in Nat /\ rec \in RecordOf(file.kind)
      /\ file.kind = "ysv" /\ ver \in Nat /\ n \in Nat /\ count \in Nat /\ left \in Int
      /\ rec = file.recs[n + 1]
  BY <1>1, RecordType DEF kind, left
<1>3. /\ rec.scope \in Nat /\ rec.idx \in 0..MaxIdx /\ rec.type \in Nat /\ rec.dims \in Nat
      /\ rec.len \in Nat
      /\ RustRecord(file, rec) = (IF ver < 481 THEN 7 ELSE 8) + 4 * rec.dims
           + (IF rec.type = 0 THEN 0 ELSE IF rec.type \in {1, 2} THEN 8 ELSE 2 + rec.len)
  BY <1>1, VariableIs
<1>4. /\ StoredAfter(rec, ver) = (IF ver >= 481 THEN 7 ELSE 6)
      /\ ValueAt(rec, ver) = (IF ver >= 481 THEN 7 ELSE 6) + 1 + 4 * rec.dims
      /\ size = ValueAt(rec, ver) + (IF rec.type \in {1, 2} THEN 8
                                     ELSE IF rec.type = 3 THEN 2 + rec.len ELSE 0)
      /\ string <=> rec.type = 3
  BY DEF StoredAfter, HeadSize, ValueAt, VariableSize, YSV_EXPR
<1>5. /\ ValueAt(rec, ver) \in Nat /\ size \in Nat
      /\ rec.type <= 3 => size = RustRecord(file, rec)
      /\ rec.type <= 3 /\ string => ValueAt(rec, ver) + 2 <= RustRecord(file, rec)
      /\ rec.type <= 3 => ValueAt(rec, ver) <= RustRecord(file, rec)
      /\ headed => stored
  BY <1>2, <1>3, <1>4
<1>6. DOMAIN table = 0..(count - 1) /\ (\A v \in strs : v < n) /\ n \in DOMAIN table
  BY <1>1, <1>2 DEF Inv, Parsing
<1>7. strs' = strs \/ (headed /\ string /\ strs' = strs \cup {n})
  BY <1>1
<1> HIDE DEF ver, stored, string, headed, size
<1>8. /\ DOMAIN table' = DOMAIN table
      /\ \A v \in DOMAIN table : v # n => table'[v] = table[v]
      /\ stored => table'[n].idx = rec.idx /\ table'[n].type = rec.type
      /\ ~stored => table' = table
  BY <1>1, <1>6
<1>9. kind' = kind /\ count' = count
  BY <1>1 DEF kind, count
<1>10. strs \subseteq 0..(count - 1) /\ strs \subseteq Reachable
  BY <1>1 DEF Inv, TypeOK, Released
<1>11. ASSUME NEW v \in strs'  PROVE v <= n
  <2>1. CASE v \in strs
    <3>1. v \in Int /\ v < n
      BY <1>2, <1>6, <1>10, <2>1
    <3>2. QED
      BY <1>2, <3>1
  <2>2. CASE v = n
    BY <1>2, <2>2
  <2>3. QED
    BY <1>7, <2>1, <2>2
<1>12. StringsFound'
  <2>1. ASSUME NEW v \in DOMAIN table'
        PROVE  table'[v].idx \in 0..MaxIdx /\ table'[v].type \in Nat
    <3>1. table[v].idx \in 0..MaxIdx /\ table[v].type \in Nat
      BY <1>8 DEF Inv, TypeOK
    <3>2. QED
      BY <1>3, <1>8, <3>1
  <2>2. strs' \subseteq 0..(count - 1)
    BY <1>6, <1>7, <1>10
  <2>3. ASSUME NEW v \in strs'  PROVE v \in DOMAIN table' /\ table'[v].type = YSV_EXPR
    <3>1. CASE v = n
      <4>1. v \notin strs
        BY <1>2, <1>6, <3>1
      <4>2. stored /\ string
        BY <1>5, <1>7, <4>1
      <4>3. QED
        BY <1>4, <1>6, <1>8, <3>1, <4>2 DEF YSV_EXPR
    <3>2. CASE v # n
      <4>1. v \in strs
        BY <1>7, <3>2
      <4>2. v \in DOMAIN table /\ table[v].type = YSV_EXPR
        BY <1>1, <1>10, <4>1 DEF Reachable
      <4>3. QED
        BY <1>8, <3>2, <4>2
    <3>3. QED
      BY <3>1, <3>2
  <2>4. strs' \subseteq Reachable'
    BY <1>1, <1>9, <2>3 DEF Reachable
  <2>5. QED
    BY <1>9, <2>1, <2>2, <2>4 DEF StringsFound
<1>13. live' \subseteq {"table", "lookup"}
  BY <1>1 DEF Inv, TypeOK
<1>14. CASE headed /\ size <= left /\ Advance(size)
  <2>1. rec.type <= 3
    BY <1>14 DEF headed
  <2>2. QED
    BY <1>1, <1>5, <1>8, <1>11, <1>12, <1>14, <2>1, AdvanceInv
<1>15. CASE ~(headed /\ size <= left) /\ Stuck("EINVAL")
  <2>1. pc' = "idle" /\ rc' = "EINVAL" /\ UNCHANGED <<offset, n>>
    BY <1>15 DEF Stuck, Fail
  <2>2. ASSUME ~Disputed(file), WithinLimits(file)  PROVE ~RustRecords(file)
    <3>1. rec.scope <= 3 /\ rec.dims <= 8
      BY <1>1, <2>2, LimitsOfRecord
    <3>2. CASE rec.type <= 3
      <4>1. \/ ValueAt(rec, ver) + (IF string THEN 2 ELSE 0) > left
            \/ size > left
        BY <1>2, <1>5, <1>15, <3>1, <3>2 DEF headed
      <4>2. RustRecord(file, rec) > left
        BY <1>2, <1>5, <3>2, <4>1
      <4>3. QED
        BY <1>1, <2>2, <4>2, StuckShort
    <3>3. CASE ~(rec.type <= 3)
      <4>1. n + 1 \in DOMAIN file.recs
        BY <1>1, <1>2, FileType DEF count
      <4>2. QED
        BY <1>2, <3>3, <4>1 DEF RustRecords
    <3>4. QED
      BY <3>2, <3>3
  <2>3. QED
    BY <1>1, <1>12, <1>13, <2>1, <2>2, FailInv
<1>16. CASE Stuck("ENOMEM")
  <2>1. pc' = "idle" /\ rc' = "ENOMEM" /\ UNCHANGED <<offset, n>>
    BY <1>16 DEF Stuck, Fail
  <2>2. QED
    BY <1>1, <1>12, <1>13, <2>1, FailInv
<1>17. QED
  BY <1>1, <1>14, <1>15, <1>16

LEMMA ReadLabelInv == ASSUME Inv, ReadLabel PROVE Inv'
<1>1. /\ pc = "records" /\ kind = "ysl" /\ kind # "ysv" /\ n < count
      /\ UNCHANGED <<file, table, lookup, live>>
      /\ strs' = strs \/ strs' = strs \cup {n}
      /\ \/ Stuck("ENOMEM")
         \/ (rec.len = 0 \/ 1 + rec.len > left) /\ Stuck("EINVAL")
         \/ ~(13 + rec.len <= left) /\ Stuck("EINVAL")
         \/ 13 + rec.len <= left /\ Advance(13 + rec.len)
  BY DEF ReadLabel
<1>2. /\ file \in Files /\ file.size \in Nat /\ offset \in Nat /\ rec \in RecordOf(file.kind)
      /\ file.kind = "ysl" /\ n \in Nat /\ count \in Nat /\ left \in Int
  BY <1>1, RecordType DEF kind, left
<1>3. /\ rec.len \in Nat /\ 13 + rec.len \in Nat /\ RustRecord(file, rec) = 13 + rec.len
  <2>1. rec \in Label /\ RustRecord(file, rec) = 13 + rec.len
    BY <1>2, LabelRecord
  <2>2. rec.len \in Nat
    BY <2>1 DEF Label
  <2>3. QED
    BY <2>1, <2>2
<1>4. strs' \subseteq 0..(count - 1) /\ \A v \in strs' : v <= n
  <2>1. \A v \in strs : v \in 0..(count - 1) /\ v < n
    BY <1>1 DEF Inv, TypeOK, Parsing
  <2>2. n \in 0..(count - 1)
    BY <1>1, <1>2
  <2>3. QED
    BY <1>1, <1>2, <2>1, <2>2
<1>5. StringsFound'
  <2>1. kind' = kind /\ count' = count
    BY <1>1 DEF kind, count
  <2>2. Reachable' = 0..(count - 1)
    BY <1>1, <2>1 DEF Reachable
  <2>3. QED
    BY <1>1, <1>4, <2>1, <2>2 DEF StringsFound, Inv, TypeOK
<1>6. live' \subseteq {"table", "lookup"}
  BY <1>1 DEF Inv, TypeOK
<1>7. CASE 13 + rec.len <= left /\ Advance(13 + rec.len)
  BY <1>1, <1>3, <1>4, <1>5, <1>7, AdvanceInv
<1>8. CASE /\ rec.len = 0 \/ 1 + rec.len > left \/ ~(13 + rec.len <= left)
           /\ Stuck("EINVAL")
  <2>1. pc' = "idle" /\ rc' = "EINVAL" /\ UNCHANGED <<offset, n>>
    BY <1>8 DEF Stuck, Fail
  <2>2. ASSUME ~Disputed(file), WithinLimits(file)  PROVE ~RustRecords(file)
    <3>1. rec.len > 0
      BY <1>1, <2>2, LimitsOfRecord
    <3>2. RustRecord(file, rec) > left
      BY <1>2, <1>3, <1>8, <3>1
    <3>3. QED
      BY <1>1, <2>2, <3>2, StuckShort
  <2>3. QED
    BY <1>1, <1>5, <1>6, <2>1, <2>2, FailInv
<1>9. CASE Stuck("ENOMEM")
  <2>1. pc' = "idle" /\ rc' = "ENOMEM" /\ UNCHANGED <<offset, n>>
    BY <1>9 DEF Stuck, Fail
  <2>2. QED
    BY <1>1, <1>5, <1>6, <2>1, FailInv
<1>10. QED
  BY <1>1, <1>7, <1>8, <1>9

\* The greatest member of a set of numbers with a bound.
LEMMA GreatestIs ==
  ASSUME NEW d \in Nat, NEW S, S \subseteq 0..d, S # {}
  PROVE  Greatest(S) \in S /\ \A y \in S : y <= Greatest(S)
BY GreatestBelow DEF Greatest

\* The lookup table has for an index the last of its variables, if there is one.
LEMMA LastOfIs ==
  ASSUME NEW d \in Nat, DOMAIN table \subseteq 0..d, NEW i
  PROVE  /\ LastOf(i) \in DOMAIN table \cup {NULL}
         /\ \A v \in DOMAIN table : table[v].idx = i =>
              LastOf(i) \in {w \in DOMAIN table : w >= v /\ table[w].idx = i}
<1> DEFINE vs == {v \in DOMAIN table : table[v].idx = i}
<1>1. LastOf(i) = IF vs = {} THEN NULL ELSE Greatest(vs)
  BY DEF LastOf
<1>2. vs \subseteq 0..d
  OBVIOUS
<1>3. CASE vs = {}
  BY <1>1, <1>3
<1>4. CASE vs # {}
  <2> HIDE DEF vs
  <2>1. Greatest(vs) \in vs /\ \A v \in vs : v <= Greatest(vs)
    BY <1>2, <1>4, GreatestIs
  <2>2. LastOf(i) = Greatest(vs)
    BY <1>1, <1>4
  <2>3. LastOf(i) \in vs /\ \A v \in vs : v <= LastOf(i) /\ v \in Int
    BY <1>2, <2>1, <2>2
  <2>4. QED
    BY <2>3 DEF vs
<1>5. QED
  BY <1>3, <1>4

\* When all records are read libyuris reads the file, too.
LEMMA AllRead ==
  ASSUME Inv, pc = "records", n = count,
         ~Disputed(file), WithinLimits(file), file.version \in 200..500
  PROVE  RustRecords(file)
<1>1. file \in Files /\ file.size \in Nat /\ kind = file.kind /\ count = Len(file.recs)
      /\ offset \in Nat
  BY RecordType DEF kind, count
<1>2. DOMAIN file.recs = 1..count /\ file.magic \in BOOLEAN
  BY <1>1, FileType
<1>3. file.magic
  BY <1>1 DEF Inv, Parsing, HeaderError
<1>4. ASSUME kind = "ysv", NEW i \in DOMAIN file.recs
      PROVE  file.recs[i].type <= 3 /\ (file.recs[i].type = 3 => file.recs[i].code)
  <2>1. file.recs[i].type <= 3
    BY <1>2, <1>4 DEF Inv, SameEnds
  <2>2. file.recs[i].type = 3 => file.recs[i].code
    BY <1>1, <1>4 DEF WithinLimits, YSV_EXPR
  <2>3. QED
    BY <2>1, <2>2
<1>5. file.size >= RustEnd(file, count)
  <2>1. count > 0
    BY <1>1 DEF WithinLimits
  <2>2. offset <= file.size /\ offset = RustEnd(file, count) + 0
    BY <2>1 DEF Inv, SameEnds, Extra
  <2>3. file.size >= RustEnd(file, count) + 0
    BY <1>1, <2>2
  <2>4. RustEnd(file, count) \in Nat
    <3>1. count - 1 \in Nat /\ count - 1 < Len(file.recs) /\ count - 1 + 1 = count
      BY <1>1, <2>1, FileType
    <3>2. RustEnd(file, count - 1) \in Nat /\ RustRecord(file, file.recs[count - 1 + 1]) \in Nat
          /\ RustEnd(file, count - 1 + 1)
               = RustEnd(file, count - 1) + RustRecord(file, file.recs[count - 1 + 1])
      BY <1>1, <3>1, RustEndStep
    <3>3. QED
      BY <3>1, <3>2
  <2>5. QED
    BY <2>3, <2>4
<1>6. QED
  BY <1>1, <1>3, <1>4, <1>5 DEF RustRecords

LEMMA FinishInv == ASSUME Inv, Finish PROVE Inv'
<1>1. /\ pc = "records" /\ n = count /\ UNCHANGED <<file, offset, n, table, strs>>
      /\ \/ Fail("ENOMEM") /\ UNCHANGED <<lookup, live>>
         \/ /\ kind = "ysv" /\ lookup' = [i \in 0..Greatest(Indexes) |-> LastOf(i)]
            /\ live' = live \cup {"lookup"} /\ pc' = "parsed" /\ rc' = "0"
         \/ kind # "ysv" /\ pc' = "parsed" /\ rc' = "0" /\ UNCHANGED <<lookup, live>>
  BY DEF Finish
<1>2. StringsFound'
  BY <1>1, SameStrings
<1>3. kind' = kind /\ count' = count /\ count \in Nat
  BY <1>1, RecordType DEF kind, count
<1>4. live \subseteq {"table", "lookup"} /\ lookup = << >>
  BY <1>1 DEF Inv, TypeOK, Parsing
<1>5. CASE Fail("ENOMEM") /\ UNCHANGED <<lookup, live>>
  BY <1>1, <1>2, <1>4, <1>5, FailInv DEF Fail
<1>6. CASE pc' = "parsed" /\ rc' = "0" /\ live' \subseteq {"table", "lookup"}
           /\ (\A i \in DOMAIN lookup' : lookup'[i] \in DOMAIN table \cup {NULL}) /\ AllFound'
  <2>1. TypeOK'
    BY <1>1, <1>2, <1>3, <1>6 DEF Inv, TypeOK, StringsFound
  <2>2. Released'
    BY <1>2, <1>6 DEF Released, StringsFound
  <2>3. Parsing'
    BY <1>1, <1>3, <1>6 DEF Inv, Parsing
  <2>4. SameEnds'
    BY <1>1, <1>3, <1>6 DEF Inv, SameEnds
  <2>5. Verdict'
    BY <1>1, <1>6, AllRead DEF Verdict
  <2>6. QED
    BY <1>6, <2>1, <2>2, <2>3, <2>4, <2>5 DEF Inv
<1>7. CASE /\ kind = "ysv" /\ lookup' = [i \in 0..Greatest(Indexes) |-> LastOf(i)]
           /\ live' = live \cup {"lookup"} /\ pc' = "parsed" /\ rc' = "0"
  <2>1. DOMAIN table = 0..(count - 1) /\ DOMAIN table \subseteq 0..count
    BY <1>1, <1>3, <1>7 DEF Inv, Parsing
  <2>2. \A i : /\ LastOf(i) \in DOMAIN table \cup {NULL}
              /\ \A v \in DOMAIN table : table[v].idx = i =>
                   LastOf(i) \in {w \in DOMAIN table : w >= v /\ table[w].idx = i}
    BY <1>3, <2>1, LastOfIs
  <2>3. Greatest(Indexes) \in Indexes /\ \A y \in Indexes : y <= Greatest(Indexes)
    <3>1. MaxIdx \in Nat
      BY BoundsAssumption
    <3>2. Indexes \subseteq 0..MaxIdx /\ Indexes # {}
      BY <3>1 DEF Inv, TypeOK, Indexes
    <3>3. QED
      BY <3>1, <3>2, GreatestIs
  <2>4. ASSUME NEW v \in DOMAIN table
        PROVE  /\ table[v].idx \in DOMAIN lookup'
               /\ lookup'[table[v].idx]
                    \in {w \in DOMAIN table : w >= v /\ table[w].idx = table[v].idx}
    <3>1. table[v].idx \in 0..MaxIdx
      BY DEF Inv, TypeOK
    <3>2. table[v].idx \in Indexes /\ Greatest(Indexes) \in Int
      <4>1. \A y \in Indexes : y \in Int
        BY BoundsAssumption DEF Inv, TypeOK, Indexes
      <4>2. QED
        BY <2>3, <4>1 DEF Indexes
    <3>3. table[v].idx \in 0..Greatest(Indexes)
      BY <2>3, <3>1, <3>2
    <3>4. QED
      BY <1>7, <2>2, <3>3
  <2>5. AllFound'
    BY <1>1, <2>4 DEF AllFound
  <2>6. \A i \in DOMAIN lookup' : lookup'[i] \in DOMAIN table \cup {NULL}
    BY <1>7, <2>2
  <2>7. live' \subseteq {"table", "lookup"}
    BY <1>4, <1>7
  <2>8. QED
    BY <1>6, <1>7, <2>5, <2>6, <2>7
<1>8. CASE kind # "ysv" /\ pc' = "parsed" /\ rc' = "0" /\ UNCHANGED <<lookup, live>>
  <2>1. AllFound'
    BY <1>3, <1>8 DEF AllFound
  <2>2. \A i \in DOMAIN lookup' : lookup'[i] \in DOMAIN table \cup {NULL}
    BY <1>8 DEF Inv, TypeOK
  <2>3. QED
    BY <1>4, <1>6, <1>8, <2>1, <2>2
<1>9. QED
  BY <1>1, <1>5, <1>7, <1>8

LEMMA FreeInv == ASSUME Inv, Free PROVE Inv'
<1>1. /\ pc = "parsed" /\ strs' = strs \ Reachable /\ live' = live \ {"table", "lookup"}
      /\ table' = << >> /\ lookup' = << >> /\ pc' = "idle"
      /\ UNCHANGED <<file, offset, n, rc>>
  BY DEF Free
<1>2. rc = "0" /\ file \in Files
  BY <1>1 DEF Inv, Parsing
<1>3. strs' = {} /\ live' = {}
  BY <1>1 DEF Inv, Released, TypeOK
<1>4. TypeOK'
  <2>1. kind' = kind /\ count' = count
    BY <1>1 DEF kind, count
  <2>2. \A v \in DOMAIN table' : FALSE
    BY <1>1
  <2>3. \A i \in DOMAIN lookup' : FALSE
    BY <1>1
  <2>4. QED
    BY <1>1, <1>3, <2>1, <2>2, <2>3 DEF Inv, TypeOK
<1>5. AllFound' /\ SameEnds' /\ Released' /\ Parsing'
  BY <1>1, <1>2, <1>3 DEF AllFound, SameEnds, Released, Parsing
<1>6. Verdict'
  BY <1>1 DEF Inv, Verdict
<1>7. QED
  BY <1>4, <1>5, <1>6 DEF Inv

LEMMA NextInv == Inv /\ [Next]_vars => Inv'
<1> SUFFICES ASSUME Inv, [Next]_vars  PROVE Inv'
  OBVIOUS
<1>1. CASE UNCHANGED vars
  <2>1. UNCHANGED <<pc, file, offset, n, table, lookup, live, strs, rc>>
    BY <1>1 DEF vars
  <2>2. kind' = kind /\ count' = count /\ Reachable' = Reachable
    BY <2>1 DEF kind, count, Reachable
  <2>3. TypeOK' /\ AllFound' /\ Released'
    BY <2>1, <2>2 DEF Inv, TypeOK, AllFound, Released
  <2>4. Parsing' /\ SameEnds' /\ Verdict'
    BY <2>1, <2>2 DEF Inv, Parsing, SameEnds, Verdict
  <2>5. QED
    BY <2>3, <2>4 DEF Inv
<1>2. CASE Next
  BY <1>2, BeginInv, ReadCommandInv, ReadScriptInv, ReadVariableInv, ReadLabelInv, FinishInv,
     FreeInv DEF Next
<1>3. QED
  BY <1>1, <1>2

LEMMA Invariance == Spec => []Inv
  BY InitInv, NextInv, PTL DEF Spec

------------------------------------------------------------------------------
(* The theorems.                                                           *)

\* No parser writes beyond the arrays of its caller, src/src/script_reader.c: it
\* reads no more records than they have room for, and the lookup table points to
\* variables of the table.
THEOREM TypeCorrect == Spec => []TypeOK
<1>1. Inv => TypeOK
  BY DEF Inv
<1>2. QED
  BY Invariance, <1>1, PTL

\* parse_ysv: in a parsed file each variable is found under its index, or a later
\* one with that index, however many there are and whatever their order.
THEOREM VariablesFound == Spec => []AllFound
<1>1. Inv => AllFound
  BY DEF Inv
<1>2. QED
  BY Invariance, <1>1, PTL

\* free_ysv and free_ysl find every string that a parser has allocated, also when
\* it gave up within a record, and leave nothing of a file that was parsed.
THEOREM StringsReleased == Spec => []Released
<1>1. Inv => Released
  BY DEF Inv
<1>2. QED
  BY Invariance, <1>1, PTL

\* The parsers of src/src/script_reader.c and of src/libyuris have each record end at
\* the same byte, but for lists of scripts of versions 301 to 469, whose records have
\* four bytes more in the player's.  For the other files, if they are of a version
\* both know and within the player's limits: the player reads one if libyuris can read
\* its records, and libyuris reads one that the player reads if it ends as it should.
THEOREM RecordsReadTheSame == Spec => []ParsersAgree
<1>1. Inv => ParsersAgree
  BY DEF Inv, SameEnds, Verdict, Extra, ParsersAgree, RustReads
<1>2. QED
  BY Invariance, <1>1, PTL
==============================================================================
