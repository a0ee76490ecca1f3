------------------------------- MODULE ExprOps -------------------------------
(***************************************************************************)
(* The operators on values of src/src/expr.c: what ExprVM leaves open.  A  *)
(* value is computed on by one operator after another, each with another   *)
(* value that an expression can push.                                      *)
(*                                                                         *)
(* An integer has W bits.  A double is not a number, or a number of        *)
(* Unit-ths of which the first P bits count, as the first 53 of a double   *)
(* do; 0 has no sign.  It is printed with one decimal, where %f prints     *)
(* six: both lose what is behind it.  Dividing doubles is left out.  A     *)
(* character is a number, see below.                                       *)
(***************************************************************************)
EXTENDS Integers, Sequences, FiniteSets, Summation

CONSTANTS
  W,              \* bits of an int64_t
  P,              \* bits of a double's significand
  Unit,           \* how many of the smallest doubles make 1
  NumberBufSize,  \* NUMBER_STR_BUF_SIZE
  Ints, Floats,   \* the numbers pushed, floats in Unit-ths or NaN
  Texts,          \* the strings pushed, as the bytes of the instruction
  NaN,            \* a number that is no double
  MaxOps          \* operators applied one after the other (a bound)

Pow2[n \in Nat] == IF n = 0 THEN 1 ELSE 2 * Pow2[n - 1]
Pow10[n \in Nat] == IF n = 0 THEN 1 ELSE 10 * Pow10[n - 1]

MIN == -Pow2[W - 1]
MAX == Pow2[W - 1] - 1

\* Mutant: arithmetic is done on wider integers.
Unwrapped(n) == n

Wrapped(n) == ((n - MIN) % Pow2[W]) + MIN

\* 0 to 9 are the digits.
MINUS == 10  DOT == 11  LETTER == 12  NAN == 13  NUL == 14
QUOTE == 15  BACKSLASH == 16  LETTER_N == 17  NEWLINE == 18
LETTER_T == 19  TAB == 20
Chars == 0..20

ASSUME WidthAssumption == {W, NumberBufSize} \subseteq Nat \ {0, 1} /\ {P, Unit} \subseteq Nat \ {0}
ASSUME OpsAssumption == MaxOps \in Nat

Int64(n) == [type |-> "INT", n |-> n]
Double(h) == [type |-> "FLOAT", n |-> h]
Text(t, l) == [type |-> "STR", text |-> t, len |-> l]   \* text without its final NUL

VARIABLES
  val,   \* the value on top of the stack
  raw,   \* the bytes it was pushed from, if it is a string just pushed, or NULL
  ops,   \* operators applied so far
  clean, \* no text so far has had a NUL inside, and no number printed been cut
  trap   \* an operator has killed the process

opsVars == <<val, raw, ops, clean, trap>>

------------------------------------------------------------------------------
\* Text and numbers

Least(S) == CHOOSE x \in S : \A y \in S : x <= y
Abs(n) == IF n < 0 THEN -n ELSE n

\* a / u as the nearest integer, the even one of two.
Nearest(a, u) ==
  LET q == a \div u
      rest == 2 * (a % u)
      up == IF rest > u \/ (rest = u /\ q % 2 = 1) THEN 1 ELSE 0
  IN  q + up

\* How far the doubles around a are apart.
Step[a \in Nat] == IF a < Pow2[P] THEN 1 ELSE 2 * Step[a \div 2]

\* The double nearest to n / d Unit-ths.
RoundedRatio(n, d) ==
  LET s == Step[Abs(n) \div d]
  IN  (IF n < 0 THEN -1 ELSE 1) * (Nearest(Abs(n), d * s) * s)
Rounded(h) == RoundedRatio(h, 1)

\* h Unit-ths are a double.
Representable(h) == h = NaN \/ Rounded(h) = h

ASSUME PushedAssumption == /\ Ints \subseteq MIN..MAX /\ Texts \subseteq Seq(Chars) /\ NaN \in Int
                           /\ Floats \subseteq Int /\ \A h \in Floats : Representable(h)

\* A string as the C library sees it.
CStr(t) == SubSeq(t, 1, Least({i \in 1..Len(t) : t[i] = NUL} \cup {Len(t) + 1}) - 1)

\* How many digits there are from position i on, and their value.
Digits(t, i) == Least({j \in i..Len(t) : t[j] > 9} \cup {Len(t) + 1}) - i
DigitsValue(t, i) ==
  LET v[k \in 0..Digits(t, i)] == IF k = 0 THEN 0 ELSE 10 * v[k - 1] + t[i + k - 1]
  IN  v[Digits(t, i)]

SignLen(t) == IF t # << >> /\ t[1] = MINUS THEN 1 ELSE 0
Signed(t, n) == IF SignLen(t) = 1 THEN -n ELSE n

\* The library's parsers: how many characters they take, if any, and the value.  An
\* integer that does not fit is the nearest that does.
strtoll(t) ==
  LET d == Digits(t, SignLen(t) + 1)
      v == Signed(t, DigitsValue(t, SignLen(t) + 1))
  IN  [used |-> IF d = 0 THEN 0 ELSE SignLen(t) + d,
       n |-> IF v < MIN THEN MIN ELSE IF v > MAX THEN MAX ELSE v]

strtod(t) ==
  LET i == SignLen(t) + 1
      d == Digits(t, i)
      point == i + d <= Len(t) /\ t[i + d] = DOT
      e == IF point THEN Digits(t, i + d + 1) ELSE 0
      fraction == IF point THEN DigitsValue(t, i + d + 1) ELSE 0
      n == Unit * (Pow10[e] * DigitsValue(t, i) + fraction)
  IN  IF t # << >> /\ t[1] = NAN THEN [used |-> 1, n |-> NaN]
      ELSE [used |-> IF d + e = 0 THEN 0 ELSE SignLen(t) + d + (IF point THEN 1 ELSE 0) + e,
            n |-> IF d + e = 0 THEN 0 ELSE RoundedRatio(Signed(t, n), Pow10[e])]

Sign(n) == IF n < 0 THEN <<MINUS>> ELSE << >>
Decimal[n \in Nat] == IF n < 10 THEN <<n>> ELSE Append(Decimal[n \div 10], n % 10)

\* A double's size in tenths, as many decimals as are printed.
Tenths(h) == Nearest(10 * Abs(h), Unit)

\* What printf would write of a number.
Printed(v) ==
  IF v.type = "INT" THEN Sign(v.n) \o Decimal[Abs(v.n)]
  ELSE IF v.n = NaN THEN <<NAN>>
  ELSE Sign(v.n) \o Decimal[Tenths(v.n) \div 10] \o <<DOT, Tenths(v.n) % 10>>

\* nbr_to_str: the buffer has what fits with a NUL, the result is the whole length.
nbr_to_str(v) == SubSeq(Printed(v), 1, Least({Len(Printed(v)), NumberBufSize - 1}))
nbr_to_str_len(v) == Len(Printed(v))

\* Integers are divided towards 0.
Quotient(n, d) == IF (n < 0) = (d < 0) THEN Abs(n) \div Abs(d) ELSE -(Abs(n) \div Abs(d))

\* A double out of range, or none, becomes the least integer on this processor.
FloatToInt(h) == LET q == Quotient(h, Unit) IN IF h = NaN \/ q \notin MIN..MAX THEN MIN ELSE q

to_float(v) == CASE v.type = "FLOAT" -> v.n [] v.type = "INT" -> Rounded(Unit * v.n)
                 [] v.type = "STR" -> strtod(CStr(v.text)).n
to_int(v) == CASE v.type = "INT" -> v.n [] v.type = "FLOAT" -> FloatToInt(v.n)
               [] v.type = "STR" -> strtoll(CStr(v.text)).n

\* Mutant: an integer is taken also if more follows it.
AnyInteger(t, r) == r.used > 0

\* The parser has taken all of the text.
Whole(t, r) == r.used > 0 /\ r.used = Len(t)

str_to_nbr(v) ==
  IF v.type # "STR" THEN v
  ELSE LET t == CStr(v.text)
       IN  IF Whole(t, strtoll(t)) THEN Int64(strtoll(t).n)
           ELSE IF Whole(t, strtod(t)) THEN Double(strtod(t).n)
           ELSE Int64(0)

------------------------------------------------------------------------------
\* The operators

BothInt(a, b) == a.type = "INT" /\ b.type = "INT"

\* Of an operand of op_add: its text and the length it counts for.
TextOf(v) == IF v.type = "STR" THEN CStr(v.text) ELSE nbr_to_str(v)
LenOf(v) == IF v.type = "STR" THEN v.len ELSE Len(nbr_to_str(v))

Float(a, b, h) == Double(IF NaN \in {to_float(a), to_float(b)} THEN NaN ELSE h)

op_add(a, b) ==
  IF "STR" \in {a.type, b.type} THEN Text(TextOf(a) \o TextOf(b), LenOf(a) + LenOf(b))
  ELSE IF BothInt(a, b) THEN Int64(Wrapped(a.n + b.n)) ELSE Float(a, b, Rounded(to_float(a) + to_float(b)))
op_sub(a, b) == IF BothInt(a, b) THEN Int64(Wrapped(a.n - b.n))
                ELSE Float(a, b, Rounded(to_float(a) - to_float(b)))
op_mul(a, b) == IF BothInt(a, b) THEN Int64(Wrapped(a.n * b.n))
                ELSE Float(a, b, RoundedRatio(to_float(a) * to_float(b), Unit))

\* Mutant: the remainder has the sign of the divisor.
Modulo(n, d) == IF d > 0 THEN n % d ELSE -((-n) % (-d))

Remainder(n, d) == n - d * Quotient(n, d)

op_div(a, b) == Int64(IF b.n = 0 THEN 0 ELSE Quotient(a.n, b.n))
op_mod(a, b) == Int64(IF b.n = 0 THEN 0 ELSE Remainder(a.n, b.n))

\* The bits that are set of the two's complement, and the number of a set of bits.
Bits(v) == {i \in 0..(W - 1) : (to_int(v) \div Pow2[i]) % 2 = 1}
OfBits(S) == Int64(Wrapped(SumTo([k \in 1..W |-> IF k - 1 \in S THEN Pow2[k - 1] ELSE 0], W)))

op_bit_and(a, b) == OfBits(Bits(a) \cap Bits(b))
op_bit_or(a, b) == OfBits(Bits(a) \cup Bits(b))
op_bit_xor(a, b) == OfBits((Bits(a) \cup Bits(b)) \ (Bits(a) \cap Bits(b)))

\* The processor traps.
Traps(op, a, b) == op \in {"div", "mod"} /\ a.n = MIN /\ b.n = -1

Truth(p) == Int64(IF p THEN 1 ELSE 0)
Less(g, h) == NaN \notin {g, h} /\ g < h
Same(g, h) == NaN \notin {g, h} /\ g = h

op_lt(a, b) == Truth(IF BothInt(a, b) THEN a.n < b.n ELSE Less(to_float(a), to_float(b)))

\* Mutant: mixed operands are compared as integers.
GreaterAsInts(a, b) == Truth(to_int(a) > to_int(b))

op_gt(a, b) == Truth(IF BothInt(a, b) THEN a.n > b.n ELSE Less(to_float(b), to_float(a)))
op_lte(a, b) == Truth(IF BothInt(a, b) THEN a.n <= b.n
                      ELSE Less(to_float(a), to_float(b)) \/ Same(to_float(a), to_float(b)))
op_gte(a, b) == Truth(IF BothInt(a, b) THEN a.n >= b.n
                      ELSE Less(to_float(b), to_float(a)) \/ Same(to_float(a), to_float(b)))

\* Strings are the same if they and their lengths are; otherwise one is read as a
\* number to be compared with a number.
op_eq(a, b) ==
  IF a.type = "STR" /\ b.type = "STR" THEN Truth(a.len = b.len /\ CStr(a.text) = CStr(b.text))
  ELSE LET x == str_to_nbr(a)
           y == str_to_nbr(b)
       IN  Truth(IF BothInt(x, y) THEN x.n = y.n ELSE Same(to_float(x), to_float(y)))
op_neq(a, b) == Truth(op_eq(a, b).n = 0)

op_log_and(a, b) == Truth(to_int(a) # 0 /\ to_int(b) # 0)
op_log_or(a, b) == Truth(to_int(a) # 0 \/ to_int(b) # 0)

Negated(v) == IF v.type = "FLOAT" THEN Double(IF v.n = NaN THEN NaN ELSE -v.n)
             ELSE Int64(Wrapped(-to_int(v)))
AsText(v) == IF v.type = "STR" THEN v ELSE Text(nbr_to_str(v), nbr_to_str_len(v))

------------------------------------------------------------------------------
\* OP_PUSH_STR

\* Quotes around a string are dropped.
Unquoted(t) == IF Len(t) >= 2 /\ t[1] = QUOTE /\ t[Len(t)] = QUOTE THEN SubSeq(t, 2, Len(t) - 1)
               ELSE t

Escaped(c) == CASE c = BACKSLASH -> BACKSLASH [] c = LETTER_N -> NEWLINE [] c = LETTER_T -> TAB
                [] OTHER -> NUL

\* An escape at i: what follows is replaced by what it stands for and the rest moved up.
IsEscape(s, i) == i < Len(s) /\ s[i] = BACKSLASH /\ Escaped(s[i + 1]) # NUL
Moved(s, i) == SubSeq(s, 1, i - 1) \o <<Escaped(s[i + 1])>> \o SubSeq(s, i + 2, Len(s))

\* Mutant: what an escape stands for is looked at again.
ReplacedTwice(s, i) ==
  IF ~IsEscape(s, i) THEN s
  ELSE IF IsEscape(Moved(s, i), i) THEN Moved(Moved(s, i), i) ELSE Moved(s, i)

Replaced(s, i) == IF IsEscape(s, i) THEN Moved(s, i) ELSE s

\* The loop over the characters, in place: as the string gets shorter, its last rounds
\* find none.
Unescape(t) ==
  LET after[i \in 0..Len(t)] == IF i = 0 THEN t ELSE Replaced(after[i - 1], i)
  IN  after[Len(t)]

OP_PUSH_STR(t) == LET s == Unescape(Unquoted(t)) IN Text(s, Len(s))

------------------------------------------------------------------------------
Pushed == {Int64(n) : n \in Ints} \cup {Double(h) : h \in Floats} \cup {OP_PUSH_STR(t) : t \in Texts}

Operators == {"add", "sub", "mul", "div", "mod", "lt", "gt", "lte", "gte", "eq", "neq", "and", "or", "bitand", "bitor", "bitxor"}

Result(op, a, b) ==
  CASE op = "add" -> op_add(a, b) [] op = "sub" -> op_sub(a, b) [] op = "mul" -> op_mul(a, b)
    [] op = "div" -> op_div(a, b) [] op = "mod" -> op_mod(a, b)
    [] op = "lt" -> op_lt(a, b) [] op = "gt" -> op_gt(a, b)
    [] op = "lte" -> op_lte(a, b) [] op = "gte" -> op_gte(a, b)
    [] op = "eq" -> op_eq(a, b) [] op = "neq" -> op_neq(a, b)
    [] op = "and" -> op_log_and(a, b) [] op = "or" -> op_log_or(a, b)
    [] op = "bitand" -> op_bit_and(a, b) [] op = "bitor" -> op_bit_or(a, b)
    [] op = "bitxor" -> op_bit_xor(a, b)

NotString == << >>   \* raw of anything else

Fits(v) == Len(Printed(v)) < NumberBufSize
PlainText(v) == v.type = "STR" => NUL \notin {v.text[i] : i \in DOMAIN v.text}

Compute(v) == val' = v /\ raw' = NotString /\ ops' = ops + 1 /\ UNCHANGED trap

\* The value and another one, on either side.
ApplyBinary ==
  /\ ~trap /\ ops < MaxOps
  /\ \E op \in Operators, c \in Pushed : \E a, b \in {val, c} :
        /\ {a, b} = {val, c}
        /\ op \in {"div", "mod"} => BothInt(a, b)
        /\ IF Traps(op, a, b) THEN trap' = TRUE /\ UNCHANGED <<val, raw, ops>>
                              ELSE Compute(Result(op, a, b))
        /\ clean' = (clean /\ PlainText(c))

ApplyUnary == /\ ~trap /\ ops < MaxOps
              /\ \/ (Compute(Negated(val)) \/ Compute(str_to_nbr(val))) /\ UNCHANGED clean
                 \/ Compute(AsText(val)) /\ clean' = (clean /\ (val.type # "STR" => Fits(val)))

OpsInit == /\ \/ \E n \in Ints : val = Int64(n) /\ raw = NotString
              \/ \E h \in Floats : val = Double(h) /\ raw = NotString
              \/ \E t \in Texts : val = OP_PUSH_STR(t) /\ raw = t
           /\ ops = 0 /\ clean = PlainText(val) /\ trap = FALSE

OpsSpec == OpsInit /\ [][ApplyBinary \/ ApplyUnary]_opsVars

------------------------------------------------------------------------------
\* Properties

OpsTypeOK ==
  /\ \/ val.type = "INT" /\ val.n \in MIN..MAX
     \/ val.type = "FLOAT" /\ val.n \in Int
     \/ val.type = "STR" /\ val.text \in Seq(Chars) /\ val.len \in Nat
  /\ raw \in Seq(Chars) /\ ops \in 0..MaxOps 
  /\ clean \in BOOLEAN /\ trap \in BOOLEAN

\* What a pushed string should be: escapes are read from left to right, and what one
\* stands for is not looked at again.
Reading(t) ==
  LET r[i \in 1..(Len(t) + 1)] ==
        IF i > Len(t) THEN << >>
        ELSE IF IsEscape(t, i) THEN <<Escaped(t[i + 1])>> \o r[i + 2]
        ELSE <<t[i]>> \o r[i + 1]
  IN  r[1]

\* A string pushed is what its bytes stand for; and the length of a string is that of
\* its text, if no text has had a NUL inside and the numbers printed have fitted their
\* buffer: op_eq and the caller of eval_expr rely on it.
TextsRight ==
  /\ raw # NotString => val.text = Reading(Unquoted(raw))
  /\ (val.type = "STR" /\ clean) => val.len = Len(CStr(val.text))

\* v is a number, or text that is one as a whole, and a double holds it exactly.
Exact(v) ==
  /\ v.type = "STR" => Whole(CStr(v.text), strtod(CStr(v.text)))
  /\ str_to_nbr(v).type = "INT" => to_float(v) = Unit * str_to_nbr(v).n
  /\ to_float(v) # NaN

\* Of two integers, and of two exact numbers of which one may be text, one of <, = and
\* > holds and no other; <= and >= are the opposites of > and <.  Of any two values, !=
\* is the opposite of =, and the order of the operands does not matter.
Ordered ==
  \A c \in Pushed :
     /\ op_neq(val, c).n = 1 - op_eq(val, c).n
     /\ op_eq(c, val) = op_eq(val, c) /\ op_gt(c, val) = op_lt(val, c)
     /\ BothInt(val, c) \/ (Exact(val) /\ Exact(c) /\ "STR" \notin {val.type} \cap {c.type})
        => /\ op_lt(val, c).n + op_eq(val, c).n + op_gt(val, c).n = 1
           /\ op_lte(val, c).n = 1 - op_gt(val, c).n
           /\ op_gte(val, c).n = 1 - op_lt(val, c).n

\* Nothing of a number is behind its printed decimals.
Prints(v) == v.type = "FLOAT" /\ v.n # NaN => (10 * Abs(v.n)) % Unit = 0

\* Integers divide towards 0, with a remainder smaller than the divisor and of the sign
\* of the dividend.  A number printed in full is read back with its type: as itself, and
\* equal to its text, if the decimals printed are all it has; otherwise as a double that
\* is off by no more than one in the last decimal printed.
NumbersExact ==
  /\ val.type = "INT" =>
        \A c \in Pushed :
           (c.type = "INT" /\ c.n # 0 /\ ~Traps("div", val, c)) =>
              LET q == op_div(val, c).n
                  r == op_mod(val, c).n
              IN  val.n = q * c.n + r /\ Abs(r) < Abs(c.n) /\ r * val.n >= 0
  /\ (val.type # "STR" /\ Fits(val)) =>
        LET read == str_to_nbr(AsText(val))
        IN  /\ read.type = val.type
            /\ Prints(val) => /\ read = val
                              /\ val.n # NaN => op_eq(val, AsText(val)) = Int64(1)
            /\ ~Prints(val) => 10 * Abs(read.n - val.n) <= Unit
==============================================================================
