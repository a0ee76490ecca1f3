------------------------------ MODULE DataFacts ------------------------------
(***************************************************************************)
(* Facts about sequences, numbers, sums and recursive functions that the   *)
(* proofs of several components cite.  There is no model in this module.   *)
(***************************************************************************)
EXTENDS Integers, Sequences, FiniteSets, SequenceTheorems, FiniteSetTheorems, Summation, TLAPS

------------------------------------------------------------------------------
(* Sequences by their domains.                                             *)

\* A sequence is a function on 1..n.
LEMMA SeqDomain ==
  ASSUME NEW S, NEW q \in Seq(S)
  PROVE  /\ \E n \in Nat : DOMAIN q = 1..n
         /\ DOMAIN q \subseteq Nat
         /\ \A i \in DOMAIN q : q[i] \in S
<1>1. PICK n \in Nat : n = Len(q)
  BY LenProperties
<1>2. q \in [1..n -> S] /\ DOMAIN q = 1..n
  BY <1>1, LenProperties
<1>3. QED
  BY <1>2

\* A function on 1..n is a sequence.
LEMMA FunctionIsSeq ==
  ASSUME NEW S, NEW n \in Nat, NEW q, q \in [1..n -> S]
  PROVE  q \in Seq(S)
BY SeqDef

\* What Append does.
LEMMA AppendDomain ==
  ASSUME NEW S, NEW q \in Seq(S), NEW e \in S
  PROVE  /\ Append(q, e) \in Seq(S)
         /\ Len(q) \in Nat
         /\ DOMAIN q = 1..Len(q)
         /\ DOMAIN Append(q, e) = 1..(Len(q) + 1)
         /\ \A i \in 1..Len(q) : Append(q, e)[i] = q[i]
         /\ Append(q, e)[Len(q) + 1] = e
<1>1. Len(q) \in Nat /\ DOMAIN q = 1..Len(q)
  BY LenProperties
<1>2. /\ Append(q, e) \in Seq(S)
      /\ Len(Append(q, e)) = Len(q) + 1
      /\ \A i \in 1..Len(q) : Append(q, e)[i] = q[i]
      /\ Append(q, e)[Len(q) + 1] = e
  BY AppendProperties
<1>3. DOMAIN Append(q, e) = 1..(Len(q) + 1)
  BY <1>2, LenProperties
<1>4. QED
  BY <1>1, <1>2, <1>3

\* The front and the back of two sequences joined.
LEMMA JoinedParts ==
  ASSUME NEW S, NEW p \in Seq(S), NEW u \in Seq(S), NEW m \in Nat \ {0}
  PROVE  /\ SubSeq(p \o u, 1, Len(p)) = p
         /\ SubSeq(p \o u, Len(p) + m, Len(p \o u)) = SubSeq(u, m, Len(u))
<1> DEFINE a == Len(p)
           b == Len(u)
           s == p \o u
<1>1. /\ a \in Nat /\ b \in Nat /\ s \in Seq(S) /\ Len(s) = a + b
      /\ \A i \in 1..(a + b) : s[i] = IF i <= a THEN p[i] ELSE u[i - a]
      /\ \A i \in 1..a : p[i] \in S
      /\ \A i \in 1..b : u[i] \in S
  BY ConcatProperties, LenProperties, ElementOfSeq
<1> HIDE DEF a, b, s
<1>2. \A i \in 1..(a + b) : s[i] \in S
  <2> SUFFICES ASSUME NEW i \in 1..(a + b)  PROVE s[i] \in S
    OBVIOUS
  <2>1. CASE i <= a
    <3>1. i \in 1..a
      BY <1>1, <2>1
    <3> QED  BY <1>1, <2>1, <3>1
  <2>2. CASE ~(i <= a)
    <3>1. i - a \in 1..b
      BY <1>1, <2>2
    <3> QED  BY <1>1, <2>2, <3>1
  <2> QED  BY <2>1, <2>2
<1>3. SubSeq(s, 1, a) = p
  <2>1. /\ SubSeq(s, 1, a) \in Seq(S) /\ Len(SubSeq(s, 1, a)) = a
        /\ \A i \in 1..a : SubSeq(s, 1, a)[i] = s[i]
    <3>1. 1 \in Int /\ a \in Int /\ \A i \in 1..a : s[i] \in S
      BY <1>1, <1>2
    <3>2. /\ SubSeq(s, 1, a) \in Seq(S) /\ Len(SubSeq(s, 1, a)) = IF 1 <= a THEN a - 1 + 1 ELSE 0
          /\ \A i \in 1..(a - 1 + 1) : SubSeq(s, 1, a)[i] = s[1 + i - 1]
      BY <3>1, SubSeqProperties
    <3> QED  BY <1>1, <3>2
  <2>2. \A i \in 1..a : s[i] = p[i]
    BY <1>1
  <2> HIDE DEF s
  <2> QED  BY <1>1, <2>1, <2>2, SeqEqual DEF a
<1>4. SubSeq(s, a + m, a + b) = SubSeq(u, m, b)
  <2> DEFINE x == SubSeq(s, a + m, a + b)
             y == SubSeq(u, m, b)
             d == b - m + 1
  <2>1. a + m \in Int /\ a + b \in Int /\ \A i \in (a + m)..(a + b) : s[i] \in S
    BY <1>1, <1>2
  <2>2. /\ x \in Seq(S) /\ Len(x) = IF a + m <= a + b THEN (a + b) - (a + m) + 1 ELSE 0
        /\ \A i \in 1..((a + b) - (a + m) + 1) : x[i] = s[(a + m) + i - 1]
    BY <2>1, SubSeqProperties
  <2>3. m \in Int /\ b \in Int /\ \A i \in m..b : u[i] \in S
    BY <1>1
  <2>4. /\ y \in Seq(S) /\ Len(y) = IF m <= b THEN b - m + 1 ELSE 0
        /\ \A i \in 1..(b - m + 1) : y[i] = u[m + i - 1]
    BY <2>3, SubSeqProperties
  <2> HIDE DEF x, y
  <2>5. Len(x) = Len(y) /\ Len(x) \in Nat /\ (Len(x) > 0 => Len(x) = d) /\ (a + b) - (a + m) + 1 = d
    BY <1>1, <2>2, <2>4
  <2>6. ASSUME NEW i \in 1..Len(x)  PROVE x[i] = y[i]
    <3>1. i \in 1..d /\ (a + m) + i - 1 \in 1..(a + b) /\ ~((a + m) + i - 1 <= a)
          /\ ((a + m) + i - 1) - a = m + i - 1
      BY <1>1, <2>5
    <3>2. x[i] = s[(a + m) + i - 1]
      BY <2>2, <2>5, <3>1
    <3>3. s[(a + m) + i - 1] = u[m + i - 1]
      BY <1>1, <3>1
    <3> QED  BY <2>4, <3>1, <3>2, <3>3
  <2>7. x = y
    BY <2>2, <2>4, <2>5, <2>6, SeqEqual
  <2> QED  BY <2>7 DEF x, y
<1> QED  BY <1>1, <1>3, <1>4 DEF a, b, s

\* The back of the back.
LEMMA BackOfBack ==
  ASSUME NEW S, NEW t \in Seq(S), NEW j \in 1..(Len(t) + 1), NEW m \in Nat \ {0}
  PROVE  LET u == SubSeq(t, j, Len(t))
         IN  /\ u \in Seq(S) /\ Len(u) = Len(t) - j + 1
             /\ \A i \in 1..Len(u) : u[i] = t[j + i - 1]
             /\ SubSeq(u, m, Len(u)) = SubSeq(t, j + m - 1, Len(t))
<1> DEFINE n == Len(t)
           u == SubSeq(t, j, n)
           x == SubSeq(u, m, Len(u))
           y == SubSeq(t, j + m - 1, n)
<1>1. n \in Nat /\ \A i \in 1..n : t[i] \in S
  BY LenProperties, ElementOfSeq
<1>2. j \in Int /\ n \in Int /\ \A i \in j..n : t[i] \in S
  BY <1>1
<1>3. /\ u \in Seq(S) /\ Len(u) = n - j + 1
      /\ \A i \in 1..(n - j + 1) : u[i] = t[j + i - 1]
  <2>1. /\ u \in Seq(S) /\ Len(u) = IF j <= n THEN n - j + 1 ELSE 0
        /\ \A i \in 1..(n - j + 1) : u[i] = t[j + i - 1]
    BY <1>2, SubSeqProperties
  <2> QED  BY <1>1, <2>1
<1> HIDE DEF u
<1>4. /\ x \in Seq(S) /\ Len(x) = IF m <= Len(u) THEN Len(u) - m + 1 ELSE 0
      /\ \A i \in 1..(Len(u) - m + 1) : x[i] = u[m + i - 1]
  <2>1. m \in Int /\ Len(u) \in Int /\ \A i \in m..Len(u) : u[i] \in S
    BY <1>1, <1>3, ElementOfSeq
  <2> QED  BY <2>1, SubSeqProperties
<1>5. /\ y \in Seq(S) /\ Len(y) = IF j + m - 1 <= n THEN n - (j + m - 1) + 1 ELSE 0
      /\ \A i \in 1..(n - (j + m - 1) + 1) : y[i] = t[(j + m - 1) + i - 1]
  <2>1. j + m - 1 \in Int /\ n \in Int /\ \A i \in (j + m - 1)..n : t[i] \in S
    BY <1>1
  <2> QED  BY <2>1, SubSeqProperties
<1> HIDE DEF x, y, n
<1>6. Len(x) = Len(y) /\ Len(x) \in Nat
  BY <1>1, <1>3, <1>4, <1>5 DEF n
<1>7. ASSUME NEW i \in 1..Len(x)  PROVE x[i] = y[i]
  <2>1. /\ i \in 1..(Len(u) - m + 1) /\ i \in 1..(n - (j + m - 1) + 1)
        /\ m + i - 1 \in 1..(n - j + 1) /\ j + (m + i - 1) - 1 = (j + m - 1) + i - 1
    BY <1>1, <1>3, <1>4, <1>6 DEF n
  <2>2. x[i] = u[m + i - 1] /\ y[i] = t[(j + m - 1) + i - 1]
    BY <1>4, <1>5, <2>1
  <2> QED  BY <1>3, <2>1, <2>2
<1>8. x = y
  BY <1>4, <1>5, <1>6, <1>7, SeqEqual
<1> QED  BY <1>3, <1>8 DEF x, y, n, u

------------------------------------------------------------------------------
(* Division.                                                               *)

\* A half and a quotient.
LEMMA Halves ==
  ASSUME NEW a \in Nat
  PROVE  /\ a \div 2 \in Nat /\ (a > 0 => a \div 2 < a)
         /\ a % 2 \in {0, 1} /\ a = 2 * (a \div 2) + (a % 2)
OBVIOUS

LEMMA Division ==
  ASSUME NEW a \in Nat, NEW d \in Nat \ {0}
  PROVE  a \div d \in Nat /\ a % d \in 0..(d - 1) /\ a = d * (a \div d) + (a % d)
OBVIOUS

\* There is one quotient and one remainder.
LEMMA DivisionIs ==
  ASSUME NEW d \in Nat \ {0}, NEW q \in Nat, NEW r \in 0..(d - 1)
  PROVE  (q * d + r) \div d = q /\ (q * d + r) % d = r
<1> DEFINE a == q * d + r
           p == a \div d
           e == a % d
<1>1. a \in Nat /\ p \in Nat /\ e \in 0..(d - 1) /\ a = d * p + e
  <2>1. a \in Nat
    OBVIOUS
  <2> HIDE DEF a
  <2> QED  BY <2>1, Division
<1>2. q * d + r = p * d + e
  BY <1>1
<1> HIDE DEF a, p, e
<1>3. CASE p < q
  <2>1. PICK x \in Nat \ {0} : q = p + x
    BY <1>1, <1>3
  <2>2. q * d = p * d + x * d /\ x * d >= d
    BY <1>1, <2>1
  <2> QED  BY <1>1, <1>2, <2>2
<1>4. CASE q < p
  <2>1. PICK x \in Nat \ {0} : p = q + x
    BY <1>1, <1>4
  <2>2. p * d = q * d + x * d /\ x * d >= d
    BY <1>1, <2>1
  <2> QED  BY <1>1, <1>2, <2>2
<1>5. CASE p = q
  BY <1>1, <1>2, <1>5 DEF a, p, e
<1> QED  BY <1>1, <1>3, <1>4, <1>5

------------------------------------------------------------------------------
(* The least and the greatest number of a set.  The library's induction on *)
(* numbers wants an operator; that strict inclusion of finite sets is well *)
(* founded wants none, and a number k is told by the set 0..k.             *)

\* A set of numbers that is not empty has a least element.
LEMMA LeastExists ==
  ASSUME NEW S, S \subseteq Nat, S # {}
  PROVE  \E m \in S : \A x \in S : m <= x
<1> DEFINE R == StrictSubsetOrdering(Nat)
           F == FiniteSubsetsOf(Nat)
           T == {0..k : k \in S}
<1>1. IsWellFoundedOn(R, F)
  BY FS_StrictSubsetOrderingWellFounded
<1>2. T \subseteq F /\ T # {}
  <2>1. ASSUME NEW k \in S  PROVE 0..k \in F
    BY FS_Interval DEF FiniteSubsetsOf
  <2>2. QED
    BY <2>1
<1> HIDE DEF R, F, T
<1>3. PICK t \in T : \A u \in T : ~ (<<u, t>> \in R)
  BY <1>1, <1>2, WFMin
<1>4. PICK m \in S : t = 0..m
  BY <1>3 DEF T
<1>5. ASSUME NEW x \in S, x < m  PROVE FALSE
  <2>1. 0..x \in T
    BY DEF T
  <2>2. 0..x \subseteq 0..m /\ m \in 0..m /\ m \notin 0..x
    BY <1>5
  <2>3. 0..x \in SUBSET Nat /\ 0..m \in SUBSET Nat
    OBVIOUS
  <2>4. <<0..x, 0..m>> \in R
    BY <2>2, <2>3 DEF R, StrictSubsetOrdering
  <2>5. QED
    BY <1>3, <1>4, <2>1, <2>4
<1>6. QED
  BY <1>5

\* A finite set of numbers that is not empty has a greatest element.
LEMMA GreatestExists ==
  ASSUME NEW S, S \subseteq Nat, S # {}, IsFiniteSet(S)
  PROVE  \E m \in S : \A x \in S : x <= m
<1> DEFINE R == StrictSubsetOrdering(Nat)
           F == FiniteSubsetsOf(Nat)
           Up(k) == {x \in S : k <= x}
           T == {Up(k) : k \in S}
<1>1. IsWellFoundedOn(R, F)
  BY FS_StrictSubsetOrderingWellFounded
<1>2. T \subseteq F /\ T # {}
  <2>1. ASSUME NEW k \in S  PROVE Up(k) \in F
    <3>1. Up(k) \in SUBSET S
      OBVIOUS
    <3>2. IsFiniteSet(Up(k))
      BY <3>1, FS_Subset
    <3>3. QED
      BY <3>1, <3>2 DEF FiniteSubsetsOf
  <2>2. QED
    BY <2>1
<1> HIDE DEF R, F, T
<1>3. PICK t \in T : \A u \in T : ~ (<<u, t>> \in R)
  BY <1>1, <1>2, WFMin
<1>4. PICK m \in S : t = Up(m)
  BY <1>3 DEF T
<1>5. ASSUME NEW x \in S, m < x  PROVE FALSE
  <2>1. Up(x) \in T
    BY DEF T
  <2>2. x \in Nat /\ m \in Nat
    OBVIOUS
  <2>3. \A y \in S : x <= y => m <= y
    BY <1>5, <2>2
  <2>4. Up(x) \subseteq Up(m)
    BY <2>3
  <2>5. m \in Up(m) /\ m \notin Up(x)
    BY <1>5, <2>2
  <2>6. <<Up(x), Up(m)>> \in R
    BY <2>4, <2>5 DEF R, StrictSubsetOrdering
  <2>7. QED
    BY <1>3, <1>4, <2>1, <2>6
<1>6. QED
  BY <1>5

\* So has one whose numbers stay below a bound.
LEMMA GreatestBelow ==
  ASSUME NEW d \in Nat, NEW S, S \subseteq 0..d, S # {}
  PROVE  \E m \in S : \A x \in S : x <= m
<1>1. IsFiniteSet(0..d)
  BY FS_Interval
<1>2. IsFiniteSet(S)
  BY <1>1, FS_Subset
<1>3. S \subseteq Nat
  OBVIOUS
<1>4. QED
  BY <1>2, <1>3, GreatestExists

------------------------------------------------------------------------------
(* Sums.  SumTo is a recursive function; that there is one, and but one, is *)
(* shown for the least number for which there would not be.                *)

\* g[j] is the sum of f[1], ..., f[j], for every j up to k.
Sums(g, f, k) == g = [i \in 0..k |-> IF i = 0 THEN 0 ELSE g[i - 1] + f[i]]

LEMMA SumsExist ==
  ASSUME NEW f, NEW k \in Nat
  PROVE  \E g : Sums(g, f, k)
<1> DEFINE S == {m \in Nat : ~ \E g : Sums(g, f, m)}
<1>1. CASE S = {}
  BY <1>1
<1>2. CASE S # {}
  <2>1. PICK m \in S : \A x \in S : m <= x
    BY <1>2, LeastExists
  <2>2. m # 0
    <3>1. Sums([i \in 0..0 |-> 0], f, 0)
      BY DEF Sums
    <3>2. QED
      BY <3>1
  <2>3. m - 1 \in Nat /\ m - 1 \notin S
    BY <2>1, <2>2
  <2>4. PICK g : Sums(g, f, m - 1)
    BY <2>3
  <2> DEFINE h == [i \in 0..m |-> IF i = m THEN g[m - 1] + f[m] ELSE g[i]]
  <2>5. Sums(h, f, m)
    <3>1. ASSUME NEW i \in 0..m
          PROVE  h[i] = IF i = 0 THEN 0 ELSE h[i - 1] + f[i]
      <4>1. CASE i = m
        BY <2>2, <2>3, <4>1
      <4>2. CASE i # m
        <5>1. /\ i \in 0..(m - 1)
              /\ i # 0 => i - 1 \in 0..m /\ i - 1 # m
          BY <4>2
        <5>2. g[i] = IF i = 0 THEN 0 ELSE g[i - 1] + f[i]
          BY <2>4, <5>1 DEF Sums
        <5>3. QED
          BY <4>2, <5>1, <5>2
      <4>3. QED
        BY <4>1, <4>2
    <3>2. QED
      BY <3>1 DEF Sums
  <2>6. QED
    BY <2>5
<1>3. QED
  BY <1>1, <1>2

\* Sums of the same numbers agree.
LEMMA SumsAgree ==
  ASSUME NEW f1, NEW f2, NEW g1, NEW g2, NEW k1 \in Nat, NEW k2 \in Nat,
         Sums(g1, f1, k1), Sums(g2, f2, k2),
         NEW j \in Nat, j <= k1, j <= k2,
         \A i \in Nat : 1 <= i /\ i <= j => f1[i] = f2[i]
  PROVE  g1[j] = g2[j]
<1> DEFINE S == {m \in Nat : m <= j /\ g1[m] # g2[m]}
<1>1. CASE S = {}
  BY <1>1
<1>2. CASE S # {}
  <2>1. PICK m \in S : \A x \in S : m <= x
    BY <1>2, LeastExists
  <2>2. m \in Nat /\ m <= j /\ g1[m] # g2[m]
    BY <2>1
  <2>3. m \in 0..k1 /\ m \in 0..k2
    BY <2>2
  <2>4. /\ g1[m] = IF m = 0 THEN 0 ELSE g1[m - 1] + f1[m]
        /\ g2[m] = IF m = 0 THEN 0 ELSE g2[m - 1] + f2[m]
    BY <2>3 DEF Sums
  <2>5. m # 0
    BY <2>2, <2>4
  <2>6. m - 1 \in Nat /\ m - 1 <= j /\ m - 1 \notin S /\ 1 <= m
    BY <2>1, <2>2, <2>5
  <2>7. g1[m - 1] = g2[m - 1] /\ f1[m] = f2[m]
    BY <2>6
  <2>8. QED
    BY <2>2, <2>4, <2>5, <2>7
<1>3. QED
  BY <1>1, <1>2

LEMMA SumToSums ==
  ASSUME NEW f, NEW k \in Nat
  PROVE  \E g : Sums(g, f, k) /\ SumTo(f, k) = g[k]
<1> DEFINE s == CHOOSE g : g = [i \in 0..k |-> IF i = 0 THEN 0 ELSE g[i - 1] + f[i]]
<1>1. SumTo(f, k) = s[k]
  BY DEF SumTo
<1>2. Sums(s, f, k)
  BY SumsExist DEF Sums
<1>3. QED
  BY <1>1, <1>2

\* What SumTo computes.
LEMMA SumToStep ==
  ASSUME NEW f, NEW k \in Nat
  PROVE  /\ SumTo(f, 0) = 0
         /\ SumTo(f, k + 1) = SumTo(f, k) + f[k + 1]
<1>1. PICK g0 : Sums(g0, f, 0) /\ SumTo(f, 0) = g0[0]
  BY SumToSums
<1>2. PICK g : Sums(g, f, k) /\ SumTo(f, k) = g[k]
  BY SumToSums
<1>3. k + 1 \in Nat /\ k \in 0..(k + 1) /\ k + 1 \in 0..(k + 1) /\ (k + 1) - 1 = k
  OBVIOUS
<1>4. PICK h : Sums(h, f, k + 1) /\ SumTo(f, k + 1) = h[k + 1]
  BY <1>3, SumToSums
<1>5. g0[0] = 0
  BY <1>1 DEF Sums
<1>6. h[k + 1] = h[k] + f[k + 1]
  BY <1>3, <1>4 DEF Sums
<1>7. h[k] = g[k]
  <2>1. k <= k + 1 /\ k <= k /\ \A i \in Nat : 1 <= i /\ i <= k => f[i] = f[i]
    OBVIOUS
  <2>2. Sums(h, f, k + 1) /\ Sums(g, f, k)
    BY <1>2, <1>4
  <2>3. QED
    BY <1>3, <2>1, <2>2, SumsAgree
<1>8. QED
  BY <1>1, <1>2, <1>4, <1>5, <1>6, <1>7

LEMMA SumToSame ==
  ASSUME NEW f1, NEW f2, NEW k \in Nat, \A i \in 1..k : f1[i] = f2[i]
  PROVE  SumTo(f1, k) = SumTo(f2, k)
<1>1. PICK g1 : Sums(g1, f1, k) /\ SumTo(f1, k) = g1[k]
  BY SumToSums
<1>2. PICK g2 : Sums(g2, f2, k) /\ SumTo(f2, k) = g2[k]
  BY SumToSums
<1>3. k <= k /\ \A i \in Nat : 1 <= i /\ i <= k => f1[i] = f2[i]
  OBVIOUS
<1>4. Sums(g1, f1, k) /\ Sums(g2, f2, k)
  BY <1>1, <1>2
<1>5. g1[k] = g2[k]
  BY <1>3, <1>4, SumsAgree
<1>6. QED
  BY <1>1, <1>2, <1>5

LEMMA SumToNat ==
  ASSUME NEW f, NEW k \in Nat, \A i \in 1..k : f[i] \in Nat
  PROVE  SumTo(f, k) \in Nat
<1> DEFINE S == {m \in Nat : m <= k /\ SumTo(f, m) \notin Nat}
<1>1. CASE S = {}
  BY <1>1
<1>2. CASE S # {}
  <2>1. PICK m \in S : \A x \in S : m <= x
    BY <1>2, LeastExists
  <2>2. m \in Nat /\ m <= k /\ SumTo(f, m) \notin Nat
    BY <2>1
  <2>3. m # 0
    BY <2>2, SumToStep
  <2>4. m - 1 \in Nat /\ m - 1 <= k /\ m \in 1..k /\ (m - 1) + 1 = m
    BY <2>2, <2>3
  <2>5. SumTo(f, m - 1) \in Nat
    BY <2>1, <2>4
  <2>6. SumTo(f, m) = SumTo(f, m - 1) + f[m]
    BY <2>4, SumToStep
  <2>7. QED
    BY <2>2, <2>4, <2>5, <2>6
<1>3. QED
  BY <1>1, <1>2

------------------------------------------------------------------------------
(* Recursive functions.  There is one by the same argument as for sums.    *)

\* A function of D by recursion: z gives its value on B, and h elsewhere the value at x
\* from that at r[x], whose measure m is less.
Descends(D, S, m, B, z, r, h) ==
  /\ m \in [D -> Nat] /\ B \subseteq D /\ z \in [B -> S]
  /\ r \in [D \ B -> D] /\ \A x \in D \ B : m[r[x]] < m[x]
  /\ h \in [D \ B -> [S -> S]]

Recurs(f, D, B, z, r, h) == f = [x \in D |-> IF x \in B THEN z[x] ELSE h[x][f[r[x]]]]

\* There is such a function, with values in S.
LEMMA Recursion ==
  ASSUME NEW D, NEW S, NEW m, NEW B, NEW z, NEW r, NEW h, Descends(D, S, m, B, z, r, h)
  PROVE  \E f : f \in [D -> S] /\ Recurs(f, D, B, z, r, h)
<1> USE DEF Descends
<1> DEFINE Below(k) == {x \in D : m[x] < k}
           Value(g, x) == IF x \in B THEN z[x] ELSE h[x][g[r[x]]]
           Good(g, k) == \A x \in Below(k) : g[x] \in S /\ g[x] = Value(g, x)
<1>0. \A x \in D : m[x] \in Nat
  OBVIOUS
<1>1. ASSUME NEW f, NEW g, NEW k \in Nat,
             \A x \in Below(k) : f[x] = Value(f, x) /\ g[x] = Value(g, x),
             NEW x0 \in Below(k)
      PROVE  f[x0] = g[x0]
  <2> DEFINE Bad == {n \in Nat : \E x \in Below(k) : m[x] = n /\ f[x] # g[x]}
  <2> SUFFICES ASSUME f[x0] # g[x0]  PROVE FALSE
    OBVIOUS
  <2>1. m[x0] \in Bad
    OBVIOUS
  <2>2. PICK n \in Bad : \A i \in Bad : n <= i
    <3>1. Bad \subseteq Nat /\ Bad # {}
      BY <2>1
    <3> QED  BY <3>1, LeastExists
  <2>3. PICK x \in Below(k) : m[x] = n /\ f[x] # g[x]
    BY <2>2
  <2>4. f[x] = Value(f, x) /\ g[x] = Value(g, x)
    BY <1>1
  <2>5. x \notin B
    BY <2>3, <2>4
  <2>6. r[x] \in D /\ m[r[x]] < m[x] /\ m[r[x]] \in Nat /\ m[x] \in Nat
    BY <2>5
  <2>7. r[x] \in Below(k)
    BY <2>6, <2>3
  <2>8. f[r[x]] # g[r[x]]
    BY <2>3, <2>4, <2>5
  <2>9. m[r[x]] \in Bad
    BY <2>6, <2>7, <2>8
  <2> QED  BY <2>2, <2>3, <2>6, <2>9
<1>2. ASSUME NEW k \in Nat  PROVE \E g : Good(g, k)
  <2> DEFINE Bad == {n \in Nat : ~ \E g : Good(g, n)}
  <2> SUFFICES ASSUME ~ \E g : Good(g, k)  PROVE FALSE
    OBVIOUS
  <2>1. PICK n \in Bad : \A i \in Bad : n <= i
    <3> HIDE DEF Good
    <3>1. Bad \subseteq Nat /\ Bad # {}
      OBVIOUS
    <3> QED  BY <3>1, LeastExists
  <2>2. CASE n = 0
    <3>1. Good(z, n)
      BY <1>0, <2>2
    <3> QED  BY <2>1, <3>1
  <2>3. CASE n # 0
    <3>1. n - 1 \in Nat /\ n - 1 \notin Bad
      BY <2>1, <2>3
    <3>2. PICK f : Good(f, n - 1)
      BY <3>1
    <3> DEFINE g == [x \in Below(n) |-> Value(f, x)]
    <3>3. ASSUME NEW x \in Below(n)  PROVE g[x] \in S /\ g[x] = Value(g, x)
      <4>1. CASE x \in B
        BY <4>1
      <4>2. CASE x \notin B
        <5>1. r[x] \in D /\ m[r[x]] < m[x] /\ m[r[x]] \in Nat /\ m[x] \in Nat /\ m[x] < n
          BY <4>2
        <5>2. r[x] \in Below(n - 1) /\ r[x] \in Below(n)
          BY <5>1
        <5>3. f[r[x]] \in S /\ f[r[x]] = Value(f, r[x])
          BY <3>2, <5>2
        <5>4. g[r[x]] = Value(f, r[x])
          BY <5>2
        <5>5. g[x] = h[x][f[r[x]]]
          BY <4>2
        <5>6. h[x] \in [S -> S]
          BY <4>2
        <5> QED  BY <4>2, <5>3, <5>4, <5>5, <5>6
      <4> QED  BY <4>1, <4>2
    <3>4. Good(g, n)
      BY <3>3
    <3> QED  BY <2>1, <3>4
  <2> QED  BY <2>2, <2>3
<1> DEFINE G(x) == CHOOSE g : Good(g, m[x] + 1)
           F == [x \in D |-> G(x)[x]]
<1>3. ASSUME NEW x \in D  PROVE Good(G(x), m[x] + 1) /\ x \in Below(m[x] + 1)
  <2>1. m[x] \in Nat /\ m[x] + 1 \in Nat
    OBVIOUS
  <2>2. \E g : Good(g, m[x] + 1)
    BY <1>2, <2>1
  <2> HIDE DEF Good
  <2> QED  BY <2>1, <2>2
<1>4. ASSUME NEW x \in D  PROVE F[x] \in S /\ F[x] = Value(F, x)
  <2>1. F[x] = G(x)[x] /\ G(x)[x] \in S /\ G(x)[x] = Value(G(x), x)
    BY <1>3
  <2>2. CASE x \in B
    BY <2>1, <2>2
  <2>3. CASE x \notin B
    <3>1. r[x] \in D /\ m[r[x]] < m[x] /\ m[r[x]] \in Nat /\ m[x] \in Nat
      BY <2>3
    <3>2. r[x] \in Below(m[r[x]] + 1) /\ m[r[x]] + 1 \in Nat
      BY <3>1
    <3>3. \A y \in Below(m[r[x]] + 1) : y \in Below(m[x] + 1)
      BY <3>1
    <3>4. \A y \in Below(m[r[x]] + 1) :
             G(x)[y] = Value(G(x), y) /\ G(r[x])[y] = Value(G(r[x]), y)
      BY <1>3, <3>1, <3>3
    <3>5. G(x)[r[x]] = G(r[x])[r[x]]
      <4> HIDE DEF F, G, Good, Below, Value
      <4> QED  BY <1>1, <3>2, <3>4
    <3>6. F[r[x]] = G(r[x])[r[x]]
      BY <3>1
    <3>7. F[x] = h[x][G(x)[r[x]]]
      BY <2>1, <2>3
    <3>8. F[x] = h[x][F[r[x]]]
      BY <3>5, <3>6, <3>7
    <3>9. F[x] \in S
      BY <2>1
    <3> HIDE DEF F
    <3> QED  BY <2>3, <3>8, <3>9
  <2> QED  BY <2>2, <2>3
<1> HIDE DEF F
<1>5. F = [x \in D |-> G(x)[x]]
  BY DEF F
<1> HIDE DEF G
<1>6. F \in [D -> S] /\ F = [x \in D |-> Value(F, x)]
  BY <1>4, <1>5
<1> QED  BY <1>6 DEF Recurs

\* A set that is not empty has a member of the least measure.
LEMMA LeastBy ==
  ASSUME NEW D, NEW m \in [D -> Nat], NEW A, A \subseteq D, A # {}
  PROVE  \E x \in A : m[x] \in Nat /\ \A y \in A : m[x] <= m[y]
<1> DEFINE M == {m[x] : x \in A}
<1>1. M \subseteq Nat /\ M # {}
  OBVIOUS
<1>2. PICK n \in M : \A i \in M : n <= i
  <2> HIDE DEF M
  <2> QED  BY <1>1, LeastExists
<1> QED  BY <1>1, <1>2

\* A function that obeys where the recursion tells its value has values in S.
LEMMA RecursionType ==
  ASSUME NEW D, NEW S, NEW m, NEW B, NEW z, NEW r, NEW h, Descends(D, S, m, B, z, r, h),
         NEW g, \A x \in B : g[x] = z[x],
         \A x \in D \ B : g[r[x]] \in S => g[x] = h[x][g[r[x]]]
  PROVE  \A x \in D : g[x] \in S
<1> USE DEF Descends
<1> DEFINE A == {x \in D : g[x] \notin S}
<1>1. CASE A = {}
  BY <1>1
<1>2. CASE A # {}
  <2>1. PICK x \in A : m[x] \in Nat /\ \A y \in A : m[x] <= m[y]
    BY <1>2, LeastBy
  <2>2. x \in D \ B /\ r[x] \in D /\ m[r[x]] \in Nat /\ m[r[x]] < m[x]
    BY <2>1
  <2>3. r[x] \notin A
    BY <2>1, <2>2
  <2>4. h[x] \in [S -> S] /\ g[r[x]] \in S /\ g[x] = h[x][g[r[x]]]
    BY <2>2, <2>3
  <2> QED  BY <2>1, <2>4
<1> QED  BY <1>1, <1>2
==============================================================================
