------------------------- MODULE VariableRefsProofs -------------------------
(***************************************************************************)
(* Proofs about VariableRefs, for every UnitCollection, every reference    *)
(* element and every variable: which references are refused, which unit    *)
(* one has, and what decode and the example program make of a value.       *)
(***************************************************************************)
EXTENDS VariableRefs, ValueDecodingProofs

---------------------------------------------------------------------------
(* Formats, datatypes and values. *)

\* Decimal are the formats that print digits, with or without a number of places.
LEMMA Decimals ==
  ASSUME NEW format \in DOMAIN DisplayFormat
  PROVE  isDecimal(format) <=> format \notin {None, "Bin", "Hex"}
<1>1. CASE format \in {None, "Bin", "Hex"}
  BY <1>1, NoneAssumption DEF isDecimal, DisplayFormat, Formats, Decimal
<1>2. CASE format \in Decimal
  BY <1>2, NoneAssumption DEF isDecimal, DisplayFormat, Formats, Decimal
<1>3. DOMAIN DisplayFormat = Formats \cup {None}
  BY DEF DisplayFormat
<1> QED BY <1>1, <1>2, <1>3 DEF Formats

\* What decode scales is what the example program has a formula for.
LEMMA Scaled ==
  ASSUME NEW datatype \in SimpleDatatypes \cup ComplexDatatypes
  PROVE  /\ hasFormula(datatype) <=> datatype \in {"UInteger", "Integer", "Float32", "Array", "Record"}
         /\ ~isProcessData(datatype)
BY DEF hasFormula, isNumericData, isNumericComplexData, isComplexData, isSimpleData, isProcessData,
       Code, SimpleDatatypes, ComplexDatatypes

\* The alternatives of a decoded value.
ValueKind == {"bool", "uint64", "int64", "float", "string", "throws", "undefined"}

LEMMA KindOfSimple ==
  ASSUME NEW bytes, NEW type
  PROVE  decode(bytes, type).kind \in ValueKind
<1>1. CASE ~accepts(bytes, type)
  BY <1>1 DEF decode, Throws, Value, ValueKind
<1>2. CASE accepts(bytes, type)
  BY <1>2 DEF decode, Value, ValueKind
<1> QED BY <1>1, <1>2

LEMMA KindOfValue ==
  ASSUME NEW bytes, NEW type, NEW subindex
  PROVE  decodeValue(bytes, type, subindex).kind \in ValueKind
<1>1. \A b, s : decodeArray(b, type, s).kind \in ValueKind
  BY KindOfSimple DEF decodeArray, Value, Undefined, ValueKind
<1>2. \A b, s : decodeItem(b, type, s).kind \in ValueKind
  BY KindOfSimple DEF decodeItem, Value, Undefined, Throws, ValueKind
<1>3. CASE type.datatype \in ComplexDatatypes /\ subindex = None
  BY <1>3 DEF decodeValue, Value, Throws, ValueKind
<1>4. CASE type.datatype = "Array" /\ subindex # None
  BY <1>1, <1>4 DEF decodeValue
<1>5. CASE type.datatype = "Record" /\ subindex # None
  BY <1>2, <1>5 DEF decodeValue
<1>6. CASE type.datatype \notin ComplexDatatypes
  BY <1>6, KindOfSimple DEF decodeValue, ComplexDatatypes
<1> QED BY <1>3, <1>4, <1>5, <1>6 DEF ComplexDatatypes

---------------------------------------------------------------------------
(* Floats. *)

UlpRule(f, m) == IF m < PRECISE THEN 1 ELSE 2 * f[m \div 2]
UlpUpTo(f, n) == f = [m \in 0..n |-> UlpRule(f, m)]

HALF == 8388608

LEMMA Precise == HALF \in Nat \ {0} /\ PRECISE \in Nat \ {0} /\ PRECISE = 2 * HALF
BY SMT DEF PRECISE, HALF

LEMMA Half ==
  ASSUME NEW m \in Nat, m >= PRECISE
  PROVE  m \div 2 \in Nat /\ m \div 2 < m /\ (m = 2 * (m \div 2) \/ m = 2 * (m \div 2) + 1)
<1>1. m # 0 BY Precise
<1> QED BY <1>1

\* The recursive definition has a solution on every 0..n, and only one.
LEMMA UlpExists ==
  ASSUME NEW n \in Nat
  PROVE  \E f : UlpUpTo(f, n)
<1> DEFINE Bad == {k \in Nat : ~ \E f : UlpUpTo(f, k)}
<1> SUFFICES ASSUME Bad # {} PROVE FALSE
  OBVIOUS
<1>1. PICK m \in Bad : \A k \in Bad : m <= k
  <2>1. Bad \in SUBSET Nat OBVIOUS
  <2> HIDE DEF Bad
  <2> QED BY <2>1, LeastElement
<1>2. m \in Nat /\ ~ \E f : UlpUpTo(f, m) BY <1>1
<1>3. CASE m < PRECISE
  <2> DEFINE f == [k \in 0..m |-> 1]
  <2>1. \A k \in 0..m : k < PRECISE BY <1>2, <1>3, Precise
  <2>2. f = [k \in 0..m |-> UlpRule(f, k)] BY <2>1 DEF UlpRule
  <2> HIDE DEF f
  <2>3. UlpUpTo(f, m) BY <2>2 DEF UlpUpTo
  <2> QED BY <1>2, <2>3
<1>4. CASE m >= PRECISE
  <2>1. m - 1 \in Nat /\ m - 1 \notin Bad BY <1>1, <1>2, <1>4, Precise
  <2>2. PICK g : UlpUpTo(g, m - 1) BY <2>1
  <2> DEFINE f == [k \in 0..m |-> UlpRule(g, k)]
  <2>3. \A k \in 0..m - 1 : f[k] = g[k]
    <3>1. \A k \in 0..m - 1 : k \in 0..m BY <1>2
    <3>2. \A k \in 0..m - 1 : g[k] = UlpRule(g, k) BY <2>2 DEF UlpUpTo
    <3> QED BY <3>1, <3>2
  <2>4. ASSUME NEW k \in 0..m PROVE UlpRule(g, k) = UlpRule(f, k)
    <3>1. CASE k < PRECISE BY <3>1 DEF UlpRule
    <3>2. CASE ~ (k < PRECISE)
      <4>1. k \in Nat /\ k >= PRECISE BY <1>2, <3>2, Precise
      <4>2. k \div 2 \in Nat /\ k \div 2 < k BY <4>1, Half
      <4>3. k \div 2 \in 0..m - 1 BY <1>2, <4>2
      <4> HIDE DEF f
      <4>4. f[k \div 2] = g[k \div 2] BY <2>3, <4>3
      <4> QED BY <4>4 DEF UlpRule
    <3> QED BY <3>1, <3>2
  <2>5. f = [k \in 0..m |-> UlpRule(f, k)]
    <3> DEFINE h == f
    <3>1. h = [k \in 0..m |-> UlpRule(g, k)] OBVIOUS
    <3>2. \A k \in 0..m : UlpRule(g, k) = UlpRule(h, k) BY <2>4
    <3> HIDE DEF h
    <3>3. h = [k \in 0..m |-> UlpRule(h, k)] BY <3>1, <3>2
    <3> QED BY <3>3 DEF h
  <2> HIDE DEF f
  <2>6. UlpUpTo(f, m) BY <2>5 DEF UlpUpTo
  <2> QED BY <1>2, <2>6
<1> QED BY <1>2, <1>3, <1>4, Precise

LEMMA UlpUnique ==
  ASSUME NEW f, NEW n \in Nat, UlpUpTo(f, n), NEW g, NEW k \in Nat, UlpUpTo(g, k),
         NEW m \in 0..n, m \in 0..k
  PROVE  f[m] = g[m]
<1> DEFINE Bad == {i \in 0..m : f[i] # g[i]}
<1>1. ASSUME NEW i \in 0..m PROVE f[i] = UlpRule(f, i) /\ g[i] = UlpRule(g, i)
  <2>1. i \in 0..n /\ i \in 0..k OBVIOUS
  <2>2. f[i] = UlpRule(f, i) BY <2>1 DEF UlpUpTo
  <2>3. g[i] = UlpRule(g, i) BY <2>1 DEF UlpUpTo
  <2> QED BY <2>2, <2>3
<1>2. ASSUME Bad # {} PROVE FALSE
  <2>1. PICK i \in Bad : \A j \in Bad : i <= j
    <3>1. Bad \in SUBSET Nat OBVIOUS
    <3> HIDE DEF Bad
    <3> QED BY <1>2, <3>1, LeastElement
  <2>2. i \in 0..m /\ f[i] # g[i] BY <2>1
  <2>3. i >= PRECISE BY <1>1, <2>2, Precise DEF UlpRule
  <2>4. i \in Nat /\ i \div 2 \in Nat /\ i \div 2 < i BY <2>2, <2>3, Half
  <2>5. i \div 2 \in 0..m /\ i \div 2 \notin Bad
    <3> HIDE DEF Bad
    <3> QED BY <2>1, <2>2, <2>4
  <2>6. f[i \div 2] = g[i \div 2] BY <2>5
  <2> QED BY <1>1, <2>2, <2>6 DEF UlpRule
<1> QED BY <1>2

UlpAt(m) == (CHOOSE f : UlpUpTo(f, m))[m]

LEMMA UlpUnfolds ==
  ASSUME NEW m \in Nat
  PROVE  ulpOf[m] = UlpRule(ulpOf, m)
<1> DEFINE F == [k \in Nat |-> UlpAt(k)]
<1>1. ASSUME NEW k \in Nat PROVE UlpAt(k) = UlpRule(F, k)
  <2> DEFINE f == CHOOSE f : UlpUpTo(f, k)
  <2>1. UlpUpTo(f, k) BY UlpExists
  <2> HIDE DEF f
  <2>2. UlpAt(k) = f[k] BY DEF UlpAt, f
  <2>3. k \in 0..k OBVIOUS
  <2>4. f[k] = UlpRule(f, k) BY <2>1, <2>3 DEF UlpUpTo
  <2>5. CASE k < PRECISE BY <2>2, <2>4, <2>5 DEF UlpRule
  <2>6. CASE ~ (k < PRECISE)
    <3> DEFINE j == k \div 2
               g == CHOOSE g : UlpUpTo(g, j)
    <3>1. j \in Nat /\ j \in 0..k /\ j \in 0..j
      <4>1. k >= PRECISE BY <2>6, Precise
      <4>2. k \div 2 \in Nat /\ k \div 2 < k BY <4>1, Half
      <4> QED BY <4>2
    <3>2. UlpUpTo(g, j)
      <4> HIDE DEF j
      <4> QED BY <3>1, UlpExists
    <3> HIDE DEF g, j
    <3>3. f[j] = g[j] BY <2>1, <3>1, <3>2, UlpUnique
    <3>4. F[j] = g[j] BY <3>1 DEF UlpAt, g
    <3> QED BY <2>2, <2>4, <2>6, <3>3, <3>4 DEF UlpRule, j
  <2> QED BY <2>5, <2>6
<1>2. F = [k \in Nat |-> UlpRule(F, k)]
  <2> DEFINE h == F
  <2>1. h = [k \in Nat |-> UlpAt(k)] OBVIOUS
  <2>2. \A k \in Nat : UlpAt(k) = UlpRule(h, k) BY <1>1
  <2> HIDE DEF h
  <2>3. h = [k \in Nat |-> UlpRule(h, k)] BY <2>1, <2>2
  <2> QED BY <2>3 DEF h
<1> HIDE DEF F
<1>3. ulpOf = [k \in Nat |-> UlpRule(ulpOf, k)]
  BY <1>2 DEF ulpOf, UlpRule
<1> HIDE DEF ulpOf
<1> QED BY <1>3
\* The last place of a number: as fine as 24 bits allow, and no finer.
UlpFits(m, ulp) ==
  /\ ulp \in Nat \ {0}
  /\ m < PRECISE * ulp
  /\ ulp = 1 \/ m >= HALF * ulp

LEMMA UlpIs ==
  ASSUME NEW m \in Nat
  PROVE  UlpFits(m, ulpOf[m]) /\ (m >= PRECISE => ulpOf[m] >= 2)
<1> DEFINE Bad == {k \in Nat : ~ UlpFits(k, ulpOf[k])}
<1>1. ASSUME NEW k \in Nat, k < PRECISE PROVE ulpOf[k] = 1 /\ UlpFits(k, ulpOf[k])
  <2>1. ulpOf[k] = 1 BY <1>1, UlpUnfolds DEF UlpRule
  <2>2. PRECISE * 1 = PRECISE BY Precise
  <2> QED BY <1>1, <2>1, <2>2 DEF UlpFits
<1>2. ASSUME NEW k \in Nat, k >= PRECISE, UlpFits(k \div 2, ulpOf[k \div 2])
      PROVE  ulpOf[k] >= 2 /\ UlpFits(k, ulpOf[k])
  <2> DEFINE h == k \div 2
             u == ulpOf[h]
             w == HALF * u
  <2>1. ulpOf[k] = 2 * u
    <3>1. ~ (k < PRECISE) BY <1>2, Precise
    <3> QED BY <3>1, UlpUnfolds DEF UlpRule
  <2>2. h \in Nat /\ (k = 2 * h \/ k = 2 * h + 1) BY <1>2, Half
  <2>3. u \in Nat \ {0} /\ h < PRECISE * u /\ (u = 1 \/ h >= w)
    BY <1>2 DEF UlpFits
  <2> HIDE DEF h, u
  <2>4. PRECISE * u = 2 * w /\ w \in Nat /\ PRECISE * (2 * u) = 4 * w /\ HALF * (2 * u) = 2 * w
    BY <2>3, Precise
  <2>5. u = 1 => w = HALF BY <2>3, Precise
  <2>6. k >= 2 * HALF BY <1>2, Precise
  <2> HIDE DEF w
  <2>7. k < 4 * w BY <2>2, <2>3, <2>4
  <2>8. k >= 2 * w
    <3>1. CASE u = 1 BY <2>5, <2>6, <3>1
    <3>2. CASE h >= w BY <2>2, <2>4, <3>2
    <3> QED BY <2>3, <3>1, <3>2
  <2>9. 2 * u \in Nat \ {0} /\ 2 * u >= 2 BY <2>3
  <2> QED BY <2>1, <2>4, <2>7, <2>8, <2>9 DEF UlpFits
<1>3. Bad = {}
  <2> SUFFICES ASSUME Bad # {} PROVE FALSE
    OBVIOUS
  <2>1. PICK k \in Bad : \A j \in Bad : k <= j
    <3>1. Bad \in SUBSET Nat OBVIOUS
    <3> HIDE DEF Bad
    <3> QED BY <3>1, LeastElement
  <2>2. k \in Nat /\ ~ UlpFits(k, ulpOf[k]) BY <2>1
  <2>3. k >= PRECISE BY <1>1, <2>2, Precise
  <2>4. k \div 2 \in Nat /\ k \div 2 < k BY <2>2, <2>3, Half
  <2>5. UlpFits(k \div 2, ulpOf[k \div 2])
    <3>1. k \div 2 \notin Bad
      <4> HIDE DEF Bad
      <4> QED BY <2>1, <2>2, <2>4
    <3> QED BY <2>4, <3>1
  <2> QED BY <1>2, <2>2, <2>3, <2>5
<1>4. \A k \in Nat : UlpFits(k, ulpOf[k]) BY <1>3
<1> HIDE DEF Bad
<1>5. ASSUME m >= PRECISE PROVE ulpOf[m] >= 2
  <2>1. m \div 2 \in Nat BY <1>5, Half
  <2> QED BY <1>2, <1>4, <1>5, <2>1
<1> QED BY <1>4, <1>5

\* The last place of a larger number is the same or twice as large at least.
LEMMA UlpGrows ==
  ASSUME NEW a \in Nat, NEW b \in Nat, a <= b
  PROVE  ulpOf[a] = ulpOf[b] \/ 2 * ulpOf[a] <= ulpOf[b]
<1> DEFINE Grows(x, y) == ulpOf[x] = ulpOf[y] \/ 2 * ulpOf[x] <= ulpOf[y]
           Bad == {x \in Nat : \E y \in Nat : x <= y /\ ~ Grows(x, y)}
<1>1. Bad = {}
  <2> SUFFICES ASSUME Bad # {} PROVE FALSE
    OBVIOUS
  <2>1. PICK x \in Bad : \A z \in Bad : x <= z
    <3>1. Bad \in SUBSET Nat OBVIOUS
    <3> HIDE DEF Bad
    <3> QED BY <3>1, LeastElement
  <2>2. PICK y \in Nat : x <= y /\ ~ Grows(x, y) BY <2>1
  <2>3. x \in Nat BY <2>1
  <2>4. CASE x < PRECISE
    <3>1. ulpOf[x] = 1 BY <2>3, <2>4, UlpUnfolds DEF UlpRule
    <3>2. y < PRECISE => ulpOf[y] = 1 BY UlpUnfolds DEF UlpRule
    <3>3. y >= PRECISE => ulpOf[y] >= 2 BY UlpIs
    <3>4. y < PRECISE \/ y >= PRECISE BY Precise
    <3>5. 2 * 1 = 2 OBVIOUS
    <3> QED BY <2>2, <3>1, <3>2, <3>3, <3>4, <3>5
  <2>5. CASE ~ (x < PRECISE)
    <3> DEFINE i == x \div 2
               j == y \div 2
               u == ulpOf[i]
               v == ulpOf[j]
    <3>1. x >= PRECISE /\ y >= PRECISE /\ ~ (y < PRECISE) BY <2>2, <2>3, <2>5, Precise
    <3>2. i \in Nat /\ j \in Nat /\ i < x /\ i <= j BY <2>2, <2>3, <3>1, Half
    <3>3. ulpOf[x] = 2 * u /\ ulpOf[y] = 2 * v
      BY <2>3, <2>5, <3>1, UlpUnfolds DEF UlpRule
    <3>4. Grows(i, j)
      <4>1. i \notin Bad
        <5> HIDE DEF Bad, i
        <5> QED BY <2>1, <2>3, <3>2
      <4> HIDE DEF Grows
      <4> QED BY <3>2, <4>1
    <3>5. u \in Nat /\ v \in Nat BY <3>2, UlpIs DEF UlpFits
    <3>6. u = v \/ 2 * u <= v BY <3>4
    <3> HIDE DEF u, v
    <3>7. 2 * u = 2 * v \/ 2 * (2 * u) <= 2 * v BY <3>5, <3>6
    <3> QED BY <2>2, <3>3, <3>7
  <2> QED BY <2>4, <2>5
<1> HIDE DEF Grows
<1>2. Grows(a, b) BY <1>1
<1> QED BY <1>2 DEF Grows

LEMMA TimesKeepsOrder ==
  ASSUME NEW x \in Int, NEW y \in Int, NEW u \in Nat, x <= y
  PROVE  x * u <= y * u /\ x * u \in Int /\ y * u \in Int
<1>1. y - x \in Nat OBVIOUS
<1>2. (y - x) * u \in Nat BY <1>1
<1>3. y * u = x * u + (y - x) * u OBVIOUS
<1> QED BY <1>2, <1>3

LEMMA TimesTellsOrder ==
  ASSUME NEW x \in Int, NEW y \in Int, NEW u \in Nat, x * u < y * u
  PROVE  x < y
<1> SUFFICES ASSUME y <= x PROVE FALSE
  OBVIOUS
<1>1. y * u <= x * u /\ y * u \in Int /\ x * u \in Int BY TimesKeepsOrder
<1> QED BY <1>1

\* What rounding to a last place ulp does.
RoundedTo(m, ulp) ==
  LET q == m \div ulp
      rest == 2 * (m % ulp)
  IN (IF rest > ulp \/ (rest = ulp /\ q % 2 = 1) THEN q + 1 ELSE q) * ulp

Up(m, ulp) == 2 * (m % ulp) > ulp \/ (2 * (m % ulp) = ulp /\ (m \div ulp) % 2 = 1)

LEMMA RoundsTo ==
  ASSUME NEW m \in Nat, NEW ulp \in Nat \ {0}
  PROVE  /\ m \div ulp \in Nat /\ m % ulp \in 0..ulp - 1
         /\ m = (m \div ulp) * ulp + (m % ulp)
         /\ RoundedTo(m, ulp) = (IF Up(m, ulp) THEN m \div ulp + 1 ELSE m \div ulp) * ulp
         /\ RoundedTo(m, ulp) \in Nat
         /\ (m \div ulp) * ulp <= RoundedTo(m, ulp) /\ RoundedTo(m, ulp) <= (m \div ulp + 1) * ulp
<1> DEFINE q == m \div ulp
           r == m % ulp
           c == IF Up(m, ulp) THEN q + 1 ELSE q
<1>1. q \in Nat /\ r \in 0..ulp - 1 /\ m = q * ulp + r
  <2>1. q \in Nat /\ r \in 0..ulp - 1 OBVIOUS
  <2>2. m = ulp * q + r OBVIOUS
  <2>3. ulp * q = q * ulp BY <2>1
  <2> QED BY <2>1, <2>2, <2>3
<1>2. RoundedTo(m, ulp) = c * ulp BY DEF RoundedTo, Up
<1> HIDE DEF q, r
<1>3. c \in Nat /\ q <= c /\ c <= q + 1 /\ q + 1 \in Int BY <1>1
<1> HIDE DEF c
<1>4. q * ulp <= c * ulp /\ c * ulp <= (q + 1) * ulp BY <1>1, <1>3, TimesKeepsOrder
<1>5. c * ulp \in Nat BY <1>3
<1> DEFINE x == RoundedTo(m, ulp)
<1>6. x \in Nat /\ q * ulp <= x /\ x <= (q + 1) * ulp BY <1>2, <1>4, <1>5
<1> HIDE DEF x
<1> QED BY <1>1, <1>2, <1>6, Zenon DEF q, r, c, x

LEMMA RoundedIs ==
  ASSUME NEW m \in Nat
  PROVE  rounded(m) = RoundedTo(m, ulpOf[m])
BY DEF rounded, RoundedTo

\* Rounding keeps order: what rounds differently is apart by a last place.
LEMMA RoundedKeepsOrder ==
  ASSUME NEW a \in Nat, NEW b \in Nat, a <= b
  PROVE  rounded(a) <= rounded(b) /\ rounded(a) \in Nat /\ rounded(b) \in Nat
<1> DEFINE u == ulpOf[a]
           v == ulpOf[b]
           p == a \div u
           q == b \div v
           x == RoundedTo(a, u)
           y == RoundedTo(b, v)
<1>1. /\ u \in Nat \ {0} /\ a < PRECISE * u
      /\ v \in Nat \ {0} /\ (v = 1 \/ b >= HALF * v)
  BY UlpIs DEF UlpFits
<1>2. u = v \/ 2 * u <= v BY UlpGrows
<1>3. rounded(a) = x /\ rounded(b) = y BY RoundedIs
<1> HIDE DEF u, v
<1>4. /\ p \in Nat /\ a % u \in 0..u - 1 /\ a = p * u + (a % u) /\ x \in Nat /\ x <= (p + 1) * u
      /\ x = (IF Up(a, u) THEN p + 1 ELSE p) * u
  BY <1>1, RoundsTo
<1>5. /\ q \in Nat /\ b % v \in 0..v - 1 /\ b = q * v + (b % v) /\ y \in Nat /\ q * v <= y
      /\ y = (IF Up(b, v) THEN q + 1 ELSE q) * v
  BY <1>1, RoundsTo
<1>6. CASE u = v
  <2>1. b = q * u + (b % u) /\ b % u \in 0..u - 1 /\ q * u <= y BY <1>5, <1>6
  <2> DEFINE r == a % u
             s == b % u
             d == (q + 1) * u
  <2>2. p <= q
    <3>1. d = q * u + u /\ d \in Int /\ q * u \in Int /\ p * u \in Int BY <1>1, <1>4, <1>5
    <3> HIDE DEF d, p, q
    <3>2. p * u < d
      <4> DEFINE pu == p * u
                 qu == q * u
      <4>1. /\ pu \in Int /\ qu \in Int /\ r \in 0..u - 1 /\ s \in 0..u - 1 /\ u \in Int
            /\ a = pu + r /\ b = qu + s /\ d = qu + u
        BY <1>1, <1>4, <2>1, <3>1
      <4> HIDE DEF pu, qu, r, s
      <4>2. pu < d BY <4>1
      <4> QED BY <4>2 DEF pu
    <3>3. p < q + 1 BY <1>1, <1>4, <1>5, <3>2, TimesTellsOrder DEF d
    <3> QED BY <1>4, <1>5, <3>3
  <2>3. CASE p < q
    <3>1. p + 1 <= q /\ p + 1 \in Int BY <1>4, <1>5, <2>3
    <3>2. (p + 1) * u <= q * u /\ (p + 1) * u \in Int /\ q * u \in Int
      <4> HIDE DEF p, q
      <4> QED BY <1>1, <1>5, <3>1, TimesKeepsOrder
    <3> HIDE DEF p, q, x, y
    <3>3. x <= y BY <1>4, <1>5, <2>1, <3>2
    <3> QED BY <1>3, <1>4, <1>5, <3>3
  <2>4. CASE p = q
    <3>1. r <= s
      <4> DEFINE w == p * u
      <4>1. w \in Int /\ a = w + r /\ b = w + s /\ r \in Int /\ s \in Int BY <1>1, <1>4, <2>1, <2>4
      <4> HIDE DEF w, r, s
      <4> QED BY <4>1
    <3>2. Up(a, u) => Up(b, u)
      <4>1. a \div u = b \div u BY <1>6, <2>4
      <4>2. r \in Int /\ s \in Int /\ u \in Int BY <1>1, <1>4, <2>1
      <4>3. 2 * r > u => 2 * s > u
        <5> HIDE DEF r, s
        <5> QED BY <3>1, <4>2
      <4>4. 2 * r = u => 2 * s > u \/ 2 * s = u
        <5> HIDE DEF r, s
        <5> QED BY <3>1, <4>2
      <4> QED BY <4>1, <4>3, <4>4 DEF Up
    <3> DEFINE i == IF Up(a, u) THEN p + 1 ELSE p
               j == IF Up(b, u) THEN p + 1 ELSE p
    <3>3. i \in Int /\ j \in Int /\ i <= j BY <1>4, <3>2
    <3>4. x = i * u /\ y = j * u BY <1>4, <1>5, <1>6, <2>4
    <3> HIDE DEF i, j, x, y
    <3>5. x <= y BY <1>1, <3>3, <3>4, TimesKeepsOrder
    <3> QED BY <1>3, <1>4, <1>5, <3>5
  <2> QED BY <1>4, <1>5, <2>2, <2>3, <2>4
<1>7. CASE 2 * u <= v
  <2>1. HALF \in Nat /\ PRECISE \in Nat /\ PRECISE = 2 * HALF BY Precise
  <2>2. v # 1 /\ b >= HALF * v BY <1>1, <1>7
  <2> HIDE DEF p, q, x, y
  <2>3. p + 1 <= PRECISE
    <3>1. p * u < PRECISE * u
      <4> DEFINE pu == p * u
                 r == a % u
                 top == PRECISE * u
      <4>1. pu \in Int /\ r \in Nat /\ a = pu + r /\ a < top /\ top \in Int
        BY <1>1, <1>4, <2>1
      <4> HIDE DEF pu, r, top
      <4>2. pu < top BY <4>1
      <4> QED BY <4>2 DEF pu, top
    <3>2. p < PRECISE BY <1>1, <1>4, <2>1, <3>1, TimesTellsOrder
    <3> QED BY <1>4, <2>1, <3>2
  <2>4. HALF <= q
    <3>1. (q + 1) * v = q * v + v BY <1>1, <1>5
    <3>2. HALF * v < (q + 1) * v BY <1>1, <1>5, <2>1, <2>2, <3>1
    <3>3. HALF < q + 1 BY <1>1, <1>5, <2>1, <3>2, TimesTellsOrder
    <3> QED BY <1>5, <2>1, <3>3
  <2>5. (p + 1) * u <= PRECISE * u /\ (p + 1) * u \in Int /\ PRECISE * u \in Int
    BY <1>1, <1>4, <2>1, <2>3, TimesKeepsOrder
  <2>6. HALF * v <= q * v /\ HALF * v \in Int /\ q * v \in Int BY <1>1, <1>5, <2>1, <2>4, TimesKeepsOrder
  <2>7. (2 * u) * HALF <= v * HALF /\ (2 * u) * HALF \in Int BY <1>1, <1>7, <2>1, TimesKeepsOrder
  <2>8. PRECISE * u = (2 * u) * HALF /\ v * HALF = HALF * v BY <1>1, <2>1
  <2>9. x <= y BY <1>4, <1>5, <2>5, <2>6, <2>7, <2>8
  <2> QED BY <1>3, <1>4, <1>5, <2>9
<1> QED BY <1>2, <1>6, <1>7

\* A float has every whole number of up to 24 bits.
LEMMA RoundedExactly ==
  ASSUME NEW m \in Nat, m <= PRECISE
  PROVE  rounded(m) = m
<1>1. CASE m < PRECISE
  <2>1. ulpOf[m] = 1 BY <1>1, UlpUnfolds DEF UlpRule
  <2>2. m \div 1 = m /\ m % 1 = 0 BY SMT
  <2>3. RoundedTo(m, 1) = m BY SMT, <2>2 DEF RoundedTo
  <2> QED BY <2>1, <2>3, RoundedIs
<1>2. CASE m = PRECISE
  <2>1. m = 2 * HALF /\ m \div 2 = HALF /\ m % 2 = 0 /\ HALF < PRECISE /\ ~ (m < PRECISE)
    BY SMT, <1>2, Precise
  <2>2. ulpOf[HALF] = 1 BY <2>1, UlpUnfolds DEF UlpRule
  <2>3. ulpOf[m] = 2 * ulpOf[m \div 2] BY <2>1, UlpUnfolds DEF UlpRule
  <2>4. ulpOf[m] = 2 BY <2>1, <2>2, <2>3
  <2>5. RoundedTo(m, 2) = m BY SMT, <2>1 DEF RoundedTo
  <2> QED BY <2>4, <2>5, RoundedIs
<1> QED BY SMT, <1>1, <1>2, Precise

LEMMA FloatIsExact ==
  ASSUME NEW n \in Int, Within(n)
  PROVE  toFloat(n) = n
<1>1. -PRECISE <= n /\ n <= PRECISE
  BY SMT, Precise DEF Within
<1>2. CASE n < 0
  <2>1. -n \in Nat /\ -n <= PRECISE
    BY SMT, <1>1, <1>2, Precise
  <2>2. rounded(-n) = -n
    BY <2>1, RoundedExactly
  <2> QED BY SMT, <1>2, <2>2 DEF toFloat
<1>3. CASE ~(n < 0)
  <2>1. n \in Nat /\ n <= PRECISE
    BY SMT, <1>1, <1>3
  <2> QED BY <1>3, <2>1, RoundedExactly DEF toFloat
<1> QED BY <1>2, <1>3

\* A float keeps the order of whole numbers, of either sign.
LEMMA FloatKeepsOrder ==
  ASSUME NEW x \in Int, NEW y \in Int, x <= y
  PROVE  toFloat(x) <= toFloat(y) /\ toFloat(x) \in Int /\ toFloat(y) \in Int
<1>1. \A m \in Nat : rounded(m) \in Nat
  <2>1. ASSUME NEW m \in Nat PROVE rounded(m) \in Nat
    <3>1. m <= m OBVIOUS
    <3> QED BY <3>1, RoundedKeepsOrder
  <2> QED BY <2>1
<1>2. CASE y < 0
  <2>1. -x \in Nat /\ -y \in Nat /\ -y <= -x /\ x < 0 BY <1>2
  <2>2. rounded(-y) <= rounded(-x) /\ rounded(-x) \in Nat /\ rounded(-y) \in Nat
    BY <2>1, RoundedKeepsOrder
  <2>3. toFloat(x) = -rounded(-x) /\ toFloat(y) = -rounded(-y) BY <1>2, <2>1 DEF toFloat
  <2> QED BY <2>2, <2>3
<1>3. CASE x < 0 /\ ~ (y < 0)
  <2>1. -x \in Nat /\ y \in Nat BY <1>3
  <2>2. rounded(-x) \in Nat /\ rounded(y) \in Nat BY <1>1, <2>1
  <2>3. toFloat(x) = -rounded(-x) /\ toFloat(y) = rounded(y) BY <1>3 DEF toFloat
  <2> QED BY <2>2, <2>3
<1>4. CASE ~ (x < 0)
  <2>1. x \in Nat /\ y \in Nat /\ ~ (y < 0) BY <1>4
  <2>2. rounded(x) <= rounded(y) /\ rounded(x) \in Nat /\ rounded(y) \in Nat
    BY <2>1, RoundedKeepsOrder
  <2>3. toFloat(x) = rounded(x) /\ toFloat(y) = rounded(y) BY <1>4, <2>1 DEF toFloat
  <2> QED BY <2>2, <2>3
<1> QED BY <1>2, <1>3, <1>4
\* A whole number stays whole.
LEMMA FloatIsWhole ==
  ASSUME NEW n \in Int
  PROVE  toFloat(n) \in Int
<1>1. n <= n OBVIOUS
<1> QED BY <1>1, FloatKeepsOrder

\* The attributes as they are kept, the defaults included.
LEMMA DefaultsAreFloats == toFloat(1) = 1 /\ toFloat(0) = 0
<1>1. 1 \in Int /\ 0 \in Int /\ Within(1) /\ Within(0)
  BY SMT, Precise DEF Within
<1> QED BY <1>1, FloatIsExact

LEMMA KeptAttributes ==
  ASSUME node \in RefNode
  PROVE  /\ Gradient \in Int /\ Or(decodeFloatAttribute(node.gradient), 1) = toFloat(Gradient)
         /\ Offset \in Int /\ Or(decodeFloatAttribute(node.offset), 0) = toFloat(Offset)
<1>1. ASSUME NEW attribute \in Int \cup {None}, NEW default \in Int, toFloat(default) = default
      PROVE  /\ Or(attribute, default) \in Int
             /\ Or(decodeFloatAttribute(attribute), default) = toFloat(Or(attribute, default))
  <2>1. CASE attribute = None
    BY <1>1, <2>1 DEF Or, decodeFloatAttribute
  <2>2. CASE attribute \in Int /\ attribute # None
    <3>1. toFloat(attribute) # None
      BY <2>2, FloatIsWhole, NoneAssumption
    <3> QED BY <2>2, <3>1 DEF Or, decodeFloatAttribute
  <2> QED BY <1>1, <2>1, <2>2
<1>2. node.gradient \in Int \cup {None} /\ node.offset \in Int \cup {None}
  BY DEF RefNode
<1>3. /\ Or(node.gradient, 1) \in Int
      /\ Or(decodeFloatAttribute(node.gradient), 1) = toFloat(Or(node.gradient, 1))
  <2> DEFINE attribute == node.gradient
  <2>1. attribute \in Int \cup {None} /\ 1 \in Int /\ toFloat(1) = 1
    BY <1>2, DefaultsAreFloats
  <2> HIDE DEF attribute
  <2>2. /\ Or(attribute, 1) \in Int
        /\ Or(decodeFloatAttribute(attribute), 1) = toFloat(Or(attribute, 1))
    BY <1>1, <2>1
  <2> QED BY <2>2 DEF attribute
<1>4. /\ Or(node.offset, 0) \in Int
      /\ Or(decodeFloatAttribute(node.offset), 0) = toFloat(Or(node.offset, 0))
  <2> DEFINE attribute == node.offset
  <2>1. attribute \in Int \cup {None} /\ 0 \in Int /\ toFloat(0) = 0
    BY <1>2, DefaultsAreFloats
  <2> HIDE DEF attribute
  <2>2. /\ Or(attribute, 0) \in Int
        /\ Or(decodeFloatAttribute(attribute), 0) = toFloat(Or(attribute, 0))
    BY <1>1, <2>1
  <2> QED BY <2>2 DEF attribute
<1> QED BY <1>3, <1>4 DEF Gradient, Offset

---------------------------------------------------------------------------
(* The inductive invariant. *)

UN == document.units
CodeAt(i) == uint16(UN[i].code)
FirstOfCode(i) == \A j \in 1..i - 1 : CodeAt(j) # CodeAt(i)

\* decodeUnits has accepted the units before pos, and has the first of each code.
UnitsInv ==
  stage \in {"units", "ready"} =>
    /\ pos <= Len(UN) + 1
    /\ \A i \in 1..pos - 1 : UnitComplete(UN[i])
    /\ DOMAIN units = {CodeAt(i) : i \in 1..pos - 1}
    /\ \A i \in 1..pos - 1 : FirstOfCode(i) => units[CodeAt(i)].abbr = UN[i].abbr

\* A reference is the one its element asks for, but for an access right that no
\* constructor sets; one that is refused lacks something.
RefInv ==
  /\ stage = "ready" =>
       pos = Len(UN) + 1 /\ CompleteRef /\ \E access \in Indeterminate : ref = Reference(access)
  /\ stage = "refused" => ~CompleteRef

\* The last answer is that of the reference.
AnswerInv ==
  answer # None =>
    /\ answer.call = "decode" =>
         answer.input \in Inputs /\ answer.result = RefDecode(answer.input)
    /\ answer.call = "print" => answer.result = Representation

Inv == document \in Documents /\ TypeOK /\ UnitsInv /\ RefInv /\ AnswerInv

\* The elements have their types.
LEMMA Nodes ==
  ASSUME Inv
  PROVE  /\ UN \in Seq(UnitNode) /\ DOMAIN UN = 1..Len(UN) /\ Len(UN) \in Nat
         /\ \A i \in DOMAIN UN : UN[i] \in UnitNode
         /\ node \in RefNode /\ pos \in Nat \ {0}
<1>1. UN \in Seq(UnitNode) /\ node \in RefNode
  BY DocumentsAssumption DEF Inv, UN, node
<1>2. pos \in Nat \ {0}
  BY DEF Inv, TypeOK
<1> QED BY <1>1, <1>2, LenProperties, ElementOfSeq

\* A code keeps 16 bits.
LEMMA Codes ==
  ASSUME NEW n \in Nat
  PROVE  uint16(n) \in Nat /\ uint16(n) <= 65535
BY SMT DEF uint16

\* What a primed state says of the same elements.
LEMMA SameDocument ==
  ASSUME document' = document
  PROVE  /\ UN' = UN /\ node' = node /\ CompleteRef' = CompleteRef
         /\ \A i : CodeAt(i)' = CodeAt(i) /\ (FirstOfCode(i)' <=> FirstOfCode(i))
BY DEF UN, node, CodeAt, FirstOfCode, CompleteRef, IsRecordRef, Variable

LEMMA InitInv ==
  Init => Inv
<1> SUFFICES ASSUME Init PROVE Inv
  OBVIOUS
<1>1. /\ document \in Documents /\ stage = "units" /\ pos = 1 /\ raised = None /\ answer = None
      /\ DOMAIN units = {}
  BY DEF Init
<1>2. Len(UN) \in Nat
  <2>1. UN \in Seq(UnitNode)
    BY <1>1, DocumentsAssumption DEF UN
  <2> QED BY <2>1, LenProperties
<1>3. TypeOK
  BY SMT, <1>1 DEF TypeOK
<1>4. UnitsInv
  BY <1>1, <1>2 DEF UnitsInv
<1>5. RefInv /\ AnswerInv
  BY <1>1 DEF RefInv, AnswerInv
<1> QED BY <1>1, <1>3, <1>4, <1>5 DEF Inv

LEMMA DecodeUnitStep ==
  ASSUME Inv, DecodeUnit
  PROVE  Inv'
<1> DEFINE new == [code \in {CodeAt(pos)} |-> [code |-> code, abbr |-> UN[pos].abbr]]
<1>1. /\ stage = "units" /\ stage' = "units" /\ pos \in DOMAIN UN /\ pos' = pos + 1
      /\ UnitComplete(UN[pos]) /\ units' = firstStays(units, new)
      /\ document' = document /\ ref' = ref /\ raised' = raised /\ answer' = answer
  BY DEF DecodeUnit, UN, Unit, CodeAt
<1>2. /\ pos \in 1..Len(UN) /\ Len(UN) \in Nat /\ UN[pos] \in UnitNode
  BY <1>1, Nodes
<1>3. CodeAt(pos) \in Nat /\ CodeAt(pos) <= 65535
  <2>1. UN[pos].code \in Nat
    BY <1>1, <1>2 DEF UnitComplete, UnitNode
  <2> QED BY <2>1, Codes DEF CodeAt
<1>4. /\ DOMAIN units' = DOMAIN units \cup {CodeAt(pos)}
      /\ \A code \in DOMAIN units : units'[code] = units[code]
      /\ CodeAt(pos) \notin DOMAIN units =>
           units'[CodeAt(pos)] = [code |-> CodeAt(pos), abbr |-> UN[pos].abbr]
  BY <1>1 DEF firstStays
<1> HIDE DEF new
<1>5. /\ \A i \in 1..pos - 1 : UnitComplete(UN[i])
      /\ DOMAIN units = {CodeAt(i) : i \in 1..pos - 1}
      /\ \A i \in 1..pos - 1 : FirstOfCode(i) => units[CodeAt(i)].abbr = UN[i].abbr
  BY <1>1 DEF Inv, UnitsInv
<1>6. 1..pos = (1..pos - 1) \cup {pos} /\ pos' - 1 = pos /\ pos' <= Len(UN) + 1
  BY <1>1, <1>2
<1>7. UnitsInv'
  <2>1. \A i \in 1..pos : UnitComplete(UN[i])
    BY <1>1, <1>5, <1>6
  <2>2. DOMAIN units' = {CodeAt(i) : i \in 1..pos}
    BY <1>4, <1>5, <1>6
  <2>3. ASSUME NEW i \in 1..pos, FirstOfCode(i)
        PROVE  units'[CodeAt(i)].abbr = UN[i].abbr
    <3>1. CASE i \in 1..pos - 1
      BY <1>4, <1>5, <2>3, <3>1
    <3>2. CASE i = pos
      <4>1. CodeAt(pos) \notin DOMAIN units
        BY <1>5, <2>3, <3>2 DEF FirstOfCode
      <4> QED BY <1>4, <3>2, <4>1
    <3> QED BY <1>6, <2>3, <3>1, <3>2
  <2> QED BY <1>1, <1>6, <2>1, <2>2, <2>3, SameDocument DEF UnitsInv
<1>8. answer = None
  BY <1>1 DEF Inv, TypeOK
<1>9. TypeOK'
  <2>1. \A code \in DOMAIN units : code \in Nat /\ code <= 65535 /\ units[code].code = code
    BY DEF Inv, TypeOK
  <2>2. \A code \in DOMAIN units' : code \in Nat /\ code <= 65535 /\ units'[code].code = code
    BY SMT, <1>3, <1>4, <2>1
  <2>3. raised' = None /\ pos' \in Nat \ {0}
    BY <1>1, <1>2 DEF Inv, TypeOK
  <2> QED BY SMT, <1>1, <1>8, <2>2, <2>3 DEF TypeOK
<1>10. RefInv' /\ AnswerInv'
  BY <1>1, <1>8 DEF RefInv, AnswerInv
<1> QED BY <1>1, <1>7, <1>9, <1>10 DEF Inv

\* After the last unit, decodeVariableRef and decodeRecordRef raise for every element
\* that lacks something, and for no other.
LEMMA RefRaises ==
  ASSUME Inv, stage = "units", pos \notin DOMAIN UN
  PROVE  /\ pos = Len(UN) + 1
         /\ Raises = None <=> CompleteRef
         /\ Raises \in {"out_of_range", "other", None}
<1>1. pos = Len(UN) + 1
  <2>1. pos <= Len(UN) + 1 /\ pos \notin 1..Len(UN) /\ pos \in Nat \ {0} /\ Len(UN) \in Nat
    BY Nodes DEF Inv, UnitsInv
  <2> QED BY <2>1
<1>2. \A i \in DOMAIN document.units : UnitComplete(document.units[i])
  <2>1. DOMAIN UN = 1..pos - 1
    BY <1>1, Nodes
  <2> QED BY <2>1 DEF Inv, UnitsInv, UN
<1>3. Raises = CASE node.variableId = None -> "other"
           [] node.variableId \notin DOMAIN variables \cup {None} -> "out_of_range"
           [] OTHER ->
                IF \/ IsRecordRef /\ node.subindex = None
                   \/ node.button # None /\ ButtonFails
                THEN "other"
                ELSE IF node.button = None /\ node.displayFormat \notin DOMAIN DisplayFormat
                THEN "out_of_range" ELSE None
  BY DEF Raises, UN
<1>4. CASE node.variableId = None
  <2>1. node.variableId \notin DOMAIN variables
    BY <1>4, VariablesAssumption
  <2> QED BY <1>1, <1>3, <1>4, <2>1, NoneAssumption DEF CompleteRef
<1>5. CASE node.variableId # None /\ node.variableId \notin DOMAIN variables
  BY <1>1, <1>3, <1>5, NoneAssumption DEF CompleteRef
<1>6. CASE node.variableId \in DOMAIN variables
  <2>1. Raises = IF \/ IsRecordRef /\ node.subindex = None
                    \/ node.button # None /\ ButtonFails
                 THEN "other"
                 ELSE IF node.button = None /\ node.displayFormat \notin DOMAIN DisplayFormat
                 THEN "out_of_range" ELSE None
    BY <1>3, <1>6, VariablesAssumption
  <2>2. ButtonFails <=>
          ~ /\ ~IsUnbound(Variable) /\ datatypeOf(Variable) \in {"Boolean", "UInteger", "Integer"}
            /\ node.button.description # "broken" /\ node.button.message # "broken"
    <3> DEFINE type == datatypeOf(Variable)
    <3>1. decodeButtonValue(type) # None <=> type \in {"Boolean", "UInteger", "Integer"}
      <4> HIDE DEF type
      <4> QED BY NoneAssumption DEF decodeButtonValue
    <3>2. decodeButtonValue(type) # None => buttonValueToDatatype[decodeButtonValue(type)] = type
      <4> HIDE DEF type
      <4> QED BY <3>1 DEF decodeButtonValue, buttonValueToDatatype
    <3> HIDE DEF type
    <3> QED BY <3>1, <3>2 DEF ButtonFails, type
  <2>3. DOMAIN DisplayFormat = Formats \cup {None}
    BY DEF DisplayFormat
  <2> QED BY <1>1, <1>2, <1>6, <2>1, <2>2, <2>3, NoneAssumption DEF CompleteRef
<1> QED BY <1>4, <1>5, <1>6

LEMMA DecodeRefStep ==
  ASSUME Inv, DecodeRef
  PROVE  Inv'
<1>1. /\ stage = "units" /\ stage' = "ready" /\ pos \notin DOMAIN UN /\ Raises = None
      /\ document' = document /\ pos' = pos /\ units' = units /\ raised' = raised /\ answer' = answer
  BY DEF DecodeRef, UN
<1>2. PICK access \in Indeterminate : ref' = Reference(access)
  BY DEF DecodeRef
<1>3. CompleteRef /\ pos = Len(UN) + 1
  BY <1>1, RefRaises
<1>4. answer = None
  BY <1>1 DEF Inv, TypeOK
<1>5. /\ ref'.subindex \in Byte \cup {None} /\ ref'.button \in {None, "bool", "uint64", "int64"}
      /\ ref'.format \in DOMAIN DisplayFormat /\ ref'.access \in Indeterminate
      /\ ref'.gradient \in Int /\ ref'.offset \in Int
  <2>1. node \in RefNode
    BY Nodes
  <2>2. (IF IsRecordRef THEN uint8(node.subindex) ELSE None) \in Byte \cup {None}
    <3>1. CASE IsRecordRef
      <4>1. node.subindex \in Nat
        BY <1>3, <2>1, <3>1 DEF CompleteRef, RefNode
      <4> QED BY <3>1, <4>1 DEF uint8, Byte
    <3>2. CASE ~IsRecordRef
      BY <3>2
    <3> QED BY <3>1, <3>2
  <2>3. DOMAIN DisplayFormat = Formats \cup {None}
    BY DEF DisplayFormat
  <2>4. CASE node.button # None
    <3>1. ref' = [subindex |-> IF IsRecordRef THEN uint8(node.subindex) ELSE None,
                  button |-> decodeButtonValue(datatypeOf(Variable)), format |-> None,
                  gradient |-> 1, offset |-> 0, unit |-> None, access |-> access]
      BY <1>2, <2>4 DEF Reference
    <3>2. decodeButtonValue(datatypeOf(Variable)) \in {None, "bool", "uint64", "int64"}
      BY DEF decodeButtonValue
    <3> QED BY <2>2, <2>3, <3>1, <3>2
  <2>5. CASE node.button = None
    <3> DEFINE right == IF node.access \in AccessRights THEN node.access ELSE access
    <3>1. ref' = [subindex |-> IF IsRecordRef THEN uint8(node.subindex) ELSE None,
                  button |-> None, format |-> node.displayFormat,
                  gradient |-> Or(decodeFloatAttribute(node.gradient), 1),
                  offset |-> Or(decodeFloatAttribute(node.offset), 0),
                  unit |-> decodeUnitPtr, access |-> right]
      BY <1>2, <2>5 DEF Reference
    <3>2. Or(decodeFloatAttribute(node.gradient), 1) \in Int /\ Or(decodeFloatAttribute(node.offset), 0) \in Int
      BY <2>1, KeptAttributes, FloatIsWhole
    <3>3. node.displayFormat \in Formats \cup {None}
      BY <1>3, <2>5 DEF CompleteRef
    <3>4. right \in Indeterminate
      BY DEF Indeterminate
    <3> HIDE DEF right
    <3> QED BY <2>2, <2>3, <3>1, <3>2, <3>3, <3>4
  <2> QED BY <2>4, <2>5
<1>6. TypeOK'
  BY SMT, <1>1, <1>5, <1>4 DEF Inv, TypeOK
<1>7. UnitsInv'
  BY <1>1, SameDocument DEF Inv, UnitsInv
<1>8. RefInv'
  <2>1. ref' = Reference(access)'
    BY <1>1, <1>2 DEF Reference, IsRecordRef, node, Variable, decodeUnitPtr, findUnit
  <2> QED BY <1>1, <1>2, <1>3, <2>1, SameDocument DEF RefInv
<1>9. AnswerInv'
  BY <1>1, <1>4 DEF AnswerInv
<1> QED BY <1>1, <1>6, <1>7, <1>8, <1>9 DEF Inv

LEMMA ThrowStep ==
  ASSUME Inv, Throw
  PROVE  Inv'
<1>1. /\ Raises # None /\ raised' = Raises /\ stage' = "refused"
      /\ document' = document /\ pos' = pos /\ units' = units /\ ref' = ref /\ answer' = answer
  BY DEF Throw
<1>2. stage = "units"
  BY <1>1 DEF Raises
<1>3. ~CompleteRef /\ Raises \in {"out_of_range", "other"}
  <2>1. CASE pos \in DOMAIN UN
    BY <1>1, <1>2, <2>1 DEF Raises, CompleteRef, Unit, UN
  <2>2. CASE pos \notin DOMAIN UN
    BY <1>1, <1>2, <2>2, RefRaises
  <2> QED BY <2>1, <2>2
<1>4. answer = None
  BY <1>2 DEF Inv, TypeOK
<1>5. TypeOK'
  BY SMT, <1>1, <1>3, <1>4 DEF Inv, TypeOK
<1>6. UnitsInv' /\ RefInv' /\ AnswerInv'
  BY <1>1, <1>3, <1>4, SameDocument DEF UnitsInv, RefInv, AnswerInv
<1> QED BY <1>1, <1>5, <1>6 DEF Inv

\* A call of a client leaves the reference as it is, and answers what it says.
LEMMA AnswerStep ==
  ASSUME Inv, stage = "ready", UNCHANGED <<document, stage, pos, units, ref, raised>>,
         answer'.call = "decode" =>
           answer'.input \in Inputs /\ answer'.result = RefDecode(answer'.input),
         answer'.call = "print" => answer'.result = Representation
  PROVE  Inv'
<1>1. /\ document' = document /\ stage' = "ready" /\ pos' = pos /\ units' = units
      /\ ref' = ref /\ raised' = raised
  OBVIOUS
<1>2. TypeOK'
  BY SMT, <1>1 DEF Inv, TypeOK
<1>3. UnitsInv'
  BY <1>1, SameDocument DEF Inv, UnitsInv
<1>4. RefInv'
  <2>1. \A access : Reference(access)' = Reference(access)
    BY <1>1 DEF Reference, IsRecordRef, node, Variable, decodeUnitPtr, findUnit
  <2> QED BY <1>1, <2>1, SameDocument DEF Inv, RefInv
<1>5. AnswerInv'
  <2>1. \A input : RefDecode(input)' = RefDecode(input)
    <3>1. Variable' = Variable
      BY <1>1 DEF Variable, node
    <3> QED BY <1>1, <3>1 DEF RefDecode, IsUnbound, IsScaled, RawValue, computeNumeric
  <2>2. Representation' = Representation
    BY <1>1 DEF Representation, IsUnbound, Variable, node
  <2> QED BY <2>1, <2>2 DEF AnswerInv
<1> QED BY <1>1, <1>2, <1>3, <1>4, <1>5 DEF Inv

LEMMA NextInv ==
  ASSUME Inv, [Next]_vars
  PROVE  Inv'
<1>1. CASE DecodeUnit BY <1>1, DecodeUnitStep
<1>2. CASE DecodeRef BY <1>2, DecodeRefStep
<1>3. CASE Throw BY <1>3, ThrowStep
<1>4. CASE Decode
  <2>1. PICK input \in Inputs :
          answer' = [call |-> "decode", result |-> RefDecode(input), input |-> input]
    BY <1>4 DEF Decode
  <2>2. stage = "ready" /\ UNCHANGED <<document, stage, pos, units, ref, raised>>
    BY <1>4 DEF Decode
  <2>3. /\ answer'.input \in Inputs /\ answer'.result = RefDecode(answer'.input)
        /\ answer'.call # "print"
    BY <2>1
  <2> QED BY <2>2, <2>3, AnswerStep
<1>5. CASE AccessRestriction
  <2>1. /\ stage = "ready" /\ UNCHANGED <<document, stage, pos, units, ref, raised>>
        /\ answer'.call = "accessRestriction"
    BY <1>5 DEF AccessRestriction, Call
  <2> QED BY <2>1, AnswerStep
<1>6. CASE ButtonValue
  <2>1. /\ stage = "ready" /\ UNCHANGED <<document, stage, pos, units, ref, raised>>
        /\ answer'.call = "buttonValue"
    BY <1>6 DEF ButtonValue, Call
  <2> QED BY <2>1, AnswerStep
<1>7. CASE PrintRef
  <2>1. /\ stage = "ready" /\ UNCHANGED <<document, stage, pos, units, ref, raised>>
        /\ answer'.call = "print" /\ answer'.result = Representation
    BY <1>7 DEF PrintRef, Call
  <2> QED BY <2>1, AnswerStep
<1>8. CASE UNCHANGED vars
  <2>1. /\ document' = document /\ stage' = stage /\ pos' = pos /\ units' = units
        /\ ref' = ref /\ raised' = raised /\ answer' = answer
    BY <1>8 DEF vars
  <2>2. CASE answer # None
    <3>1. stage = "ready"
      BY <2>2 DEF Inv, TypeOK
    <3> QED BY <2>1, <2>2, <3>1, AnswerStep DEF Inv, AnswerInv
  <2>3. CASE answer = None
    <3>1. TypeOK'
      BY SMT, <2>1 DEF Inv, TypeOK
    <3>2. UnitsInv'
      BY <2>1, SameDocument DEF Inv, UnitsInv
    <3>3. RefInv'
      <4>1. \A access : Reference(access)' = Reference(access)
        BY <2>1 DEF Reference, IsRecordRef, node, Variable, decodeUnitPtr, findUnit
      <4> QED BY <2>1, <4>1, SameDocument DEF Inv, RefInv
    <3> QED BY <2>1, <2>3, <3>1, <3>2, <3>3 DEF Inv, AnswerInv
  <2> QED BY <2>2, <2>3
<1> QED BY <1>1, <1>2, <1>3, <1>4, <1>5, <1>6, <1>7, <1>8 DEF Next, Refused

LEMMA Invariant ==
  Spec => []Inv
<1>1. Inv /\ [Next]_vars => Inv'
  BY NextInv
<1> QED BY InitInv, <1>1, PTL DEF Spec
---------------------------------------------------------------------------
(* The theorems. *)

\* The units, the reference and the exception of decodeUnits, decodeVariableRef and
\* decodeRecordRef have their types, and only a reference that exists is asked.
THEOREM TypeCorrect ==
  Spec => []TypeOK
<1>1. Inv => TypeOK
  BY DEF Inv
<1> QED BY Invariant, <1>1, PTL

\* A menu's reference is refused exactly if it or a unit lacks something: the check of
\* the button's alternative in VariableRef's constructor never refuses one by itself.
THEOREM CompleteAccepted ==
  Spec => []AcceptsCompleteRefs
<1>1. ASSUME Inv PROVE AcceptsCompleteRefs
  BY <1>1 DEF Inv, TypeOK, RefInv, AcceptsCompleteRefs
<1> QED BY Invariant, <1>1, PTL

\* decodeUnits and findUnit, with the 16 bits they keep of a code, give a reference the
\* first unit with the code of its element.
THEOREM UnitsFit ==
  Spec => []RefHasItsUnit
<1>1. ASSUME Inv, stage = "ready", node.button = None, node.unitCode # None
      PROVE  IF SameCode = {} THEN ref.unit = None
             ELSE ref.unit.abbr = document.units[CHOOSE i \in SameCode : \A j \in SameCode : i <= j].abbr
  <2> DEFINE code == uint16(node.unitCode)
  <2>1. /\ DOMAIN UN = 1..pos - 1 /\ pos \in Nat /\ node.unitCode \in Nat
        /\ \A i \in DOMAIN UN : UN[i].code \in Nat
    <3>1. DOMAIN UN = 1..Len(UN) /\ pos = Len(UN) + 1 /\ Len(UN) \in Nat
      BY <1>1, Nodes DEF Inv, RefInv
    <3>2. DOMAIN UN = 1..pos - 1 /\ pos \in Nat
      BY <3>1
    <3>3. node.unitCode \in Nat
      BY <1>1, Nodes DEF RefNode
    <3>4. ASSUME NEW i \in DOMAIN UN PROVE UN[i].code \in Nat
      <4>1. UN[i] \in UnitNode /\ UnitComplete(UN[i])
        BY <1>1, <3>2, Nodes DEF Inv, UnitsInv
      <4> QED BY <4>1 DEF UnitComplete, UnitNode
    <3> QED BY <3>2, <3>3, <3>4
  <2>2. \A i \in DOMAIN UN : i \in SameCode <=> CodeAt(i) = code
    <3>1. ASSUME NEW a \in Nat, NEW b \in Nat
          PROVE  (a - b) % 65536 = 0 <=> a % 65536 = b % 65536
      BY SMT
    <3>2. \A i \in DOMAIN UN : i \in SameCode <=> (UN[i].code - node.unitCode) % 65536 = 0
      BY DEF SameCode, UN
    <3>3. \A i : CodeAt(i) = UN[i].code % 65536
      BY DEF CodeAt, uint16
    <3>4. code = node.unitCode % 65536
      BY DEF uint16
    <3> HIDE DEF code
    <3>5. ASSUME NEW i \in DOMAIN UN
          PROVE  (UN[i].code - node.unitCode) % 65536 = 0 <=> CodeAt(i) = code
      <4>1. UN[i].code \in Nat /\ node.unitCode \in Nat
        BY <2>1
      <4> QED BY <3>1, <3>3, <3>4, <4>1
    <3> QED BY <3>2, <3>5
  <2>3. ref.unit = IF code \in DOMAIN units THEN units[code] ELSE None
    <3>1. PICK access \in Indeterminate : ref = Reference(access)
      BY <1>1 DEF Inv, RefInv
    <3>2. ref.unit = decodeUnitPtr
      BY <1>1, <3>1 DEF Reference
    <3> QED BY <1>1, <3>2 DEF decodeUnitPtr, findUnit
  <2>4. /\ DOMAIN units = {CodeAt(i) : i \in DOMAIN UN}
        /\ \A i \in DOMAIN UN : FirstOfCode(i) => units[CodeAt(i)].abbr = UN[i].abbr
    BY <1>1, <2>1 DEF Inv, UnitsInv
  <2>5. SameCode \subseteq DOMAIN UN
    BY DEF SameCode, UN
  <2> HIDE DEF code
  <2>6. CASE SameCode = {}
    BY <2>2, <2>3, <2>4, <2>6
  <2>7. CASE SameCode # {}
    <3>1. SameCode \in SUBSET Nat
      BY <2>1, <2>5
    <3>2. PICK i \in SameCode : \A j \in SameCode : i <= j
      BY <2>7, <3>1, LeastElement
    <3>3. \A k \in SameCode : (\A j \in SameCode : k <= j) => k = i
      BY <3>1, <3>2
    <3>4. (CHOOSE k \in SameCode : \A j \in SameCode : k <= j) = i
      BY <3>2, <3>3
    <3>5. CodeAt(i) = code /\ i \in DOMAIN UN
      BY <2>2, <2>5, <3>2
    <3>6. FirstOfCode(i)
      <4>1. ASSUME NEW j \in 1..i - 1, CodeAt(j) = CodeAt(i)
            PROVE  FALSE
        <5>1. j \in DOMAIN UN /\ j < i
          BY <2>1, <3>5
        <5> QED BY <2>2, <3>1, <3>2, <3>5, <4>1, <5>1
      <4> QED BY <4>1 DEF FirstOfCode
    <3>7. ref.unit.abbr = document.units[i].abbr
      BY <2>3, <2>4, <3>5, <3>6 DEF UN
    <3> QED BY <2>7, <3>4, <3>7
  <2> QED BY <2>6, <2>7
<1>2. Inv => RefHasItsUnit
  BY <1>1 DEF RefHasItsUnit
<1> QED BY Invariant, <1>2, PTL

\* What decode and the example program test of a reference that exists.
LEMMA Asked ==
  ASSUME Inv, stage = "ready"
  PROVE  /\ isDecimal(ref.format) <=>
              node.button = None /\ node.displayFormat \notin {None, "Bin", "Hex"}
         /\ node.button = None =>
              /\ Gradient \in Int /\ ref.gradient = toFloat(Gradient)
              /\ Offset \in Int /\ ref.offset = toFloat(Offset)
         /\ ~IsUnbound(Variable) =>
              /\ IsScaled <=> datatypeOf(Variable) \in {"UInteger", "Integer", "Float32", "Array", "Record"}
              /\ hasFormula(datatypeOf(Variable)) <=> IsScaled
<1>1. CompleteRef
  BY DEF Inv, RefInv
<1>2. PICK access \in Indeterminate : ref = Reference(access)
  BY DEF Inv, RefInv
<1>3. ref.format \in DOMAIN DisplayFormat
  BY DEF Inv, TypeOK
<1>4. ASSUME node.button # None
      PROVE  ~isDecimal(ref.format)
  <2>1. ref.format = None
    BY <1>2, <1>4 DEF Reference
  <2> QED BY <1>3, <2>1, Decimals
<1>5. ASSUME node.button = None
      PROVE  /\ isDecimal(ref.format) <=> node.displayFormat \notin {None, "Bin", "Hex"}
             /\ Gradient \in Int /\ ref.gradient = toFloat(Gradient)
             /\ Offset \in Int /\ ref.offset = toFloat(Offset)
  <2>1. /\ ref.format = node.displayFormat
        /\ ref.gradient = Or(decodeFloatAttribute(node.gradient), 1)
        /\ ref.offset = Or(decodeFloatAttribute(node.offset), 0)
    BY <1>2, <1>5 DEF Reference
  <2>2. node \in RefNode
    BY Nodes
  <2> QED BY <1>3, <2>1, <2>2, Decimals, KeptAttributes
<1>6. ASSUME ~IsUnbound(Variable)
      PROVE  /\ IsScaled <=> datatypeOf(Variable) \in {"UInteger", "Integer", "Float32", "Array", "Record"}
             /\ hasFormula(datatypeOf(Variable)) <=> IsScaled
  <2>1. datatypeOf(Variable) \in SimpleDatatypes \cup ComplexDatatypes
    BY <1>1, <1>6, VariablesAssumption DEF CompleteRef, IsUnbound, Variable, datatypeOf, SimpleType,
                                           SimpleDatatypes, ComplexDatatypes
  <2>2. IsScaled <=> hasFormula(datatypeOf(Variable))
    BY <2>1, Scaled DEF IsScaled, hasFormula
  <2> QED BY <2>1, <2>2, Scaled
<1> QED BY <1>4, <1>5, <1>6

\* decode gives a scaled number exactly where the element asks for a decimal one of a
\* variable that is a number or made of items, and no float of a text or a Boolean.
THEOREM ScalingIsAsked ==
  Spec => []ScalesDecimalsOnly
<1>1. ASSUME Inv, stage = "ready", answer # None, answer.call = "decode", ~IsUnbound(Variable)
      PROVE  LET declared == /\ node.button = None /\ node.displayFormat \notin {None, "Bin", "Hex"}
                             /\ datatypeOf(Variable) \in {"UInteger", "Integer", "Float32", "Array", "Record"}
                 raw == RawValue(answer.input)
             IN answer.result =
                  IF ~declared \/ raw.kind \in {"throws", "undefined"} THEN raw
                  ELSE IF raw.kind \in {"bool", "string"} THEN Throws("logic_error")
                  ELSE Value("scaled", answer.result.v)
  <2> DEFINE declared == /\ node.button = None /\ node.displayFormat \notin {None, "Bin", "Hex"}
                         /\ datatypeOf(Variable) \in {"UInteger", "Integer", "Float32", "Array", "Record"}
             raw == RawValue(answer.input)
  <2>1. answer.result = IF isDecimal(ref.format) /\ IsScaled THEN computeNumeric(raw) ELSE raw
    BY <1>1 DEF Inv, AnswerInv, RefDecode
  <2>2. declared <=> isDecimal(ref.format) /\ IsScaled
    BY <1>1, Asked
  <2>3. raw.kind \in ValueKind
    BY KindOfValue DEF RawValue
  <2> HIDE DEF declared, raw
  <2>4. /\ raw.kind \in {"throws", "undefined"} => computeNumeric(raw) = raw
        /\ raw.kind \in {"bool", "string"} => computeNumeric(raw) = Throws("logic_error")
        /\ raw.kind \in {"uint64", "int64", "float"} =>
             computeNumeric(raw) = Value("scaled", computeNumeric(raw).v)
    BY DEF computeNumeric, Value
  <2>5. answer.result =
          IF ~declared \/ raw.kind \in {"throws", "undefined"} THEN raw
          ELSE IF raw.kind \in {"bool", "string"} THEN Throws("logic_error")
          ELSE Value("scaled", answer.result.v)
    BY <2>1, <2>2, <2>3, <2>4 DEF ValueKind
  <2> QED BY <2>5 DEF declared, raw
<1>2. Inv => ScalesDecimalsOnly
  BY <1>1 DEF ScalesDecimalsOnly
<1> QED BY Invariant, <1>2, PTL

\* printRefRepresentation's conditions and VariableRef::decode's agree: a formula is
\* printed exactly where it is computed.
THEOREM FormulaIsComputed ==
  Spec => []PrintsTheFormula
<1>1. ASSUME Inv, stage = "ready", answer # None, answer.call = "print", ref.button = None,
             NEW input \in Inputs,
             LET raw == IF IsUnbound(Variable) THEN Undefined ELSE RawValue(input)
             IN raw.kind \in {"uint64", "int64", "float"}
      PROVE  answer.result = "formula" <=> RefDecode(input).kind = "scaled"
  <2> DEFINE raw == RawValue(input)
  <2>1. ~IsUnbound(Variable) /\ raw.kind \in {"uint64", "int64", "float"}
    BY <1>1 DEF Undefined, Value
  <2>2. RefDecode(input) = IF isDecimal(ref.format) /\ IsScaled THEN computeNumeric(raw) ELSE raw
    BY <2>1 DEF RefDecode
  <2> HIDE DEF raw
  <2>3. computeNumeric(raw).kind = "scaled"
    BY <2>1 DEF computeNumeric, Value
  <2>4. RefDecode(input).kind = "scaled" <=> isDecimal(ref.format) /\ IsScaled
    BY <2>1, <2>2, <2>3
  <2>5. answer.result = Representation
    BY <1>1 DEF Inv, AnswerInv
  <2>6. Representation = "formula" <=> isDecimal(ref.format) /\ hasFormula(datatypeOf(Variable))
    BY <1>1, <2>1 DEF Representation
  <2> QED BY <1>1, <2>1, <2>4, <2>5, <2>6, Asked
<1>2. Inv => PrintsTheFormula
  BY <1>1 DEF PrintsTheFormula
<1> QED BY Invariant, <1>2, PTL

\* A number that decode has scaled is what the formula makes of the number it has read.
LEMMA ScaledAnswer ==
  ASSUME Inv, AskedNumber
  PROVE  /\ ~IsUnbound(Variable) /\ isDecimal(ref.format) /\ IsScaled
         /\ ref.gradient = toFloat(Gradient) /\ ref.offset = toFloat(Offset)
         /\ Gradient \in Int /\ Offset \in Int
         /\ answer.input \in Inputs
         /\ answer.result = Value("scaled", scaled(Raw, toFloat(Gradient), toFloat(Offset)))
<1> DEFINE raw == RawValue(answer.input)
<1>1. /\ stage = "ready" /\ answer.result.kind = "scaled" /\ raw.kind \in {"uint64", "int64"}
      /\ answer.result = RefDecode(answer.input) /\ answer.input \in Inputs
  BY DEF AskedNumber, Inv, AnswerInv
<1>2. ~IsUnbound(Variable)
  BY <1>1 DEF RefDecode, Throws, Value
<1>3. isDecimal(ref.format) /\ IsScaled
  <2> SUFFICES ASSUME ~ (isDecimal(ref.format) /\ IsScaled) PROVE FALSE
    OBVIOUS
  <2>1. answer.result = raw
    BY <1>1, <1>2 DEF RefDecode
  <2> QED BY <1>1, <2>1
<1>4. answer.result = Value("scaled", scaled(Raw, ref.gradient, ref.offset))
  <2>1. answer.result = computeNumeric(raw)
    BY <1>1, <1>2, <1>3 DEF RefDecode
  <2> HIDE DEF raw
  <2>2. computeNumeric(raw) = Value("scaled", scaled(raw.v, ref.gradient, ref.offset))
    BY <1>1 DEF computeNumeric
  <2> QED BY <2>1, <2>2 DEF Raw, raw
<1>5. /\ ref.gradient = toFloat(Gradient) /\ ref.offset = toFloat(Offset)
      /\ Gradient \in Int /\ Offset \in Int
  BY <1>1, <1>3, Asked
<1> QED BY <1>1, <1>2, <1>3, <1>4, <1>5

\* computeNumeric is exact where 24 bits are enough, for every gradient and offset that
\* decodeFloatAttribute has kept as they are.
THEOREM SmallValuesExact ==
  Spec => []ScalesExactly
<1>1. ASSUME Inv, AskedNumber, Within(Gradient), Within(Offset),
             Within(Raw), Within(Raw * Gradient), Within(Raw * Gradient + Offset)
      PROVE  answer.result.v = Raw * Gradient + Offset
  <2>1. /\ Gradient \in Int /\ Offset \in Int
        /\ answer.result = Value("scaled", scaled(Raw, toFloat(Gradient), toFloat(Offset)))
    BY <1>1, ScaledAnswer
  <2>a. toFloat(Gradient) = Gradient /\ toFloat(Offset) = Offset
    BY <1>1, <2>1, FloatIsExact
  <2>2. Raw \in Int
    BY SMT, <1>1, Precise DEF Within
  <2>3. toFloat(Raw) = Raw
    BY <1>1, <2>2, FloatIsExact
  <2>4. Raw * Gradient \in Int /\ Raw * Gradient + Offset \in Int
    BY <2>1, <2>2
  <2>5. toFloat(Raw * Gradient) = Raw * Gradient
    BY <1>1, <2>4, FloatIsExact
  <2>6. toFloat(Raw * Gradient + Offset) = Raw * Gradient + Offset
    BY <1>1, <2>4, FloatIsExact
  <2> QED BY <2>1, <2>a, <2>3, <2>5, <2>6 DEF scaled, Value
<1>2. Inv => ScalesExactly
  BY <1>1 DEF ScalesExactly
<1> QED BY Invariant, <1>2, PTL

\* The items of a variable's datatype, and the numbers that are read from them.
LEMMA WholeElement ==
  ASSUME NEW b \in Seq(Byte), NEW type, NEW s \in Byte, type.type \in SimpleType,
         decodeArray(b, type, s).kind \in {"uint64", "int64"}
  PROVE  decodeArray(b, type, s).v \in Int
<1> DEFINE index == fromZero(s)
           n == getBitLength(type.type)
<1>1. index \in Nat
  BY DEF fromZero, uint8, Byte
<1>2. \A v : type.type.datatype \notin {"UInteger", "Integer"} =>
         decode(v, type.type).kind \notin {"uint64", "int64"}
  BY DEF decode, Throws, Value
<1>3. type.type.datatype \in {"UInteger", "Integer"}
  BY <1>2 DEF decodeArray, Value, Undefined
<1>4. n \in Nat
  BY <1>3 DEF getBitLength, SimpleType
<1>5. index * n \in Nat
  <2> HIDE DEF index, n
  <2> QED BY <1>1, <1>4
<1>6. /\ Has(toBitVector(b), index * n, n)
      /\ decodeArray(b, type, s) = decode(toByteVector(Cut(toBitVector(b), index * n, n)), type.type)
  BY <1>3 DEF decodeArray, Undefined, Value
<1> HIDE DEF index, n
<1> QED BY <1>4, <1>5, <1>6, WholeField

LEMMA WholeItem ==
  ASSUME NEW b \in Seq(Byte), NEW type, NEW s, decodeItem(b, type, s).kind \in {"uint64", "int64"},
         \A i \in DOMAIN type.items : type.items[i].offset \in Nat /\ type.items[i].type \in SimpleType
  PROVE  decodeItem(b, type, s).v \in Int
<1> DEFINE item == type.items[s]
           n == getBitLength(item.type)
<1>1. s \in DOMAIN type.items
  BY DEF decodeItem, Throws, Value
<1>2. item.offset \in Nat /\ item.type \in SimpleType
  BY <1>1
<1>3. /\ Has(toBitVector(b), item.offset, n)
      /\ decodeItem(b, type, s) = decode(toByteVector(Cut(toBitVector(b), item.offset, n)), item.type)
  BY <1>1 DEF decodeItem, Undefined, Value
<1> HIDE DEF item
<1>4. item.type.datatype \in {"UInteger", "Integer"}
  BY <1>3 DEF decode, Throws, Value
<1>5. n \in Nat
  BY <1>2, <1>4 DEF getBitLength, SimpleType
<1> HIDE DEF n
<1> QED BY <1>2, <1>3, <1>5, WholeField

LEMMA WholeRaw ==
  ASSUME Inv, stage = "ready", ~IsUnbound(Variable), NEW input \in Inputs,
         RawValue(input).kind \in {"uint64", "int64"}
  PROVE  RawValue(input).v \in Int
<1> DEFINE type == Variable.type
           s == ref.subindex
<1>1. /\ \/ type \in SimpleType
         \/ type.datatype = "Array" /\ type.type \in SimpleType
         \/ /\ type.datatype = "Record"
            /\ \A i \in DOMAIN type.items :
                 type.items[i].offset \in Nat /\ type.items[i].type \in SimpleType
      /\ s \in Byte \cup {None} /\ input \in Seq(Byte)
  <2>1. node.variableId \in DOMAIN variables
    BY DEF Inv, RefInv, CompleteRef
  <2> QED BY <2>1, VariablesAssumption, InputsAssumption DEF Inv, TypeOK, IsUnbound, Variable
<1>2. RawValue(input) = decodeValue(input, type, s) BY DEF RawValue
<1>3. reversed(input) \in Seq(Byte) BY <1>1, ReversedLength
<1> HIDE DEF type, s
<1>4. CASE type.datatype = "Array" /\ type.type \in SimpleType
  <2>1. s # None /\ decodeValue(input, type, s) = decodeArray(reversed(input), type, s)
    BY <1>2, <1>4 DEF decodeValue, ComplexDatatypes, Throws, Value
  <2>2. s \in Byte BY <1>1, <2>1
  <2> QED BY <1>2, <1>3, <1>4, <2>1, <2>2, WholeElement
<1>5. CASE /\ type.datatype = "Record"
           /\ \A i \in DOMAIN type.items :
                type.items[i].offset \in Nat /\ type.items[i].type \in SimpleType
  <2>1. decodeValue(input, type, s) = decodeItem(reversed(input), type, s)
    BY <1>2, <1>5 DEF decodeValue, ComplexDatatypes, Throws, Value
  <2> QED BY <1>2, <1>3, <1>5, <2>1, WholeItem
<1>6. CASE type \in SimpleType
  <2>1. decodeValue(input, type, s) = decode(input, type)
    BY <1>6 DEF decodeValue, SimpleType, ComplexDatatypes
  <2>2. input \in Seq(Int) BY <1>1, BytesAreNumbers
  <2> QED BY <1>2, <2>1, <2>2, WholeNumber
<1> QED BY <1>1, <1>4, <1>5, <1>6

\* The formula keeps order, or turns it around.
LEMMA FormulaKeepsOrder ==
  ASSUME NEW x \in Int, NEW y \in Int, NEW gradient \in Int, NEW offset \in Int, x <= y
  PROVE  IF gradient >= 0 THEN scaled(x, gradient, offset) <= scaled(y, gradient, offset)
                          ELSE scaled(x, gradient, offset) >= scaled(y, gradient, offset)
<1> DEFINE fx == toFloat(x)
           fy == toFloat(y)
           after(v) == toFloat(toFloat(v) + offset)
<1>1. fx \in Int /\ fy \in Int /\ fx <= fy BY FloatKeepsOrder
<1>2. ASSUME NEW v \in Int, NEW w \in Int, v <= w PROVE after(v) <= after(w) /\ after(v) \in Int /\ after(w) \in Int
  <2>1. toFloat(v) \in Int /\ toFloat(w) \in Int /\ toFloat(v) <= toFloat(w)
    BY <1>2, FloatKeepsOrder
  <2>2. /\ toFloat(v) + offset \in Int /\ toFloat(w) + offset \in Int
        /\ toFloat(v) + offset <= toFloat(w) + offset
    BY <2>1
  <2> QED BY <2>2, FloatKeepsOrder
<1>3. scaled(x, gradient, offset) = after(fx * gradient) /\ scaled(y, gradient, offset) = after(fy * gradient)
  BY DEF scaled
<1> HIDE DEF fx, fy, after
<1>4. CASE gradient >= 0
  <2>1. gradient \in Nat BY <1>4
  <2>2. fx * gradient <= fy * gradient /\ fx * gradient \in Int /\ fy * gradient \in Int
    BY <1>1, <2>1, TimesKeepsOrder
  <2>3. after(fx * gradient) <= after(fy * gradient) BY <1>2, <2>2
  <2> QED BY <1>3, <1>4, <2>3
<1>5. CASE ~ (gradient >= 0)
  <2> DEFINE g == -gradient
  <2>1. g \in Nat BY <1>5
  <2>2. fx * g <= fy * g /\ fx * g \in Int /\ fy * g \in Int
    <3> HIDE DEF g
    <3> QED BY <1>1, <2>1, TimesKeepsOrder
  <2>3. fx * gradient = -(fx * g) /\ fy * gradient = -(fy * g) BY <1>1
  <2> HIDE DEF g
  <2>4. fy * gradient <= fx * gradient /\ fx * gradient \in Int /\ fy * gradient \in Int
    BY <2>2, <2>3
  <2>5. after(fy * gradient) <= after(fx * gradient) /\ after(fx * gradient) \in Int /\ after(fy * gradient) \in Int
    BY <1>2, <2>4
  <2> QED BY <1>3, <1>5, <2>5
<1> QED BY <1>4, <1>5

\* Whatever is rounded, three times on the way, a client can compare two scaled values.
THEOREM OrderIsKept ==
  Spec => []KeepsOrder
<1>1. ASSUME Inv, AskedNumber, NEW other \in Inputs, RawValue(other).kind \in {"uint64", "int64"},
             Raw <= RawValue(other).v
      PROVE  IF Gradient >= 0 THEN answer.result.v <= RefDecode(other).v
                              ELSE answer.result.v >= RefDecode(other).v
  <2> DEFINE raw == RawValue(other)
             g == toFloat(Gradient)
             o == toFloat(Offset)
  <2>1. /\ ~IsUnbound(Variable) /\ isDecimal(ref.format) /\ IsScaled
        /\ ref.gradient = toFloat(Gradient) /\ ref.offset = toFloat(Offset)
        /\ Gradient \in Int /\ Offset \in Int
        /\ answer.input \in Inputs
        /\ answer.result = Value("scaled", scaled(Raw, g, o))
    BY <1>1, ScaledAnswer
  <2>g. /\ g \in Int /\ o \in Int
        /\ Gradient >= 0 => g >= 0
        /\ ~(Gradient >= 0) => ~(g >= 0) \/ g = 0
    <3>1. 0 \in Int /\ toFloat(0) = 0 BY DefaultsAreFloats
    <3>2. CASE Gradient >= 0
      <4>1. toFloat(0) <= toFloat(Gradient) BY <2>1, <3>1, <3>2, FloatKeepsOrder
      <4> QED BY <2>1, <3>1, <3>2, <4>1, FloatIsWhole
    <3>3. CASE ~(Gradient >= 0)
      <4>1. Gradient <= 0 BY <2>1, <3>3
      <4>2. toFloat(Gradient) <= toFloat(0) BY <2>1, <3>1, <4>1, FloatKeepsOrder
      <4> QED BY <2>1, <3>1, <3>3, <4>2, FloatIsWhole
    <3> QED BY <3>2, <3>3
  <2>2. Raw \in Int /\ raw.v \in Int
    BY <1>1, <2>1, WholeRaw DEF AskedNumber, Raw
  <2>3. RefDecode(other) = computeNumeric(raw)
    BY <2>1 DEF RefDecode
  <2>4. computeNumeric(raw) = Value("scaled", scaled(raw.v, g, o))
    <3> HIDE DEF raw
    <3> QED BY <1>1, <2>1 DEF computeNumeric, raw
  <2>5. IF Gradient >= 0 THEN scaled(Raw, g, o) <= scaled(raw.v, g, o)
                         ELSE scaled(Raw, g, o) >= scaled(raw.v, g, o)
    <3>1. IF g >= 0 THEN scaled(Raw, g, o) <= scaled(raw.v, g, o)
                    ELSE scaled(Raw, g, o) >= scaled(raw.v, g, o)
      <4> HIDE DEF g, o, raw
      <4> QED BY <1>1, <2>2, <2>g, FormulaKeepsOrder DEF raw
    <3>2. CASE g = 0
      <4>1. scaled(Raw, g, o) = toFloat(toFloat(0) + o) /\ scaled(raw.v, g, o) = toFloat(toFloat(0) + o)
        BY <2>2, <3>2, FloatIsWhole DEF scaled
      <4>2. toFloat(toFloat(0) + o) \in Int
        BY <2>g, DefaultsAreFloats, FloatIsWhole
      <4> HIDE DEF g, o
      <4> QED BY <4>1, <4>2
    <3>3. CASE g # 0
      <4> HIDE DEF g, o, raw
      <4> QED BY <2>1, <2>g, <3>1, <3>3
    <3> QED BY <3>2, <3>3
  <2>6. answer.result.v = scaled(Raw, g, o) /\ RefDecode(other).v = scaled(raw.v, g, o)
    BY <2>1, <2>3, <2>4 DEF Value
  <2> QED BY <2>5, <2>6
<1>2. Inv => KeepsOrder
  BY <1>1 DEF KeepsOrder
<1> QED BY Invariant, <1>2, PTL
=============================================================================
