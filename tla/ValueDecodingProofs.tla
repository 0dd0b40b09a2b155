------------------------ MODULE ValueDecodingProofs ------------------------
(***************************************************************************)
(* Facts about the bits, the bytes and the numbers of ValueDecoding, for   *)
(* vectors of every length: what assemble computes, that bits and the      *)
(* bytes they are packed in make the same number, and that different       *)
(* digits make different numbers.                                          *)
(***************************************************************************)
EXTENDS ValueDecoding, SequenceTheorems, WellFoundedInduction, TLAPS

\* Every non-empty set of naturals has a least element: an induction over the naturals is
\* a search for the least counterexample.
LEMMA LeastElement ==
  ASSUME NEW S \in SUBSET Nat, S # {}
  PROVE  \E m \in S : \A n \in S : m <= n
<1> DEFINE R == {ss \in Nat \X Nat : ss[1] < ss[2]}
<1>1. IsWellFoundedOn(R, Nat) BY NatLessThanWellFounded DEF OpToRel
<1>2. PICK m \in S : \A n \in S : ~(<<n, m>> \in R)
  <2> HIDE DEF R
  <2> QED BY <1>1, WFMin
<1>3. \A n \in S : ~(n < m) BY <1>2
<1> QED BY <1>3

---------------------------------------------------------------------------
(* Numbers. *)

Next_(digits, base, k, before) == before * base + digits[Len(digits) - k + 1]
Solves(f, digits, base, sign, n) ==
  f = [k \in 0..n |-> IF k = 0 THEN sign ELSE Next_(digits, base, k, f[k - 1])]
Leading(digits, base, sign) == CHOOSE f : Solves(f, digits, base, sign, Len(digits))

\* The recursive definition has a solution on every 0..n.
LEMMA LeadingExists ==
  ASSUME NEW digits, NEW base, NEW sign, NEW n \in Nat
  PROVE  \E f : Solves(f, digits, base, sign, n)
<1> DEFINE Bad == {k \in Nat : ~ \E f : Solves(f, digits, base, sign, k)}
<1> SUFFICES ASSUME Bad # {} PROVE FALSE
  OBVIOUS
<1>1. PICK m \in Bad : \A k \in Bad : m <= k
  <2> HIDE DEF Bad
  <2> QED BY LeastElement, Bad \in SUBSET Nat DEF Bad
<1>2. CASE m = 0
  <2> DEFINE f == [k \in 0..0 |-> sign]
  <2>1. Solves(f, digits, base, sign, 0) BY DEF Solves
  <2> QED BY <1>1, <1>2, <2>1
<1>3. CASE m # 0
  <2>1. m - 1 \in Nat /\ m - 1 \notin Bad BY <1>1, <1>3
  <2>2. PICK g : Solves(g, digits, base, sign, m - 1) BY <2>1
  <2> DEFINE f == [k \in 0..m |-> IF k = 0 THEN sign ELSE Next_(digits, base, k, g[k - 1])]
  <2>3. ASSUME NEW k \in 0..m - 1 PROVE f[k] = g[k]
    <3>1. k \in 0..m BY <1>1
    <3>2. f[k] = IF k = 0 THEN sign ELSE Next_(digits, base, k, g[k - 1]) BY <3>1
    <3>3. g[k] = IF k = 0 THEN sign ELSE Next_(digits, base, k, g[k - 1]) BY <2>2 DEF Solves
    <3> QED BY <3>2, <3>3
  <2>4. \A k \in 0..m : k # 0 => k - 1 \in 0..m - 1 BY <1>1
  <2>5. f = [k \in 0..m |-> IF k = 0 THEN sign ELSE Next_(digits, base, k, f[k - 1])]
    <3> HIDE DEF f
    <3>1. \A k \in 0..m : k # 0 => f[k - 1] = g[k - 1] BY <2>3, <2>4
    <3> QED BY <3>1 DEF f
  <2> HIDE DEF f
  <2>6. Solves(f, digits, base, sign, m) BY <2>5 DEF Solves
  <2> QED BY <1>1, <2>6
<1> QED BY <1>2, <1>3

\* What the decoders assemble, digit by digit from the highest.
LEMMA LeadingIs ==
  ASSUME NEW digits, NEW base, NEW sign, Len(digits) \in Nat
  PROVE  /\ assemble(digits, base, sign) = Leading(digits, base, sign)[Len(digits)]
         /\ Leading(digits, base, sign)[0] = sign
         /\ \A k \in 1..Len(digits) :
              Leading(digits, base, sign)[k] =
                Leading(digits, base, sign)[k - 1] * base + digits[Len(digits) - k + 1]
<1> DEFINE f == Leading(digits, base, sign)
<1>1. Solves(f, digits, base, sign, Len(digits))
  BY LeadingExists DEF Leading
<1>2. assemble(digits, base, sign) = f[Len(digits)]
  BY DEF assemble, Leading, Solves, Next_
<1> HIDE DEF f
<1>3. \A k \in 0..Len(digits) :
        f[k] = IF k = 0 THEN sign ELSE f[k - 1] * base + digits[Len(digits) - k + 1]
  BY <1>1 DEF Solves, Next_
<1> QED BY <1>2, <1>3 DEF f

\* What f is if it has the numbers that the leading digits make.
Unfolds(f, digits, base, sign) ==
  /\ f[0] = sign
  /\ \A k \in 0..Len(digits) : f[k] \in Int
  /\ \A k \in 1..Len(digits) : f[k] = f[k - 1] * base + digits[Len(digits) - k + 1]

\* Whole digits make whole numbers.
LEMMA LeadingUnfolds ==
  ASSUME NEW digits \in Seq(Int), NEW base \in Int, NEW sign \in Int
  PROVE  /\ Unfolds(Leading(digits, base, sign), digits, base, sign)
         /\ assemble(digits, base, sign) = Leading(digits, base, sign)[Len(digits)]
         /\ assemble(digits, base, sign) \in Int
<1> DEFINE f == Leading(digits, base, sign)
           Bad == {k \in 0..Len(digits) : f[k] \notin Int}
<1>1. /\ assemble(digits, base, sign) = f[Len(digits)] /\ f[0] = sign /\ Len(digits) \in Nat
      /\ \A k \in 1..Len(digits) : f[k] = f[k - 1] * base + digits[Len(digits) - k + 1]
  BY LeadingIs
<1> HIDE DEF f
<1>2. Bad = {}
  <2> SUFFICES ASSUME Bad # {} PROVE FALSE
    OBVIOUS
  <2>1. PICK m \in Bad : \A k \in Bad : m <= k
    <3>1. Bad \in SUBSET Nat OBVIOUS
    <3> HIDE DEF Bad
    <3> QED BY <3>1, LeastElement
  <2>2. m \in 1..Len(digits) /\ m - 1 \in 0..Len(digits) /\ m - 1 \notin Bad
    BY <1>1, <2>1
  <2>3. Len(digits) - m + 1 \in 1..Len(digits) BY <1>1, <2>2
  <2>4. digits[Len(digits) - m + 1] \in Int BY <2>3
  <2>5. f[m - 1] \in Int BY <2>2
  <2>6. f[m] \in Int BY <1>1, <2>2, <2>4, <2>5
  <2> QED BY <2>1, <2>6
<1>3. \A k \in 0..Len(digits) : f[k] \in Int BY <1>2
<1>4. f[Len(digits)] \in Int BY <1>1, <1>3
<1>5. Unfolds(f, digits, base, sign) BY <1>1, <1>3 DEF Unfolds
<1> QED BY <1>1, <1>4, <1>5 DEF f

\* A part of a vector, after the leading digits before it.
PartOf(part, digits, before) ==
  /\ part \in Seq(Int) /\ before \in Nat /\ before + Len(part) <= Len(digits)
  /\ \A i \in 1..Len(part) : part[i] = digits[Len(digits) - before - Len(part) + i]

\* The digits in a part of a vector go on from the number the higher ones have made.
LEMMA LeadingPart ==
  ASSUME NEW digits \in Seq(Int), NEW part, NEW base \in Int, NEW sign \in Int,
         NEW before, PartOf(part, digits, before)
  PROVE  /\ Leading(digits, base, sign)[before] \in Int
         /\ Leading(digits, base, sign)[before + Len(part)] =
              Leading(part, base, Leading(digits, base, sign)[before])[Len(part)]
<1> DEFINE f == Leading(digits, base, sign)
           g == Leading(part, base, f[before])
           n == Len(digits)
           r == Len(part)
           Bad == {j \in 0..r : f[before + j] # g[j]}
<1>1. /\ n \in Nat /\ r \in Nat /\ part \in Seq(Int) /\ before \in Nat /\ before + r <= n
      /\ \A i \in 1..r : part[i] = digits[n - before - r + i]
  BY DEF PartOf
<1>2. Unfolds(f, digits, base, sign)
  BY LeadingUnfolds
<1> HIDE DEF f
<1>3. f[before] \in Int /\ Unfolds(g, part, base, f[before])
  <2>1. f[before] \in Int BY <1>1, <1>2 DEF Unfolds
  <2> QED BY <1>1, <2>1, LeadingUnfolds
<1> HIDE DEF g
<1>4. Bad = {}
  <2> SUFFICES ASSUME Bad # {} PROVE FALSE
    OBVIOUS
  <2>1. PICK m \in Bad : \A k \in Bad : m <= k
    <3>1. Bad \in SUBSET Nat OBVIOUS
    <3> HIDE DEF Bad
    <3> QED BY <3>1, LeastElement
  <2>2. m # 0 BY <1>1, <1>3, <2>1 DEF Unfolds
  <2> HIDE DEF n, r
  <2>3. m \in 1..r /\ m - 1 \in 0..r /\ m - 1 \notin Bad
    BY <1>1, <2>1, <2>2
  <2>4. f[before + (m - 1)] = g[m - 1] BY <2>3
  <2>5. before + m \in 1..n /\ (before + m) - 1 = before + (m - 1)
    BY <1>1, <2>3 DEF n, r
  <2>6. f[before + m] = f[before + (m - 1)] * base + digits[n - (before + m) + 1]
    BY <1>2, <2>5 DEF Unfolds, n
  <2>7. r - m + 1 \in 1..r /\ n - before - r + (r - m + 1) = n - (before + m) + 1
    BY <1>1, <2>3
  <2>8. part[r - m + 1] = digits[n - (before + m) + 1]
    BY <1>1, <2>7
  <2>9. g[m] = g[m - 1] * base + part[r - m + 1] BY <1>3, <2>3 DEF Unfolds, r
  <2> QED BY <2>1, <2>4, <2>6, <2>8, <2>9
<1>5. r \in 0..r BY <1>1
<1>6. f[before + r] = g[r] BY <1>4, <1>5
<1> QED BY <1>3, <1>6 DEF f, g

\* Eight bits above one another are one digit of the base 256.
LEMMA LeadingByte ==
  ASSUME NEW bits \in Seq(Int), Len(bits) = 8, NEW sign \in Int
  PROVE  /\ Leading(bits, 2, sign)[8] = sign * 256 + Leading(bits, 2, 0)[8]
         /\ Leading(bits, 2, 0)[8] \in Int
         /\ Leading(bits, 2, 0)[8] = bits[1] + 2 * bits[2] + 4 * bits[3] + 8 * bits[4] + 16 * bits[5]
                                       + 32 * bits[6] + 64 * bits[7] + 128 * bits[8]
<1> DEFINE b1 == bits[1] b2 == bits[2] b3 == bits[3] b4 == bits[4]
           b5 == bits[5] b6 == bits[6] b7 == bits[7] b8 == bits[8]
           low == b1 + 2 * b2 + 4 * b3 + 8 * b4
           high == b5 + 2 * b6 + 4 * b7 + 8 * b8
<1>1. /\ b1 \in Int /\ b2 \in Int /\ b3 \in Int /\ b4 \in Int
      /\ b5 \in Int /\ b6 \in Int /\ b7 \in Int /\ b8 \in Int
  <2>1. \A i \in 1..Len(bits) : bits[i] \in Int BY ElementOfSeq
  <2>2. \A i \in 1..8 : bits[i] \in Int BY <2>1
  <2> HIDE <2>1
  <2> QED BY <2>2
<1>2. ASSUME NEW s \in Int
      PROVE  Leading(bits, 2, s)[8] = 256 * s + (low + 16 * high)
  <2> DEFINE f == Leading(bits, 2, s)
             f0 == f[0] f1 == f[1] f2 == f[2] f3 == f[3] f4 == f[4]
             f5 == f[5] f6 == f[6] f7 == f[7] f8 == f[8]
  <2>1. Unfolds(f, bits, 2, s) BY LeadingUnfolds
  <2> HIDE DEF f
  <2>2. f1 = f0 * 2 + b8 /\ f2 = f1 * 2 + b7 /\ f3 = f2 * 2 + b6 /\ f4 = f3 * 2 + b5
    BY <2>1 DEF Unfolds
  <2>3. f5 = f4 * 2 + b4 /\ f6 = f5 * 2 + b3 /\ f7 = f6 * 2 + b2 /\ f8 = f7 * 2 + b1
    BY <2>1 DEF Unfolds
  <2>4. /\ f0 = s /\ f0 \in Int /\ f1 \in Int /\ f2 \in Int /\ f3 \in Int /\ f4 \in Int
        /\ f5 \in Int /\ f6 \in Int /\ f7 \in Int /\ f8 \in Int
    BY <2>1 DEF Unfolds
  <2> HIDE DEF f0, f1, f2, f3, f4, f5, f6, f7, f8, b1, b2, b3, b4, b5, b6, b7, b8
  <2>5. f4 = 16 * s + high BY <1>1, <2>2, <2>4
  <2>6. f8 = 16 * f4 + low BY <1>1, <2>3, <2>4
  <2>7. low \in Int /\ high \in Int BY <1>1
  <2> HIDE DEF low, high
  <2>8. f8 = 256 * s + (low + 16 * high) BY <2>4, <2>5, <2>6, <2>7
  <2> QED BY <2>8 DEF f, f8
<1> HIDE DEF b1, b2, b3, b4, b5, b6, b7, b8
<1>3. /\ low \in Int /\ high \in Int
      /\ low + 16 * high = b1 + 2 * b2 + 4 * b3 + 8 * b4 + 16 * b5 + 32 * b6 + 64 * b7 + 128 * b8
  BY <1>1
<1> HIDE DEF low, high
<1>4. Leading(bits, 2, sign)[8] = 256 * sign + (low + 16 * high) BY <1>2
<1>5. Leading(bits, 2, 0)[8] = 256 * 0 + (low + 16 * high) BY <1>2
<1>6. Leading(bits, 2, 0)[8] = low + 16 * high BY <1>3, <1>5
<1>7. Leading(bits, 2, sign)[8] = sign * 256 + Leading(bits, 2, 0)[8] BY <1>3, <1>4, <1>6
<1>8. Leading(bits, 2, 0)[8] \in Int BY <1>3, <1>6
<1> QED BY <1>3, <1>6, <1>7, <1>8 DEF b1, b2, b3, b4, b5, b6, b7, b8

LEMMA ByteNumber ==
  ASSUME NEW bits \in Seq(Int), Len(bits) = 8
  PROVE  Leading(bits, 2, 0)[8] = bits[1] + 2 * bits[2] + 4 * bits[3] + 8 * bits[4] + 16 * bits[5]
                                    + 32 * bits[6] + 64 * bits[7] + 128 * bits[8]
<1>1. 0 \in Int OBVIOUS
<1> QED BY <1>1, LeadingByte

LEMMA BytesAreNumbers ==
  ASSUME NEW b \in Seq(Byte)
  PROVE  b \in Seq(Int) /\ Len(b) \in Nat /\ \A i \in 1..Len(b) : b[i] \in 0..255
<1>1. Byte \subseteq Int BY DEF Byte
<1>2. b \in Seq(Int) BY <1>1, SeqMonotonic
<1> QED BY <1>2, ElementOfSeq DEF Byte

\* Two vectors of bytes of one length make the same number only if they are the same, and
\* so are their signs.
LEMMA Different ==
  ASSUME NEW b \in Seq(Byte), NEW c \in Seq(Byte), Len(b) = Len(c), NEW s \in Int, NEW t \in Int,
         assemble(b, 256, s) = assemble(c, 256, t)
  PROVE  b = c /\ s = t
<1> DEFINE f == Leading(b, 256, s)
           g == Leading(c, 256, t)
           n == Len(b)
           Bad == {j \in 0..n : f[n - j] # g[n - j]}
<1>1. n \in Nat /\ b \in Seq(Int) /\ c \in Seq(Int) /\ Len(c) = n
  BY BytesAreNumbers
<1>2. Unfolds(f, b, 256, s) /\ f[n] = assemble(b, 256, s)
  BY <1>1, LeadingUnfolds
<1>3. Unfolds(g, c, 256, t) /\ g[n] = assemble(c, 256, t)
  BY <1>1, LeadingUnfolds
<1> HIDE DEF f, g
<1>4. /\ \A k \in 0..n : f[k] \in Int /\ g[k] \in Int
      /\ f[0] = s /\ g[0] = t
  BY <1>1, <1>2, <1>3 DEF Unfolds
<1>5. ASSUME NEW k \in 1..n, f[k] = g[k]
      PROVE  f[k - 1] = g[k - 1] /\ b[n - k + 1] = c[n - k + 1]
  <2>1. n - k + 1 \in 1..n /\ k - 1 \in 0..n BY <1>1
  <2>2. b[n - k + 1] \in 0..255 /\ c[n - k + 1] \in 0..255
    BY <1>1, <2>1, BytesAreNumbers
  <2>3. f[k - 1] \in Int /\ g[k - 1] \in Int BY <1>4, <2>1
  <2>4. f[k - 1] * 256 + b[n - k + 1] = g[k - 1] * 256 + c[n - k + 1]
    <3>1. f[k] = f[k - 1] * 256 + b[n - k + 1] BY <1>2 DEF Unfolds
    <3>2. g[k] = g[k - 1] * 256 + c[n - k + 1] BY <1>1, <1>3 DEF Unfolds
    <3> QED BY <1>5, <3>1, <3>2
  <2> DEFINE x == f[k - 1]
             y == g[k - 1]
             v == b[n - k + 1]
             w == c[n - k + 1]
  <2>5. x \in Int /\ y \in Int /\ v \in 0..255 /\ w \in 0..255 /\ x * 256 + v = y * 256 + w
    BY <2>2, <2>3, <2>4
  <2> HIDE DEF x, y, v, w
  <2>6. x = y /\ v = w BY <2>5
  <2> QED BY <2>6 DEF x, y, v, w
<1>6. Bad = {}
  <2> SUFFICES ASSUME Bad # {} PROVE FALSE
    OBVIOUS
  <2>1. PICK m \in Bad : \A k \in Bad : m <= k
    <3>1. Bad \in SUBSET Nat OBVIOUS
    <3> HIDE DEF Bad
    <3> QED BY <3>1, LeastElement
  <2>2. m # 0
    <3>1. n - 0 = n BY <1>1
    <3> QED BY <1>2, <1>3, <2>1, <3>1
  <2>3. m - 1 \in 0..n /\ m - 1 \notin Bad /\ n - (m - 1) \in 1..n /\ (n - (m - 1)) - 1 = n - m
    <3> HIDE DEF n
    <3>1. m \in 0..n BY <2>1
    <3>2. m - 1 \in 0..n /\ m - 1 < m BY <1>1, <2>2, <3>1
    <3>3. m - 1 \notin Bad BY <2>1, <3>1, <3>2
    <3> QED BY <1>1, <2>2, <3>1, <3>2, <3>3
  <2>4. f[n - (m - 1)] = g[n - (m - 1)] BY <2>3
  <2>5. f[n - m] = g[n - m] BY <1>5, <2>3, <2>4
  <2> QED BY <2>1, <2>5
<1> HIDE DEF n
<1>7. ASSUME NEW k \in 0..n PROVE f[k] = g[k]
  <2>1. n - k \in 0..n /\ n - (n - k) = k BY <1>1
  <2> QED BY <1>6, <2>1
<1>8. s = t BY <1>1, <1>4, <1>7
<1>9. ASSUME NEW i \in 1..n PROVE b[i] = c[i]
  <2>1. n - i + 1 \in 1..n /\ n - (n - i + 1) + 1 = i /\ n - i + 1 \in 0..n BY <1>1
  <2>2. f[n - i + 1] = g[n - i + 1] BY <1>7, <2>1
  <2>3. b[n - (n - i + 1) + 1] = c[n - (n - i + 1) + 1] BY <1>5, <2>1, <2>2
  <2> QED BY <2>1, <2>3
<1>10. b = c BY <1>9, SeqEqual DEF n
<1> QED BY <1>8, <1>10

---------------------------------------------------------------------------
(* Bits and the bytes they are packed in. *)

Bit == {0, 1}

\* The bits of a byte: eight, but for the last one.
LEMMA ByteOf ==
  ASSUME NEW bits \in Seq(Int), NEW b \in Nat \ {0}, 8 * (b - 1) < Len(bits)
  PROVE  /\ byteOf(bits, b) \in Seq(Int)
         /\ Len(byteOf(bits, b)) = IF 8 * b <= Len(bits) THEN 8 ELSE Len(bits) - 8 * (b - 1)
         /\ \A i \in 1..Len(byteOf(bits, b)) :
              8 * (b - 1) + i \in 1..Len(bits) /\ byteOf(bits, b)[i] = bits[8 * (b - 1) + i]
<1> DEFINE n == Len(bits)
           last == IF 8 * b <= n THEN 8 * b ELSE n
           first == 8 * (b - 1) + 1
<1>1. n \in Nat /\ last \in Nat /\ last <= n /\ first \in Nat \ {0} /\ first <= last OBVIOUS
<1>2. Min({8 * b, n}) = last
  <2>1. last \in {8 * b, n} /\ \A y \in {8 * b, n} : last <= y BY <1>1
  <2>2. \A x \in {8 * b, n} : (\A y \in {8 * b, n} : x <= y) => x = last BY <1>1
  <2> HIDE DEF n, last
  <2> QED BY <2>1, <2>2 DEF Min
<1>3. byteOf(bits, b) = SubSeq(bits, first, last)
  BY <1>2 DEF byteOf, BYTE_SIZE
<1>4. \A i \in first..last : i \in 1..n /\ bits[i] \in Int
  <2>1. \A i \in first..last : i \in 1..n BY <1>1
  <2> QED BY <2>1, ElementOfSeq
<1>5. /\ SubSeq(bits, first, last) \in Seq(Int)
      /\ Len(SubSeq(bits, first, last)) = (last - first) + 1
      /\ \A i \in 1..(last - first) + 1 : SubSeq(bits, first, last)[i] = bits[(first + i) - 1]
  <2> HIDE DEF first, last
  <2> QED BY <1>1, <1>4, SubSeqProperties
<1>6. (last - first) + 1 = IF 8 * b <= n THEN 8 ELSE n - 8 * (b - 1)
  <2> HIDE DEF n
  <2> QED BY <1>1
<1>7. \A i \in 1..(last - first) + 1 : (first + i) - 1 = 8 * (b - 1) + i /\ 8 * (b - 1) + i \in 1..n
  BY <1>1
<1> HIDE DEF first, last
<1> QED BY <1>3, <1>5, <1>6, <1>7

\* It is a part of the vector, so its bits go on from those above.
LEMMA ByteStep ==
  ASSUME NEW bits \in Seq(Int), NEW b \in Nat \ {0}, 8 * (b - 1) < Len(bits), NEW sign \in Int
  PROVE  /\ 8 * b <= Len(bits) =>
              Leading(bits, 2, sign)[Len(bits) - 8 * (b - 1)] =
                Leading(bits, 2, sign)[Len(bits) - 8 * b] * 256 + assemble(byteOf(bits, b), 2, 0)
         /\ 8 * b >= Len(bits) /\ (sign = 0 \/ 8 * b = Len(bits)) =>
              Leading(bits, 2, sign)[Len(bits) - 8 * (b - 1)] =
                sign * 256 + assemble(byteOf(bits, b), 2, 0)
<1> DEFINE n == Len(bits)
           part == byteOf(bits, b)
           r == Len(part)
           before == n - 8 * (b - 1) - r
           f == Leading(bits, 2, sign)
<1>1. /\ part \in Seq(Int) /\ r = (IF 8 * b <= n THEN 8 ELSE n - 8 * (b - 1))
      /\ \A i \in 1..r : part[i] = bits[8 * (b - 1) + i]
  BY ByteOf
<1>2. n \in Nat OBVIOUS
<1> HIDE DEF part, n
<1>3. r \in Nat /\ before \in Nat /\ before + r = n - 8 * (b - 1) /\ before + r <= n
  BY <1>1, <1>2
<1>4. \A i \in 1..r : n - before - r + i = 8 * (b - 1) + i
  BY <1>2, <1>3
<1> HIDE DEF r
<1>5. PartOf(part, bits, before)
  <2>1. \A i \in 1..r : part[i] = bits[n - before - r + i] BY <1>1, <1>4
  <2> HIDE DEF before
  <2> QED BY <1>1, <1>3, <2>1 DEF PartOf, n, r
<1> HIDE DEF before
<1>6. f[before] \in Int /\ f[before + r] = Leading(part, 2, f[before])[r]
  BY <1>5, LeadingPart DEF r
<1>7. assemble(part, 2, 0) = Leading(part, 2, 0)[r] /\ assemble(part, 2, 0) \in Int
  <2>1. part \in Seq(Int) BY <1>1
  <2>2. assemble(part, 2, 0) = Leading(part, 2, 0)[Len(part)] /\ assemble(part, 2, 0) \in Int
    BY <2>1, LeadingUnfolds
  <2> QED BY <2>2 DEF r
<1>8. f[0] = sign BY LeadingUnfolds DEF Unfolds
<1> HIDE DEF f
<1>9. ASSUME r = 8 PROVE f[n - 8 * (b - 1)] = f[before] * 256 + assemble(part, 2, 0)
  <2>1. Leading(part, 2, f[before])[8] = f[before] * 256 + Leading(part, 2, 0)[8]
    BY <1>1, <1>6, <1>9, LeadingByte DEF r
  <2> QED BY <1>3, <1>6, <1>7, <1>9, <2>1
<1>10. ASSUME 8 * b <= n PROVE f[n - 8 * (b - 1)] = f[n - 8 * b] * 256 + assemble(part, 2, 0)
  <2>1. r = 8 /\ before = n - 8 * b BY <1>1, <1>2, <1>3, <1>10
  <2> QED BY <1>9, <2>1
<1>11. ASSUME 8 * b >= n, sign = 0 \/ 8 * b = n
       PROVE  f[n - 8 * (b - 1)] = sign * 256 + assemble(part, 2, 0)
  <2>1. before = 0 BY <1>1, <1>2, <1>3, <1>11
  <2>2. CASE 8 * b = n
    <3>1. f[n - 8 * (b - 1)] = f[n - 8 * b] * 256 + assemble(part, 2, 0) /\ n - 8 * b = 0
      BY <1>2, <1>10, <2>2
    <3> QED BY <1>8, <3>1
  <2>3. CASE sign = 0
    <3>1. f[n - 8 * (b - 1)] = Leading(part, 2, 0)[r] BY <1>3, <1>6, <1>8, <2>1, <2>3
    <3> QED BY <1>7, <2>3, <3>1
  <2> QED BY <1>11, <2>2, <2>3
<1> QED BY <1>10, <1>11 DEF f, n, part

\* The bytes of a vector of bits, and the byte of each.
LEMMA ByteVector ==
  ASSUME NEW bits \in Seq(Int)
  PROVE  /\ toByteVector(bits) \in Seq(Int)
         /\ Len(toByteVector(bits)) = (Len(bits) + 7) \div 8
         /\ \A b \in 1..Len(toByteVector(bits)) :
              8 * (b - 1) < Len(bits) /\ toByteVector(bits)[b] = assemble(byteOf(bits, b), 2, 0)
<1> DEFINE n == (Len(bits) + 7) \div 8
<1>1. n \in Nat OBVIOUS
<1>2. \A b \in 1..n : b \in Nat \ {0} /\ 8 * (b - 1) < Len(bits) OBVIOUS
<1>3. toByteVector(bits) = [b \in 1..n |-> assemble(byteOf(bits, b), 2, 0)]
  BY DEF toByteVector, BYTE_SIZE
<1>4. ASSUME NEW b \in 1..n PROVE assemble(byteOf(bits, b), 2, 0) \in Int
  <2>1. byteOf(bits, b) \in Seq(Int) BY <1>2, ByteOf
  <2> QED BY <2>1, LeadingUnfolds
<1> HIDE DEF n
<1>5. toByteVector(bits) \in [1..n -> Int] BY <1>3, <1>4
<1>6. toByteVector(bits) \in Seq(Int) /\ Len(toByteVector(bits)) = n
  BY <1>1, <1>5, SeqDef
<1> QED BY <1>2, <1>3, <1>6 DEF n

LEMMA RoundedUp ==
  ASSUME NEW n \in Nat
  PROVE  8 * ((n + 7) \div 8) >= n /\ (n % 8 = 0 => 8 * ((n + 7) \div 8) = n)
OBVIOUS

\* Packing does not change a number, and a sign only where the last byte is not full.
LEMMA PackedNumber ==
  ASSUME NEW bits \in Seq(Int), Len(bits) # 0, NEW sign \in Int, sign = 0 \/ Len(bits) % 8 = 0
  PROVE  assemble(toByteVector(bits), 256, sign) = assemble(bits, 2, sign)
<1> DEFINE n == Len(bits)
           bytes == toByteVector(bits)
           m == Len(bytes)
           f == Leading(bytes, 256, sign)
           g == Leading(bits, 2, sign)
           byte(b) == assemble(byteOf(bits, b), 2, 0)
           Bad == {j \in Nat : j + 1 \in 1..m /\ f[j + 1] # g[n - 8 * (m - (j + 1))]}
<1>1. n \in Nat \ {0} /\ bytes \in Seq(Int) /\ m = (n + 7) \div 8
  BY ByteVector
<1>2. Unfolds(f, bytes, 256, sign) /\ f[m] = assemble(bytes, 256, sign)
  <2>1. bytes \in Seq(Int) BY <1>1
  <2> HIDE DEF bytes
  <2>2. /\ Unfolds(Leading(bytes, 256, sign), bytes, 256, sign)
        /\ Leading(bytes, 256, sign)[Len(bytes)] = assemble(bytes, 256, sign)
    BY <2>1, LeadingUnfolds
  <2> QED BY <2>2
<1>3. Unfolds(g, bits, 2, sign) /\ g[n] = assemble(bits, 2, sign)
  BY LeadingUnfolds
<1>4. ASSUME NEW b \in 1..m
      PROVE  /\ bytes[b] = byte(b)
             /\ 8 * b <= n => g[n - 8 * (b - 1)] = g[n - 8 * b] * 256 + byte(b)
             /\ 8 * b >= n /\ (sign = 0 \/ 8 * b = n) => g[n - 8 * (b - 1)] = sign * 256 + byte(b)
  <2>1. b \in Nat \ {0} /\ 8 * (b - 1) < n /\ bytes[b] = byte(b)
    BY ByteVector
  <2> QED BY <2>1, ByteStep
<1>5. f[0] = sign /\ \A k \in 1..m : f[k] = f[k - 1] * 256 + bytes[m - k + 1]
  BY <1>2 DEF Unfolds
<1>6. sign = 0 \/ n % 8 = 0 OBVIOUS
<1> HIDE DEF f, g, n, m, bytes, byte
<1>7. m \in Nat \ {0} BY <1>1
<1>8. Bad = {}
  <2> SUFFICES ASSUME Bad # {} PROVE FALSE
    OBVIOUS
  <2>1. PICK j \in Bad : \A k \in Bad : j <= k
    <3>1. Bad \in SUBSET Nat OBVIOUS
    <3> HIDE DEF Bad
    <3> QED BY <3>1, LeastElement
  <2> DEFINE b == m - j
  <2>2. j \in Nat /\ j + 1 \in 1..m /\ f[j + 1] # g[n - 8 * (m - (j + 1))] BY <2>1
  <2>3. b \in 1..m /\ m - (j + 1) = b - 1 /\ m - (j + 1) + 1 = b /\ (j + 1) - 1 = j BY <1>7, <2>2
  <2>4. f[j + 1] = f[j] * 256 + byte(b)
    <3>1. f[j + 1] = f[(j + 1) - 1] * 256 + bytes[m - (j + 1) + 1]
      BY <1>5, <2>2
    <3> HIDE DEF b
    <3> QED BY <1>4, <2>3, <3>1
  <2>5. CASE j = 0
    <3>1. 8 * b >= n /\ (sign = 0 \/ 8 * b = n)
      <4>1. b = (n + 7) \div 8 BY <1>1, <2>5
      <4> HIDE DEF b
      <4>2. 8 * b >= n /\ (n % 8 = 0 => 8 * b = n) BY <1>1, <4>1, RoundedUp
      <4> QED BY <1>6, <4>2
    <3>2. g[n - 8 * (b - 1)] = sign * 256 + byte(b)
      <4> HIDE DEF b
      <4> QED BY <1>4, <2>3, <3>1
    <3> HIDE DEF b
    <3> QED BY <1>5, <2>2, <2>3, <2>4, <2>5, <3>2
  <2>6. CASE j # 0
    <3>1. j - 1 \in Nat /\ j - 1 \notin Bad /\ (j - 1) + 1 = j /\ j \in 1..m
      <4> HIDE DEF Bad
      <4> QED BY <1>7, <2>1, <2>2, <2>6
    <3>2. f[j] = g[n - 8 * b] BY <3>1
    <3>3. 8 * b <= n BY <1>1, <2>2, <2>3, <2>6
    <3> HIDE DEF b
    <3>4. g[n - 8 * (b - 1)] = g[n - 8 * b] * 256 + byte(b) BY <1>4, <2>3, <3>3
    <3> QED BY <2>2, <2>3, <2>4, <3>2, <3>4
  <2> QED BY <2>5, <2>6
<1>9. m - 1 \in Nat /\ (m - 1) + 1 = m /\ m \in 1..m /\ n - 8 * (m - m) = n BY <1>1, <1>7
<1>10. f[m] = g[n] BY <1>8, <1>9
<1> QED BY <1>2, <1>3, <1>10 DEF bytes

\* The bits of every byte, the lowest first.
LEMMA BitVector ==
  ASSUME NEW b \in Seq(Byte)
  PROVE  /\ toBitVector(b) \in Seq(Bit) /\ toBitVector(b) \in Seq(Int)
         /\ Len(toBitVector(b)) = 8 * Len(b)
         /\ \A i \in 1..8 * Len(b) :
              toBitVector(b)[i] = (b[(i - 1) \div 8 + 1] \div 2^((i - 1) % 8)) % 2
<1> DEFINE n == 8 * Len(b)
           bit(i) == (b[(i - 1) \div 8 + 1] \div 2^((i - 1) % 8)) % 2
<1>1. n \in Nat OBVIOUS
<1>2. toBitVector(b) = [i \in 1..n |-> bit(i)]
  BY DEF toBitVector, bitIndex, BYTE_SIZE
<1>3. ASSUME NEW i \in 1..n PROVE bit(i) \in Bit
  <2>1. (i - 1) \div 8 + 1 \in 1..Len(b) /\ (i - 1) % 8 \in 0..7 BY <1>1
  <2>2. b[(i - 1) \div 8 + 1] \in 0..255 BY <2>1, BytesAreNumbers
  <2>3. ASSUME NEW k \in 0..7, NEW x \in 0..255 PROVE (x \div 2^k) % 2 \in {0, 1}
    OBVIOUS
  <2> QED BY <2>1, <2>2, <2>3 DEF Bit
<1> HIDE DEF n, bit
<1>4. toBitVector(b) \in [1..n -> Bit] BY <1>2, <1>3
<1>5. toBitVector(b) \in Seq(Bit) /\ Len(toBitVector(b)) = n BY <1>1, <1>4, SeqDef
<1>6. toBitVector(b) \in Seq(Int)
  <2>1. Bit \subseteq Int BY DEF Bit
  <2> QED BY <1>5, <2>1, SeqMonotonic
<1> QED BY <1>2, <1>5, <1>6 DEF n, bit

\* The views of arrays and records see the bytes turned around.
LEMMA ReversedLength ==
  ASSUME NEW b \in Seq(Byte)
  PROVE  /\ reversed(b) \in Seq(Byte) /\ Len(reversed(b)) = Len(b)
         /\ \A i \in 1..Len(b) : reversed(b)[i] = b[(Len(b) - i) + 1]
         /\ Len(toBitVector(b)) = BYTE_SIZE * Len(b)
         /\ Len(toBitVector(reversed(b))) = BYTE_SIZE * Len(b)
<1>1. reversed(b) = [i \in 1..Len(b) |-> b[(Len(b) - i) + 1]]
  BY DEF reversed, Reverse
<1>2. \A i \in 1..Len(b) : (Len(b) - i) + 1 \in 1..Len(b)
  OBVIOUS
<1>3. reversed(b) \in [1..Len(b) -> Byte] BY <1>1, <1>2
<1>4. reversed(b) \in Seq(Byte) /\ Len(reversed(b)) = Len(b) BY <1>3
<1>5. Len(toBitVector(b)) = 8 * Len(b) BY BitVector
<1>6. Len(toBitVector(reversed(b))) = 8 * Len(b) BY <1>4, BitVector
<1> QED BY <1>1, <1>4, <1>5, <1>6 DEF BYTE_SIZE

\* What is cut out of bits.
LEMMA CutOf ==
  ASSUME NEW bits \in Seq(Bit), NEW offset \in Nat, NEW n \in Nat, Has(bits, offset, n)
  PROVE  /\ Cut(bits, offset, n) \in Seq(Bit) /\ Len(Cut(bits, offset, n)) = n
         /\ \A i \in 1..n : Cut(bits, offset, n)[i] = bits[offset + i]
<1> DEFINE first == offset + 1
           last == offset + n
<1>1. \A i \in first..last : i \in 1..Len(bits) BY DEF Has
<1>2. /\ first \in Int /\ last \in Int /\ last - first + 1 = n
      /\ (first <= last => first \in 1..Len(bits) /\ last \in 1..Len(bits))
      /\ \A i \in 1..n : first + i - 1 = offset + i
  <2>1. n # 0 => first \in first..last /\ last \in first..last OBVIOUS
  <2> QED BY <1>1, <2>1
<1>3. Cut(bits, offset, n) = SubSeq(bits, first, last) BY DEF Cut
<1>4. /\ SubSeq(bits, first, last) \in Seq(Bit)
      /\ Len(SubSeq(bits, first, last)) = IF first <= last THEN last - first + 1 ELSE 0
      /\ \A i \in 1..last - first + 1 : SubSeq(bits, first, last)[i] = bits[first + i - 1]
  <2>1. \A i \in first..last : bits[i] \in Bit BY <1>1, ElementOfSeq
  <2> HIDE DEF first, last
  <2> QED BY <1>2, <2>1, SubSeqProperties
<1>5. n = (IF first <= last THEN last - first + 1 ELSE 0) OBVIOUS
<1> HIDE DEF first, last
<1> QED BY <1>2, <1>3, <1>4, <1>5

LEMMA ByteIsItsBits ==
  ASSUME NEW x \in 0..255
  PROVE  x = ((x \div 2^0) % 2) + 2 * ((x \div 2^1) % 2) + 4 * ((x \div 2^2) % 2) + 8 * ((x \div 2^3) % 2)
               + 16 * ((x \div 2^4) % 2) + 32 * ((x \div 2^5) % 2) + 64 * ((x \div 2^6) % 2)
               + 128 * ((x \div 2^7) % 2)
BY SMT

LEMMA BitPlace ==
  ASSUME NEW k \in Nat \ {0}, NEW i \in 1..8
  PROVE  (8 * (k - 1) + i - 1) \div 8 + 1 = k /\ (8 * (k - 1) + i - 1) % 8 = i - 1
OBVIOUS

\* Bytes are packed as they were.
LEMMA BytesOfBits ==
  ASSUME NEW b \in Seq(Byte)
  PROVE  toByteVector(toBitVector(b)) = b
<1> DEFINE bits == toBitVector(b)
           bytes == toByteVector(bits)
           n == Len(b)
           bit(x, i) == (x \div 2^i) % 2
<1>1. /\ bits \in Seq(Int) /\ Len(bits) = 8 * n /\ n \in Nat
      /\ \A i \in 1..8 * n : bits[i] = bit(b[(i - 1) \div 8 + 1], (i - 1) % 8)
  BY BitVector
<1> HIDE DEF bits
<1>2. /\ bytes \in Seq(Int) /\ Len(bytes) = (Len(bits) + 7) \div 8
      /\ \A k \in 1..Len(bytes) : bytes[k] = assemble(byteOf(bits, k), 2, 0)
  BY <1>1, ByteVector
<1> HIDE DEF bytes
<1>3. Len(bytes) = n BY <1>1, <1>2
<1>4. ASSUME NEW k \in 1..n PROVE bytes[k] = b[k]
  <2> DEFINE part == byteOf(bits, k)
             x == b[k]
             p1 == part[1] p2 == part[2] p3 == part[3] p4 == part[4]
             p5 == part[5] p6 == part[6] p7 == part[7] p8 == part[8]
  <2>1. k \in Nat \ {0} /\ 8 * (k - 1) < Len(bits) /\ 8 * k <= Len(bits) BY <1>1
  <2>2. part \in Seq(Int) /\ Len(part) = 8 /\ \A i \in 1..8 : part[i] = bits[8 * (k - 1) + i]
    <3>1. Len(part) = 8 /\ part \in Seq(Int) BY <1>1, <2>1, ByteOf
    <3>2. \A i \in 1..Len(part) : part[i] = bits[8 * (k - 1) + i] BY <1>1, <2>1, ByteOf
    <3> QED BY <3>1, <3>2
  <2>3. x \in 0..255 BY BytesAreNumbers
  <2> HIDE DEF bit
  <2>4. ASSUME NEW i \in 1..8 PROVE part[i] = bit(x, i - 1)
    <3> DEFINE j == 8 * (k - 1) + i
    <3>1. j \in 1..8 * n BY <1>1
    <3>2. (j - 1) \div 8 + 1 = k /\ (j - 1) % 8 = i - 1 BY <2>1, BitPlace
    <3>3. part[i] = bits[j] BY <2>2
    <3> HIDE DEF j, part
    <3>4. bits[j] = bit(b[(j - 1) \div 8 + 1], (j - 1) % 8) BY <1>1, <3>1
    <3> QED BY <3>2, <3>3, <3>4
  <2> HIDE DEF part, x
  <2>5. /\ p1 = bit(x, 0) /\ p2 = bit(x, 1) /\ p3 = bit(x, 2) /\ p4 = bit(x, 3)
        /\ p5 = bit(x, 4) /\ p6 = bit(x, 5) /\ p7 = bit(x, 6) /\ p8 = bit(x, 7)
    <3>1. /\ 1 - 1 = 0 /\ 2 - 1 = 1 /\ 3 - 1 = 2 /\ 4 - 1 = 3
          /\ 5 - 1 = 4 /\ 6 - 1 = 5 /\ 7 - 1 = 6 /\ 8 - 1 = 7
      OBVIOUS
    <3>2. p1 = bit(x, 1 - 1) /\ p2 = bit(x, 2 - 1) /\ p3 = bit(x, 3 - 1) /\ p4 = bit(x, 4 - 1)
      BY <2>4
    <3>3. p5 = bit(x, 5 - 1) /\ p6 = bit(x, 6 - 1) /\ p7 = bit(x, 7 - 1) /\ p8 = bit(x, 8 - 1)
      BY <2>4
    <3> QED BY <3>1, <3>2, <3>3
  <2>6. Leading(part, 2, 0)[8] = p1 + 2 * p2 + 4 * p3 + 8 * p4 + 16 * p5 + 32 * p6 + 64 * p7 + 128 * p8
    BY <2>2, ByteNumber
  <2> HIDE DEF p1, p2, p3, p4, p5, p6, p7, p8
  <2>7. x = bit(x, 0) + 2 * bit(x, 1) + 4 * bit(x, 2) + 8 * bit(x, 3)
              + 16 * bit(x, 4) + 32 * bit(x, 5) + 64 * bit(x, 6) + 128 * bit(x, 7)
    BY <2>3, ByteIsItsBits DEF bit
  <2>8. Leading(part, 2, 0)[8] = x BY <2>5, <2>6, <2>7, Zenon
  <2>9. assemble(part, 2, 0) = Leading(part, 2, 0)[Len(part)]
    <3>1. part \in Seq(Int) BY <2>2
    <3> QED BY <3>1, LeadingUnfolds
  <2>10. bytes[k] = x BY <1>2, <1>3, <2>2, <2>8, <2>9 DEF part
  <2> QED BY <2>10 DEF x
<1>5. b \in Seq(Int) BY BytesAreNumbers
<1>6. bytes = b BY <1>2, <1>3, <1>4, <1>5, SeqEqual
<1> QED BY <1>6 DEF bytes, bits

LEMMA NextBit ==
  ASSUME NEW x \in Int, NEW y \in Int, NEW d \in 0..1, NEW m \in Nat, x \in 0..m, y = x * 2 + d
  PROVE  y \in 0..2 * m + 1
OBVIOUS

\* The sign bit of a byte is its highest, and one that is not full has none.
LEMMA SignBit ==
  ASSUME NEW bits \in Seq(Bit), bits \in Seq(Int), Len(bits) \in 1..8
  PROVE  assemble(bits, 2, 0) >= 128 <=> Len(bits) = 8 /\ bits[8] = 1
<1> DEFINE f == Leading(bits, 2, 0)
           n == Len(bits)
<1>1. n \in 1..8 /\ \A i \in 1..n : bits[i] \in 0..1
  <2>1. \A i \in 1..n : bits[i] \in Bit BY ElementOfSeq
  <2> QED BY <2>1 DEF Bit
<1>2. Unfolds(f, bits, 2, 0) /\ assemble(bits, 2, 0) = f[n] BY LeadingUnfolds
<1> HIDE DEF f
<1>3. /\ f[0] = 0
      /\ \A k \in 0..n : f[k] \in Int
      /\ \A k \in 1..n : f[k] = f[k - 1] * 2 + bits[n - k + 1]
  BY <1>2 DEF Unfolds
<1> HIDE DEF n
<1> DEFINE f0 == f[0] f1 == f[1] f2 == f[2] f3 == f[3] f4 == f[4] f5 == f[5] f6 == f[6] f7 == f[7]
<1>4. f0 = 0 BY <1>3
<1>5. ASSUME n >= 1 PROVE f1 \in 0..1
  <2> DEFINE d == bits[n - 1 + 1]
  <2>1. 1 \in 1..n /\ n - 1 + 1 \in 1..n BY <1>1, <1>5
  <2>2. f1 = f0 * 2 + d BY <1>3, <2>1
  <2>3. d \in 0..1 BY <1>1, <2>1
  <2> HIDE DEF f0, f1, d
  <2> QED BY <1>1, <1>4, <1>5, <2>2, <2>3
<1>6. ASSUME n >= 2 PROVE f2 \in 0..3
  <2> DEFINE d == bits[n - 2 + 1]
  <2>1. 2 \in 1..n /\ n - 2 + 1 \in 1..n BY <1>1, <1>6
  <2>2. f2 = f1 * 2 + d BY <1>3, <2>1
  <2>3. d \in 0..1 BY <1>1, <2>1
  <2>4. f1 \in 0..1 BY <1>1, <1>5, <1>6
  <2> HIDE DEF f1, f2, d
  <2> QED BY <2>2, <2>3, <2>4
<1>7. ASSUME n >= 3 PROVE f3 \in 0..7
  <2> DEFINE d == bits[n - 3 + 1]
  <2>1. 3 \in 1..n /\ n - 3 + 1 \in 1..n BY <1>1, <1>7
  <2>2. f3 = f2 * 2 + d BY <1>3, <2>1
  <2>3. d \in 0..1 BY <1>1, <2>1
  <2>4. f2 \in 0..3 BY <1>1, <1>6, <1>7
  <2> HIDE DEF f2, f3, d
  <2> QED BY <2>2, <2>3, <2>4
<1>8. ASSUME n >= 4 PROVE f4 \in 0..15
  <2> DEFINE d == bits[n - 4 + 1]
  <2>1. 4 \in 1..n /\ n - 4 + 1 \in 1..n BY <1>1, <1>8
  <2>2. f4 = f3 * 2 + d BY <1>3, <2>1
  <2>3. d \in 0..1 BY <1>1, <2>1
  <2>4. f3 \in 0..7 BY <1>1, <1>7, <1>8
  <2> HIDE DEF f3, f4, d
  <2> QED BY <2>2, <2>3, <2>4
<1>9. ASSUME n >= 5 PROVE f5 \in 0..31
  <2> DEFINE d == bits[n - 5 + 1]
  <2>1. 5 \in 1..n /\ n - 5 + 1 \in 1..n BY <1>1, <1>9
  <2>2. f5 = f4 * 2 + d BY <1>3, <2>1
  <2>3. d \in 0..1 BY <1>1, <2>1
  <2>4. f4 \in 0..15 BY <1>1, <1>8, <1>9
  <2> HIDE DEF f4, f5, d
  <2> QED BY <2>2, <2>3, <2>4
<1>10. ASSUME n >= 6 PROVE f6 \in 0..63
  <2> DEFINE d == bits[n - 6 + 1]
  <2>1. 6 \in 1..n /\ n - 6 + 1 \in 1..n BY <1>1, <1>10
  <2>2. f6 = f5 * 2 + d BY <1>3, <2>1
  <2>3. d \in 0..1 BY <1>1, <2>1
  <2>4. f5 \in 0..31 BY <1>1, <1>9, <1>10
  <2> HIDE DEF f5, f6, d
  <2> QED BY <2>2, <2>3, <2>4
<1>11. ASSUME n >= 7 PROVE f7 \in 0..127
  <2> DEFINE d == bits[n - 7 + 1]
  <2>1. 7 \in 1..n /\ n - 7 + 1 \in 1..n BY <1>1, <1>11
  <2>2. f7 = f6 * 2 + d BY <1>3, <2>1
  <2>3. d \in 0..1 BY <1>1, <2>1
  <2>4. f6 \in 0..63 BY <1>1, <1>10, <1>11
  <2> HIDE DEF f6, f7, d
  <2> QED BY <2>2, <2>3, <2>4
<1>13. ASSUME n # 8 PROVE f[n] < 128
  <2>1. CASE n = 1
    <3>1. f1 \in 0..1 BY <1>5, <2>1
    <3>2. f[n] = f1 BY <2>1
    <3> HIDE DEF f1
    <3> QED BY <3>1, <3>2
  <2>2. CASE n = 2
    <3>1. f2 \in 0..3 BY <1>6, <2>2
    <3>2. f[n] = f2 BY <2>2
    <3> HIDE DEF f2
    <3> QED BY <3>1, <3>2
  <2>3. CASE n = 3
    <3>1. f3 \in 0..7 BY <1>7, <2>3
    <3>2. f[n] = f3 BY <2>3
    <3> HIDE DEF f3
    <3> QED BY <3>1, <3>2
  <2>4. CASE n = 4
    <3>1. f4 \in 0..15 BY <1>8, <2>4
    <3>2. f[n] = f4 BY <2>4
    <3> HIDE DEF f4
    <3> QED BY <3>1, <3>2
  <2>5. CASE n = 5
    <3>1. f5 \in 0..31 BY <1>9, <2>5
    <3>2. f[n] = f5 BY <2>5
    <3> HIDE DEF f5
    <3> QED BY <3>1, <3>2
  <2>6. CASE n = 6
    <3>1. f6 \in 0..63 BY <1>10, <2>6
    <3>2. f[n] = f6 BY <2>6
    <3> HIDE DEF f6
    <3> QED BY <3>1, <3>2
  <2>7. CASE n = 7
    <3>1. f7 \in 0..127 BY <1>11, <2>7
    <3>2. f[n] = f7 BY <2>7
    <3> HIDE DEF f7
    <3> QED BY <3>1, <3>2
  <2> QED BY <1>1, <1>13, <2>1, <2>2, <2>3, <2>4, <2>5, <2>6, <2>7
<1>14. ASSUME n = 8 PROVE f[8] >= 128 <=> bits[8] = 1
  <2> DEFINE b1 == bits[1] b2 == bits[2] b3 == bits[3] b4 == bits[4]
             b5 == bits[5] b6 == bits[6] b7 == bits[7] b8 == bits[8]
             f8 == f[8]
  <2>1. f8 = b1 + 2 * b2 + 4 * b3 + 8 * b4 + 16 * b5 + 32 * b6 + 64 * b7 + 128 * b8
    BY <1>14, ByteNumber DEF f, n
  <2>2. /\ b1 \in 0..1 /\ b2 \in 0..1 /\ b3 \in 0..1 /\ b4 \in 0..1
        /\ b5 \in 0..1 /\ b6 \in 0..1 /\ b7 \in 0..1 /\ b8 \in 0..1
    BY <1>1, <1>14
  <2> HIDE DEF b1, b2, b3, b4, b5, b6, b7, b8, f8
  <2>3. f8 >= 128 <=> b8 = 1 BY <2>1, <2>2
  <2> QED BY <2>3 DEF b8, f8
<1>15. CASE n = 8 BY <1>2, <1>14, <1>15 DEF n
<1>16. CASE n # 8
  <2>1. f[n] < 128 BY <1>13, <1>16
  <2>2. f[n] \in Int BY <1>1, <1>3
  <2>3. ~ (f[n] >= 128) BY <2>1, <2>2
  <2> QED BY <1>2, <1>16, <2>3 DEF n
<1> QED BY <1>15, <1>16

\* What the decoders of integers make of the bytes that a field is packed in: its number,
\* with a sign only where its last byte is full and the field's highest bit is set.
LEMMA FieldNumbers ==
  ASSUME NEW bits \in Seq(Bit), Len(bits) # 0
  PROVE  /\ toUnsignedInteger(toByteVector(bits)) = assemble(bits, 2, 0)
         /\ toSignedInteger(toByteVector(bits)) =
              assemble(bits, 2, IF Len(bits) % 8 = 0 /\ bits[Len(bits)] = 1 THEN -1 ELSE 0)
<1> DEFINE n == Len(bits)
           bytes == toByteVector(bits)
           m == Len(bytes)
           part == byteOf(bits, m)
           full == n % 8 = 0 /\ bits[n] = 1
<1>1. bits \in Seq(Int) /\ n \in Nat \ {0} /\ \A i \in 1..n : bits[i] \in Bit
  <2>1. Bit \subseteq Int BY DEF Bit
  <2>2. bits \in Seq(Int) BY <2>1, SeqMonotonic
  <2>3. \A i \in 1..n : bits[i] \in Bit BY ElementOfSeq
  <2>4. n \in Nat \ {0} OBVIOUS
  <2> QED BY <2>2, <2>3, <2>4
<1>2. assemble(bytes, 256, 0) = assemble(bits, 2, 0)
  BY <1>1, PackedNumber
<1>3. bytes \in Seq(Int) /\ m = (n + 7) \div 8
      /\ \A b \in 1..m : 8 * (b - 1) < n /\ bytes[b] = assemble(byteOf(bits, b), 2, 0)
  BY <1>1, ByteVector
<1> HIDE DEF bytes
<1>4. m \in 1..m /\ m \in Nat \ {0} /\ 8 * (m - 1) < n /\ 8 * m >= n /\ (8 * m = n <=> n % 8 = 0)
  <2> HIDE DEF m, n
  <2>1. m \in Nat /\ 8 * m >= n /\ (8 * m = n <=> n % 8 = 0)
    <3>1. m = (n + 7) \div 8 /\ n \in Nat BY <1>1, <1>3
    <3>2. (n + 7) \div 8 \in Nat BY <3>1
    <3>3. 8 * m >= n /\ (n % 8 = 0 => 8 * m = n) BY <3>1, RoundedUp
    <3>4. 8 * m = n => n % 8 = 0 BY <3>1, <3>2
    <3> QED BY <3>1, <3>2, <3>3, <3>4
  <2>2. m \in 1..m /\ m \in Nat \ {0} BY <1>1, <2>1
  <2>3. 8 * (m - 1) < n BY <1>3, <2>2
  <2> QED BY <2>1, <2>2, <2>3
<1>5. Last(bytes) = bytes[m] /\ bytes[m] = assemble(part, 2, 0)
  BY <1>3, <1>4 DEF Last
<1>6. /\ part \in Seq(Int) /\ Len(part) = IF 8 * m <= n THEN 8 ELSE n - 8 * (m - 1)
      /\ \A i \in 1..Len(part) : 8 * (m - 1) + i \in 1..n /\ part[i] = bits[8 * (m - 1) + i]
  BY <1>1, <1>4, ByteOf
<1> HIDE DEF n, m, part
<1>7. Len(part) \in 1..8 /\ (Len(part) = 8 <=> n % 8 = 0)
  <2>1. Len(part) = IF 8 * m <= n THEN 8 ELSE n - 8 * (m - 1) BY <1>6
  <2>2. CASE 8 * m <= n
    <3>1. 8 * m = n BY <1>1, <1>4, <2>2
    <3> QED BY <1>4, <2>1, <2>2, <3>1
  <2>3. CASE ~ (8 * m <= n)
    <3>1. Len(part) = n - 8 * (m - 1) BY <2>1, <2>3
    <3>2. n - 8 * (m - 1) \in 1..7 /\ 8 * m # n BY <1>1, <1>4, <2>3
    <3> QED BY <1>4, <3>1, <3>2
  <2> QED BY <2>2, <2>3
<1>8. part \in Seq(Bit)
  <2>1. \A i \in 1..Len(part) : part[i] \in Bit BY <1>1, <1>6
  <2>2. part = [i \in 1..Len(part) |-> part[i]] /\ Len(part) \in Nat
    <3>1. part \in Seq(Int) BY <1>6
    <3> QED BY <3>1
  <2>3. part \in [1..Len(part) -> Bit] BY <2>1, <2>2
  <2> QED BY <2>2, <2>3, SeqDef
<1>9. Last(bytes) >= 128 <=> Len(part) = 8 /\ part[8] = 1
  BY <1>5, <1>6, <1>7, <1>8, SignBit
<1>10. ASSUME n % 8 = 0 PROVE part[8] = bits[n]
  <2>1. 8 \in 1..Len(part) BY <1>7, <1>10
  <2>2. 8 * (m - 1) + 8 = n BY <1>1, <1>4, <1>10
  <2>3. part[8] = bits[8 * (m - 1) + 8] BY <1>6, <2>1
  <2> QED BY <2>2, <2>3
<1>11. Last(bytes) >= 128 <=> full BY <1>7, <1>9, <1>10
<1>12. full => assemble(bytes, 256, -1) = assemble(bits, 2, -1)
  BY <1>1, PackedNumber DEF bytes, n
<1>13. toSignedInteger(bytes) = assemble(bits, 2, IF full THEN -1 ELSE 0)
  <2>1. CASE full BY <1>11, <1>12, <2>1 DEF toSignedInteger
  <2>2. CASE ~ full BY <1>2, <1>11, <2>2 DEF toSignedInteger
  <2> QED BY <2>1, <2>2
<1> QED BY <1>2, <1>13 DEF toUnsignedInteger, bytes, n

---------------------------------------------------------------------------
(* Values. *)

\* The decoders of integers make whole numbers.
LEMMA WholeNumber ==
  ASSUME NEW bytes \in Seq(Int), NEW type, decode(bytes, type).kind \in {"uint64", "int64"}
  PROVE  decode(bytes, type).v \in Int
<1>1. accepts(bytes, type) /\ type.datatype \in {"UInteger", "Integer"}
  BY DEF decode, Throws, Value
<1>2. CASE type.datatype = "UInteger"
  <2>1. toUnsignedInteger(bytes) \in Int BY LeadingUnfolds DEF toUnsignedInteger
  <2> QED BY <1>1, <1>2, <2>1 DEF decode, Value
<1>3. CASE type.datatype = "Integer"
  <2> DEFINE sign == IF Last(bytes) >= 128 THEN -1 ELSE 0
  <2>1. sign \in Int OBVIOUS
  <2> HIDE DEF sign
  <2>2. assemble(bytes, 256, sign) \in Int BY <2>1, LeadingUnfolds
  <2>3. toSignedInteger(bytes) \in Int BY <2>2 DEF toSignedInteger, sign
  <2> QED BY <1>1, <1>3, <2>3 DEF decode, Value
<1> QED BY <1>1, <1>2, <1>3

LEMMA WholeField ==
  ASSUME NEW b \in Seq(Byte), NEW offset \in Nat, NEW n \in Nat, Has(toBitVector(b), offset, n),
         NEW type, decode(toByteVector(Cut(toBitVector(b), offset, n)), type).kind \in {"uint64", "int64"}
  PROVE  decode(toByteVector(Cut(toBitVector(b), offset, n)), type).v \in Int
<1> DEFINE bits == toBitVector(b)
           bytes == toByteVector(Cut(bits, offset, n))
<1>1. bits \in Seq(Bit) BY BitVector
<1> HIDE DEF bits
<1>2. Cut(bits, offset, n) \in Seq(Bit) BY <1>1, CutOf DEF bits
<1>3. Cut(bits, offset, n) \in Seq(Int)
  <2>1. Bit \subseteq Int BY DEF Bit
  <2> QED BY <1>2, <2>1, SeqMonotonic
<1>4. bytes \in Seq(Int) BY <1>3, ByteVector
<1> HIDE DEF bytes
<1> QED BY <1>4, WholeNumber DEF bytes, bits
=============================================================================
