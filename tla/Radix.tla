------------------------------- MODULE Radix -------------------------------
(***************************************************************************)
(* Positions a * B + b of a mixed-radix numbering: the arithmetic behind   *)
(* every address, word and group number that the kernels put together from *)
(* a rank and an expert.                                                   *)
(***************************************************************************)
EXTENDS Integers, TLAPS

\* Mixed-radix positions are in range.
LEMMA RadixBound ==
    ASSUME NEW A \in Nat, NEW B \in Nat, NEW a \in 0 .. A - 1, NEW b \in 0 .. B - 1
    PROVE  a * B + b \in 0 .. A * B - 1
<1>1. a * B >= 0 /\ a * B \in Int
  OBVIOUS
<1>2. a * B + B = (a + 1) * B
  OBVIOUS
<1>3. (a + 1) * B <= A * B
  OBVIOUS
<1> QED
  BY <1>1, <1>2, <1>3

\* A later position is at least a whole stride later.
LEMMA StrideOrder ==
    ASSUME NEW a \in Int, NEW c \in Int, NEW m \in Nat, a < c
    PROVE  a * m + m <= c * m
<1>1. a * m + m = (a + 1) * m
  OBVIOUS
<1>2. (a + 1) * m <= c * m
  OBVIOUS
<1> QED
  BY <1>1, <1>2

\* Mixed-radix positions are unique.
LEMMA RadixUnique ==
    ASSUME NEW B \in Nat, NEW a \in Int, NEW c \in Int,
           NEW b \in 0 .. B - 1, NEW d \in 0 .. B - 1, a * B + b = c * B + d
    PROVE  a = c /\ b = d
<1>1. CASE a < c
  <2>1. a * B + B <= c * B
    BY <1>1, StrideOrder
  <2>2. a * B \in Int /\ c * B \in Int
    OBVIOUS
  <2> QED
    BY <2>1, <2>2
<1>2. CASE c < a
  <2>1. c * B + B <= a * B
    BY <1>2, StrideOrder
  <2>2. a * B \in Int /\ c * B \in Int
    OBVIOUS
  <2> QED
    BY <2>1, <2>2
<1>3. CASE a = c
  BY <1>3
<1> QED
  BY <1>1, <1>2, <1>3

\* Quotient and remainder of a mixed-radix position.
LEMMA RadixDivision ==
    ASSUME NEW B \in Nat \ {0}, NEW a \in Nat, NEW b \in 0 .. B - 1
    PROVE  (a * B + b) \div B = a /\ (a * B + b) % B = b
<1> DEFINE x == a * B + b
<1>1. x \in Int
  OBVIOUS
<1>2. x = (x \div B) * B + (x % B) /\ x % B \in 0 .. B - 1 /\ x \div B \in Int
  BY <1>1
<1>3. x = a * B + b
  OBVIOUS
<1> HIDE DEF x
<1>4. x \div B = a /\ x % B = b
  BY <1>2, <1>3, RadixUnique
<1> QED
  BY <1>4 DEF x

\* The digits of a number in a mixed-radix numbering.
LEMMA RadixDigits ==
    ASSUME NEW A \in Nat, NEW B \in Nat \ {0}, NEW x \in 0 .. A * B - 1
    PROVE  /\ x \div B \in 0 .. A - 1 /\ x % B \in 0 .. B - 1
           /\ x = (x \div B) * B + (x % B)
<1>1. /\ x = (x \div B) * B + (x % B) /\ x % B \in 0 .. B - 1
      /\ x \div B \in Int
  OBVIOUS
<1> DEFINE q == x \div B
           p == x % B
<1>2. q \in Int /\ p \in 0 .. B - 1 /\ x = q * B + p /\ A * B \in Int
  BY <1>1
<1> HIDE DEF q, p
<1>3. q >= 0
  <2> SUFFICES ASSUME q < 0 PROVE FALSE
    BY <1>2
  <2>1. q * B + B <= 0 * B /\ q * B \in Int
    BY <1>2, StrideOrder
  <2> QED
    BY <1>2, <2>1
<1>4. q < A
  <2> SUFFICES ASSUME A <= q PROVE FALSE
    BY <1>2
  <2>1. A * B <= q * B /\ q * B \in Int
    BY <1>2
  <2> QED
    BY <1>2, <2>1
<1> QED
  BY <1>2, <1>3, <1>4 DEF q, p

-----------------------------------------------------------------------------
(* Positions on a circle: counters that wrap.                              *)

LEMMA Remainder ==
    ASSUME NEW W \in Nat \ {0}, NEW x \in Int
    PROVE  x % W \in 0 .. W - 1 /\ \E q \in Int, b \in 0 .. W - 1 : x = q * W + b /\ b = x % W
<1>1. x = (x \div W) * W + (x % W) /\ x % W \in 0 .. W - 1 /\ x \div W \in Int
  OBVIOUS
<1> QED
  BY <1>1

LEMMA RemainderUnique ==
    ASSUME NEW W \in Nat \ {0}, NEW q \in Int, NEW b \in 0 .. W - 1, NEW x \in Int,
           x = q * W + b
    PROVE  x % W = b
<1>1. PICK p \in Int, c \in 0 .. W - 1 : x = p * W + c /\ c = x % W
  BY Remainder
<1>2. p * W + c = q * W + b
  BY <1>1
<1>3. c = b
  BY <1>2, RadixUnique
<1> QED
  BY <1>1, <1>3

LEMMA RemainderSmall ==
    ASSUME NEW W \in Nat \ {0}, NEW b \in Int
    PROVE  /\ b \in 0 .. W - 1 => b % W = b
           /\ b < 0 /\ b >= -W => b % W = b + W
<1>1. ASSUME b \in 0 .. W - 1 PROVE b % W = b
  <2>1. b = 0 * W + b
    OBVIOUS
  <2> QED
    BY <1>1, <2>1, RemainderUnique
<1>2. ASSUME b < 0, b >= -W PROVE b % W = b + W
  <2>1. b = (-1) * W + (b + W) /\ b + W \in 0 .. W - 1
    BY <1>2
  <2> QED
    BY <2>1, RemainderUnique
<1> QED
  BY <1>1, <1>2

\* Only the remainder of a summand matters.
LEMMA RemainderShift ==
    ASSUME NEW W \in Nat \ {0}, NEW a \in Int, NEW b \in Int
    PROVE  ((a % W) + b) % W = (a + b) % W
<1>1. PICK q \in Int, r \in 0 .. W - 1 : a = q * W + r /\ r = a % W
  BY Remainder
<1>2. PICK p \in Int, c \in 0 .. W - 1 : r + b = p * W + c /\ c = (r + b) % W
  <2>1. r + b \in Int
    OBVIOUS
  <2> QED
    BY <2>1, Remainder
<1>3. a + b = (q + p) * W + c
  <2>1. (q + p) * W = q * W + p * W
    OBVIOUS
  <2>2. q * W \in Int /\ p * W \in Int
    OBVIOUS
  <2> QED
    BY <1>1, <1>2, <2>1, <2>2
<1>4. (a + b) % W = c
  <2>1. PICK x \in Int, n \in Int : x = a + b /\ n = q + p
    OBVIOUS
  <2>2. x = n * W + c
    BY <1>3, <2>1
  <2>3. x % W = c
    BY <2>2, RemainderUnique
  <2> QED
    BY <2>1, <2>3
<1> QED
  BY <1>1, <1>2, <1>4

\* A wrap that is a multiple of the ring has no seam.
LEMMA RemainderNested ==
    ASSUME NEW W \in Nat \ {0}, NEW R \in Nat \ {0}, W % R = 0, NEW a \in Int
    PROVE  (a % W) % R = a % R
<1>1. PICK m \in Int : W = m * R
  <2>1. PICK m \in Int, b \in 0 .. R - 1 : W = m * R + b /\ b = W % R
    BY Remainder, W \in Int
  <2>2. m * R \in Int
    OBVIOUS
  <2> QED
    BY <2>1, <2>2
<1>2. PICK q \in Int, r \in 0 .. W - 1 : a = q * W + r /\ r = a % W
  BY Remainder
<1>3. PICK p \in Int, c \in 0 .. R - 1 : r = p * R + c /\ c = r % R
  BY Remainder, r \in Int
<1>4. a = (q * m + p) * R + c
  <2>1. q * W = (q * m) * R
    BY <1>1
  <2>2. PICK n \in Int : n = q * m
    OBVIOUS
  <2>3. (n + p) * R = n * R + p * R
    OBVIOUS
  <2>4. n * R \in Int /\ p * R \in Int
    OBVIOUS
  <2>5. q * W = n * R
    BY <2>1, <2>2
  <2>6. a = (n * R + p * R) + c
    <3>1. PICK u \in Int, v \in Int : u = n * R /\ v = p * R
      BY <2>4
    <3>2. a = u + r
      BY <1>2, <2>5, <3>1
    <3>3. r = v + c
      BY <1>3, <3>1
    <3>4. a = (u + v) + c
      BY <3>2, <3>3
    <3> QED
      BY <3>1, <3>4
  <2> QED
    BY <2>2, <2>3, <2>6
<1>5. q * m + p \in Int
  OBVIOUS
<1>6. a % R = c
  BY <1>4, <1>5, RemainderUnique
<1> QED
  BY <1>2, <1>3, <1>6

\* Positions less than a turn apart are different.
LEMMA RemainderDistinct ==
    ASSUME NEW R \in Nat \ {0}, NEW a \in Int, NEW b \in Int, a % R = b % R,
           a - b < R, b - a < R
    PROVE  a = b
<1>1. PICK q \in Int, c \in 0 .. R - 1 : a = q * R + c /\ c = a % R
  BY Remainder
<1>2. PICK p \in Int, d \in 0 .. R - 1 : b = p * R + d /\ d = b % R
  BY Remainder
<1>3. q * R \in Int /\ p * R \in Int /\ c = d
  BY <1>1, <1>2
<1>4. CASE q < p
  <2>1. q * R + R <= p * R
    BY <1>4, StrideOrder
  <2> QED
    BY <1>1, <1>2, <1>3, <2>1
<1>5. CASE p < q
  <2>1. p * R + R <= q * R
    BY <1>5, StrideOrder
  <2> QED
    BY <1>1, <1>2, <1>3, <2>1
<1>6. CASE p = q
  BY <1>1, <1>2, <1>3, <1>6
<1> QED
  BY <1>4, <1>5, <1>6

\* The distance from y forward to x on a circle.
LEMMA DistanceExists ==
    ASSUME NEW W \in Nat \ {0}, NEW x \in 0 .. W - 1, NEW y \in 0 .. W - 1
    PROVE  \E p \in 0 .. W - 1 : p = (x - y) % W /\ x = (y + p) % W
<1>1. PICK n \in 0 .. W - 1 : n = (x - y) % W
  BY Remainder, x - y \in Int
<1>2. (n + y) % W = x
  <2>1. PICK a \in Int : a = x - y
    OBVIOUS
  <2>2. ((a % W) + y) % W = (a + y) % W
    BY RemainderShift, y \in Int
  <2>3. a + y = x
    BY <2>1
  <2>4. (n + y) % W = x % W
    BY <1>1, <2>1, <2>2, <2>3
  <2> QED
    BY <2>4, RemainderSmall
<1>3. n + y = y + n
  OBVIOUS
<1> QED
  BY <1>1, <1>2, <1>3

LEMMA DistanceIs ==
    ASSUME NEW W \in Nat \ {0}, NEW x \in 0 .. W - 1, NEW y \in 0 .. W - 1,
           NEW k \in 0 .. W - 1, x = (y + k) % W
    PROVE  (x - y) % W = k
<1>1. PICK a \in Int, b \in Int : a = y + k /\ b = -y
  OBVIOUS
<1>2. ((a % W) + b) % W = (a + b) % W
  BY RemainderShift
<1>3. a + b = k /\ x + b = x - y
  BY <1>1
<1>4. (x - y) % W = k % W
  BY <1>1, <1>2, <1>3
<1> QED
  BY <1>4, RemainderSmall

\* The counter in front moves one further away, the one behind one closer.
LEMMA FrontMoves ==
    ASSUME NEW W \in Nat \ {0}, NEW h \in 0 .. W - 1, NEW d \in 0 .. W - 1,
           NEW p \in Nat, p = (h - d) % W, p + 1 < W
    PROVE  /\ (h + 1) % W \in 0 .. W - 1
           /\ (((h + 1) % W) - d) % W = p + 1
<1>1. h = (d + p) % W
  BY DistanceExists
<1>2. PICK x \in 0 .. W - 1 : x = (h + 1) % W
  BY Remainder, h + 1 \in Int
<1>3. x = (d + (p + 1)) % W
  <2>1. PICK a \in Int, b \in Int : a = d + p /\ b = 1
    OBVIOUS
  <2>2. ((a % W) + b) % W = (a + b) % W
    BY RemainderShift
  <2>3. a + b = d + (p + 1)
    BY <2>1
  <2> QED
    BY <1>1, <1>2, <2>1, <2>2, <2>3
<1>4. p + 1 \in 0 .. W - 1
  BY <1>1
<1>5. (x - d) % W = p + 1
  BY <1>3, <1>4, DistanceIs
<1> QED
  BY <1>1, <1>2, <1>5

LEMMA BackMoves ==
    ASSUME NEW W \in Nat \ {0}, NEW h \in 0 .. W - 1, NEW d \in 0 .. W - 1,
           NEW p \in Nat, p = (h - d) % W, p > 0
    PROVE  /\ (d + 1) % W \in 0 .. W - 1
           /\ (h - ((d + 1) % W)) % W = p - 1
<1>1. h = (d + p) % W /\ p \in 0 .. W - 1
  BY DistanceExists
<1>2. PICK x \in 0 .. W - 1 : x = (d + 1) % W
  BY Remainder, d + 1 \in Int
<1>3. h = (x + (p - 1)) % W
  <2>1. PICK a \in Int, b \in Int : a = d + 1 /\ b = p - 1
    OBVIOUS
  <2>2. ((a % W) + b) % W = (a + b) % W
    BY RemainderShift
  <2>3. a + b = d + p
    BY <2>1
  <2> QED
    BY <1>1, <1>2, <2>1, <2>2, <2>3
<1>4. PICK k \in 0 .. W - 1 : k = p - 1
  BY <1>1
<1>5. h = (x + k) % W
  BY <1>3, <1>4
<1>6. (h - x) % W = k
  BY <1>5, DistanceIs
<1> QED
  BY <1>2, <1>4, <1>6
=============================================================================
