-------------------------- MODULE RangeCoderProofs --------------------------
(***************************************************************************)
(* The range encoder for every size of byte and word: its types, that a    *)
(* carry never runs past the byte that is kept for it, that the first byte *)
(* of a stream is 0, and that its bytes are the number that was coded,     *)
(* through a carry of any length.                                          *)
(***************************************************************************)
EXTENDS RangeCoder, SequenceTheorems, TLAPS, WellFoundedInduction

(* The least number with a property is a number.                            *)
LEMMA LeastNatural ==
    ASSUME NEW T, T \subseteq Nat, T # {}
    PROVE  \E x \in T : \A y \in T : x <= y
  <1> DEFINE R == {ss \in Nat \X Nat : ss[1] < ss[2]}
  <1>1. IsWellFoundedOn(R, Nat)
    BY NatLessThanWellFounded DEF OpToRel
  <1>2. \A x, y \in Nat : x < y => <<x, y>> \in R
    OBVIOUS
  <1> HIDE DEF R
  <1>3. PICK x \in T : \A y \in T : <<y, x>> \notin R
    BY <1>1, WFMin
  <1>4. \A y \in T : x <= y
    <2> SUFFICES ASSUME NEW y \in T PROVE ~ (y < x)
      OBVIOUS
    <2> QED
      BY <1>2, <1>3
  <1> QED
    BY <1>4

(* Induction: a set that holds 0 and, with each natural, the next one.      *)
LEMMA NaturalInduction ==
    ASSUME NEW S, 0 \in S, \A n \in S \cap Nat : n + 1 \in S
    PROVE  Nat \subseteq S
  <1> DEFINE T == Nat \ S
  <1> SUFFICES ASSUME T # {} PROVE FALSE
    OBVIOUS
  <1>1. PICK x \in T : \A y \in T : x <= y
    BY LeastNatural
  <1>2. x - 1 \in Nat /\ x - 1 \notin T
    BY <1>1
  <1> QED
    BY <1>1, <1>2
-----------------------------------------------------------------------------
(* 2 ^ k.  The provers compute powers of numbers, case by case, and reason  *)
(* about this operator without its definition.                              *)
Power(k) == 2 ^ k

(* The powers of 2 of the integers of the code.                             *)
LEMMA PowerTable ==
    /\ Power(0) = 1               /\ Power(1) = 2
    /\ Power(2) = 4               /\ Power(3) = 8
    /\ Power(4) = 16              /\ Power(5) = 32
    /\ Power(6) = 64              /\ Power(7) = 128
    /\ Power(8) = 256             /\ Power(9) = 512
    /\ Power(10) = 1024           /\ Power(11) = 2048
    /\ Power(12) = 4096           /\ Power(13) = 8192
    /\ Power(14) = 16384          /\ Power(15) = 32768
    /\ Power(16) = 65536          /\ Power(17) = 131072
    /\ Power(18) = 262144         /\ Power(19) = 524288
    /\ Power(20) = 1048576        /\ Power(21) = 2097152
    /\ Power(22) = 4194304        /\ Power(23) = 8388608
    /\ Power(24) = 16777216       /\ Power(25) = 33554432
    /\ Power(26) = 67108864       /\ Power(27) = 134217728
    /\ Power(28) = 268435456      /\ Power(29) = 536870912
    /\ Power(30) = 1073741824     /\ Power(31) = 2147483648
    /\ Power(32) = 4294967296
  BY DEF Power

(* Each power of 2 is twice the one before.                                 *)
LEMMA PowersGrow ==
    ASSUME NEW k \in 0 .. 31
    PROVE  Power(k) \in Nat \ {0} /\ Power(k + 1) = 2 * Power(k)
  BY PowerTable

(* Powers of 2 are positive, ...                                            *)
LEMMA PowersNatural ==
    ASSUME NEW k \in 0 .. 32
    PROVE  Power(k) \in Nat \ {0}
  BY PowerTable

(* ... grow, ...                                                            *)
LEMMA PowersOrdered ==
    ASSUME NEW j \in 0 .. 32, NEW k \in 0 .. 32, j < k
    PROVE  Power(j) < Power(k)
  BY PowerTable

(* ... keep the order ...                                                   *)
LEMMA PowersMonotone ==
    ASSUME NEW j \in 0 .. 32, NEW k \in 0 .. 32, j <= k
    PROVE  Power(j) <= Power(k)
  <1>1. CASE j = k
    BY <1>1, PowersNatural
  <1>2. CASE j < k
    BY <1>2, PowersOrdered, PowersNatural
  <1> QED
    BY <1>1, <1>2

(* ... and turn sums into products.                                         *)
LEMMA PowerOfSum ==
    ASSUME NEW j \in 0 .. 32, NEW k \in 0 .. 32, j + k <= 32
    PROVE  Power(j + k) = Power(j) * Power(k)
  <1> DEFINE S == {n \in Nat : j + n <= 32 => Power(j + n) = Power(j) * Power(n)}
  <1>1. 0 \in S
    <2>1. Power(0) = 1
      BY DEF Power
    <2>2. Power(j) \in Nat
      BY PowersNatural
    <2> QED
      BY <2>1, <2>2
  <1>2. \A n \in S \cap Nat : n + 1 \in S
    <2> SUFFICES ASSUME NEW n \in S, j + (n + 1) <= 32
                 PROVE  Power(j + (n + 1)) = Power(j) * Power(n + 1)
      OBVIOUS
    <2>1. Power(n + 1) = 2 * Power(n) /\ Power((j + n) + 1) = 2 * Power(j + n)
      BY PowersGrow, SMTT(60)
    <2>2. Power(j) \in Nat /\ Power(n) \in Nat /\ Power(j + n) = Power(j) * Power(n)
      BY PowersNatural
    <2> DEFINE a == Power(j)
               b == Power(n)
    <2>3. 2 * (a * b) = a * (2 * b)
      <3> HIDE DEF a, b
      <3>1. \A x, y \in Nat : 2 * (x * y) = x * (2 * y)
        OBVIOUS
      <3>2. a \in Nat /\ b \in Nat
        BY <2>2 DEF a, b
      <3> QED
        BY <3>1, <3>2
    <2>4. j + (n + 1) = (j + n) + 1
      OBVIOUS
    <2> QED
      BY <2>1, <2>2, <2>3, <2>4
  <1> HIDE DEF S
  <1>3. k \in S
    BY <1>1, <1>2, NaturalInduction
  <1> QED
    BY <1>3 DEF S
-----------------------------------------------------------------------------
LEMMA MulMono ==
    ASSUME NEW a \in Nat, NEW b \in Nat, NEW c \in Nat, a <= b
    PROVE  a * c <= b * c
  BY SMT

LEMMA Division ==
    ASSUME NEW a \in Nat, NEW b \in Nat \ {0}
    PROVE  /\ a \div b \in Nat
           /\ a % b \in 0 .. b - 1
           /\ a = b * (a \div b) + (a % b)
  BY SMT

LEMMA QuotientUnique ==
    ASSUME NEW a \in Nat, NEW b \in Nat \ {0}, NEW q \in Nat, NEW s \in 0 .. b - 1,
           a = b * q + s
    PROVE  a \div b = q /\ a % b = s
  BY SMT

LEMMA QuotientInside ==
    ASSUME NEW a \in Nat, NEW b \in Nat \ {0}, NEW c \in Nat \ {0}, a < b * c
    PROVE  a \div b \in 0 .. c - 1
  <1> DEFINE q == a \div b
             s == a % b
  <1>1. q \in Nat /\ s \in 0 .. b - 1 /\ a = b * q + s
    BY Division
  <1> HIDE DEF q, s
  <1>2. q \in 0 .. c - 1
    <2>1. SUFFICES ASSUME c <= q PROVE FALSE
      BY <1>1
    <2>2. c * b <= q * b
      BY <1>1, <2>1, MulMono
    <2>3. c * b = b * c /\ q * b = b * q /\ b * q \in Nat /\ b * c \in Nat
      BY <1>1
    <2> QED  BY <1>1, <2>2, <2>3
  <1> QED  BY <1>2 DEF q

LEMMA Distributes ==
    ASSUME NEW a \in Nat, NEW b \in Nat, NEW c \in Nat
    PROVE  (a + b) * c = c * a + c * b
  BY SMT

(* Integers of the code are what they should be.                            *)
LEMMA CoderSizes ==
    /\ Base \in Nat /\ Base >= 2
    /\ kTopValue \in Nat /\ Word \in Nat
    /\ kTopValue = Base * Base * Base
    /\ Word = kTopValue * Base
    /\ Base * Base >= 2 * Base
    /\ kTopValue >= 2 * (Base * Base)
    /\ kTopValue >= 8 /\ Word >= 2 * kTopValue
    /\ Base * Base \in Nat
    /\ Word = (Base - 1) * kTopValue + kTopValue
    /\ (Base - 1) * kTopValue \in Nat
  <1>1. Base \in Nat /\ Base >= 2 /\ kTopValue = Base * Base * Base
    BY BitModelAssumption
  <1>2. Base * Base \in Nat /\ Base * Base >= 2 * Base
    BY <1>1, MulMono
  <1>3. kTopValue \in Nat /\ kTopValue >= 2 * (Base * Base)
    <2>1. 2 * (Base * Base) <= Base * (Base * Base)
      BY <1>1, <1>2, MulMono
    <2> QED  BY <1>1, <1>2, <2>1
  <1>4. Word = kTopValue * Base /\ Word \in Nat
    BY <1>1, <1>3 DEF Word
  <1>5. Word >= 2 * kTopValue
    BY <1>1, <1>3, <1>4, MulMono
  <1>6. Word = (Base - 1) * kTopValue + kTopValue /\ (Base - 1) * kTopValue \in Nat
    BY <1>1, <1>3, <1>4
  <1> QED  BY <1>1, <1>2, <1>3, <1>4, <1>5, <1>6

(* A probability never reaches certainty, and so a bit keeps a part of the  *)
(* interval to either side of the bound.                                    *)
LEMMA MovedStays ==
    ASSUME NEW p \in Probabilities, NEW bit \in {0, 1}
    PROVE  Moved(p, bit) \in Probabilities
  <1> DEFINE M == MoveScale - 1
             d == kBitModelTotal - p
  <1>1. /\ MoveScale \in Nat /\ MoveScale >= 2 /\ kBitModelTotal \in Nat
        /\ p \in Nat /\ M <= p /\ d \in Nat /\ M <= d /\ M \in Nat
    BY BitModelAssumption DEF Probabilities
  <1>2. ASSUME NEW x \in Nat, M <= x
        PROVE  /\ x \div MoveScale \in Nat
               /\ x - (x \div MoveScale) >= M
    <2> DEFINE q == x \div MoveScale
               s == x % MoveScale
    <2>0. MoveScale \in Nat \ {0} /\ x \in Nat
      BY <1>1, <1>2
    <2>1. q \in Nat /\ s \in 0 .. MoveScale - 1 /\ x = MoveScale * q + s
      BY <2>0, Division
    <2> HIDE DEF q, s
    <2>2. CASE q = 0
      BY <2>1, <2>2, <1>1, <1>2
    <2>3. CASE q >= 1
      <3>1. 1 * M <= q * M
        BY <2>1, <2>3, <1>1, MulMono
      <3>2. (M + 1) * q = q * M + q * 1
        BY <2>1, <1>1, Distributes
      <3>3. MoveScale = M + 1 /\ q * 1 = q /\ 1 * M = M
        BY <2>1, <1>1
      <3>4. q * M \in Nat
        BY <2>1, <1>1
      <3> HIDE DEF M
      <3>5. x = q * M + q + s
        BY <2>1, <3>2, <3>3
      <3> QED  BY <2>1, <3>1, <3>3, <3>4, <3>5, <1>1
    <2>4. q >= 1 \/ q = 0
      BY <2>1
    <2>5. q = x \div MoveScale
      BY DEF q
    <2> QED  BY <2>1, <2>2, <2>3, <2>4, <2>5
  <1>3. CASE bit = 0
    <2>1. (d \div MoveScale) \in Nat /\ d - (d \div MoveScale) >= M
      BY <1>1, <1>2
    <2>2. Moved(p, bit) = p + (d \div MoveScale)
      BY <1>3 DEF Moved
    <2> HIDE DEF d
    <2>3. d = kBitModelTotal - p
      BY DEF d
    <2> QED  BY <1>1, <2>1, <2>2, <2>3 DEF Probabilities
  <1>4. CASE bit = 1
    <2>1. (p \div MoveScale) \in Nat /\ p - (p \div MoveScale) >= M
      BY <1>1, <1>2
    <2>2. Moved(p, bit) = p - (p \div MoveScale)
      BY <1>4 DEF Moved
    <2> QED  BY <1>1, <2>1, <2>2 DEF Probabilities
  <1> QED  BY <1>3, <1>4

LEMMA BoundInside ==
    ASSUME NEW ran \in Nat, ran >= kTopValue, NEW p \in Probabilities
    PROVE  /\ NewBound(ran, p) \in Nat
           /\ NewBound(ran, p) >= Base * Base
           /\ ran - NewBound(ran, p) >= Base * Base
  <1> DEFINE M == MoveScale - 1
             u == ran \div kBitModelTotal
             t == kTopValue \div kBitModelTotal
             d == kBitModelTotal - p
  <1>1. /\ kBitModelTotal \in Nat \ {0} /\ p \in Nat /\ M <= p
        /\ d \in Nat /\ M <= d /\ M \in Nat
    BY BitModelAssumption DEF Probabilities
  <1>2. kTopValue \in Nat /\ Base * Base \in Nat
    BY CoderSizes
  <1>3. u \in Nat /\ ran = kBitModelTotal * u + (ran % kBitModelTotal)
        /\ ran % kBitModelTotal \in 0 .. kBitModelTotal - 1
    BY <1>1, Division
  <1>4. t \in Nat /\ kTopValue = kBitModelTotal * t + (kTopValue % kBitModelTotal)
        /\ kTopValue % kBitModelTotal \in 0 .. kBitModelTotal - 1
        /\ ran % kBitModelTotal \in 0 .. kBitModelTotal - 1
    BY <1>1, <1>2, Division
  <1>5. t <= u
    <2>1. SUFFICES ASSUME u + 1 <= t PROVE FALSE
      BY <1>3, <1>4
    <2>2. (u + 1) * kBitModelTotal <= t * kBitModelTotal
      BY <1>1, <1>3, <1>4, <2>1, MulMono
    <2>3. (u + 1) * kBitModelTotal = kBitModelTotal * u + kBitModelTotal
      BY <1>1, <1>3
    <2>4. t * kBitModelTotal = kBitModelTotal * t
      BY <1>1, <1>4
    <2> HIDE DEF u, t
    <2>5. kBitModelTotal * u \in Nat /\ kBitModelTotal * t \in Nat
      BY <1>1, <1>3, <1>4
    <2> QED  BY <1>1, <1>2, <1>3, <1>4, <2>2, <2>3, <2>4, <2>5
  <1>6. t * M >= Base * Base
    BY BitModelAssumption
  <1>7. t * M <= u * M /\ u * M <= u * p /\ u * M <= u * d
    <2>1. t * M <= u * M
      BY <1>1, <1>3, <1>4, <1>5, MulMono
    <2>2. M * u <= p * u /\ M * u <= d * u
      BY <1>1, <1>3, MulMono
    <2> QED  BY <2>1, <2>2, <1>1, <1>3
  <1>8. kBitModelTotal * u = u * p + u * d
    <2>1. (p + d) * u = u * p + u * d
      BY <1>1, <1>3, Distributes
    <2>2. p + d = kBitModelTotal
      BY <1>1
    <2> QED  BY <2>1, <2>2
  <1>9. NewBound(ran, p) = u * p
    BY DEF NewBound
  <1>10. u * p \in Nat /\ u * d \in Nat /\ u * M \in Nat /\ t * M \in Nat
    BY <1>1, <1>3, <1>4
  <1> HIDE DEF u, t, d
  <1> QED  BY <1>2, <1>3, <1>6, <1>7, <1>8, <1>9, <1>10
-----------------------------------------------------------------------------
(* What is kept of an addition when the highest byte is taken off.          *)
LEMMA Parts ==
    ASSUME NEW l \in Nat, l < 2 * Word
    PROVE  /\ l % kTopValue \in 0 .. kTopValue - 1
           /\ (l % kTopValue) * Base \in 0 .. Word - 1
           /\ (l % Word) \div kTopValue \in 0 .. Base - 1
           /\ l \div Word \in {0, 1}
           /\ l < Word => l \div Word = 0 /\ l % Word = l
           /\ l >= Word => l \div Word = 1 /\ l % Word = l - Word
  <1>1. /\ Base \in Nat \ {0} /\ kTopValue \in Nat \ {0} /\ Word \in Nat \ {0}
        /\ Word = kTopValue * Base
    BY CoderSizes
  <1>2. l % kTopValue \in 0 .. kTopValue - 1
    BY <1>1, Division
  <1>3. (l % kTopValue) * Base \in 0 .. Word - 1
    <2> DEFINE s == l % kTopValue
    <2>1. s \in Nat /\ s + 1 <= kTopValue
      BY <1>1, <1>2
    <2> HIDE DEF s
    <2>2. (s + 1) * Base <= kTopValue * Base
      BY <1>1, <2>1, MulMono
    <2>3. (s + 1) * Base = s * Base + Base /\ s * Base \in Nat
      BY <1>1, <2>1
    <2>4. s * Base \in 0 .. Word - 1
      BY <1>1, <2>2, <2>3
    <2> QED  BY <2>4 DEF s
  <1>4. CASE l < Word
    <2>1. l = Word * 0 + l /\ l \in 0 .. Word - 1
      BY <1>1, <1>4
    <2>2. l \div Word = 0 /\ l % Word = l
      BY <1>1, <2>1, QuotientUnique
    <2>3. l \div kTopValue \in 0 .. Base - 1
      BY <2>1, <1>1, QuotientInside
    <2> QED  BY <1>1, <1>2, <1>3, <1>4, <2>2, <2>3
  <1>5. CASE l >= Word
    <2>1. l = Word * 1 + (l - Word) /\ l - Word \in 0 .. Word - 1
      BY <1>1, <1>5
    <2>2. l \div Word = 1 /\ l % Word = l - Word
      BY <1>1, <2>1, QuotientUnique
    <2>3. (l - Word) \div kTopValue \in 0 .. Base - 1
      BY <2>1, <1>1, QuotientInside
    <2> QED  BY <1>1, <1>2, <1>3, <1>5, <2>2, <2>3
  <1> QED  BY <1>1, <1>4, <1>5

(* The bytes given away are bytes.                                          *)
LEMMA WithheldTyped ==
    ASSUME cache \in 0 .. Base - 1, cacheSize \in Nat \ {0}, NEW c \in {0, 1}
    PROVE  /\ Withheld(c) \in Seq(0 .. Base - 1)
           /\ Withheld(c) # << >>
           /\ Withheld(c)[1] = (cache + c) % Base
  <1> DEFINE B == 0 .. Base - 1
             rest == [i \in 1 .. cacheSize - 1 |-> ((Base - 1) + c) % Base]
  <1>1. Base \in Nat \ {0}
    BY CoderSizes
  <1>2. (cache + c) % Base \in B /\ ((Base - 1) + c) % Base \in B
    <2>1. cache + c \in Nat /\ (Base - 1) + c \in Nat
      BY <1>1
    <2> QED  BY <1>1, <2>1, Division
  <1>3. rest \in Seq(B)
    <2>1. cacheSize - 1 \in Nat
      OBVIOUS
    <2>2. rest \in [1 .. cacheSize - 1 -> B]
      BY <1>2
    <2> HIDE DEF rest, B
    <2> QED  BY <2>1, <2>2
  <1>4. <<(cache + c) % Base>> \in Seq(B)
    BY <1>2
  <1>5. Withheld(c) = <<(cache + c) % Base>> \o rest
    BY DEF Withheld
  <1> HIDE DEF rest, B
  <1>6. Withheld(c) \in Seq(B) /\ Withheld(c) # << >>
        /\ Withheld(c)[1] = (cache + c) % Base
    BY <1>3, <1>4, <1>5
  <1> QED  BY <1>6 DEF B

(* There is room for a carry: the interval ends before the byte kept for it *)
(* would overflow, and before the first byte would be anything but 0.       *)
Room ==
    /\ flushed = 0 => low + range <= 2 * Word
                      /\ (cache = Base - 1 \/ out = << >> => low + range <= Word)
    /\ flushed > 0 => low < Word
    /\ out = << >> => cache = 0

IInv == RangeTypeOK /\ Room /\ FirstByteIsZero

LEMMA ShiftKeeps ==
    ASSUME cache \in 0 .. Base - 1, cacheSize \in Nat \ {0},
           out \in Seq(0 .. Base - 1),
           out = << >> => cache = 0, FirstByteIsZero,
           NEW l \in Nat, l < 2 * Word, out = << >> => l < Word,
           ShiftLow(l)
    PROVE  /\ cache' \in 0 .. Base - 1 /\ cacheSize' \in Nat \ {0}
           /\ out' \in Seq(0 .. Base - 1)
           /\ low' \in 0 .. Word - 1
           /\ out' = << >> => cache' = 0
           /\ FirstByteIsZero'
           /\ Settled(l) => out' # << >> /\ cache' = (l % Word) \div kTopValue
           /\ ~Settled(l) => out' = out /\ cache' = cache
  <1> DEFINE B == 0 .. Base - 1
             w == Withheld(l \div Word)
  <1>1. low' \in 0 .. Word - 1
    BY Parts DEF ShiftLow
  <1>2. CASE Settled(l)
    <2>1. /\ out' = out \o w /\ cache' = (l % Word) \div kTopValue
          /\ cacheSize' = 1
      BY <1>2 DEF ShiftLow
    <2>2. w \in Seq(B) /\ w # << >> /\ w[1] = (cache + (l \div Word)) % Base
      BY Parts, WithheldTyped
    <2>3. cache' \in B
      BY <2>1, Parts
    <2>4. out = << >> => w[1] = 0
      <3>1. ASSUME out = << >> PROVE cache + (l \div Word) = 0
        BY <3>1, Parts
      <3>2. 0 % Base = 0
        BY CoderSizes
      <3> QED  BY <2>2, <3>1, <3>2
    <2> HIDE DEF w
    <2>5. out' \in Seq(B) /\ out' # << >>
      BY <2>1, <2>2
    <2>6. out'[1] = 0
      BY <2>1, <2>2, <2>4 DEF FirstByteIsZero
    <2>7. FirstByteIsZero'
      BY <2>6 DEF FirstByteIsZero
    <2> QED  BY <1>1, <1>2, <2>1, <2>3, <2>5, <2>7
  <1>3. CASE ~Settled(l)
    <2>1. out' = out /\ cache' = cache /\ cacheSize' = cacheSize + 1
      BY <1>3 DEF ShiftLow
    <2> QED  BY <1>1, <1>3, <2>1 DEF FirstByteIsZero
  <1> QED  BY <1>2, <1>3

(* A shift leaves room for a carry of the interval [l, l + r).              *)
LEMMA ShiftLeavesRoom ==
    ASSUME cache \in 0 .. Base - 1, cacheSize \in Nat \ {0},
           out \in Seq(0 .. Base - 1),
           out = << >> => cache = 0, FirstByteIsZero,
           NEW l \in Nat, NEW r \in Nat, r >= 1, r < kTopValue,
           l + r <= 2 * Word,
           cache = Base - 1 \/ out = << >> => l + r <= Word,
           ShiftLow(l)
    PROVE  /\ low' + r * Base <= 2 * Word
           /\ cache' = Base - 1 \/ out' = << >> => low' + r * Base <= Word
  <1> DEFINE s == l % kTopValue
             top == (Base - 1) * kTopValue
  <1>0. Word \in Nat
    BY CoderSizes
  <1>1. l < 2 * Word /\ (out = << >> => l < Word)
    BY <1>0
  <1>2. /\ Base \in Nat /\ Base >= 2 /\ kTopValue \in Nat /\ kTopValue >= 8
        /\ Word = kTopValue * Base /\ Word = top + kTopValue /\ top \in Nat
    BY CoderSizes
  <1>3. /\ Settled(l) => out' # << >> /\ cache' = (l % Word) \div kTopValue
        /\ ~Settled(l) => out' = out /\ cache' = cache
    BY <1>1, ShiftKeeps
  <1>4. s \in 0 .. kTopValue - 1 /\ low' = s * Base
    BY <1>1, Parts DEF ShiftLow
  <1>5. /\ l < Word => l \div Word = 0 /\ l % Word = l
        /\ l >= Word => l \div Word = 1 /\ l % Word = l - Word
    BY <1>1, Parts
  <1>6. low' + r * Base = (s + r) * Base
    BY <1>2, <1>4
  <1>7. low' + r * Base <= 2 * Word
    <2>1. s + r \in Nat /\ 2 * kTopValue \in Nat /\ s + r <= 2 * kTopValue
      BY <1>2, <1>4
    <2>2. (s + r) * Base <= (2 * kTopValue) * Base
      BY <2>1, <1>2, MulMono
    <2>3. (2 * kTopValue) * Base = 2 * Word
      BY <1>2
    <2> QED  BY <1>6, <2>2, <2>3
  <1>8. s + r <= kTopValue => low' + r * Base <= Word
    <2>1. s + r \in Nat
      BY <1>4
    <2> QED  BY <2>1, <1>2, <1>6, MulMono
  <1>9. ASSUME NEW m \in Nat, m < Word, m >= top
        PROVE  /\ m = top + (m % kTopValue)
               /\ (Word + m) % kTopValue = m % kTopValue
    <2> DEFINE z == m - top
    <2>1. z \in 0 .. kTopValue - 1 /\ kTopValue \in Nat \ {0}
      BY <1>2, <1>9
    <2>2. m = kTopValue * (Base - 1) + z /\ Base - 1 \in Nat
      BY <1>2, <1>9
    <2>3. Word + m = kTopValue * (Base + (Base - 1)) + z /\ Base + (Base - 1) \in Nat
      <3>1. kTopValue * (Base + (Base - 1)) = kTopValue * Base + kTopValue * (Base - 1)
        BY <1>2
      <3> QED  BY <3>1, <2>2, <1>2
    <2>4. m % kTopValue = z
      BY <2>1, <2>2, QuotientUnique
    <2>5. Word + m \in Nat
      BY <1>0
    <2> HIDE DEF z
    <2>6. (Word + m) % kTopValue = z
      BY <2>1, <2>3, <2>5, QuotientUnique, SMTT(30)
    <2>7. m = top + z
      BY <1>2 DEF z
    <2> QED  BY <2>4, <2>6, <2>7
  <1>10. CASE ~Settled(l)
    <2>1. l < Word /\ l >= top
      <3>1. ~(l % Word < top) /\ l \div Word = 0
        BY <1>10 DEF Settled
      <3> QED  BY <3>1, <1>0, <1>2, <1>5
    <2>2. l = top + s
      BY <2>1, <1>9
    <2> HIDE DEF s, top
    <2> QED  BY <2>2, <1>2, <1>3, <1>4, <1>7, <1>8, <1>10
  <1>11. CASE Settled(l)
    <2>1. SUFFICES ASSUME cache' = Base - 1 PROVE s + r <= kTopValue
      BY <1>3, <1>7, <1>8, <1>11
    <2> DEFINE m == l % Word
    <2>2. m \in Nat /\ m < Word
      BY <1>0, <1>1, <1>2, <1>5
    <2>3. m \div kTopValue = Base - 1
      BY <1>3, <1>11, <2>1
    <2>4. m >= top
      <3>1. m = kTopValue * (m \div kTopValue) + (m % kTopValue)
            /\ m % kTopValue \in 0 .. kTopValue - 1
        <4>1. m \in Nat /\ kTopValue \in Nat \ {0}
          BY <2>2, <1>2
        <4> HIDE DEF m
        <4> QED  BY <4>1, Division
      <3> HIDE DEF m
      <3>2. kTopValue * (Base - 1) = top
        BY <1>2
      <3>3. m = top + (m % kTopValue)
        BY <3>1, <3>2, <2>3
      <3> QED  BY <3>1, <3>3, <1>2
    <2>5. l \div Word # 0
      <3>1. ~(m < top)
        BY <2>2, <2>4, <1>2
      <3> QED  BY <3>1, <1>11 DEF Settled
    <2>6. l >= Word /\ l = Word + m
      BY <2>5, <1>0, <1>5
    <2>7. m = top + (m % kTopValue) /\ (Word + m) % kTopValue = m % kTopValue
      BY <2>2, <2>4, <1>9
    <2>8. s = m % kTopValue
      BY <2>6, <2>7
    <2> HIDE DEF s, m, top
    <2>9. /\ s \in Nat /\ top \in Nat /\ kTopValue \in Nat
          /\ Word = top + kTopValue
      BY <1>2, <1>4
    <2>10. l = Word + (top + s)
      BY <2>6, <2>7, <2>8
    <2> QED  BY <2>9, <2>10, <1>0
  <1> QED  BY <1>10, <1>11
-----------------------------------------------------------------------------
LEMMA InitInvariant == RangeInit => IInv
  <1> SUFFICES ASSUME RangeInit PROVE IInv
    OBVIOUS
  <1>1. /\ Base \in Nat /\ Base >= 2 /\ kTopValue \in Nat /\ kTopValue >= 8
        /\ Word \in Nat /\ Word >= 2 * kTopValue
    BY CoderSizes
  <1>2. kProbInitValue \in Probabilities
    BY BitModelAssumption DEF kProbInitValue, Probabilities
  <1>3. probs \in [Contexts -> Probabilities]
    BY <1>2 DEF RangeInit
  <1>4. out \in Seq(0 .. Base - 1) /\ out = << >>
    BY DEF RangeInit
  <1>5. RangeTypeOK
    BY <1>1, <1>3, <1>4, RangeCoderAssumption DEF RangeInit, RangeTypeOK
  <1>6. Room /\ FirstByteIsZero
    BY <1>1, <1>4 DEF RangeInit, Room, FirstByteIsZero
  <1> QED  BY <1>5, <1>6 DEF IInv

(* Coding a part [low + added, low + added + r) of the interval.            *)
LEMMA NormalizeKeeps ==
    ASSUME IInv, flushed = 0, UNCHANGED flushed,
           probs' \in [Contexts -> Probabilities],
           NEW r \in Nat, NEW added \in Nat,
           r >= Base * Base, added + r <= range,
           Normalize(r, added)
    PROVE  IInv'
  <1> DEFINE l == low + added
  <1>1. /\ Base \in Nat /\ Base >= 2 /\ kTopValue \in Nat /\ kTopValue >= 8
        /\ Word \in Nat /\ Word >= 2 * kTopValue /\ Base * Base \in Nat
        /\ Base * Base >= 2 * Base
    BY CoderSizes
  <1>2. /\ low \in 0 .. 2 * Word - 1 /\ range \in 1 .. Word
        /\ cache \in 0 .. Base - 1 /\ cacheSize \in Nat \ {0}
        /\ out \in Seq(0 .. Base - 1)
        /\ exact \in Nat /\ shifts \in 0 .. MaxShifts + 1
    BY DEF IInv, RangeTypeOK
  <1>3. /\ low + range <= 2 * Word
        /\ cache = Base - 1 \/ out = << >> => low + range <= Word
        /\ out = << >> => cache = 0
        /\ FirstByteIsZero
    BY DEF IInv, Room
  <1>4. /\ l \in Nat /\ l + r <= 2 * Word
        /\ cache = Base - 1 \/ out = << >> => l + r <= Word
        /\ r >= 1 /\ l < 2 * Word
        /\ out = << >> => l < Word
    BY <1>1, <1>2, <1>3
  <1>5. flushed' \in 0 .. FlushShifts /\ flushed' = 0
    BY RangeCoderAssumption
  <1>6. CASE r < kTopValue
    <2>1. range' = r * Base /\ ShiftLow(l) /\ NoteShift(added)
      BY <1>6 DEF Normalize
    <2>2. range' \in 1 .. Word /\ range' >= kTopValue
      <3>1. (Base * Base) * Base <= r * Base /\ r * Base <= kTopValue * Base
        BY <1>1, <1>6, MulMono
      <3>2. (Base * Base) * Base = kTopValue /\ kTopValue * Base = Word
        BY CoderSizes
      <3>3. r * Base \in Nat
        BY <1>1
      <3> QED  BY <2>1, <3>1, <3>2, <3>3, <1>1
    <2> HIDE DEF l
    <2>3. /\ cache' \in 0 .. Base - 1 /\ cacheSize' \in Nat \ {0}
          /\ out' \in Seq(0 .. Base - 1)
          /\ low' \in 0 .. Word - 1
          /\ out' = << >> => cache' = 0
          /\ FirstByteIsZero'
      BY <1>2, <1>3, <1>4, <2>1, ShiftKeeps
    <2>4. /\ low' + r * Base <= 2 * Word
          /\ cache' = Base - 1 \/ out' = << >> => low' + r * Base <= Word
      BY <1>2, <1>3, <1>4, <1>6, <2>1, ShiftLeavesRoom
    <2>5. exact' \in Nat /\ shifts' \in 0 .. MaxShifts + 1
      BY <1>1, <1>2, <2>1, RangeCoderAssumption DEF NoteShift
    <2>6. low' \in 0 .. 2 * Word - 1
      BY <2>3, <1>1
    <2>7. RangeTypeOK'
      BY <2>2, <2>3, <2>5, <2>6, <1>5 DEF RangeTypeOK
    <2>8. Room'
      BY <2>1, <2>3, <2>4, <1>5 DEF Room
    <2> QED  BY <2>3, <2>7, <2>8 DEF IInv
  <1>7. CASE r >= kTopValue
    <2>1. /\ range' = r /\ low' = l
          /\ exact' = IF shifts <= MaxShifts THEN exact + added ELSE exact
          /\ UNCHANGED <<cache, cacheSize, out, shifts>>
      BY <1>1, <1>7 DEF Normalize
    <2>2. range' \in 1 .. Word /\ low' \in 0 .. 2 * Word - 1 /\ exact' \in Nat
      BY <2>1, <1>1, <1>2, <1>4
    <2>3. RangeTypeOK'
      BY <2>1, <2>2, <1>2, <1>5, <1>7 DEF RangeTypeOK
    <2> HIDE DEF l
    <2>4. Room' /\ FirstByteIsZero'
      BY <2>1, <1>3, <1>4, <1>5 DEF Room, FirstByteIsZero
    <2> QED  BY <2>3, <2>4 DEF IInv
  <1> QED  BY <1>1, <1>6, <1>7

LEMMA StepInvariant == IInv /\ [RangeNext]_rcVars => IInv'
  <1> SUFFICES ASSUME IInv, [RangeNext]_rcVars PROVE IInv'
    OBVIOUS
  <1>1. /\ Base \in Nat /\ Base >= 2 /\ kTopValue \in Nat /\ kTopValue >= 8
        /\ Word \in Nat /\ Word >= 2 * kTopValue /\ Base * Base \in Nat
        /\ kTopValue >= 2 * (Base * Base)
    BY CoderSizes
  <1>2. /\ low \in 0 .. 2 * Word - 1 /\ range \in 1 .. Word
        /\ flushed = 0 => range >= kTopValue
        /\ cache \in 0 .. Base - 1 /\ cacheSize \in Nat \ {0}
        /\ probs \in [Contexts -> Probabilities]
        /\ out \in Seq(0 .. Base - 1)
        /\ flushed \in 0 .. FlushShifts
        /\ exact \in Nat /\ shifts \in 0 .. MaxShifts + 1
    BY DEF IInv, RangeTypeOK
  <1>3. ASSUME NEW c \in Contexts, NEW bit \in {0, 1}, EncodeBit(c, bit)
        PROVE  IInv'
    <2> DEFINE bound == NewBound(range, probs[c])
    <2>1. probs[c] \in Probabilities /\ range \in Nat /\ range >= kTopValue
      BY <1>1, <1>2, <1>3 DEF EncodeBit
    <2>2. /\ bound \in Nat /\ bound >= Base * Base
          /\ range - bound >= Base * Base
      BY <2>1, BoundInside
    <2>3. probs' = [probs EXCEPT ![c] = Moved(probs[c], bit)]
      BY <1>3 DEF EncodeBit
    <2>4. Moved(probs[c], bit) \in Probabilities
      BY <2>1, MovedStays
    <2>5. probs' \in [Contexts -> Probabilities]
      BY <1>2, <2>3, <2>4
    <2>6. flushed = 0 /\ UNCHANGED flushed
      BY <1>3 DEF EncodeBit
    <2>7. CASE bit = 0
      <3>1. Normalize(bound, 0)
        BY <1>3, <2>7 DEF EncodeBit
      <3>2. 0 + bound <= range /\ 0 \in Nat
        BY <2>1, <2>2, <1>1
      <3> HIDE DEF bound
      <3> QED  BY <2>2, <2>5, <2>6, <3>1, <3>2, NormalizeKeeps
    <2>8. CASE bit = 1
      <3> DEFINE rest == range - bound
      <3>1. Normalize(rest, bound)
        BY <1>3, <2>8 DEF EncodeBit
      <3> HIDE DEF bound
      <3>2. bound + rest <= range /\ rest \in Nat /\ rest >= Base * Base
        BY <2>1, <2>2, <1>1
      <3> HIDE DEF rest
      <3> QED  BY <2>2, <2>5, <2>6, <3>1, <3>2, NormalizeKeeps
    <2> QED  BY <2>7, <2>8
  <1>4. ASSUME NEW bit \in {0, 1}, EncodeDirectBit(bit)
        PROVE  IInv'
    <2> DEFINE half == range \div 2
               added == half * bit
    <2>1. /\ flushed = 0 /\ UNCHANGED flushed /\ probs' = probs
          /\ Normalize(half, added)
      BY <1>4 DEF EncodeDirectBit
    <2>2. /\ half \in Nat /\ half >= Base * Base /\ half + half <= range
      BY <1>1, <1>2, <2>1
    <2>3. added \in Nat /\ (added = 0 \/ added = half)
      BY <2>2
    <2> HIDE DEF half, added
    <2>4. added + half <= range
      BY <2>2, <2>3, <1>2
    <2> QED  BY <2>1, <2>2, <2>3, <2>4, <1>2, NormalizeKeeps
  <1>5. ASSUME FlushData PROVE IInv'
    <2>1. /\ flushed' = flushed + 1 /\ flushed < FlushShifts
          /\ ShiftLow(low) /\ NoteShift(0) /\ UNCHANGED <<range, probs>>
      BY <1>5 DEF FlushData
    <2>2. /\ low \in Nat /\ low < 2 * Word
          /\ out = << >> => low < Word
          /\ out = << >> => cache = 0
          /\ FirstByteIsZero
      BY <1>1, <1>2 DEF IInv, Room
    <2>3. /\ cache' \in 0 .. Base - 1 /\ cacheSize' \in Nat \ {0}
          /\ out' \in Seq(0 .. Base - 1)
          /\ low' \in 0 .. Word - 1
          /\ out' = << >> => cache' = 0
          /\ FirstByteIsZero'
      BY <1>2, <2>1, <2>2, ShiftKeeps
    <2>4. exact' \in Nat /\ shifts' \in 0 .. MaxShifts + 1
      BY <1>1, <1>2, <2>1, RangeCoderAssumption DEF NoteShift
    <2>5. flushed' \in 0 .. FlushShifts /\ flushed' # 0 /\ flushed' > 0
      BY <1>2, <2>1, RangeCoderAssumption
    <2>6. low' \in 0 .. 2 * Word - 1 /\ low' < Word
      BY <1>1, <2>3
    <2>7. RangeTypeOK'
      BY <1>2, <2>1, <2>3, <2>4, <2>5, <2>6 DEF RangeTypeOK
    <2>8. Room'
      BY <2>3, <2>5, <2>6 DEF Room
    <2> QED  BY <2>3, <2>7, <2>8 DEF IInv
  <1>6. CASE UNCHANGED rcVars
    BY <1>6 DEF IInv, RangeTypeOK, Room, FirstByteIsZero, rcVars, history
  <1> QED  BY <1>3, <1>4, <1>5, <1>6 DEF RangeNext

LEMMA Invariant == RangeSpec => []IInv
  BY InitInvariant, StepInvariant, PTL DEF RangeSpec

(* Every integer of the encoder keeps its width: low below 2^33, cache a    *)
(* byte, every probability away from 0 and from certainty                   *)
(* (RangeEnc_EncodeBit, RangeEnc_ShiftLow).                                 *)
THEOREM TypeCorrect == RangeSpec => []RangeTypeOK
  <1>1. IInv => RangeTypeOK
    BY DEF IInv
  <1> QED  BY <1>1, Invariant, PTL

(* The addition of the carry to the byte kept for it never wraps, so that a *)
(* carry is never lost (RangeEnc_ShiftLow).                                 *)
THEOREM CarryFits == RangeSpec => []CarryHasRoom
  <1>1. IInv => CarryHasRoom
    <2> SUFFICES ASSUME IInv PROVE CarryHasRoom
      OBVIOUS
    <2>1. /\ low \in 0 .. 2 * Word - 1 /\ range \in 1 .. Word
          /\ cache \in 0 .. Base - 1 /\ flushed \in 0 .. FlushShifts
      BY DEF IInv, RangeTypeOK
    <2>2. Word \in Nat /\ Base \in Nat
      BY CoderSizes
    <2>3. cache = Base - 1 => low < Word
      <3>1. flushed = 0 \/ flushed > 0
        BY <2>1, RangeCoderAssumption
      <3> QED  BY <2>1, <2>2, <3>1 DEF IInv, Room
    <2>4. /\ low \div Word \in {0, 1}
          /\ low < Word => low \div Word = 0
      BY <2>1, <2>2, Parts
    <2>5. cache + (low \div Word) < Base
      BY <2>1, <2>2, <2>3, <2>4
    <2> QED  BY <2>5 DEF CarryHasRoom
  <1> QED  BY <1>1, Invariant, PTL

(* A stream begins with a byte 0, which is the only one that                *)
(* LzmaDec_DecodeToDic accepts.                                             *)
THEOREM FirstByte == RangeSpec => []FirstByteIsZero
  <1>1. IInv => FirstByteIsZero
    BY DEF IInv
  <1> QED  BY <1>1, Invariant, PTL
-----------------------------------------------------------------------------
(* From here on, the bytes put out as one number.                           *)
ByteValues == 0 .. Base - 1

(* A byte behind a number.                                                  *)
Followed(number, byte) == number * Base + byte

LEMMA BehindIsNatural ==
    ASSUME NEW number \in Nat, NEW byte \in Nat
    PROVE  Followed(number, byte) \in Nat
  <1>1. Base \in Nat
    BY CoderSizes
  <1>2. number * Base \in Nat
    BY <1>1
  <1> QED
    BY <1>2 DEF Followed

(* The numbers that the beginnings of a sequence denote.                    *)
Beginnings(s, n, g) ==
    /\ g \in [0 .. n -> Nat]
    /\ g[0] = 0
    /\ \A i \in 1 .. n : g[i] = Followed(g[i - 1], s[i])

LEMMA BeginningsExist ==
    ASSUME NEW s \in Seq(Nat)
    PROVE  \E g : Beginnings(s, Len(s), g)
  <1> DEFINE S == {n \in Nat : n <= Len(s) => \E g : Beginnings(s, n, g)}
  <1>1. 0 \in S
    <2>1. Beginnings(s, 0, [i \in 0 .. 0 |-> 0])
      BY DEF Beginnings
    <2> QED
      BY <2>1
  <1>2. ASSUME NEW n \in S, n + 1 <= Len(s)
        PROVE  \E g : Beginnings(s, n + 1, g)
    <2>1. n \in Nat /\ Len(s) \in Nat
      OBVIOUS
    <2>2. PICK g : Beginnings(s, n, g)
      BY <1>2, <2>1
    <2>3. n + 1 \in 1 .. Len(s)
      BY <1>2, <2>1
    <2>4. s[n + 1] \in Nat /\ g[n] \in Nat
      BY <2>1, <2>2, <2>3, ElementOfSeq DEF Beginnings
    <2>5. Followed(g[n], s[n + 1]) \in Nat
      BY <2>4, BehindIsNatural
    <2> DEFINE h == [i \in 0 .. n + 1 |-> IF i <= n THEN g[i] ELSE Followed(g[n], s[n + 1])]
    <2>6. h \in [0 .. n + 1 -> Nat] /\ h[0] = 0
      BY <2>1, <2>2, <2>5 DEF Beginnings
    <2>7. ASSUME NEW i \in 1 .. n + 1
          PROVE  h[i] = Followed(h[i - 1], s[i])
      <3>1. CASE i <= n
        <4>1. i \in 1 .. n /\ h[i] = g[i] /\ h[i - 1] = g[i - 1]
          BY <2>1, <3>1
        <4> QED
          BY <2>2, <4>1 DEF Beginnings
      <3>2. CASE i = n + 1
        BY <2>1, <3>2
      <3> QED
        BY <2>1, <3>1, <3>2
    <2> HIDE DEF h
    <2>8. Beginnings(s, n + 1, h)
      BY <2>6, <2>7 DEF Beginnings
    <2> QED
      BY <2>8
  <1>3. Len(s) \in Nat /\ \A n \in S \cap Nat : n + 1 \in S
    BY <1>2
  <1> HIDE DEF S
  <1>4. Len(s) \in S
    BY <1>1, <1>3, NaturalInduction
  <1> QED
    BY <1>4 DEF S

(* They are the ones that Number computes.                                  *)
LEMMA NumberIsTheLast ==
    ASSUME NEW s \in Seq(Nat), NEW g, Beginnings(s, Len(s), g)
    PROVE  Number(s) = g[Len(s)] /\ Number(s) \in Nat
  <1> DEFINE n == Len(s)
             Computed(f) == f = [i \in 0 .. n |-> IF i = 0 THEN 0 ELSE f[i - 1] * Base + s[i]]
             first == CHOOSE f : Computed(f)
  <1>1. n \in Nat
    OBVIOUS
  <1>2. Number(s) = first[n]
    BY DEF Number
  <1>3. Computed(g)
    <2>1. g = [i \in 0 .. n |-> g[i]]
      BY DEF Beginnings
    <2>2. \A i \in 0 .. n : g[i] = IF i = 0 THEN 0 ELSE g[i - 1] * Base + s[i]
      BY <1>1 DEF Beginnings, Followed
    <2> QED
      BY <2>1, <2>2
  <1> HIDE DEF Computed
  <1>4. Computed(first)
    BY <1>3
  <1> HIDE DEF first
  <1> DEFINE S == {i \in Nat : i <= n => first[i] = g[i]}
  <1>5. 0 \in S
    BY <1>1, <1>4 DEF Computed, Beginnings
  <1>6. \A i \in S \cap Nat : i + 1 \in S
    <2> SUFFICES ASSUME NEW i \in S, i + 1 <= n PROVE first[i + 1] = g[i + 1]
      OBVIOUS
    <2>1. i \in Nat /\ first[i] = g[i] /\ i + 1 \in 0 .. n /\ i + 1 \in 1 .. n /\ (i + 1) - 1 = i
      BY <1>1
    <2>2. first[i + 1] = first[i] * Base + s[i + 1]
      BY <1>4, <2>1 DEF Computed
    <2>3. g[i + 1] = g[i] * Base + s[i + 1]
      BY <2>1 DEF Beginnings, Followed
    <2> QED
      BY <2>1, <2>2, <2>3
  <1> HIDE DEF S
  <1>7. n \in S
    BY <1>1, <1>5, <1>6, NaturalInduction
  <1>8. first[n] = g[n] /\ g[n] \in Nat
    BY <1>1, <1>7 DEF S, Beginnings
  <1> QED
    BY <1>2, <1>8

(* A byte more is a digit more.                                             *)
LEMMA NumberOfAppend ==
    ASSUME NEW s \in Seq(Nat), NEW x \in Nat
    PROVE  /\ Number(s) \in Nat /\ Append(s, x) \in Seq(Nat)
           /\ Number(Append(s, x)) = Followed(Number(s), x)
  <1> DEFINE n == Len(s)
             t == Append(s, x)
  <1>1. PICK g : Beginnings(s, n, g)
    BY BeginningsExist
  <1>2. n \in Nat /\ g[n] \in Nat /\ Followed(g[n], x) \in Nat
    <2>1. n \in Nat
      OBVIOUS
    <2>2. g[n] \in Nat
      BY <1>1, <2>1 DEF Beginnings
    <2> QED
      BY <2>1, <2>2, BehindIsNatural
  <1>3. t \in Seq(Nat) /\ Len(t) = n + 1 /\ t[n + 1] = x /\ \A i \in 1 .. n : t[i] = s[i]
    BY AppendProperties
  <1> HIDE DEF n, t
  <1> DEFINE h == [i \in 0 .. n + 1 |-> IF i <= n THEN g[i] ELSE Followed(g[n], x)]
  <1>4. h \in [0 .. n + 1 -> Nat] /\ h[0] = 0 /\ h[n + 1] = Followed(g[n], x)
    BY <1>1, <1>2 DEF Beginnings
  <1>5. ASSUME NEW i \in 1 .. n + 1
        PROVE  h[i] = Followed(h[i - 1], t[i])
    <2>1. CASE i <= n
      <3>1. i \in 1 .. n /\ h[i] = g[i] /\ h[i - 1] = g[i - 1] /\ t[i] = s[i]
        BY <1>2, <1>3, <2>1, SMTT(30)
      <3> QED
        BY <1>1, <3>1 DEF Beginnings
    <2>2. CASE i = n + 1
      BY <1>2, <1>3, <2>2
    <2> QED
      BY <1>2, <2>1, <2>2
  <1> HIDE DEF h
  <1>6. Beginnings(t, Len(t), h)
    BY <1>3, <1>4, <1>5 DEF Beginnings
  <1>7. Number(t) = h[n + 1]
    BY <1>3, <1>6, NumberIsTheLast
  <1>8. Number(s) = g[n]
    BY <1>1, NumberIsTheLast DEF n
  <1> QED
    BY <1>2, <1>3, <1>4, <1>7, <1>8 DEF t
-----------------------------------------------------------------------------
(* Bytes that are out, one that can still change, and a run of others.      *)
Run(k, d) == [i \in 1 .. k |-> d]
Held(o, b, k, d) == o \o (<<b>> \o Run(k, d))

LEMMA MoreValues ==
    ASSUME NEW S, NEW T, S \subseteq T, NEW s \in Seq(S)
    PROVE  s \in Seq(T)
  <1>1. Len(s) \in Nat /\ s \in [1 .. Len(s) -> S]
    BY LenProperties
  <1>2. s \in [1 .. Len(s) -> T]
    BY <1>1
  <1> DEFINE n == Len(s)
  <1>3. n \in Nat /\ s \in [1 .. n -> T]
    BY <1>1, <1>2
  <1> HIDE DEF n
  <1> QED
    BY <1>3

LEMMA OneMore ==
    ASSUME NEW a \in Nat, NEW c \in Nat
    PROVE  (a + 1) * c = a * c + c /\ a * c \in Nat
  BY SMT

LEMMA HeldGrows ==
    ASSUME NEW o \in Seq(ByteValues), NEW b \in ByteValues, NEW d \in ByteValues, NEW k \in Nat
    PROVE  /\ Held(o, b, k, d) \in Seq(ByteValues)
           /\ Held(o, b, 0, d) = Append(o, b)
           /\ Held(o, b, k + 1, d) = Append(Held(o, b, k, d), d)
  <1>1. ASSUME NEW n \in Nat
        PROVE  Run(n, d) \in Seq(ByteValues) /\ Len(Run(n, d)) = n
    <2>1. Run(n, d) \in Seq(ByteValues)
      BY IsASeq DEF Run
    <2> QED
      BY <2>1 DEF Run
  <1>2. <<b>> \in Seq(ByteValues) /\ <<d>> \in Seq(ByteValues)
    OBVIOUS
  <1>3. Run(0, d) = << >>
    BY <1>1, EmptySeq
  <1>4. Run(k + 1, d) = Append(Run(k, d), d)
    <2> DEFINE r == Run(k, d)
               t == Run(k + 1, d)
    <2>1. r \in Seq(ByteValues) /\ Len(r) = k /\ t \in Seq(ByteValues) /\ Len(t) = k + 1
      BY <1>1
    <2>2. \A i \in 1 .. k + 1 : t[i] = d
      BY DEF Run
    <2>3. \A i \in 1 .. k : r[i] = d
      BY DEF Run
    <2> HIDE DEF r, t
    <2>4. /\ Append(r, d) \in Seq(ByteValues) /\ Len(Append(r, d)) = k + 1 /\ Append(r, d)[k + 1] = d
          /\ \A i \in 1 .. k : Append(r, d)[i] = r[i]
      BY <2>1, AppendProperties
    <2>5. \A i \in 1 .. k + 1 : t[i] = Append(r, d)[i]
      BY <2>2, <2>3, <2>4
    <2>6. t = Append(r, d)
      BY <2>1, <2>4, <2>5, SeqEqual
    <2> QED
      BY <2>6 DEF r, t
  <1>5. Held(o, b, 0, d) = Append(o, b)
    <2>1. <<b>> \o << >> = <<b>>
      BY <1>2, ConcatEmptySeq
    <2> QED
      BY <1>3, <2>1, AppendIsConcat DEF Held
  <1> DEFINE r == Run(k, d)
             one == <<b>>
             last == <<d>>
  <1>6. r \in Seq(ByteValues) /\ one \in Seq(ByteValues) /\ last \in Seq(ByteValues)
    BY <1>1, <1>2
  <1>7. Run(k + 1, d) = r \o last
    BY <1>4, <1>6, AppendIsConcat
  <1>8. Held(o, b, k, d) = o \o (one \o r) /\ Held(o, b, k + 1, d) = o \o (one \o (r \o last))
    BY <1>7 DEF Held
  <1>9. \A s \in Seq(ByteValues) : s \o last = Append(s, d)
    BY AppendIsConcat
  <1> HIDE DEF r, one, last
  <1>10. /\ o \o (one \o r) \in Seq(ByteValues)
         /\ o \o (one \o (r \o last)) = (o \o (one \o r)) \o last
    <2>1. /\ o \o (one \o r) \in Seq(ByteValues)
          /\ (o \o (one \o r)) \o last = o \o ((one \o r) \o last)
      <3>1. ASSUME NEW p \in Seq(ByteValues), NEW t \in Seq(ByteValues)
            PROVE  o \o p \in Seq(ByteValues) /\ (o \o p) \o t = o \o (p \o t)
        BY ConcatProperties, ConcatAssociative
      <3>2. one \o r \in Seq(ByteValues)
        BY <1>6, ConcatProperties
      <3> QED
        BY <1>6, <3>1, <3>2
    <2>2. one \o (r \o last) = (one \o r) \o last
      BY <1>6, ConcatAssociative, SMTT(60)
    <2> QED
      BY <2>1, <2>2
  <1> QED
    BY <1>5, <1>8, <1>9, <1>10

LEMMA NumberOfHeld ==
    ASSUME NEW o \in Seq(ByteValues), NEW b \in ByteValues, NEW d \in ByteValues, NEW k \in Nat
    PROVE  /\ Held(o, b, k, d) \in Seq(ByteValues)
           /\ Number(o) \in Nat /\ Number(Held(o, b, k, d)) \in Nat
           /\ Number(Held(o, b, 0, d)) = Number(o) * Base + b
           /\ Number(Held(o, b, k + 1, d)) = Number(Held(o, b, k, d)) * Base + d
  <1> DEFINE h == Held(o, b, k, d)
  <1>1. h \in Seq(ByteValues) /\ Held(o, b, 0, d) = Append(o, b)
        /\ Held(o, b, k + 1, d) = Append(h, d)
    <2>1. Held(o, b, k, d) \in Seq(ByteValues)
      BY HeldGrows
    <2>2. Held(o, b, 0, d) = Append(o, b)
      BY HeldGrows
    <2>3. Held(o, b, k + 1, d) = Append(Held(o, b, k, d), d)
      BY HeldGrows, ZenonT(60)
    <2> QED
      BY <2>1, <2>2, <2>3
  <1>2. b \in Nat /\ d \in Nat /\ ByteValues \subseteq Nat
    BY DEF ByteValues
  <1> HIDE DEF h
  <1>3. o \in Seq(Nat) /\ h \in Seq(Nat)
    BY <1>1, <1>2, MoreValues
  <1>4. Number(o) \in Nat /\ Number(Append(o, b)) = Number(o) * Base + b
    BY <1>2, <1>3, NumberOfAppend DEF Followed
  <1>5. Number(h) \in Nat /\ Number(Append(h, d)) = Number(h) * Base + d
    BY <1>2, <1>3, NumberOfAppend DEF Followed
  <1> QED
    BY <1>1, <1>4, <1>5 DEF h

(* A carry into the byte that can change, through the run behind it, adds 1.*)
LEMMA CarryAddsOne ==
    ASSUME NEW o \in Seq(ByteValues), NEW b \in ByteValues, b + 1 \in ByteValues, NEW k \in Nat
    PROVE  Number(Held(o, b + 1, k, 0)) = Number(Held(o, b, k, Base - 1)) + 1
  <1>1. Base \in Nat /\ Base >= 2 /\ Base - 1 \in ByteValues /\ 0 \in ByteValues /\ b \in Nat
    BY CoderSizes DEF ByteValues
  <1> DEFINE Before(n) == Number(Held(o, b, n, Base - 1))
             After(n) == Number(Held(o, b + 1, n, 0))
             S == {n \in Nat : After(n) = Before(n) + 1}
  <1>2. ASSUME NEW n \in Nat
        PROVE  Before(n) \in Nat /\ Before(n + 1) = Before(n) * Base + (Base - 1)
    <2> DEFINE d == Base - 1
    <2>1. d \in ByteValues
      BY <1>1
    <2> HIDE DEF d
    <2>2. Number(Held(o, b, n, d)) \in Nat
      BY <2>1, NumberOfHeld
    <2>3. Number(Held(o, b, n + 1, d)) = Number(Held(o, b, n, d)) * Base + d
      BY <2>1, NumberOfHeld
    <2> QED
      BY <2>2, <2>3 DEF d
  <1>3. \A n \in Nat : After(n + 1) = After(n) * Base + 0
    BY <1>1, NumberOfHeld
  <1>4. Before(0) = Number(o) * Base + b /\ After(0) = Number(o) * Base + (b + 1) /\ Number(o) \in Nat
    BY <1>1, NumberOfHeld
  <1>5. Number(o) * Base \in Nat
    BY <1>1, <1>4, OneMore
  <1> HIDE DEF Before, After
  <1>6. 0 \in S
    BY <1>1, <1>4, <1>5
  <1>7. ASSUME NEW n \in S
        PROVE  n + 1 \in S
    <2>1. n \in Nat /\ After(n) = Before(n) + 1 /\ Before(n) \in Nat
      BY <1>2
    <2>2. (Before(n) + 1) * Base = Before(n) * Base + Base /\ Before(n) * Base \in Nat
      BY <1>1, <2>1, OneMore
    <2>3. After(n + 1) = Before(n + 1) + 1
      BY <1>1, <1>2, <1>3, <2>1, <2>2
    <2> QED
      BY <2>1, <2>3
  <1> HIDE DEF S
  <1>8. k \in S
    BY <1>6, <1>7, NaturalInduction
  <1> QED
    BY <1>8 DEF S, Before, After

(* So what a shift puts out denotes what was there and the carry.           *)
LEMMA WithheldIsHeld ==
    ASSUME RangeTypeOK, NEW c \in {0, 1}, cache + c < Base
    PROVE  /\ out \o Withheld(c) \in Seq(ByteValues)
           /\ out \o Withheld(0) = Held(out, cache, cacheSize - 1, Base - 1)
           /\ Number(out \o Withheld(0)) \in Nat
           /\ Number(out \o Withheld(c)) = Number(out \o Withheld(0)) + c
  <1> DEFINE k == cacheSize - 1
  <1>1. /\ Base \in Nat \ {0} /\ cache \in 0 .. Base - 1 /\ k \in Nat
        /\ cache \in ByteValues /\ Base - 1 \in ByteValues /\ 0 \in ByteValues
        /\ out \in Seq(ByteValues)
    BY CoderSizes DEF RangeTypeOK, ByteValues
  <1>2. (cache + 0) % Base = cache /\ ((Base - 1) + 0) % Base = Base - 1
    BY <1>1
  <1>3. out \o Withheld(0) = Held(out, cache, k, Base - 1)
    BY <1>2 DEF Withheld, Held, Run
  <1> HIDE DEF k
  <1>4. /\ Held(out, cache, k, Base - 1) \in Seq(ByteValues)
        /\ Number(Held(out, cache, k, Base - 1)) \in Nat
    BY <1>1, NumberOfHeld
  <1>5. CASE c = 0
    <2>1. Withheld(c) = Withheld(0)
      BY <1>5
    <2>2. Number(out \o Withheld(0)) \in Nat
      BY <1>3, <1>4
    <2> DEFINE v == Number(out \o Withheld(0))
    <2>3. v + c = v
      <3> HIDE DEF v
      <3>1. v \in Nat
        BY <2>2 DEF v
      <3> QED
        BY <1>5, <3>1
    <2> QED
      BY <1>3, <1>4, <2>1, <2>2, <2>3 DEF k
  <1>6. CASE c = 1
    <2>1. (cache + 1) % Base = cache + 1 /\ ((Base - 1) + 1) % Base = 0 /\ cache + 1 \in ByteValues
      <3>1. /\ cache + 1 \in 0 .. Base - 1 /\ cache + 1 = Base * 0 + (cache + 1)
            /\ 0 \in 0 .. Base - 1 /\ (Base - 1) + 1 = Base * 1 + 0 /\ (Base - 1) + 1 \in Nat
        BY <1>1, <1>6
      <3>2. (cache + 1) % Base = cache + 1
        <4> DEFINE a == cache + 1
        <4>1. a \in Nat /\ a \in 0 .. Base - 1 /\ a = Base * 0 + a
          BY <3>1
        <4> HIDE DEF a
        <4>2. a % Base = a
          BY <1>1, <4>1, QuotientUnique
        <4> QED
          BY <4>2 DEF a
      <3>3. ((Base - 1) + 1) % Base = 0
        BY <1>1, <3>1, QuotientUnique
      <3> QED
        BY <3>1, <3>2, <3>3 DEF ByteValues
    <2>2. out \o Withheld(1) = Held(out, cache + 1, k, 0)
      BY <2>1 DEF Withheld, Held, Run, k
    <2>3. Held(out, cache + 1, k, 0) \in Seq(ByteValues)
      BY <1>1, <2>1, NumberOfHeld
    <2>4. Number(Held(out, cache + 1, k, 0)) = Number(Held(out, cache, k, Base - 1)) + 1
      BY <1>1, <2>1, CarryAddsOne
    <2> QED
      BY <1>3, <1>4, <1>6, <2>2, <2>3, <2>4 DEF k
  <1> QED
    BY <1>5, <1>6
-----------------------------------------------------------------------------
(* A shift: l is what low has become by an addition.                        *)
LEMMA ShiftArithmetic ==
    ASSUME NEW v \in Nat, NEW c \in Nat, NEW t \in Nat, NEW m \in Nat, NEW b \in Nat, NEW top \in Nat
    PROVE  ((v + c) * b + t) * (top * b) + m * b
             = (v * (top * b) + ((top * b) * c + (top * t + m))) * b
  BY SMT

(* The parts of l: the carry, the byte that moves up, and what stays.       *)
LEMMA PartsOfLow ==
    ASSUME NEW l \in Nat, l < 2 * Word
    PROVE  /\ l \div Word \in {0, 1} /\ (l % Word) \div kTopValue \in ByteValues
           /\ l % kTopValue \in Nat
           /\ l = Word * (l \div Word) + (kTopValue * ((l % Word) \div kTopValue) + (l % kTopValue))
           /\ ~Settled(l) => l \div Word = 0 /\ (l % Word) \div kTopValue = Base - 1
  <1> DEFINE c == l \div Word
             w == l % Word
             t == w \div kTopValue
             m == w % kTopValue
  <1>1. /\ Base \in Nat \ {0} /\ kTopValue \in Nat \ {0} /\ Word \in Nat \ {0}
        /\ Word = kTopValue * Base /\ Word = (Base - 1) * kTopValue + kTopValue
        /\ (Base - 1) * kTopValue \in Nat /\ Base - 1 \in Nat
    BY CoderSizes
  <1>2. c \in {0, 1} /\ t \in 0 .. Base - 1 /\ l % kTopValue \in Nat
    BY Parts
  <1>3. w \in 0 .. Word - 1 /\ l = Word * c + w
    BY <1>1, Division
  <1>4. m \in 0 .. kTopValue - 1 /\ w = kTopValue * t + m
    <2>1. w \in Nat
      BY <1>1, <1>3
    <2> HIDE DEF w
    <2> QED
      BY <1>1, <2>1, Division
  <1> HIDE DEF c, w, t, m
  <1>5. l % kTopValue = m
    <2>1. /\ Base * c + t \in Nat
          /\ kTopValue * (Base * c + t) = (kTopValue * Base) * c + kTopValue * t
      <3>1. CASE c = 0
        BY <1>1, <1>2, <3>1
      <3>2. CASE c = 1
        <4>1. kTopValue * (Base + t) = kTopValue * Base + kTopValue * t
          BY <1>1, <1>2
        <4>2. Base * 1 = Base /\ (kTopValue * Base) * 1 = kTopValue * Base
          BY <1>1
        <4> QED
          BY <1>1, <1>2, <3>2, <4>1, <4>2
      <3> QED
        BY <1>2, <3>1, <3>2
    <2>2. l = kTopValue * (Base * c + t) + m
      BY <1>1, <1>2, <1>3, <1>4, <2>1
    <2> DEFINE q == Base * c + t
    <2>3. q \in Nat /\ l = kTopValue * q + m
      BY <2>1, <2>2
    <2> HIDE DEF q
    <2> QED
      BY <1>1, <1>4, <2>3, QuotientUnique
  <1>6. ~Settled(l) => c = 0 /\ t = Base - 1
    <2> SUFFICES ASSUME ~Settled(l) PROVE c = 0 /\ t = Base - 1
      OBVIOUS
    <2>1. c = 0 /\ ~ (w < (Base - 1) * kTopValue)
      BY DEF Settled, c, w
    <2> DEFINE rest == w - (Base - 1) * kTopValue
    <2>2. rest \in 0 .. kTopValue - 1 /\ w = (Base - 1) * kTopValue + rest
      BY <1>1, <1>3, <2>1
    <2>3. (Base - 1) * kTopValue = kTopValue * (Base - 1)
      BY <1>1
    <2> DEFINE q == Base - 1
    <2>4. q \in Nat /\ w = kTopValue * q + rest /\ w \in Nat
      BY <1>1, <1>3, <2>2, <2>3
    <2> HIDE DEF rest, q
    <2>5. w \div kTopValue = q
      BY <1>1, <2>2, <2>4, QuotientUnique
    <2> QED
      BY <2>1, <2>5 DEF t, q
  <1>7. l = Word * c + (kTopValue * t + m)
    BY <1>3, <1>4
  <1>8. l = Word * c + (kTopValue * t + (l % kTopValue))
    BY <1>5, <1>7
  <1>9. t \in ByteValues
    BY <1>2 DEF ByteValues
  <1> QED
    BY <1>2, <1>6, <1>8, <1>9 DEF c, w, t

LEMMA ShiftIsExact ==
    ASSUME RangeTypeOK, NEW l \in Nat, l < 2 * Word, cache + (l \div Word) < Base, ShiftLow(l)
    PROVE  Number(out' \o Withheld(0)') * Word + low' = (Number(out \o Withheld(0)) * Word + l) * Base
  <1> DEFINE c == l \div Word
             t == (l % Word) \div kTopValue
             m == l % kTopValue
             v == Number(out \o Withheld(0))
             k == cacheSize - 1
  <1>1. /\ Base \in Nat \ {0} /\ kTopValue \in Nat /\ Word = kTopValue * Base
        /\ Base - 1 \in ByteValues /\ 0 \in ByteValues
        /\ k \in Nat /\ cacheSize \in Nat
        /\ cache \in 0 .. Base - 1 /\ cache \in ByteValues /\ out \in Seq(ByteValues)
    BY CoderSizes DEF RangeTypeOK, ByteValues
  <1>2. /\ c \in {0, 1} /\ t \in ByteValues /\ m \in Nat
        /\ l = Word * c + (kTopValue * t + m)
        /\ ~Settled(l) => c = 0 /\ t = Base - 1
    <2>1. c \in {0, 1} /\ t \in ByteValues /\ m \in Nat
      BY PartsOfLow
    <2>2. l = Word * c + (kTopValue * t + m)
      BY PartsOfLow
    <2>3. ~Settled(l) => c = 0 /\ t = Base - 1
      BY PartsOfLow
    <2> QED
      BY <2>1, <2>2, <2>3
  <1>3. /\ out \o Withheld(c) \in Seq(ByteValues) /\ v \in Nat
        /\ out \o Withheld(0) = Held(out, cache, k, Base - 1)
        /\ Number(out \o Withheld(c)) = v + c
    BY <1>2, WithheldIsHeld
  <1>4. low' = m * Base
    BY DEF ShiftLow
  <1>5. out' \o Withheld(0)' = Append(out \o Withheld(c), t)
    <2>1. ASSUME NEW x \in ByteValues
          PROVE  (x + 0) % Base = x
      <3>1. x \in Nat /\ x + 0 = x /\ x = Base * 0 + x /\ x \in 0 .. Base - 1
        BY <1>1 DEF ByteValues
      <3> QED
        BY <1>1, <3>1, QuotientUnique
    <2>2. CASE Settled(l)
      <3>1. out' = out \o Withheld(c) /\ cache' = t /\ cacheSize' = 1
        BY <2>2 DEF ShiftLow
      <3>2. (t + 0) % Base = t /\ ((Base - 1) + 0) % Base = Base - 1
        BY <1>1, <1>2, <2>1
      <3>3. cacheSize' - 1 = 0
        BY <3>1
      <3> HIDE DEF t
      <3>4. out' \o Withheld(0)' = Held(out', t, 0, Base - 1)
        BY <3>1, <3>2, <3>3 DEF Withheld, Held, Run
      <3>5. out' \in Seq(ByteValues)
        BY <1>3, <3>1
      <3>6. Held(out', t, 0, Base - 1) = Append(out', t)
        BY <1>1, <1>2, <3>5, HeldGrows, ZenonT(60)
      <3> QED
        BY <3>1, <3>4, <3>6
    <2>3. CASE ~Settled(l)
      <3>1. out' = out /\ cache' = cache /\ cacheSize' = cacheSize + 1 /\ c = 0 /\ t = Base - 1
        BY <1>2, <2>3 DEF ShiftLow
      <3>2. (cache + 0) % Base = cache /\ ((Base - 1) + 0) % Base = Base - 1
        BY <1>1, <2>1
      <3>3. cacheSize' - 1 = k + 1
        BY <1>1, <3>1
      <3> HIDE DEF t, k
      <3>4. out' \o Withheld(0)' = Held(out, cache, k + 1, Base - 1)
        BY <3>1, <3>2, <3>3 DEF Withheld, Held, Run
      <3>5. Held(out, cache, k + 1, Base - 1) = Append(Held(out, cache, k, Base - 1), Base - 1)
        <4> DEFINE d == Base - 1
        <4>1. d \in ByteValues
          BY <1>1
        <4> HIDE DEF d
        <4>2. k \in Nat /\ cache \in ByteValues /\ out \in Seq(ByteValues)
          BY <1>1
        <4>3. Held(out, cache, k + 1, d) = Append(Held(out, cache, k, d), d)
          BY <4>1, <4>2, HeldGrows, ZenonT(60)
        <4> QED
          BY <4>3 DEF d
      <3> QED
        BY <1>3, <3>1, <3>4, <3>5
    <2> QED
      BY <2>2, <2>3
  <1> DEFINE w == out \o Withheld(c)
  <1>6. w \in Seq(Nat) /\ t \in Nat
    <2>1. ByteValues \subseteq Nat /\ w \in Seq(ByteValues)
      BY <1>1, <1>3 DEF ByteValues
    <2> HIDE DEF w, t
    <2> QED
      BY <1>2, <2>1, MoreValues
  <1>7. Number(w) = v + c
    BY <1>3
  <1> HIDE DEF w, t, c, m, v
  <1>8. Number(Append(w, t)) = (v + c) * Base + t
    BY <1>6, <1>7, NumberOfAppend DEF Followed
  <1>9. Number(out' \o Withheld(0)') = (v + c) * Base + t
    BY <1>5, <1>8 DEF w
  <1>10. c \in Nat
    BY <1>2
  <1>11. ((v + c) * Base + t) * (kTopValue * Base) + m * Base
           = (v * (kTopValue * Base) + ((kTopValue * Base) * c + (kTopValue * t + m))) * Base
    BY <1>1, <1>2, <1>3, <1>6, <1>10, ShiftArithmetic
  <1>12. ((v + c) * Base + t) * Word + m * Base = (v * Word + l) * Base
    BY <1>1, <1>2, <1>11
  <1> QED
    BY <1>4, <1>9, <1>12 DEF v
-----------------------------------------------------------------------------
LEMMA NothingIsZero ==
    ASSUME RangeInit
    PROVE  SumIsExact
  <1>1. << >> \in Seq(ByteValues) /\ << >> \in Seq(Nat) /\ Len(<< >>) = 0
    BY EmptySeq
  <1>2. Number(<< >>) = 0
    <2> DEFINE g == [i \in 0 .. 0 |-> 0]
    <2>1. Beginnings(<< >>, 0, g) /\ g[0] = 0
      BY DEF Beginnings
    <2> HIDE DEF g
    <2> QED
      BY <1>1, <2>1, NumberIsTheLast
  <1>3. Base \in Nat \ {0} /\ Base >= 2 /\ 0 \in ByteValues /\ Base - 1 \in ByteValues /\ Word \in Nat
    BY CoderSizes DEF ByteValues
  <1>4. RangeTypeOK
    BY InitInvariant DEF IInv
  <1>5. cache = 0 /\ cacheSize - 1 = 0 /\ out = << >> /\ exact = 0 /\ low = 0
    BY DEF RangeInit
  <1>6. out \o Withheld(0) = Held(out, cache, cacheSize - 1, Base - 1)
    BY <1>3, <1>4, <1>5, WithheldIsHeld
  <1> DEFINE d == Base - 1
  <1>7. d \in ByteValues
    BY <1>3
  <1> HIDE DEF d
  <1>8. Number(Held(<< >>, 0, 0, d)) = Number(<< >>) * Base + 0
    <2> DEFINE none == << >>
               first == 0
    <2>1. none \in Seq(ByteValues) /\ first \in ByteValues /\ 0 \in Nat
      BY <1>1, <1>3
    <2> HIDE DEF none, first
    <2>2. Number(Held(none, first, 0, d)) = Number(none) * Base + first
      BY <1>7, <2>1, NumberOfHeld
    <2> QED
      BY <2>2 DEF none, first
  <1>9. Number(out \o Withheld(0)) = 0
    BY <1>2, <1>3, <1>5, <1>6, <1>8 DEF d
  <1> QED
    BY <1>3, <1>5, <1>9 DEF SumIsExact

(* Every step adds a part of the interval or, at the end, nothing.          *)
LEMMA StepAdds ==
    ASSUME IInv, RangeNext
    PROVE  \E added \in Nat :
            /\ low + added < 2 * Word
            /\ cache = Base - 1 => low + added < Word
            /\ \/ ShiftLow(low + added) /\ NoteShift(added)
               \/ /\ low' = low + added
                  /\ exact' = IF shifts <= MaxShifts THEN exact + added ELSE exact
                  /\ UNCHANGED <<cache, cacheSize, out, shifts>>
  <1>1. /\ Base \in Nat /\ Base >= 2 /\ kTopValue \in Nat /\ Word \in Nat /\ Base * Base \in Nat
        /\ Base * Base >= 2 * Base /\ kTopValue >= 2 * (Base * Base)
    BY CoderSizes
  <1>2. /\ low \in Nat /\ low < 2 * Word /\ range \in Nat /\ (flushed = 0 => range >= kTopValue)
        /\ flushed = 0 => low + range <= 2 * Word /\ (cache = Base - 1 => low + range <= Word)
        /\ flushed > 0 => low < Word
        /\ flushed \in Nat /\ probs \in [Contexts -> Probabilities]
    BY <1>1, RangeCoderAssumption DEF IInv, RangeTypeOK, Room
  <1>3. ASSUME flushed = 0, NEW r \in Nat, NEW added \in Nat, r >= 1, added + r <= range, Normalize(r, added)
        PROVE  \E a \in Nat :
                /\ low + a < 2 * Word
                /\ cache = Base - 1 => low + a < Word
                /\ \/ ShiftLow(low + a) /\ NoteShift(a)
                   \/ /\ low' = low + a
                      /\ exact' = IF shifts <= MaxShifts THEN exact + a ELSE exact
                      /\ UNCHANGED <<cache, cacheSize, out, shifts>>
    <2>1. low + added < 2 * Word /\ (cache = Base - 1 => low + added < Word)
      BY <1>1, <1>2, <1>3
    <2>2. \/ ShiftLow(low + added) /\ NoteShift(added)
          \/ /\ low' = low + added
             /\ exact' = IF shifts <= MaxShifts THEN exact + added ELSE exact
             /\ UNCHANGED <<cache, cacheSize, out, shifts>>
      BY <1>3 DEF Normalize
    <2> QED
      BY <2>1, <2>2
  <1>4. CASE \E c \in Contexts, bit \in {0, 1} : EncodeBit(c, bit)
    <2>1. PICK c \in Contexts, bit \in {0, 1} : EncodeBit(c, bit)
      BY <1>4
    <2> DEFINE bound == NewBound(range, probs[c])
               rest == range - bound
    <2>2. /\ flushed = 0
          /\ IF bit = 0 THEN Normalize(bound, 0) ELSE Normalize(rest, bound)
      BY <2>1 DEF EncodeBit
    <2>3. probs[c] \in Probabilities
      BY <1>2
    <2>4. bound \in Nat /\ bound >= Base * Base /\ range - bound >= Base * Base
      BY <1>2, <2>2, <2>3, BoundInside
    <2> HIDE DEF bound
    <2>5. rest \in Nat /\ rest >= 1 /\ bound >= 1 /\ bound + rest <= range /\ 0 + bound <= range /\ 0 \in Nat
      BY <1>1, <1>2, <2>4
    <2> HIDE DEF rest
    <2> QED
      BY <1>3, <2>2, <2>4, <2>5
  <1>5. CASE \E bit \in {0, 1} : EncodeDirectBit(bit)
    <2>1. PICK bit \in {0, 1} : EncodeDirectBit(bit)
      BY <1>5
    <2> DEFINE half == range \div 2
               added == half * bit
    <2>2. flushed = 0 /\ Normalize(half, added)
      BY <2>1 DEF EncodeDirectBit
    <2>3. half \in Nat /\ half >= 1 /\ half + half <= range
      BY <1>1, <1>2, <2>2
    <2>4. added \in Nat /\ (added = 0 \/ added = half)
      BY <2>3
    <2> HIDE DEF half, added
    <2>5. added + half <= range
      BY <1>2, <2>3, <2>4
    <2> QED
      BY <1>3, <2>2, <2>3, <2>4, <2>5
  <1>6. CASE FlushData
    <2>1. ShiftLow(low) /\ NoteShift(0)
      BY <1>6 DEF FlushData
    <2>2. 0 \in Nat /\ low + 0 = low /\ low + 0 < 2 * Word
      BY <1>2
    <2>3. cache = Base - 1 => low + 0 < Word
      <3>1. flushed = 0 \/ flushed > 0
        BY <1>2
      <3>2. flushed = 0 => range >= 1
        BY <1>1, <1>2
      <3> QED
        BY <1>1, <1>2, <3>1, <3>2
    <2> QED
      BY <2>1, <2>2, <2>3
  <1> QED
    BY <1>4, <1>5, <1>6 DEF RangeNext

LEMMA SumStaysExact == IInv /\ SumIsExact /\ [RangeNext]_rcVars => SumIsExact'
  <1> SUFFICES ASSUME IInv, SumIsExact, [RangeNext]_rcVars, shifts' <= MaxShifts
               PROVE  exact' = Number(out' \o Withheld(0)') * Word + low'
    BY DEF SumIsExact
  <1> DEFINE v == Number(out \o Withheld(0))
  <1>1. RangeTypeOK /\ shifts \in Nat /\ MaxShifts \in Nat /\ exact \in Nat
    BY RangeCoderAssumption DEF IInv, RangeTypeOK
  <1>2. Base \in Nat /\ Word \in Nat /\ cache \in 0 .. Base - 1 /\ low \in Nat
    BY CoderSizes DEF IInv, RangeTypeOK
  <1>3. v \in Nat /\ v * Word \in Nat
    <2>1. cache + 0 < Base
      BY <1>2
    <2>2. v \in Nat
      BY <1>1, <2>1, WithheldIsHeld
    <2> HIDE DEF v
    <2> QED
      BY <1>2, <2>2, OneMore
  <1>4. CASE UNCHANGED rcVars
    <2>1. /\ shifts' = shifts /\ exact' = exact /\ low' = low
          /\ out' \o Withheld(0)' = out \o Withheld(0)
      BY <1>4 DEF rcVars, history, Withheld
    <2> QED
      BY <2>1 DEF SumIsExact
  <1>5. CASE RangeNext
    <2>1. PICK added \in Nat :
            /\ low + added < 2 * Word
            /\ cache = Base - 1 => low + added < Word
            /\ \/ ShiftLow(low + added) /\ NoteShift(added)
               \/ /\ low' = low + added
                  /\ exact' = IF shifts <= MaxShifts THEN exact + added ELSE exact
                  /\ UNCHANGED <<cache, cacheSize, out, shifts>>
      BY <1>5, StepAdds
    <2>2. CASE ShiftLow(low + added) /\ NoteShift(added)
      <3> DEFINE l == low + added
      <3>1. shifts < MaxShifts /\ exact' = (exact + added) * Base
        BY <1>1, <2>2 DEF NoteShift
      <3>2. exact = v * Word + low
        BY <1>1, <3>1 DEF SumIsExact
      <3>3. l \in Nat /\ l < 2 * Word
        BY <1>2, <2>1
      <3>4. cache + (l \div Word) < Base
        <4>1. cache = Base - 1 => l < Word
          BY <2>1
        <4> HIDE DEF l
        <4>2. l \div Word \in {0, 1} /\ (l < Word => l \div Word = 0)
          BY <3>3, Parts
        <4> QED
          BY <1>2, <4>1, <4>2
      <3>5. ShiftLow(l)
        BY <2>2
      <3>6. exact + added = v * Word + l
        <4> HIDE DEF v
        <4> QED
          BY <1>2, <1>3, <3>2
      <3> HIDE DEF l
      <3>7. Number(out' \o Withheld(0)') * Word + low' = (v * Word + l) * Base
        BY <1>1, <3>3, <3>4, <3>5, ShiftIsExact
      <3> QED
        BY <3>1, <3>6, <3>7
    <2>3. CASE /\ low' = low + added
               /\ exact' = IF shifts <= MaxShifts THEN exact + added ELSE exact
               /\ UNCHANGED <<cache, cacheSize, out, shifts>>
      <3>1. out' \o Withheld(0)' = out \o Withheld(0)
        BY <2>3 DEF Withheld
      <3>2. exact' = exact + added /\ exact = v * Word + low /\ low' = low + added
        BY <2>3 DEF SumIsExact
      <3> HIDE DEF v
      <3>3. exact' = v * Word + low'
        BY <1>2, <1>3, <3>2
      <3> QED
        BY <3>1, <3>3 DEF v
    <2> QED
      BY <2>1, <2>2, <2>3
  <1> QED
    BY <1>4, <1>5

(* What is out, what is withheld and low are together exactly the sum of    *)
(* all that was added, through carries over any number of withheld bytes    *)
(* (RangeEnc_ShiftLow).                                                     *)
THEOREM CarriesAreNeverLost == RangeSpec => []SumIsExact
  <1>1. RangeInit => SumIsExact
    BY NothingIsZero
  <1> QED
    BY <1>1, SumStaysExact, Invariant, PTL DEF RangeSpec
=============================================================================
