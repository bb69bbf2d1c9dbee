-------------------------- MODULE LzmaDecoderProofs --------------------------
(***************************************************************************)
(* The decoder never reads past its input, copies only bytes that it has   *)
(* written and keeps within its arrays, for any bytes at all, however they *)
(* are cut up and whatever room there is for what they stand for, and for  *)
(* any sizes of the dictionary, the trees and the integers.                *)
(***************************************************************************)
EXTENDS LzmaDecoder, RangeCoderProofs

(* What a decision leaves of an interval at least.                          *)
Shrunk(rng, direct) ==
    IF direct THEN rng \div 2 ELSE (rng \div kBitModelTotal) * (MoveScale - 1)

(* Coder c has as much input left, counted from base, as in the case l.     *)
AtLeast(c, base, l) ==
    \/ c.buf < base + l.buf
    \/ c.buf = base + l.buf /\ c.range >= l.range

Intervals == kTopValue .. Word - 1

(* The sizes of the range coder's integers, from the assumptions on them.   *)
LEMMA Sizes ==
    /\ Base \in Nat \ {0, 1} /\ kTopValue \in Nat \ {0} /\ Word \in Nat
    /\ Base * Base \in Nat \ {0} /\ kTopValue = (Base * Base) * Base
    /\ Word = kTopValue * Base
    /\ kBitModelTotal \in Nat \ {0} /\ MoveScale - 1 \in Nat \ {0}
    /\ MoveScale - 1 <= kBitModelTotal /\ 2 * MoveScale <= kBitModelTotal
    /\ (kTopValue \div kBitModelTotal) * (MoveScale - 1) >= Base * Base
    /\ 2 * (Base * Base) <= kTopValue
  <1>1. /\ Base \in Nat \ {0, 1} /\ kTopValue = Base * Base * Base
        /\ kBitModelTotal \in Nat \ {0} /\ MoveScale \in Nat \ {0, 1}
        /\ 2 * MoveScale <= kBitModelTotal
        /\ (kTopValue \div kBitModelTotal) * (MoveScale - 1) >= Base * Base
    BY BitModelAssumption
  <1>2. Base * Base \in Nat \ {0}
    BY <1>1
  <1>3. \A x \in Nat \ {0} : x * Base \in Nat \ {0} /\ 2 * x <= x * Base
    BY <1>1
  <1>4. kTopValue = (Base * Base) * Base
    BY <1>1
  <1>5. kTopValue \in Nat \ {0} /\ 2 * (Base * Base) <= kTopValue
    BY <1>2, <1>3, <1>4
  <1>6. Word \in Nat /\ Word = kTopValue * Base
    BY <1>3, <1>5 DEF Word
  <1> QED
    BY <1>1, <1>2, <1>4, <1>5, <1>6

(* Division by the same number keeps the order.                             *)
LEMMA Quotients ==
    ASSUME NEW a \in Nat, NEW b \in Nat, NEW k \in Nat \ {0}, a <= b
    PROVE  /\ a \div k \in Nat /\ b \div k \in Nat /\ a \div k <= b \div k
           /\ (b \div k) * k <= b
  <1> DEFINE x == a \div k
             y == b \div k
  <1>1. /\ x \in Nat /\ y \in Nat
        /\ b = k * y + (b % k) /\ b % k \in 0 .. k - 1
        /\ a = k * x + (a % k) /\ a % k \in 0 .. k - 1
    OBVIOUS
  <1> HIDE DEF x, y
  <1>2. ~ (x > y)
    <2> SUFFICES ASSUME x > y PROVE FALSE
      OBVIOUS
    <2>1. b < k * y + k /\ k * x <= a
      BY <1>1
    <2>2. k * (y + 1) <= k * x
      BY <1>1
    <2>3. k * (y + 1) = k * y + k
      BY <1>1
    <2> QED
      BY <1>1, <2>1, <2>2, <2>3
  <1>3. x <= y /\ y * k <= b
    BY <1>1, <1>2
  <1> QED
    BY <1>1, <1>3 DEF x, y

(* The arithmetic of one decision: what it leaves needs one more byte at    *)
(* most, ...                                                                *)
LEMMA ShrunkRange ==
    ASSUME NEW rng \in Intervals, NEW direct \in BOOLEAN
    PROVE  Shrunk(rng, direct) \in Base * Base .. rng
  <1>1. rng \in Nat /\ kTopValue <= rng
    BY Sizes DEF Intervals
  <1>2. CASE direct
    <2>1. Shrunk(rng, direct) = rng \div 2
      BY <1>2 DEF Shrunk
    <2> QED
      BY <1>1, <2>1, Sizes
  <1>3. CASE ~direct
    <2> DEFINE q == rng \div kBitModelTotal
               t == kTopValue \div kBitModelTotal
               m == MoveScale - 1
    <2>1. Shrunk(rng, direct) = q * m
      BY <1>3 DEF Shrunk
    <2>2. q \in Nat /\ t \in Nat /\ t <= q /\ q * kBitModelTotal <= rng
      BY <1>1, Quotients, Sizes
    <2>3. m \in Nat /\ m <= kBitModelTotal /\ t * m >= Base * Base
      BY Sizes
    <2> HIDE DEF q, t, m
    <2>4. t * m <= q * m /\ q * m <= q * kBitModelTotal
      BY <2>2, <2>3, Sizes
    <2>5. q * m \in Nat /\ t * m \in Nat /\ q * kBitModelTotal \in Nat
      BY <2>2, <2>3, Sizes
    <2> QED
      BY <1>1, <2>1, <2>2, <2>3, <2>4, <2>5, Sizes
  <1> QED
    BY <1>2, <1>3

(* ... it leaves less of a smaller interval, ...                            *)
LEMMA ShrunkMonotone ==
    ASSUME NEW a \in Intervals, NEW b \in Intervals, a <= b, NEW direct \in BOOLEAN
    PROVE  Shrunk(a, direct) <= Shrunk(b, direct)
  <1>1. a \in Nat /\ b \in Nat
    BY Sizes DEF Intervals
  <1>2. CASE direct
    BY <1>1, <1>2 DEF Shrunk
  <1>3. CASE ~direct
    <2> DEFINE x == a \div kBitModelTotal
               y == b \div kBitModelTotal
               m == MoveScale - 1
    <2>1. Shrunk(a, direct) = x * m /\ Shrunk(b, direct) = y * m
      BY <1>3 DEF Shrunk
    <2>2. x \in Nat /\ y \in Nat /\ x <= y /\ m \in Nat
      BY <1>1, Quotients, Sizes
    <2> HIDE DEF x, y, m
    <2> QED
      BY <2>1, <2>2
  <1> QED
    BY <1>2, <1>3

(* ... but never so much less that a byte would not make up for it.         *)
LEMMA ShrunkSpan ==
    ASSUME NEW a \in Intervals, NEW b \in Intervals, NEW direct \in BOOLEAN
    PROVE  Shrunk(b, direct) <= Shrunk(a, direct) * Base
  <1>1. a \in Nat /\ b \in Nat /\ kTopValue <= a /\ b <= kTopValue * Base - 1
    BY Sizes DEF Intervals
  <1>2. CASE direct
    <2> DEFINE t == kTopValue \div 2
               x == a \div 2
               y == b \div 2
    <2>1. Shrunk(a, direct) = x /\ Shrunk(b, direct) = y
      BY <1>2 DEF Shrunk
    <2>2. kTopValue = 2 * t /\ t \in Nat /\ x \in Nat /\ y \in Nat /\ t <= x /\ 2 * y <= b
      BY <1>1, Sizes, DecoderAssumption
    <2> HIDE DEF t, x, y
    <2>3. kTopValue * Base = 2 * (t * Base) /\ t * Base <= x * Base
          /\ t * Base \in Nat /\ x * Base \in Nat
      BY <2>2, Sizes
    <2> QED
      BY <1>1, <2>1, <2>2, <2>3
  <1>3. CASE ~direct
    <2> DEFINE K == kBitModelTotal
               t == kTopValue \div K
               x == a \div K
               y == b \div K
               m == MoveScale - 1
    <2>1. Shrunk(a, direct) = x * m /\ Shrunk(b, direct) = y * m
      BY <1>3 DEF Shrunk
    <2>2. /\ t \in Nat /\ x \in Nat /\ y \in Nat /\ m \in Nat /\ t <= x /\ y * K <= b
          /\ K \in Nat \ {0}
      <3>1. K \in Nat \ {0} /\ m \in Nat /\ kTopValue \in Nat
        BY Sizes
      <3>2. t \in Nat /\ x \in Nat /\ t <= x
        BY <1>1, <3>1, Quotients
      <3>3. y \in Nat /\ y * K <= b
        <4> b <= b
          BY <1>1
        <4> QED
          BY <1>1, <3>1, Quotients
      <3> QED
        BY <3>1, <3>2, <3>3
    <2>3. kTopValue = t * K
      BY <2>2, Sizes, DecoderAssumption
    <2> HIDE DEF t, x, y, m, K
    <2>4. y < t * Base
      <3> SUFFICES ASSUME y >= t * Base PROVE FALSE
        BY <2>2, Sizes
      <3>1. y * K >= (t * Base) * K
        BY <2>2, Sizes
      <3>2. (t * Base) * K = (t * K) * Base
        BY <2>2, Sizes
      <3>3. y * K \in Nat /\ (t * K) * Base \in Nat
        BY <2>2, Sizes
      <3> QED
        BY <1>1, <2>2, <2>3, <3>1, <3>2, <3>3, Sizes
    <2>5. t * Base <= x * Base /\ t * Base \in Nat /\ x * Base \in Nat
      BY <2>2, Sizes
    <2>6. y <= x * Base
      BY <2>2, <2>4, <2>5
    <2>7. y * m <= (x * Base) * m
      BY <2>2, <2>5, <2>6
    <2>8. (x * Base) * m = (x * m) * Base
      BY <2>2, Sizes
    <2> QED
      BY <2>1, <2>7, <2>8
  <1> QED
    BY <1>2, <1>3

(* The case in which the least is left, one decision on: it is the least    *)
(* for a coder of which more was left before, ...                           *)
Cases == [range : Intervals, buf : Nat]

(* What the worst case makes of a case is one again, ...                    *)
LEMMA NarrowedCase ==
    ASSUME NEW l \in Cases, NEW direct \in BOOLEAN
    PROVE  /\ Narrowed(l, direct) \in Cases
           /\ Narrowed(l, direct) =
                IF Shrunk(l.range, direct) >= kTopValue
                THEN [range |-> Shrunk(l.range, direct), buf |-> l.buf]
                ELSE [range |-> Shrunk(l.range, direct) * Base, buf |-> l.buf + 1]
  <1> DEFINE x == Shrunk(l.range, direct)
  <1>1. l.range \in Intervals /\ l.buf \in Nat /\ l = [range |-> l.range, buf |-> l.buf]
    BY DEF Cases
  <1>2. x \in Base * Base .. l.range
    BY <1>1, ShrunkRange
  <1>3. Narrowed(l, direct) = IF x >= kTopValue THEN [range |-> x, buf |-> l.buf]
                              ELSE [range |-> x * Base, buf |-> l.buf + 1]
    BY DEF Narrowed, Shrunk
  <1> HIDE DEF x
  <1>4. x \in Nat /\ x <= Word - 1
    BY <1>1, <1>2, Sizes DEF Intervals
  <1>5. x < kTopValue => x * Base \in Intervals
    <2> SUFFICES ASSUME x < kTopValue PROVE x * Base \in Intervals
      OBVIOUS
    <2>1. (Base * Base) * Base <= x * Base
      BY <1>2, <1>4, Sizes
    <2>2. x * Base <= (kTopValue - 1) * Base
      BY <1>4, Sizes
    <2>3. (kTopValue - 1) * Base = kTopValue * Base - Base /\ x * Base \in Nat
      BY <1>4, Sizes
    <2>4. kTopValue * Base \in Nat /\ (Base * Base) * Base \in Nat
      BY Sizes
    <2> QED
      BY <2>1, <2>2, <2>3, <2>4, Sizes DEF Intervals
  <1>6. x >= kTopValue => x \in Intervals
    BY <1>4, Sizes DEF Intervals
  <1>7. Narrowed(l, direct) \in Cases
    <2>1. CASE x >= kTopValue
      BY <1>1, <1>3, <1>6, <2>1 DEF Cases
    <2>2. CASE x < kTopValue
      BY <1>1, <1>3, <1>4, <1>5, <2>2, Sizes DEF Cases
    <2> QED
      BY <1>4, <2>1, <2>2, Sizes
  <1> QED
    BY <1>3, <1>7 DEF x

(* ... and a decision that leaves y of the interval leaves a coder no worse *)
(* off than it: this is where the bytes of NORMALIZE are counted.           *)
LEMMA NarrowedStep ==
    ASSUME NEW l \in Cases, NEW direct \in BOOLEAN, NEW base \in Nat,
           NEW n, n.range \in Intervals, n.buf \in Nat, AtLeast(n, base, l),
           NEW y \in Nat, Shrunk(n.range, direct) <= y, y < Word,
           NEW c, c.range = IF y >= kTopValue THEN y ELSE y * Base,
           c.buf = IF y >= kTopValue THEN n.buf ELSE n.buf + 1
    PROVE  AtLeast(c, base, Narrowed(l, direct))
  <1> DEFINE x == Shrunk(l.range, direct)
             z == Shrunk(n.range, direct)
             after == Narrowed(l, direct)
  <1>1. l.range \in Intervals /\ l.buf \in Nat
    BY DEF Cases
  <1>2. x \in Nat /\ z \in Nat /\ z <= y
    BY <1>1, ShrunkRange, Sizes DEF Intervals
  <1>3. after.range = (IF x >= kTopValue THEN x ELSE x * Base)
        /\ after.buf = (IF x >= kTopValue THEN l.buf ELSE l.buf + 1)
    BY NarrowedCase
  <1>4. x <= z * Base
    BY <1>1, ShrunkSpan
  <1>5. l.range <= n.range => x <= z
    BY <1>1, ShrunkMonotone
  <1> HIDE DEF x, z, after
  <1>6. CASE n.buf < base + l.buf
    <2>1. z * Base <= y * Base /\ y * Base \in Nat /\ z * Base \in Nat /\ x <= x * Base
          /\ x * Base \in Nat
      <3>1. \A u \in Nat : u * Base \in Nat /\ u <= u * Base
        BY Sizes
      <3>2. \A u, v \in Nat : u <= v => u * Base <= v * Base
        BY Sizes
      <3> QED
        BY <1>2, <3>1, <3>2
    <2>2. y < kTopValue => y * Base < Word
      <3> SUFFICES ASSUME y < kTopValue PROVE y * Base < Word
        OBVIOUS
      <3>1. (y + 1) * Base <= kTopValue * Base /\ (y + 1) * Base = y * Base + Base
        BY Sizes
      <3> QED
        BY <3>1, <2>1, Sizes
    <2>3. CASE x >= kTopValue
      <3>1. after.range = x /\ after.buf = l.buf
        BY <1>3, <2>3
      <3> QED
        BY <1>1, <1>2, <1>4, <1>6, <2>1, <3>1, Sizes DEF AtLeast, after
    <2>4. CASE x < kTopValue
      <3>1. after.buf = l.buf + 1
        BY <1>2, <1>3, <2>4, Sizes
      <3> QED
        BY <1>1, <1>6, <3>1 DEF AtLeast, after
    <2> QED
      BY <1>2, <2>3, <2>4, Sizes
  <1>7. CASE n.buf = base + l.buf /\ n.range >= l.range
    <2>1. x <= y
      BY <1>1, <1>2, <1>5, <1>7, Sizes DEF Intervals
    <2>2. x * Base <= y * Base
      BY <1>2, <2>1, Sizes
    <2>3. CASE y >= kTopValue
      <3>1. CASE x >= kTopValue
        BY <1>1, <1>3, <1>7, <2>1, <2>3, <3>1 DEF AtLeast, after
      <3>2. CASE x < kTopValue
        BY <1>1, <1>2, <1>3, <1>7, <2>1, <2>3, <3>2, Sizes DEF AtLeast, after
      <3> QED
        BY <1>2, <3>1, <3>2, Sizes
    <2>4. CASE y < kTopValue
      <3>1. x < kTopValue
        BY <1>2, <2>1, <2>4, Sizes
      <3> QED
        BY <1>1, <1>2, <1>3, <1>7, <2>2, <2>4, <3>1, Sizes DEF AtLeast, after
    <2> QED
      BY <2>3, <2>4, Sizes
  <1> QED
    BY <1>6, <1>7 DEF AtLeast

(* ... and nothing is gained by one more decision.                          *)
LEMMA NarrowedDown ==
    ASSUME NEW l \in Cases, NEW direct \in BOOLEAN, NEW base \in Nat,
           NEW c, c.range \in Nat, c.buf \in Nat, AtLeast(c, base, l)
    PROVE  AtLeast(c, base, Narrowed(l, direct))
  <1> DEFINE x == Shrunk(l.range, direct)
             after == Narrowed(l, direct)
  <1>1. l.range \in Intervals /\ l.range \in Nat /\ l.buf \in Nat
    BY Sizes DEF Cases, Intervals
  <1>2. x \in Nat /\ x <= l.range
    BY <1>1, ShrunkRange, Sizes
  <1>3. after.range = (IF x >= kTopValue THEN x ELSE x * Base)
        /\ after.buf = (IF x >= kTopValue THEN l.buf ELSE l.buf + 1)
    BY NarrowedCase
  <1> HIDE DEF x, after
  <1>4. CASE x >= kTopValue
    BY <1>1, <1>2, <1>3, <1>4 DEF AtLeast, after
  <1>5. CASE ~(x >= kTopValue)
    BY <1>1, <1>2, <1>3, <1>5 DEF AtLeast, after
  <1> QED
    BY <1>4, <1>5
-----------------------------------------------------------------------------
(* How many decisions a symbol has.                                         *)
LEMMA DecisionCounts ==
    /\ SlotDecisions \in Nat /\ SlotDecisions = 4 + kLenNumHighBits + kNumPosSlotBits
    /\ kNumPosSlotBits \in 3 .. 6 /\ kLenNumHighBits \in 1 .. 16
    /\ MostDirects \in 1 .. 30 /\ MaxDecisions = SlotDecisions + (MostDirects + kNumAlignBits)
    /\ kNumAlignBits \in 1 .. 30
    /\ FooterBits(kEndPosModelIndex - 1) \in 1 .. MostDirects + kNumAlignBits
    /\ MaxDecisions \in Nat
    /\ FooterBits(2 ^ kNumPosSlotBits - 1) = MostDirects + kNumAlignBits
  <1> DEFINE last == 2 ^ kNumPosSlotBits - 1
  <1>1. /\ kLenNumHighBits \in 1 .. 16 /\ kNumPosSlotBits \in 3 .. 6
        /\ kNumAlignBits \in Nat \ {0} /\ kEndPosModelIndex % 2 = 0
        /\ kEndPosModelIndex \in 2 * (kNumAlignBits + 2) .. last
    BY SymbolAssumption
  <1>2. last \in {7, 15, 31, 63}
    <2>1. CASE kNumPosSlotBits = 3
      BY <2>1
    <2>2. CASE kNumPosSlotBits = 4
      BY <2>2
    <2>3. CASE kNumPosSlotBits = 5
      BY <2>3
    <2>4. CASE kNumPosSlotBits = 6
      BY <2>4
    <2> QED
      BY <1>1, <2>1, <2>2, <2>3, <2>4
  <1> HIDE DEF last
  <1>3. FooterBits(last) \in {2, 6, 14, 30}
    BY <1>2 DEF FooterBits
  <1>4. MostDirects = FooterBits(last) - kNumAlignBits
    BY DEF MostDirects, last
  <1>5. MaxDecisions = SlotDecisions + FooterBits(last)
    BY DEF MaxDecisions, last
  <1>6. /\ FooterBits(kEndPosModelIndex - 1) \in Nat
        /\ FooterBits(kEndPosModelIndex - 1) >= kNumAlignBits
        /\ FooterBits(kEndPosModelIndex - 1) <= FooterBits(last)
        /\ kNumAlignBits + 1 <= FooterBits(last)
    BY <1>1, <1>2 DEF FooterBits
  <1> QED
    BY <1>1, <1>3, <1>4, <1>5, <1>6 DEF SlotDecisions, last

(* Narrowest is the function its recursive definition speaks of.            *)
LEMMA NarrowestIs ==
    ASSUME NEW directs
    PROVE  /\ Narrowest(directs)[0] = [range |-> kTopValue, buf |-> 0]
           /\ \A n \in 0 .. MaxDecisions - 1 :
                Narrowest(directs)[n + 1] =
                    Narrowed(Narrowest(directs)[n],
                             n \in SlotDecisions .. SlotDecisions + directs - 1)
  <1> DEFINE start == [range |-> kTopValue, buf |-> 0]
             Next1(f, n) == Narrowed(f[n - 1],
                                n - 1 \in SlotDecisions .. SlotDecisions + directs - 1)
             Upto(f, k) == [n \in 0 .. k |-> IF n = 0 THEN start ELSE Next1(f, n)]
             S == {k \in Nat : \E f : f = Upto(f, k)}
  <1>1. 0 \in S
    <2> DEFINE f == [n \in 0 .. 0 |-> start]
    <2>1. f = Upto(f, 0)
      OBVIOUS
    <2> QED
      BY <2>1
  <1>2. \A k \in S \cap Nat : k + 1 \in S
    <2> SUFFICES ASSUME NEW k \in Nat, NEW f, f = Upto(f, k) PROVE k + 1 \in S
      OBVIOUS
    <2> DEFINE g == [n \in 0 .. k + 1 |-> IF n <= k THEN f[n] ELSE Next1(f, k + 1)]
    <2>1. \A n \in 0 .. k + 1 : n # 0 => Next1(g, n) = Next1(f, n)
      <3> SUFFICES ASSUME NEW n \in 0 .. k + 1, n # 0 PROVE g[n - 1] = f[n - 1]
        OBVIOUS
      <3> QED
        OBVIOUS
    <2>2. \A n \in 0 .. k : f[n] = IF n = 0 THEN start ELSE Next1(f, n)
      <3> HIDE DEF start, Next1
      <3> QED
        OBVIOUS
    <2> HIDE DEF start, Next1
    <2>3. g = Upto(g, k + 1)
      BY <2>1, <2>2
    <2> HIDE DEF g
    <2>4. \E h : h = Upto(h, k + 1)
      BY <2>3
    <2> QED
      BY <2>4
  <1> HIDE DEF S
  <1>3. MaxDecisions \in S
    BY <1>1, <1>2, NaturalInduction, DecisionCounts
  <1>4. \E f : f = Upto(f, MaxDecisions)
    BY <1>3 DEF S
  <1>5. Narrowest(directs) = CHOOSE f : f = Upto(f, MaxDecisions)
    BY DEF Narrowest
  <1> HIDE DEF start, Next1
  <1>6. Narrowest(directs) = Upto(Narrowest(directs), MaxDecisions)
    BY <1>4, <1>5
  <1>7. \A n \in 0 .. MaxDecisions :
            Narrowest(directs)[n] = IF n = 0 THEN start ELSE Next1(Narrowest(directs), n)
    BY <1>6
  <1>8. Narrowest(directs)[0] = start
    BY <1>7, DecisionCounts
  <1>9. \A n \in 0 .. MaxDecisions - 1 : Narrowest(directs)[n + 1] = Next1(Narrowest(directs), n + 1)
    BY <1>7, DecisionCounts
  <1>10. \A n \in Int : (n + 1) - 1 = n
    OBVIOUS
  <1> QED
    BY <1>8, <1>9, <1>10, DecisionCounts DEF start, Next1

(* It does not matter before the slot how many direct bits will follow.     *)
LEMMA NarrowestCases ==
    ASSUME NEW directs \in Nat
    PROVE  /\ \A n \in 0 .. MaxDecisions : Narrowest(directs)[n] \in Cases
           /\ \A n \in 0 .. SlotDecisions : Narrowest(directs)[n] = Narrowest(0)[n]
  <1> DEFINE L == Narrowest(directs)
             M == Narrowest(0)
             D(n, k) == n \in SlotDecisions .. SlotDecisions + k - 1
             S == {n \in Nat : /\ n <= MaxDecisions => L[n] \in Cases
                               /\ n <= SlotDecisions => L[n] = M[n]}
  <1>1. 0 \in S
    <2>1. L[0] = [range |-> kTopValue, buf |-> 0] /\ M[0] = [range |-> kTopValue, buf |-> 0]
      BY NarrowestIs
    <2> HIDE DEF L, M
    <2>2. kTopValue \in Intervals
      <3>1. 2 * kTopValue <= kTopValue * Base
        BY Sizes
      <3> QED
        BY <3>1, Sizes DEF Intervals
    <2> QED
      BY <2>1, <2>2 DEF Cases
  <1>2. \A n \in S \cap Nat : n + 1 \in S
    <2> SUFFICES ASSUME NEW n \in S PROVE n + 1 \in S
      OBVIOUS
    <2>1. n + 1 <= MaxDecisions => L[n + 1] = Narrowed(L[n], D(n, directs)) /\ n \in 0 .. MaxDecisions - 1
      BY NarrowestIs, DecisionCounts
    <2>2. n + 1 <= MaxDecisions => M[n + 1] = Narrowed(M[n], D(n, 0))
      BY NarrowestIs, DecisionCounts
    <2>3. D(n, directs) \in BOOLEAN /\ (n + 1 <= SlotDecisions => D(n, directs) = D(n, 0))
      BY DecisionCounts
    <2> HIDE DEF L, M, D
    <2>4. n + 1 <= MaxDecisions => L[n + 1] \in Cases
      <3> SUFFICES ASSUME n + 1 <= MaxDecisions PROVE L[n + 1] \in Cases
        OBVIOUS
      <3>1. L[n] \in Cases
        BY DecisionCounts
      <3> QED
        BY <2>1, <2>3, <3>1, NarrowedCase
    <2>5. n + 1 <= SlotDecisions => L[n + 1] = M[n + 1]
      BY <2>1, <2>2, <2>3, DecisionCounts
    <2> QED
      BY <2>4, <2>5
  <1> HIDE DEF S
  <1>3. Nat \subseteq S
    BY <1>1, <1>2, NaturalInduction
  <1> HIDE DEF L, M
  <1>4. \A n \in Nat : /\ n <= MaxDecisions => L[n] \in Cases
                       /\ n <= SlotDecisions => L[n] = M[n]
    BY <1>3 DEF S
  <1> QED
    BY <1>4, DecisionCounts DEF L, M

(* A coder of which at least so much is left is so after more decisions.    *)
LEMMA NarrowestDown ==
    ASSUME NEW directs \in Nat, NEW base \in Nat, NEW c, c.range \in Nat, c.buf \in Nat,
           NEW j \in 0 .. MaxDecisions, NEW k \in 0 .. MaxDecisions, j <= k,
           AtLeast(c, base, Narrowest(directs)[j])
    PROVE  AtLeast(c, base, Narrowest(directs)[k])
  <1> DEFINE L == Narrowest(directs)
             S == {n \in Nat : j <= n /\ n <= MaxDecisions => AtLeast(c, base, L[n])}
  <1>1. 0 \in S
    OBVIOUS
  <1>2. \A n \in S \cap Nat : n + 1 \in S
    <2> SUFFICES ASSUME NEW n \in S, j <= n + 1, n + 1 <= MaxDecisions
                 PROVE  AtLeast(c, base, L[n + 1])
      OBVIOUS
    <2>1. CASE j = n + 1
      BY <2>1
    <2>2. CASE j <= n
      <3> DEFINE D == n \in SlotDecisions .. SlotDecisions + directs - 1
      <3>1. n \in 0 .. MaxDecisions - 1 /\ n \in 0 .. MaxDecisions
        BY DecisionCounts
      <3>2. L[n + 1] = Narrowed(L[n], D) /\ L[n] \in Cases /\ D \in BOOLEAN
        BY <3>1, NarrowestIs, NarrowestCases
      <3>3. AtLeast(c, base, L[n])
        BY <2>2, <3>1
      <3> HIDE DEF L, D
      <3> QED
        BY <3>2, <3>3, NarrowedDown
    <2> QED
      BY <2>1, <2>2
  <1> HIDE DEF S
  <1>3. k \in S
    BY <1>1, <1>2, NaturalInduction, DecisionCounts
  <1> QED
    BY <1>3, DecisionCounts DEF S
-----------------------------------------------------------------------------
(* The way through a symbol: in a tree of so many levels node i has as many *)
(* bits as levels are done, ...                                             *)
Letters == 0 .. Power(NumLitBits) - 1
LengthSymbols == kLenNumLowSymbols + kLenNumMidSymbols + kLenNumHighSymbols

Treed(w, levels) ==
    /\ w.left \in 1 .. levels
    /\ w.i \in Power(levels - w.left) .. Power((levels - w.left) + 1) - 1

WalkTypes ==
    [at : {"IsMatch", "literal", "IsRep", "IsRepG0", "IsRep0Long", "IsRepG1", "IsRepG2",
           "choice", "choice2", "low", "mid", "high", "PosSlot", "SpecPos", "direct",
           "Align", "done"},
     i : Nat, left : Nat, offs : {0, 1}, kind : {"literal", "match", "rep", "short"},
     coder : {"Len", "RepLen"}, rep : 0 .. 3, len : 0 .. LengthSymbols - 1,
     posSlot : Nat, distance : Nat]

LengthLabels == {"choice", "choice2", "low", "mid", "high"}
FlagLabels == {"IsMatch", "IsRep", "IsRepG0", "IsRep0Long", "IsRepG1", "IsRepG2"}

WalkOK(w) ==
    /\ w \in WalkTypes
    /\ w.at \in FlagLabels \cup {"literal"} => w.kind = "literal" /\ w.coder = "Len"
    /\ w.at \in LengthLabels => w.kind = IF w.coder = "Len" THEN "match" ELSE "rep"
    /\ w.at = "literal" => Treed(w, NumLitBits)
    /\ w.at = "low" => Treed(w, kLenNumLowBits)
    /\ w.at = "mid" => Treed(w, kLenNumMidBits)
    /\ w.at = "high" => Treed(w, kLenNumHighBits)
    /\ w.at \in {"PosSlot", "SpecPos", "direct", "Align"} => w.kind = "match"
    /\ w.at = "PosSlot" => Treed(w, kNumPosSlotBits)
    /\ w.at = "SpecPos" =>
        /\ w.posSlot \in kStartPosModelIndex .. kEndPosModelIndex - 1
        /\ Treed(w, FooterBits(w.posSlot))
    /\ w.at = "direct" => w.left \in 1 .. MostDirects
    /\ w.at = "Align" => Treed(w, kNumAlignBits)
    /\ w.at \in {"direct", "Align"} => w.posSlot >= kEndPosModelIndex
    /\ w.posSlot >= kEndPosModelIndex => w.at \in {"direct", "Align", "done"}
    /\ w.at = "done" /\ w.kind = "literal" =>
        w.i \in Power(NumLitBits) .. Power(NumLitBits + 1) - 1

(* ... and its place is that of the decision to come among those of the     *)
(* longest symbol, which Narrowest counts.                                  *)
Directs(w) == IF w.posSlot >= kEndPosModelIndex THEN MostDirects ELSE 0

LastPlace(w) ==
    IF w.posSlot >= kEndPosModelIndex THEN MaxDecisions
    ELSE SlotDecisions + FooterBits(kEndPosModelIndex - 1)

Place(w) ==
    CASE w.at = "IsMatch" -> 0
      [] w.at = "IsRep" -> 1
      [] w.at = "IsRepG0" -> 2
      [] w.at \in {"IsRep0Long", "IsRepG1"} -> 3
      [] w.at = "IsRepG2" -> 4
      [] w.at = "literal" -> (1 + NumLitBits) - w.left
      [] w.at = "choice" -> IF w.coder = "Len" THEN 2 ELSE 5
      [] w.at = "choice2" -> IF w.coder = "Len" THEN 3 ELSE 6
      [] w.at \in {"low", "mid", "high"} ->
            ((IF w.coder = "Len" THEN 4 ELSE 7) + kLenNumHighBits) - w.left
      [] w.at = "PosSlot" -> SlotDecisions - w.left
      [] w.at = "SpecPos" -> (SlotDecisions + FooterBits(kEndPosModelIndex - 1)) - w.left
      [] w.at = "direct" -> (SlotDecisions + MostDirects) - w.left
      [] w.at = "Align" -> MaxDecisions - w.left
      [] w.at = "done" -> LastPlace(w)

(* Each decision leads on.                                                  *)
LeadsTo(w, v) ==
    /\ WalkOK(v)
    /\ Place(w) \in 0 .. MaxDecisions - 1
    /\ Place(v) \in Place(w) + 1 .. MaxDecisions
    /\ Directs(v) = Directs(w) \/ (Directs(w) = 0 /\ Place(w) + 1 = SlotDecisions)
    /\ w.at = "direct" <=> Place(w) \in SlotDecisions .. (SlotDecisions + Directs(w)) - 1

(* The sizes of the trees and alphabets, from the assumptions on them.      *)
LEMMA SymbolSizes ==
    /\ NumLitBits \in 1 .. 16 /\ lc \in 0 .. NumLitBits /\ lp \in 0 .. 8 /\ pb \in 0 .. 8
    /\ kLenNumHighBits \in 1 .. 16 /\ kLenNumLowBits \in 1 .. kLenNumHighBits
    /\ kLenNumMidBits \in 1 .. kLenNumHighBits
    /\ NumLitBits < SlotDecisions
    /\ kEndPosModelIndex % 2 = 0
    /\ kEndPosModelIndex \in 2 * (kNumAlignBits + 2) .. Power(kNumPosSlotBits) - 1
    /\ kLenNumLowSymbols = Power(kLenNumLowBits) /\ kLenNumMidSymbols = Power(kLenNumMidBits)
    /\ kLenNumHighSymbols = Power(kLenNumHighBits)
    /\ kLenNumLowSymbols \in Nat \ {0} /\ kLenNumMidSymbols \in Nat \ {0}
    /\ kLenNumHighSymbols \in Nat \ {0} /\ LengthSymbols \in Nat \ {0}
    /\ LengthSymbols = kLenNumLowSymbols + kLenNumMidSymbols + kLenNumHighSymbols
    /\ kMatchSpecLenStart = 2 + LengthSymbols
    /\ \A k \in 0 .. 32 : Power(k) \in Nat \ {0}
  <1>1. /\ NumLitBits \in 1 .. 16 /\ lc \in 0 .. NumLitBits /\ lp \in 0 .. 8 /\ pb \in 0 .. 8
        /\ kLenNumHighBits \in 1 .. 16 /\ kLenNumLowBits \in 1 .. kLenNumHighBits
        /\ kLenNumMidBits \in 1 .. kLenNumHighBits
        /\ NumLitBits < SlotDecisions
        /\ kEndPosModelIndex % 2 = 0
        /\ kEndPosModelIndex \in 2 * (kNumAlignBits + 2) .. Power(kNumPosSlotBits) - 1
    BY SymbolAssumption DEF SlotDecisions, Power
  <1>2. /\ kLenNumLowSymbols = Power(kLenNumLowBits) /\ kLenNumMidSymbols = Power(kLenNumMidBits)
        /\ kLenNumHighSymbols = Power(kLenNumHighBits)
    BY DEF kLenNumLowSymbols, kLenNumMidSymbols, kLenNumHighSymbols, Power
  <1>3. \A k \in 0 .. 32 : Power(k) \in Nat \ {0}
    BY PowersNatural
  <1>4. kLenNumLowBits \in 0 .. 32 /\ kLenNumMidBits \in 0 .. 32 /\ kLenNumHighBits \in 0 .. 32
    BY <1>1
  <1> QED
    BY <1>1, <1>2, <1>3, <1>4 DEF LengthSymbols, kMatchSpecLenStart, LZMA_MATCH_LEN_MIN

(* One level down a tree, or out of it.                                     *)
LEMMA LevelDown ==
    ASSUME NEW levels \in 1 .. 31, NEW i \in Nat, NEW left \in 1 .. levels,
           i \in Power(levels - left) .. Power((levels - left) + 1) - 1, NEW bit \in {0, 1}
    PROVE  /\ 2 * i + bit \in Power(levels - (left - 1)) .. Power((levels - (left - 1)) + 1) - 1
           /\ i \in 1 .. Power(levels) - 1
           /\ 2 * i + bit \in Nat
  <1> DEFINE k == levels - left
  <1>1. k \in 0 .. 30 /\ k + 1 \in 0 .. 31 /\ levels - (left - 1) = k + 1 /\ k + 1 <= levels
    OBVIOUS
  <1>2. i \in Power(k) .. Power(k + 1) - 1
    OBVIOUS
  <1> HIDE DEF k
  <1>3. Power(k + 1) = 2 * Power(k) /\ Power((k + 1) + 1) = 2 * Power(k + 1)
    BY <1>1, PowersGrow
  <1>4. Power(k) \in Nat \ {0} /\ Power(k + 1) \in Nat /\ Power(levels) \in Nat
    BY <1>1, PowersNatural
  <1>5. Power(k + 1) <= Power(levels)
    BY <1>1, PowersMonotone
  <1> QED
    BY <1>1, <1>2, <1>3, <1>4, <1>5
(* The first node of a tree.                                                *)
LEMMA AtTheRoot ==
    ASSUME NEW levels \in Nat \ {0}, NEW v, v.i = 1, v.left = levels
    PROVE  Treed(v, levels)
  <1>1. Power(0) = 1 /\ Power(1) = 2
    BY DEF Power
  <1>2. levels - v.left = 0 /\ (levels - v.left) + 1 = 1
    OBVIOUS
  <1>3. 1 \in Power(0) .. Power(1) - 1
    BY <1>1
  <1>4. v.left \in 1 .. levels
    OBVIOUS
  <1> QED
    BY <1>2, <1>3, <1>4 DEF Treed

(* What the flags, the literal, the length and the footer have in common.   *)
LEMMA LeadsOn ==
    ASSUME NEW w, NEW v, WalkOK(v), w.at # "direct", Directs(v) = Directs(w),
           Directs(w) \in Nat, Place(w) \in Nat, Place(v) \in Nat,
           Place(w) < Place(v), Place(v) <= MaxDecisions,
           Place(w) < SlotDecisions \/ Directs(w) = 0
               \/ Place(w) >= SlotDecisions + Directs(w)
    PROVE  LeadsTo(w, v)
  <1>1. Place(w) \in 0 .. MaxDecisions - 1 /\ Place(v) \in Place(w) + 1 .. MaxDecisions
    BY DecisionCounts
  <1>2. ~(Place(w) \in SlotDecisions .. (SlotDecisions + Directs(w)) - 1)
    BY DecisionCounts
  <1>3. w.at = "direct" <=> Place(w) \in SlotDecisions .. (SlotDecisions + Directs(w)) - 1
    BY <1>2
  <1>4. Directs(v) = Directs(w) \/ (Directs(w) = 0 /\ Place(w) + 1 = SlotDecisions)
    OBVIOUS
  <1> QED
    BY <1>1, <1>3, <1>4 DEF LeadsTo

KnownOK(d) ==
    /\ d.state \in 0 .. 11 /\ d.pos \in Nat
    /\ d.prevByte \in Letters /\ d.matchByte \in Letters

(* What the flags before a symbol's value lead to, ...                      *)
LEMMA FlagsLead ==
    ASSUME NEW d, NEW w, WalkOK(w), w.at \in FlagLabels, NEW bit \in {0, 1}
    PROVE  LeadsTo(w, Took(d, w, bit))
  <1>1. /\ w \in WalkTypes /\ w.kind = "literal" /\ w.coder = "Len"
        /\ ~(w.posSlot >= kEndPosModelIndex)
    BY DEF WalkOK, FlagLabels
  <1>2. /\ SlotDecisions \in Nat /\ SlotDecisions >= 8 /\ MaxDecisions \in Nat
        /\ MaxDecisions >= SlotDecisions
        /\ FooterBits(kEndPosModelIndex - 1) \in 1 .. MaxDecisions - SlotDecisions
    BY DecisionCounts
  <1>3. Directs(w) = 0
    BY <1>1 DEF Directs
  <1>4. ASSUME NEW v, WalkOK(v), v.posSlot = w.posSlot, Place(w) \in 0 .. 4,
               Place(v) \in Place(w) + 1 .. MaxDecisions, w.at # "direct"
        PROVE  LeadsTo(w, v)
    <2>1. Directs(v) = 0
      BY <1>1, <1>4 DEF Directs
    <2>2. Place(w) \in Nat /\ Place(v) \in Nat /\ Place(w) < Place(v) /\ Place(v) <= MaxDecisions
      BY <1>2, <1>4
    <2> QED
      BY <1>3, <1>4, <2>1, <2>2, LeadsOn
  <1>5. ASSUME w.at = "IsMatch", bit = 0
        PROVE  LeadsTo(w, Took(d, w, bit))
    <2>1. PICK offs \in {0, 1} : Took(d, w, bit) = Into([w EXCEPT !.offs = offs], "literal", NumLitBits)
      <3>1. Took(d, w, bit) = Into([w EXCEPT !.offs = IF IsCharState(d.state) THEN 0 ELSE 1], "literal", NumLitBits)
        BY <1>5 DEF Took
      <3>2. CASE IsCharState(d.state)
        BY <3>1, <3>2
      <3>3. CASE ~IsCharState(d.state)
        BY <3>1, <3>3
      <3> QED
        BY <3>2, <3>3
    <2> DEFINE v == Took(d, w, bit)
    <2> HIDE DEF v
    <2>2. NumLitBits \in Nat \ {0}
      BY SymbolSizes
    <2>3. /\ v \in WalkTypes /\ v.at = "literal" /\ v.i = 1 /\ v.left = NumLitBits
          /\ v.kind = "literal" /\ v.coder = "Len" /\ v.posSlot = w.posSlot
      <3>1. v = [[w EXCEPT !.offs = offs] EXCEPT !.at = "literal", !.i = 1, !.left = NumLitBits]
        BY <2>1 DEF Into, v
      <3> QED
        BY <1>1, <2>2, <3>1 DEF WalkTypes
    <2>4. Treed(v, NumLitBits)
      BY <2>2, <2>3, AtTheRoot
    <2>5. WalkOK(v)
      BY <1>1, <2>3, <2>4 DEF WalkOK, LengthLabels
    <2>6. Place(w) = 0
      BY <1>5 DEF Place
    <2>7. Place(v) = 1
      BY <2>2, <2>3 DEF Place
    <2>8. LeadsTo(w, v)
      BY <1>2, <1>4, <1>5, <2>3, <2>5, <2>6, <2>7
    <2> QED
      BY <2>8 DEF v
  <1>6. ASSUME NEW label \in FlagLabels \ {"IsMatch"}, Took(d, w, bit) = [w EXCEPT !.at = label],
               \/ w.at = "IsMatch" /\ label = "IsRep"
               \/ w.at = "IsRep" /\ label = "IsRepG0"
               \/ w.at = "IsRepG0" /\ label \in {"IsRep0Long", "IsRepG1"}
               \/ w.at = "IsRepG1" /\ label = "IsRepG2"
        PROVE  LeadsTo(w, Took(d, w, bit))
    <2> DEFINE v == Took(d, w, bit)
    <2> HIDE DEF v
    <2>1. v = [w EXCEPT !.at = label]
      BY <1>6 DEF v
    <2>2. /\ v \in WalkTypes /\ v.at = label /\ v.kind = "literal" /\ v.coder = "Len"
          /\ v.posSlot = w.posSlot
      BY <1>1, <2>1 DEF WalkTypes, FlagLabels
    <2>3. WalkOK(v)
      BY <1>1, <2>2 DEF WalkOK, LengthLabels, FlagLabels
    <2>4. Place(w) \in 0 .. 3 /\ Place(v) = Place(w) + 1
      BY <1>6, <2>2 DEF Place
    <2>5. w.at # "direct"
      BY <1>6
    <2>6. LeadsTo(w, v)
      BY <1>2, <1>4, <2>2, <2>3, <2>4, <2>5
    <2> QED
      BY <2>6 DEF v
  <1>7. ASSUME NEW rep \in 0 .. 3, Took(d, w, bit) = RepLength(w, rep),
               w.at \in {"IsRep0Long", "IsRepG1", "IsRepG2"}
        PROVE  LeadsTo(w, Took(d, w, bit))
    <2> DEFINE v == Took(d, w, bit)
    <2> HIDE DEF v
    <2>1. v = RepLength(w, rep)
      BY <1>7 DEF v
    <2>2. /\ v \in WalkTypes /\ v.at = "choice" /\ v.kind = "rep" /\ v.coder = "RepLen"
          /\ v.posSlot = w.posSlot
      BY <1>1, <2>1 DEF WalkTypes, RepLength
    <2>3. WalkOK(v)
      BY <1>1, <2>2 DEF WalkOK, LengthLabels, FlagLabels
    <2>4. Place(w) \in 3 .. 4 /\ Place(v) = 5
      BY <1>7, <2>2 DEF Place
    <2>5. w.at # "direct"
      BY <1>7
    <2>6. LeadsTo(w, v)
      BY <1>2, <1>4, <2>2, <2>3, <2>4, <2>5
    <2> QED
      BY <2>6 DEF v
  <1>8. ASSUME w.at = "IsRep", bit = 0
        PROVE  LeadsTo(w, Took(d, w, bit))
    <2> DEFINE v == Took(d, w, bit)
    <2>1. v = [[w EXCEPT !.at = "choice"] EXCEPT !.kind = "match"]
      BY <1>8 DEF Took
    <2> HIDE DEF v
    <2>2. /\ v \in WalkTypes /\ v.at = "choice" /\ v.kind = "match" /\ v.coder = "Len"
          /\ v.posSlot = w.posSlot
      BY <1>1, <2>1 DEF WalkTypes
    <2>3. WalkOK(v)
      BY <1>1, <2>2 DEF WalkOK, LengthLabels, FlagLabels
    <2>4. Place(w) = 1 /\ Place(v) = 2
      BY <1>8, <2>2 DEF Place
    <2>6. LeadsTo(w, v)
      BY <1>2, <1>4, <1>8, <2>2, <2>3, <2>4
    <2> QED
      BY <2>6 DEF v
  <1>9. ASSUME w.at = "IsRep0Long", bit = 0
        PROVE  LeadsTo(w, Took(d, w, bit))
    <2> DEFINE v == Took(d, w, bit)
    <2>1. v = [[w EXCEPT !.at = "done"] EXCEPT !.kind = "short"]
      BY <1>9 DEF Took
    <2> HIDE DEF v
    <2>2. /\ v \in WalkTypes /\ v.at = "done" /\ v.kind = "short" /\ v.posSlot = w.posSlot
      BY <1>1, <2>1 DEF WalkTypes
    <2>3. WalkOK(v)
      BY <1>1, <2>2 DEF WalkOK, LengthLabels, FlagLabels
    <2>4. /\ Place(w) = 3
          /\ Place(v) = SlotDecisions + FooterBits(kEndPosModelIndex - 1)
      BY <1>1, <1>9, <2>2 DEF Place, LastPlace
    <2>6. LeadsTo(w, v)
      BY <1>2, <1>4, <1>9, <2>2, <2>3, <2>4
    <2> QED
      BY <2>6 DEF v
  <1>10. CASE w.at = "IsMatch" /\ bit = 1
    <2>1. Took(d, w, bit) = [w EXCEPT !.at = "IsRep"]
      BY <1>10 DEF Took
    <2>2. "IsRep" \in FlagLabels \ {"IsMatch"}
      BY DEF FlagLabels
    <2> QED
      BY <1>6, <1>10, <2>1, <2>2
  <1>11. CASE w.at = "IsRep" /\ bit = 1
    BY <1>6, <1>11 DEF Took, FlagLabels
  <1>12. CASE w.at = "IsRepG0" /\ bit = 1
    BY <1>6, <1>12 DEF Took, FlagLabels
  <1>13. CASE w.at = "IsRepG0" /\ bit = 0
    BY <1>6, <1>13 DEF Took, FlagLabels
  <1>14. CASE w.at = "IsRepG1" /\ bit = 1
    BY <1>6, <1>14 DEF Took, FlagLabels
  <1>15. CASE w.at = "IsRepG1" /\ bit = 0
    <2>1. Took(d, w, bit) = RepLength(w, 1)
      BY <1>15 DEF Took
    <2> QED
      BY <1>7, <1>15, <2>1
  <1>16. CASE w.at = "IsRepG2"
    <2>1. Took(d, w, bit) = RepLength(w, 2 + bit)
      BY <1>16 DEF Took
    <2>2. 2 + bit \in 0 .. 3
      OBVIOUS
    <2> QED
      BY <1>7, <1>16, <2>1, <2>2
  <1>17. CASE w.at = "IsRep0Long" /\ bit = 1
    <2>1. Took(d, w, bit) = RepLength(w, 0)
      BY <1>17 DEF Took
    <2> QED
      BY <1>7, <1>17, <2>1
  <1>18. w.at \in {"IsMatch", "IsRep", "IsRepG0", "IsRep0Long", "IsRepG1", "IsRepG2"}
    BY DEF FlagLabels
  <1> QED
    BY <1>5, <1>8, <1>9, <1>10, <1>11, <1>12, <1>13, <1>14, <1>15, <1>16, <1>17, <1>18

(* One level down a tree.                                                   *)
Same(v, w) ==
    /\ v.at = w.at /\ v.kind = w.kind /\ v.coder = w.coder /\ v.rep = w.rep
    /\ v.len = w.len /\ v.posSlot = w.posSlot

(* One decision further down a tree.                                        *)
LEMMA DeeperLeads ==
    ASSUME NEW w \in WalkTypes, NEW levels \in 1 .. 31, Treed(w, levels), NEW bit \in {0, 1}
    PROVE  LET v == Deeper(w, bit)
           IN  /\ v \in WalkTypes /\ Same(v, w) /\ v.left = w.left - 1
               /\ v.offs = w.offs /\ v.distance = w.distance
               /\ v.left # 0 => Treed(v, levels)
               /\ v.left = 0 => v.i \in Power(levels) .. Power(levels + 1) - 1
               /\ w.i \in 1 .. Power(levels) - 1
  <1> DEFINE v == Deeper(w, bit)
  <1>1. v = [w EXCEPT !.i = 2 * @ + bit, !.left = @ - 1]
    BY DEF Deeper
  <1>2. w.i \in Nat /\ w.left \in 1 .. levels
    BY DEF Treed, WalkTypes
  <1>3. /\ 2 * w.i + bit \in Power(levels - (w.left - 1)) .. Power((levels - (w.left - 1)) + 1) - 1
        /\ w.i \in 1 .. Power(levels) - 1 /\ 2 * w.i + bit \in Nat
    BY <1>2, LevelDown DEF Treed
  <1>4. w.left - 1 \in Nat /\ (w.left # 1 => w.left - 1 \in 1 .. levels)
        /\ (w.left - 1 = 0 => levels - (w.left - 1) = levels)
    BY <1>2
  <1> HIDE DEF v
  <1>5. v \in WalkTypes /\ Same(v, w) /\ v.left = w.left - 1 /\ v.i = 2 * w.i + bit
        /\ v.offs = w.offs /\ v.distance = w.distance
    BY <1>1, <1>3, <1>4 DEF WalkTypes, Same
  <1>6. v.left # 0 => Treed(v, levels)
    BY <1>2, <1>3, <1>4, <1>5 DEF Treed
  <1>7. v.left = 0 => v.i \in Power(levels) .. Power(levels + 1) - 1
    BY <1>3, <1>4, <1>5
  <1> QED
    BY <1>3, <1>5, <1>6, <1>7 DEF v

(* The bit that a literal after a match takes from the match byte.          *)
LEMMA MatchBits ==
    ASSUME NEW d, NEW w, WalkOK(w), w.at = "literal", KnownOK(d)
    PROVE  MatchBit(d, w) \in {0, w.offs}
  <1>1. w.offs \in {0, 1} /\ w.left - 1 \in 0 .. 32
    BY SymbolSizes DEF WalkOK, Treed, WalkTypes
  <1>2. Power(w.left - 1) \in Nat \ {0}
    BY <1>1, PowersNatural
  <1>3. d.matchByte \in Nat
    <2>1. Power(NumLitBits) \in Nat
      BY SymbolSizes, PowersNatural
    <2> QED
      BY <2>1 DEF KnownOK, Letters
  <1>4. (d.matchByte \div Power(w.left - 1)) % 2 \in {0, 1}
    BY <1>2, <1>3
  <1>5. Bit(d.matchByte, w.left - 1) \in {0, 1}
    BY <1>4 DEF Bit, Power
  <1>6. \A b \in {0, 1}, o \in {0, 1} : o * b \in {0, o}
    OBVIOUS
  <1> QED
    BY <1>1, <1>5, <1>6 DEF MatchBit

(* ... what the bits of a literal do, ...                                   *)
LEMMA LiteralLeads ==
    ASSUME NEW d, KnownOK(d), NEW w, WalkOK(w), w.at = "literal", NEW bit \in {0, 1}
    PROVE  LeadsTo(w, Took(d, w, bit))
  <1> DEFINE deeper == Deeper(w, bit)
             agrees == IF bit = 1 THEN MatchBit(d, w) ELSE w.offs - MatchBit(d, w)
             u == [deeper EXCEPT !.offs = agrees]
             v == Took(d, w, bit)
  <1>1. v = IF u.left = 0 THEN [u EXCEPT !.at = "done"] ELSE u
    BY DEF Took, Then
  <1>2. w \in WalkTypes /\ Treed(w, NumLitBits) /\ NumLitBits \in 1 .. 16 /\ w.kind = "literal"
        /\ w.coder = "Len" /\ ~(w.posSlot >= kEndPosModelIndex)
    BY SymbolSizes DEF WalkOK
  <1>3. /\ deeper \in WalkTypes /\ Same(deeper, w) /\ deeper.left = w.left - 1
        /\ deeper.left # 0 => Treed(deeper, NumLitBits)
        /\ deeper.left = 0 => deeper.i \in Power(NumLitBits) .. Power(NumLitBits + 1) - 1
    BY <1>2, DeeperLeads
  <1>4. agrees \in {0, 1}
    BY <1>2, MatchBits DEF WalkTypes
  <1> HIDE DEF deeper, agrees, v
  <1>5. /\ u \in WalkTypes /\ Same(u, w) /\ u.left = w.left - 1 /\ u.i = deeper.i
        /\ u.left = deeper.left
    BY <1>3, <1>4 DEF WalkTypes, Same
  <1>6. u.left # 0 => Treed(u, NumLitBits)
    BY <1>3, <1>5 DEF Treed
  <1> HIDE DEF u
  <1>7. w.left \in 1 .. NumLitBits
    BY <1>2 DEF Treed
  <1>8. /\ SlotDecisions \in Nat /\ NumLitBits < SlotDecisions /\ MaxDecisions \in Nat
        /\ FooterBits(kEndPosModelIndex - 1) \in 1 .. MaxDecisions - SlotDecisions
    BY DecisionCounts, SymbolSizes
  <1>9. Place(w) = (1 + NumLitBits) - w.left /\ Directs(w) = 0
    BY <1>2 DEF Place, Directs
  <1>10. CASE u.left = 0
    <2>1. v = [u EXCEPT !.at = "done"]
      BY <1>1, <1>10
    <2>2. /\ v \in WalkTypes /\ v.at = "done" /\ v.kind = "literal" /\ v.posSlot = w.posSlot
          /\ v.i = u.i
      BY <1>2, <1>5, <2>1 DEF WalkTypes, Same
    <2>3. v.i \in Power(NumLitBits) .. Power(NumLitBits + 1) - 1
      BY <1>3, <1>5, <1>10, <2>2
    <2>4. WalkOK(v)
      BY <1>2, <2>2, <2>3 DEF WalkOK, FlagLabels, LengthLabels
    <2>5. Place(v) = SlotDecisions + FooterBits(kEndPosModelIndex - 1) /\ Directs(v) = 0
      BY <1>2, <2>2 DEF Place, LastPlace, Directs
    <2>6. /\ Place(w) \in Nat /\ Place(v) \in Nat /\ Place(w) < Place(v)
          /\ Place(v) <= MaxDecisions
      BY <1>2, <1>7, <1>8, <1>9, <2>5
    <2>7. LeadsTo(w, v)
      BY <1>9, <2>4, <2>5, <2>6, LeadsOn
    <2> QED
      BY <2>7 DEF v
  <1>11. CASE u.left # 0
    <2>1. v = u
      BY <1>1, <1>11
    <2>2. /\ v \in WalkTypes /\ v.at = "literal" /\ v.kind = "literal" /\ v.coder = "Len"
          /\ v.posSlot = w.posSlot /\ Treed(v, NumLitBits) /\ v.left = w.left - 1
      BY <1>2, <1>5, <1>6, <1>11, <2>1 DEF Same
    <2>3. WalkOK(v)
      BY <1>2, <2>2 DEF WalkOK, LengthLabels
    <2>4. Place(v) = (1 + NumLitBits) - (w.left - 1) /\ Directs(v) = 0
      BY <1>2, <2>2 DEF Place, Directs
    <2>5. w.left - 1 \in 1 .. NumLitBits
      BY <2>2 DEF Treed
    <2>6. /\ Place(w) \in Nat /\ Place(v) \in Nat /\ Place(w) < Place(v)
          /\ Place(v) <= MaxDecisions
      BY <1>2, <1>7, <1>8, <1>9, <2>4, <2>5
    <2>7. LeadsTo(w, v)
      BY <1>9, <2>3, <2>4, <2>6, LeadsOn
    <2> QED
      BY <2>7 DEF v
  <1> QED
    BY <1>10, <1>11

(* ... what those of a length do, ...                                       *)
LEMMA ChoiceLeads ==
    ASSUME NEW d, NEW w, WalkOK(w), w.at \in {"choice", "choice2"}, NEW bit \in {0, 1}
    PROVE  LeadsTo(w, Took(d, w, bit))
  <1>1. /\ w \in WalkTypes /\ w.kind = (IF w.coder = "Len" THEN "match" ELSE "rep")
        /\ ~(w.posSlot >= kEndPosModelIndex)
    BY DEF WalkOK, LengthLabels
  <1>2. /\ SlotDecisions \in Nat /\ SlotDecisions >= 7 + kLenNumHighBits /\ MaxDecisions \in Nat
        /\ MaxDecisions >= SlotDecisions
        /\ kLenNumHighBits \in 1 .. 16 /\ kLenNumLowBits \in 1 .. kLenNumHighBits
        /\ kLenNumMidBits \in 1 .. kLenNumHighBits
    BY DecisionCounts, SymbolSizes
  <1>3. Directs(w) = 0
    BY <1>1 DEF Directs
  <1>4. ASSUME NEW v, WalkOK(v), v.posSlot = w.posSlot, Place(w) \in Nat, Place(v) \in Nat,
               Place(w) < Place(v), Place(v) <= 6 + kLenNumHighBits
        PROVE  LeadsTo(w, v)
    <2>1. Directs(v) = 0
      BY <1>1, <1>4 DEF Directs
    <2>2. Place(v) <= MaxDecisions
      BY <1>2, <1>4
    <2> QED
      BY <1>3, <1>4, <2>1, <2>2, LeadsOn
  <1>5. ASSUME NEW label \in {"low", "mid", "high"}, NEW levels \in 1 .. kLenNumHighBits,
               Took(d, w, bit) = Into(w, label, levels),
               label = "low" => levels = kLenNumLowBits,
               label = "mid" => levels = kLenNumMidBits,
               label = "high" => levels = kLenNumHighBits
        PROVE  LeadsTo(w, Took(d, w, bit))
    <2> DEFINE v == Took(d, w, bit)
    <2>1. v = [w EXCEPT !.at = label, !.i = 1, !.left = levels]
      BY <1>5 DEF Into
    <2>2. levels \in Nat \ {0}
      BY <1>2
    <2> HIDE DEF v
    <2>3. /\ v \in WalkTypes /\ v.at = label /\ v.kind = w.kind /\ v.coder = w.coder
          /\ v.posSlot = w.posSlot /\ v.left = levels /\ v.i = 1
      BY <1>1, <2>1, <2>2 DEF WalkTypes
    <2>4. Treed(v, levels)
      BY <2>2, <2>3, AtTheRoot
    <2>5. WalkOK(v)
      BY <1>1, <1>5, <2>3, <2>4 DEF WalkOK, LengthLabels, FlagLabels
    <2>6. /\ Place(w) <= (IF w.coder = "Len" THEN 3 ELSE 6) /\ Place(w) \in Nat
          /\ Place(v) = ((IF w.coder = "Len" THEN 4 ELSE 7) + kLenNumHighBits) - levels
      BY <1>1, <2>3 DEF Place
    <2>7. LeadsTo(w, v)
      BY <1>2, <1>4, <1>5, <2>3, <2>5, <2>6
    <2> QED
      BY <2>7 DEF v
  <1>6. CASE w.at = "choice" /\ bit = 0
    <2>1. Took(d, w, bit) = Into(w, "low", kLenNumLowBits)
      BY <1>6 DEF Took
    <2> QED
      BY <1>2, <1>5, <2>1
  <1>7. CASE w.at = "choice2" /\ bit = 0
    <2>1. Took(d, w, bit) = Into(w, "mid", kLenNumMidBits)
      BY <1>7 DEF Took
    <2> QED
      BY <1>2, <1>5, <2>1
  <1>8. CASE w.at = "choice2" /\ bit = 1
    <2>1. Took(d, w, bit) = Into(w, "high", kLenNumHighBits)
      BY <1>8 DEF Took
    <2>2. kLenNumHighBits \in 1 .. kLenNumHighBits
      BY <1>2
    <2> QED
      BY <1>5, <2>1, <2>2
  <1>9. CASE w.at = "choice" /\ bit = 1
    <2> DEFINE v == Took(d, w, bit)
    <2>1. v = [w EXCEPT !.at = "choice2"]
      BY <1>9 DEF Took
    <2> HIDE DEF v
    <2>2. /\ v \in WalkTypes /\ v.at = "choice2" /\ v.kind = w.kind /\ v.coder = w.coder
          /\ v.posSlot = w.posSlot
      BY <1>1, <2>1 DEF WalkTypes
    <2>3. WalkOK(v)
      BY <1>1, <2>2 DEF WalkOK, LengthLabels, FlagLabels
    <2>4. /\ Place(w) = (IF w.coder = "Len" THEN 2 ELSE 5)
          /\ Place(v) = (IF w.coder = "Len" THEN 3 ELSE 6)
      BY <1>9, <2>2 DEF Place
    <2>5. LeadsTo(w, v)
      BY <1>2, <1>4, <2>2, <2>3, <2>4
    <2> QED
      BY <2>5 DEF v
  <1> QED
    BY <1>6, <1>7, <1>8, <1>9

(* A length that is complete ends the symbol of a repetition and leads a    *)
(* match to its slot.                                                       *)
LEMMA LengthLeads ==
    ASSUME NEW w, WalkOK(w), w.at \in {"low", "mid", "high"}, NEW len \in 0 .. LengthSymbols - 1
    PROVE  LeadsTo(w, LengthEnds(w, len))
  <1>1. /\ w \in WalkTypes /\ w.kind = (IF w.coder = "Len" THEN "match" ELSE "rep")
        /\ ~(w.posSlot >= kEndPosModelIndex) /\ w.left \in 1 .. kLenNumHighBits
    BY SymbolSizes DEF WalkOK, LengthLabels, Treed
  <1>2. /\ SlotDecisions \in Nat /\ SlotDecisions = 4 + kLenNumHighBits + kNumPosSlotBits
        /\ MaxDecisions \in Nat /\ kNumPosSlotBits \in 3 .. 6
        /\ FooterBits(kEndPosModelIndex - 1) \in 1 .. MaxDecisions - SlotDecisions
        /\ kLenNumHighBits \in 1 .. 16
    BY DecisionCounts
  <1>3. Directs(w) = 0
    BY <1>1 DEF Directs
  <1>4. Place(w) = ((IF w.coder = "Len" THEN 4 ELSE 7) + kLenNumHighBits) - w.left
    BY DEF Place
  <1> DEFINE u == [w EXCEPT !.len = len]
             v == LengthEnds(w, len)
  <1>5. v = IF w.coder = "Len" THEN [u EXCEPT !.at = "PosSlot", !.i = 1, !.left = kNumPosSlotBits]
            ELSE [u EXCEPT !.at = "done"]
    BY DEF LengthEnds, Into
  <1> HIDE DEF v
  <1>6. u \in WalkTypes /\ u.kind = w.kind /\ u.coder = w.coder /\ u.posSlot = w.posSlot
    BY <1>1 DEF WalkTypes
  <1> HIDE DEF u
  <1>7. CASE w.coder = "Len"
    <2>1. /\ v \in WalkTypes /\ v.at = "PosSlot" /\ v.i = 1 /\ v.left = kNumPosSlotBits
          /\ v.kind = "match" /\ v.posSlot = w.posSlot
      <3>1. v = [u EXCEPT !.at = "PosSlot", !.i = 1, !.left = kNumPosSlotBits]
        BY <1>5, <1>7
      <3>2. kNumPosSlotBits \in Nat /\ u.kind = "match"
        BY <1>1, <1>2, <1>6, <1>7
      <3> QED
        BY <1>6, <3>1, <3>2 DEF WalkTypes
    <2>2. Treed(v, kNumPosSlotBits)
      BY <1>2, <2>1, AtTheRoot
    <2>3. WalkOK(v)
      BY <1>1, <2>1, <2>2 DEF WalkOK, FlagLabels, LengthLabels
    <2>4. Place(v) = SlotDecisions - kNumPosSlotBits /\ Directs(v) = 0
      BY <1>1, <2>1 DEF Place, Directs
    <2>5. Place(w) \in Nat /\ Place(v) \in Nat /\ Place(w) < Place(v) /\ Place(v) <= MaxDecisions
      BY <1>1, <1>2, <1>4, <1>7, <2>4
    <2>6. LeadsTo(w, v)
      BY <1>3, <2>3, <2>4, <2>5, LeadsOn
    <2> QED
      BY <2>6 DEF v
  <1>8. CASE w.coder # "Len"
    <2>1. v \in WalkTypes /\ v.at = "done" /\ v.kind = "rep" /\ v.posSlot = w.posSlot
      BY <1>1, <1>5, <1>6, <1>8 DEF WalkTypes
    <2>2. WalkOK(v)
      BY <1>1, <2>1 DEF WalkOK, FlagLabels, LengthLabels
    <2>3. Place(v) = SlotDecisions + FooterBits(kEndPosModelIndex - 1) /\ Directs(v) = 0
      BY <1>1, <2>1 DEF Place, LastPlace, Directs
    <2>4. Place(w) \in Nat /\ Place(v) \in Nat /\ Place(w) < Place(v) /\ Place(v) <= MaxDecisions
      BY <1>1, <1>2, <1>4, <1>8, <2>3
    <2>5. LeadsTo(w, v)
      BY <1>3, <2>2, <2>3, <2>4, LeadsOn
    <2> QED
      BY <2>5 DEF v
  <1> QED
    BY <1>7, <1>8

(* A decision in one of the length coder's trees leads on.                  *)
LEMMA LengthTreesLead ==
    ASSUME NEW d, NEW w, WalkOK(w), w.at \in {"low", "mid", "high"}, NEW bit \in {0, 1}
    PROVE  LeadsTo(w, Took(d, w, bit))
  <1> DEFINE levels == CASE w.at = "low" -> kLenNumLowBits
                         [] w.at = "mid" -> kLenNumMidBits
                         [] w.at = "high" -> kLenNumHighBits
             u == Deeper(w, bit)
             len == CASE w.at = "low" -> u.i - kLenNumLowSymbols
                      [] w.at = "mid" -> u.i - kLenNumMidSymbols + kLenNumLowSymbols
                      [] w.at = "high" -> (u.i - kLenNumHighSymbols)
                                          + kLenNumLowSymbols + kLenNumMidSymbols
             v == Took(d, w, bit)
  <1>1. /\ w.at = "low" => levels = kLenNumLowBits /\ len = u.i - kLenNumLowSymbols
        /\ w.at = "mid" => levels = kLenNumMidBits
                           /\ len = u.i - kLenNumMidSymbols + kLenNumLowSymbols
        /\ w.at = "high" => levels = kLenNumHighBits
             /\ len = (u.i - kLenNumHighSymbols) + kLenNumLowSymbols + kLenNumMidSymbols
    OBVIOUS
  <1>2. v = IF u.left = 0 THEN LengthEnds(w, len) ELSE u
    BY DEF Took, Then
  <1> HIDE DEF levels, len, v
  <1>3. /\ w \in WalkTypes /\ Treed(w, levels) /\ ~(w.posSlot >= kEndPosModelIndex)
        /\ w.kind = (IF w.coder = "Len" THEN "match" ELSE "rep")
    BY <1>1 DEF WalkOK, LengthLabels
  <1>4. levels \in 1 .. kLenNumHighBits /\ levels \in 1 .. 31 /\ kLenNumHighBits \in 1 .. 16
    BY <1>1, SymbolSizes
  <1>5. /\ u \in WalkTypes /\ Same(u, w) /\ u.left = w.left - 1
        /\ u.left # 0 => Treed(u, levels)
        /\ u.left = 0 => u.i \in Power(levels) .. Power(levels + 1) - 1
    BY <1>3, <1>4, DeeperLeads
  <1> HIDE DEF u
  <1>6. CASE u.left = 0
    <2>1. Power(levels + 1) = 2 * Power(levels) /\ Power(levels) \in Nat
      BY <1>4, PowersGrow, PowersNatural
    <2>2. u.i \in Power(levels) .. 2 * Power(levels) - 1
      BY <1>5, <1>6, <2>1
    <2>3. /\ w.at = "low" => Power(levels) = kLenNumLowSymbols
          /\ w.at = "mid" => Power(levels) = kLenNumMidSymbols
          /\ w.at = "high" => Power(levels) = kLenNumHighSymbols
          /\ kLenNumLowSymbols \in Nat /\ kLenNumMidSymbols \in Nat /\ kLenNumHighSymbols \in Nat
          /\ LengthSymbols = kLenNumLowSymbols + kLenNumMidSymbols + kLenNumHighSymbols
      BY <1>1, SymbolSizes
    <2>4. len \in 0 .. LengthSymbols - 1
      <3>1. CASE w.at = "low"
        BY <1>1, <2>2, <2>3, <3>1
      <3>2. CASE w.at = "mid"
        BY <1>1, <2>2, <2>3, <3>2
      <3>3. CASE w.at = "high"
        BY <1>1, <2>2, <2>3, <3>3
      <3> QED
        BY <3>1, <3>2, <3>3
    <2> QED
      BY <1>2, <1>6, <2>4, LengthLeads DEF v
  <1>7. CASE u.left # 0
    <2>1. v = u
      BY <1>2, <1>7
    <2>2. /\ v \in WalkTypes /\ v.at = w.at /\ v.kind = w.kind /\ v.coder = w.coder
          /\ v.posSlot = w.posSlot /\ Treed(v, levels) /\ v.left = w.left - 1
      BY <1>5, <1>7, <2>1 DEF Same
    <2>3. WalkOK(v)
      BY <1>1, <1>3, <2>2 DEF WalkOK, LengthLabels, FlagLabels
    <2>4. /\ Place(w) = ((IF w.coder = "Len" THEN 4 ELSE 7) + kLenNumHighBits) - w.left
          /\ Place(v) = ((IF w.coder = "Len" THEN 4 ELSE 7) + kLenNumHighBits) - (w.left - 1)
      BY <2>2 DEF Place
    <2>5. Directs(v) = 0 /\ Directs(w) = 0
      BY <1>3, <2>2 DEF Directs
    <2>6. w.left \in 1 .. levels /\ w.left - 1 \in 1 .. levels
      BY <1>3, <2>2 DEF Treed
    <2>7. MaxDecisions >= 7 + kLenNumHighBits /\ MaxDecisions \in Nat
      BY DecisionCounts
    <2>8. Place(w) \in Nat /\ Place(v) \in Nat /\ Place(w) < Place(v) /\ Place(v) <= MaxDecisions
      BY <1>4, <2>4, <2>6, <2>7
    <2>9. LeadsTo(w, v)
      BY <2>3, <2>5, <2>8, LeadsOn
    <2> QED
      BY <2>9 DEF v
  <1> QED
    BY <1>6, <1>7

(* ... and those of a distance.                                             *)
LEMMA Footers ==
    /\ Power(kNumPosSlotBits) \in Nat
    /\ \A s \in kStartPosModelIndex .. Power(kNumPosSlotBits) - 1 :
        /\ FooterBits(s) \in 1 .. MostDirects + kNumAlignBits /\ SlotBase(s) \in Nat
        /\ s < kEndPosModelIndex => FooterBits(s) <= FooterBits(kEndPosModelIndex - 1)
        /\ s >= kEndPosModelIndex => FooterBits(s) - kNumAlignBits \in 1 .. MostDirects
    /\ MostDirects + kNumAlignBits <= 30
    /\ kEndPosModelIndex \in Nat /\ kEndPosModelIndex > kStartPosModelIndex
    /\ kEndPosModelIndex <= Power(kNumPosSlotBits) - 1
  <1>1. /\ kNumPosSlotBits \in 3 .. 6 /\ kNumAlignBits \in Nat \ {0}
        /\ kEndPosModelIndex % 2 = 0
        /\ kEndPosModelIndex \in 2 * (kNumAlignBits + 2) .. Power(kNumPosSlotBits) - 1
    BY SymbolAssumption DEF Power
  <1>2. Power(kNumPosSlotBits) \in {8, 16, 32, 64}
    <2>1. CASE kNumPosSlotBits = 3
      BY <2>1 DEF Power
    <2>2. CASE kNumPosSlotBits = 4
      BY <2>2 DEF Power
    <2>3. CASE kNumPosSlotBits = 5
      BY <2>3 DEF Power
    <2>4. CASE kNumPosSlotBits = 6
      BY <2>4 DEF Power
    <2> QED
      BY <1>1, <2>1, <2>2, <2>3, <2>4
  <1>3. FooterBits(Power(kNumPosSlotBits) - 1) = MostDirects + kNumAlignBits
    BY DecisionCounts DEF Power
  <1>4. ASSUME NEW s \in kStartPosModelIndex .. Power(kNumPosSlotBits) - 1
        PROVE  /\ FooterBits(s) \in 1 .. MostDirects + kNumAlignBits /\ SlotBase(s) \in Nat
               /\ s < kEndPosModelIndex => FooterBits(s) <= FooterBits(kEndPosModelIndex - 1)
               /\ s >= kEndPosModelIndex => FooterBits(s) - kNumAlignBits \in 1 .. MostDirects
    <2>1. s \in 4 .. Power(kNumPosSlotBits) - 1 /\ s \in Nat
      BY <1>2 DEF kStartPosModelIndex
    <2>2. /\ FooterBits(s) \in 1 .. FooterBits(Power(kNumPosSlotBits) - 1)
          /\ FooterBits(Power(kNumPosSlotBits) - 1) <= 30
          /\ s < kEndPosModelIndex => FooterBits(s) <= FooterBits(kEndPosModelIndex - 1)
          /\ s >= kEndPosModelIndex => FooterBits(s) >= kNumAlignBits + 1
      BY <1>1, <1>2, <2>1 DEF FooterBits
    <2>3. FooterBits(s) \in 0 .. 32
      BY <1>2, <2>1 DEF FooterBits
    <2>4. Power(FooterBits(s)) \in Nat
      BY <2>3, PowersNatural
    <2>5. SlotBase(s) = (2 + (s % 2)) * Power(FooterBits(s)) /\ 2 + (s % 2) \in Nat
      BY <2>1 DEF SlotBase, Power
    <2>6. SlotBase(s) \in Nat
      BY <2>4, <2>5
    <2> QED
      BY <1>1, <1>3, <2>2, <2>6, DecisionCounts
  <1>5. /\ kEndPosModelIndex \in Nat /\ kEndPosModelIndex > kStartPosModelIndex
        /\ kEndPosModelIndex <= Power(kNumPosSlotBits) - 1 /\ Power(kNumPosSlotBits) \in Nat
    BY <1>1, <1>2 DEF kStartPosModelIndex
  <1>6. MostDirects + kNumAlignBits <= 30
    <2>1. FooterBits(Power(kNumPosSlotBits) - 1) <= 30
      BY <1>2 DEF FooterBits
    <2> QED
      BY <1>3, <2>1
  <1> QED
    BY <1>4, <1>5, <1>6

(* So does one for the slot of a distance, which may be all of the          *)
(* distance.                                                                *)
LEMMA SlotLeads ==
    ASSUME NEW d, NEW w, WalkOK(w), w.at = "PosSlot", NEW bit \in {0, 1}
    PROVE  LeadsTo(w, Took(d, w, bit))
  <1> DEFINE u == Deeper(w, bit)
             v == Took(d, w, bit)
             F == FooterBits(kEndPosModelIndex - 1)
  <1>1. v = IF u.left = 0 THEN SlotEnds(u) ELSE u
    BY DEF Took, Then
  <1> HIDE DEF v
  <1>2. /\ w \in WalkTypes /\ Treed(w, kNumPosSlotBits) /\ ~(w.posSlot >= kEndPosModelIndex)
        /\ w.kind = "match" /\ w.left \in 1 .. kNumPosSlotBits
    BY DEF WalkOK, Treed
  <1>3. /\ SlotDecisions \in Nat /\ SlotDecisions > kNumPosSlotBits /\ MaxDecisions \in Nat
        /\ kNumPosSlotBits \in 3 .. 6 /\ kNumPosSlotBits \in 1 .. 31
        /\ F \in 1 .. MaxDecisions - SlotDecisions
        /\ MaxDecisions = SlotDecisions + (MostDirects + kNumAlignBits)
        /\ MostDirects \in 1 .. 30 /\ kNumAlignBits \in 1 .. 30
    BY DecisionCounts
  <1> HIDE DEF F
  <1>4. Place(w) = SlotDecisions - w.left /\ Directs(w) = 0 /\ w.at # "direct"
    BY <1>2 DEF Place, Directs
  <1>5. /\ u \in WalkTypes /\ Same(u, w) /\ u.left = w.left - 1
        /\ u.left # 0 => Treed(u, kNumPosSlotBits)
        /\ u.left = 0 => u.i \in Power(kNumPosSlotBits) .. Power(kNumPosSlotBits + 1) - 1
    BY <1>2, <1>3, DeeperLeads
  <1> HIDE DEF u
  <1>6. CASE u.left # 0
    <2>1. v = u
      BY <1>1, <1>6
    <2>2. /\ v \in WalkTypes /\ v.at = "PosSlot" /\ v.kind = "match"
          /\ v.posSlot = w.posSlot /\ Treed(v, kNumPosSlotBits) /\ v.left = w.left - 1
      BY <1>2, <1>5, <1>6, <2>1 DEF Same
    <2>3. WalkOK(v)
      BY <1>2, <2>2 DEF WalkOK, LengthLabels, FlagLabels
    <2>4. Place(v) = SlotDecisions - (w.left - 1) /\ Directs(v) = 0
      BY <1>2, <2>2 DEF Place, Directs
    <2>5. Place(w) \in Nat /\ Place(v) \in Nat /\ Place(w) < Place(v) /\ Place(v) <= MaxDecisions
      BY <1>2, <1>3, <1>4, <2>4
    <2>6. LeadsTo(w, v)
      BY <1>4, <2>3, <2>4, <2>5, LeadsOn
    <2> QED
      BY <2>6 DEF v
  <1>7. CASE u.left = 0
    <2> DEFINE posSlot == u.i - Power(kNumPosSlotBits)
               x == [u EXCEPT !.posSlot = posSlot, !.distance = posSlot]
    <2>1. /\ posSlot \in 0 .. Power(kNumPosSlotBits) - 1 /\ posSlot \in Nat
          /\ Power(kNumPosSlotBits) \in Nat
      <3>1. Power(kNumPosSlotBits + 1) = 2 * Power(kNumPosSlotBits)
        BY <1>3, PowersGrow
      <3>2. Power(kNumPosSlotBits) \in Nat
        BY Footers
      <3>3. u.i \in Power(kNumPosSlotBits) .. 2 * Power(kNumPosSlotBits) - 1
        BY <1>5, <1>7, <3>1
      <3> QED
        BY <3>2, <3>3
    <2>2. v = IF posSlot < kStartPosModelIndex THEN [x EXCEPT !.at = "done"]
              ELSE IF posSlot < kEndPosModelIndex
              THEN Into([x EXCEPT !.distance = SlotBase(posSlot)], "SpecPos", FooterBits(posSlot))
              ELSE Into([x EXCEPT !.distance = 2 + (posSlot % 2)], "direct",
                        FooterBits(posSlot) - kNumAlignBits)
      BY <1>1, <1>7 DEF SlotEnds, Power
    <2> HIDE DEF posSlot
    <2>3. x \in WalkTypes /\ x.kind = "match" /\ x.posSlot = posSlot /\ x.coder = w.coder
      BY <1>2, <1>5, <2>1 DEF WalkTypes, Same
    <2> HIDE DEF x
    <2>4. Place(w) = SlotDecisions - 1
      BY <1>4, <1>5, <1>7, <1>2
    <2>5. kEndPosModelIndex \in Nat /\ kEndPosModelIndex > kStartPosModelIndex
          /\ kStartPosModelIndex = 4
      BY Footers DEF kStartPosModelIndex
    <2>6. CASE posSlot < kStartPosModelIndex
      <3>1. v = [x EXCEPT !.at = "done"]
        BY <2>2, <2>6
      <3>2. v \in WalkTypes /\ v.at = "done" /\ v.kind = "match" /\ v.posSlot = posSlot
        BY <2>3, <3>1 DEF WalkTypes
      <3>3. WalkOK(v)
        BY <2>5, <2>6, <3>2 DEF WalkOK, LengthLabels, FlagLabels
      <3>4. Place(v) = SlotDecisions + F /\ Directs(v) = 0
        BY <2>1, <2>5, <2>6, <3>2 DEF Place, LastPlace, Directs, F
      <3>5. Place(w) \in Nat /\ Place(v) \in Nat /\ Place(w) < Place(v) /\ Place(v) <= MaxDecisions
        BY <1>3, <2>4, <3>4
      <3>6. LeadsTo(w, v)
        BY <1>4, <3>3, <3>4, <3>5, LeadsOn
      <3> QED
        BY <3>6 DEF v
    <2>7. CASE posSlot \in kStartPosModelIndex .. kEndPosModelIndex - 1
      <3> DEFINE n == FooterBits(posSlot)
      <3>0. posSlot \in kStartPosModelIndex .. Power(kNumPosSlotBits) - 1
        BY <2>1, <2>5, <2>7
      <3>1. n \in 1 .. F /\ n \in Nat \ {0} /\ SlotBase(posSlot) \in Nat
        BY <2>1, <2>5, <2>7, <3>0, Footers DEF F
      <3>2. v = [[x EXCEPT !.distance = SlotBase(posSlot)]
                    EXCEPT !.at = "SpecPos", !.i = 1, !.left = n]
        BY <2>1, <2>2, <2>5, <2>7 DEF Into
      <3> HIDE DEF n
      <3>3. /\ v \in WalkTypes /\ v.at = "SpecPos" /\ v.kind = "match" /\ v.posSlot = posSlot
            /\ v.left = n /\ v.i = 1
        BY <2>3, <3>1, <3>2 DEF WalkTypes
      <3>4. Treed(v, n)
        BY <3>1, <3>3, AtTheRoot
      <3>5. ~(posSlot >= kEndPosModelIndex)
        BY <2>1, <2>5, <2>7
      <3>6. WalkOK(v)
        BY <2>7, <3>3, <3>4, <3>5 DEF WalkOK, LengthLabels, FlagLabels, n
      <3>7. Place(v) = (SlotDecisions + F) - n /\ Directs(v) = 0
        BY <3>3, <3>5 DEF Place, Directs, F
      <3>8. Place(w) \in Nat /\ Place(v) \in Nat /\ Place(w) < Place(v) /\ Place(v) <= MaxDecisions
        BY <1>3, <2>4, <3>1, <3>7
      <3>9. LeadsTo(w, v)
        BY <1>4, <3>6, <3>7, <3>8, LeadsOn
      <3> QED
        BY <3>9 DEF v
    <2>8. CASE posSlot >= kEndPosModelIndex
      <3> DEFINE n == FooterBits(posSlot) - kNumAlignBits
      <3>0. posSlot \in kStartPosModelIndex .. Power(kNumPosSlotBits) - 1
        BY <2>1, <2>5, <2>8
      <3>1. n \in 1 .. MostDirects /\ n \in Nat \ {0} /\ 2 + (posSlot % 2) \in Nat
        BY <1>3, <2>1, <2>8, <3>0, Footers
      <3>2. v = [[x EXCEPT !.distance = 2 + (posSlot % 2)]
                    EXCEPT !.at = "direct", !.i = 1, !.left = n]
        BY <2>1, <2>2, <2>5, <2>8 DEF Into
      <3> HIDE DEF n
      <3>3. /\ v \in WalkTypes /\ v.at = "direct" /\ v.kind = "match" /\ v.posSlot = posSlot
            /\ v.left = n
        BY <2>3, <3>1, <3>2 DEF WalkTypes
      <3>4. WalkOK(v)
        BY <2>8, <3>1, <3>3 DEF WalkOK, LengthLabels, FlagLabels
      <3>5. Place(v) = (SlotDecisions + MostDirects) - n
        BY <3>3 DEF Place
      <3>6. Place(w) \in 0 .. MaxDecisions - 1 /\ Place(v) \in Place(w) + 1 .. MaxDecisions
            /\ Place(w) + 1 = SlotDecisions
        BY <1>3, <2>4, <3>1, <3>5
      <3>7. ~(Place(w) \in SlotDecisions .. (SlotDecisions + Directs(w)) - 1)
        BY <1>3, <1>4, <2>4
      <3>8. LeadsTo(w, v)
        BY <1>4, <3>4, <3>6, <3>7 DEF LeadsTo
      <3> QED
        BY <3>8 DEF v
    <2> QED
      BY <2>1, <2>5, <2>6, <2>7, <2>8
  <1> QED
    BY <1>6, <1>7

(* So does one for the low bits of a distance, which come in reverse and    *)
(* end the symbol.                                                          *)
LEMMA ReverseLeads ==
    ASSUME NEW d, NEW w, WalkOK(w), w.at \in {"SpecPos", "Align"}, NEW bit \in {0, 1}
    PROVE  LeadsTo(w, Took(d, w, bit))
  <1> DEFINE levels == IF w.at = "SpecPos" THEN FooterBits(w.posSlot) ELSE kNumAlignBits
             n == CHOOSE k \in 0 .. FooterBits(2 ^ kNumPosSlotBits - 1) :
                    2 ^ k <= w.i /\ w.i < 2 ^ (k + 1)
             x == [w EXCEPT !.distance = @ + bit * 2 ^ n]
             u == Deeper(x, bit)
             v == Took(d, w, bit)
             F == FooterBits(kEndPosModelIndex - 1)
  <1>1. v = IF u.left = 0 THEN [u EXCEPT !.at = "done"] ELSE u
    BY DEF Took, ReverseBit, Then
  <1> HIDE DEF v
  <1>2. /\ SlotDecisions \in Nat /\ MaxDecisions \in Nat /\ F \in 1 .. MaxDecisions - SlotDecisions
        /\ MaxDecisions = SlotDecisions + (MostDirects + kNumAlignBits)
        /\ MostDirects \in 1 .. 30 /\ kNumAlignBits \in 1 .. 30
    BY DecisionCounts
  <1>3. w \in WalkTypes /\ Treed(w, levels) /\ levels \in 1 .. MostDirects + kNumAlignBits
        /\ (w.at = "SpecPos" => levels <= F) /\ w.kind = "match"
    <2>1. CASE w.at = "SpecPos"
      <3>1. /\ w \in WalkTypes /\ w.kind = "match" /\ Treed(w, FooterBits(w.posSlot))
            /\ w.posSlot \in kStartPosModelIndex .. kEndPosModelIndex - 1
        BY <2>1 DEF WalkOK
      <3>2. w.posSlot \in kStartPosModelIndex .. Power(kNumPosSlotBits) - 1
            /\ w.posSlot < kEndPosModelIndex
        BY <3>1, Footers DEF kStartPosModelIndex
      <3>3. FooterBits(w.posSlot) \in 1 .. MostDirects + kNumAlignBits /\ FooterBits(w.posSlot) <= F
        BY <3>2, Footers
      <3> QED
        BY <2>1, <3>1, <3>3
    <2>2. CASE w.at = "Align"
      BY <1>2, <2>2 DEF WalkOK
    <2> QED
      BY <2>1, <2>2
  <1>4. levels \in 1 .. 31 /\ w.left \in 1 .. levels
    BY <1>2, <1>3, Footers DEF Treed
  <1>5. bit * 2 ^ n \in Nat
    <2> DEFINE k == levels - w.left
               FB == FooterBits(2 ^ kNumPosSlotBits - 1)
    <2>1. k \in 0 .. FB /\ FB = MostDirects + kNumAlignBits /\ FB \in 0 .. 30
      BY <1>2, <1>3, <1>4, DecisionCounts, Footers
    <2>2. w.i \in Power(k) .. Power(k + 1) - 1 /\ Power(k) \in Nat /\ Power(k + 1) \in Nat
      <3>1. k \in 0 .. 32 /\ k + 1 \in 0 .. 32
        BY <2>1
      <3>2. Power(k) \in Nat /\ Power(k + 1) \in Nat
        BY <3>1, PowersNatural
      <3> QED
        BY <1>3, <3>2 DEF Treed
    <2>3. 2 ^ k <= w.i /\ w.i < 2 ^ (k + 1)
      BY <2>2 DEF Power
    <2> HIDE DEF k
    <2>4. n \in 0 .. FB
      BY <2>1, <2>3
    <2> HIDE DEF n, FB
    <2>5. Power(n) \in Nat
      <3>1. n \in 0 .. 32
        BY <2>1, <2>4
      <3> QED
        BY <3>1, PowersNatural
    <2>6. bit * Power(n) \in Nat
      BY <2>5
    <2> QED
      BY <2>6 DEF Power
  <1> HIDE DEF n
  <1>6. x \in WalkTypes /\ Same(x, w) /\ x.left = w.left /\ x.i = w.i
    BY <1>3, <1>5 DEF WalkTypes, Same
  <1>7. Treed(x, levels)
    BY <1>3, <1>6 DEF Treed
  <1> HIDE DEF x, levels
  <1>8. /\ u \in WalkTypes /\ Same(u, x) /\ u.left = x.left - 1
        /\ u.left # 0 => Treed(u, levels)
    BY <1>4, <1>6, <1>7, DeeperLeads
  <1>9. Same(u, w) /\ u.left = w.left - 1
    BY <1>6, <1>8 DEF Same
  <1> HIDE DEF u, F
  <1>10. /\ Place(w) = (IF w.at = "SpecPos" THEN SlotDecisions + F ELSE MaxDecisions) - w.left
         /\ w.at = "SpecPos" => ~(w.posSlot >= kEndPosModelIndex)
         /\ w.at = "Align" => w.posSlot >= kEndPosModelIndex
    <2>1. CASE w.at = "SpecPos"
      <3>1. w.posSlot \in kStartPosModelIndex .. kEndPosModelIndex - 1
        BY <2>1 DEF WalkOK
      <3>2. ~(w.posSlot >= kEndPosModelIndex)
        BY <3>1, Footers DEF kStartPosModelIndex
      <3> QED
        BY <2>1, <3>2 DEF Place, F
    <2>2. CASE w.at = "Align"
      BY <2>2 DEF WalkOK, Place
    <2> QED
      BY <2>1, <2>2
  <1>11. Directs(w) = IF w.at = "SpecPos" THEN 0 ELSE MostDirects
    BY <1>10 DEF Directs
  <1>12. w.at = "Align" => levels = kNumAlignBits
    BY DEF levels
  <1>13. ASSUME NEW z, WalkOK(z), z.posSlot = w.posSlot, Place(z) \in Nat,
                Place(w) < Place(z), Place(z) <= MaxDecisions
         PROVE  LeadsTo(w, z)
    <2>1. Directs(z) = Directs(w) /\ Directs(w) \in Nat
      BY <1>2, <1>11, <1>13 DEF Directs
    <2>2. /\ Place(w) \in Nat
          /\ (Place(w) < SlotDecisions \/ Directs(w) = 0 \/ Place(w) >= SlotDecisions + Directs(w))
      <3>1. CASE w.at = "SpecPos"
        BY <1>2, <1>3, <1>4, <1>10, <1>11, <3>1
      <3>2. CASE w.at = "Align"
        BY <1>2, <1>4, <1>10, <1>11, <1>12, <3>2
      <3> QED
        BY <3>1, <3>2
    <2> QED
      BY <1>13, <2>1, <2>2, LeadsOn
  <1>14. CASE u.left = 0
    <2>1. v = [u EXCEPT !.at = "done"]
      BY <1>1, <1>14
    <2>2. v \in WalkTypes /\ v.at = "done" /\ v.kind = "match" /\ v.posSlot = w.posSlot
      BY <1>3, <1>8, <1>9, <2>1 DEF WalkTypes, Same
    <2>3. WalkOK(v)
      BY <2>2 DEF WalkOK, LengthLabels, FlagLabels
    <2>4. Place(v) = IF w.at = "SpecPos" THEN SlotDecisions + F ELSE MaxDecisions
      BY <1>10, <2>2 DEF Place, LastPlace, F
    <2>5. Place(v) \in Nat /\ Place(w) < Place(v) /\ Place(v) <= MaxDecisions
      BY <1>2, <1>4, <1>10, <2>4
    <2>6. LeadsTo(w, v)
      BY <1>13, <2>2, <2>3, <2>5
    <2> QED
      BY <2>6 DEF v
  <1>15. CASE u.left # 0
    <2>1. v = u
      BY <1>1, <1>15
    <2>2. /\ v \in WalkTypes /\ v.at = w.at /\ v.kind = "match" /\ v.posSlot = w.posSlot
          /\ v.left = w.left - 1 /\ Treed(v, levels)
      BY <1>3, <1>8, <1>9, <1>15, <2>1 DEF Same
    <2>3. WalkOK(v)
      BY <2>2, <1>10 DEF WalkOK, LengthLabels, FlagLabels, levels
    <2>4. Place(v) = (IF w.at = "SpecPos" THEN SlotDecisions + F ELSE MaxDecisions) - (w.left - 1)
      BY <2>2 DEF Place, F
    <2>5. w.left - 1 \in 1 .. levels
      BY <2>2 DEF Treed
    <2>6. Place(v) \in Nat /\ Place(w) < Place(v) /\ Place(v) <= MaxDecisions
      <3>1. CASE w.at = "SpecPos"
        BY <1>2, <1>3, <1>4, <1>10, <2>4, <2>5, <3>1
      <3>2. CASE w.at = "Align"
        BY <1>2, <1>4, <1>10, <1>12, <2>4, <2>5, <3>2
      <3> QED
        BY <3>1, <3>2
    <2>7. LeadsTo(w, v)
      BY <1>13, <2>2, <2>3, <2>6
    <2> QED
      BY <2>7 DEF v
  <1> QED
    BY <1>14, <1>15

(* So does one for the middle bits of a distance, which are followed by     *)
(* kNumAlignBits.                                                           *)
LEMMA DirectLeads ==
    ASSUME NEW d, NEW w, WalkOK(w), w.at = "direct", NEW bit \in {0, 1}
    PROVE  LeadsTo(w, Took(d, w, bit))
  <1> DEFINE u == [w EXCEPT !.distance = 2 * @ + bit, !.left = @ - 1]
             z == [u EXCEPT !.distance = @ * 2 ^ kNumAlignBits]
             v == Took(d, w, bit)
  <1>1. v = IF u.left = 0 THEN Into(z, "Align", kNumAlignBits) ELSE u
    BY DEF Took, Then
  <1> HIDE DEF v
  <1>2. /\ w \in WalkTypes /\ w.left \in 1 .. MostDirects /\ w.posSlot >= kEndPosModelIndex
        /\ w.kind = "match"
    BY DEF WalkOK
  <1>3. /\ SlotDecisions \in Nat /\ MaxDecisions \in Nat
        /\ MaxDecisions = SlotDecisions + (MostDirects + kNumAlignBits)
        /\ MostDirects \in 1 .. 30 /\ kNumAlignBits \in 1 .. 30
    BY DecisionCounts
  <1>4. 2 * w.distance + bit \in Nat /\ w.left - 1 \in Nat
    BY <1>2, <1>3 DEF WalkTypes
  <1>5. u \in WalkTypes /\ Same(u, w) /\ u.left = w.left - 1
    BY <1>2, <1>4 DEF WalkTypes, Same
  <1>6. z \in WalkTypes /\ Same(z, w)
    <2>1. kNumAlignBits \in 0 .. 32
      BY <1>3
    <2>2. Power(kNumAlignBits) \in Nat
      BY <2>1, PowersNatural
    <2>3. u.distance \in Nat
      BY <1>5 DEF WalkTypes
    <2> HIDE DEF u
    <2>4. u.distance * Power(kNumAlignBits) \in Nat
      BY <2>2, <2>3
    <2>5. u.distance * 2 ^ kNumAlignBits \in Nat
      BY <2>4 DEF Power
    <2> QED
      BY <1>5, <2>5 DEF WalkTypes, Same
  <1> HIDE DEF u, z
  <1>7. Place(w) = (SlotDecisions + MostDirects) - w.left /\ Directs(w) = MostDirects
    BY <1>2 DEF Place, Directs
  <1>8. ASSUME NEW x, WalkOK(x), x.posSlot = w.posSlot, Place(x) \in Nat,
               Place(w) < Place(x), Place(x) <= MaxDecisions
        PROVE  LeadsTo(w, x)
    <2>1. Directs(x) = Directs(w)
      BY <1>8 DEF Directs
    <2>2. /\ Place(w) \in 0 .. MaxDecisions - 1
          /\ Place(w) \in SlotDecisions .. (SlotDecisions + Directs(w)) - 1
          /\ Place(x) \in Place(w) + 1 .. MaxDecisions
      BY <1>2, <1>3, <1>7, <1>8
    <2> QED
      BY <1>8, <2>1, <2>2 DEF LeadsTo
  <1>9. CASE u.left = 0
    <2>1. v = [z EXCEPT !.at = "Align", !.i = 1, !.left = kNumAlignBits]
      BY <1>1, <1>9 DEF Into
    <2>2. kNumAlignBits \in Nat \ {0}
      BY <1>3
    <2>3. /\ v \in WalkTypes /\ v.at = "Align" /\ v.kind = "match" /\ v.posSlot = w.posSlot
          /\ v.i = 1 /\ v.left = kNumAlignBits
      BY <1>2, <1>6, <2>1, <2>2 DEF WalkTypes, Same
    <2>4. Treed(v, kNumAlignBits)
      BY <2>2, <2>3, AtTheRoot
    <2>5. WalkOK(v)
      BY <1>2, <2>3, <2>4 DEF WalkOK, LengthLabels, FlagLabels
    <2>6. Place(v) = MaxDecisions - kNumAlignBits
      BY <2>3 DEF Place
    <2>7. LeadsTo(w, v)
      BY <1>2, <1>3, <1>7, <1>8, <2>3, <2>5, <2>6
    <2> QED
      BY <2>7 DEF v
  <1>10. CASE u.left # 0
    <2>1. v = u
      BY <1>1, <1>10
    <2>2. /\ v \in WalkTypes /\ v.at = "direct" /\ v.kind = "match" /\ v.posSlot = w.posSlot
          /\ v.left = w.left - 1
      BY <1>2, <1>5, <2>1 DEF Same
    <2>3. v.left \in 1 .. MostDirects
      BY <1>2, <1>3, <1>5, <1>10, <2>2
    <2>4. WalkOK(v)
      BY <1>2, <2>2, <2>3 DEF WalkOK, LengthLabels, FlagLabels
    <2>5. Place(v) = (SlotDecisions + MostDirects) - (w.left - 1)
      BY <2>2 DEF Place
    <2>6. LeadsTo(w, v)
      BY <1>2, <1>3, <1>7, <1>8, <2>2, <2>4, <2>5
    <2> QED
      BY <2>6 DEF v
  <1> QED
    BY <1>9, <1>10

(* Every decision leads from a good place of a symbol to a good place,      *)
(* further along it.                                                        *)
LEMMA TookLeads ==
    ASSUME NEW d, KnownOK(d), NEW w, WalkOK(w), ~Done(w), NEW bit \in {0, 1}
    PROVE  LeadsTo(w, Took(d, w, bit))
  <1>1. w.at \in {"IsMatch", "literal", "IsRep", "IsRepG0", "IsRep0Long", "IsRepG1", "IsRepG2",
                  "choice", "choice2", "low", "mid", "high", "PosSlot", "SpecPos", "direct",
                  "Align"}
    BY DEF WalkOK, WalkTypes, Done
  <1> QED
    BY <1>1, FlagsLead, LiteralLeads, ChoiceLeads, LengthTreesLead, SlotLeads, ReverseLeads,
       DirectLeads DEF FlagLabels
-----------------------------------------------------------------------------
(* Every decision but a direct bit has a context, and the context a         *)
(* probability.                                                             *)
PosStates == 0 .. Power(pb) - 1
LitStates == 0 .. Power(lc + lp) - 1
SpecPlaces == 0 .. (Power(kEndPosModelIndex \div 2) - kEndPosModelIndex) - 1
TreeNodes(levels) == 1 .. Power(levels) - 1

(* Which probabilities there are (the layout of probs in LzmaDec.c).        *)
LEMMA ContextSets ==
    /\ {"IsMatch", "IsRep0Long"} \X (0 .. 11) \X PosStates \subseteq AllContexts
    /\ {"IsRep", "IsRepG0", "IsRepG1", "IsRepG2"} \X (0 .. 11) \subseteq AllContexts
    /\ {"Literal"} \X LitStates \X (0 .. 2) \X TreeNodes(NumLitBits) \subseteq AllContexts
    /\ {"Len", "RepLen"} \X {"choice", "choice2"} \subseteq AllContexts
    /\ {"Len", "RepLen"} \X {"low"} \X PosStates \X TreeNodes(kLenNumLowBits) \subseteq AllContexts
    /\ {"Len", "RepLen"} \X {"mid"} \X PosStates \X TreeNodes(kLenNumMidBits) \subseteq AllContexts
    /\ {"Len", "RepLen"} \X {"high"} \X TreeNodes(kLenNumHighBits) \subseteq AllContexts
    /\ {"PosSlot"} \X (0 .. 3) \X TreeNodes(kNumPosSlotBits) \subseteq AllContexts
    /\ {"SpecPos"} \X SpecPlaces \subseteq AllContexts
    /\ {"Align"} \X TreeNodes(kNumAlignBits) \subseteq AllContexts
  <1>1. kNumLenToPosStates - 1 = 3
    BY DEF kNumLenToPosStates
  <1>2. AllContexts =
          ({"IsMatch", "IsRep0Long"} \X (0 .. 11) \X PosStates)
          \cup ({"IsRep", "IsRepG0", "IsRepG1", "IsRepG2"} \X (0 .. 11))
          \cup ({"Literal"} \X LitStates \X (0 .. 2) \X TreeNodes(NumLitBits))
          \cup ({"Len", "RepLen"} \X {"choice", "choice2"})
          \cup ({"Len", "RepLen"} \X {"low"} \X PosStates \X TreeNodes(kLenNumLowBits))
          \cup ({"Len", "RepLen"} \X {"mid"} \X PosStates \X TreeNodes(kLenNumMidBits))
          \cup ({"Len", "RepLen"} \X {"high"} \X TreeNodes(kLenNumHighBits))
          \cup ({"PosSlot"} \X (0 .. kNumLenToPosStates - 1) \X TreeNodes(kNumPosSlotBits))
          \cup ({"SpecPos"} \X SpecPlaces)
          \cup ({"Align"} \X TreeNodes(kNumAlignBits))
    BY Zenon DEF AllContexts, Nodes, Power, PosStates, LitStates, SpecPlaces, TreeNodes
  <1> QED
    BY <1>1, <1>2, Zenon

(* posState selects one of the 1 << pb columns.                             *)
LEMMA PosStateIs ==
    ASSUME NEW pos \in Nat
    PROVE  PosState(pos) \in PosStates
  <1>1. Power(pb) \in Nat \ {0}
    BY SymbolSizes, PowersNatural
  <1>2. pos % Power(pb) \in 0 .. Power(pb) - 1
    BY <1>1
  <1> QED
    BY <1>2 DEF PosState, PosStates, Power

(* The state of the literal coder selects one of its 1 << (lc + lp) tables. *)
LEMMA LitStateIs ==
    ASSUME NEW pos \in Nat, NEW byte \in Letters
    PROVE  LitState(pos, byte) \in LitStates
  <1> DEFINE j == NumLitBits - lc
             a == Power(lp)
             b == Power(lc)
             e == Power(j)
             x == pos % a
             y == byte \div e
  <1>1. /\ lc \in 0 .. 16 /\ lp \in 0 .. 8 /\ j \in 0 .. 16 /\ lc + j = NumLitBits
        /\ lp + lc = lc + lp /\ NumLitBits \in 1 .. 16
    BY SymbolSizes
  <1>2. a \in Nat \ {0} /\ b \in Nat \ {0} /\ e \in Nat \ {0}
    BY <1>1, PowersNatural
  <1>3. Power(lc + lp) = a * b
    <2>1. Power(lp + lc) = Power(lp) * Power(lc)
      BY <1>1, PowerOfSum
    <2> QED
      BY <1>1, <2>1
  <1>4. Power(NumLitBits) = b * e
    <2>1. Power(lc + j) = Power(lc) * Power(j)
      BY <1>1, PowerOfSum
    <2> QED
      BY <1>1, <2>1
  <1>5. LitState(pos, byte) = (x * b) + y
    BY DEF LitState, Power
  <1>6. byte \in 0 .. b * e - 1
    BY <1>4 DEF Letters
  <1> HIDE DEF a, b, e, j
  <1>7. x \in 0 .. a - 1
    BY <1>2
  <1>8. y \in 0 .. b - 1
    <2>1. b * e \in Nat
      BY <1>2
    <2>2. byte \in Nat /\ byte < b * e
      BY <1>6, <2>1
    <2>3. y \in Nat /\ y * e <= byte
      <3>1. byte <= byte
        BY <2>2
      <3> QED
        BY <1>2, <2>2, <3>1, Quotients
    <2> HIDE DEF y
    <2>4. ~(y >= b)
      <3> SUFFICES ASSUME y >= b PROVE FALSE
        OBVIOUS
      <3>1. b * e <= y * e /\ y * e \in Nat
        BY <1>2, <2>3
      <3> QED
        BY <2>1, <2>2, <2>3, <3>1
    <2> QED
      BY <1>2, <2>3, <2>4
  <1> HIDE DEF x, y
  <1>9. (x * b) + y \in 0 .. a * b - 1
    <2>1. x * b \in Nat /\ a * b \in Nat /\ x + 1 \in Nat
      BY <1>2, <1>7
    <2>2. (x + 1) * b <= a * b
      BY <1>2, <1>7
    <2>3. (x + 1) * b = x * b + b
      BY <1>2, <1>7
    <2> QED
      BY <1>2, <1>8, <2>1, <2>2, <2>3
  <1> QED
    BY <1>3, <1>5, <1>9 DEF LitStates

(* The probabilities of the slots' reverse trees lie one after the other.   *)
LEMMA SpecPosIs ==
    ASSUME NEW s \in kStartPosModelIndex .. kEndPosModelIndex - 1,
           NEW i \in TreeNodes(FooterBits(s))
    PROVE  SpecPos(s) + i \in SpecPlaces
  <1> DEFINE h == kEndPosModelIndex \div 2
             a == s \div 2
             u == Power(a - 1)
  <1>1. kEndPosModelIndex \in 6 .. 63 /\ kEndPosModelIndex % 2 = 0
    <2>1. Power(kNumPosSlotBits) \in {8, 16, 32, 64}
      <3>1. CASE kNumPosSlotBits = 3
        BY <3>1 DEF Power
      <3>2. CASE kNumPosSlotBits = 4
        BY <3>2 DEF Power
      <3>3. CASE kNumPosSlotBits = 5
        BY <3>3 DEF Power
      <3>4. CASE kNumPosSlotBits = 6
        BY <3>4 DEF Power
      <3> QED
        BY <3>1, <3>2, <3>3, <3>4, DecisionCounts
    <2>2. kNumAlignBits \in 1 .. 30
      BY DecisionCounts
    <2> QED
      BY <2>1, <2>2, SymbolSizes
  <1>2. s \in 4 .. kEndPosModelIndex - 1
    BY DEF kStartPosModelIndex
  <1>3. /\ h \in 3 .. 31 /\ kEndPosModelIndex = 2 * h /\ a \in 2 .. h - 1
        /\ s % 2 \in {0, 1} /\ s = 2 * a + (s % 2) /\ FooterBits(s) = a - 1
    BY <1>1, <1>2 DEF FooterBits
  <1>4. u \in Nat \ {0, 1} /\ Power(a) = 2 * u /\ Power(a + 1) = 4 * u
    <2>1. /\ Power((a - 1) + 1) = 2 * Power(a - 1) /\ Power(a + 1) = 2 * Power(a)
          /\ Power(a - 1) \in Nat
      BY <1>3, PowersGrow
    <2>2. Power(0) = 1
      BY DEF Power
    <2>3. Power(0) < Power(a - 1)
      BY <1>3, PowersOrdered
    <2> QED
      BY <1>3, <2>1, <2>2, <2>3
  <1>5. Power(h) - 2 * h >= Power(a + 1) - 2 * (a + 1)
    <2> DEFINE S == {n \in Nat : a + 1 <= n /\ n <= 31
                                    => Power(n) - 2 * n >= Power(a + 1) - 2 * (a + 1)}
    <2>1. 0 \in S
      BY <1>3
    <2>2. \A n \in S \cap Nat : n + 1 \in S
      <3> SUFFICES ASSUME NEW n \in S, a + 1 <= n + 1, n + 1 <= 31
                   PROVE  Power(n + 1) - 2 * (n + 1) >= Power(a + 1) - 2 * (a + 1)
        OBVIOUS
      <3>1. CASE n = a
        <4>1. Power(a + 1) \in Nat
          BY <1>4
        <4> QED
          BY <1>3, <3>1, <4>1
      <3>2. CASE n >= a + 1
        <4>1. Power(n + 1) = 2 * Power(n) /\ Power(n) \in Nat
          BY <1>3, <3>2, PowersGrow
        <4>2. Power(1) = 2
          BY DEF Power
        <4>3. Power(1) <= Power(n)
          BY <1>3, <3>2, PowersMonotone
        <4>4. Power(n) - 2 * n >= Power(a + 1) - 2 * (a + 1) /\ Power(a + 1) \in Nat
          BY <1>3, <1>4, <3>2
        <4> QED
          BY <1>3, <4>1, <4>2, <4>3, <4>4
      <3> QED
        BY <1>3, <3>1, <3>2
    <2> HIDE DEF S
    <2>3. h \in S
      BY <1>3, <2>1, <2>2, NaturalInduction
    <2> QED
      BY <1>3, <2>3 DEF S
  <1>6. SlotBase(s) = (2 + (s % 2)) * u /\ i \in 1 .. u - 1
    BY <1>3 DEF SlotBase, TreeNodes, Power
  <1>7. SpecPlaces = 0 .. (Power(h) - 2 * h) - 1
    BY <1>3 DEF SpecPlaces
  <1>8. Power(h) \in Nat
    BY <1>3, PowersNatural
  <1>9. u >= a
    <2> DEFINE S == {n \in Nat : 1 <= n /\ n <= 31 => Power(n) >= n + 1}
    <2>1. 0 \in S
      OBVIOUS
    <2>2. \A n \in S \cap Nat : n + 1 \in S
      <3> SUFFICES ASSUME NEW n \in S, n + 1 <= 31 PROVE Power(n + 1) >= (n + 1) + 1
        OBVIOUS
      <3>1. Power(n + 1) = 2 * Power(n) /\ Power(n) \in Nat
        BY PowersGrow
      <3>2. CASE n = 0
        BY <3>2 DEF Power
      <3>3. CASE n >= 1
        BY <3>1, <3>3
      <3> QED
        BY <3>2, <3>3
    <2> HIDE DEF S
    <2>3. a - 1 \in S
      BY <1>3, <2>1, <2>2, NaturalInduction
    <2> QED
      BY <1>3, <2>3 DEF S
  <1> HIDE DEF h, a, u
  <1>10. CASE s % 2 = 0
    BY <1>3, <1>4, <1>5, <1>6, <1>7, <1>8, <1>9, <1>10, SMTT(30) DEF SpecPos
  <1>11. CASE s % 2 = 1
    BY <1>3, <1>4, <1>5, <1>6, <1>7, <1>8, <1>9, <1>11, SMTT(30) DEF SpecPos
  <1> QED
    BY <1>3, <1>10, <1>11

(* Every decision that is not direct is made with a probability of the      *)
(* decoder: no index into probs goes astray.                                *)
LEMMA ContextIs ==
    ASSUME NEW d, KnownOK(d), NEW w, WalkOK(w), ~Done(w)
    PROVE  IF w.at = "direct" THEN ContextOf(d, w) = << >>
           ELSE ContextOf(d, w) \in AllContexts /\ ContextOf(d, w) # << >>
  <1> DEFINE c == ContextOf(d, w)
             t == PosState(d.pos)
  <1>1. d.state \in 0 .. 11 /\ t \in PosStates /\ LitState(d.pos, d.prevByte) \in LitStates
    BY PosStateIs, LitStateIs DEF KnownOK
  <1>2. w \in WalkTypes /\ w.coder \in {"Len", "RepLen"} /\ w.len \in Nat
    BY SymbolSizes DEF WalkOK, WalkTypes
  <1>3. ASSUME NEW levels \in 1 .. 31, Treed(w, levels)
        PROVE  w.i \in TreeNodes(levels)
    <2>1. w.i \in Nat /\ w.left \in 1 .. levels
      BY <1>2, <1>3 DEF Treed, WalkTypes
    <2> QED
      BY <1>3, <2>1, LevelDown DEF Treed, TreeNodes
  <1>4. /\ NumLitBits \in 1 .. 31 /\ kLenNumLowBits \in 1 .. 31 /\ kLenNumMidBits \in 1 .. 31
        /\ kLenNumHighBits \in 1 .. 31 /\ kNumPosSlotBits \in 1 .. 31 /\ kNumAlignBits \in 1 .. 31
    BY SymbolSizes, DecisionCounts
  <1>5. CASE w.at \in {"IsMatch", "IsRep0Long"}
    <2>1. c = <<w.at, d.state, t>>
      BY <1>5 DEF ContextOf
    <2>2. c \in {"IsMatch", "IsRep0Long"} \X (0 .. 11) \X PosStates
      BY <1>1, <1>5, <2>1
    <2> QED
      BY <1>5, <2>1, <2>2, ContextSets
  <1>6. CASE w.at \in {"IsRep", "IsRepG0", "IsRepG1", "IsRepG2"}
    <2>1. c = <<w.at, d.state>>
      BY <1>6 DEF ContextOf
    <2>2. c \in {"IsRep", "IsRepG0", "IsRepG1", "IsRepG2"} \X (0 .. 11)
      BY <1>1, <1>6, <2>1
    <2> QED
      BY <1>6, <2>1, <2>2, ContextSets
  <1>7. CASE w.at = "literal"
    <2>1. c = <<"Literal", LitState(d.pos, d.prevByte), w.offs + MatchBit(d, w), w.i>>
      BY <1>7 DEF ContextOf
    <2>2. w.offs + MatchBit(d, w) \in 0 .. 2
      <3>1. MatchBit(d, w) \in {0, w.offs} /\ w.offs \in {0, 1}
        BY <1>2, <1>7, MatchBits DEF WalkTypes
      <3> QED
        BY <3>1
    <2>3. w.i \in TreeNodes(NumLitBits)
      BY <1>3, <1>4, <1>7 DEF WalkOK
    <2>4. c \in {"Literal"} \X LitStates \X (0 .. 2) \X TreeNodes(NumLitBits)
      BY <1>1, <2>1, <2>2, <2>3
    <2> QED
      BY <1>7, <2>1, <2>4, ContextSets
  <1>8. CASE w.at \in {"choice", "choice2"}
    <2>1. c = <<w.coder, w.at>>
      BY <1>8 DEF ContextOf
    <2>2. c \in {"Len", "RepLen"} \X {"choice", "choice2"}
      BY <1>2, <1>8, <2>1
    <2> QED
      BY <1>8, <2>1, <2>2, ContextSets
  <1>9. CASE w.at = "low"
    <2>1. c = <<w.coder, w.at, t, w.i>>
      BY <1>9 DEF ContextOf
    <2>2. w.i \in TreeNodes(kLenNumLowBits)
      BY <1>3, <1>4, <1>9 DEF WalkOK
    <2>3. c \in {"Len", "RepLen"} \X {"low"} \X PosStates \X TreeNodes(kLenNumLowBits)
      BY <1>1, <1>2, <1>9, <2>1, <2>2
    <2> QED
      BY <1>9, <2>1, <2>3, ContextSets
  <1>10. CASE w.at = "mid"
    <2>1. c = <<w.coder, w.at, t, w.i>>
      BY <1>10 DEF ContextOf
    <2>2. w.i \in TreeNodes(kLenNumMidBits)
      BY <1>3, <1>4, <1>10 DEF WalkOK
    <2>3. c \in {"Len", "RepLen"} \X {"mid"} \X PosStates \X TreeNodes(kLenNumMidBits)
      BY <1>1, <1>2, <1>10, <2>1, <2>2
    <2> QED
      BY <1>10, <2>1, <2>3, ContextSets
  <1>11. CASE w.at = "high"
    <2>1. c = <<w.coder, w.at, w.i>>
      BY <1>11 DEF ContextOf
    <2>2. w.i \in TreeNodes(kLenNumHighBits)
      BY <1>3, <1>4, <1>11 DEF WalkOK
    <2>3. c \in {"Len", "RepLen"} \X {"high"} \X TreeNodes(kLenNumHighBits)
      BY <1>2, <1>11, <2>1, <2>2
    <2> QED
      BY <1>11, <2>1, <2>3, ContextSets
  <1>12. CASE w.at = "PosSlot"
    <2> DEFINE class == IF w.len < kNumLenToPosStates THEN w.len ELSE kNumLenToPosStates - 1
    <2>1. c = <<w.at, class, w.i>>
      BY <1>12 DEF ContextOf
    <2>2. class \in 0 .. 3
      BY <1>2 DEF kNumLenToPosStates
    <2>3. w.i \in TreeNodes(kNumPosSlotBits)
      BY <1>3, <1>4, <1>12 DEF WalkOK
    <2> HIDE DEF class
    <2>4. c \in {"PosSlot"} \X (0 .. 3) \X TreeNodes(kNumPosSlotBits)
      BY <1>12, <2>1, <2>2, <2>3
    <2> QED
      BY <1>12, <2>1, <2>4, ContextSets
  <1>13. CASE w.at = "SpecPos"
    <2>1. c = <<w.at, SpecPos(w.posSlot) + w.i>>
      BY <1>13 DEF ContextOf
    <2>2. /\ w.posSlot \in kStartPosModelIndex .. kEndPosModelIndex - 1
          /\ Treed(w, FooterBits(w.posSlot))
      BY <1>13 DEF WalkOK
    <2>3. FooterBits(w.posSlot) \in 1 .. 31
      <3>1. w.posSlot \in kStartPosModelIndex .. Power(kNumPosSlotBits) - 1
        BY <2>2, Footers DEF kStartPosModelIndex
      <3>2. FooterBits(w.posSlot) \in 1 .. MostDirects + kNumAlignBits
            /\ MostDirects + kNumAlignBits <= 30
        BY <3>1, Footers
      <3> QED
        BY <3>2, DecisionCounts
    <2>4. w.i \in TreeNodes(FooterBits(w.posSlot))
      BY <1>3, <2>2, <2>3
    <2>5. SpecPos(w.posSlot) + w.i \in SpecPlaces
      BY <2>2, <2>4, SpecPosIs
    <2>6. c \in {"SpecPos"} \X SpecPlaces
      BY <1>13, <2>1, <2>5
    <2> QED
      BY <1>13, <2>1, <2>6, ContextSets
  <1>14. CASE w.at = "Align"
    <2>1. c = <<w.at, w.i>>
      BY <1>14 DEF ContextOf
    <2>2. w.i \in TreeNodes(kNumAlignBits)
      BY <1>3, <1>4, <1>14 DEF WalkOK
    <2>3. c \in {"Align"} \X TreeNodes(kNumAlignBits)
      BY <1>14, <2>1, <2>2
    <2> QED
      BY <1>14, <2>1, <2>3, ContextSets
  <1>15. CASE w.at = "direct"
    BY <1>15 DEF ContextOf
  <1>16. w.at \in {"IsMatch", "literal", "IsRep", "IsRepG0", "IsRep0Long", "IsRepG1", "IsRepG2",
                   "choice", "choice2", "low", "mid", "high", "PosSlot", "SpecPos", "direct",
                   "Align"}
    BY <1>2 DEF WalkTypes, Done
  <1> HIDE DEF c, t
  <1>17. IF w.at = "direct" THEN c = << >> ELSE c \in AllContexts /\ c # << >>
    BY <1>5, <1>6, <1>7, <1>8, <1>9, <1>10, <1>11, <1>12, <1>13, <1>14, <1>15, <1>16 DEF c
  <1> QED
    BY <1>17 DEF c
-----------------------------------------------------------------------------
(* The coder through the decisions of a symbol.                             *)
Coders == [range : Base * Base .. Word - 1, code : 0 .. Word - 1, buf : Nat,
           probs : [AllContexts -> Probabilities]]

(* An element of a sequence.                                                *)
LEMMA ElementOf ==
    ASSUME NEW S, NEW s \in Seq(S), NEW i \in 1 .. Len(s)
    PROVE  s[i] \in S
  OBVIOUS

(* One byte is enough: NORMALIZE shifts once and never has to again.        *)
LEMMA ShiftedUp ==
    ASSUME NEW x \in Nat, x >= Base * Base, x < kTopValue
    PROVE  x * Base \in Intervals /\ x * Base \in Nat
  <1>1. (Base * Base) * Base <= x * Base
    BY Sizes
  <1>2. x * Base <= (kTopValue - 1) * Base
    BY Sizes
  <1>3. (kTopValue - 1) * Base = kTopValue * Base - Base /\ x * Base \in Nat
    BY Sizes
  <1>4. kTopValue * Base \in Nat /\ (Base * Base) * Base \in Nat
    BY Sizes
  <1> QED
    BY <1>1, <1>2, <1>3, <1>4, Sizes DEF Intervals

(* What NORMALIZE does to a coder.                                          *)
LEMMA NormalizedIs ==
    ASSUME NEW c \in Coders, NEW input \in Seq(0 .. Base - 1)
    PROVE  /\ Normalized(c, input) \in Coders
           /\ Normalized(c, input).range =
                IF c.range >= kTopValue THEN c.range ELSE c.range * Base
           /\ Normalized(c, input).buf = IF c.range >= kTopValue THEN c.buf ELSE c.buf + 1
           /\ Normalized(c, input).range \in Intervals
           /\ Normalized(c, input).probs = c.probs
  <1> DEFINE byte == IF c.buf < Len(input) THEN input[c.buf + 1] ELSE 0
             code == (c.code * Base + byte) % Word
             n == Normalized(c, input)
  <1>1. c.range \in Base * Base .. Word - 1 /\ c.code \in 0 .. Word - 1 /\ c.buf \in Nat
        /\ c.probs \in [AllContexts -> Probabilities]
    BY DEF Coders
  <1>2. c.range \in Nat /\ c.code \in Nat /\ Word \in Nat \ {0} /\ kTopValue \in Nat
    <2>1. \A a \in Nat : \A x \in a .. Word - 1 : x \in Nat /\ x < Word /\ Word # 0
      BY Sizes
    <2> QED
      BY <1>1, <2>1, Sizes
  <1>3. n = IF c.range >= kTopValue THEN c
            ELSE [c EXCEPT !.range = @ * Base, !.code = code, !.buf = @ + 1]
    BY DEF Normalized
  <1>4. byte \in Nat
    <2>1. CASE c.buf < Len(input)
      <3>1. c.buf + 1 \in 1 .. Len(input)
        BY <1>1, <2>1
      <3>2. input[c.buf + 1] \in 0 .. Base - 1
        BY <3>1, ElementOf
      <3> QED
        BY <2>1, <3>2, Sizes
    <2>2. CASE ~(c.buf < Len(input))
      BY <2>2
    <2> QED
      BY <2>1, <2>2
  <1> HIDE DEF n, byte
  <1>5. code \in 0 .. Word - 1
    <2>1. c.code * Base \in Nat
      BY <1>2, Sizes
    <2>2. c.code * Base + byte \in Nat
      BY <1>4, <2>1
    <2> QED
      BY <1>2, <2>2
  <1> HIDE DEF code
  <1>6. CASE c.range >= kTopValue
    BY <1>1, <1>2, <1>3, <1>6, Sizes DEF Intervals, n
  <1>7. CASE ~(c.range >= kTopValue)
    <2>1. n = [c EXCEPT !.range = c.range * Base, !.code = code, !.buf = c.buf + 1]
      BY <1>3, <1>7
    <2>2. c.range * Base \in kTopValue .. Word - 1
      <3>1. c.range * Base \in Intervals
        <4>1. c.range >= Base * Base
          BY <1>1
        <4>2. c.range < kTopValue
          BY <1>2, <1>7
        <4> QED
          BY <1>2, <4>1, <4>2, ShiftedUp
      <3> QED
        BY <3>1 DEF Intervals
    <2>3. c.range * Base \in Base * Base .. Word - 1
      <3> DEFINE y == c.range * Base
      <3>1. y \in kTopValue .. Word - 1
        BY <2>2
      <3> HIDE DEF y
      <3>2. \A a, b, e \in Nat : a <= b => b .. e - 1 \subseteq a .. e - 1
        OBVIOUS
      <3>3. Base * Base \in Nat /\ Base * Base <= kTopValue
        BY Sizes
      <3>4. y \in Base * Base .. Word - 1
        BY <1>2, <3>1, <3>2, <3>3
      <3> QED
        BY <3>4 DEF y
    <2>4. c.buf + 1 \in Nat
      BY <1>1
    <2>5. n \in Coders /\ n.range = c.range * Base /\ n.buf = c.buf + 1 /\ n.probs = c.probs
      BY <1>1, <1>5, <2>1, <2>3, <2>4 DEF Coders
    <2> QED
      BY <1>7, <2>2, <2>5 DEF Intervals, n
  <1> QED
    BY <1>6, <1>7

(* UPDATE_0 and UPDATE_1 keep a probability away from 0 and from 1.         *)
LEMMA ProbabilityKept ==
    ASSUME NEW prob \in Probabilities, NEW bit \in {0, 1}
    PROVE  Moved(prob, bit) \in Probabilities
  <1> DEFINE K == kBitModelTotal
             M == MoveScale
             x == K - prob
  <1>1. K \in Nat \ {0} /\ M \in Nat \ {0, 1} /\ 2 * M <= K
    BY BitModelAssumption
  <1>2. prob \in M - 1 .. K - (M - 1)
    BY DEF Probabilities
  <1> HIDE DEF K, M
  <1>3. x \in Nat /\ prob \in Nat /\ x >= M - 1
    BY <1>1, <1>2
  <1>4. \A y \in Nat : y >= M - 1 => y - y \div M \in M - 1 .. y
    <2> SUFFICES ASSUME NEW y \in Nat, y >= M - 1 PROVE y - y \div M \in M - 1 .. y
      OBVIOUS
    <2> DEFINE q == y \div M
    <2>1. q \in Nat /\ y = M * q + (y % M) /\ y % M \in 0 .. M - 1
      BY <1>1
    <2> HIDE DEF q
    <2>2. CASE q = 0
      BY <1>1, <2>1, <2>2 DEF q
    <2>3. CASE q >= 1
      <3>1. (M - 1) * (q - 1) >= 0
        BY <1>1, <2>1, <2>3
      <3>2. (M - 1) * (q - 1) = M * q - q - (M - 1)
        BY <1>1, <2>1
      <3>3. M * q \in Nat
        BY <1>1, <2>1
      <3> QED
        BY <1>1, <2>1, <3>1, <3>2, <3>3 DEF q
    <2> QED
      BY <2>1, <2>2, <2>3
  <1>5. x - x \div M \in M - 1 .. x /\ prob - prob \div M \in M - 1 .. prob
    <2>1. prob \in Nat /\ prob >= M - 1
      BY <1>1, <1>2
    <2> HIDE DEF x
    <2> QED
      BY <1>3, <1>4, <2>1
  <1>6. x \div M \in Nat
    BY <1>1, <1>3
  <1>7. CASE bit = 0
    <2>1. Moved(prob, bit) = prob + x \div M
      BY <1>7 DEF Moved, K, M
    <2>2. prob + x \div M \in M - 1 .. K - (M - 1)
      BY <1>1, <1>2, <1>3, <1>5, <1>6
    <2> QED
      BY <2>1, <2>2 DEF Probabilities, K, M
  <1>8. CASE bit = 1
    <2>1. Moved(prob, bit) = prob - prob \div M
      BY <1>8 DEF Moved, M
    <2>2. prob - prob \div M \in M - 1 .. K - (M - 1)
      BY <1>1, <1>2, <1>3, <1>5
    <2> QED
      BY <2>1, <2>2 DEF Probabilities, K, M
  <1> QED
    BY <1>7, <1>8

(* What one decision does to the interval.                                  *)
LEMMA AdaptiveShrinks ==
    ASSUME NEW c \in Coders, c.range \in Intervals, NEW context \in AllContexts
    PROVE  /\ AdaptiveBit(c, context).bit \in {0, 1}
           /\ AdaptiveBit(c, context).coder \in Coders
           /\ AdaptiveBit(c, context).coder.range >= Shrunk(c.range, FALSE)
           /\ AdaptiveBit(c, context).coder.buf = c.buf
  <1> DEFINE prob == c.probs[context]
             K == kBitModelTotal
             q == c.range \div K
             bound == NewBound(c.range, prob)
             m == MoveScale - 1
             step == AdaptiveBit(c, context)
  <1>1. /\ c.range \in Nat /\ c.range < Word /\ c.code \in 0 .. Word - 1 /\ c.buf \in Nat
        /\ c.probs \in [AllContexts -> Probabilities] /\ c.range >= kTopValue
    BY Sizes DEF Coders, Intervals
  <1>2. prob \in Probabilities
    BY <1>1
  <1>3. K \in Nat \ {0} /\ m \in Nat /\ prob \in m .. K - m /\ prob \in Nat /\ K - prob \in Nat
        /\ K - prob >= m
    BY <1>2, Sizes DEF Probabilities
  <1>4. q \in Nat /\ q * K <= c.range
    <2>1. c.range <= c.range
      BY <1>1
    <2> QED
      BY <1>1, <1>3, <2>1, Quotients
  <1>5. bound = q * prob /\ Shrunk(c.range, FALSE) = q * m
    BY DEF NewBound, Shrunk
  <1>6. q * m \in Base * Base .. c.range
    BY <1>5, ShrunkRange
  <1>7. step = IF c.code < bound
               THEN [bit |-> 0, coder |-> [c EXCEPT !.range = bound,
                                                    !.probs[context] = Moved(prob, 0)]]
               ELSE [bit |-> 1, coder |-> [c EXCEPT !.range = @ - bound, !.code = @ - bound,
                                                    !.probs[context] = Moved(prob, 1)]]
    BY DEF AdaptiveBit
  <1> HIDE DEF prob, K, q, bound, m, step
  <1>8. q * m <= bound /\ bound \in Nat /\ q * m \in Nat
    BY <1>3, <1>4, <1>5
  <1>9. bound + q * m <= c.range
    <2>1. q * (K - prob) >= q * m /\ q * (K - prob) \in Nat
      BY <1>3, <1>4
    <2>2. q * (K - prob) = q * K - q * prob
      BY <1>3, <1>4
    <2>3. q * K \in Nat
      BY <1>3, <1>4
    <2> QED
      BY <1>1, <1>4, <1>5, <1>8, <2>1, <2>2, <2>3
  <1>10. Moved(prob, 0) \in Probabilities /\ Moved(prob, 1) \in Probabilities
    BY <1>2, ProbabilityKept
  <1>11. CASE c.code < bound
    <2>1. step.bit = 0 /\ step.coder = [c EXCEPT !.range = bound,
                                                 !.probs[context] = Moved(prob, 0)]
      BY <1>7, <1>11
    <2>2. bound \in Base * Base .. Word - 1
      BY <1>1, <1>6, <1>8, <1>9, Sizes
    <2>3. [c.probs EXCEPT ![context] = Moved(prob, 0)] \in [AllContexts -> Probabilities]
      BY <1>1, <1>10
    <2>4. step.coder = [c EXCEPT !.range = bound,
                                 !.probs = [c.probs EXCEPT ![context] = Moved(prob, 0)]]
      BY <2>1
    <2>5. step.coder \in Coders /\ step.coder.range = bound /\ step.coder.buf = c.buf
      BY <1>1, <2>2, <2>3, <2>4 DEF Coders
    <2> QED
      BY <1>5, <1>8, <2>1, <2>5 DEF step
  <1>12. CASE ~(c.code < bound)
    <2>1. step.bit = 1 /\ step.coder = [c EXCEPT !.range = c.range - bound,
                                                 !.code = c.code - bound,
                                                 !.probs[context] = Moved(prob, 1)]
      BY <1>7, <1>12
    <2>2. c.range - bound \in Base * Base .. Word - 1 /\ c.range - bound >= q * m
      BY <1>1, <1>6, <1>8, <1>9, Sizes
    <2>3. [c.probs EXCEPT ![context] = Moved(prob, 1)] \in [AllContexts -> Probabilities]
      BY <1>1, <1>10
    <2>4. step.coder = [c EXCEPT !.range = c.range - bound, !.code = c.code - bound,
                                 !.probs = [c.probs EXCEPT ![context] = Moved(prob, 1)]]
      BY <2>1
    <2>5. c.code - bound \in 0 .. Word - 1
      BY <1>1, <1>8, <1>12, Sizes
    <2>6. /\ step.coder \in Coders /\ step.coder.range = c.range - bound
          /\ step.coder.buf = c.buf
      BY <1>1, <2>2, <2>3, <2>4, <2>5 DEF Coders
    <2> QED
      BY <1>5, <2>1, <2>2, <2>6 DEF step
  <1> QED
    BY <1>11, <1>12

(* A direct bit halves the interval, the odd unit dropped.                  *)
LEMMA DirectShrinks ==
    ASSUME NEW c \in Coders, c.range \in Intervals
    PROVE  /\ DirectBit(c).bit \in {0, 1} /\ DirectBit(c).coder \in Coders
           /\ DirectBit(c).coder.range >= Shrunk(c.range, TRUE)
           /\ DirectBit(c).coder.buf = c.buf
  <1> DEFINE half == c.range \div 2
             code == (c.code - half) % Word
             step == DirectBit(c)
  <1>1. /\ c.range \in Nat /\ c.range < Word /\ c.code \in 0 .. Word - 1 /\ c.buf \in Nat
        /\ c.probs \in [AllContexts -> Probabilities] /\ Word \in Nat \ {0}
    BY Sizes DEF Coders, Intervals
  <1>2. Shrunk(c.range, TRUE) = half
    BY DEF Shrunk
  <1>3. half \in Base * Base .. Word - 1 /\ half \in Nat
    <2>1. half \in Base * Base .. c.range
      BY <1>2, ShrunkRange
    <2> QED
      BY <1>1, <2>1, Sizes
  <1>8. half >= Shrunk(c.range, TRUE)
    <2>1. half \in Nat
      BY <1>3
    <2> HIDE DEF half
    <2>2. half >= half
      BY <2>1
    <2> QED
      BY <1>2, <2>2
  <1>4. code \in 0 .. Word - 1
    <2>1. c.code - half \in Int
      BY <1>1, <1>3
    <2> QED
      BY <1>1, <2>1
  <1>5. step = IF code >= Word \div 2
               THEN [bit |-> 0, coder |-> [c EXCEPT !.range = half]]
               ELSE [bit |-> 1, coder |-> [c EXCEPT !.range = half, !.code = code]]
    BY DEF DirectBit
  <1> HIDE DEF half, code, step
  <1>6. CASE code >= Word \div 2
    <2>1. step.bit = 0 /\ step.coder = [c EXCEPT !.range = half]
      BY <1>5, <1>6
    <2>2. step.coder \in Coders /\ step.coder.range = half /\ step.coder.buf = c.buf
      BY <1>3, <2>1 DEF Coders
    <2>3. step.coder.range >= Shrunk(c.range, TRUE)
      BY <1>8, <2>2
    <2> QED
      BY <2>1, <2>2, <2>3 DEF step
  <1>7. CASE ~(code >= Word \div 2)
    <2>1. step.bit = 1 /\ step.coder = [c EXCEPT !.range = half, !.code = code]
      BY <1>5, <1>7
    <2>2. step.coder \in Coders /\ step.coder.range = half /\ step.coder.buf = c.buf
      BY <1>3, <1>4, <2>1 DEF Coders
    <2>3. step.coder.range >= Shrunk(c.range, TRUE)
      BY <1>8, <2>2
    <2> QED
      BY <2>1, <2>2, <2>3 DEF step
  <1> QED
    BY <1>6, <1>7

(* One decision after the other: the input that is left is at least what    *)
(* Narrowest says of the place.                                             *)
Least(w) == Narrowest(Directs(w))[Place(w)]

OnTheWay(at, base, input) ==
    /\ WalkOK(at.w) /\ at.coder \in Coders /\ Place(at.w) \in 0 .. MaxDecisions
    /\ AtLeast(Normalized(at.coder, input), base, Least(at.w))

(* The number of direct bits is a number.                                   *)
LEMMA DirectsNatural ==
    ASSUME NEW w
    PROVE  Directs(w) \in Nat
  BY DecisionCounts DEF Directs

(* The worst case at one place of a symbol bounds the one at the next.      *)
LEMMA LeastFollows ==
    ASSUME NEW w, NEW v, LeadsTo(w, v), NEW base \in Nat, NEW c, c.range \in Nat, c.buf \in Nat,
           AtLeast(c, base, Narrowed(Least(w), w.at = "direct"))
    PROVE  AtLeast(c, base, Least(v))
  <1> DEFINE m == Place(w)
             k == Place(v)
             i == Directs(w)
             j == Directs(v)
  <1>1. /\ m \in 0 .. MaxDecisions - 1 /\ k \in m + 1 .. MaxDecisions
        /\ j = i \/ (i = 0 /\ m + 1 = SlotDecisions)
        /\ (w.at = "direct") = (m \in SlotDecisions .. SlotDecisions + i - 1)
    <2>1. (SlotDecisions + i) - 1 = SlotDecisions + i - 1
      BY DirectsNatural, DecisionCounts
    <2> QED
      BY <2>1 DEF LeadsTo
  <1>2. i \in Nat /\ j \in Nat
    BY DirectsNatural
  <1>3. AtLeast(c, base, Narrowed(Narrowest(i)[m], m \in SlotDecisions .. SlotDecisions + i - 1))
    BY <1>1 DEF Least
  <1> HIDE DEF m, k, i, j
  <1>4. AtLeast(c, base, Narrowest(i)[m + 1])
    BY <1>1, <1>3, NarrowestIs
  <1>5. Narrowest(i)[m + 1] = Narrowest(j)[m + 1]
    <2>1. CASE j = i
      BY <2>1
    <2>2. CASE i = 0 /\ m + 1 = SlotDecisions
      <3>1. SlotDecisions \in 0 .. SlotDecisions
        BY DecisionCounts
      <3> QED
        BY <1>2, <2>2, <3>1, NarrowestCases
    <2> QED
      BY <1>1, <2>1, <2>2
  <1>6. m + 1 \in 0 .. MaxDecisions /\ k \in 0 .. MaxDecisions /\ m + 1 <= k
    BY <1>1, DecisionCounts
  <1>7. AtLeast(c, base, Narrowest(j)[k])
    BY <1>2, <1>4, <1>5, <1>6, NarrowestDown
  <1> QED
    BY <1>7 DEF Least, j, k

(* A decision keeps the coder no worse off than the worst case, and gets    *)
(* on.                                                                      *)
LEMMA DecisionLeads ==
    ASSUME NEW d, KnownOK(d), NEW input \in Seq(0 .. Base - 1), NEW base \in Nat, NEW at,
           OnTheWay(at, base, input), ~Done(at.w)
    PROVE  /\ OnTheWay(Decided(d, at, input), base, input)
           /\ Place(Decided(d, at, input).w) > Place(at.w)
           /\ Place(at.w) < MaxDecisions
  <1> DEFINE n == Normalized(at.coder, input)
             context == ContextOf(d, at.w)
             step == IF context = << >> THEN DirectBit(n) ELSE AdaptiveBit(n, context)
             direct == at.w.at = "direct"
             v == Took(d, at.w, step.bit)
             c == Normalized(step.coder, input)
             next == Decided(d, at, input)
             l == Least(at.w)
  <1>1. next = [w |-> v, coder |-> step.coder]
    BY DEF Decided
  <1>2. WalkOK(at.w) /\ at.coder \in Coders /\ Place(at.w) \in 0 .. MaxDecisions /\ AtLeast(n, base, l)
    BY DEF OnTheWay
  <1>3. n \in Coders /\ n.range \in Intervals
    BY <1>2, NormalizedIs
  <1> HIDE DEF n
  <1>4. /\ step.bit \in {0, 1} /\ step.coder \in Coders
        /\ step.coder.range >= Shrunk(n.range, direct) /\ step.coder.buf = n.buf
    <2>1. CASE direct
      <3>1. context = << >>
        BY <1>2, <2>1, ContextIs
      <3>2. step = DirectBit(n)
        BY <3>1
      <3> HIDE DEF step
      <3>3. direct = TRUE
        BY <2>1
      <3> QED
        BY <1>3, <3>2, <3>3, DirectShrinks
    <2>2. CASE ~direct
      <3>1. context \in AllContexts /\ context # << >>
        BY <1>2, <2>2, ContextIs
      <3>2. step = AdaptiveBit(n, context)
        BY <3>1
      <3> HIDE DEF step, context
      <3>3. direct = FALSE
        BY <2>2
      <3> QED
        BY <1>3, <3>1, <3>2, <3>3, AdaptiveShrinks
    <2> QED
      BY <2>1, <2>2
  <1> HIDE DEF step, context
  <1>5. LeadsTo(at.w, v)
    BY <1>2, <1>4, TookLeads
  <1> HIDE DEF v
  <1>6. /\ c \in Coders
        /\ c.range = IF step.coder.range >= kTopValue THEN step.coder.range
                     ELSE step.coder.range * Base
        /\ c.buf = IF step.coder.range >= kTopValue THEN step.coder.buf ELSE step.coder.buf + 1
    BY <1>4, NormalizedIs
  <1> HIDE DEF c
  <1>7. l \in Cases
    <2>1. Directs(at.w) \in Nat
      BY DirectsNatural
    <2> QED
      BY <1>2, <2>1, NarrowestCases DEF Least
  <1> HIDE DEF l
  <1>8. step.coder.range \in Nat /\ step.coder.range < Word /\ n.buf \in Nat
        /\ c.range \in Nat /\ c.buf \in Nat
    <2>1. \A a \in Nat : \A x \in a .. Word - 1 : x \in Nat /\ x < Word
      BY Sizes
    <2>2. Base * Base \in Nat
      BY Sizes
    <2> QED
      BY <1>3, <1>4, <1>6, <2>1, <2>2 DEF Coders
  <1>9. AtLeast(c, base, Narrowed(l, direct))
    <2> DEFINE y == step.coder.range
    <2>1. /\ y \in Nat /\ y < Word /\ Shrunk(n.range, direct) <= y
          /\ c.range = (IF y >= kTopValue THEN y ELSE y * Base)
          /\ c.buf = (IF y >= kTopValue THEN n.buf ELSE n.buf + 1)
      <3>1. Shrunk(n.range, direct) <= y
        <4>1. Shrunk(n.range, direct) \in Nat
          <5>1. Shrunk(n.range, direct) \in Base * Base .. n.range
            BY <1>3, ShrunkRange
          <5>2. Base * Base \in Nat
            BY Sizes
          <5> QED
            BY <5>1, <5>2
        <4> HIDE DEF direct
        <4> QED
          BY <1>4, <1>8, <4>1
      <3> QED
        BY <1>4, <1>6, <1>8, <3>1
    <2>2. direct \in BOOLEAN
      OBVIOUS
    <2> HIDE DEF y, direct
    <2> QED
      BY <1>2, <1>3, <1>7, <1>8, <2>1, <2>2, NarrowedStep
  <1>10. AtLeast(c, base, Least(v))
    BY <1>5, <1>8, <1>9, LeastFollows DEF l
  <1>11. WalkOK(v) /\ Place(v) \in 0 .. MaxDecisions /\ Place(v) > Place(at.w)
         /\ Place(at.w) < MaxDecisions
    BY <1>2, <1>5, DecisionCounts DEF LeadsTo
  <1>12. next.w = v /\ next.coder = step.coder
    BY <1>1
  <1> HIDE DEF next
  <1> QED
    BY <1>4, <1>10, <1>11, <1>12 DEF OnTheWay, next, c

(* The walk is the function its recursive definition speaks of.             *)
AllStepped(d, from, input) == {Stepped(d, at, input) : at \in from}

(* The walk along a symbol is the function that its recursive definition    *)
(* describes.                                                               *)
LEMMA SymbolWalksIs ==
    ASSUME NEW d, NEW coder, NEW input
    PROVE  \E walk :
              /\ walk[0] = {[w |-> WalkStart, coder |-> coder]}
              /\ \A n \in 0 .. MaxDecisions - 1 :
                    walk[n + 1] = AllStepped(d, walk[n], input)
              /\ SymbolWalks(d, coder, input) = walk[MaxDecisions]
  <1> DEFINE start == {[w |-> WalkStart, coder |-> coder]}
             Next1(f, n) == AllStepped(d, f[n - 1], input)
             Upto(f, k) == [n \in 0 .. k |-> IF n = 0 THEN start ELSE Next1(f, n)]
             S == {k \in Nat : \E f : f = Upto(f, k)}
             Walk == CHOOSE f : f = Upto(f, MaxDecisions)
  <1>1. 0 \in S
    <2> DEFINE f == [n \in 0 .. 0 |-> start]
    <2>1. f = Upto(f, 0)
      OBVIOUS
    <2> QED
      BY <2>1
  <1>2. \A k \in S \cap Nat : k + 1 \in S
    <2> SUFFICES ASSUME NEW k \in Nat, NEW f, f = Upto(f, k) PROVE k + 1 \in S
      OBVIOUS
    <2> DEFINE g == [n \in 0 .. k + 1 |-> IF n <= k THEN f[n] ELSE Next1(f, k + 1)]
    <2>1. \A n \in 0 .. k + 1 : n # 0 => Next1(g, n) = Next1(f, n)
      <3> SUFFICES ASSUME NEW n \in 0 .. k + 1, n # 0 PROVE g[n - 1] = f[n - 1]
        OBVIOUS
      <3> QED
        OBVIOUS
    <2>2. \A n \in 0 .. k : f[n] = IF n = 0 THEN start ELSE Next1(f, n)
      <3> HIDE DEF start, Next1
      <3> QED
        OBVIOUS
    <2> HIDE DEF start, Next1
    <2>3. g = Upto(g, k + 1)
      BY <2>1, <2>2
    <2> HIDE DEF g
    <2>4. \E h : h = Upto(h, k + 1)
      BY <2>3
    <2> QED
      BY <2>4
  <1> HIDE DEF S
  <1>3. MaxDecisions \in S
    BY <1>1, <1>2, NaturalInduction, DecisionCounts
  <1>4. \E f : f = Upto(f, MaxDecisions)
    BY <1>3 DEF S
  <1>5. SymbolWalks(d, coder, input) = Walk[MaxDecisions]
    BY DEF SymbolWalks, AllStepped
  <1> HIDE DEF start, Next1
  <1>6. Walk = Upto(Walk, MaxDecisions)
    BY <1>4
  <1> HIDE DEF Walk
  <1>7. \A n \in 0 .. MaxDecisions : Walk[n] = IF n = 0 THEN start ELSE Next1(Walk, n)
    BY <1>6
  <1>8. Walk[0] = start
    BY <1>7, DecisionCounts
  <1>9. \A n \in 0 .. MaxDecisions - 1 : Walk[n + 1] = Next1(Walk, n + 1)
    BY <1>7, DecisionCounts
  <1>10. \A n \in Int : (n + 1) - 1 = n
    OBVIOUS
  <1>11. \A n \in 0 .. MaxDecisions - 1 :
            Walk[n + 1] = AllStepped(d, Walk[n], input)
    BY <1>9, <1>10 DEF Next1
  <1> QED
    BY <1>5, <1>8, <1>11 DEF start

(* Where it starts.                                                         *)
LEMMA StartOnTheWay ==
    ASSUME NEW coder \in Coders, NEW input \in Seq(0 .. Base - 1)
    PROVE  OnTheWay([w |-> WalkStart, coder |-> coder], Normalized(coder, input).buf, input)
  <1>1. /\ WalkStart \in WalkTypes /\ WalkStart.at = "IsMatch" /\ WalkStart.kind = "literal"
        /\ WalkStart.coder = "Len" /\ WalkStart.posSlot = 0
    <2>1. 0 \in 0 .. LengthSymbols - 1
      <3>1. LengthSymbols \in Nat \ {0}
        BY SymbolSizes
      <3> QED
        BY <3>1
    <2> QED
      BY <2>1 DEF WalkStart, WalkTypes
  <1>2. ~(WalkStart.posSlot >= kEndPosModelIndex)
    BY <1>1, Footers DEF kStartPosModelIndex
  <1>3. WalkOK(WalkStart)
    BY <1>1, <1>2 DEF WalkOK, FlagLabels, LengthLabels
  <1>4. Place(WalkStart) = 0 /\ Directs(WalkStart) = 0
    BY <1>1, <1>2 DEF Place, Directs
  <1>5. Least(WalkStart) = [range |-> kTopValue, buf |-> 0]
    BY <1>4, NarrowestIs DEF Least
  <1> DEFINE n == Normalized(coder, input)
  <1>6. n.range >= kTopValue /\ n.buf \in Nat
    <2>1. n \in Coders /\ n.range \in Intervals
      BY NormalizedIs
    <2> QED
      BY <2>1, Sizes DEF Coders, Intervals
  <1> HIDE DEF n
  <1>7. AtLeast(n, n.buf, Least(WalkStart))
    BY <1>5, <1>6 DEF AtLeast
  <1>8. Place(WalkStart) \in 0 .. MaxDecisions
    BY <1>4, DecisionCounts
  <1> QED
    BY <1>3, <1>7, <1>8 DEF OnTheWay, n

(* Where it ends: a symbol takes no more input than LZMA_REQUIRED_INPUT_MAX *)
(* bytes, the normalization behind it included.                             *)
Ends(x, coder, input) ==
    /\ Done(x.w) /\ WalkOK(x.w) /\ x.coder \in Coders
    /\ Normalized(x.coder, input).buf
         <= Normalized(coder, input).buf + LZMA_REQUIRED_INPUT_MAX

(* Whatever the input is, decoding a symbol comes to one end, which is a    *)
(* whole symbol, and takes LZMA_REQUIRED_INPUT_MAX bytes at most            *)
(* (LzmaDec.h:41).                                                          *)
LEMMA WalkEnds ==
    ASSUME NEW d, KnownOK(d), NEW coder \in Coders, NEW input \in Seq(0 .. Base - 1)
    PROVE  \E x : SymbolWalks(d, coder, input) = {x} /\ Ends(x, coder, input)
  <1> DEFINE base == Normalized(coder, input).buf
  <1>1. base \in Nat
    BY NormalizedIs DEF Coders
  <1>2. PICK walk :
            /\ walk[0] = {[w |-> WalkStart, coder |-> coder]}
            /\ \A n \in 0 .. MaxDecisions - 1 :
                  walk[n + 1] = AllStepped(d, walk[n], input)
            /\ SymbolWalks(d, coder, input) = walk[MaxDecisions]
    BY SymbolWalksIs
  <1> HIDE DEF base
  <1> DEFINE Good(n, at) == OnTheWay(at, base, input) /\ (Done(at.w) \/ Place(at.w) >= n)
             S == {n \in Nat : n <= MaxDecisions => \E at : walk[n] = {at} /\ Good(n, at)}
  <1>3. 0 \in S
    <2> DEFINE at == [w |-> WalkStart, coder |-> coder]
    <2>1. OnTheWay(at, base, input)
      BY StartOnTheWay DEF base
    <2> HIDE DEF at
    <2>2. Place(at.w) >= 0
      BY <2>1, DecisionCounts DEF OnTheWay
    <2>3. walk[0] = {at} /\ Good(0, at)
      BY <1>2, <2>1, <2>2 DEF at
    <2> HIDE DEF Good
    <2> QED
      BY <2>3
  <1>4. \A n \in S \cap Nat : n + 1 \in S
    <2> SUFFICES ASSUME NEW n \in S, n + 1 <= MaxDecisions
                 PROVE  \E at : walk[n + 1] = {at} /\ Good(n + 1, at)
      OBVIOUS
    <2>1. n \in Nat /\ n \in 0 .. MaxDecisions - 1 /\ n <= MaxDecisions
      BY DecisionCounts
    <2>2. PICK at : walk[n] = {at} /\ Good(n, at)
      BY <2>1
    <2> DEFINE next == Stepped(d, at, input)
    <2>3. walk[n + 1] = {next}
      <3>1. walk[n + 1] = AllStepped(d, walk[n], input)
        BY <1>2, <2>1
      <3> QED
        BY <2>2, <3>1 DEF AllStepped
    <2>4. Good(n + 1, next)
      <3>1. CASE Done(at.w)
        <4>1. next = at
          BY <3>1 DEF Stepped
        <4> QED
          BY <2>2, <3>1, <4>1
      <3>2. CASE ~Done(at.w)
        <4>1. next = Decided(d, at, input)
          BY <3>2 DEF Stepped
        <4>2. OnTheWay(next, base, input) /\ Place(next.w) > Place(at.w)
          BY <1>1, <2>2, <3>2, <4>1, DecisionLeads
        <4>3. Place(at.w) \in Int /\ Place(next.w) \in Int /\ Place(at.w) >= n
          BY <2>2, <3>2, <4>2, DecisionCounts DEF OnTheWay
        <4>4. Place(next.w) >= n + 1
          BY <2>1, <4>2, <4>3
        <4> QED
          BY <4>2, <4>4
      <3> QED
        BY <3>1, <3>2
    <2> HIDE DEF Good, next
    <2> QED
      BY <2>3, <2>4
  <1> HIDE DEF S
  <1>5. MaxDecisions \in S
    BY <1>3, <1>4, NaturalInduction, DecisionCounts
  <1>6. PICK x : walk[MaxDecisions] = {x} /\ Good(MaxDecisions, x)
    <2> HIDE DEF Good
    <2> QED
      BY <1>5, DecisionCounts DEF S
  <1>7. Done(x.w)
    <2> SUFFICES ASSUME ~Done(x.w) PROVE FALSE
      OBVIOUS
    <2>1. Place(x.w) < MaxDecisions
      BY <1>1, <1>6, DecisionLeads
    <2>2. Place(x.w) >= MaxDecisions
      BY <1>6
    <2>3. Place(x.w) \in Int
      BY <1>6, DecisionCounts DEF OnTheWay
    <2> QED
      BY <2>1, <2>2, <2>3, DecisionCounts
  <1> DEFINE n == Normalized(x.coder, input)
  <1>8. WalkOK(x.w) /\ x.coder \in Coders /\ AtLeast(n, base, Least(x.w))
    BY <1>6 DEF OnTheWay
  <1>9. Least(x.w).buf <= LZMA_REQUIRED_INPUT_MAX /\ Least(x.w).buf \in Nat
    <2>1. Least(x.w).buf <= LZMA_REQUIRED_INPUT_MAX
      <3>1. Least(x.w) = Narrowest(Directs(x.w))[LastPlace(x.w)]
        BY <1>7 DEF Least, Place, Done
      <3> QED
        BY <3>1, RequiredInputAssumption DEF Directs, LastPlace
    <2>2. Least(x.w) \in Cases
      <3>1. Directs(x.w) \in Nat /\ Place(x.w) \in 0 .. MaxDecisions
        BY <1>6, DirectsNatural DEF OnTheWay
      <3> QED
        BY <3>1, NarrowestCases DEF Least
    <2> QED
      BY <2>1, <2>2 DEF Cases
  <1>10. n.buf \in Nat
    BY <1>8, NormalizedIs DEF Coders
  <1> HIDE DEF n
  <1>11. n.buf <= base + LZMA_REQUIRED_INPUT_MAX
    BY <1>1, <1>8, <1>9, <1>10, DecoderAssumption DEF AtLeast
  <1>12. Ends(x, coder, input)
    BY <1>7, <1>8, <1>11 DEF Ends, n, base
  <1> QED
    BY <1>2, <1>6, <1>12
-----------------------------------------------------------------------------
(* The dictionary: what a match copies is written, so the copy is.          *)
Cells == Letters \cup {Unwritten}
Places == 0 .. DicBufSize - 1

MoreWritten(dict, more) ==
    /\ more \in [Places -> Cells]
    /\ \A i \in Places : dict[i] \in Letters => more[i] \in Letters

CopyOf(cell, dict, from, len, rep0) ==
    /\ cell[0] = dict
    /\ \A k \in 0 .. len - 1 :
          cell[k + 1] = [cell[k] EXCEPT ![from + (k + 1) - 1] =
                              cell[k][Behind(from + (k + 1) - 1, rep0)]]
    /\ Copied(dict, from, len, rep0) = cell[len]

(* The copy of a match is the function that its recursive definition        *)
(* describes.                                                               *)
LEMMA CopiedIs ==
    ASSUME NEW dict, NEW from, NEW len \in Nat, NEW rep0
    PROVE  \E cell : CopyOf(cell, dict, from, len, rep0)
  <1> DEFINE Next1(f, k) == [f[k - 1] EXCEPT ![from + k - 1] =
                                f[k - 1][Behind(from + k - 1, rep0)]]
             Upto(f, m) == [k \in 0 .. m |-> IF k = 0 THEN dict ELSE Next1(f, k)]
             S == {m \in Nat : \E f : f = Upto(f, m)}
             Cell == CHOOSE f : f = Upto(f, len)
  <1>1. 0 \in S
    <2> DEFINE f == [k \in 0 .. 0 |-> dict]
    <2>1. f = Upto(f, 0)
      OBVIOUS
    <2> QED
      BY <2>1
  <1>2. \A m \in S \cap Nat : m + 1 \in S
    <2> SUFFICES ASSUME NEW m \in Nat, NEW f, f = Upto(f, m) PROVE m + 1 \in S
      OBVIOUS
    <2> DEFINE g == [k \in 0 .. m + 1 |-> IF k <= m THEN f[k] ELSE Next1(f, m + 1)]
    <2>1. \A k \in 0 .. m + 1 : k # 0 => Next1(g, k) = Next1(f, k)
      <3> SUFFICES ASSUME NEW k \in 0 .. m + 1, k # 0 PROVE g[k - 1] = f[k - 1]
        OBVIOUS
      <3> HIDE DEF Next1
      <3> QED
        OBVIOUS
    <2>2. \A k \in 0 .. m : f[k] = IF k = 0 THEN dict ELSE Next1(f, k)
      <3> HIDE DEF Next1
      <3> QED
        OBVIOUS
    <2> HIDE DEF Next1
    <2>3. g = Upto(g, m + 1)
      BY <2>1, <2>2
    <2> HIDE DEF g
    <2>4. \E h : h = Upto(h, m + 1)
      BY <2>3
    <2> QED
      BY <2>4
  <1> HIDE DEF S
  <1>3. len \in S
    BY <1>1, <1>2, NaturalInduction
  <1>4. \E f : f = Upto(f, len)
    BY <1>3 DEF S
  <1>5. Copied(dict, from, len, rep0) = Cell[len]
    BY DEF Copied
  <1> HIDE DEF Next1
  <1>6. Cell = Upto(Cell, len)
    BY <1>4
  <1> HIDE DEF Cell
  <1>7. \A k \in 0 .. len : Cell[k] = IF k = 0 THEN dict ELSE Next1(Cell, k)
    BY <1>6
  <1>8. Cell[0] = dict
    BY <1>7
  <1>9. \A k \in 0 .. len - 1 : Cell[k + 1] = Next1(Cell, k + 1)
    BY <1>7
  <1>10. \A k \in 0 .. len - 1 :
            Cell[k + 1] = [Cell[k] EXCEPT ![from + (k + 1) - 1] =
                               Cell[k][Behind(from + (k + 1) - 1, rep0)]]
    <2> SUFFICES ASSUME NEW k \in 0 .. len - 1
                 PROVE  Cell[k + 1] = [Cell[k] EXCEPT ![from + (k + 1) - 1] =
                                          Cell[k][Behind(from + (k + 1) - 1, rep0)]]
      OBVIOUS
    <2>1. (k + 1) - 1 = k
      OBVIOUS
    <2> QED
      BY <1>9, <2>1 DEF Next1
  <1>11. CopyOf(Cell, dict, from, len, rep0)
    BY <1>5, <1>8, <1>10 DEF CopyOf
  <1> QED
    BY <1>11

(* Copying from written cells, overlapping or not, writes the cells it      *)
(* copies to and leaves the others written that were.                       *)
LEMMA CopiedWrites ==
    ASSUME NEW dict \in [Places -> Cells], NEW from \in Nat, NEW len \in Nat,
           from + len <= DicBufSize, NEW rep0 \in 1 .. DicBufSize,
           \/ \A i \in Places : dict[i] \in Letters
           \/ rep0 <= from /\ \A i \in 0 .. from - 1 : dict[i] \in Letters
    PROVE  /\ MoreWritten(dict, Copied(dict, from, len, rep0))
           /\ \A i \in from .. from + len - 1 : Copied(dict, from, len, rep0)[i] \in Letters
  <1>0. PICK cell : CopyOf(cell, dict, from, len, rep0)
    BY CopiedIs
  <1>1. /\ cell[0] = dict
        /\ \A k \in 0 .. len - 1 :
              cell[k + 1] = [cell[k] EXCEPT ![from + (k + 1) - 1] =
                                  cell[k][Behind(from + (k + 1) - 1, rep0)]]
        /\ Copied(dict, from, len, rep0) = cell[len]
    BY <1>0 DEF CopyOf
  <1>2. DicBufSize \in Nat \ {0}
    BY DecoderAssumption
  <1> DEFINE Good(k) == /\ MoreWritten(dict, cell[k])
                        /\ \A i \in from .. from + k - 1 : cell[k][i] \in Letters
             S == {k \in Nat : k <= len => Good(k)}
  <1>3. 0 \in S
    BY <1>1 DEF MoreWritten
  <1>4. \A k \in S \cap Nat : k + 1 \in S
    <2> SUFFICES ASSUME NEW k \in Nat, k + 1 <= len, Good(k) PROVE Good(k + 1)
      OBVIOUS
    <2> DEFINE pos == from + k
               src == Behind(pos, rep0)
               c == cell[k]
    <2>1. cell[k + 1] = [c EXCEPT ![pos] = c[src]]
      <3>1. from + (k + 1) - 1 = from + k /\ k \in 0 .. len - 1
        OBVIOUS
      <3> QED
        BY <1>1, <3>1
    <2>2. pos \in Places /\ src \in Places
      BY <1>2 DEF Places, Behind
    <2>3. c[src] \in Letters
      <3>1. CASE \A i \in Places : dict[i] \in Letters
        BY <2>2, <3>1 DEF MoreWritten
      <3>2. CASE rep0 <= from /\ \A i \in 0 .. from - 1 : dict[i] \in Letters
        <4>1. src = pos - rep0
          BY <3>2 DEF Behind
        <4>2. CASE src < from
          BY <2>2, <3>2, <4>1, <4>2 DEF MoreWritten, Places
        <4>3. CASE ~(src < from)
          BY <1>2, <2>2, <4>1, <4>3 DEF Places
        <4> QED
          BY <4>2, <4>3
      <3> QED
        BY <3>1, <3>2
    <2> HIDE DEF src, c
    <2>4. c \in [Places -> Cells] /\ \A i \in Places : dict[i] \in Letters => c[i] \in Letters
      BY DEF MoreWritten, c
    <2>5. cell[k + 1] \in [Places -> Cells] /\ cell[k + 1][pos] \in Letters
      BY <2>1, <2>2, <2>3, <2>4 DEF Cells
    <2>6. \A i \in Places : i # pos => cell[k + 1][i] = c[i]
      BY <2>1, <2>4
    <2>7. MoreWritten(dict, cell[k + 1])
      BY <2>4, <2>5, <2>6 DEF MoreWritten
    <2>8. \A i \in from .. from + (k + 1) - 1 : cell[k + 1][i] \in Letters
      <3> SUFFICES ASSUME NEW i \in from .. from + (k + 1) - 1 PROVE cell[k + 1][i] \in Letters
        OBVIOUS
      <3>1. CASE i = pos
        BY <2>5, <3>1
      <3>2. CASE i # pos
        <4>1. i \in Places /\ i \in from .. from + k - 1
          BY <1>2, <3>2 DEF Places
        <4> QED
          BY <2>6, <3>2, <4>1 DEF c
      <3> QED
        BY <3>1, <3>2
    <2> QED
      BY <2>7, <2>8
  <1> HIDE DEF S
  <1>5. len \in S
    BY <1>3, <1>4, NaturalInduction
  <1>6. Good(len)
    <2> HIDE DEF Good
    <2> QED
      BY <1>5 DEF S
  <1> QED
    BY <1>1, <1>6

(* A copy of nothing changes nothing.                                       *)
LEMMA NothingCopied ==
    ASSUME NEW dict, NEW from, NEW rep0
    PROVE  Copied(dict, from, 0, rep0) = dict
  BY CopiedIs DEF CopyOf
-----------------------------------------------------------------------------
(* The decoder and the dictionary behind it: as long as it has not been     *)
(* filled, the cells before dicPos are written, ...                         *)
CopyLengths == 1 .. kMatchSpecLenStart - 1

Decoders ==
    [range : 0 .. Word - 1, code : 0 .. Word - 1, dicPos : 0 .. DicBufSize,
     processedPos : Nat, checkDicSize : {0, DicBufSize}, state : 0 .. 11,
     reps : Seq(Nat), remainLen : Nat, needFlush : BOOLEAN, needInitState : BOOLEAN]

Filled(d, dict) ==
    /\ dict \in [Places -> Cells]
    /\ d.checkDicSize = 0 =>
        /\ d.processedPos = d.dicPos
        /\ \A i \in 0 .. d.processedPos - 1 : dict[i] \in Letters
    /\ d.checkDicSize # 0 => \A i \in Places : dict[i] \in Letters

(* ... and the distances it may copy from lead to what was written.         *)
Back(d) == IF d.checkDicSize # 0 THEN DicBufSize
           ELSE IF d.processedPos = 0 THEN 1 ELSE d.processedPos

DistancesOK(d) ==
    /\ Len(d.reps) = LZMA_NUM_REPS
    /\ d.needInitState => d.processedPos = 0 /\ d.checkDicSize = 0
    /\ ~d.needInitState => \A k \in 1 .. LZMA_NUM_REPS : d.reps[k] \in 1 .. Back(d)
    /\ d.processedPos = 0 /\ d.checkDicSize = 0 =>
        d.state = 0 /\ d.remainLen \notin CopyLengths

DecoderOK(d, dict) == d \in Decoders /\ Filled(d, dict) /\ DistancesOK(d)

(* The length that stands for the end mark is longer than any.              *)
LEMMA MarkLength ==
    /\ kMatchSpecLenStart \in Nat \ {0} /\ kMatchSpecLenStart = 2 + LengthSymbols
    /\ LengthSymbols \in Nat \ {0}
  <1>1. kMatchSpecLenStart = 2 + LengthSymbols /\ LengthSymbols \in Nat \ {0}
    BY SymbolSizes
  <1> QED
    BY <1>1

(* A decoder that is ready has a distance at which something is written.    *)
LEMMA FirstRep ==
    ASSUME NEW d, NEW dict, DecoderOK(d, dict), ~d.needInitState
    PROVE  d.reps[1] \in 1 .. Back(d) /\ Back(d) \in 1 .. DicBufSize /\ Back(d) \in Nat
  <1>1. d.reps[1] \in 1 .. Back(d)
    BY DEF DecoderOK, DistancesOK, LZMA_NUM_REPS
  <1>2. Back(d) \in 1 .. DicBufSize
    BY DecoderAssumption DEF DecoderOK, Decoders, Filled, Back
  <1> QED
    BY <1>1, <1>2, DecoderAssumption

(* What LzmaDec_WriteRem writes.                                            *)
LEMMA RemWritten ==
    ASSUME NEW d, NEW dict, DecoderOK(d, dict), NEW limit \in 0 .. DicBufSize,
           d.dicPos <= limit, d.checkDicSize = 0 => d.processedPos < DicBufSize
    PROVE  LET e == WriteRem(d, limit)
               c == Copied(dict, d.dicPos, RemLen(d, limit), d.reps[1])
           IN  /\ DecoderOK(e, c)
               /\ e.dicPos \in d.dicPos .. limit
               /\ e.checkDicSize = 0 => e.processedPos < DicBufSize
               /\ e.remainLen <= d.remainLen
               /\ e.range = d.range /\ e.code = d.code
               /\ e.needFlush = d.needFlush /\ e.needInitState = d.needInitState
  <1> DEFINE len == RemLen(d, limit)
             check == IF /\ d.remainLen \in CopyLengths
                         /\ d.checkDicSize = 0 /\ DicBufSize - d.processedPos <= len
                      THEN DicBufSize ELSE d.checkDicSize
             e == WriteRem(d, limit)
             c == Copied(dict, d.dicPos, len, d.reps[1])
  <1>1. /\ d \in Decoders /\ Filled(d, dict) /\ DistancesOK(d) /\ DicBufSize \in Nat \ {0}
        /\ d.dicPos \in 0 .. DicBufSize /\ d.processedPos \in Nat
        /\ d.checkDicSize \in {0, DicBufSize} /\ d.remainLen \in Nat
        /\ d.needInitState \in BOOLEAN /\ kMatchSpecLenStart \in Nat
    <2>1. kMatchSpecLenStart \in Nat /\ DicBufSize \in Nat \ {0}
      BY MarkLength, DecoderAssumption
    <2> QED
      BY <2>1 DEF DecoderOK, Decoders
  <1>2. /\ len \in Nat /\ d.dicPos + len <= limit /\ len <= d.remainLen
        /\ d.remainLen \notin CopyLengths => len = 0
    BY <1>1 DEF RemLen, AtMost, CopyLengths
  <1>3. e = [d EXCEPT !.checkDicSize = check, !.processedPos = d.processedPos + len,
                      !.remainLen = d.remainLen - len, !.dicPos = d.dicPos + len]
    BY DEF WriteRem, CopyLengths
  <1> HIDE DEF len, e, c
  <1>4. /\ check \in {0, DicBufSize} /\ (check = 0 => d.checkDicSize = 0)
        /\ d.checkDicSize # 0 => check = DicBufSize
    BY <1>1
  <1>5. /\ d.processedPos + len \in Nat /\ d.remainLen - len \in Nat
        /\ d.dicPos + len \in 0 .. DicBufSize
    BY <1>1, <1>2
  <1>6. check = 0 => d.processedPos + len < DicBufSize
    BY <1>1, <1>2
  <1>7. check # 0 /\ d.checkDicSize = 0 => d.dicPos + len = DicBufSize
    BY <1>1, <1>2 DEF Filled
  <1> HIDE DEF check
  <1>8. /\ e \in Decoders /\ e.checkDicSize = check /\ e.processedPos = d.processedPos + len
        /\ e.dicPos = d.dicPos + len /\ e.remainLen = d.remainLen - len
        /\ e.range = d.range /\ e.code = d.code /\ e.reps = d.reps /\ e.state = d.state
        /\ e.needFlush = d.needFlush /\ e.needInitState = d.needInitState
    BY <1>1, <1>3, <1>4, <1>5 DEF Decoders
  <1>9. Filled(e, c)
    <2>1. CASE len = 0
      <3>1. c = dict
        BY <2>1, NothingCopied DEF c
      <3>2. check = d.checkDicSize
        BY <1>1, <1>4, <1>7, <2>1, <1>6, <1>2 DEF check, Filled
      <3> QED
        BY <1>1, <1>8, <2>1, <3>1, <3>2 DEF Filled
    <2>2. CASE len # 0
      <3>1. d.remainLen \in CopyLengths /\ ~d.needInitState
        BY <1>1, <1>2, <2>2 DEF DistancesOK
      <3>2. d.reps[1] \in 1 .. Back(d) /\ Back(d) \in 1 .. DicBufSize /\ Back(d) \in Nat
        BY <3>1, FirstRep
      <3>3. \/ \A i \in Places : dict[i] \in Letters
            \/ d.reps[1] <= d.dicPos /\ \A i \in 0 .. d.dicPos - 1 : dict[i] \in Letters
        <4>1. CASE d.checkDicSize # 0
          BY <1>1, <4>1 DEF Filled
        <4>2. CASE d.checkDicSize = 0
          <5>1. d.processedPos # 0
            BY <1>1, <3>1, <4>2 DEF DistancesOK
          <5>2. Back(d) = d.dicPos
            BY <1>1, <4>2, <5>1 DEF Back, Filled
          <5> QED
            BY <1>1, <3>2, <4>2, <5>2 DEF Filled
        <4> QED
          BY <4>1, <4>2
      <3>4. /\ MoreWritten(dict, c)
            /\ \A i \in d.dicPos .. d.dicPos + len - 1 : c[i] \in Letters
        <4>1. d.reps[1] \in 1 .. DicBufSize /\ d.dicPos \in Nat /\ d.dicPos + len <= DicBufSize
              /\ dict \in [Places -> Cells]
          BY <1>1, <1>2, <3>2 DEF Filled
        <4> QED
          BY <1>2, <3>3, <4>1, CopiedWrites DEF c
      <3>5. CASE d.checkDicSize # 0
        BY <1>1, <1>4, <1>8, <3>4, <3>5 DEF Filled, MoreWritten
      <3>6. CASE d.checkDicSize = 0
        <4>1. \A i \in 0 .. (d.dicPos + len) - 1 : c[i] \in Letters
          <5> SUFFICES ASSUME NEW i \in 0 .. (d.dicPos + len) - 1 PROVE c[i] \in Letters
            OBVIOUS
          <5>1. CASE i < d.dicPos
            <6>1. dict[i] \in Letters /\ i \in Places
              BY <1>1, <3>6, <5>1 DEF Filled, Places
            <6> QED
              BY <3>4, <6>1 DEF MoreWritten
          <5>2. CASE ~(i < d.dicPos)
            BY <1>1, <1>2, <3>4, <5>2
          <5> QED
            BY <5>1, <5>2
        <4>2. c \in [Places -> Cells]
          BY <3>4 DEF MoreWritten
        <4>3. CASE check = 0
          BY <1>1, <1>8, <3>6, <4>1, <4>2, <4>3 DEF Filled
        <4>4. CASE check # 0
          <5>1. \A i \in Places : c[i] \in Letters
            BY <1>7, <3>6, <4>1, <4>4 DEF Places
          <5> QED
            BY <1>8, <4>2, <4>4, <5>1 DEF Filled
        <4> QED
          BY <4>3, <4>4
      <3> QED
        BY <3>5, <3>6
    <2> QED
      BY <2>1, <2>2
  <1>10. DistancesOK(e)
    <2>1. Len(e.reps) = LZMA_NUM_REPS
      BY <1>1, <1>8 DEF DistancesOK
    <2>2. e.processedPos = 0 /\ e.checkDicSize = 0 =>
            d.processedPos = 0 /\ d.checkDicSize = 0 /\ len = 0
      BY <1>1, <1>2, <1>4, <1>8
    <2>3. e.processedPos = 0 /\ e.checkDicSize = 0 =>
            e.state = 0 /\ e.remainLen \notin CopyLengths
      <3>1. len = 0 => e.remainLen = d.remainLen
        BY <1>1, <1>8
      <3> QED
        BY <1>1, <1>8, <2>2, <3>1 DEF DistancesOK
    <2>4. e.needInitState => e.processedPos = 0 /\ e.checkDicSize = 0
      <3> SUFFICES ASSUME d.needInitState PROVE e.processedPos = 0 /\ e.checkDicSize = 0
        BY <1>8
      <3>1. d.processedPos = 0 /\ d.checkDicSize = 0 /\ d.remainLen \notin CopyLengths
        BY <1>1 DEF DistancesOK
      <3>2. len = 0 /\ check = 0
        BY <1>2, <3>1 DEF check
      <3> QED
        BY <1>8, <3>1, <3>2
    <2>5. ~e.needInitState => \A k \in 1 .. LZMA_NUM_REPS : e.reps[k] \in 1 .. Back(e)
      <3> SUFFICES ASSUME ~d.needInitState, NEW k \in 1 .. LZMA_NUM_REPS
                   PROVE  d.reps[k] \in 1 .. Back(e)
        BY <1>8
      <3>1. d.reps[k] \in 1 .. Back(d)
        BY <1>1 DEF DistancesOK
      <3>2. Back(d) \in 1 .. DicBufSize /\ Back(d) \in Nat
        BY FirstRep
      <3>3. Back(d) <= Back(e) /\ Back(e) \in Nat
        BY <1>1, <1>2, <1>4, <1>8, <3>2 DEF Back
      <3> QED
        BY <3>1, <3>2, <3>3
    <2> QED
      BY <2>1, <2>3, <2>4, <2>5 DEF DistancesOK
  <1>11. DecoderOK(e, c)
    BY <1>8, <1>9, <1>10 DEF DecoderOK
  <1>12. /\ e.dicPos \in d.dicPos .. limit
         /\ e.checkDicSize = 0 => e.processedPos < DicBufSize
         /\ e.remainLen <= d.remainLen
    BY <1>1, <1>2, <1>6, <1>8
  <1> QED
    BY <1>8, <1>11, <1>12 DEF e, c, len

(* A decoder's view of the dictionary survives more of it being written.    *)
LEMMA StillFilled ==
    ASSUME NEW d, NEW dict, NEW more, DecoderOK(d, dict), MoreWritten(dict, more)
    PROVE  DecoderOK(d, more)
  <1>1. d.processedPos \in Nat /\ d.dicPos \in 0 .. DicBufSize /\ DicBufSize \in Nat
    BY DecoderAssumption DEF DecoderOK, Decoders
  <1>2. d.checkDicSize = 0 => \A i \in 0 .. d.processedPos - 1 : i \in Places
    BY <1>1 DEF DecoderOK, Filled, Places
  <1> QED
    BY <1>2 DEF DecoderOK, Filled, MoreWritten

(* What a symbol depends on is written.                                     *)
LEMMA ZeroIsLetter == 0 \in Letters
  <1>1. Power(NumLitBits) \in Nat \ {0}
    BY SymbolSizes, PowersNatural
  <1> QED
    BY <1>1 DEF Letters

(* The previous byte and the match byte are written: the contexts of a      *)
(* symbol never depend on a cell that is not.                               *)
LEMMA KnownIsWritten ==
    ASSUME NEW d, NEW dict, DecoderOK(d, dict), ~d.needInitState
    PROVE  KnownOK(Known(d, dict))
  <1> DEFINE empty == d.checkDicSize = 0 /\ d.processedPos = 0
             last == (IF d.dicPos = 0 THEN DicBufSize ELSE d.dicPos) - 1
             match == Behind(d.dicPos, d.reps[1])
             k == Known(d, dict)
  <1>1. k = [state |-> d.state, pos |-> d.processedPos,
             prevByte |-> IF empty THEN 0 ELSE dict[last],
             matchByte |-> IF IsCharState(d.state) THEN 0 ELSE dict[match]]
    BY DEF Known
  <1>2. /\ d.state \in 0 .. 11 /\ d.processedPos \in Nat /\ d.dicPos \in 0 .. DicBufSize
        /\ Filled(d, dict) /\ DistancesOK(d) /\ DicBufSize \in Nat \ {0}
    BY DecoderAssumption DEF DecoderOK, Decoders
  <1>3. d.reps[1] \in 1 .. Back(d) /\ Back(d) \in 1 .. DicBufSize /\ Back(d) \in Nat
    BY FirstRep
  <1> HIDE DEF k
  <1>4. (IF empty THEN 0 ELSE dict[last]) \in Letters
    <2>1. CASE empty
      BY <2>1, ZeroIsLetter
    <2>2. CASE ~empty /\ d.checkDicSize = 0
      BY <1>2, <2>2 DEF Filled
    <2>3. CASE d.checkDicSize # 0
      BY <1>2, <2>3 DEF Filled, Places
    <2> QED
      BY <2>1, <2>2, <2>3
  <1>5. (IF IsCharState(d.state) THEN 0 ELSE dict[match]) \in Letters
    <2>1. CASE IsCharState(d.state)
      BY <2>1, ZeroIsLetter
    <2>2. CASE ~IsCharState(d.state)
      <3>1. ~empty
        BY <1>2, <2>2 DEF IsCharState, DistancesOK
      <3>2. CASE d.checkDicSize = 0
        <4>1. Back(d) = d.processedPos /\ d.processedPos = d.dicPos
          BY <1>2, <3>1, <3>2 DEF Back, Filled
        <4>2. match \in 0 .. d.processedPos - 1
          BY <1>2, <1>3, <4>1 DEF Behind
        <4> QED
          BY <1>2, <2>2, <3>2, <4>2 DEF Filled
      <3>3. CASE d.checkDicSize # 0
        <4>1. match \in Places
          BY <1>2, <1>3 DEF Behind, Places
        <4> QED
          BY <1>2, <2>2, <3>3, <4>1 DEF Filled
      <3> QED
        BY <3>2, <3>3
    <2> QED
      BY <2>1, <2>2
  <1>6. /\ k.state = d.state /\ k.pos = d.processedPos
        /\ k.prevByte = IF empty THEN 0 ELSE dict[last]
        /\ k.matchByte = IF IsCharState(d.state) THEN 0 ELSE dict[match]
    BY <1>1
  <1>7. KnownOK(k)
    BY <1>2, <1>4, <1>5, <1>6 DEF KnownOK
  <1> QED
    BY <1>7 DEF k

(* What a symbol that is not refused does to the decoder.                   *)
LEMMA RepsKept ==
    ASSUME NEW d, NEW dict, DecoderOK(d, dict), ~d.needInitState,
           NEW w, WalkOK(w), w.kind # "match"
    PROVE  /\ DecodedReps(d.reps, w) \in Seq(Nat) /\ Len(DecodedReps(d.reps, w)) = LZMA_NUM_REPS
           /\ \A k \in 1 .. LZMA_NUM_REPS : DecodedReps(d.reps, w)[k] \in 1 .. Back(d)
  <1> DEFINE reps == d.reps
             next == DecodedReps(d.reps, w)
  <1>1. /\ reps \in Seq(Nat) /\ Len(reps) = 4
        /\ \A k \in 1 .. 4 : reps[k] \in 1 .. Back(d)
    BY DEF DecoderOK, Decoders, DistancesOK, LZMA_NUM_REPS
  <1>2. Back(d) \in Nat
    BY FirstRep
  <1>3. w.kind \in {"literal", "short", "rep"} /\ w.rep \in 0 .. 3
    BY DEF WalkOK, WalkTypes
  <1>4. /\ reps[1] \in 1 .. Back(d) /\ reps[2] \in 1 .. Back(d)
        /\ reps[3] \in 1 .. Back(d) /\ reps[4] \in 1 .. Back(d)
    BY <1>1
  <1>5. \A a, b, e, f \in 1 .. Back(d) :
            /\ <<a, b, e, f>> \in Seq(Nat) /\ Len(<<a, b, e, f>>) = 4
            /\ \A k \in 1 .. 4 : <<a, b, e, f>>[k] \in 1 .. Back(d)
    <2> SUFFICES ASSUME NEW a \in 1 .. Back(d), NEW b \in 1 .. Back(d), NEW e \in 1 .. Back(d),
                        NEW f \in 1 .. Back(d)
                 PROVE  /\ <<a, b, e, f>> \in Seq(Nat) /\ Len(<<a, b, e, f>>) = 4
                        /\ \A k \in 1 .. 4 : <<a, b, e, f>>[k] \in 1 .. Back(d)
      OBVIOUS
    <2>1. a \in Nat /\ b \in Nat /\ e \in Nat /\ f \in Nat
      BY <1>2
    <2>2. \A k \in 1 .. 4 : k = 1 \/ k = 2 \/ k = 3 \/ k = 4
      OBVIOUS
    <2> QED
      BY <2>1, <2>2
  <1>6. next = reps \/ next = <<reps[2], reps[1], reps[3], reps[4]>>
        \/ next = <<reps[3], reps[1], reps[2], reps[4]>>
        \/ next = <<reps[4], reps[1], reps[2], reps[3]>>
    <2>1. CASE w.kind \in {"literal", "short"}
      BY <2>1 DEF DecodedReps
    <2>2. CASE w.kind = "rep" /\ w.rep = 0
      BY <2>2 DEF DecodedReps
    <2>3. CASE w.kind = "rep" /\ w.rep = 1
      BY <2>3 DEF DecodedReps
    <2>4. CASE w.kind = "rep" /\ w.rep = 2
      BY <2>4 DEF DecodedReps
    <2>5. CASE w.kind = "rep" /\ w.rep = 3
      BY <2>5 DEF DecodedReps
    <2> QED
      BY <1>3, <2>1, <2>2, <2>3, <2>4, <2>5
  <1> HIDE DEF reps, next
  <1>7. /\ next \in Seq(Nat) /\ Len(next) = 4
        /\ \A k \in 1 .. 4 : next[k] \in 1 .. Back(d)
    <2>1. CASE next = reps
      BY <1>1, <2>1
    <2>2. CASE next = <<reps[2], reps[1], reps[3], reps[4]>>
      BY <1>4, <1>5, <2>2
    <2>3. CASE next = <<reps[3], reps[1], reps[2], reps[4]>>
      BY <1>4, <1>5, <2>3
    <2>4. CASE next = <<reps[4], reps[1], reps[2], reps[3]>>
      BY <1>4, <1>5, <2>4
    <2> QED
      BY <1>6, <2>1, <2>2, <2>3, <2>4
  <1> QED
    BY <1>7 DEF next, LZMA_NUM_REPS

(* A match puts its own, which was tested, before them.                     *)
LEMMA MatchReps ==
    ASSUME NEW d, NEW dict, DecoderOK(d, dict), ~d.needInitState, NEW w, WalkOK(w),
           w.kind = "match", w.distance + 1 \in 1 .. Back(d)
    PROVE  /\ DecodedReps(d.reps, w) \in Seq(Nat) /\ Len(DecodedReps(d.reps, w)) = LZMA_NUM_REPS
           /\ \A k \in 1 .. LZMA_NUM_REPS : DecodedReps(d.reps, w)[k] \in 1 .. Back(d)
           /\ DecodedReps(d.reps, w)[1] = w.distance + 1
  <1> DEFINE reps == d.reps
             next == DecodedReps(d.reps, w)
             dist == w.distance + 1
  <1>1. /\ reps \in Seq(Nat) /\ Len(reps) = 4
        /\ \A k \in 1 .. 4 : reps[k] \in 1 .. Back(d)
    BY DEF DecoderOK, Decoders, DistancesOK, LZMA_NUM_REPS
  <1>2. Back(d) \in Nat
    BY FirstRep
  <1>3. next = <<dist, reps[1], reps[2], reps[3]>>
    BY DEF DecodedReps
  <1> HIDE DEF reps, next, dist
  <1>4. /\ reps[1] \in 1 .. Back(d) /\ reps[2] \in 1 .. Back(d) /\ reps[3] \in 1 .. Back(d)
        /\ dist \in 1 .. Back(d)
    BY <1>1 DEF dist
  <1>5. reps[1] \in Nat /\ reps[2] \in Nat /\ reps[3] \in Nat /\ dist \in Nat
    BY <1>2, <1>4
  <1>6. \A k \in 1 .. 4 : k = 1 \/ k = 2 \/ k = 3 \/ k = 4
    OBVIOUS
  <1>7. next \in Seq(Nat) /\ Len(next) = 4 /\ \A k \in 1 .. 4 : next[k] \in 1 .. Back(d)
    BY <1>3, <1>4, <1>5, <1>6
  <1> QED
    BY <1>3, <1>7 DEF next, dist, LZMA_NUM_REPS

Unfit(d, w) ==
    \/ w.kind \in {"rep", "short"} /\ d.checkDicSize = 0 /\ d.processedPos = 0
    \/ /\ w.kind = "match"
       /\ w.distance >= (IF d.checkDicSize = 0 THEN d.processedPos ELSE d.checkDicSize)

(* The state stays one of the 12.                                           *)
LEMMA StateKept ==
    ASSUME NEW s \in 0 .. 11, NEW w, WalkOK(w)
    PROVE  DecodedState(s, w) \in 0 .. 11
  <1>1. w.kind \in {"literal", "match", "rep", "short"}
    BY DEF WalkOK, WalkTypes
  <1>2. CASE w.kind = "literal"
    <2>1. s + 1 \in 1 .. 12
      OBVIOUS
    <2>2. \A i \in 1 .. 12 : kLiteralNextStates[i] \in 0 .. 11
      BY DEF kLiteralNextStates
    <2> QED
      BY <1>2, <2>1, <2>2 DEF DecodedState, AfterLiteral
  <1>3. CASE w.kind = "match"
    BY <1>3 DEF DecodedState
  <1>4. CASE w.kind = "rep"
    BY <1>4 DEF DecodedState
  <1>5. CASE w.kind = "short"
    BY <1>5 DEF DecodedState
  <1> QED
    BY <1>1, <1>2, <1>3, <1>4, <1>5

(* The end mark writes nothing and cannot be mistaken for a length to copy. *)
LEMMA MarkWritten ==
    ASSUME NEW d, NEW dict, DecoderOK(d, dict), ~d.needInitState,
           NEW limit \in 0 .. DicBufSize, d.dicPos < limit,
           NEW w, WalkOK(w), Mark(w), NEW c \in Coders
    PROVE  /\ DecoderOK(After(d, w, c, limit), Written(d, w, dict, limit))
           /\ MoreWritten(dict, Written(d, w, dict, limit))
           /\ After(d, w, c, limit).dicPos \in d.dicPos .. limit
           /\ After(d, w, c, limit).range = c.range
           /\ After(d, w, c, limit).needFlush = d.needFlush
           /\ After(d, w, c, limit).needInitState = d.needInitState
  <1> DEFINE e == After(d, w, c, limit)
             rest == kMatchSpecLenStart + w.len
  <1>1. /\ d \in Decoders /\ Filled(d, dict) /\ DistancesOK(d)
        /\ d.dicPos \in 0 .. DicBufSize /\ d.processedPos \in Nat /\ DicBufSize \in Nat
    BY DecoderAssumption DEF DecoderOK, Decoders
  <1>2. Whole(w) = 0 /\ w.kind = "match"
    BY DEF Whole, Mark
  <1>3. Part(d, w, limit) = 0
    BY <1>1, <1>2 DEF Part, AtMost
  <1>4. Written(d, w, dict, limit) = dict
    BY <1>2, <1>3, NothingCopied DEF Written
  <1>5. rest \in Nat /\ rest \notin CopyLengths
    <2>1. w.len \in Nat
      BY MarkLength DEF WalkOK, WalkTypes
    <2> QED
      BY <2>1, MarkLength DEF CopyLengths
  <1>6. c.range \in 0 .. Word - 1 /\ c.code \in 0 .. Word - 1
    <2>1. \A a \in Nat : a .. Word - 1 \subseteq 0 .. Word - 1
      BY Sizes
    <2>2. Base * Base \in Nat /\ c.range \in Base * Base .. Word - 1
      BY Sizes DEF Coders
    <2> QED
      BY <2>1, <2>2 DEF Coders
  <1>7. e = [d EXCEPT !.range = c.range, !.code = c.code, !.remainLen = rest]
    <2>1. d.dicPos + 0 = d.dicPos /\ d.processedPos + 0 = d.processedPos
      BY <1>1
    <2>2. e = [d EXCEPT !.range = c.range, !.code = c.code, !.dicPos = d.dicPos,
                        !.processedPos = d.processedPos, !.state = d.state, !.reps = d.reps,
                        !.remainLen = rest]
      BY <1>3, <2>1 DEF After
    <2> HIDE DEF e, rest
    <2> QED
      BY <1>1, <2>2 DEF Decoders
  <1> HIDE DEF e, rest
  <1>8. /\ e \in Decoders /\ e.range = c.range /\ e.dicPos = d.dicPos /\ e.reps = d.reps
        /\ e.processedPos = d.processedPos /\ e.state = d.state /\ e.remainLen = rest
        /\ e.checkDicSize = d.checkDicSize /\ e.needFlush = d.needFlush
        /\ e.needInitState = d.needInitState
    BY <1>1, <1>5, <1>6, <1>7 DEF Decoders
  <1>9. Filled(e, dict)
    BY <1>1, <1>8 DEF Filled
  <1>10. DistancesOK(e)
    BY <1>1, <1>5, <1>8 DEF DistancesOK, Back
  <1>11. MoreWritten(dict, dict)
    BY <1>1 DEF MoreWritten, Filled
  <1>12. e.dicPos \in d.dicPos .. limit
    BY <1>1, <1>8
  <1> QED
    BY <1>4, <1>8, <1>9, <1>10, <1>11, <1>12 DEF DecoderOK, e

(* Any other symbol that is not refused writes what it stands for, up to    *)
(* the limit, and leaves the rest of it in remainLen.                       *)
LEMMA SymbolWritten ==
    ASSUME NEW d, NEW dict, DecoderOK(d, dict), ~d.needInitState,
           NEW limit \in 0 .. DicBufSize, d.dicPos < limit,
           NEW w, WalkOK(w), Done(w), ~Mark(w), ~Unfit(d, w), NEW c \in Coders
    PROVE  /\ DecoderOK(After(d, w, c, limit), Written(d, w, dict, limit))
           /\ MoreWritten(dict, Written(d, w, dict, limit))
           /\ After(d, w, c, limit).dicPos \in d.dicPos .. limit
           /\ After(d, w, c, limit).range = c.range
           /\ After(d, w, c, limit).needFlush = d.needFlush
           /\ After(d, w, c, limit).needInitState = d.needInitState
  <1> DEFINE e == After(d, w, c, limit)
             len == Part(d, w, limit)
             reps == DecodedReps(d.reps, w)
             more == Written(d, w, dict, limit)
             state == DecodedState(d.state, w)
  <1>1. /\ d \in Decoders /\ Filled(d, dict) /\ DistancesOK(d)
        /\ d.dicPos \in 0 .. DicBufSize /\ d.processedPos \in Nat /\ DicBufSize \in Nat \ {0}
        /\ d.checkDicSize \in {0, DicBufSize} /\ d.state \in 0 .. 11
        /\ d.needInitState = FALSE
    BY DecoderAssumption DEF DecoderOK, Decoders
  <1>2. Whole(w) \in Nat \ {0}
    <2>1. w.len \in Nat
      BY MarkLength DEF WalkOK, WalkTypes
    <2> QED
      BY <2>1 DEF Whole, LZMA_MATCH_LEN_MIN
  <1>3. len \in Nat \ {0} /\ d.dicPos + len <= limit /\ Whole(w) - len \in Nat
    BY <1>1, <1>2 DEF Part, AtMost
  <1>4. c.range \in 0 .. Word - 1 /\ c.code \in 0 .. Word - 1
    <2>1. \A a \in Nat : a .. Word - 1 \subseteq 0 .. Word - 1
      BY Sizes
    <2>2. Base * Base \in Nat /\ c.range \in Base * Base .. Word - 1
      BY Sizes DEF Coders
    <2> QED
      BY <2>1, <2>2 DEF Coders
  <1>5. state \in 0 .. 11
    BY <1>1, StateKept
  <1>6. Back(d) \in 1 .. DicBufSize /\ Back(d) \in Nat
    BY FirstRep
  <1>7. /\ reps \in Seq(Nat) /\ Len(reps) = LZMA_NUM_REPS
        /\ \A k \in 1 .. LZMA_NUM_REPS : reps[k] \in 1 .. Back(d)
    <2>1. CASE w.kind = "match"
      <3>1. w.distance \in Nat
        BY DEF WalkOK, WalkTypes
      <3>2. w.distance + 1 \in 1 .. Back(d)
        BY <1>1, <2>1, <3>1 DEF Unfit, Back
      <3> QED
        BY <2>1, <3>2, MatchReps
    <2>2. CASE w.kind # "match"
      BY <2>2, RepsKept
    <2> QED
      BY <2>1, <2>2
  <1>8. reps[1] \in 1 .. Back(d)
    BY <1>7 DEF LZMA_NUM_REPS
  <1>9. e = [d EXCEPT !.range = c.range, !.code = c.code, !.dicPos = d.dicPos + len,
                      !.processedPos = d.processedPos + len, !.state = state, !.reps = reps,
                      !.remainLen = Whole(w) - len]
    BY DEF After
  <1>10. w.kind = "literal" => Whole(w) = 1 /\ len = 1
    BY <1>1 DEF Whole, Part, AtMost
  <1> HIDE DEF e, len, reps, more, state
  <1>11. /\ d.dicPos + len \in 0 .. DicBufSize /\ d.processedPos + len \in Nat \ {0}
         /\ d.dicPos + len \in d.dicPos .. limit
    BY <1>1, <1>3
  <1>12. /\ e \in Decoders /\ e.range = c.range /\ e.dicPos = d.dicPos + len /\ e.reps = reps
         /\ e.processedPos = d.processedPos + len
         /\ e.checkDicSize = d.checkDicSize /\ e.needFlush = d.needFlush
         /\ e.needInitState = d.needInitState
    BY <1>1, <1>3, <1>4, <1>5, <1>7, <1>9, <1>11 DEF Decoders
  <1>13. /\ MoreWritten(dict, more)
         /\ \A i \in d.dicPos .. d.dicPos + len - 1 : more[i] \in Letters
    <2>1. CASE w.kind = "literal"
      <3> DEFINE letter == w.i - Power(NumLitBits)
      <3>1. more = [dict EXCEPT ![d.dicPos] = letter]
        BY <2>1 DEF more, Written, Power
      <3>2. letter \in Letters
        <4>1. w.i \in Power(NumLitBits) .. Power(NumLitBits + 1) - 1
          BY <2>1 DEF WalkOK, Done
        <4>2. Power(NumLitBits + 1) = 2 * Power(NumLitBits) /\ Power(NumLitBits) \in Nat
          BY SymbolSizes, PowersGrow
        <4>3. w.i \in Power(NumLitBits) .. 2 * Power(NumLitBits) - 1
          BY <4>1, <4>2
        <4> QED
          BY <4>2, <4>3 DEF Letters
      <3>3. d.dicPos \in Places
        BY <1>1, <1>3 DEF Places
      <3> HIDE DEF letter
      <3>4. dict \in [Places -> Cells]
        BY <1>1 DEF Filled
      <3>5. more \in [Places -> Cells] /\ more[d.dicPos] \in Letters
        BY <3>1, <3>2, <3>3, <3>4 DEF Cells
      <3>6. \A i \in Places : dict[i] \in Letters => more[i] \in Letters
        BY <3>1, <3>2, <3>4
      <3>7. \A i \in d.dicPos .. d.dicPos + len - 1 : i = d.dicPos
        BY <1>1, <1>10, <2>1
      <3> QED
        BY <3>5, <3>6, <3>7 DEF MoreWritten
    <2>2. CASE w.kind # "literal"
      <3>1. more = Copied(dict, d.dicPos, len, reps[1])
        BY <2>2 DEF more, Written, len, reps
      <3>2. \/ \A i \in Places : dict[i] \in Letters
            \/ reps[1] <= d.dicPos /\ \A i \in 0 .. d.dicPos - 1 : dict[i] \in Letters
        <4>1. CASE d.checkDicSize # 0
          BY <1>1, <4>1 DEF Filled
        <4>2. CASE d.checkDicSize = 0
          <5>1. d.processedPos # 0
            <6>1. w.kind \in {"rep", "short", "match"} /\ w.distance \in Nat
              BY <2>2 DEF WalkOK, WalkTypes
            <6> QED
              BY <1>1, <4>2, <6>1 DEF Unfit
          <5>2. Back(d) = d.dicPos
            BY <1>1, <4>2, <5>1 DEF Back, Filled
          <5> QED
            BY <1>1, <1>6, <1>8, <4>2, <5>2 DEF Filled
        <4> QED
          BY <4>1, <4>2
      <3>3. reps[1] \in 1 .. DicBufSize /\ d.dicPos \in Nat /\ d.dicPos + len <= DicBufSize
            /\ dict \in [Places -> Cells]
        BY <1>1, <1>3, <1>6, <1>8 DEF Filled
      <3> QED
        BY <1>3, <3>1, <3>2, <3>3, CopiedWrites
    <2> QED
      BY <2>1, <2>2
  <1>14. Filled(e, more)
    <2>1. more \in [Places -> Cells]
      BY <1>13 DEF MoreWritten
    <2>2. CASE d.checkDicSize # 0
      BY <1>1, <1>12, <1>13, <2>1, <2>2 DEF Filled, MoreWritten
    <2>3. CASE d.checkDicSize = 0
      <3>1. d.processedPos = d.dicPos
        BY <1>1, <2>3 DEF Filled
      <3>2. \A i \in 0 .. (d.dicPos + len) - 1 : more[i] \in Letters
        <4> SUFFICES ASSUME NEW i \in 0 .. (d.dicPos + len) - 1 PROVE more[i] \in Letters
          OBVIOUS
        <4>1. CASE i < d.dicPos
          <5>1. dict[i] \in Letters /\ i \in Places
            BY <1>1, <2>3, <4>1 DEF Filled, Places
          <5> QED
            BY <1>13, <5>1 DEF MoreWritten
        <4>2. CASE ~(i < d.dicPos)
          BY <1>1, <1>3, <1>13, <4>2
        <4> QED
          BY <4>1, <4>2
      <3> QED
        BY <1>12, <2>1, <2>3, <3>1, <3>2 DEF Filled
    <2> QED
      BY <2>2, <2>3
  <1>15. DistancesOK(e)
    <2>1. Back(d) <= Back(e) /\ Back(e) \in Nat
      BY <1>1, <1>3, <1>6, <1>11, <1>12 DEF Back
    <2>2. \A k \in 1 .. LZMA_NUM_REPS : e.reps[k] \in 1 .. Back(e)
      BY <1>6, <1>7, <1>12, <2>1
    <2>3. ~(e.processedPos = 0) /\ ~e.needInitState
      BY <1>1, <1>11, <1>12
    <2> QED
      BY <1>7, <1>12, <2>2, <2>3 DEF DistancesOK
  <1>16. /\ DecoderOK(e, more) /\ MoreWritten(dict, more) /\ e.dicPos \in d.dicPos .. limit
         /\ e.range = c.range /\ e.needFlush = d.needFlush /\ e.needInitState = d.needInitState
    BY <1>11, <1>12, <1>13, <1>14, <1>15 DEF DecoderOK
  <1> QED
    BY <1>16 DEF e, more
-----------------------------------------------------------------------------
(* The inductive invariant.  First p, which LzmaDec_DecodeToDic leaves      *)
(* behind even when it fails.                                               *)
Bytes == 0 .. Base - 1
Statuses == {"NOT_SPECIFIED", "FINISHED_WITH_MARK", "NEEDS_MORE_INPUT", "NOT_FINISHED"}
Locals == [limit : Nat, bufLimit : Nat, buf : Nat, fromTemp : BOOLEAN, dec : Decoders]

KeptOK(d) ==
    /\ d.remainLen <= kMatchSpecLenStart
    /\ d.checkDicSize = 0 => d.processedPos < DicBufSize
    /\ ~d.needFlush => d.range >= kTopValue

KeptInv ==
    /\ DecoderOK(p, dic) /\ KeptOK(p)
    /\ dprobs \in [AllContexts -> Probabilities \cup {0}]
    /\ ~p.needInitState => dprobs \in [AllContexts -> Probabilities]

(* The input at hand, and the room for output.                              *)
InputInv ==
    /\ bytes \in Seq(Bytes) /\ tempBuf \in Seq(Bytes)
    /\ taken \in Nat /\ taken + io.inSize <= Len(bytes)
    /\ Len(tempBuf) <= LZMA_REQUIRED_INPUT_MAX /\ Len(tempBuf) <= taken
    /\ p.needFlush /\ ret.ok => Len(tempBuf) < RcInitSize

CallInv ==
    /\ io \in [inSize : Nat, outSize : Nat, dicPos : 0 .. DicBufSize, dicLimit : 0 .. DicBufSize]
    /\ ret \in [status : Statuses, ok : BOOLEAN]
    /\ r \in Locals
    /\ output \in Seq(Letters)
    /\ pc \in {"idle", "toBuf", "toDic", "real", "stored", "leave"}
    /\ pc \in {"toBuf", "toDic", "real", "stored"} => ret.ok
    /\ pc \in {"toDic", "real", "stored", "leave"} => io.dicPos <= p.dicPos
    /\ pc = "toDic" => p.dicPos <= io.dicLimit

(* The symbol to come fits the input at hand: there are so many bytes that  *)
(* any symbol would, or TryDummy has found that this one does.              *)
RoomForSymbol ==
    \/ r.buf + LZMA_REQUIRED_INPUT_MAX < Len(Input)
    \/ r.buf + LZMA_REQUIRED_INPUT_MAX <= Len(Input) /\ r.dec.range >= kTopValue
    \/ r.bufLimit = 0 /\ r.buf = 0 /\ TryDummy(r.dec, dic, dprobs, Input)

(* The locals of LzmaDec_DecodeReal.                                        *)
LocalsInv ==
    pc \in {"real", "stored"} =>
        /\ DecoderOK(r.dec, dic)
        /\ ~r.dec.needInitState /\ ~r.dec.needFlush
        /\ ~p.needInitState /\ ~p.needFlush
        /\ r.bufLimit > 0 => r.bufLimit + LZMA_REQUIRED_INPUT_MAX <= Len(Input)
        /\ io.dicPos <= r.dec.dicPos
        /\ r.dec.dicPos <= r.limit /\ r.limit <= io.dicLimit
        /\ r.dec.range >= Base * Base
        /\ pc = "real" => r.dec.dicPos < r.limit /\ RoomForSymbol
        /\ pc = "stored" => r.dec.range >= kTopValue /\ r.buf <= Len(Input)

LzmaInv == KeptInv /\ InputInv /\ CallInv /\ LocalsInv

(* How a piece of the input relates to it.                                  *)
LEMMA Pieces ==
    ASSUME NEW S, NEW s \in Seq(S), NEW a \in Nat, NEW n \in Nat, a + n <= Len(s)
    PROVE  SubSeq(s, a + 1, a + n) \in Seq(S) /\ Len(SubSeq(s, a + 1, a + n)) = n
  <1>1. \A i \in a + 1 .. a + n : s[i] \in S
    BY ElementOfSeq, LenProperties
  <1>2. a + 1 \in Int /\ a + n \in Int
    OBVIOUS
  <1>3. /\ SubSeq(s, a + 1, a + n) \in Seq(S)
        /\ Len(SubSeq(s, a + 1, a + n)) = IF a + 1 <= a + n THEN (a + n) - (a + 1) + 1 ELSE 0
    BY <1>1, <1>2, SubSeqProperties
  <1> QED
    BY <1>3

(* Before the first call.                                                   *)
LEMMA LzmaInit ==
    ASSUME DecoderInit(<< >>)
    PROVE  LzmaInv
  <1>1. DicBufSize \in Nat \ {0} /\ LZMA_REQUIRED_INPUT_MAX \in Nat /\ RcInitSize = 5
    BY DecoderAssumption
  <1>2. 0 \in 0 .. Word - 1
    <2>1. Word \in Nat \ {0}
      BY Sizes
    <2> QED
      BY <2>1
  <1>3. InitialDec \in Decoders
    <2>1. <<0, 0, 0, 0>> \in Seq(Nat)
      OBVIOUS
    <2> QED
      BY <1>1, <1>2, <2>1 DEF InitialDec, Decoders
  <1>4. Filled(InitialDec, dic)
    BY <1>1 DEF InitialDec, Filled, DecoderInit, Places, Cells
  <1>5. DistancesOK(InitialDec)
    BY MarkLength DEF InitialDec, DistancesOK, CopyLengths, LZMA_NUM_REPS
  <1>6. KeptOK(InitialDec)
    BY <1>1, MarkLength DEF InitialDec, KeptOK
  <1>7. KeptInv
    <2>1. dprobs \in [AllContexts -> Probabilities \cup {0}]
      BY DEF DecoderInit
    <2>2. p = InitialDec /\ InitialDec.needInitState
      BY DEF DecoderInit, InitialDec
    <2> QED
      BY <1>3, <1>4, <1>5, <1>6, <2>1, <2>2 DEF KeptInv, DecoderOK
  <1>8. << >> \in Seq(Bytes) /\ Len(<< >>) = 0 /\ << >> \in Seq(Letters)
    BY EmptySeq
  <1>9. InputInv
    BY <1>1, <1>8 DEF DecoderInit, InputInv, NoCall
  <1>10. NoLocals \in Locals
    BY <1>3 DEF NoLocals, Locals
  <1>11. CallInv
    BY <1>1, <1>8, <1>10 DEF DecoderInit, CallInv, NoCall, Statuses
  <1>12. LocalsInv
    BY DEF DecoderInit, LocalsInv
  <1> QED
    BY <1>7, <1>9, <1>11, <1>12 DEF LzmaInv

(* More input to hand out.                                                  *)
LEMMA ReceiveKeeps ==
    ASSUME LzmaInv, NEW more \in Seq(Bytes), Receive(more)
    PROVE  LzmaInv'
  <1>1. KeptInv'
    BY DEF LzmaInv, KeptInv, Receive
  <1>2. InputInv'
    <2>1. /\ bytes \o more \in Seq(Bytes) /\ Len(bytes \o more) = Len(bytes) + Len(more)
          /\ Len(more) \in Nat /\ Len(bytes) \in Nat
      BY ConcatProperties, LenProperties DEF LzmaInv, InputInv
    <2>2. io.inSize \in Nat /\ taken \in Nat
      BY DEF LzmaInv, CallInv, InputInv
    <2> QED
      BY <2>1, <2>2 DEF LzmaInv, InputInv, Receive
  <1>3. CallInv' /\ LocalsInv'
    BY DEF LzmaInv, CallInv, LocalsInv, Receive
  <1> QED
    BY <1>1, <1>2, <1>3 DEF LzmaInv

(* A call hands over input that there is.                                   *)
LEMMA CallKeeps ==
    ASSUME LzmaInv, NEW amt \in Nat, NEW dst \in Nat, Call(amt, dst)
    PROVE  LzmaInv'
  <1>1. KeptInv'
    BY DEF LzmaInv, KeptInv, Call
  <1>2. /\ io' \in [inSize : Nat, outSize : Nat, dicPos : 0 .. DicBufSize,
                    dicLimit : 0 .. DicBufSize]
        /\ io'.inSize = amt
    BY DEF LzmaInv, CallInv, Call
  <1>3. InputInv'
    BY <1>2 DEF LzmaInv, InputInv, Call
  <1>4. CallInv' /\ LocalsInv'
    BY <1>2 DEF LzmaInv, CallInv, LocalsInv, Call
  <1> QED
    BY <1>1, <1>3, <1>4 DEF LzmaInv

(* A round of LzmaDec_DecodeToBuf begins at a place of the dictionary.      *)
LEMMA EnterKeeps ==
    ASSUME LzmaInv, EnterDecodeToDic
    PROVE  LzmaInv'
  <1> DEFINE pos == IF p.dicPos = DicBufSize THEN 0 ELSE p.dicPos
             limit == AtMost(DicBufSize, pos + io.outSize)
             at == [p EXCEPT !.dicPos = pos]
  <1>1. /\ DecoderOK(p, dic) /\ KeptOK(p) /\ DicBufSize \in Nat \ {0}
        /\ p \in Decoders /\ p.dicPos \in 0 .. DicBufSize /\ io.outSize \in Nat
        /\ p.checkDicSize \in {0, DicBufSize} /\ p.processedPos \in Nat
        /\ Filled(p, dic) /\ DistancesOK(p)
    BY DecoderAssumption DEF LzmaInv, KeptInv, CallInv, DecoderOK, Decoders
  <1>2. pos \in 0 .. DicBufSize - 1 /\ limit \in 0 .. DicBufSize /\ pos <= limit
    BY <1>1 DEF AtMost
  <1>3. p.dicPos = DicBufSize => p.checkDicSize # 0
    BY <1>1 DEF KeptOK, Filled
  <1>4. /\ p' = WriteRem(at, limit)
        /\ dic' = Copied(dic, pos, RemLen(at, limit), p.reps[1])
        /\ io' = [io EXCEPT !.dicPos = pos, !.dicLimit = limit]
        /\ ret' = [ret EXCEPT !.status = "NOT_SPECIFIED"] /\ pc = "toBuf" /\ pc' = "toDic"
        /\ UNCHANGED <<bytes, asked, taken, output, dprobs, tempBuf, r>>
    BY DEF EnterDecodeToDic
  <1>5. p.dicPos # DicBufSize => pos = p.dicPos
    OBVIOUS
  <1> HIDE DEF pos, limit
  <1>6. /\ at \in Decoders /\ at.dicPos = pos /\ at.reps = p.reps
        /\ at.processedPos = p.processedPos /\ at.checkDicSize = p.checkDicSize
        /\ at.state = p.state /\ at.remainLen = p.remainLen /\ at.range = p.range
        /\ at.needFlush = p.needFlush /\ at.needInitState = p.needInitState
    <2>1. pos \in 0 .. DicBufSize
      BY <1>1, <1>2
    <2> QED
      BY <1>1, <2>1 DEF Decoders
  <1> HIDE DEF at
  <1>7. Filled(at, dic)
    BY <1>1, <1>3, <1>5, <1>6 DEF Filled
  <1>8. DistancesOK(at)
    BY <1>1, <1>6 DEF DistancesOK, Back
  <1>9. DecoderOK(at, dic)
    BY <1>6, <1>7, <1>8 DEF DecoderOK
  <1>10. at.checkDicSize = 0 => at.processedPos < DicBufSize
    BY <1>1, <1>6 DEF KeptOK
  <1>11. /\ DecoderOK(p', dic') /\ p'.dicPos \in pos .. limit
         /\ p'.checkDicSize = 0 => p'.processedPos < DicBufSize
         /\ p'.remainLen <= p.remainLen /\ p'.range = p.range
         /\ p'.needFlush = p.needFlush /\ p'.needInitState = p.needInitState
    BY <1>2, <1>4, <1>6, <1>9, <1>10, RemWritten
  <1>12. KeptOK(p')
    <2>1. p'.remainLen \in Nat /\ p.remainLen \in Nat /\ kMatchSpecLenStart \in Nat
      BY <1>1, <1>11, MarkLength DEF DecoderOK, Decoders
    <2> QED
      BY <1>1, <1>11, <2>1 DEF KeptOK
  <1>13. KeptInv'
    BY <1>4, <1>11, <1>12 DEF LzmaInv, KeptInv
  <1>14. /\ io' \in [inSize : Nat, outSize : Nat, dicPos : 0 .. DicBufSize,
                     dicLimit : 0 .. DicBufSize]
         /\ io'.inSize = io.inSize /\ io'.dicPos = pos /\ io'.dicLimit = limit
    <2>1. pos \in 0 .. DicBufSize
      BY <1>1, <1>2
    <2> QED
      BY <1>2, <1>4, <2>1 DEF LzmaInv, CallInv
  <1>15. ret' \in [status : Statuses, ok : BOOLEAN] /\ ret'.ok = ret.ok
    BY <1>4 DEF LzmaInv, CallInv, Statuses
  <1>16. InputInv'
    BY <1>4, <1>11, <1>14, <1>15 DEF LzmaInv, InputInv
  <1>17. io'.dicPos <= p'.dicPos /\ p'.dicPos <= io'.dicLimit
    BY <1>2, <1>11, <1>14
  <1>18. CallInv'
    BY <1>4, <1>14, <1>15, <1>17 DEF LzmaInv, CallInv
  <1>19. LocalsInv'
    BY <1>4 DEF LocalsInv
  <1> QED
    BY <1>13, <1>16, <1>18, <1>19 DEF LzmaInv

(* LzmaDec_DecodeToDic returns, and with an error or enough of the input    *)
(* taken that it will not be called to start again.                         *)
LEMMA MarkKeeps ==
    ASSUME LzmaInv, MarkMet
    PROVE  LzmaInv'
  <1>1. /\ pc = "toDic" /\ pc' = "leave"
        /\ \/ ret' = [status |-> "FINISHED_WITH_MARK", ok |-> TRUE]
           \/ ret' = [status |-> "NOT_SPECIFIED", ok |-> FALSE]
        /\ UNCHANGED <<bytes, asked, taken, output, p, dic, dprobs, tempBuf, io, r>>
    BY DEF MarkMet, Leave
  <1>2. ret' \in [status : Statuses, ok : BOOLEAN] /\ ret.ok
    <2>1. [status |-> "FINISHED_WITH_MARK", ok |-> TRUE] \in [status : Statuses, ok : BOOLEAN]
      BY DEF Statuses
    <2>2. [status |-> "NOT_SPECIFIED", ok |-> FALSE] \in [status : Statuses, ok : BOOLEAN]
      BY DEF Statuses
    <2>3. ret.ok
      BY <1>1 DEF LzmaInv, CallInv
    <2> QED
      BY <1>1, <2>1, <2>2, <2>3
  <1>3. KeptInv' /\ InputInv'
    BY <1>1, <1>2 DEF LzmaInv, KeptInv, InputInv
  <1>4. CallInv' /\ LocalsInv'
    BY <1>1, <1>2 DEF LzmaInv, CallInv, LocalsInv
  <1> QED
    BY <1>3, <1>4 DEF LzmaInv

(* The same when there is no room.                                          *)
LEMMA LimitKeeps ==
    ASSUME LzmaInv, LimitMet
    PROVE  LzmaInv'
  <1>1. /\ pc = "toDic" /\ pc' = "leave" /\ ret' = [status |-> "NOT_FINISHED", ok |-> TRUE]
        /\ UNCHANGED <<bytes, asked, taken, output, p, dic, dprobs, tempBuf, io, r>>
    BY DEF LimitMet, Leave
  <1>2. ret' \in [status : Statuses, ok : BOOLEAN] /\ ret.ok
    BY <1>1 DEF Statuses, LzmaInv, CallInv
  <1>3. KeptInv' /\ InputInv'
    BY <1>1, <1>2 DEF LzmaInv, KeptInv, InputInv
  <1>4. CallInv' /\ LocalsInv'
    BY <1>1, <1>2 DEF LzmaInv, CallInv, LocalsInv
  <1> QED
    BY <1>3, <1>4 DEF LzmaInv

(* The five bytes that start the range decoder: code is a Word, and no more *)
(* of them are kept than LzmaDec_InitRc needs.                              *)
LEMMA StartCode ==
    ASSUME NEW a \in Bytes, NEW b \in Bytes, NEW c \in Bytes, NEW e \in Bytes
    PROVE  ((a * Base + b) * Base + c) * Base + e \in 0 .. Word - 1
  <1>1. /\ Base \in Nat \ {0, 1} /\ Word = kTopValue * Base
        /\ kTopValue = (Base * Base) * Base /\ Base * Base \in Nat /\ kTopValue \in Nat
    BY Sizes
  <1>2. a \in Nat /\ b \in Nat /\ c \in Nat /\ e \in Nat
        /\ a < Base /\ b < Base /\ c < Base /\ e < Base
    BY <1>1 DEF Bytes
  <1>3. ASSUME NEW x \in Nat, NEW y \in Nat, NEW m \in Nat, x < m, y < Base
        PROVE  x * Base + y \in Nat /\ x * Base + y < m * Base
    <2>1. (x + 1) * Base <= m * Base
      BY <1>1, <1>3
    <2>2. (x + 1) * Base = x * Base + Base /\ x * Base \in Nat /\ m * Base \in Nat
      BY <1>1
    <2> QED
      BY <1>1, <1>3, <2>1, <2>2
  <1> DEFINE u == a * Base + b
             v == u * Base + c
  <1>4. u \in Nat /\ u < Base * Base
    BY <1>1, <1>2, <1>3
  <1> HIDE DEF u
  <1>5. v \in Nat /\ v < (Base * Base) * Base
    BY <1>1, <1>2, <1>3, <1>4
  <1> HIDE DEF v
  <1>6. v * Base + e \in Nat /\ v * Base + e < kTopValue * Base
    BY <1>1, <1>2, <1>3, <1>5
  <1>7. v * Base + e \in 0 .. Word - 1
    BY <1>1, <1>6
  <1> QED
    BY <1>7 DEF u, v

(* The range decoder starts from five bytes, in however many pieces they    *)
(* come.                                                                    *)
LEMMA StartKeeps ==
    ASSUME LzmaInv, StartRangeDecoder
    PROVE  LzmaInv'
  <1> DEFINE n == AtMost(io.inSize, RcInitSize - Len(tempBuf))
             start == tempBuf \o SubSeq(bytes, taken + 1, taken + n)
             code == ((start[2] * Base + start[3]) * Base + start[4]) * Base + start[5]
  <1>1. /\ pc = "toDic" /\ p.needFlush /\ taken' = taken + n
        /\ io' = [io EXCEPT !.inSize = io.inSize - n]
        /\ UNCHANGED <<bytes, asked, output, dic, dprobs, r>>
    BY DEF StartRangeDecoder
  <1>2. \/ /\ Len(start) < RcInitSize
           /\ tempBuf' = start /\ p' = p /\ pc' = "leave"
           /\ ret' = [status |-> "NEEDS_MORE_INPUT", ok |-> TRUE]
        \/ /\ Len(start) = RcInitSize
           /\ tempBuf' = start /\ p' = p /\ pc' = "leave"
           /\ ret' = [status |-> "NOT_SPECIFIED", ok |-> FALSE]
        \/ /\ Len(start) = RcInitSize
           /\ tempBuf' = << >> /\ pc' = pc /\ ret' = ret
           /\ p' = [p EXCEPT !.needFlush = FALSE, !.range = Word - 1, !.code = code]
    BY DEF StartRangeDecoder, Leave
  <1>3. /\ tempBuf \in Seq(Bytes) /\ bytes \in Seq(Bytes) /\ taken \in Nat /\ io.inSize \in Nat
        /\ Len(tempBuf) \in Nat /\ Len(tempBuf) < RcInitSize /\ RcInitSize \in Nat
        /\ Len(bytes) \in Nat /\ taken + io.inSize <= Len(bytes) /\ Len(tempBuf) <= taken
    BY <1>1, DecoderAssumption, LenProperties DEF LzmaInv, InputInv, CallInv
  <1>4. n \in Nat /\ n <= io.inSize /\ Len(tempBuf) + n <= RcInitSize
    BY <1>3 DEF AtMost
  <1> HIDE DEF n
  <1>5. start \in Seq(Bytes) /\ Len(start) = Len(tempBuf) + n
    <2>1. taken + n <= Len(bytes)
      BY <1>3, <1>4
    <2>2. /\ SubSeq(bytes, taken + 1, taken + n) \in Seq(Bytes)
          /\ Len(SubSeq(bytes, taken + 1, taken + n)) = n
      BY <1>3, <1>4, <2>1, Pieces
    <2> QED
      BY <1>3, <2>2, ConcatProperties
  <1> HIDE DEF start
  <1>6. /\ io' \in [inSize : Nat, outSize : Nat, dicPos : 0 .. DicBufSize,
                    dicLimit : 0 .. DicBufSize]
        /\ io'.inSize = io.inSize - n /\ io'.dicPos = io.dicPos /\ io'.dicLimit = io.dicLimit
    <2>1. io.inSize - n \in Nat
      BY <1>3, <1>4
    <2> QED
      BY <1>1, <2>1 DEF LzmaInv, CallInv
  <1>7. /\ taken' \in Nat /\ taken' + io'.inSize <= Len(bytes) /\ Len(start) <= taken'
        /\ Len(start) <= LZMA_REQUIRED_INPUT_MAX
    <2>1. taken' = taken + n /\ io'.inSize = io.inSize - n /\ Len(start) = Len(tempBuf) + n
      BY <1>1, <1>5, <1>6
    <2>2. RcInitSize <= LZMA_REQUIRED_INPUT_MAX /\ LZMA_REQUIRED_INPUT_MAX \in Nat
      BY DecoderAssumption
    <2> QED
      BY <1>3, <1>4, <2>1, <2>2
  <1>8. CASE p' = p
    <2>1. /\ tempBuf' = start /\ pc' = "leave" /\ ret' \in [status : Statuses, ok : BOOLEAN]
          /\ ret'.ok => Len(start) < RcInitSize
      <3>1. CASE Len(start) < RcInitSize
        <4>1. CASE ret' = [status |-> "NEEDS_MORE_INPUT", ok |-> TRUE]
          BY <1>2, <3>1, <4>1 DEF Statuses
        <4>2. CASE ret' = [status |-> "NOT_SPECIFIED", ok |-> FALSE]
          BY <1>2, <3>1, <4>2 DEF Statuses
        <4> QED
          BY <1>2, <1>3, <3>1, <4>1, <4>2
      <3>2. CASE ~(Len(start) < RcInitSize)
        <4>1. ~([p EXCEPT !.needFlush = FALSE, !.range = Word - 1, !.code = code].needFlush)
          BY DEF LzmaInv, KeptInv, DecoderOK, Decoders
        <4>2. /\ tempBuf' = start /\ pc' = "leave"
              /\ ret' = [status |-> "NOT_SPECIFIED", ok |-> FALSE]
          BY <1>1, <1>2, <1>8, <3>2, <4>1
        <4> QED
          BY <4>2 DEF Statuses
      <3> QED
        BY <3>1, <3>2
    <2>2. KeptInv'
      BY <1>1, <1>8 DEF LzmaInv, KeptInv
    <2>3. InputInv'
      BY <1>1, <1>3, <1>5, <1>7, <2>1 DEF InputInv
    <2>4. CallInv' /\ LocalsInv'
      BY <1>1, <1>6, <1>8, <2>1 DEF LzmaInv, CallInv, LocalsInv
    <2> QED
      BY <2>2, <2>3, <2>4 DEF LzmaInv
  <1>9. CASE p' # p
    <2>1. /\ Len(start) = RcInitSize /\ tempBuf' = << >> /\ pc' = pc /\ ret' = ret
          /\ p' = [p EXCEPT !.needFlush = FALSE, !.range = Word - 1, !.code = code]
      BY <1>2, <1>9
    <2>2. code \in 0 .. Word - 1
      <3>1. RcInitSize = 5
        BY DecoderAssumption
      <3>2. start[2] \in Bytes /\ start[3] \in Bytes /\ start[4] \in Bytes /\ start[5] \in Bytes
        <4>1. 2 \in 1 .. Len(start) /\ 3 \in 1 .. Len(start) /\ 4 \in 1 .. Len(start)
              /\ 5 \in 1 .. Len(start)
          BY <2>1, <3>1
        <4> QED
          BY <1>5, <4>1, ElementOfSeq
      <3> QED
        BY <3>2, StartCode
    <2>3. Word - 1 \in 0 .. Word - 1 /\ Word - 1 >= kTopValue
      <3>1. /\ kTopValue \in Nat \ {0} /\ Word = kTopValue * Base /\ Base \in Nat \ {0, 1}
        BY Sizes
      <3>2. \A x \in Nat \ {0} : x * Base \in Nat /\ x * Base > x
        BY <3>1
      <3> QED
        BY <3>1, <3>2
    <2> HIDE DEF code
    <2>4. /\ p' \in Decoders /\ p'.dicPos = p.dicPos /\ p'.reps = p.reps
          /\ p'.processedPos = p.processedPos /\ p'.checkDicSize = p.checkDicSize
          /\ p'.state = p.state /\ p'.remainLen = p.remainLen /\ p'.range = Word - 1
          /\ ~p'.needFlush /\ p'.needInitState = p.needInitState
      BY <2>1, <2>2, <2>3 DEF LzmaInv, KeptInv, DecoderOK, Decoders
    <2>5. DecoderOK(p, dic) /\ KeptOK(p)
      BY DEF LzmaInv, KeptInv
    <2>6. DecoderOK(p', dic)
      BY <2>4, <2>5 DEF DecoderOK, Filled, DistancesOK, Back
    <2>7. KeptOK(p')
      BY <2>3, <2>4, <2>5 DEF KeptOK
    <2>8. KeptInv'
      BY <1>1, <2>4, <2>6, <2>7 DEF LzmaInv, KeptInv
    <2>9. InputInv'
      <3>1. << >> \in Seq(Bytes) /\ Len(<< >>) = 0
        BY EmptySeq
      <3> QED
        BY <1>1, <1>3, <1>7, <2>1, <2>4, <3>1, DecoderAssumption DEF InputInv
    <2>10. CallInv' /\ LocalsInv'
      BY <1>1, <1>6, <2>1, <2>4 DEF LzmaInv, CallInv, LocalsInv
    <2> QED
      BY <2>8, <2>9, <2>10 DEF LzmaInv
  <1> QED
    BY <1>8, <1>9

(* LzmaDec_InitStateReal has made the decoder ready for its first symbol.   *)
LEMMA ReadyState ==
    ASSUME LzmaInv, ~p.needFlush
    PROVE  /\ DecoderOK(StateReady, dic) /\ KeptOK(StateReady)
           /\ ~StateReady.needFlush /\ ~StateReady.needInitState
           /\ StateReady.dicPos = p.dicPos /\ StateReady.range = p.range
           /\ ProbsReady \in [AllContexts -> Probabilities]
  <1>1. DecoderOK(p, dic) /\ KeptOK(p) /\ p \in Decoders /\ Filled(p, dic) /\ DistancesOK(p)
    BY DEF LzmaInv, KeptInv, DecoderOK
  <1>2. kProbInitValue \in Probabilities
    BY BitModelAssumption DEF kProbInitValue, Probabilities
  <1>3. CASE ~p.needInitState
    BY <1>1, <1>3 DEF LzmaInv, KeptInv, StateReady, ProbsReady
  <1>4. CASE p.needInitState
    <2> DEFINE reps == <<1, 1, 1, 1>>
               s == StateReady
    <2>1. s = [p EXCEPT !.needInitState = FALSE, !.reps = reps, !.state = 0]
      BY <1>4 DEF StateReady
    <2>2. /\ reps \in Seq(Nat) /\ Len(reps) = 4 /\ reps[1] = 1 /\ reps[2] = 1 /\ reps[3] = 1
          /\ reps[4] = 1
      OBVIOUS
    <2>3. \A k \in 1 .. 4 : reps[k] = 1
      <3>1. \A k \in 1 .. 4 : k = 1 \/ k = 2 \/ k = 3 \/ k = 4
        OBVIOUS
      <3> HIDE DEF reps
      <3> QED
        BY <2>2, <3>1
    <2> HIDE DEF reps, s
    <2>4. /\ s \in Decoders /\ s.reps = reps /\ s.state = 0 /\ ~s.needInitState
          /\ s.dicPos = p.dicPos /\ s.processedPos = p.processedPos /\ s.range = p.range
          /\ s.checkDicSize = p.checkDicSize /\ s.remainLen = p.remainLen
          /\ s.needFlush = p.needFlush
      <3>0. reps \in Seq(Nat) /\ 0 \in 0 .. 11
        BY <2>2
      <3>1. s \in Decoders
        BY <1>1, <2>1, <3>0 DEF Decoders
      <3>2. s.reps = reps /\ s.state = 0 /\ ~s.needInitState
        BY <1>1, <2>1 DEF Decoders
      <3>3. /\ s.dicPos = p.dicPos /\ s.processedPos = p.processedPos /\ s.range = p.range
            /\ s.checkDicSize = p.checkDicSize /\ s.remainLen = p.remainLen
        BY <1>1, <2>1 DEF Decoders
      <3>4. s.needFlush = p.needFlush
        BY <1>1, <2>1 DEF Decoders
      <3> QED
        BY <3>1, <3>2, <3>3, <3>4
    <2>5. p.processedPos = 0 /\ p.checkDicSize = 0
      BY <1>1, <1>4 DEF DistancesOK
    <2>6. Filled(s, dic)
      BY <1>1, <2>4 DEF Filled
    <2>7. DistancesOK(s)
      <3>1. Back(s) = 1
        BY <2>4, <2>5 DEF Back
      <3> QED
        BY <1>1, <2>2, <2>3, <2>4, <2>5, <3>1 DEF DistancesOK, LZMA_NUM_REPS
    <2>8. KeptOK(s)
      BY <1>1, <2>4 DEF KeptOK
    <2>9. ProbsReady \in [AllContexts -> Probabilities]
      BY <1>2, <1>4 DEF ProbsReady
    <2>10. /\ DecoderOK(s, dic) /\ KeptOK(s) /\ ~s.needFlush /\ ~s.needInitState
           /\ s.dicPos = p.dicPos /\ s.range = p.range
      BY <2>4, <2>6, <2>7, <2>8 DEF DecoderOK
    <2> QED
      BY <2>9, <2>10 DEF s
  <1> QED
    BY <1>3, <1>4

(* LzmaDec_DecodeReal2 leaves room for a byte at least.                     *)
LEMMA LimitLeavesRoom ==
    ASSUME NEW d, NEW dict, DecoderOK(d, dict), KeptOK(d), CallInv, d.dicPos < io.dicLimit
    PROVE  RealLimit(d) \in Nat /\ d.dicPos < RealLimit(d) /\ RealLimit(d) <= io.dicLimit
  <1>1. /\ io.dicLimit \in 0 .. DicBufSize /\ DicBufSize \in Nat /\ d.dicPos \in 0 .. DicBufSize
        /\ d.processedPos \in Nat /\ (d.checkDicSize = 0 => d.processedPos < DicBufSize)
    BY DecoderAssumption DEF CallInv, DecoderOK, Decoders, KeptOK
  <1> QED
    BY <1>1 DEF RealLimit, AtMost

(* What enters LzmaDec_DecodeReal, if there is room for the symbol.         *)
LEMMA EnterRealKeeps ==
    ASSUME LzmaInv, NEW bufLimit \in Nat, NEW fromTemp \in BOOLEAN,
           Ready, EnterReal(StateReady, bufLimit, fromTemp),
           p' = StateReady, dprobs' = ProbsReady, dic' = dic, ret' = ret, output' = output,
           bytes' = bytes, NEW n \in 0 .. io.inSize, taken' = taken + n,
           io' = [io EXCEPT !.inSize = io.inSize - n],
           tempBuf' \in Seq(Bytes), Len(tempBuf') <= LZMA_REQUIRED_INPUT_MAX,
           Len(tempBuf') <= taken',
           bufLimit > 0 => bufLimit + LZMA_REQUIRED_INPUT_MAX <= Len(Input'),
           \/ LZMA_REQUIRED_INPUT_MAX <= Len(Input')
           \/ bufLimit = 0 /\ TryDummy(StateReady, dic, ProbsReady, Input')
    PROVE  LzmaInv'
  <1> DEFINE s == StateReady
             limit == RealLimit(StateReady)
  <1>1. /\ DecoderOK(s, dic) /\ KeptOK(s) /\ ~s.needFlush /\ ~s.needInitState
        /\ s.dicPos = p.dicPos /\ s \in Decoders
        /\ ProbsReady \in [AllContexts -> Probabilities]
    BY ReadyState DEF Ready, DecoderOK
  <1>2. /\ io \in [inSize : Nat, outSize : Nat, dicPos : 0 .. DicBufSize,
                   dicLimit : 0 .. DicBufSize]
        /\ pc = "toDic" /\ p.dicPos < io.dicLimit /\ io.dicPos <= p.dicPos /\ ret.ok
    BY DEF LzmaInv, CallInv, Ready
  <1>3. limit \in Nat /\ s.dicPos < limit /\ limit <= io.dicLimit
    BY <1>1, <1>2, LimitLeavesRoom DEF LzmaInv
  <1>4. /\ r' = [limit |-> limit, bufLimit |-> bufLimit, buf |-> 0,
                 fromTemp |-> fromTemp, dec |-> s]
        /\ pc' = "real"
    BY DEF EnterReal
  <1> HIDE DEF s, limit
  <1>5. /\ r' \in Locals /\ r'.limit = limit /\ r'.bufLimit = bufLimit /\ r'.buf = 0
        /\ r'.fromTemp = fromTemp /\ r'.dec = s
    BY <1>1, <1>3, <1>4 DEF Locals
  <1>6. /\ io' \in [inSize : Nat, outSize : Nat, dicPos : 0 .. DicBufSize,
                    dicLimit : 0 .. DicBufSize]
        /\ io'.inSize = io.inSize - n /\ io'.dicPos = io.dicPos /\ io'.dicLimit = io.dicLimit
    <2>1. io.inSize - n \in Nat
      BY <1>2
    <2> QED
      BY <1>2, <2>1
  <1>7. p' = s
    BY DEF s
  <1>8. KeptInv'
    <2>1. dprobs' \in [AllContexts -> Probabilities \cup {0}]
      BY <1>1
    <2> QED
      BY <1>1, <1>7, <2>1 DEF KeptInv
  <1>9. InputInv'
    <2>1. taken + n \in Nat /\ taken + n + (io.inSize - n) <= Len(bytes)
      <3>1. taken \in Nat /\ io.inSize \in Nat /\ taken + io.inSize <= Len(bytes)
            /\ Len(bytes) \in Nat
        BY <1>2, LenProperties DEF LzmaInv, InputInv
      <3> QED
        BY <3>1
    <2> QED
      BY <1>1, <1>6, <1>7, <2>1 DEF LzmaInv, InputInv
  <1>10. CallInv'
    BY <1>1, <1>2, <1>4, <1>5, <1>6, <1>7 DEF LzmaInv, CallInv
  <1>11. s.range >= kTopValue /\ s.range >= Base * Base
    <2>1. s.range \in 0 .. Word - 1 /\ s.range >= kTopValue
      BY <1>1 DEF KeptOK, Decoders
    <2>2. kTopValue \in Nat /\ Base * Base \in Nat /\ Word \in Nat /\ 2 * (Base * Base) <= kTopValue
      BY Sizes
    <2> QED
      BY <2>1, <2>2
  <1>12. LZMA_REQUIRED_INPUT_MAX \in Nat
    BY DecoderAssumption
  <1>13. RoomForSymbol'
    <2>1. CASE LZMA_REQUIRED_INPUT_MAX <= Len(Input')
      <3>1. 0 + LZMA_REQUIRED_INPUT_MAX <= Len(Input')
        BY <1>12, <2>1
      <3> QED
        BY <1>5, <1>11, <3>1 DEF RoomForSymbol
    <2>2. CASE bufLimit = 0 /\ TryDummy(StateReady, dic, ProbsReady, Input')
      BY <1>5, <2>2 DEF RoomForSymbol, s
    <2> QED
      BY <2>1, <2>2
  <1>14. io'.dicPos <= r'.dec.dicPos /\ r'.dec.dicPos <= r'.limit
    <2>1. s.dicPos \in Nat
      BY <1>1, DecoderAssumption DEF Decoders
    <2> QED
      BY <1>1, <1>2, <1>3, <1>5, <1>6, <2>1
  <1>15. LocalsInv'
    BY <1>1, <1>3, <1>4, <1>5, <1>6, <1>7, <1>11, <1>13, <1>14 DEF LocalsInv
  <1> QED
    BY <1>8, <1>9, <1>10, <1>15 DEF LzmaInv

(* What is left of the input when it does not hold a symbol goes to tempBuf. *)
LEMMA WaitKeeps ==
    ASSUME LzmaInv, Ready, p' = StateReady, dprobs' = ProbsReady, dic' = dic,
           output' = output, r' = r, bytes' = bytes, Leave("NEEDS_MORE_INPUT", TRUE),
           NEW n \in 0 .. io.inSize, taken' = taken + n,
           io' = [io EXCEPT !.inSize = io.inSize - n],
           tempBuf' \in Seq(Bytes), Len(tempBuf') <= LZMA_REQUIRED_INPUT_MAX,
           Len(tempBuf') <= taken'
    PROVE  LzmaInv'
  <1> DEFINE s == StateReady
  <1>1. /\ DecoderOK(s, dic) /\ KeptOK(s) /\ ~s.needFlush /\ ~s.needInitState
        /\ s.dicPos = p.dicPos /\ ProbsReady \in [AllContexts -> Probabilities]
    BY ReadyState DEF Ready
  <1>2. /\ io \in [inSize : Nat, outSize : Nat, dicPos : 0 .. DicBufSize,
                   dicLimit : 0 .. DicBufSize]
        /\ pc = "toDic" /\ io.dicPos <= p.dicPos
    BY DEF LzmaInv, CallInv, Ready
  <1>3. p' = s
    OBVIOUS
  <1> HIDE DEF s
  <1>4. /\ io' \in [inSize : Nat, outSize : Nat, dicPos : 0 .. DicBufSize,
                    dicLimit : 0 .. DicBufSize]
        /\ io'.inSize = io.inSize - n /\ io'.dicPos = io.dicPos
    <2>1. io.inSize - n \in Nat
      BY <1>2
    <2> QED
      BY <1>2, <2>1
  <1>5. pc' = "leave" /\ ret' \in [status : Statuses, ok : BOOLEAN]
    BY DEF Leave, Statuses
  <1>6. KeptInv'
    <2>1. dprobs' \in [AllContexts -> Probabilities \cup {0}]
      BY <1>1
    <2> QED
      BY <1>1, <1>3, <2>1 DEF KeptInv
  <1>7. InputInv'
    <2>1. taken + n \in Nat /\ taken + n + (io.inSize - n) <= Len(bytes)
      <3>1. taken \in Nat /\ io.inSize \in Nat /\ taken + io.inSize <= Len(bytes)
            /\ Len(bytes) \in Nat
        BY <1>2, LenProperties DEF LzmaInv, InputInv
      <3> QED
        BY <3>1
    <2> QED
      BY <1>1, <1>3, <1>4, <2>1 DEF LzmaInv, InputInv
  <1>8. CallInv' /\ LocalsInv'
    BY <1>1, <1>2, <1>3, <1>4, <1>5 DEF LzmaInv, CallInv, LocalsInv
  <1> QED
    BY <1>6, <1>7, <1>8 DEF LzmaInv

(* The caller's input.                                                      *)
LEMMA SourceIs ==
    ASSUME LzmaInv
    PROVE  Source \in Seq(Bytes) /\ Len(Source) = io.inSize
  <1>1. /\ bytes \in Seq(Bytes) /\ taken \in Nat /\ io.inSize \in Nat
        /\ taken + io.inSize <= Len(bytes)
    BY DEF LzmaInv, InputInv, CallInv
  <1> QED
    BY <1>1, Pieces DEF Source

(* Of the caller's input as much is decoded as surely holds a symbol, or as *)
(* a trial has found to, ...                                                *)
LEMMA SourceKeeps ==
    ASSUME LzmaInv, DecodeFromSource
    PROVE  LzmaInv'
  <1>1. /\ Ready /\ tempBuf = << >> /\ p' = StateReady /\ dprobs' = ProbsReady
        /\ UNCHANGED <<bytes, asked, output, dic>>
    BY DEF DecodeFromSource
  <1>2. /\ taken \in Nat /\ io.inSize \in Nat /\ Source \in Seq(Bytes) /\ Len(Source) = io.inSize
        /\ LZMA_REQUIRED_INPUT_MAX \in Nat
        /\ tempBuf \in Seq(Bytes) /\ Len(tempBuf) <= LZMA_REQUIRED_INPUT_MAX
        /\ Len(tempBuf) <= taken
    BY SourceIs, DecoderAssumption DEF LzmaInv, InputInv, CallInv
  <1>3. CASE /\ io.inSize < LZMA_REQUIRED_INPUT_MAX
             /\ tempBuf' = Source
             /\ taken' = taken + io.inSize
             /\ io' = [io EXCEPT !.inSize = 0]
             /\ Leave("NEEDS_MORE_INPUT", TRUE)
             /\ r' = r
    <2>1. io' = [io EXCEPT !.inSize = io.inSize - io.inSize]
      <3>1. io.inSize - io.inSize = 0
        BY <1>2
      <3> QED
        BY <1>3, <3>1
    <2>2. io.inSize \in 0 .. io.inSize /\ io.inSize <= taken + io.inSize
      BY <1>2
    <2>3. /\ tempBuf' \in Seq(Bytes) /\ Len(tempBuf') <= LZMA_REQUIRED_INPUT_MAX
          /\ Len(tempBuf') <= taken'
      BY <1>2, <1>3, <2>2
    <2> QED
      BY <1>1, <1>3, <2>1, <2>2, <2>3, WaitKeeps
  <1>4. ASSUME NEW bufLimit \in Nat, EnterReal(StateReady, bufLimit, FALSE),
               UNCHANGED <<tempBuf, taken, io, ret>>,
               bufLimit > 0 => bufLimit + LZMA_REQUIRED_INPUT_MAX <= io.inSize,
               \/ LZMA_REQUIRED_INPUT_MAX <= io.inSize
               \/ bufLimit = 0 /\ TryDummy(StateReady, dic, ProbsReady, Source)
        PROVE  LzmaInv'
    <2>1. Input' = Source
      <3>1. ~r'.fromTemp
        BY <1>4 DEF EnterReal
      <3> QED
        BY <1>1, <1>4, <3>1 DEF Input, Source
    <2>2. /\ io' = [io EXCEPT !.inSize = io.inSize - 0] /\ taken' = taken + 0
          /\ 0 \in 0 .. io.inSize
      <3>1. io.inSize - 0 = io.inSize /\ taken + 0 = taken /\ 0 \in 0 .. io.inSize
        BY <1>2
      <3>2. io = [io EXCEPT !.inSize = io.inSize]
        BY DEF LzmaInv, CallInv
      <3> QED
        BY <1>4, <3>1, <3>2
    <2>3. /\ tempBuf' \in Seq(Bytes) /\ Len(tempBuf') <= LZMA_REQUIRED_INPUT_MAX
          /\ Len(tempBuf') <= taken'
      BY <1>2, <1>4
    <2>4. /\ bufLimit > 0 => bufLimit + LZMA_REQUIRED_INPUT_MAX <= Len(Input')
          /\ \/ LZMA_REQUIRED_INPUT_MAX <= Len(Input')
             \/ bufLimit = 0 /\ TryDummy(StateReady, dic, ProbsReady, Input')
      BY <1>2, <1>4, <2>1
    <2>5. ret' = ret /\ output' = output /\ bytes' = bytes /\ dic' = dic
      BY <1>1, <1>4
    <2> QED
      BY <1>1, <1>4, <2>2, <2>3, <2>4, <2>5, EnterRealKeeps
  <1>5. CASE /\ TryDummy(StateReady, dic, ProbsReady, Source)
             /\ EnterReal(StateReady, 0, FALSE)
             /\ UNCHANGED <<tempBuf, taken, io, ret>>
    <2> DEFINE m == 0
    <2>1. m \in Nat /\ ~(m > 0) /\ m = 0
      OBVIOUS
    <2>2. EnterReal(StateReady, m, FALSE)
      BY <1>5
    <2> HIDE DEF m
    <2> QED
      BY <1>4, <1>5, <2>1, <2>2
  <1>6. CASE /\ io.inSize >= LZMA_REQUIRED_INPUT_MAX
             /\ EnterReal(StateReady, io.inSize - LZMA_REQUIRED_INPUT_MAX, FALSE)
             /\ UNCHANGED <<tempBuf, taken, io, ret>>
    <2> DEFINE m == io.inSize - LZMA_REQUIRED_INPUT_MAX
    <2>1. m \in Nat /\ m + LZMA_REQUIRED_INPUT_MAX <= io.inSize
          /\ LZMA_REQUIRED_INPUT_MAX <= io.inSize
      BY <1>2, <1>6
    <2>2. EnterReal(StateReady, m, FALSE) /\ UNCHANGED <<tempBuf, taken, io, ret>>
      BY <1>6
    <2> HIDE DEF m
    <2> QED
      BY <1>4, <2>1, <2>2
  <1> QED
    BY <1>3, <1>5, <1>6 DEF DecodeFromSource

(* ... and joins what tempBuf held before.                                  *)
LEMMA TempKeeps ==
    ASSUME LzmaInv, DecodeFromTemp
    PROVE  LzmaInv'
  <1> DEFINE n == AtMost(io.inSize, LZMA_REQUIRED_INPUT_MAX - Len(tempBuf))
             filled == tempBuf \o SubSeq(bytes, taken + 1, taken + n)
  <1>1. /\ Ready /\ p' = StateReady /\ dprobs' = ProbsReady
        /\ UNCHANGED <<bytes, asked, output, dic>>
        /\ tempBuf' = filled /\ taken' = taken + n
        /\ io' = [io EXCEPT !.inSize = io.inSize - n]
        /\ \/ Leave("NEEDS_MORE_INPUT", TRUE) /\ r' = r
           \/ /\ \/ Len(filled) >= LZMA_REQUIRED_INPUT_MAX
                 \/ TryDummy(StateReady, dic, ProbsReady, filled)
              /\ EnterReal(StateReady, 0, TRUE)
              /\ ret' = ret
    BY DEF DecodeFromTemp
  <1>2. /\ taken \in Nat /\ io.inSize \in Nat /\ bytes \in Seq(Bytes) /\ Len(bytes) \in Nat
        /\ taken + io.inSize <= Len(bytes)
        /\ LZMA_REQUIRED_INPUT_MAX \in Nat /\ Len(tempBuf) \in Nat
        /\ tempBuf \in Seq(Bytes) /\ Len(tempBuf) <= LZMA_REQUIRED_INPUT_MAX
        /\ Len(tempBuf) <= taken
    BY LenProperties, DecoderAssumption DEF LzmaInv, InputInv, CallInv
  <1>3. /\ n \in Nat /\ n <= io.inSize /\ Len(tempBuf) + n <= LZMA_REQUIRED_INPUT_MAX
        /\ taken + n <= Len(bytes) /\ Len(tempBuf) + n <= taken + n
    BY <1>2 DEF AtMost
  <1> HIDE DEF n
  <1>4. filled \in Seq(Bytes) /\ Len(filled) = Len(tempBuf) + n
    <2>1. /\ SubSeq(bytes, taken + 1, taken + n) \in Seq(Bytes)
          /\ Len(SubSeq(bytes, taken + 1, taken + n)) = n
      BY <1>2, <1>3, Pieces
    <2> QED
      BY <1>2, <2>1, ConcatProperties
  <1> HIDE DEF filled
  <1>5. /\ tempBuf' \in Seq(Bytes) /\ Len(tempBuf') <= LZMA_REQUIRED_INPUT_MAX
        /\ Len(tempBuf') <= taken' /\ n \in 0 .. io.inSize
    BY <1>1, <1>2, <1>3, <1>4
  <1>6. CASE Leave("NEEDS_MORE_INPUT", TRUE) /\ r' = r
    BY <1>1, <1>5, <1>6, WaitKeeps
  <1>7. CASE /\ \/ Len(filled) >= LZMA_REQUIRED_INPUT_MAX
                \/ TryDummy(StateReady, dic, ProbsReady, filled)
             /\ EnterReal(StateReady, 0, TRUE)
             /\ ret' = ret
    <2>1. Input' = filled
      <3>1. r'.fromTemp
        BY <1>7 DEF EnterReal
      <3> QED
        BY <1>1, <3>1 DEF Input
    <2>2. \/ LZMA_REQUIRED_INPUT_MAX <= Len(Input')
          \/ 0 = 0 /\ TryDummy(StateReady, dic, ProbsReady, Input')
      BY <1>2, <1>4, <1>7, <2>1
    <2>3. /\ 0 \in Nat /\ ~(0 > 0) /\ TRUE \in BOOLEAN
          /\ ret' = ret /\ output' = output /\ bytes' = bytes /\ dic' = dic
      BY <1>1, <1>7
    <2> QED
      BY <1>1, <1>5, <1>7, <2>2, <2>3, EnterRealKeeps
  <1> QED
    BY <1>1, <1>6, <1>7

(* The input of LzmaDec_DecodeReal.                                         *)
LEMMA InputIs ==
    ASSUME LzmaInv
    PROVE  Input \in Seq(Bytes) /\ Len(Input) \in Nat
  <1>1. Input \in Seq(Bytes)
    BY SourceIs DEF LzmaInv, InputInv, Input
  <1> QED
    BY <1>1, LenProperties

(* The symbol read fits the input, and what it stands for the dictionary.   *)
LEMMA SymbolFits ==
    ASSUME LzmaInv, pc = "real", NEW x, NEW coder \in Coders,
           coder = [range |-> r.dec.range, code |-> r.dec.code, buf |-> r.buf, probs |-> dprobs],
           SymbolWalks(Known(r.dec, dic), coder, Input) = {x}, Ends(x, coder, Input)
    PROVE  Normalized(x.coder, Input).buf <= Len(Input)
  <1> DEFINE c == Normalized(x.coder, Input)
             n == Normalized(coder, Input)
             N == LZMA_REQUIRED_INPUT_MAX
  <1>1. /\ N \in Nat /\ r.buf \in Nat /\ Len(Input) \in Nat /\ Input \in Seq(0 .. Base - 1)
    BY InputIs, DecoderAssumption DEF LzmaInv, CallInv, Locals, Bytes
  <1>2. x.coder \in Coders /\ c.buf <= n.buf + N
    BY DEF Ends
  <1>3. coder.buf = r.buf /\ coder.range = r.dec.range
    OBVIOUS
  <1>4. /\ c.buf \in Nat
        /\ n.buf = IF r.dec.range >= kTopValue THEN r.buf ELSE r.buf + 1
    <2>1. c \in Coders
      BY <1>1, <1>2, NormalizedIs
    <2>2. n.buf = IF coder.range >= kTopValue THEN coder.buf ELSE coder.buf + 1
      BY <1>1, NormalizedIs
    <2> HIDE DEF c, n
    <2> QED
      BY <1>3, <2>1, <2>2 DEF Coders
  <1>5. RoomForSymbol
    BY DEF LzmaInv, LocalsInv
  <1>6. CASE r.bufLimit = 0 /\ r.buf = 0 /\ TryDummy(r.dec, dic, dprobs, Input)
    <2>1. coder = [range |-> r.dec.range, code |-> r.dec.code, buf |-> 0, probs |-> dprobs]
      BY <1>6
    <2>2. \E walk \in SymbolWalks(Known(r.dec, dic), coder, Input) :
              Normalized(walk.coder, Input).buf <= Len(Input)
      BY <1>6, <2>1 DEF TryDummy
    <2> QED
      BY <2>2
  <1>7. CASE \/ r.buf + N < Len(Input)
             \/ r.buf + N <= Len(Input) /\ r.dec.range >= kTopValue
    <2> HIDE DEF c, n, N
    <2>1. c.buf <= Len(Input)
      BY <1>1, <1>2, <1>4, <1>7
    <2> QED
      BY <2>1 DEF c
  <1> QED
    BY <1>5, <1>6, <1>7 DEF RoomForSymbol

(* A symbol is decoded, refused or cut off by the limit.                    *)
LEMMA SymbolKeeps ==
    ASSUME LzmaInv, DecodeSymbol
    PROVE  LzmaInv'
  <1> DEFINE d == r.dec
             coder == [range |-> r.dec.range, code |-> r.dec.code, buf |-> r.buf,
                       probs |-> dprobs]
  <1>1. /\ pc = "real" /\ UNCHANGED <<bytes, asked, taken, output, p, tempBuf, io>>
        /\ \E x \in SymbolWalks(Known(d, dic), coder, Input) : SymbolDecoded(d, x.w, x.coder)
    BY DEF DecodeSymbol
  <1>2. /\ DecoderOK(d, dic) /\ ~d.needInitState /\ ~d.needFlush /\ d \in Decoders
        /\ ~p.needInitState /\ ~p.needFlush
        /\ r.bufLimit > 0 => r.bufLimit + LZMA_REQUIRED_INPUT_MAX <= Len(Input)
        /\ io.dicPos <= d.dicPos /\ d.dicPos < r.limit /\ r.limit <= io.dicLimit
        /\ d.range >= Base * Base
    BY <1>1 DEF LzmaInv, LocalsInv, DecoderOK
  <1>3. /\ r \in Locals /\ r.buf \in Nat /\ r.limit \in Nat /\ r.bufLimit \in Nat
        /\ Input \in Seq(0 .. Base - 1) /\ Len(Input) \in Nat
        /\ io.dicLimit \in 0 .. DicBufSize /\ DicBufSize \in Nat /\ io.dicPos \in 0 .. DicBufSize
        /\ LZMA_REQUIRED_INPUT_MAX \in Nat
    BY InputIs, DecoderAssumption DEF LzmaInv, CallInv, Locals, Bytes
  <1>4. r.limit \in 0 .. DicBufSize
    BY <1>2, <1>3
  <1>5. coder \in Coders
    <2>1. dprobs \in [AllContexts -> Probabilities]
      BY <1>2 DEF LzmaInv, KeptInv
    <2>2. d.range \in Base * Base .. Word - 1 /\ d.code \in 0 .. Word - 1
      <3>1. Base * Base \in Nat /\ Word \in Nat
        BY Sizes
      <3>2. d.range \in 0 .. Word - 1 /\ d.code \in 0 .. Word - 1
        BY <1>2 DEF Decoders
      <3> QED
        BY <1>2, <3>1, <3>2
    <2> QED
      BY <1>3, <2>1, <2>2 DEF Coders
  <1>6. KnownOK(Known(d, dic))
    BY <1>2, KnownIsWritten
  <1>7. PICK x : SymbolWalks(Known(d, dic), coder, Input) = {x} /\ Ends(x, coder, Input)
    BY <1>3, <1>5, <1>6, WalkEnds
  <1>8. SymbolDecoded(d, x.w, x.coder)
    BY <1>1, <1>7
  <1>9. Normalized(x.coder, Input).buf <= Len(Input)
    BY <1>1, <1>5, <1>7, SymbolFits
  <1>10. Done(x.w) /\ WalkOK(x.w) /\ x.coder \in Coders
    BY <1>7 DEF Ends
  <1>11. dprobs' \in [AllContexts -> Probabilities] /\ dprobs' = x.coder.probs
    BY <1>8, <1>10 DEF SymbolDecoded, Coders
  <1>12. CASE Leave("NOT_SPECIFIED", FALSE) /\ UNCHANGED <<dic, r>>
    <2>1. pc' = "leave" /\ ret' \in [status : Statuses, ok : BOOLEAN]
      BY <1>12 DEF Leave, Statuses
    <2>2. KeptInv'
      BY <1>1, <1>11, <1>12 DEF LzmaInv, KeptInv
    <2>3. InputInv'
      BY <1>1, <1>2 DEF LzmaInv, InputInv
    <2>4. CallInv' /\ LocalsInv'
      BY <1>1, <1>12, <2>1 DEF LzmaInv, CallInv, LocalsInv
    <2> QED
      BY <2>2, <2>3, <2>4 DEF LzmaInv
  <1>13. CASE ~(Leave("NOT_SPECIFIED", FALSE) /\ UNCHANGED <<dic, r>>)
    <2> DEFINE more == Written(d, x.w, dic, r.limit)
               after(c) == After(d, x.w, c, r.limit)
               n == Normalized(x.coder, Input)
               goes == ~Mark(x.w) /\ MoreReal(after(x.coder), x.coder.buf)
    <2>1. /\ Mark(x.w) \/ ~Refused(d, x.w)
          /\ dic' = more /\ ret' = ret
          /\ goes => r' = [r EXCEPT !.dec = after(x.coder), !.buf = x.coder.buf] /\ pc' = pc
          /\ ~goes => r' = [r EXCEPT !.dec = after(n), !.buf = n.buf] /\ pc' = "stored"
      BY <1>8, <1>13 DEF SymbolDecoded
    <2>2. Mark(x.w) \/ ~Unfit(d, x.w)
      BY <2>1 DEF Refused, Unfit
    <2>3. ASSUME NEW c \in Coders
          PROVE  /\ DecoderOK(after(c), more) /\ MoreWritten(dic, more)
                 /\ after(c).dicPos \in d.dicPos .. r.limit /\ after(c).range = c.range
                 /\ ~after(c).needFlush /\ ~after(c).needInitState
      <3>1. CASE Mark(x.w)
        BY <1>2, <1>4, <1>10, <3>1, MarkWritten
      <3>2. CASE ~Mark(x.w)
        BY <1>2, <1>4, <1>10, <2>2, <3>2, SymbolWritten
      <3> QED
        BY <3>1, <3>2
    <2>4. /\ n \in Coders /\ n.range >= kTopValue /\ n.buf <= Len(Input)
      <3>1. n \in Coders /\ n.range \in kTopValue .. Word - 1
        BY <1>3, <1>10, NormalizedIs DEF Intervals
      <3>2. \A y \in kTopValue .. Word - 1 : y >= kTopValue
        BY Sizes
      <3> QED
        BY <1>9, <3>1, <3>2
    <2>5. MoreReal(after(x.coder), x.coder.buf) <=>
              after(x.coder).dicPos < r.limit /\ x.coder.buf < r.bufLimit
      BY DEF MoreReal
    <2> HIDE DEF more, after, n
    <2>6. ASSUME NEW c \in Coders, r' = [r EXCEPT !.dec = after(c), !.buf = c.buf],
                 \/ pc' = "stored" /\ c.range >= kTopValue /\ c.buf <= Len(Input)
                 \/ pc' = "real" /\ after(c).dicPos < r.limit /\ c.buf < r.bufLimit
          PROVE  LzmaInv'
      <3>1. /\ DecoderOK(after(c), more) /\ MoreWritten(dic, more)
            /\ after(c).dicPos \in d.dicPos .. r.limit /\ after(c).range = c.range
            /\ ~after(c).needFlush /\ ~after(c).needInitState /\ after(c) \in Decoders
        BY <2>3 DEF DecoderOK
      <3>2. c.buf \in Nat /\ c.range \in Base * Base .. Word - 1
        BY DEF Coders
      <3>3. /\ r' \in Locals /\ r'.dec = after(c) /\ r'.buf = c.buf /\ r'.limit = r.limit
            /\ r'.bufLimit = r.bufLimit /\ r'.fromTemp = r.fromTemp
        BY <1>3, <2>6, <3>1, <3>2 DEF Locals
      <3>4. Input' = Input
        BY <1>1, <3>3 DEF Input, Source
      <3>5. KeptInv'
        <4>1. DecoderOK(p, more)
          BY <3>1, StillFilled DEF LzmaInv, KeptInv
        <4> QED
          BY <1>1, <1>11, <2>1, <4>1 DEF LzmaInv, KeptInv
      <3>6. InputInv'
        BY <1>1, <1>2 DEF LzmaInv, InputInv
      <3>7. pc' \in {"real", "stored"}
        BY <2>6
      <3>8. CallInv'
        BY <1>1, <2>1, <3>3, <3>7 DEF LzmaInv, CallInv
      <3>9. io.dicPos <= after(c).dicPos /\ after(c).dicPos <= r.limit
        <4>1. d.dicPos \in 0 .. DicBufSize
          BY <1>2 DEF Decoders
        <4> QED
          BY <1>2, <1>3, <3>1, <4>1
      <3>10. c.range >= Base * Base
        BY <3>2, Sizes
      <3>11. pc' = "real" => after(c).dicPos < r.limit /\ RoomForSymbol'
        <4>1. pc' = "real" => c.buf < r.bufLimit /\ after(c).dicPos < r.limit
          BY <2>6
        <4>2. c.buf < r.bufLimit => c.buf + LZMA_REQUIRED_INPUT_MAX < Len(Input)
          BY <1>2, <1>3, <3>2
        <4> QED
          BY <3>3, <3>4, <4>1, <4>2 DEF RoomForSymbol
      <3>12. LocalsInv'
        BY <1>1, <1>2, <2>1, <2>6, <3>1, <3>3, <3>4, <3>7, <3>9, <3>10, <3>11 DEF LocalsInv
      <3> QED
        BY <3>5, <3>6, <3>8, <3>12 DEF LzmaInv
    <2> HIDE DEF goes
    <2>7. CASE goes
      <3>1. pc' = "real" /\ after(x.coder).dicPos < r.limit /\ x.coder.buf < r.bufLimit
        BY <1>1, <2>1, <2>5, <2>7 DEF goes
      <3> QED
        BY <1>10, <2>1, <2>6, <2>7, <3>1
    <2>8. CASE ~goes
      BY <2>1, <2>4, <2>6, <2>8
    <2> QED
      BY <2>7, <2>8
  <1> QED
    BY <1>12, <1>13

(* checkDicSize is set as soon as all of the dictionary is written.         *)
LEMMA FullIsWritten ==
    ASSUME NEW d, NEW dict, DecoderOK(d, dict), ~d.needInitState
    PROVE  LET f == FullDictionary(d)
           IN  /\ DecoderOK(f, dict)
               /\ f.checkDicSize = 0 => f.processedPos < DicBufSize
               /\ f.dicPos = d.dicPos /\ f.range = d.range /\ f.needFlush = d.needFlush
               /\ f.needInitState = d.needInitState
  <1> DEFINE f == FullDictionary(d)
             check == IF d.processedPos >= DicBufSize THEN DicBufSize ELSE d.checkDicSize
  <1>1. /\ d \in Decoders /\ Filled(d, dict) /\ DistancesOK(d) /\ DicBufSize \in Nat \ {0}
        /\ d.dicPos \in 0 .. DicBufSize /\ d.processedPos \in Nat
        /\ d.checkDicSize \in {0, DicBufSize}
    BY DecoderAssumption DEF DecoderOK, Decoders
  <1>2. Back(d) \in 1 .. DicBufSize /\ Back(d) \in Nat
    BY FirstRep
  <1>3. f = [d EXCEPT !.checkDicSize = check]
    BY DEF FullDictionary
  <1>4. /\ check \in {0, DicBufSize} /\ (check = 0 => d.checkDicSize = 0)
        /\ check = 0 => d.processedPos < DicBufSize
        /\ check # 0 => d.checkDicSize # 0 \/ d.processedPos >= DicBufSize
    BY <1>1
  <1> HIDE DEF f, check
  <1>5. /\ f \in Decoders /\ f.checkDicSize = check /\ f.processedPos = d.processedPos
        /\ f.dicPos = d.dicPos /\ f.remainLen = d.remainLen /\ f.range = d.range
        /\ f.reps = d.reps /\ f.state = d.state
        /\ f.needFlush = d.needFlush /\ f.needInitState = d.needInitState
    BY <1>1, <1>3, <1>4 DEF Decoders
  <1>6. Filled(f, dict)
    <2>1. CASE check = 0
      BY <1>1, <1>4, <1>5, <2>1 DEF Filled
    <2>2. CASE check # 0 /\ d.checkDicSize # 0
      BY <1>1, <1>5, <2>2 DEF Filled
    <2>3. CASE check # 0 /\ d.checkDicSize = 0
      <3>1. /\ \A i \in 0 .. d.processedPos - 1 : dict[i] \in Letters
            /\ d.processedPos >= DicBufSize
        BY <1>1, <1>4, <2>3 DEF Filled
      <3>2. \A i \in Places : i \in 0 .. d.processedPos - 1
        BY <1>1, <3>1 DEF Places
      <3> QED
        BY <1>1, <1>5, <2>3, <3>1, <3>2 DEF Filled
    <2> QED
      BY <2>1, <2>2, <2>3
  <1>7. DistancesOK(f)
    <2>1. Back(d) <= Back(f) /\ Back(f) \in Nat
      BY <1>1, <1>2, <1>4, <1>5 DEF Back
    <2>2. \A k \in 1 .. LZMA_NUM_REPS : d.reps[k] \in 1 .. Back(d)
      BY <1>1 DEF DistancesOK
    <2>3. \A k \in 1 .. LZMA_NUM_REPS : f.reps[k] \in 1 .. Back(f)
      BY <1>2, <1>5, <2>1, <2>2
    <2> QED
      BY <1>1, <1>4, <1>5, <2>3 DEF DistancesOK
  <1> QED
    BY <1>1, <1>4, <1>5, <1>6, <1>7 DEF DecoderOK, f

(* The end of a round of LzmaDec_DecodeReal2, ...                           *)
LEMMA StoreKeeps ==
    ASSUME LzmaInv, StoreReal
    PROVE  LzmaInv'
  <1> DEFINE f == FullDictionary(r.dec)
             e == WriteRem(f, io.dicLimit)
             c == Copied(dic, f.dicPos, RemLen(f, io.dicLimit), f.reps[1])
             goes == e.dicPos < io.dicLimit /\ r.buf < r.bufLimit
                     /\ e.remainLen < kMatchSpecLenStart
             rest == UnreadOfTemp(r.buf)
             short == [e EXCEPT !.remainLen = AtMost(@, kMatchSpecLenStart)]
  <1>1. /\ pc = "stored" /\ dic' = c
        /\ UNCHANGED <<bytes, asked, output, dprobs, ret>>
        /\ goes => /\ p' = e /\ r' = [r EXCEPT !.limit = RealLimit(e), !.dec = e]
                   /\ pc' = "real" /\ UNCHANGED <<taken, tempBuf, io>>
        /\ ~goes => /\ p' = short /\ r' = NoLocals /\ pc' = "toDic"
                    /\ taken' = IF r.fromTemp THEN taken - rest ELSE taken + r.buf
                    /\ io' = [io EXCEPT !.inSize = IF r.fromTemp THEN io.inSize + rest
                                                   ELSE io.inSize - r.buf]
                    /\ tempBuf' = << >>
    BY DEF StoreReal
  <1>2. /\ DecoderOK(r.dec, dic) /\ ~r.dec.needInitState /\ ~r.dec.needFlush
        /\ ~p.needInitState /\ ~p.needFlush
        /\ r.bufLimit > 0 => r.bufLimit + LZMA_REQUIRED_INPUT_MAX <= Len(Input)
        /\ io.dicPos <= r.dec.dicPos /\ r.dec.dicPos <= r.limit /\ r.limit <= io.dicLimit
        /\ r.dec.range >= kTopValue /\ r.buf <= Len(Input)
    BY <1>1 DEF LzmaInv, LocalsInv
  <1>3. /\ r \in Locals /\ r.buf \in Nat /\ r.limit \in Nat /\ r.bufLimit \in Nat
        /\ io \in [inSize : Nat, outSize : Nat, dicPos : 0 .. DicBufSize,
                   dicLimit : 0 .. DicBufSize]
        /\ io.dicLimit \in 0 .. DicBufSize /\ DicBufSize \in Nat /\ io.dicPos \in 0 .. DicBufSize
        /\ LZMA_REQUIRED_INPUT_MAX \in Nat /\ Len(Input) \in Nat
        /\ r.dec.dicPos \in 0 .. DicBufSize /\ kMatchSpecLenStart \in Nat \ {0}
    BY <1>2, InputIs, DecoderAssumption, MarkLength
       DEF LzmaInv, CallInv, Locals, DecoderOK, Decoders
  <1>4. /\ DecoderOK(f, dic) /\ (f.checkDicSize = 0 => f.processedPos < DicBufSize)
        /\ f.dicPos = r.dec.dicPos /\ f.range = r.dec.range
        /\ f.needFlush = r.dec.needFlush /\ f.needInitState = r.dec.needInitState
    BY <1>2, FullIsWritten
  <1> HIDE DEF f
  <1>5. f.dicPos <= io.dicLimit
    BY <1>2, <1>3, <1>4
  <1>6. /\ DecoderOK(e, c) /\ e.dicPos \in f.dicPos .. io.dicLimit
        /\ e.checkDicSize = 0 => e.processedPos < DicBufSize
        /\ e.range = f.range /\ e.needFlush = f.needFlush /\ e.needInitState = f.needInitState
    BY <1>3, <1>4, <1>5, RemWritten
  <1> HIDE DEF e, c
  <1>7. /\ e \in Decoders /\ e.remainLen \in Nat /\ e.dicPos \in 0 .. DicBufSize
        /\ io.dicPos <= e.dicPos /\ e.dicPos <= io.dicLimit
        /\ e.range >= kTopValue /\ ~e.needFlush /\ ~e.needInitState
    <2>1. e \in Decoders /\ e.remainLen \in Nat /\ e.dicPos \in 0 .. DicBufSize
      BY <1>6 DEF DecoderOK, Decoders
    <2> QED
      BY <1>2, <1>3, <1>4, <1>6, <2>1
  <1>8. CASE goes
    <2>1. /\ p' = e /\ r' = [r EXCEPT !.limit = RealLimit(e), !.dec = e]
          /\ pc' = "real" /\ UNCHANGED <<taken, tempBuf, io>>
          /\ e.dicPos < io.dicLimit /\ r.buf < r.bufLimit /\ e.remainLen < kMatchSpecLenStart
      BY <1>1, <1>8
    <2>2. KeptOK(e)
      BY <1>3, <1>6, <1>7, <2>1 DEF KeptOK
    <2>3. RealLimit(e) \in Nat /\ e.dicPos < RealLimit(e) /\ RealLimit(e) <= io.dicLimit
      BY <1>6, <2>1, <2>2, LimitLeavesRoom DEF LzmaInv
    <2> DEFINE limit == RealLimit(e)
    <2> HIDE DEF limit
    <2>4. /\ r' \in Locals /\ r'.dec = e /\ r'.buf = r.buf /\ r'.limit = limit
          /\ r'.bufLimit = r.bufLimit /\ r'.fromTemp = r.fromTemp
      <3>1. r' = [r EXCEPT !.limit = limit, !.dec = e] /\ limit \in Nat
        BY <2>1, <2>3 DEF limit
      <3> QED
        BY <1>3, <1>7, <3>1 DEF Locals
    <2>5. limit \in Nat /\ e.dicPos < limit /\ limit <= io.dicLimit
      BY <2>3 DEF limit
    <2>6. Input' = Input
      BY <1>1, <2>1, <2>4 DEF Input, Source
    <2>7. KeptInv'
      BY <1>1, <1>2, <1>6, <2>1, <2>2 DEF LzmaInv, KeptInv
    <2>8. InputInv'
      BY <1>1, <1>7, <2>1 DEF LzmaInv, InputInv
    <2>9. CallInv'
      BY <1>1, <1>7, <2>1, <2>4 DEF LzmaInv, CallInv
    <2>10. RoomForSymbol'
      <3>1. r.buf + LZMA_REQUIRED_INPUT_MAX < Len(Input)
        <4>1. /\ r.buf \in Nat /\ r.bufLimit \in Nat /\ LZMA_REQUIRED_INPUT_MAX \in Nat
              /\ Len(Input) \in Nat
          BY <1>3
        <4>2. r.buf < r.bufLimit
          BY <2>1
        <4>3. r.bufLimit + LZMA_REQUIRED_INPUT_MAX <= Len(Input)
          BY <1>2, <4>1, <4>2
        <4> QED
          BY <4>1, <4>2, <4>3
      <3> QED
        BY <2>4, <2>6, <3>1 DEF RoomForSymbol
    <2>11. e.range >= Base * Base /\ e.dicPos <= limit
      <3>1. e.range \in 0 .. Word - 1
        BY <1>7 DEF Decoders
      <3> QED
        BY <1>7, <2>5, <3>1, Sizes
    <2>12. LocalsInv'
      BY <1>1, <1>2, <1>6, <1>7, <2>1, <2>4, <2>5, <2>6, <2>10, <2>11 DEF LocalsInv
    <2> QED
      BY <2>7, <2>8, <2>9, <2>12 DEF LzmaInv
  <1>9. CASE ~goes
    <2> DEFINE left == AtMost(e.remainLen, kMatchSpecLenStart)
    <2>1. /\ p' = short /\ r' = NoLocals /\ pc' = "toDic" /\ tempBuf' = << >>
          /\ taken' = IF r.fromTemp THEN taken - rest ELSE taken + r.buf
          /\ io' = [io EXCEPT !.inSize = IF r.fromTemp THEN io.inSize + rest
                                         ELSE io.inSize - r.buf]
      BY <1>1, <1>9
    <2>2. /\ left \in Nat /\ left <= kMatchSpecLenStart
          /\ left = e.remainLen \/ left \notin CopyLengths
      BY <1>3, <1>7 DEF AtMost, CopyLengths
    <2>3. short = [e EXCEPT !.remainLen = left]
      OBVIOUS
    <2> HIDE DEF left, short
    <2>4. /\ short \in Decoders /\ short.remainLen = left /\ short.dicPos = e.dicPos
          /\ short.processedPos = e.processedPos /\ short.checkDicSize = e.checkDicSize
          /\ short.reps = e.reps /\ short.state = e.state /\ short.range = e.range
          /\ short.needFlush = e.needFlush /\ short.needInitState = e.needInitState
      BY <1>7, <2>2, <2>3 DEF Decoders
    <2>5. DecoderOK(short, c)
      BY <1>6, <2>2, <2>4 DEF DecoderOK, Filled, DistancesOK, Back
    <2>6. KeptOK(short)
      BY <1>6, <1>7, <2>2, <2>4 DEF KeptOK
    <2>7. KeptInv'
      BY <1>1, <1>2, <2>1, <2>5, <2>6 DEF LzmaInv, KeptInv
    <2>8. /\ taken \in Nat /\ io.inSize \in Nat /\ Len(bytes) \in Nat
          /\ taken + io.inSize <= Len(bytes)
          /\ Len(tempBuf) \in Nat /\ Len(tempBuf) <= taken
      BY <1>3, LenProperties DEF LzmaInv, InputInv
    <2>9. IF r.fromTemp THEN rest = Len(tempBuf) - r.buf /\ r.buf <= Len(tempBuf)
          ELSE r.buf <= io.inSize
      BY <1>2, SourceIs DEF Input, UnreadOfTemp
    <2> HIDE DEF rest
    <2> DEFINE size == IF r.fromTemp THEN io.inSize + rest ELSE io.inSize - r.buf
    <2>10. taken' \in Nat /\ size \in Nat /\ taken' + size = taken + io.inSize
      <3>0. r.buf \in Nat
        BY <1>3
      <3>1. CASE r.fromTemp
        <4>1. /\ taken' = taken - rest /\ size = io.inSize + rest
              /\ rest = Len(tempBuf) - r.buf /\ r.buf <= Len(tempBuf)
          BY <2>1, <2>9, <3>1
        <4> HIDE DEF size
        <4>2. \A a, b, t \in Nat : b <= a /\ a <= t => a - b \in Nat /\ a - b <= t
          OBVIOUS
        <4>3. /\ rest = Len(tempBuf) - r.buf /\ r.buf <= Len(tempBuf) /\ Len(tempBuf) <= taken
              /\ Len(tempBuf) \in Nat /\ taken \in Nat /\ io.inSize \in Nat
          BY <2>8, <4>1
        <4>4. Len(tempBuf) - r.buf \in Nat /\ Len(tempBuf) - r.buf <= taken
          BY <3>0, <4>2, <4>3
        <4>5. rest \in Nat /\ rest <= taken
          BY <4>3, <4>4
        <4>6. \A t, i, m \in Nat : m <= t =>
                  t - m \in Nat /\ i + m \in Nat /\ (t - m) + (i + m) = t + i
          OBVIOUS
        <4>7. /\ taken - rest \in Nat /\ io.inSize + rest \in Nat
              /\ (taken - rest) + (io.inSize + rest) = taken + io.inSize
          BY <4>3, <4>5, <4>6
        <4>8. taken' \in Nat /\ size \in Nat /\ taken' + size = taken + io.inSize
          BY <4>1, <4>7
        <4> QED
          BY <4>8 DEF size
      <3>2. CASE ~r.fromTemp
        <4>1. taken' = taken + r.buf /\ size = io.inSize - r.buf /\ r.buf <= io.inSize
          BY <2>1, <2>9, <3>2
        <4> HIDE DEF size
        <4>2. \A t, i, b \in Nat : b <= i =>
                  t + b \in Nat /\ i - b \in Nat /\ (t + b) + (i - b) = t + i
          OBVIOUS
        <4>3. taken \in Nat /\ io.inSize \in Nat
          BY <2>8
        <4>4. /\ taken + r.buf \in Nat /\ io.inSize - r.buf \in Nat
              /\ (taken + r.buf) + (io.inSize - r.buf) = taken + io.inSize
          BY <3>0, <4>1, <4>2, <4>3
        <4>5. taken' \in Nat /\ size \in Nat /\ taken' + size = taken + io.inSize
          BY <4>1, <4>4
        <4> QED
          BY <4>5 DEF size
      <3> QED
        BY <3>1, <3>2
    <2>11. io' = [io EXCEPT !.inSize = size]
      BY <2>1
    <2> HIDE DEF size
    <2>12. /\ io' \in [inSize : Nat, outSize : Nat, dicPos : 0 .. DicBufSize,
                       dicLimit : 0 .. DicBufSize]
           /\ io'.inSize = size /\ io'.dicPos = io.dicPos /\ io'.dicLimit = io.dicLimit
      BY <1>3, <2>10, <2>11
    <2>13. InputInv'
      <3>1. << >> \in Seq(Bytes) /\ Len(<< >>) = 0
        BY EmptySeq
      <3> QED
        <4>1. tempBuf' \in Seq(Bytes) /\ Len(tempBuf') = 0
          BY <2>1, <3>1
        <4>2. taken' \in Nat /\ taken' + io'.inSize <= Len(bytes)
          BY <2>8, <2>10, <2>12
        <4>3. bytes' = bytes /\ ~p'.needFlush
          BY <1>1, <1>7, <2>1, <2>4
        <4>4. 0 <= LZMA_REQUIRED_INPUT_MAX /\ 0 <= taken'
          BY <1>3, <4>2
        <4> QED
          BY <4>1, <4>2, <4>3, <4>4 DEF LzmaInv, InputInv
    <2>14. NoLocals \in Locals
      <3>1. InitialDec \in Decoders
        <4>1. <<0, 0, 0, 0>> \in Seq(Nat)
          OBVIOUS
        <4>2. 0 \in 0 .. Word - 1
          BY Sizes
        <4> QED
          BY <1>3, <4>1, <4>2 DEF InitialDec, Decoders
      <3> QED
        BY <3>1 DEF NoLocals, Locals
    <2>15. CallInv'
      BY <1>1, <1>7, <2>1, <2>4, <2>12, <2>14 DEF LzmaInv, CallInv
    <2>16. LocalsInv'
      BY <2>1 DEF LocalsInv
    <2> QED
      BY <2>7, <2>13, <2>15, <2>16 DEF LzmaInv
  <1> QED
    BY <1>8, <1>9

(* ... and the output, which is what was written since the round began.     *)
LEMMA LeaveKeeps ==
    ASSUME LzmaInv, LeaveDecodeToDic
    PROVE  LzmaInv'
  <1> DEFINE made == p.dicPos - io.dicPos
             new == [i \in 1 .. made |-> dic[io.dicPos + i - 1]]
  <1>1. /\ pc = "leave" /\ output' = output \o new
        /\ io' = IF Again(made) THEN [io EXCEPT !.outSize = io.outSize - made] ELSE NoCall
        /\ pc' = IF Again(made) THEN "toBuf" ELSE "idle"
        /\ UNCHANGED <<bytes, asked, taken, p, dic, dprobs, tempBuf, r, ret>>
    BY DEF LeaveDecodeToDic
  <1>2. /\ io \in [inSize : Nat, outSize : Nat, dicPos : 0 .. DicBufSize,
                   dicLimit : 0 .. DicBufSize]
        /\ p.dicPos \in 0 .. DicBufSize /\ io.dicPos <= p.dicPos /\ DicBufSize \in Nat
        /\ output \in Seq(Letters) /\ Filled(p, dic)
        /\ p.processedPos \in Nat
    BY <1>1, DecoderAssumption DEF LzmaInv, CallInv, KeptInv, DecoderOK, Decoders
  <1>3. made \in Nat
    BY <1>2
  <1>4. new \in Seq(Letters)
    <2>1. \A j \in 0 .. p.dicPos - 1 : dic[j] \in Letters
      <3>1. CASE p.checkDicSize = 0
        BY <1>2, <3>1 DEF Filled
      <3>2. CASE p.checkDicSize # 0
        <4>1. \A j \in 0 .. p.dicPos - 1 : j \in Places
          BY <1>2 DEF Places
        <4> QED
          BY <1>2, <3>2, <4>1 DEF Filled
      <3> QED
        BY <3>1, <3>2
    <2>2. \A i \in 1 .. made : io.dicPos + i - 1 \in 0 .. p.dicPos - 1
      BY <1>2, SMTT(30)
    <2>3. \A i \in 1 .. made : dic[io.dicPos + i - 1] \in Letters
      BY <2>1, <2>2
    <2> HIDE DEF made
    <2>4. new \in [1 .. made -> Letters]
      BY <2>3
    <2> QED
      BY <1>3, <2>4
  <1> HIDE DEF new
  <1>5. output' \in Seq(Letters)
    BY <1>1, <1>2, <1>4, ConcatProperties
  <1>6. Again(made) => ret.ok /\ io.outSize - made \in Nat
    BY <1>2, <1>3 DEF Again
  <1>7. /\ io' \in [inSize : Nat, outSize : Nat, dicPos : 0 .. DicBufSize,
                    dicLimit : 0 .. DicBufSize]
        /\ io'.inSize \in Nat /\ io'.inSize <= io.inSize
    <2>1. CASE Again(made)
      <3> DEFINE left == io.outSize - made
      <3>1. left \in Nat /\ io' = [io EXCEPT !.outSize = left]
        BY <1>1, <1>6, <2>1
      <3> HIDE DEF left
      <3> QED
        BY <1>2, <3>1
    <2>2. CASE ~Again(made)
      BY <1>1, <1>2, <2>2 DEF NoCall
    <2> QED
      BY <2>1, <2>2
  <1>8. KeptInv'
    BY <1>1 DEF LzmaInv, KeptInv
  <1>9. InputInv'
    <2>1. taken \in Nat /\ Len(bytes) \in Nat /\ taken + io.inSize <= Len(bytes)
      BY LenProperties DEF LzmaInv, InputInv
    <2>2. taken + io'.inSize <= Len(bytes)
      BY <1>2, <1>7, <2>1
    <2> QED
      BY <1>1, <2>2 DEF LzmaInv, InputInv
  <1>10. pc' \in {"toBuf", "idle"} /\ (pc' = "toBuf" => ret.ok)
    BY <1>1, <1>6
  <1>11. CallInv' /\ LocalsInv'
    BY <1>1, <1>5, <1>7, <1>10 DEF LzmaInv, CallInv, LocalsInv
  <1> QED
    BY <1>8, <1>9, <1>11 DEF LzmaInv

(* Every step of the decoder keeps the invariant, so it always holds.       *)
LEMMA StepKeeps ==
    ASSUME LzmaInv, [DecoderNext]_dvars
    PROVE  LzmaInv'
  <1>1. CASE UNCHANGED dvars
    <2>1. Input' = Input
      BY <1>1 DEF dvars, Input, Source
    <2> QED
      BY <1>1, <2>1 DEF dvars, LzmaInv, KeptInv, InputInv, CallInv, LocalsInv, RoomForSymbol
  <1>2. ASSUME NEW more \in Seq(0 .. Base - 1), Receive(more) PROVE LzmaInv'
    BY <1>2, ReceiveKeeps DEF Bytes
  <1>3. ASSUME NEW amt \in Nat, NEW dst \in Nat, Call(amt, dst) PROVE LzmaInv'
    BY <1>3, CallKeeps
  <1>4. CASE Decoding
    BY <1>4, EnterKeeps, MarkKeeps, StartKeeps, LimitKeeps, SourceKeeps, TempKeeps,
       SymbolKeeps, StoreKeeps, LeaveKeeps DEF Decoding
  <1> QED
    BY <1>1, <1>2, <1>3, <1>4 DEF DecoderNext

(* The invariant holds whatever the bytes are, however they are cut up and  *)
(* whatever room there is.                                                  *)
THEOREM LzmaInvariant == DecoderSpec => []LzmaInv
  <1>1. DecoderInit(<< >>) => LzmaInv
    BY LzmaInit
  <1>2. LzmaInv /\ [DecoderNext]_dvars => LzmaInv'
    BY StepKeeps
  <1> QED
    BY <1>1, <1>2, PTL DEF DecoderSpec

(* The decoder's positions stay in its arrays, its counters in their types  *)
(* and what it holds of the input in tempBuf.                               *)
THEOREM DecoderTypeCorrect == DecoderSpec => []DecoderTypeOK
  <1>1. LzmaInv => DecoderTypeOK
    <2> SUFFICES ASSUME LzmaInv PROVE DecoderTypeOK
      OBVIOUS
    <2>1. taken \in Nat /\ io.inSize \in Nat /\ Len(bytes) \in Nat
          /\ taken + io.inSize <= Len(bytes)
      BY LenProperties DEF LzmaInv, InputInv, CallInv
    <2>2. taken \in 0 .. Len(bytes)
      BY <2>1
    <2>3. p.remainLen \in 0 .. kMatchSpecLenStart
      BY MarkLength DEF LzmaInv, KeptInv, KeptOK, DecoderOK, Decoders
    <2>4. /\ p.range \in 0 .. Word - 1 /\ p.code \in 0 .. Word - 1
          /\ p.dicPos \in 0 .. DicBufSize /\ p.processedPos \in Nat
          /\ p.checkDicSize \in {0, DicBufSize} /\ p.state \in 0 .. 11
          /\ p.reps \in Seq(Nat) /\ Len(p.reps) = LZMA_NUM_REPS
      BY DEF LzmaInv, KeptInv, DecoderOK, Decoders, DistancesOK
    <2>5. \A c \in AllContexts : dprobs[c] \in Probabilities \cup {0}
      BY DEF LzmaInv, KeptInv
    <2>6. /\ Len(tempBuf) <= LZMA_REQUIRED_INPUT_MAX
          /\ pc \in {"idle", "toBuf", "toDic", "real", "stored", "leave"}
          /\ io.inSize \in Nat /\ io.outSize \in Nat /\ io.dicLimit \in 0 .. DicBufSize
      BY DEF LzmaInv, InputInv, CallInv
    <2> QED
      BY <2>2, <2>3, <2>4, <2>5, <2>6 DEF DecoderTypeOK
  <1> QED
    BY <1>1, LzmaInvariant, PTL

(* LzmaDec_DecodeReal, which does not test where its input ends, never goes *)
(* past it, whatever the bytes are and however they are cut up.             *)
THEOREM InputIsNotOverread == DecoderSpec => []NeverOverreads
  <1>1. LzmaInv => NeverOverreads
    <2> SUFFICES ASSUME LzmaInv, pc \in {"real", "stored"} PROVE r.buf <= Len(Input)
      BY DEF NeverOverreads
    <2>1. Len(Input) \in Nat /\ r.buf \in Nat /\ LZMA_REQUIRED_INPUT_MAX \in Nat
      BY InputIs, DecoderAssumption DEF LzmaInv, CallInv, Locals
    <2>2. CASE pc = "stored"
      BY <2>2 DEF LzmaInv, LocalsInv
    <2>3. CASE pc = "real"
      BY <2>1, <2>3 DEF LzmaInv, LocalsInv, RoomForSymbol
    <2> QED
      BY <2>2, <2>3
  <1> QED
    BY <1>1, LzmaInvariant, PTL

(* No cell of the dictionary is copied, given out or looked at before the   *)
(* decoder has written it.                                                  *)
THEOREM WrittenBeforeRead == DecoderSpec => []OnlyWrittenIsRead
  <1>1. LzmaInv => OnlyWrittenIsRead
    <2> SUFFICES ASSUME LzmaInv PROVE OnlyWrittenIsRead
      OBVIOUS
    <2>1. \A x \in Letters : x # Unwritten
      <3>1. \A n \in Nat : \A x \in 0 .. n - 1 : x # -1
        OBVIOUS
      <3>2. Power(NumLitBits) \in Nat
        BY SymbolSizes, PowersNatural
      <3> QED
        BY <3>1, <3>2 DEF Letters, Unwritten
    <2>2. \A i \in DOMAIN output : output[i] \in Letters
      BY LenProperties, ElementOfSeq DEF LzmaInv, CallInv
    <2>3. pc = "real" => KnownOK(Known(r.dec, dic))
      BY KnownIsWritten DEF LzmaInv, LocalsInv
    <2> QED
      BY <2>1, <2>2, <2>3 DEF OnlyWrittenIsRead, KnownOK
  <1> QED
    BY <1>1, LzmaInvariant, PTL
=============================================================================
