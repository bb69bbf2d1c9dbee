------------------------- MODULE MatchWindowProofs -------------------------
(***************************************************************************)
(* The safety of the match finder's window for every dictionary size, look *)
(* ahead, reserve, position limit and stream.  The inductive invariant     *)
(* adds to the checked properties what makes them inductive: how far away  *)
(* posLimit may lie, that no reference is entered ahead of the cursor, and *)
(* what holds before the first MatchFinder_Init.                           *)
(***************************************************************************)
EXTENDS MatchWindow, TLAPS

(* The content of the block, as a predicate of the memory m, the cursor b,  *)
(* its stream offset a and the number av of bytes available.                *)
Window(m, b, a, av) ==
    /\ m \in [0 .. BlockSize - 1 -> Int]
    /\ b \in Nat /\ a \in Nat /\ av \in Nat
    /\ b + av <= BlockSize
    /\ \A d \in 1 .. KeepSizeBefore : d <= a => d <= b /\ m[b - d] = a - d
    /\ \A i \in b .. b + av - 1 : m[i] = a + (i - b)

(* What a table means at position p and stream offset a.                    *)
References(refs, ins, p, a) ==
    \A h \in Hashes :
        LET true == ins[h] # None /\ a - ins[h] <= HistorySize
        IN  /\ refs[h] < p
            /\ ins[h] < a
            /\ (p - refs[h] < CyclicBufferSize) <=> true
            /\ true => p - refs[h] = a - ins[h]

(* How far the limits computed at position p may reach.                     *)
LimitsOK(p, sp, c, pl, ll) ==
    /\ p < sp => p < pl
    /\ pl <= MaxVal
    /\ pl - p <= CyclicBufferSize - c
    /\ sp - p <= KeepSizeAfter => pl - p <= 1
    /\ sp - p > KeepSizeAfter => pl - p <= sp - p - KeepSizeAfter
    /\ ll = Least(sp - p, MatchMaxLen)

IInv ==
    /\ TypeOK
    /\ Window(mem, buffer, at, Available)
    /\ References(hash, headAt, pos, at)
    /\ LookaheadKept
    /\ open => LimitsOK(pos, streamPos, cyclicBufferPos, posLimit, lenLimit)
-----------------------------------------------------------------------------
(* The sizes MatchFinder_Create computes are naturals, and the block has    *)
(* room for what must be kept and Reserve bytes more.                       *)
LEMMA Sizes ==
    /\ KeepSizeBefore \in Nat /\ KeepSizeBefore > HistorySize
    /\ KeepSizeAfter \in Nat /\ KeepSizeAfter >= MatchMaxLen
    /\ Reserve \in Nat /\ Reserve > 0
    /\ BlockSize \in Nat /\ BlockSize = KeepSizeBefore + KeepSizeAfter + Reserve
    /\ CyclicBufferSize \in Nat /\ CyclicBufferSize = HistorySize + 1
    /\ HistorySize \in Nat /\ MatchMaxLen \in Nat
  BY SizesAssumption
  DEF KeepSizeBefore, KeepSizeAfter, BlockSize, CyclicBufferSize

(* The value subtracted from all positions leaves every position that is    *)
(* still within the dictionary positive, and makes pos smaller.             *)
LEMMA SubValueBounds ==
    /\ SubValue(MaxVal) \in Nat
    /\ MaxVal - SubValue(MaxVal) >= CyclicBufferSize
    /\ MaxVal - SubValue(MaxVal) < MaxVal
  <1> DEFINE x == MaxVal - HistorySize - 1
  <1>1. x \in Nat /\ x > NormalizeStep
    BY SizesAssumption, NormalizeAssumption
  <1>2. x % NormalizeStep \in 0 .. NormalizeStep - 1
    BY <1>1, NormalizeAssumption
  <1>3. SubValue(MaxVal) = x - (x % NormalizeStep)
    BY DEF SubValue
  <1> HIDE DEF x
  <1>4. SubValue(MaxVal) \in Nat /\ SubValue(MaxVal) <= x /\ SubValue(MaxVal) > 0
    BY <1>1, <1>2, <1>3, NormalizeAssumption
  <1> QED
    BY <1>4, SizesAssumption, NormalizeAssumption DEF x, CyclicBufferSize

(* One byte forward: the byte at the cursor joins the history.              *)
LEMMA WindowAdvance ==
    ASSUME NEW m, NEW b, NEW a, NEW av, Window(m, b, a, av), av > 0
    PROVE  Window(m, b + 1, a + 1, av - 1)
  <1>1. ASSUME NEW d \in 1 .. KeepSizeBefore, d <= a + 1
        PROVE  d <= b + 1 /\ m[b + 1 - d] = a + 1 - d
    <2>1. CASE d = 1
      <3>1. b \in b .. b + av - 1
        BY DEF Window
      <3> QED
        BY <2>1, <3>1 DEF Window
    <2>2. CASE d > 1
      <3>1. d - 1 \in 1 .. KeepSizeBefore /\ d - 1 <= a
        BY <1>1, <2>2, Sizes DEF Window
      <3>2. d - 1 <= b /\ m[b - (d - 1)] = a - (d - 1)
        BY <3>1 DEF Window
      <3>3. b - (d - 1) = b + 1 - d /\ a - (d - 1) = a + 1 - d
        BY Sizes DEF Window
      <3> QED
        BY <3>1, <3>2, <3>3, Sizes DEF Window
    <2> QED
      BY <2>1, <2>2, Sizes
  <1>2. ASSUME NEW i \in b + 1 .. b + 1 + (av - 1) - 1
        PROVE  m[i] = a + 1 + (i - (b + 1))
    <2>1. i \in b .. b + av - 1
      BY DEF Window
    <2> QED
      BY <2>1 DEF Window
  <1>3. /\ m \in [0 .. BlockSize - 1 -> Int]
        /\ b + 1 \in Nat /\ a + 1 \in Nat /\ av - 1 \in Nat
        /\ b + 1 + (av - 1) <= BlockSize
    BY Sizes DEF Window
  <1> QED
    BY <1>1, <1>2, <1>3 DEF Window

(* MatchFinder_MoveBlock keeps the content seen from the cursor.            *)
LEMMA WindowMoved ==
    ASSUME NEW m, NEW b, NEW a, NEW av, Window(m, b, a, av), b >= KeepSizeBefore,
           KeepSizeBefore + av <= BlockSize
    PROVE  Window(Moved(m, b, av), KeepSizeBefore, a, av)
  <1> DEFINE w == Moved(m, b, av)
  <1>1. w \in [0 .. BlockSize - 1 -> Int]
    <2>1. ASSUME NEW i \in 0 .. BlockSize - 1, i < KeepSizeBefore + av
          PROVE  m[b - KeepSizeBefore + i] \in Int
      <3>1. b - KeepSizeBefore + i \in 0 .. BlockSize - 1
        BY <2>1, Sizes DEF Window
      <3> QED
        BY <3>1 DEF Window
    <2> QED
      BY <2>1 DEF Moved, Window
  <1>2. ASSUME NEW d \in 1 .. KeepSizeBefore, d <= a
        PROVE  d <= KeepSizeBefore /\ w[KeepSizeBefore - d] = a - d
    <2>1. KeepSizeBefore - d \in 0 .. BlockSize - 1 /\ KeepSizeBefore - d < KeepSizeBefore + av
      BY Sizes DEF Window
    <2>2. w[KeepSizeBefore - d] = m[b - KeepSizeBefore + (KeepSizeBefore - d)]
      BY <2>1 DEF Moved
    <2>3. b - KeepSizeBefore + (KeepSizeBefore - d) = b - d
      BY Sizes DEF Window
    <2> QED
      BY <1>2, <2>2, <2>3, Sizes DEF Window
  <1>3. ASSUME NEW i \in KeepSizeBefore .. KeepSizeBefore + av - 1
        PROVE  w[i] = a + (i - KeepSizeBefore)
    <2>1. i \in 0 .. BlockSize - 1 /\ i < KeepSizeBefore + av
      BY Sizes DEF Window
    <2>2. w[i] = m[b - KeepSizeBefore + i]
      BY <2>1 DEF Moved
    <2>3. PICK j \in b .. b + av - 1 : j = b - KeepSizeBefore + i
      BY Sizes DEF Window
    <2>4. m[j] = a + (j - b)
      BY <2>3 DEF Window
    <2>5. j - b = i - KeepSizeBefore
      BY <2>3, <2>1, Sizes DEF Window
    <2> QED
      BY <2>2, <2>3, <2>4, <2>5
  <1> QED
    BY <1>1, <1>2, <1>3, Sizes DEF Window

(* What Read delivers extends the content without disturbing it.            *)
LEMMA WindowFilled ==
    ASSUME NEW m, NEW b, NEW a, NEW av, Window(m, b, a, av),
           NEW n \in Nat, b + av + n <= BlockSize
    PROVE  Window(Filled(m, b, av, a + av, n), b, a, av + n)
  <1> DEFINE w == Filled(m, b, av, a + av, n)
  <1>1. w \in [0 .. BlockSize - 1 -> Int]
    BY Sizes DEF Filled, Window
  <1>2. ASSUME NEW d \in 1 .. KeepSizeBefore, d <= a
        PROVE  d <= b /\ w[b - d] = a - d
    <2>1. d <= b /\ m[b - d] = a - d
      BY <1>2 DEF Window
    <2>2. b - d \in 0 .. BlockSize - 1 /\ b - d < b + av
      BY <2>1, Sizes DEF Window
    <2> QED
      BY <2>1, <2>2 DEF Filled, Window
  <1>3. ASSUME NEW i \in b .. b + (av + n) - 1
        PROVE  w[i] = a + (i - b)
    <2>1. i \in 0 .. BlockSize - 1
      BY Sizes DEF Window
    <2>2. CASE i < b + av
      <3>1. i \in b .. b + av - 1
        BY <2>2 DEF Window
      <3>2. w[i] = m[i]
        BY <2>1, <2>2 DEF Filled, Window
      <3> QED
        BY <3>1, <3>2 DEF Window
    <2>3. CASE i >= b + av
      <3>1. w[i] = a + av + i - (b + av)
        BY <2>1, <2>3 DEF Filled, Window
      <3> QED
        BY <3>1, <2>1 DEF Window
    <2> QED
      BY <2>2, <2>3 DEF Window
  <1> QED
    BY <1>1, <1>2, <1>3, Sizes DEF Window

(* Going one byte forward ages every reference by one.                      *)
LEMMA ReferencesAdvance ==
    ASSUME NEW refs \in [Hashes -> Int], NEW ins \in [Hashes -> Int],
           NEW p \in Int, NEW a \in Nat, References(refs, ins, p, a)
    PROVE  References(refs, ins, p + 1, a + 1)
  BY Sizes DEF References, None

(* So does entering the cursor's position under some hashes first.          *)
LEMMA ReferencesInsert ==
    ASSUME NEW refs \in [Hashes -> Int], NEW ins \in [Hashes -> Int],
           NEW p \in Int, NEW a \in Nat, References(refs, ins, p, a),
           NEW hs \in SUBSET Hashes
    PROVE  References(Entered(refs, hs, p), Entered(ins, hs, a), p + 1, a + 1)
  <1>0. PICK refs2, ins2 : refs2 = Entered(refs, hs, p) /\ ins2 = Entered(ins, hs, a)
    OBVIOUS
  <1> DEFINE Agrees(h) ==
                LET true == ins2[h] # None /\ a + 1 - ins2[h] <= HistorySize
                IN  /\ refs2[h] < p + 1
                    /\ ins2[h] < a + 1
                    /\ (p + 1 - refs2[h] < CyclicBufferSize) <=> true
                    /\ true => p + 1 - refs2[h] = a + 1 - ins2[h]
  <1>1. ASSUME NEW h \in hs
        PROVE  Agrees(h)
    <2>1. refs2[h] = p /\ ins2[h] = a
      BY <1>0 DEF Entered
    <2> QED
      BY <2>1, Sizes DEF None
  <1>2. ASSUME NEW h \in Hashes, h \notin hs
        PROVE  Agrees(h)
    <2>1. refs2[h] = refs[h] /\ ins2[h] = ins[h]
      BY <1>0, <1>2 DEF Entered
    <2> QED
      BY <2>1, Sizes DEF References, None
  <1>3. \A h \in Hashes : Agrees(h)
    BY <1>1, <1>2
  <1>4. refs2 \in [Hashes -> Int] /\ ins2 \in [Hashes -> Int]
    BY <1>0 DEF Entered
  <1>5. References(refs2, ins2, p + 1, a + 1)
    BY <1>3, <1>4, Sizes DEF References
  <1> QED
    BY <1>0, <1>5

(* Normalisation keeps the meaning of the table at the reduced position.    *)
LEMMA ReferencesNormalized ==
    ASSUME NEW refs \in [Hashes -> Int], NEW ins \in [Hashes -> Int],
           NEW p \in Int, NEW a \in Nat, References(refs, ins, p, a),
           NEW sub \in Nat, p - sub >= CyclicBufferSize
    PROVE  References(Normalized(refs, sub), ins, p - sub, a)
  BY Sizes DEF References, Normalized, None, kEmptyHashValue

(* What SetLimits computes is within the distance to the next check of      *)
(* every kind.                                                              *)
LEMMA LimitsSet ==
    ASSUME NEW p \in Nat, NEW sp \in Nat, NEW c \in Nat,
           p < MaxVal, p <= sp, c < CyclicBufferSize
    PROVE  /\ LimitsOK(p, sp, c, p + Limit(p, sp, c), Least(sp - p, MatchMaxLen))
           /\ p + Limit(p, sp, c) \in Nat
           /\ Least(sp - p, MatchMaxLen) \in 0 .. MatchMaxLen
  BY Sizes, NormalizeAssumption DEF LimitsOK, Limit, Least

(* A block read that is asked for with room for more than KeepSizeAfter     *)
(* bytes fails, ends the stream or leaves more than KeepSizeAfter ahead.    *)
LEMMA ReadBlockEnough ==
    ASSUME NEW b \in Nat, NEW avail \in Nat, NEW got \in Nat,
           b + avail <= BlockSize, b + KeepSizeAfter < BlockSize,
           NEW r \in ReadBlock(b, avail, got)
    PROVE  /\ r.n \in Nat /\ b + avail + r.n <= BlockSize
           /\ r.end \in BOOLEAN /\ r.fail \in BOOLEAN
           /\ ~r.end /\ ~r.fail => avail + r.n > KeepSizeAfter
  BY Sizes DEF ReadBlock
-----------------------------------------------------------------------------
(* The invariant holds before anything is read.                             *)
LEMMA InitInv == Init => IInv
  <1> SUFFICES ASSUME Init PROVE IInv
    OBVIOUS
  <1>1. CyclicBufferSize \in 1 .. MaxVal - 1
    BY Sizes, NormalizeAssumption
  <1>2. TypeOK
    <2>1. /\ mem \in [0 .. BlockSize - 1 -> Int]
          /\ headAt \in [Hashes -> Nat \cup {None}]
      BY DEF Init, None
    <2>2. hash \in [Hashes -> 0 .. MaxVal - 1]
      BY <1>1, Sizes, NormalizeAssumption DEF Init, kEmptyHashValue
    <2>3. open \in BOOLEAN /\ streamEndWasReached \in BOOLEAN /\ result \in BOOLEAN
      BY DEF Init
    <2>4. /\ buffer \in 0 .. BlockSize /\ pos \in CyclicBufferSize .. MaxVal - 1
          /\ streamPos \in Nat /\ posLimit \in Nat
          /\ lenLimit \in 0 .. MatchMaxLen /\ at \in Nat
          /\ cyclicBufferPos \in 0 .. CyclicBufferSize - 1
      BY <1>1, Sizes, NormalizeAssumption DEF Init
    <2> QED
      BY <2>1, <2>2, <2>3, <2>4 DEF TypeOK
  <1>3. Window(mem, buffer, at, Available)
    BY Sizes DEF Init, Window, Available, None
  <1>4. References(hash, headAt, pos, at)
    BY Sizes DEF Init, References, None, kEmptyHashValue
  <1> QED
    BY <1>2, <1>3, <1>4 DEF IInv, Init, LookaheadKept

(* MatchFinder_Init establishes it again for each stream.                   *)
LEMMA RestartInv == IInv /\ MatchFinder_Init => IInv'
  <1> SUFFICES ASSUME IInv, MatchFinder_Init PROVE IInv'
    OBVIOUS
  <1>1. PICK r \in ReadBlock(0, 0, 0) :
            /\ open' = TRUE /\ buffer' = 0 /\ cyclicBufferPos' = 0
            /\ pos' = CyclicBufferSize
            /\ streamPos' = CyclicBufferSize + r.n
            /\ streamEndWasReached' = r.end
            /\ result' = ~r.fail
            /\ mem' = Filled(mem, 0, 0, 0, r.n)
            /\ hash' = [h \in Hashes |-> kEmptyHashValue]
            /\ SetLimits(CyclicBufferSize, CyclicBufferSize + r.n, 0)
            /\ at' = 0
            /\ headAt' = [h \in Hashes |-> None]
    BY DEF MatchFinder_Init
  <1>2. /\ r.n \in Nat /\ r.n <= BlockSize
        /\ r.end \in BOOLEAN /\ r.fail \in BOOLEAN
        /\ ~r.end /\ ~r.fail => r.n > KeepSizeAfter
    BY ReadBlockEnough, Sizes
  <1>3. Window(mem, 0, 0, 0)
    BY Sizes DEF IInv, TypeOK, Window
  <1>4. Window(mem', 0, 0, r.n)
    BY <1>1, <1>2, <1>3, WindowFilled
  <1>5. Available' = r.n
    BY <1>1, <1>2, Sizes DEF Available
  <1>6. /\ LimitsOK(pos', streamPos', cyclicBufferPos', posLimit', lenLimit')
        /\ posLimit' \in Nat /\ lenLimit' \in 0 .. MatchMaxLen
    BY <1>1, <1>2, LimitsSet, Sizes, NormalizeAssumption DEF SetLimits
  <1>7. References(hash', headAt', pos', at')
    BY <1>1, Sizes DEF References, None, kEmptyHashValue
  <1>8. TypeOK'
    <2>1. CyclicBufferSize \in 1 .. MaxVal - 1
      BY Sizes, NormalizeAssumption
    <2>2. /\ mem' \in [0 .. BlockSize - 1 -> Int]
          /\ headAt' \in [Hashes -> Nat \cup {None}]
      BY <1>1, <1>4 DEF Window, None
    <2>3. hash' \in [Hashes -> 0 .. MaxVal - 1]
      BY <1>1, <2>1, Sizes, NormalizeAssumption DEF kEmptyHashValue
    <2>4. open' \in BOOLEAN /\ streamEndWasReached' \in BOOLEAN /\ result' \in BOOLEAN
      BY <1>1, <1>2
    <2>5. /\ buffer' \in 0 .. BlockSize /\ pos' \in CyclicBufferSize .. MaxVal - 1
          /\ streamPos' \in Nat /\ at' \in Nat
          /\ cyclicBufferPos' \in 0 .. CyclicBufferSize - 1
      BY <1>1, <1>2, <2>1, Sizes, NormalizeAssumption
    <2> QED
      BY <1>6, <2>2, <2>3, <2>4, <2>5 DEF TypeOK
  <1> QED
    BY <1>1, <1>2, <1>4, <1>5, <1>6, <1>7, <1>8 DEF IInv, LookaheadKept

(* MOVE_POS preserves it, whatever table of references it goes on with as   *)
(* long as that table is right for the next position.                       *)
LEMMA MovePosInv ==
    ASSUME IInv, NEW refs \in [Hashes -> 0 .. MaxVal - 1], MovePos(refs),
           headAt' \in [Hashes -> Nat \cup {None}],
           References(refs, headAt', pos + 1, at + 1)
    PROVE  IInv'
  <1> DEFINE ahead == streamPos - (pos + 1)
  <1>1. /\ open /\ open' /\ open' \in BOOLEAN
        /\ Available \in Nat /\ Available > 0
        /\ at \in Nat /\ at' = at + 1 /\ at' \in Nat
        /\ pos \in CyclicBufferSize .. MaxVal - 1 /\ streamPos \in Nat
        /\ ahead \in Nat /\ ahead = Available - 1
        /\ cyclicBufferPos \in 0 .. CyclicBufferSize - 1
        /\ streamEndWasReached \in BOOLEAN /\ result \in BOOLEAN
        /\ LimitsOK(pos, streamPos, cyclicBufferPos, posLimit, lenLimit)
    BY Sizes, NormalizeAssumption DEF IInv, TypeOK, MovePos, Available, Window
  <1>2. Window(mem, buffer + 1, at + 1, ahead)
    BY <1>1, WindowAdvance DEF IInv
  <1>3. CASE pos + 1 # posLimit
    <2>1. /\ buffer' = buffer + 1 /\ pos' = pos + 1
          /\ cyclicBufferPos' = cyclicBufferPos + 1 /\ hash' = refs
          /\ UNCHANGED <<streamPos, posLimit, lenLimit, streamEndWasReached,
                         result, mem>>
      BY <1>3 DEF MovePos
    <2>2. Available' = ahead
      BY <2>1 DEF Available
    <2>3. /\ pos + 1 < posLimit
          /\ pos + 1 < MaxVal
          /\ cyclicBufferPos + 1 < CyclicBufferSize
      BY <1>1, <1>3, Sizes, NormalizeAssumption DEF LimitsOK, IInv, TypeOK, Available
    <2>4. /\ LimitsOK(pos + 1, streamPos, cyclicBufferPos + 1, posLimit, lenLimit)
          /\ ahead > KeepSizeAfter
      BY <1>1, <2>3, Sizes, NormalizeAssumption
      DEF LimitsOK, IInv, TypeOK, Available, Least
    <2>5. TypeOK'
      <3>1. buffer + 1 \in 0 .. BlockSize
        BY <1>2, Sizes DEF Window
      <3> QED
        BY <1>1, <2>1, <2>3, <3>1, Sizes, NormalizeAssumption DEF IInv, TypeOK
    <2>6. References(hash', headAt', pos', at')
      BY <1>1, <2>1
    <2>7. Window(mem', buffer', at', Available')
      BY <1>1, <1>2, <2>1, <2>2
    <2> QED
      BY <2>1, <2>2, <2>4, <2>5, <2>6, <2>7 DEF IInv, LookaheadKept
  <1>4. CASE pos + 1 = posLimit
    <2> DEFINE p     == pos + 1
               b     == buffer + 1
               c     == cyclicBufferPos + 1
               sub   == IF p = MaxVal THEN SubValue(p) ELSE 0
               check == ~streamEndWasReached /\ KeepSizeAfter = ahead
               moved == check /\ NeedMove(b)
               b2    == IF moved THEN KeepSizeBefore ELSE b
               mem2  == IF moved THEN Moved(mem, b, ahead) ELSE mem
               got   == at + Available
               c2    == IF c = CyclicBufferSize THEN 0 ELSE c
               reads == IF check /\ result THEN ReadBlock(b2, ahead, got)
                        ELSE {[n |-> 0, end |-> streamEndWasReached,
                               fail |-> ~result]}
    <2>1. PICK r \in reads :
            /\ buffer' = b2
            /\ pos' = p - sub
            /\ streamPos' = streamPos - sub + r.n
            /\ streamEndWasReached' = r.end
            /\ result' = ~r.fail
            /\ mem' = Filled(mem2, b2, ahead, got, r.n)
            /\ hash' = IF p = MaxVal THEN Normalized(refs, sub) ELSE refs
            /\ cyclicBufferPos' = c2
            /\ SetLimits(p - sub, streamPos - sub + r.n, c2)
      BY <1>4 DEF MovePos, CheckLimits
    <2>2. /\ sub \in Nat /\ p - sub \in CyclicBufferSize .. MaxVal - 1
          /\ p - sub \in Nat
      <3>1. p <= MaxVal /\ p \in Nat
        BY <1>1, Sizes, NormalizeAssumption
      <3>2. CASE p = MaxVal
        BY <3>2, SubValueBounds, Sizes, NormalizeAssumption
      <3>3. CASE p # MaxVal
        BY <1>1, <3>1, <3>3, Sizes, NormalizeAssumption
      <3> QED
        BY <3>2, <3>3
    <2>3. c2 \in 0 .. CyclicBufferSize - 1
      BY <1>1, Sizes
    <2>4. Window(mem2, b2, at + 1, ahead)
      <3>1. CASE moved
        <4>1. BlockSize - b <= KeepSizeAfter /\ ahead = KeepSizeAfter
          BY <3>1 DEF NeedMove
        <4>3. b >= KeepSizeBefore /\ KeepSizeBefore + ahead <= BlockSize
          <5>1. b \in Nat
            BY <1>2 DEF Window
          <5> HIDE DEF b, ahead
          <5> QED
            BY <4>1, <5>1, Sizes
        <4>2. b2 = KeepSizeBefore /\ mem2 = Moved(mem, b, ahead)
          BY <3>1
        <4> QED
          BY <1>2, <4>2, <4>3, WindowMoved
      <3>2. CASE ~moved
        BY <1>2, <3>2
      <3> QED
        BY <3>1, <3>2
    <2>5. check => b2 + KeepSizeAfter < BlockSize
      <3>1. b \in Nat
        BY <1>2 DEF Window
      <3> QED
        BY <3>1, Sizes DEF NeedMove
    <2>6. /\ r.n \in Nat /\ b2 + ahead + r.n <= BlockSize
          /\ r.end \in BOOLEAN /\ r.fail \in BOOLEAN
          /\ ~r.end /\ ~r.fail => ahead + r.n > KeepSizeAfter
      <3>1. b2 \in Nat /\ b2 + ahead <= BlockSize /\ got \in Nat
        <4>1. got \in Nat
          BY <1>1
        <4> HIDE DEF b2, mem2, ahead, got
        <4> QED
          BY <2>4, <4>1 DEF Window
      <3>2. CASE check /\ result
        <4>1. r \in ReadBlock(b2, ahead, got)
          BY <3>2
        <4>2. b2 + KeepSizeAfter < BlockSize
          BY <2>5, <3>2
        <4> HIDE DEF b2, ahead, got
        <4> QED
          BY <1>1, <3>1, <4>1, <4>2, ReadBlockEnough
      <3>3. CASE ~(check /\ result)
        <4>1. r = [n |-> 0, end |-> streamEndWasReached, fail |-> ~result]
          BY <3>3
        <4>3. /\ r.n = 0 /\ r.end = streamEndWasReached /\ r.fail = ~result
              /\ r.n \in Nat /\ r.end \in BOOLEAN /\ r.fail \in BOOLEAN
          BY <1>1, <4>1
        <4>2. ~r.end /\ ~r.fail => ahead + r.n > KeepSizeAfter
          <5>1. ~streamEndWasReached /\ result => Available > KeepSizeAfter
            BY <1>1 DEF IInv, LookaheadKept
          <5>2. ~streamEndWasReached /\ result => ahead # KeepSizeAfter
            BY <3>3
          <5>3. SUFFICES ASSUME ~r.end, ~r.fail PROVE ahead + r.n > KeepSizeAfter
            OBVIOUS
          <5>4. ~streamEndWasReached /\ result
            BY <1>1, <4>3, <5>3
          <5> HIDE DEF ahead
          <5> QED
            BY <1>1, <4>3, <5>1, <5>2, <5>4, Sizes
        <4> HIDE DEF b2, ahead
        <4> QED
          BY <1>1, <3>1, <4>3, <4>2
      <3> QED
        BY <3>2, <3>3
    <2>7. Window(mem', b2, at + 1, ahead + r.n)
      <3>1. got = at + 1 + ahead
        BY <1>1
      <3> HIDE DEF mem2, b2, ahead, got
      <3> QED
        BY <2>1, <2>4, <2>6, <3>1, WindowFilled
    <2>8. /\ Available' = ahead + r.n
          /\ streamPos' \in Nat /\ pos' <= streamPos'
      <3> HIDE DEF sub
      <3> QED
        BY <1>1, <2>1, <2>2, <2>6 DEF Available
    <2>9. References(hash', headAt', pos', at')
      <3>1. References(refs, headAt', p, at + 1)
        OBVIOUS
      <3>2. refs \in [Hashes -> Int] /\ headAt' \in [Hashes -> Int]
        BY NormalizeAssumption DEF None
      <3>3. CASE p = MaxVal
        BY <1>1, <2>1, <2>2, <3>1, <3>2, <3>3, ReferencesNormalized
      <3>4. CASE p # MaxVal
        <4>1. sub = 0 /\ pos' = p /\ hash' = refs
          BY <1>1, <2>1, <3>4
        <4> QED
          BY <1>1, <3>1, <4>1
      <3> QED
        BY <3>3, <3>4
    <2>10. /\ LimitsOK(pos', streamPos', cyclicBufferPos', posLimit', lenLimit')
           /\ posLimit' \in Nat /\ lenLimit' \in 0 .. MatchMaxLen
      <3>1. /\ cyclicBufferPos' = c2
            /\ lenLimit' = Least(streamPos' - pos', MatchMaxLen)
            /\ posLimit' = pos' + Limit(pos', streamPos', cyclicBufferPos')
        BY <2>1 DEF SetLimits
      <3>2. /\ pos' \in Nat /\ streamPos' \in Nat /\ cyclicBufferPos' \in Nat
            /\ pos' < MaxVal /\ pos' <= streamPos'
            /\ cyclicBufferPos' < CyclicBufferSize
        <4>1. pos' = p - sub
          BY <2>1
        <4> HIDE DEF sub, c2, p
        <4> QED
          BY <2>1, <2>2, <2>3, <2>8, <3>1, <4>1, Sizes, NormalizeAssumption
      <3> QED
        BY <3>1, <3>2, LimitsSet
    <2>11. hash' \in [Hashes -> 0 .. MaxVal - 1]
      BY <2>1, <2>2, NormalizeAssumption DEF Normalized, kEmptyHashValue
    <2>12. TypeOK'
      <3>1. buffer' \in 0 .. BlockSize /\ mem' \in [0 .. BlockSize - 1 -> Int]
        <4>1. buffer' = b2 /\ ahead + r.n \in Nat
          BY <1>1, <2>1, <2>6
        <4> HIDE DEF b2, ahead
        <4> QED
          BY <2>7, <4>1, Sizes DEF Window
      <3>2. pos' \in CyclicBufferSize .. MaxVal - 1 /\ cyclicBufferPos' \in 0 .. CyclicBufferSize - 1
        BY <2>1, <2>2, <2>3
      <3>3. streamEndWasReached' \in BOOLEAN /\ result' \in BOOLEAN
        BY <2>1, <2>6
      <3> QED
        BY <1>1, <2>8, <2>10, <2>11, <3>1, <3>2, <3>3 DEF TypeOK
    <2>13. LookaheadKept'
      BY <2>1, <2>6, <2>8 DEF LookaheadKept
    <2>14. Window(mem', buffer', at', Available')
      BY <1>1, <2>1, <2>7, <2>8
    <2> QED
      BY <2>9, <2>10, <2>12, <2>13, <2>14 DEF IInv
  <1> QED
    BY <1>3, <1>4

(* Every step preserves the invariant.                                      *)
LEMMA NextInv == IInv /\ [Next]_vars => IInv'
  <1> SUFFICES ASSUME IInv, [Next]_vars PROVE IInv'
    OBVIOUS
  <1>1. CASE MatchFinder_Init
    BY <1>1, RestartInv
  <1>2. ASSUME NEW hs \in SUBSET Hashes, Insert(hs)
        PROVE  IInv'
    <2> DEFINE refs == Entered(hash, hs, pos)
    <2>1. /\ hash \in [Hashes -> 0 .. MaxVal - 1]
          /\ headAt \in [Hashes -> Nat \cup {None}]
          /\ pos \in 0 .. MaxVal - 1 /\ at \in Nat
          /\ References(hash, headAt, pos, at)
      BY Sizes DEF IInv, TypeOK
    <2>2. /\ MovePos(refs) /\ headAt' = Entered(headAt, hs, at)
      BY <1>2 DEF Insert
    <2>5. hash \in [Hashes -> Int] /\ headAt \in [Hashes -> Int] /\ pos \in Int
      BY <2>1, NormalizeAssumption DEF None
    <2>3. References(refs, headAt', pos + 1, at + 1)
      BY <2>1, <2>2, <2>5, ReferencesInsert
    <2>4. refs \in [Hashes -> 0 .. MaxVal - 1] /\ headAt' \in [Hashes -> Nat \cup {None}]
      BY <2>1, <2>2 DEF Entered
    <2> HIDE DEF refs
    <2> QED
      BY <2>2, <2>3, <2>4, MovePosInv
  <1>3. CASE PassOver
    <2>1. /\ hash \in [Hashes -> 0 .. MaxVal - 1]
          /\ headAt \in [Hashes -> Nat \cup {None}]
          /\ pos \in 0 .. MaxVal - 1 /\ at \in Nat
          /\ References(hash, headAt, pos, at)
      BY Sizes DEF IInv, TypeOK
    <2>2. MovePos(hash) /\ headAt' = headAt
      BY <1>3 DEF PassOver
    <2>3. References(hash, headAt, pos + 1, at + 1)
      BY <2>1, ReferencesAdvance, NormalizeAssumption DEF None
    <2> QED
      BY <2>1, <2>2, <2>3, MovePosInv
  <1>4. CASE UNCHANGED vars
    BY <1>4 DEF vars, IInv, TypeOK, Available, LookaheadKept
  <1> QED
    BY <1>1, <1>2, <1>3, <1>4 DEF Next

(* The inductive invariant holds throughout.                                *)
THEOREM Invariance == Spec => []IInv
  BY InitInv, NextInv, PTL DEF Spec

(* Each checked property follows from the inductive invariant.              *)
LEMMA InvImplies ==
    IInv => /\ TypeOK /\ HistoryRetained /\ LookaheadInBlock /\ LookaheadKept
            /\ LenLimitExact /\ ReferencesExact
  <1> SUFFICES ASSUME IInv
      PROVE  /\ TypeOK /\ HistoryRetained /\ LookaheadInBlock /\ LookaheadKept
             /\ LenLimitExact /\ ReferencesExact
    OBVIOUS
  <1>1. TypeOK /\ LookaheadKept
    BY DEF IInv
  <1>2. HistoryRetained
    BY DEF IInv, Window, HistoryRetained
  <1>3. LookaheadInBlock
    BY DEF IInv, Window, LookaheadInBlock
  <1>4. LenLimitExact
    BY DEF IInv, LimitsOK, LenLimitExact, Available
  <1>5. ReferencesExact
    BY DEF IInv, References, ReferencesExact
  <1> QED
    BY <1>1, <1>2, <1>3, <1>4, <1>5

(* Type correctness: among it, that pos never reaches the value at which it *)
(* would overflow and that the cyclic position indexes the son table.       *)
THEOREM TypeCorrect == Spec => []TypeOK
  BY Invariance, InvImplies, PTL

(* The dictionary and the parser's lag stay readable behind the cursor.     *)
THEOREM HistoryIsRetained == Spec => []HistoryRetained
  BY Invariance, InvImplies, PTL

(* What is announced ahead of the cursor is inside the block and is the     *)
(* stream.                                                                  *)
THEOREM LookaheadIsInBlock == Spec => []LookaheadInBlock
  BY Invariance, InvImplies, PTL

(* A slow reader never shortens the look ahead.                             *)
THEOREM LookaheadIsKept == Spec => []LookaheadKept
  BY Invariance, InvImplies, PTL

(* The length limit is exact at every position.                             *)
THEOREM LenLimitIsExact == Spec => []LenLimitExact
  BY Invariance, InvImplies, PTL

(* References are followed exactly when they point into the dictionary.     *)
THEOREM ReferencesAreExact == Spec => []ReferencesExact
  BY Invariance, InvImplies, PTL
=============================================================================
