--------------------------- MODULE TransferProofs ---------------------------
(***************************************************************************)
(* What the decoder gives out is what the bytes stand for, whatever pieces *)
(* they come in and whatever room it is offered: the cyclic dictionary,    *)
(* the symbols that wait in tempBuf and the matches that a limit cuts off  *)
(* leave no trace in the output.                                           *)
(* Behind it: every symbol that the encoder may code is read back from the *)
(* contexts and bits it was coded with.                                    *)
(***************************************************************************)
EXTENDS Transfer, LzmaDecoderProofs, FiniteSetTheorems

(* The range decoder at another place of the input.                         *)
Shifted(c, off) == [c EXCEPT !.buf = off + @]

(* Piece x of the input b begins behind its first off bytes.                *)
PieceOf(x, b, off) ==
    /\ off + Len(x) <= Len(b)
    /\ \A i \in 1 .. Len(x) : x[i] = b[off + i]

(* What moving a coder to another place changes.                            *)
LEMMA ShiftedCoder ==
    ASSUME NEW c \in Coders, NEW off \in Nat
    PROVE  /\ Shifted(c, off) \in Coders
           /\ Shifted(c, off).range = c.range /\ Shifted(c, off).code = c.code
           /\ Shifted(c, off).buf = off + c.buf /\ Shifted(c, off).probs = c.probs
  BY DEF Shifted, Coders

(* A coder is what its fields are.                                          *)
LEMMA CoderFields ==
    ASSUME NEW c \in Coders
    PROVE  c = [range |-> c.range, code |-> c.code, buf |-> c.buf, probs |-> c.probs]
  BY DEF Coders

(* Normalizing does nothing more the second time.                           *)
LEMMA NormalizedOnce ==
    ASSUME NEW c \in Coders, NEW b \in Seq(Bytes)
    PROVE  Normalized(Normalized(c, b), b) = Normalized(c, b)
  <1>1. Normalized(c, b).range \in Intervals
    BY NormalizedIs DEF Bytes
  <1>2. Normalized(c, b).range >= kTopValue
    BY <1>1, Sizes DEF Intervals
  <1> HIDE DEF Normalized
  <1>3. \A x : x.range >= kTopValue => Normalized(x, b) = x
    BY DEF Normalized
  <1> QED
    BY <1>2, <1>3

(* A piece and the whole of the input give the same byte.                   *)
LEMMA NormalizedShifted ==
    ASSUME NEW c \in Coders, NEW x \in Seq(Bytes), NEW b \in Seq(Bytes), NEW off \in Nat,
           PieceOf(x, b, off)
    PROVE  /\ Normalized(Shifted(c, off), b).buf = off + Normalized(c, x).buf
           /\ Normalized(c, x).buf <= Len(x) =>
                Normalized(Shifted(c, off), b) = Shifted(Normalized(c, x), off)
           /\ Normalized(c, x).buf \in Nat /\ Len(x) \in Nat
           /\ c.buf <= Normalized(c, x).buf
  <1> DEFINE s == Shifted(c, off)
  <1>1. /\ s.range = c.range /\ s.code = c.code /\ s.buf = off + c.buf /\ s.probs = c.probs
        /\ c.buf \in Nat /\ c.range \in Nat /\ Len(x) \in Nat /\ Len(b) \in Nat
    BY Sizes, LenProperties DEF Shifted, Coders
  <1>2. CASE c.range >= kTopValue
    <2>1. Normalized(c, x) = c /\ Normalized(s, b) = s
      BY <1>1, <1>2 DEF Normalized
    <2> QED
      BY <1>1, <2>1
  <1>3. CASE ~(c.range >= kTopValue)
    <2> DEFINE u == IF c.buf < Len(x) THEN x[c.buf + 1] ELSE 0
               v == IF s.buf < Len(b) THEN b[s.buf + 1] ELSE 0
    <2>1. /\ Normalized(c, x) = [c EXCEPT !.range = @ * Base, !.code = (@ * Base + u) % Word,
                                          !.buf = @ + 1]
          /\ Normalized(s, b) = [s EXCEPT !.range = @ * Base, !.code = (@ * Base + v) % Word,
                                          !.buf = @ + 1]
      BY <1>1, <1>3 DEF Normalized
    <2> HIDE DEF u, v
    <2>2. /\ Normalized(c, x) = [range |-> c.range * Base, code |-> (c.code * Base + u) % Word,
                                 buf |-> c.buf + 1, probs |-> c.probs]
          /\ Normalized(s, b) = [range |-> c.range * Base, code |-> (c.code * Base + v) % Word,
                                 buf |-> (off + c.buf) + 1, probs |-> c.probs]
      <3>1. s \in Coders
        BY ShiftedCoder
      <3> HIDE DEF s
      <3> QED
        BY <1>1, <2>1, <3>1 DEF Coders
    <2>3. c.buf + 1 <= Len(x) => u = v
      <3> SUFFICES ASSUME c.buf + 1 <= Len(x) PROVE u = v
        OBVIOUS
      <3>1. c.buf < Len(x) /\ s.buf < Len(b) /\ c.buf + 1 \in 1 .. Len(x)
        BY <1>1 DEF PieceOf
      <3>2. x[c.buf + 1] = b[off + (c.buf + 1)]
        BY <3>1 DEF PieceOf
      <3>3. off + (c.buf + 1) = s.buf + 1
        BY <1>1
      <3> QED
        BY <3>1, <3>2, <3>3 DEF u, v
    <2>4. Shifted(Normalized(c, x), off) =
            [range |-> c.range * Base, code |-> (c.code * Base + u) % Word,
             buf |-> off + (c.buf + 1), probs |-> c.probs]
      BY <2>2 DEF Shifted
    <2>5. (off + c.buf) + 1 = off + (c.buf + 1) /\ c.buf + 1 \in Nat
      BY <1>1
    <2>6. Normalized(c, x).buf = c.buf + 1 /\ Normalized(s, b).buf = (off + c.buf) + 1
      BY <2>2
    <2> QED
      BY <1>1, <2>2, <2>3, <2>4, <2>5, <2>6
  <1> QED
    BY <1>2, <1>3

(* So does a decision, ...                                                  *)
LEMMA FieldsShifted ==
    ASSUME NEW range0, NEW code0, NEW buf0, NEW probs0, NEW off, NEW context
    PROVE  LET c == [range |-> range0, code |-> code0, buf |-> buf0, probs |-> probs0]
               s == [range |-> range0, code |-> code0, buf |-> off + buf0, probs |-> probs0]
           IN  /\ Shifted(c, off) = s
               /\ DirectBit(s).bit = DirectBit(c).bit
               /\ DirectBit(s).coder = Shifted(DirectBit(c).coder, off)
               /\ AdaptiveBit(s, context).bit = AdaptiveBit(c, context).bit
               /\ AdaptiveBit(s, context).coder = Shifted(AdaptiveBit(c, context).coder, off)
  <1> DEFINE C(y, z, u, q) == [range |-> y, code |-> z, buf |-> u, probs |-> q]
             c == C(range0, code0, buf0, probs0)
             s == C(range0, code0, off + buf0, probs0)
             half == range0 \div 2
             less == (code0 - half) % Word
             bound == NewBound(range0, probs0[context])
             to(bit) == [probs0 EXCEPT ![context] = Moved(probs0[context], bit)]
             bound0(u) == [bit |-> 0, coder |-> C(bound, code0, u, to(0))]
             bound1(u) == [bit |-> 1, coder |-> C(range0 - bound, code0 - bound, u, to(1))]
             half0(u) == [bit |-> 0, coder |-> C(half, code0, u, probs0)]
             half1(u) == [bit |-> 1, coder |-> C(half, less, u, probs0)]
  <1>1. \A y, z, u, q : Shifted(C(y, z, u, q), off) = C(y, z, off + u, q)
    BY DEF Shifted
  <1>2. ASSUME NEW u
        PROVE  /\ AdaptiveBit(C(range0, code0, u, probs0), context) =
                    IF code0 < bound THEN bound0(u) ELSE bound1(u)
               /\ DirectBit(C(range0, code0, u, probs0)) =
                    IF less >= Word \div 2 THEN half0(u) ELSE half1(u)
    <2> DEFINE e == C(range0, code0, u, probs0)
    <2>1. e.range = range0 /\ e.code = code0 /\ e.buf = u /\ e.probs = probs0
      OBVIOUS
    <2>2. /\ [e EXCEPT !.range = bound, !.probs[context] = Moved(probs0[context], 0)] =
                C(bound, code0, u, to(0))
          /\ [e EXCEPT !.range = range0 - bound, !.code = code0 - bound,
                       !.probs[context] = Moved(probs0[context], 1)] =
                C(range0 - bound, code0 - bound, u, to(1))
          /\ [e EXCEPT !.range = half] = C(half, code0, u, probs0)
          /\ [e EXCEPT !.range = half, !.code = less] = C(half, less, u, probs0)
      <3> HIDE DEF bound, half, less
      <3>1. \A y : [e EXCEPT !.range = y] = C(y, code0, u, probs0)
        OBVIOUS
      <3>2. \A y, z : [C(y, code0, u, probs0) EXCEPT !.code = z] = C(y, z, u, probs0)
        OBVIOUS
      <3>3. \A y, z, q : [C(y, z, u, probs0) EXCEPT !.probs = q] = C(y, z, u, q)
        OBVIOUS
      <3>4. [e EXCEPT !.range = half, !.code = less] = C(half, less, u, probs0)
        BY <3>1, <3>2
      <3>5. [e EXCEPT !.range = bound, !.probs = to(0)] = C(bound, code0, u, to(0))
        <4> HIDE DEF to
        <4>1. [e EXCEPT !.range = bound] = C(bound, code0, u, probs0)
          BY <3>1
        <4>2. [C(bound, code0, u, probs0) EXCEPT !.probs = to(0)] = C(bound, code0, u, to(0))
          OBVIOUS
        <4> QED
          BY <4>1, <4>2
      <3>6. [e EXCEPT !.range = range0 - bound, !.code = code0 - bound, !.probs = to(1)] =
                C(range0 - bound, code0 - bound, u, to(1))
        <4> HIDE DEF to
        <4> DEFINE y == range0 - bound
                   z == code0 - bound
        <4>1. [e EXCEPT !.range = y] = C(y, code0, u, probs0)
          BY <3>1
        <4>2. [C(y, code0, u, probs0) EXCEPT !.code = z] = C(y, z, u, probs0)
          BY <3>2
        <4> HIDE DEF y, z
        <4>3. [C(y, z, u, probs0) EXCEPT !.probs = to(1)] = C(y, z, u, to(1))
          OBVIOUS
        <4>4. [e EXCEPT !.range = y, !.code = z, !.probs = to(1)] = C(y, z, u, to(1))
          BY <4>1, <4>2, <4>3
        <4> QED
          BY <4>4 DEF y, z
      <3>7. [e EXCEPT !.range = bound, !.probs[context] = Moved(probs0[context], 0)] =
              [e EXCEPT !.range = bound, !.probs = to(0)]
        BY <2>1
      <3>8. [e EXCEPT !.range = range0 - bound, !.code = code0 - bound,
                      !.probs[context] = Moved(probs0[context], 1)] =
              [e EXCEPT !.range = range0 - bound, !.code = code0 - bound, !.probs = to(1)]
        BY <2>1
      <3> HIDE DEF e, C, to
      <3> QED
        BY <3>1, <3>4, <3>5, <3>6, <3>7, <3>8
    <2>3. AdaptiveBit(e, context) =
            IF e.code < NewBound(e.range, e.probs[context])
            THEN [bit |-> 0,
                  coder |-> [e EXCEPT !.range = NewBound(e.range, e.probs[context]),
                                      !.probs[context] = Moved(e.probs[context], 0)]]
            ELSE [bit |-> 1,
                  coder |-> [e EXCEPT !.range = e.range - NewBound(e.range, e.probs[context]),
                                      !.code = e.code - NewBound(e.range, e.probs[context]),
                                      !.probs[context] = Moved(e.probs[context], 1)]]
      <3> HIDE DEF e
      <3> QED
        BY DEF AdaptiveBit
    <2>4. DirectBit(e) =
            IF (e.code - (e.range \div 2)) % Word >= Word \div 2
            THEN [bit |-> 0, coder |-> [e EXCEPT !.range = e.range \div 2]]
            ELSE [bit |-> 1, coder |-> [e EXCEPT !.range = e.range \div 2,
                                                 !.code = (e.code - (e.range \div 2)) % Word]]
      <3> HIDE DEF e
      <3> QED
        BY DEF DirectBit
    <2> HIDE DEF e, C, to
    <2> QED
      BY <2>1, <2>2, <2>3, <2>4 DEF e
  <1>4. \A u : /\ bound0(u).bit = 0 /\ bound0(u).coder = C(bound, code0, u, to(0))
               /\ bound1(u).bit = 1
               /\ bound1(u).coder = C(range0 - bound, code0 - bound, u, to(1))
               /\ half0(u).bit = 0 /\ half0(u).coder = C(half, code0, u, probs0)
               /\ half1(u).bit = 1 /\ half1(u).coder = C(half, less, u, probs0)
    OBVIOUS
  <1> HIDE DEF bound0, bound1, half0, half1, C, to, half, less, bound
  <1>5. Shifted(c, off) = s
    BY <1>1
  <1>6. /\ DirectBit(s).bit = DirectBit(c).bit
        /\ DirectBit(s).coder = Shifted(DirectBit(c).coder, off)
    BY <1>1, <1>2, <1>4
  <1>7. /\ AdaptiveBit(s, context).bit = AdaptiveBit(c, context).bit
        /\ AdaptiveBit(s, context).coder = Shifted(AdaptiveBit(c, context).coder, off)
    BY <1>1, <1>2, <1>4
  <1> QED
    BY <1>5, <1>6, <1>7 DEF C

(* A moved coder decodes the same bits.                                     *)
LEMMA BitsShifted ==
    ASSUME NEW c \in Coders, NEW off \in Nat
    PROVE  /\ DirectBit(Shifted(c, off)).bit = DirectBit(c).bit
           /\ DirectBit(Shifted(c, off)).coder = Shifted(DirectBit(c).coder, off)
           /\ \A context \in AllContexts :
                /\ AdaptiveBit(Shifted(c, off), context).bit = AdaptiveBit(c, context).bit
                /\ AdaptiveBit(Shifted(c, off), context).coder =
                        Shifted(AdaptiveBit(c, context).coder, off)
  <1> DEFINE s == [range |-> c.range, code |-> c.code, buf |-> off + c.buf, probs |-> c.probs]
             k == [range |-> c.range, code |-> c.code, buf |-> c.buf, probs |-> c.probs]
  <1>1. \A context : /\ Shifted(k, off) = s
                     /\ DirectBit(s).bit = DirectBit(k).bit
                     /\ DirectBit(s).coder = Shifted(DirectBit(k).coder, off)
                     /\ AdaptiveBit(s, context).bit = AdaptiveBit(k, context).bit
                     /\ AdaptiveBit(s, context).coder = Shifted(AdaptiveBit(k, context).coder, off)
    BY FieldsShifted
  <1>2. k = c
    BY CoderFields
  <1> HIDE DEF k, s
  <1> QED
    BY <1>1, <1>2

(* ... and it takes some of the interval.                                   *)
LEMMA BitsTake ==
    ASSUME NEW c \in Coders, c.range \in Intervals
    PROVE  /\ DirectBit(c).coder.range < c.range
           /\ \A context \in AllContexts : AdaptiveBit(c, context).coder.range < c.range
  <1>1. c.range \in Nat \ {0} /\ kTopValue <= c.range
    BY Sizes DEF Intervals
  <1>2. DirectBit(c).coder.range < c.range
    <2>1. DirectBit(c).coder.range = c.range \div 2
      BY DEF DirectBit, Coders
    <2>2. c.range \div 2 < c.range
      BY <1>1
    <2> QED
      BY <2>1, <2>2
  <1>3. ASSUME NEW context \in AllContexts
        PROVE  AdaptiveBit(c, context).coder.range < c.range
    <2> DEFINE prob == c.probs[context]
               K == kBitModelTotal
               q == c.range \div K
               m == MoveScale - 1
               bound == NewBound(c.range, prob)
    <2>1. K \in Nat \ {0} /\ m \in Nat \ {0} /\ prob \in m .. K - m /\ K <= kTopValue
      <3>1. prob \in Probabilities
        BY DEF Coders
      <3> QED
        BY <3>1, Sizes, BitModelAssumption DEF Probabilities
    <2>2. q \in Nat /\ q * K <= c.range
      <3>1. c.range <= c.range
        BY <1>1
      <3> QED
        BY <1>1, <2>1, <3>1, Quotients
    <2>3. q >= 1
      <3>1. K \div K <= c.range \div K
        <4>1. K \in Nat /\ K <= c.range
          BY <1>1, <2>1, Sizes
        <4> HIDE DEF K
        <4> QED
          BY <1>1, <2>1, <4>1, Quotients
      <3>2. K \div K = 1
        BY <2>1
      <3> QED
        BY <3>1, <3>2
    <2>4. bound = q * prob
      BY DEF NewBound
    <2>5. \/ AdaptiveBit(c, context).coder.range = bound
          \/ AdaptiveBit(c, context).coder.range = c.range - bound
      BY DEF AdaptiveBit, Coders
    <2> HIDE DEF q, K, m, prob, bound
    <2>6. q * prob >= 1 * prob /\ q * prob \in Nat
      BY <2>1, <2>2, <2>3
    <2>7. q * prob <= q * K - q * m
      <3>1. q * prob <= q * (K - m)
        BY <2>1, <2>2
      <3>2. q * (K - m) = q * K - q * m
        BY <2>1, <2>2
      <3> QED
        BY <3>1, <3>2
    <2>8. q * m >= 1
      BY <2>1, <2>2, <2>3
    <2>9. q * prob < q * K /\ q * prob > 0
      <3>1. q * K \in Int /\ q * m \in Int
        BY <2>1, <2>2
      <3>2. prob > 0
        BY <2>1
      <3> QED
        BY <2>1, <2>6, <2>7, <2>8, <3>1, <3>2
    <2> QED
      BY <1>1, <2>1, <2>2, <2>4, <2>5, <2>6, <2>9
  <1> QED
    BY <1>2, <1>3

(* Where a decoder can be within a symbol.                                  *)
Walkings == {at \in [w : WalkTypes, coder : Coders] : WalkOK(at.w)}

(* One decision on.                                                         *)
LEMMA DecidedIs ==
    ASSUME NEW d, KnownOK(d), NEW at \in Walkings, ~Done(at.w), NEW b \in Seq(Bytes)
    PROVE  /\ Decided(d, at, b) \in Walkings
           /\ Decided(d, at, b).coder.buf = Normalized(at.coder, b).buf
           /\ Decided(d, at, b).coder.range < Normalized(at.coder, b).range
           /\ Place(Decided(d, at, b).w) > Place(at.w)
  <1> DEFINE n == Normalized(at.coder, b)
             context == ContextOf(d, at.w)
             step == IF context = << >> THEN DirectBit(n) ELSE AdaptiveBit(n, context)
             v == Took(d, at.w, step.bit)
  <1>1. Decided(d, at, b) = [w |-> v, coder |-> step.coder]
    BY DEF Decided
  <1>2. WalkOK(at.w) /\ at.coder \in Coders
    BY DEF Walkings
  <1>3. n \in Coders /\ n.range \in Intervals
    BY <1>2, NormalizedIs DEF Bytes
  <1> HIDE DEF n
  <1>4. /\ step.bit \in {0, 1} /\ step.coder \in Coders
        /\ step.coder.range < n.range /\ step.coder.buf = n.buf
    <2>1. CASE at.w.at = "direct"
      <3>1. context = << >>
        BY <1>2, <2>1, ContextIs
      <3>2. step = DirectBit(n)
        BY <3>1
      <3> HIDE DEF step
      <3> QED
        BY <1>3, <3>2, DirectShrinks, BitsTake
    <2>2. CASE at.w.at # "direct"
      <3>1. context \in AllContexts /\ context # << >>
        BY <1>2, <2>2, ContextIs
      <3>2. step = AdaptiveBit(n, context)
        BY <3>1
      <3> HIDE DEF step, context
      <3> QED
        BY <1>3, <3>1, <3>2, AdaptiveShrinks, BitsTake
    <2> QED
      BY <2>1, <2>2
  <1> HIDE DEF step
  <1>5. LeadsTo(at.w, v)
    BY <1>2, <1>4, TookLeads
  <1>6. WalkOK(v) /\ Place(v) > Place(at.w) /\ v \in WalkTypes
    <2>1. WalkOK(v) /\ Place(at.w) \in 0 .. MaxDecisions - 1
          /\ Place(v) \in Place(at.w) + 1 .. MaxDecisions
      BY <1>5 DEF LeadsTo
    <2> QED
      BY <2>1, DecisionCounts DEF WalkOK
  <1> HIDE DEF v
  <1>7. [w |-> v, coder |-> step.coder] \in Walkings
    BY <1>4, <1>6 DEF Walkings
  <1> QED
    BY <1>1, <1>4, <1>6, <1>7 DEF n

(* A walk over the tree of the decisions may start with any coder.          *)
LEMMA StartIsWalking ==
    ASSUME NEW c \in Coders
    PROVE  [w |-> WalkStart, coder |-> c] \in Walkings
  <1>1. WalkOK(WalkStart)
    <2>1. << >> \in Seq(0 .. Base - 1)
      OBVIOUS
    <2> QED
      BY <2>1, StartOnTheWay DEF OnTheWay
  <1> QED
    BY <1>1 DEF Walkings, WalkOK

(* Two walks of the same symbol, side by side: what holds of where they     *)
(* start and is kept by a decision of either holds of where they end.       *)
KeptOn(T, d, c, e, x, b) ==
    /\ T \subseteq Walkings \X Walkings
    /\ <<[w |-> WalkStart, coder |-> c], [w |-> WalkStart, coder |-> e]>> \in T
    /\ \A at \in T : <<Stepped(d, at[1], x), Stepped(d, at[2], b)>> \in T

EndIn(T, d, c, e, x, b) ==
    \E y, z : /\ SymbolWalks(d, c, x) = {y} /\ Ends(y, c, x)
              /\ SymbolWalks(d, e, b) = {z} /\ Ends(z, e, b)
              /\ <<y, z>> \in T

(* Two walks that each step keeps in relation T end in relation T.          *)
LEMMA SideBySide ==
    ASSUME NEW d, KnownOK(d), NEW c \in Coders, NEW e \in Coders,
           NEW x \in Seq(Bytes), NEW b \in Seq(Bytes), NEW T, KeptOn(T, d, c, e, x, b)
    PROVE  EndIn(T, d, c, e, x, b)
  <1>0. \A c0, x0 : \E f :
            /\ f[0] = {[w |-> WalkStart, coder |-> c0]}
            /\ \A n \in 0 .. MaxDecisions - 1 : f[n + 1] = AllStepped(d, f[n], x0)
            /\ SymbolWalks(d, c0, x0) = f[MaxDecisions]
    BY SymbolWalksIs
  <1>1. PICK f :
            /\ f[0] = {[w |-> WalkStart, coder |-> c]}
            /\ \A n \in 0 .. MaxDecisions - 1 : f[n + 1] = AllStepped(d, f[n], x)
            /\ SymbolWalks(d, c, x) = f[MaxDecisions]
    BY ONLY <1>0
  <1>2. PICK g :
            /\ g[0] = {[w |-> WalkStart, coder |-> e]}
            /\ \A n \in 0 .. MaxDecisions - 1 : g[n + 1] = AllStepped(d, g[n], b)
            /\ SymbolWalks(d, e, b) = g[MaxDecisions]
    BY ONLY <1>0
  <1>a. /\ <<[w |-> WalkStart, coder |-> c], [w |-> WalkStart, coder |-> e]>> \in T
        /\ \A at \in T : <<Stepped(d, at[1], x), Stepped(d, at[2], b)>> \in T
    BY DEF KeptOn
  <1> DEFINE Both(n) == \E y, z : f[n] = {y} /\ g[n] = {z} /\ <<y, z>> \in T
             S == {n \in Nat : n <= MaxDecisions => Both(n)}
  <1>3. 0 \in S
    BY <1>a, <1>1, <1>2
  <1>4. \A n \in S \cap Nat : n + 1 \in S
    <2> SUFFICES ASSUME NEW n \in S, n + 1 <= MaxDecisions PROVE Both(n + 1)
      <3> HIDE DEF Both
      <3> QED
        OBVIOUS
    <2>1. n \in Nat /\ n \in 0 .. MaxDecisions - 1 /\ n <= MaxDecisions
      BY DecisionCounts
    <2>2. PICK y, z : f[n] = {y} /\ g[n] = {z} /\ <<y, z>> \in T
      BY <2>1
    <2>3. f[n + 1] = AllStepped(d, f[n], x) /\ g[n + 1] = AllStepped(d, g[n], b)
      BY <1>1, <1>2, <2>1
    <2>4. f[n + 1] = {Stepped(d, y, x)} /\ g[n + 1] = {Stepped(d, z, b)}
      BY <2>2, <2>3 DEF AllStepped
    <2>5. <<Stepped(d, y, x), Stepped(d, z, b)>> \in T
      <3>1. <<y, z>>[1] = y /\ <<y, z>>[2] = z
        OBVIOUS
      <3> QED
        BY <1>a, <2>2, <3>1
    <2> QED
      BY <2>4, <2>5
  <1> HIDE DEF S
  <1>5. MaxDecisions \in S
    BY <1>3, <1>4, NaturalInduction, DecisionCounts
  <1>6. Both(MaxDecisions)
    <2> HIDE DEF Both
    <2> QED
      BY <1>5, DecisionCounts DEF S
  <1>7. PICK y, z : f[MaxDecisions] = {y} /\ g[MaxDecisions] = {z} /\ <<y, z>> \in T
    BY <1>6
  <1>8. Ends(y, c, x)
    <2>1. PICK u : SymbolWalks(d, c, x) = {u} /\ Ends(u, c, x)
      BY WalkEnds DEF Bytes
    <2> QED
      BY <1>1, <1>7, <2>1
  <1>9. Ends(z, e, b)
    <2>1. PICK u : SymbolWalks(d, e, b) = {u} /\ Ends(u, e, b)
      BY WalkEnds DEF Bytes
    <2> QED
      BY <1>2, <1>7, <2>1
  <1> QED
    BY <1>1, <1>2, <1>7, <1>8, <1>9 DEF EndIn

(* A walk along a piece of the input and one along the whole: they are at   *)
(* the same place as long as the piece holds what was read, ...             *)
Together(y, z, x, b, off) ==
    /\ y.w = z.w /\ Normalized(z.coder, b) = Normalized(Shifted(y.coder, off), b)
    /\ Normalized(y.coder, x).buf <= Len(x)

(* ... and both have left it when either has.                               *)
Apart(y, z, x, b, off) ==
    Normalized(y.coder, x).buf > Len(x) /\ Normalized(z.coder, b).buf > off + Len(x)

(* Over a piece and over the whole of the input the walks stay together     *)
(* as long as the piece lasts.                                              *)
LEMMA TogetherOn ==
    ASSUME NEW d, KnownOK(d), NEW x \in Seq(Bytes), NEW b \in Seq(Bytes), NEW off \in Nat,
           PieceOf(x, b, off), NEW y \in Walkings, NEW z \in Walkings,
           Together(y, z, x, b, off), ~Done(y.w)
    PROVE  LET u == Decided(d, y, x)
               v == Decided(d, z, b)
           IN  Together(u, v, x, b, off) \/ Apart(u, v, x, b, off)
  <1> DEFINE u == Decided(d, y, x)
             v == Decided(d, z, b)
             n == Normalized(y.coder, x)
             m == Normalized(z.coder, b)
             context == ContextOf(d, y.w)
             step == IF context = << >> THEN DirectBit(n) ELSE AdaptiveBit(n, context)
             also == IF context = << >> THEN DirectBit(m) ELSE AdaptiveBit(m, context)
  <1>1. y.coder \in Coders /\ z.coder \in Coders /\ y.w = z.w /\ WalkOK(y.w)
    BY DEF Walkings, Together
  <1>2. n \in Coders /\ n.range \in Intervals
    BY <1>1, NormalizedIs DEF Bytes
  <1>3. m = Shifted(n, off)
    BY <1>1, NormalizedShifted DEF Together
  <1>4. /\ u = [w |-> Took(d, y.w, step.bit), coder |-> step.coder]
        /\ v = [w |-> Took(d, y.w, also.bit), coder |-> also.coder]
    BY <1>1 DEF Decided
  <1>5. context = << >> \/ context \in AllContexts
    BY <1>1, ContextIs
  <1> HIDE DEF n, m, context
  <1>6. also.bit = step.bit /\ also.coder = Shifted(step.coder, off)
    BY <1>2, <1>3, <1>5, BitsShifted
  <1> HIDE DEF step, also
  <1>7. v.w = u.w /\ v.coder = Shifted(u.coder, off)
    BY <1>4, <1>6
  <1>8. u \in Walkings
    BY DecidedIs
  <1> HIDE DEF u, v
  <1>9. u.coder \in Coders
    BY <1>8 DEF Walkings
  <1>10. /\ Normalized(v.coder, b).buf = off + Normalized(u.coder, x).buf
         /\ Normalized(u.coder, x).buf \in Nat /\ Len(x) \in Nat
    BY <1>7, <1>9, NormalizedShifted
  <1>11. Together(u, v, x, b, off) \/ Apart(u, v, x, b, off)
    <2>1. CASE Normalized(u.coder, x).buf <= Len(x)
      BY <1>7, <2>1 DEF Together
    <2>2. CASE Normalized(u.coder, x).buf > Len(x)
      BY <1>10, <2>2 DEF Apart
    <2> QED
      BY <1>10, <2>1, <2>2
  <1> QED
    BY <1>11 DEF u, v

(* A coder does not go back.                                                *)
LEMMA BufferGrows ==
    ASSUME NEW d, KnownOK(d), NEW y \in Walkings, NEW b \in Seq(Bytes)
    PROVE  /\ Stepped(d, y, b) \in Walkings
           /\ Normalized(y.coder, b).buf \in Nat
           /\ Normalized(Stepped(d, y, b).coder, b).buf \in Nat
           /\ Normalized(y.coder, b).buf <= Normalized(Stepped(d, y, b).coder, b).buf
  <1>1. CASE Done(y.w)
    <2>1. Stepped(d, y, b) = y /\ y.coder \in Coders
      BY <1>1 DEF Stepped, Walkings
    <2>2. Normalized(y.coder, b) \in Coders
      BY <2>1, NormalizedIs DEF Bytes
    <2> QED
      BY <2>1, <2>2 DEF Coders
  <1>2. CASE ~Done(y.w)
    <2> DEFINE u == Decided(d, y, b)
    <2>1. u \in Walkings /\ u.coder.buf = Normalized(y.coder, b).buf
      BY <1>2, DecidedIs
    <2>2. Stepped(d, y, b) = u
      BY <1>2 DEF Stepped
    <2> HIDE DEF u
    <2>3. u.coder \in Coders
      BY <2>1 DEF Walkings
    <2>4. /\ Normalized(u.coder, b).buf =
                IF u.coder.range >= kTopValue THEN u.coder.buf ELSE u.coder.buf + 1
          /\ u.coder.buf \in Nat
      BY <2>3, NormalizedIs DEF Bytes, Coders
    <2> QED
      BY <2>1, <2>2, <2>4
  <1> QED
    BY <1>1, <1>2

(* So a symbol is read from a piece of the input as from the whole, or the  *)
(* piece does not hold it.                                                  *)
LEMMA PieceWalk ==
    ASSUME NEW d, KnownOK(d), NEW c \in Coders, NEW e \in Coders,
           NEW x \in Seq(Bytes), NEW b \in Seq(Bytes), NEW off \in Nat, PieceOf(x, b, off),
           Normalized(e, b) = Normalized(Shifted(c, off), b)
    PROVE  \E y, z : /\ SymbolWalks(d, c, x) = {y} /\ Ends(y, c, x)
                     /\ SymbolWalks(d, e, b) = {z} /\ Ends(z, e, b)
                     /\ Together(y, z, x, b, off) \/ Apart(y, z, x, b, off)
  <1> DEFINE T == {at \in Walkings \X Walkings :
                      Together(at[1], at[2], x, b, off) \/ Apart(at[1], at[2], x, b, off)}
             y0 == [w |-> WalkStart, coder |-> c]
             z0 == [w |-> WalkStart, coder |-> e]
  <1>1. y0 \in Walkings /\ z0 \in Walkings
    BY StartIsWalking
  <1>2. Together(y0, z0, x, b, off) \/ Apart(y0, z0, x, b, off)
    <2>1. /\ Normalized(e, b).buf = off + Normalized(c, x).buf
          /\ Normalized(c, x).buf \in Nat /\ Len(x) \in Nat
      BY NormalizedShifted
    <2>2. y0.w = z0.w /\ y0.coder = c /\ z0.coder = e
      OBVIOUS
    <2> HIDE DEF y0, z0
    <2>3. CASE Normalized(c, x).buf <= Len(x)
      BY <2>2, <2>3 DEF Together
    <2>4. CASE Normalized(c, x).buf > Len(x)
      BY <2>1, <2>2, <2>4 DEF Apart
    <2> QED
      BY <2>1, <2>3, <2>4
  <1> HIDE DEF y0, z0
  <1>3. <<y0, z0>> \in T
    BY <1>1, <1>2
  <1>4. \A at \in T : <<Stepped(d, at[1], x), Stepped(d, at[2], b)>> \in T
    <2> SUFFICES ASSUME NEW y \in Walkings, NEW z \in Walkings,
                        Together(y, z, x, b, off) \/ Apart(y, z, x, b, off)
                 PROVE  <<Stepped(d, y, x), Stepped(d, z, b)>> \in T
      OBVIOUS
    <2> DEFINE u == Stepped(d, y, x)
               v == Stepped(d, z, b)
    <2>1. /\ u \in Walkings /\ v \in Walkings
          /\ Normalized(y.coder, x).buf \in Nat /\ Normalized(u.coder, x).buf \in Nat
          /\ Normalized(z.coder, b).buf \in Nat /\ Normalized(v.coder, b).buf \in Nat
          /\ Normalized(y.coder, x).buf <= Normalized(u.coder, x).buf
          /\ Normalized(z.coder, b).buf <= Normalized(v.coder, b).buf
      BY BufferGrows
    <2>2. Together(u, v, x, b, off) \/ Apart(u, v, x, b, off)
      <3>1. CASE Apart(y, z, x, b, off)
        <4> HIDE DEF u, v
        <4>1. Len(x) \in Nat
          BY LenProperties
        <4> QED
          BY <2>1, <3>1, <4>1 DEF Apart
      <3>2. CASE Together(y, z, x, b, off) /\ Done(y.w)
        <4>1. u = y /\ v = z
          BY <3>2 DEF Stepped, Together
        <4> QED
          BY <3>2, <4>1
      <3>3. CASE Together(y, z, x, b, off) /\ ~Done(y.w)
        <4>1. u = Decided(d, y, x) /\ v = Decided(d, z, b)
          BY <3>3 DEF Stepped, Together
        <4> HIDE DEF u, v
        <4> QED
          BY <3>3, <4>1, TogetherOn
      <3> QED
        BY <3>1, <3>2, <3>3
    <2> HIDE DEF u, v
    <2>3. <<u, v>> \in T
      BY <2>1, <2>2
    <2> QED
      BY <2>3 DEF u, v
  <1>5. \E y, z : /\ SymbolWalks(d, c, x) = {y} /\ Ends(y, c, x)
                  /\ SymbolWalks(d, e, b) = {z} /\ Ends(z, e, b)
                  /\ <<y, z>> \in T
    <2>1. T \subseteq Walkings \X Walkings
      OBVIOUS
    <2>2. <<[w |-> WalkStart, coder |-> c], [w |-> WalkStart, coder |-> e]>> \in T
      BY <1>3 DEF y0, z0
    <2>3. KeptOn(T, d, c, e, x, b)
      BY <1>4, <2>1, <2>2 DEF KeptOn
    <2> HIDE DEF T
    <2>4. EndIn(T, d, c, e, x, b)
      BY <2>3, SideBySide
    <2> QED
      BY <2>4 DEF EndIn
  <1> QED
    BY <1>5

(* A symbol takes a part of the interval, or a byte of the input.           *)
Further(e, c) == c.buf < e.buf \/ (c.buf = e.buf /\ e.range < c.range)

(* Every decision takes some of the interval, or a byte.                    *)
LEMMA DecisionTakes ==
    ASSUME NEW d, KnownOK(d), NEW y \in Walkings, ~Done(y.w), NEW b \in Seq(Bytes)
    PROVE  /\ Normalized(Decided(d, y, b).coder, b) \in Coders
           /\ Normalized(y.coder, b) \in Coders
           /\ Further(Normalized(Decided(d, y, b).coder, b), Normalized(y.coder, b))
  <1> DEFINE u == Decided(d, y, b)
             n == Normalized(y.coder, b)
             m == Normalized(u.coder, b)
  <1>1. u \in Walkings /\ u.coder.buf = n.buf /\ u.coder.range < n.range
    BY DecidedIs
  <1> HIDE DEF u
  <1>2. y.coder \in Coders /\ u.coder \in Coders
    BY <1>1 DEF Walkings
  <1>3. /\ n \in Coders /\ m \in Coders
        /\ m.range = IF u.coder.range >= kTopValue THEN u.coder.range ELSE u.coder.range * Base
        /\ m.buf = IF u.coder.range >= kTopValue THEN u.coder.buf ELSE u.coder.buf + 1
    BY <1>2, NormalizedIs DEF Bytes
  <1> HIDE DEF n, m
  <1>4. n.buf \in Nat
    BY <1>3 DEF Coders
  <1>5. Further(m, n)
    BY <1>1, <1>3, <1>4 DEF Further
  <1> QED
    BY <1>3, <1>5 DEF n, m, u

(* Further is transitive.                                                   *)
LEMMA FurtherOn ==
    ASSUME NEW c \in Coders, NEW e \in Coders, NEW f \in Coders, Further(e, c), Further(f, e)
    PROVE  Further(f, c)
  <1>1. /\ c.buf \in Int /\ e.buf \in Int /\ f.buf \in Int
        /\ c.range \in Int /\ e.range \in Int /\ f.range \in Int
    BY Sizes DEF Coders
  <1> QED
    BY <1>1 DEF Further

(* So a whole symbol does.                                                  *)
LEMMA SymbolTakes ==
    ASSUME NEW d, KnownOK(d), NEW c \in Coders, NEW b \in Seq(Bytes),
           NEW y, SymbolWalks(d, c, b) = {y}
    PROVE  /\ Ends(y, c, b) /\ Normalized(y.coder, b) \in Coders /\ Normalized(c, b) \in Coders
           /\ Further(Normalized(y.coder, b), Normalized(c, b))
  <1> DEFINE start == [w |-> WalkStart, coder |-> c]
             Taken(u) == u = start \/ Further(Normalized(u.coder, b), Normalized(c, b))
             T == {at \in Walkings \X Walkings : Taken(at[1])}
  <1>1. start \in Walkings /\ ~Done(start.w)
    BY StartIsWalking DEF WalkStart, Done
  <1> HIDE DEF start
  <1>2. T \subseteq Walkings \X Walkings /\ <<start, start>> \in T
    BY <1>1
  <1>3. \A at \in T : <<Stepped(d, at[1], b), Stepped(d, at[2], b)>> \in T
    <2> SUFFICES ASSUME NEW u \in Walkings, NEW v \in Walkings, Taken(u)
                 PROVE  <<Stepped(d, u, b), Stepped(d, v, b)>> \in T
      OBVIOUS
    <2>1. Stepped(d, u, b) \in Walkings /\ Stepped(d, v, b) \in Walkings
      BY BufferGrows
    <2>2. Taken(Stepped(d, u, b))
      <3>1. CASE Done(u.w)
        <4>1. Stepped(d, u, b) = u
          BY <3>1 DEF Stepped
        <4> QED
          BY <4>1
      <3>2. CASE ~Done(u.w)
        <4> DEFINE n == Normalized(u.coder, b)
                   m == Normalized(Decided(d, u, b).coder, b)
                   k == Normalized(c, b)
        <4>1. Stepped(d, u, b) = Decided(d, u, b)
          BY <3>2 DEF Stepped
        <4>2. m \in Coders /\ n \in Coders /\ Further(m, n)
          BY <3>2, DecisionTakes
        <4>3. k \in Coders
          BY NormalizedIs DEF Bytes
        <4>4. n = k \/ Further(n, k)
          BY DEF start
        <4> HIDE DEF n, m, k
        <4>5. Further(m, k)
          BY <4>2, <4>3, <4>4, FurtherOn
        <4> QED
          BY <4>1, <4>5 DEF m, k
      <3> QED
        BY <3>1, <3>2
    <2> HIDE DEF Taken
    <2>3. \A p1 \in Walkings, p2 \in Walkings : Taken(p1) => <<p1, p2>> \in T
      OBVIOUS
    <2> QED
      BY <2>1, <2>2, <2>3
  <1> HIDE DEF T
  <1>4. <<[w |-> WalkStart, coder |-> c], [w |-> WalkStart, coder |-> c]>> \in T
    BY <1>2 DEF start
  <1>5. \E u, v : /\ SymbolWalks(d, c, b) = {u} /\ Ends(u, c, b)
                  /\ SymbolWalks(d, c, b) = {v} /\ Ends(v, c, b)
                  /\ <<u, v>> \in T
    <2>1. KeptOn(T, d, c, c, b, b)
      BY <1>2, <1>3, <1>4 DEF KeptOn
    <2>2. EndIn(T, d, c, c, b, b)
      BY <2>1, SideBySide
    <2> QED
      BY <2>2 DEF EndIn
  <1>6. PICK v : <<y, v>> \in T /\ Ends(y, c, b)
    BY <1>5
  <1>7. Done(y.w) /\ Taken(y) /\ y \in Walkings
    BY <1>6 DEF T, Ends
  <1>8. Further(Normalized(y.coder, b), Normalized(c, b))
    BY <1>1, <1>7
  <1>9. y.coder \in Coders
    BY <1>7 DEF Walkings
  <1> QED
    BY <1>6, <1>8, <1>9, NormalizedIs DEF Bytes

(* The reading of the bytes is the function that its recursive definition   *)
(* describes.                                                               *)
LEMMA ReadingsAre ==
    ASSUME NEW b \in Seq(Bytes)
    PROVE  /\ MostSymbols(b) \in Nat
           /\ Readings(b)[0] = Beginning(b)
           /\ \A n \in 0 .. MostSymbols(b) - 1 :
                Readings(b)[n + 1] = ReadSymbol(b, Readings(b)[n])
  <1> DEFINE most == MostSymbols(b)
             start == Beginning(b)
             Next1(f, n) == ReadSymbol(b, f[n - 1])
             Upto(f, k) == [n \in 0 .. k |-> IF n = 0 THEN start ELSE Next1(f, n)]
             S == {k \in Nat : \E f : f = Upto(f, k)}
             Read == CHOOSE f : f = Upto(f, most)
  <1>0. most \in Nat
    <2>1. Len(b) + 1 \in Nat /\ Word \in Nat
      BY Sizes, LenProperties
    <2> QED
      BY <2>1 DEF MostSymbols
  <1>1. 0 \in S
    <2> DEFINE f == [n \in 0 .. 0 |-> start]
    <2>1. f = Upto(f, 0)
      OBVIOUS
    <2> QED
      BY <2>1
  <1>2. \A k \in S \cap Nat : k + 1 \in S
    <2> SUFFICES ASSUME NEW k \in Nat, NEW f, f = Upto(f, k) PROVE k + 1 \in S
      OBVIOUS
    <2> DEFINE g == [n \in 0 .. k + 1 |-> IF n <= k THEN f[n] ELSE Next1(f, k + 1)]
    <2>1. \A n \in 0 .. k + 1 : n # 0 => Next1(g, n) = Next1(f, n)
      <3> SUFFICES ASSUME NEW n \in 0 .. k + 1, n # 0 PROVE g[n - 1] = f[n - 1]
        OBVIOUS
      <3> HIDE DEF Next1
      <3> QED
        OBVIOUS
    <2>2. \A n \in 0 .. k : f[n] = IF n = 0 THEN start ELSE Next1(f, n)
      <3> HIDE DEF start, Next1
      <3> QED
        OBVIOUS
    <2> HIDE DEF start, Next1
    <2>3. g = Upto(g, k + 1)
      <3>1. \A n \in 0 .. k + 1 :
                (IF n <= k THEN f[n] ELSE Next1(f, k + 1)) = IF n = 0 THEN start ELSE Next1(g, n)
        <4> HIDE DEF g
        <4> SUFFICES ASSUME NEW n \in 0 .. k + 1
                     PROVE  (IF n <= k THEN f[n] ELSE Next1(f, k + 1))
                                = IF n = 0 THEN start ELSE Next1(g, n)
          OBVIOUS
        <4>1. CASE n <= k
          <5>1. n \in 0 .. k
            BY <4>1
          <5> QED
            BY <2>1, <2>2, <4>1, <5>1
        <4>2. CASE ~(n <= k)
          <5>1. n = k + 1 /\ n # 0
            BY <4>2
          <5> QED
            BY <2>1, <4>2, <5>1
        <4> QED
          BY <4>1, <4>2
      <3> QED
        BY <3>1
    <2> HIDE DEF g
    <2>4. \E h : h = Upto(h, k + 1)
      BY <2>3
    <2> QED
      BY <2>4
  <1> HIDE DEF S
  <1>3. most \in S
    BY <1>0, <1>1, <1>2, NaturalInduction
  <1>4. \E f : f = Upto(f, most)
    BY <1>3 DEF S
  <1>5. Readings(b) = Read
    BY DEF Readings
  <1> HIDE DEF start, Next1, most
  <1>6. Read = Upto(Read, most)
    BY <1>4
  <1> HIDE DEF Read
  <1>7. \A n \in 0 .. most : Read[n] = IF n = 0 THEN start ELSE Next1(Read, n)
    BY <1>6
  <1>8. Read[0] = start
    BY <1>0, <1>7
  <1>9. \A n \in 0 .. most - 1 : Read[n + 1] = Next1(Read, n + 1)
    BY <1>0, <1>7
  <1>10. \A n \in Int : (n + 1) - 1 = n
    OBVIOUS
  <1>11. \A n \in 0 .. most - 1 : Read[n + 1] = ReadSymbol(b, Read[n])
    BY <1>9, <1>10 DEF Next1
  <1> QED
    BY <1>0, <1>5, <1>8, <1>11 DEF start, most

(* The text that a copy makes is the one its recursive definition describes. *)
Grown(f, t, last, len) ==
    /\ f[0] = t
    /\ \A k \in 0 .. len - 1 : f[k + 1] = Append(f[k], f[k][Len(t) + (k + 1) - 1 - last])

(* What a symbol makes of the text, without its recursive function.         *)
LEMMA TextAfterIs ==
    ASSUME NEW t, NEW last, NEW sym, sym.len \in Nat
    PROVE  /\ sym.pos = -1 => TextAfter(t, last, sym) = Append(t, sym.byte)
           /\ sym.pos = EndMark => TextAfter(t, last, sym) = t
           /\ sym.pos \notin {-1, EndMark} =>
                \E f : Grown(f, t, last, sym.len) /\ TextAfter(t, last, sym) = f[sym.len]
  <1> DEFINE len == sym.len
             Next1(f, k) == Append(f[k - 1], f[k - 1][Len(t) + k - 1 - last])
             Upto(f, m) == [k \in 0 .. m |-> IF k = 0 THEN t ELSE Next1(f, k)]
             S == {m \in Nat : \E f : f = Upto(f, m)}
             Text == CHOOSE f : f = Upto(f, len)
  <1>1. 0 \in S
    <2> DEFINE f == [k \in 0 .. 0 |-> t]
    <2>1. f = Upto(f, 0)
      OBVIOUS
    <2> QED
      BY <2>1
  <1>2. \A m \in S \cap Nat : m + 1 \in S
    <2> SUFFICES ASSUME NEW m \in Nat, NEW f, f = Upto(f, m) PROVE m + 1 \in S
      OBVIOUS
    <2> DEFINE g == [k \in 0 .. m + 1 |-> IF k <= m THEN f[k] ELSE Next1(f, m + 1)]
    <2>1. \A k \in 0 .. m + 1 : k # 0 => Next1(g, k) = Next1(f, k)
      <3> SUFFICES ASSUME NEW k \in 0 .. m + 1, k # 0 PROVE g[k - 1] = f[k - 1]
        OBVIOUS
      <3> HIDE DEF Next1
      <3> QED
        OBVIOUS
    <2>2. \A k \in 0 .. m : f[k] = IF k = 0 THEN t ELSE Next1(f, k)
      <3> HIDE DEF Next1
      <3> QED
        OBVIOUS
    <2> HIDE DEF Next1
    <2>3. g = Upto(g, m + 1)
      BY <2>1, <2>2
    <2> HIDE DEF g
    <2>4. \E h : h = Upto(h, m + 1)
      BY <2>3
    <2> QED
      BY <2>4
  <1> HIDE DEF S
  <1>3. len \in S
    BY <1>1, <1>2, NaturalInduction
  <1>4. \E f : f = Upto(f, len)
    BY <1>3 DEF S
  <1>5. /\ sym.pos = -1 => TextAfter(t, last, sym) = Append(t, sym.byte)
        /\ sym.pos = EndMark => TextAfter(t, last, sym) = t
        /\ sym.pos \notin {-1, EndMark} => TextAfter(t, last, sym) = Text[len]
    BY DEF TextAfter, EndMark
  <1> HIDE DEF Next1
  <1>6. Text = Upto(Text, len)
    BY <1>4
  <1> HIDE DEF Text
  <1>7. \A k \in 0 .. len : Text[k] = IF k = 0 THEN t ELSE Next1(Text, k)
    BY <1>6
  <1>8. Text[0] = t
    BY <1>7
  <1>9. \A k \in 0 .. len - 1 : Text[k + 1] = Next1(Text, k + 1)
    BY <1>7
  <1>10. \A k \in 0 .. len - 1 :
            Text[k + 1] = Append(Text[k], Text[k][Len(t) + (k + 1) - 1 - last])
    <2> SUFFICES ASSUME NEW k \in 0 .. len - 1
                 PROVE  Text[k + 1] = Append(Text[k], Text[k][Len(t) + (k + 1) - 1 - last])
      OBVIOUS
    <2>1. (k + 1) - 1 = k
      OBVIOUS
    <2> QED
      BY <1>9, <2>1 DEF Next1
  <1>11. Grown(Text, t, last, len)
    BY <1>8, <1>10 DEF Grown
  <1> QED
    BY <1>5, <1>11

Prefix(s, t) == Len(s) <= Len(t) /\ \A i \in 1 .. Len(s) : t[i] = s[i]

(* From letter `from' on a text repeats what it has rep0 letters before.    *)
Repeats(t, from, rep0) == \A k \in from .. Len(t) : rep0 < k /\ t[k] = t[k - rep0]

(* A text grown by a match begins with the old one and repeats it.          *)
LEMMA GrownText ==
    ASSUME NEW t \in Seq(Letters), NEW last \in 0 .. Len(t) - 1, NEW len \in Nat,
           NEW f, Grown(f, t, last, len)
    PROVE  /\ f[len] \in Seq(Letters) /\ Len(f[len]) = Len(t) + len
           /\ Prefix(t, f[len]) /\ Repeats(f[len], Len(t) + 1, last + 1)
  <1> DEFINE rep0 == last + 1
             Good(k) == /\ f[k] \in Seq(Letters) /\ Len(f[k]) = Len(t) + k
                        /\ Prefix(t, f[k]) /\ Repeats(f[k], Len(t) + 1, rep0)
             S == {k \in Nat : k <= len => Good(k)}
  <1>0. Len(t) \in Nat /\ last \in Nat /\ last < Len(t) /\ rep0 \in Nat
    BY LenProperties
  <1>1. 0 \in S
    <2>1. f[0] = t
      BY DEF Grown
    <2>2. Good(0)
      BY <1>0, <2>1 DEF Prefix, Repeats
    <2> QED
      BY <2>2
  <1>2. \A k \in S \cap Nat : k + 1 \in S
    <2> SUFFICES ASSUME NEW k \in Nat, k + 1 <= len, k <= len => Good(k) PROVE Good(k + 1)
      <3> HIDE DEF Good
      <3> QED
        OBVIOUS
    <2>1. Good(k) /\ k \in 0 .. len - 1
      OBVIOUS
    <2> DEFINE u == f[k]
               from == Len(t) + (k + 1) - 1 - last
               v == f[k + 1]
    <2>2. v = Append(u, u[from])
      BY <2>1 DEF Grown
    <2>3. from = (Len(t) + k + 1) - rep0 /\ from \in 1 .. Len(t) + k
      BY <1>0
    <2>4. u \in Seq(Letters) /\ Len(u) = Len(t) + k /\ Prefix(t, u)
          /\ Repeats(u, Len(t) + 1, rep0)
      BY <2>1
    <2> HIDE DEF u, v, from
    <2>5. u[from] \in Letters
      BY <2>3, <2>4, ElementOf
    <2>6. /\ v \in Seq(Letters) /\ Len(v) = Len(u) + 1
          /\ \A i \in 1 .. Len(u) : v[i] = u[i]
          /\ v[Len(u) + 1] = u[from]
      <3>1. u \in Seq(Letters) /\ u[from] \in Letters /\ v = Append(u, u[from])
        BY <2>2, <2>4, <2>5
      <3> QED
        BY ONLY <3>1, AppendProperties
    <2>7. Len(v) = Len(t) + (k + 1)
      BY <1>0, <2>4, <2>6
    <2>8. Prefix(t, v)
      BY <1>0, <2>4, <2>6 DEF Prefix
    <2>9. Repeats(v, Len(t) + 1, rep0)
      <3> SUFFICES ASSUME NEW j \in Len(t) + 1 .. Len(v) PROVE rep0 < j /\ v[j] = v[j - rep0]
        BY DEF Repeats
      <3>1. CASE j <= Len(u)
        <4>1. j \in Len(t) + 1 .. Len(u) /\ j - rep0 \in 1 .. Len(u) /\ j \in 1 .. Len(u)
          BY <1>0, <2>4, <3>1 DEF Repeats
        <4> QED
          BY <2>4, <2>6, <4>1 DEF Repeats
      <3>2. CASE ~(j <= Len(u))
        <4>1. j = Len(u) + 1 /\ j - rep0 = from /\ from \in 1 .. Len(u)
          BY <1>0, <2>3, <2>4, <2>6, <3>2
        <4>2. rep0 < j /\ v[j] = u[from] /\ v[j - rep0] = u[from]
          <5>1. rep0 < j
            BY <1>0, <4>1
          <5> QED
            BY <2>6, <4>1, <5>1
        <4> QED
          BY <4>2
      <3> QED
        BY <3>1, <3>2
    <2> QED
      BY <2>6, <2>7, <2>8, <2>9 DEF v
  <1> HIDE DEF S, Good
  <1>3. len \in S
    BY <1>1, <1>2, NaturalInduction
  <1> QED
    BY <1>3 DEF S, Good

(* What a symbol adds to the text: a letter of its own, or letters that are *)
(* already there.                                                           *)
LEMMA SymbolText ==
    ASSUME NEW t \in Seq(Letters), NEW w, WalkOK(w), Done(w), ~Mark(w), NEW rep0,
           w.kind # "literal" => rep0 \in 1 .. Len(t)
    PROVE  LET u == TextAfter(t, rep0 - 1, SymbolOf(w))
           IN  /\ u \in Seq(Letters) /\ Whole(w) \in Nat \ {0}
               /\ Len(u) = Len(t) + Whole(w) /\ Prefix(t, u)
               /\ w.kind = "literal" => Whole(w) = 1 /\ u[Len(t) + 1] = w.i - 2 ^ NumLitBits
               /\ w.kind # "literal" => Repeats(u, Len(t) + 1, rep0)
  <1> DEFINE sym == SymbolOf(w)
             u == TextAfter(t, rep0 - 1, sym)
  <1>1. w.len \in Nat /\ w.kind \in {"literal", "match", "rep", "short"}
    BY MarkLength DEF WalkOK, WalkTypes
  <1>2. Whole(w) \in Nat \ {0} /\ (w.kind = "literal" => Whole(w) = 1)
    BY <1>1 DEF Whole, LZMA_MATCH_LEN_MIN
  <1>3. /\ sym.pos = IF w.kind = "literal" THEN -1 ELSE 0
        /\ sym.len = Whole(w)
        /\ w.kind = "literal" => sym.byte = w.i - 2 ^ NumLitBits
    BY DEF SymbolOf
  <1> HIDE DEF sym
  <1>4. Len(t) \in Nat
    BY LenProperties
  <1>5. CASE w.kind = "literal"
    <2>1. u = Append(t, sym.byte)
      BY <1>2, <1>3, <1>5, TextAfterIs
    <2>2. sym.byte \in Letters
      <3>1. w.i \in Power(NumLitBits) .. Power(NumLitBits + 1) - 1
        BY <1>5 DEF WalkOK, Done
      <3>2. NumLitBits \in 0 .. 31
        BY SymbolSizes
      <3>3. Power(NumLitBits) \in Nat \ {0} /\ Power(NumLitBits + 1) = 2 * Power(NumLitBits)
        BY <3>2, PowersGrow
      <3>4. sym.byte = w.i - Power(NumLitBits)
        BY <1>3, <1>5 DEF Power
      <3> QED
        BY <3>1, <3>3, <3>4 DEF Letters
    <2> HIDE DEF u
    <2>3. /\ u \in Seq(Letters) /\ Len(u) = Len(t) + 1
          /\ \A i \in 1 .. Len(t) : u[i] = t[i]
          /\ u[Len(t) + 1] = sym.byte
      BY <2>1, <2>2, AppendProperties
    <2>4. Prefix(t, u)
      BY <1>4, <2>3 DEF Prefix
    <2> QED
      BY <1>2, <1>3, <1>5, <2>3, <2>4 DEF u, sym
  <1>6. CASE w.kind # "literal"
    <2>1. sym.pos \notin {-1, EndMark}
      BY <1>3, <1>6 DEF EndMark
    <2>2. PICK f : Grown(f, t, rep0 - 1, sym.len) /\ u = f[sym.len]
      BY <1>2, <1>3, <2>1, TextAfterIs
    <2>3. rep0 - 1 \in 0 .. Len(t) - 1 /\ (rep0 - 1) + 1 = rep0 /\ sym.len \in Nat
      BY <1>2, <1>3, <1>4, <1>6
    <2> HIDE DEF u
    <2>4. /\ u \in Seq(Letters) /\ Len(u) = Len(t) + Whole(w)
          /\ Prefix(t, u) /\ Repeats(u, Len(t) + 1, rep0)
      BY <1>3, <2>2, <2>3, GrownText
    <2> QED
      BY <1>2, <1>6, <2>4 DEF u, sym
  <1> QED
    BY <1>5, <1>6

(* What a reading has come to, as long as all it has read makes sense: the  *)
(* distances lead to what is written and still kept, ...                    *)
Readable ==
    [text : Seq(Letters), need : Seq(Nat), give : Seq(Nat), state : 0 .. 11,
     reps : Seq(Nat), coder : Coders, end : {"open", "none", "bad", "mark"}, endAt : Nat]

Farthest(m) == IF m.text = << >> THEN 1 ELSE AtMost(Len(m.text), DicBufSize)

RepsOK(m) ==
    /\ Len(m.reps) = LZMA_NUM_REPS
    /\ \A k \in 1 .. LZMA_NUM_REPS : m.reps[k] \in 1 .. Farthest(m)

(* ... and the symbols take more and more of the input and make more and    *)
(* more of the text.                                                        *)
TotalsOK(m) ==
    /\ Len(m.give) = Len(m.need)
    /\ \A i \in 1 .. Len(m.need) :
        /\ RcInitSize <= m.need[i] /\ m.need[i] <= m.coder.buf
        /\ 0 < m.give[i] /\ m.give[i] <= Len(m.text)
        /\ i > 1 => m.need[i - 1] <= m.need[i] /\ m.give[i - 1] < m.give[i]
    /\ Len(m.need) = 0 => m.text = << >> /\ m.coder.buf = RcInitSize
    /\ Len(m.need) # 0 => /\ m.need[Len(m.need)] = m.coder.buf
                          /\ m.give[Len(m.need)] = Len(m.text)

OpenOK(m, b) ==
    /\ m \in Readable /\ m.end = "open" /\ RepsOK(m) /\ TotalsOK(m)
    /\ m.text = << >> => m.state = 0
    /\ m.coder.range \in Intervals
    /\ RcInitSize <= m.coder.buf /\ m.coder.buf <= Len(b)

(* What is read next.                                                       *)
NextWalk(b, m) == CHOOSE x \in SymbolWalks(KnownAfter(m), m.coder, b) : TRUE
NextCoder(b, m) == Normalized(NextWalk(b, m).coder, b)
NextReps(b, m) == DecodedReps(m.reps, NextWalk(b, m).w)
NextText(b, m) == TextAfter(m.text, NextReps(b, m)[1] - 1, SymbolOf(NextWalk(b, m).w))

Broken(m, how, at) == [m EXCEPT !.end = how, !.endAt = at]

Enlarged(b, m) ==
    [m EXCEPT !.text = NextText(b, m), !.coder = NextCoder(b, m),
              !.need = Append(m.need, NextCoder(b, m).buf),
              !.give = Append(m.give, Len(NextText(b, m))),
              !.state = DecodedState(m.state, NextWalk(b, m).w), !.reps = NextReps(b, m)]

(* ReadSymbol in terms of what it reads.                                    *)
LEMMA ReadSymbolIs ==
    ASSUME NEW b, NEW m
    PROVE  ReadSymbol(b, m) =
              IF m.end # "open" THEN m
              ELSE IF NextCoder(b, m).buf > Len(b) THEN [m EXCEPT !.end = "none"]
              ELSE IF Mark(NextWalk(b, m).w)
              THEN Broken(m, IF NextCoder(b, m).code = 0 THEN "mark" ELSE "bad",
                          NextCoder(b, m).buf)
              ELSE IF LeadsNowhere(Len(m.text), NextWalk(b, m).w)
              THEN Broken(m, "bad", NextCoder(b, m).buf)
              ELSE Enlarged(b, m)
  BY DEF ReadSymbol, NextWalk, NextCoder, NextReps, NextText, Broken, Enlarged

(* How far back a distance may lead.                                        *)
LEMMA FarthestIs ==
    ASSUME NEW m \in Readable
    PROVE  /\ Farthest(m) \in 1 .. DicBufSize /\ Farthest(m) \in Nat
           /\ m.text # << >> => Farthest(m) \in 1 .. Len(m.text)
           /\ Len(m.text) \in Nat
  <1>1. Len(m.text) \in Nat /\ DicBufSize \in Nat \ {0}
        /\ (m.text # << >> => Len(m.text) # 0)
    BY DecoderAssumption, LenProperties, EmptySeq DEF Readable
  <1> QED
    BY <1>1 DEF Farthest, AtMost

(* The contexts of the next symbol are ones there are.                      *)
LEMMA OpenKnows ==
    ASSUME NEW m, NEW b, OpenOK(m, b)
    PROVE  KnownOK(KnownAfter(m))
  <1>1. /\ m \in Readable /\ m.text \in Seq(Letters) /\ m.state \in 0 .. 11
        /\ Len(m.text) \in Nat /\ (m.text # << >> => Farthest(m) \in 1 .. Len(m.text))
        /\ m.reps[1] \in 1 .. Farthest(m)
    <2>1. m \in Readable /\ RepsOK(m)
      BY DEF OpenOK
    <2>2. m.text \in Seq(Letters) /\ m.state \in 0 .. 11
      BY <2>1 DEF Readable
    <2>3. Len(m.text) \in Nat /\ (m.text # << >> => Farthest(m) \in 1 .. Len(m.text))
      BY <2>1, FarthestIs
    <2>4. m.reps[1] \in 1 .. Farthest(m)
      BY <2>1 DEF RepsOK, LZMA_NUM_REPS
    <2> QED
      BY <2>1, <2>2, <2>3, <2>4
  <1> DEFINE k == KnownAfter(m)
             i == Len(m.text) - m.reps[1] + 1
  <1>2. /\ k.state = m.state /\ k.pos = Len(m.text)
        /\ k.prevByte = IF m.text = << >> THEN 0 ELSE m.text[Len(m.text)]
        /\ k.matchByte = IF IsCharState(m.state) THEN 0 ELSE m.text[i]
    BY DEF KnownAfter, Last
  <1> HIDE DEF k
  <1>3. k.prevByte \in Letters
    <2>1. CASE m.text = << >>
      BY <1>2, <2>1, ZeroIsLetter
    <2>2. CASE m.text # << >>
      <3>1. Len(m.text) \in 1 .. Len(m.text)
        BY <1>1, <2>2
      <3> QED
        BY <1>1, <1>2, <2>2, <3>1, ElementOf
    <2> QED
      BY <2>1, <2>2
  <1>4. k.matchByte \in Letters
    <2>1. CASE IsCharState(m.state)
      BY <1>2, <2>1, ZeroIsLetter
    <2>2. CASE ~IsCharState(m.state)
      <3>1. m.text # << >>
        BY <2>2 DEF OpenOK, IsCharState
      <3>2. i \in 1 .. Len(m.text)
        BY <1>1, <3>1
      <3> HIDE DEF i
      <3> QED
        BY <1>1, <1>2, <2>2, <3>2, ElementOf
    <2> QED
      BY <2>1, <2>2
  <1>5. KnownOK(k)
    BY <1>1, <1>2, <1>3, <1>4 DEF KnownOK
  <1> QED
    BY <1>5 DEF k

(* A symbol is one whole symbol, and takes of the interval or of the input. *)
LEMMA NextIs ==
    ASSUME NEW b \in Seq(Bytes), NEW m, OpenOK(m, b)
    PROVE  /\ SymbolWalks(KnownAfter(m), m.coder, b) = {NextWalk(b, m)}
           /\ Done(NextWalk(b, m).w) /\ WalkOK(NextWalk(b, m).w)
           /\ NextWalk(b, m).coder \in Coders
           /\ NextCoder(b, m) \in Coders /\ NextCoder(b, m).range \in Intervals
           /\ Further(NextCoder(b, m), m.coder)
           /\ m.coder.buf <= NextCoder(b, m).buf
  <1>1. m.coder \in Coders /\ m.coder.range \in Intervals
    BY DEF OpenOK, Readable
  <1>2. KnownOK(KnownAfter(m))
    BY OpenKnows
  <1>3. PICK x : SymbolWalks(KnownAfter(m), m.coder, b) = {x} /\ Ends(x, m.coder, b)
    BY <1>1, <1>2, WalkEnds DEF Bytes
  <1>4. NextWalk(b, m) = x
    BY <1>3 DEF NextWalk
  <1>5. Normalized(m.coder, b) = m.coder
    BY <1>1, Sizes DEF Normalized, Intervals
  <1>6. /\ Normalized(x.coder, b) \in Coders
        /\ Further(Normalized(x.coder, b), Normalized(m.coder, b))
    BY <1>1, <1>2, <1>3, SymbolTakes
  <1>7. Done(x.w) /\ WalkOK(x.w) /\ x.coder \in Coders
    BY <1>3 DEF Ends
  <1>8. Normalized(x.coder, b).range \in Intervals
    BY <1>7, NormalizedIs DEF Bytes
  <1>9. NextCoder(b, m) = Normalized(x.coder, b)
    BY <1>4 DEF NextCoder
  <1>10. Further(NextCoder(b, m), m.coder) /\ NextCoder(b, m) \in Coders
    BY <1>5, <1>6, <1>9
  <1>11. m.coder.buf <= NextCoder(b, m).buf
    BY <1>1, <1>10 DEF Further, Coders
  <1> QED
    BY <1>3, <1>4, <1>7, <1>8, <1>9, <1>10, <1>11

(* The distances stay within what is written.                               *)
LEMMA DistancesFrom ==
    ASSUME NEW from \in Nat, NEW ds \in Seq(Nat), Len(ds) = LZMA_NUM_REPS,
           \A k \in 1 .. LZMA_NUM_REPS : ds[k] \in 1 .. from,
           NEW w, WalkOK(w), w.kind = "match" => w.distance + 1 \in 1 .. from
    PROVE  /\ DecodedReps(ds, w) \in Seq(Nat) /\ Len(DecodedReps(ds, w)) = LZMA_NUM_REPS
           /\ \A k \in 1 .. LZMA_NUM_REPS : DecodedReps(ds, w)[k] \in 1 .. from
           /\ DecodedReps(ds, w)[1] \in 1 .. from
  <1> DEFINE next == DecodedReps(ds, w)
             dist == w.distance + 1
  <1>1. /\ ds[1] \in 1 .. from /\ ds[2] \in 1 .. from
        /\ ds[3] \in 1 .. from /\ ds[4] \in 1 .. from /\ Len(ds) = 4
    BY DEF LZMA_NUM_REPS
  <1>2. \A a, b, e, f \in 1 .. from :
            /\ <<a, b, e, f>> \in Seq(Nat) /\ Len(<<a, b, e, f>>) = 4
            /\ \A k \in 1 .. 4 : <<a, b, e, f>>[k] \in 1 .. from
    <2> SUFFICES ASSUME NEW a \in 1 .. from, NEW b \in 1 .. from, NEW e \in 1 .. from,
                        NEW f \in 1 .. from
                 PROVE  /\ <<a, b, e, f>> \in Seq(Nat) /\ Len(<<a, b, e, f>>) = 4
                        /\ \A k \in 1 .. 4 : <<a, b, e, f>>[k] \in 1 .. from
      OBVIOUS
    <2>1. a \in Nat /\ b \in Nat /\ e \in Nat /\ f \in Nat
      OBVIOUS
    <2>2. \A k \in 1 .. 4 : k = 1 \/ k = 2 \/ k = 3 \/ k = 4
      OBVIOUS
    <2> QED
      BY <2>1, <2>2
  <1>3. \/ next = ds \/ next = <<ds[2], ds[1], ds[3], ds[4]>>
        \/ next = <<ds[3], ds[1], ds[2], ds[4]>>
        \/ next = <<ds[4], ds[1], ds[2], ds[3]>>
        \/ dist \in 1 .. from /\ next = <<dist, ds[1], ds[2], ds[3]>>
    <2>1. w.kind \in {"literal", "short", "rep", "match"} /\ w.rep \in 0 .. 3
      BY DEF WalkOK, WalkTypes
    <2>2. CASE w.kind \in {"literal", "short"}
      BY <2>2 DEF DecodedReps
    <2>3. CASE w.kind = "rep" /\ w.rep = 0
      BY <2>3 DEF DecodedReps
    <2>4. CASE w.kind = "rep" /\ w.rep = 1
      BY <2>4 DEF DecodedReps
    <2>5. CASE w.kind = "rep" /\ w.rep = 2
      BY <2>5 DEF DecodedReps
    <2>6. CASE w.kind = "rep" /\ w.rep = 3
      BY <2>6 DEF DecodedReps
    <2>7. CASE w.kind = "match"
      BY <2>7 DEF DecodedReps
    <2> QED
      BY <2>1, <2>2, <2>3, <2>4, <2>5, <2>6, <2>7
  <1> HIDE DEF next, dist
  <1>4. /\ next \in Seq(Nat) /\ Len(next) = 4
        /\ \A k \in 1 .. 4 : next[k] \in 1 .. from
    <2>1. CASE next = ds
      BY <1>1, <2>1 DEF LZMA_NUM_REPS
    <2>2. CASE next = <<ds[2], ds[1], ds[3], ds[4]>>
      BY <1>1, <1>2, <2>2
    <2>3. CASE next = <<ds[3], ds[1], ds[2], ds[4]>>
      BY <1>1, <1>2, <2>3
    <2>4. CASE next = <<ds[4], ds[1], ds[2], ds[3]>>
      BY <1>1, <1>2, <2>4
    <2>5. CASE dist \in 1 .. from /\ next = <<dist, ds[1], ds[2], ds[3]>>
      BY <1>1, <1>2, <2>5
    <2> QED
      BY <1>3, <2>1, <2>2, <2>3, <2>4, <2>5
  <1> QED
    BY <1>4 DEF next, LZMA_NUM_REPS

(* What a symbol that makes sense leads to.                                 *)
Sensible(b, m) ==
    /\ NextCoder(b, m).buf <= Len(b) /\ ~Mark(NextWalk(b, m).w)
    /\ ~LeadsNowhere(Len(m.text), NextWalk(b, m).w)

(* A symbol that makes sense lengthens the text by what it stands for,      *)
(* and its distances lead back into the text.                               *)
LEMMA SensibleText ==
    ASSUME NEW b \in Seq(Bytes), NEW m, OpenOK(m, b), Sensible(b, m)
    PROVE  LET w == NextWalk(b, m).w
               t == NextText(b, m)
           IN  /\ w.kind # "literal" => m.text # << >>
               /\ NextReps(b, m) \in Seq(Nat) /\ Len(NextReps(b, m)) = LZMA_NUM_REPS
               /\ \A k \in 1 .. LZMA_NUM_REPS : NextReps(b, m)[k] \in 1 .. Farthest(m)
               /\ t \in Seq(Letters) /\ Whole(w) \in Nat \ {0}
               /\ Len(t) = Len(m.text) + Whole(w) /\ Prefix(m.text, t)
               /\ w.kind = "literal" =>
                    Whole(w) = 1 /\ t[Len(m.text) + 1] = w.i - 2 ^ NumLitBits
               /\ w.kind # "literal" => Repeats(t, Len(m.text) + 1, NextReps(b, m)[1])
  <1> DEFINE w == NextWalk(b, m).w
             t == NextText(b, m)
             ds == NextReps(b, m)
  <1>1. /\ m \in Readable /\ m.text \in Seq(Letters) /\ m.reps \in Seq(Nat)
        /\ Len(m.reps) = LZMA_NUM_REPS
        /\ \A k \in 1 .. LZMA_NUM_REPS : m.reps[k] \in 1 .. Farthest(m)
    BY DEF OpenOK, Readable, RepsOK
  <1>2. /\ Farthest(m) \in 1 .. DicBufSize /\ Farthest(m) \in Nat /\ Len(m.text) \in Nat
        /\ (m.text # << >> => Farthest(m) \in 1 .. Len(m.text))
    BY <1>1, FarthestIs
  <1>3. Done(w) /\ WalkOK(w) /\ ~Mark(w) /\ ~LeadsNowhere(Len(m.text), w)
    BY NextIs DEF Sensible
  <1>4. w.kind \in {"literal", "match", "rep", "short"} /\ w.distance \in Nat
    BY <1>3 DEF WalkOK, WalkTypes
  <1>5. w.kind # "literal" => m.text # << >> /\ Len(m.text) # 0
    <2>1. m.text = << >> => Len(m.text) = 0
      BY EmptySeq
    <2> QED
      BY <1>2, <1>3, <1>4, <2>1 DEF LeadsNowhere
  <1>6. w.kind = "match" => w.distance + 1 \in 1 .. Farthest(m)
    <2> SUFFICES ASSUME w.kind = "match" PROVE w.distance + 1 \in 1 .. Farthest(m)
      OBVIOUS
    <2>1. w.distance < Len(m.text) /\ w.distance < DicBufSize
      BY <1>2, <1>3, <1>4, DecoderAssumption DEF LeadsNowhere
    <2>2. Farthest(m) = AtMost(Len(m.text), DicBufSize)
      BY <1>5 DEF Farthest
    <2> QED
      BY <1>2, <1>4, <2>1, <2>2, DecoderAssumption DEF AtMost
  <1>7. /\ ds \in Seq(Nat) /\ Len(ds) = LZMA_NUM_REPS
        /\ \A k \in 1 .. LZMA_NUM_REPS : ds[k] \in 1 .. Farthest(m)
        /\ ds[1] \in 1 .. Farthest(m)
    BY <1>1, <1>2, <1>3, <1>6, DistancesFrom DEF NextReps
  <1>8. w.kind # "literal" => ds[1] \in 1 .. Len(m.text)
    BY <1>2, <1>5, <1>7
  <1>9. t = TextAfter(m.text, ds[1] - 1, SymbolOf(w))
    BY DEF NextText
  <1> HIDE DEF w, t, ds
  <1>10. /\ t \in Seq(Letters) /\ Whole(w) \in Nat \ {0}
         /\ Len(t) = Len(m.text) + Whole(w) /\ Prefix(m.text, t)
         /\ w.kind = "literal" =>
              Whole(w) = 1 /\ t[Len(m.text) + 1] = w.i - 2 ^ NumLitBits
         /\ w.kind # "literal" => Repeats(t, Len(m.text) + 1, ds[1])
    BY <1>1, <1>3, <1>8, <1>9, SymbolText
  <1> QED
    BY <1>5, <1>7, <1>10 DEF w, t, ds

(* The lists of what symbols take and make.                                 *)
Adds(m, buf, t, e) ==
    /\ e.need = Append(m.need, buf) /\ e.give = Append(m.give, Len(t))
    /\ e.text = t /\ e.coder.buf = buf

(* The totals stay in order when a symbol is added.                         *)
LEMMA TotalsGrow ==
    ASSUME NEW b \in Seq(Bytes), NEW m, OpenOK(m, b), NEW buf \in Nat, m.coder.buf <= buf,
           NEW t \in Seq(Letters), Len(t) > Len(m.text), NEW e, Adds(m, buf, t, e)
    PROVE  /\ e.need \in Seq(Nat) /\ e.give \in Seq(Nat) /\ TotalsOK(e)
           /\ Len(e.need) = Len(m.need) + 1
           /\ Prefix(m.need, e.need) /\ Prefix(m.give, e.give)
  <1> DEFINE n == Len(m.need)
  <1>0. /\ e.need = Append(m.need, buf) /\ e.give = Append(m.give, Len(t))
        /\ e.text = t /\ e.coder.buf = buf
    BY DEF Adds
  <1>1. /\ m.need \in Seq(Nat) /\ m.give \in Seq(Nat) /\ m.text \in Seq(Letters)
        /\ m.coder.buf \in Nat /\ RcInitSize <= m.coder.buf /\ RcInitSize = 5
        /\ TotalsOK(m)
    BY DecoderAssumption DEF OpenOK, Readable, Coders
  <1>2. n \in Nat /\ Len(m.give) = n /\ Len(t) \in Nat /\ Len(m.text) \in Nat
    BY <1>1, LenProperties DEF TotalsOK
  <1>3. /\ e.need \in Seq(Nat) /\ Len(e.need) = n + 1 /\ e.need[n + 1] = buf
        /\ \A i \in 1 .. n : e.need[i] = m.need[i]
    BY <1>0, <1>1, <1>2, AppendProperties
  <1>4. /\ e.give \in Seq(Nat) /\ Len(e.give) = n + 1 /\ e.give[n + 1] = Len(t)
        /\ \A i \in 1 .. n : e.give[i] = m.give[i]
    BY <1>0, <1>1, <1>2, AppendProperties
  <1>5. \A i \in 1 .. n : m.need[i] \in Nat /\ m.give[i] \in Nat
    <2> SUFFICES ASSUME NEW i \in 1 .. n PROVE m.need[i] \in Nat /\ m.give[i] \in Nat
      OBVIOUS
    <2>1. i \in 1 .. Len(m.need) /\ i \in 1 .. Len(m.give)
      BY <1>2
    <2> QED
      BY <1>1, <2>1, ElementOf
  <1>b. m.coder.buf <= buf /\ buf \in Nat /\ Len(m.text) < Len(t)
    BY <1>2
  <1>c. n = Len(m.need)
    OBVIOUS
  <1> HIDE DEF n
  <1>6. ASSUME NEW i \in 1 .. n + 1
        PROVE  /\ RcInitSize <= e.need[i] /\ e.need[i] <= buf
               /\ 0 < e.give[i] /\ e.give[i] <= Len(t)
               /\ i > 1 => e.need[i - 1] <= e.need[i] /\ e.give[i - 1] < e.give[i]
    <2>1. CASE i = n + 1
      <3>1. e.need[i] = buf /\ e.give[i] = Len(t)
        BY <1>3, <1>4, <2>1
      <3>2. i > 1 => i - 1 = n /\ n \in 1 .. n
        BY <1>2, <2>1
      <3>a. n # 0 => m.need[n] = m.coder.buf /\ m.give[n] = Len(m.text)
        BY ONLY <1>1, <1>c DEF TotalsOK
      <3>b. i > 1 => n # 0
        BY <1>2, <2>1
      <3>3. i > 1 => e.need[i - 1] = m.coder.buf /\ e.give[i - 1] = Len(m.text)
        BY ONLY <1>3, <1>4, <3>2, <3>a, <3>b
      <3>4. RcInitSize <= buf /\ buf <= buf /\ 0 < Len(t) /\ Len(t) <= Len(t)
        BY ONLY <1>1, <1>2, <1>b
      <3> QED
        BY ONLY <1>b, <3>1, <3>3, <3>4
    <2>2. CASE i # n + 1
      <3>1. i \in 1 .. n /\ (i > 1 => i - 1 \in 1 .. n)
        BY <1>2, <2>2
      <3>2. e.need[i] = m.need[i] /\ e.give[i] = m.give[i]
            /\ (i > 1 => e.need[i - 1] = m.need[i - 1] /\ e.give[i - 1] = m.give[i - 1])
        BY <1>3, <1>4, <3>1
      <3>3. /\ RcInitSize <= m.need[i] /\ m.need[i] <= m.coder.buf
            /\ 0 < m.give[i] /\ m.give[i] <= Len(m.text)
            /\ i > 1 => m.need[i - 1] <= m.need[i] /\ m.give[i - 1] < m.give[i]
        BY <1>1, <3>1 DEF TotalsOK, n
      <3>4. m.need[i] \in Nat /\ m.give[i] \in Nat
        BY <1>5, <3>1
      <3>a. m.coder.buf \in Nat /\ m.coder.buf <= buf /\ buf \in Nat
        BY <1>1, <1>b
      <3>b. e.need[i] = m.need[i] /\ m.need[i] \in Nat /\ RcInitSize <= m.need[i]
            /\ m.need[i] <= m.coder.buf
        BY ONLY <3>2, <3>3, <3>4
      <3>5. RcInitSize <= e.need[i] /\ e.need[i] <= buf
        BY ONLY <3>a, <3>b
      <3>6. 0 < e.give[i] /\ e.give[i] <= Len(t)
        BY ONLY <1>2, <1>b, <3>2, <3>3, <3>4
      <3> QED
        BY <3>2, <3>3, <3>5, <3>6
    <2> QED
      BY <2>1, <2>2
  <1>7. TotalsOK(e)
    <2>1. n + 1 # 0 /\ e.text = t /\ e.coder.buf = buf
      BY <1>0, <1>2
    <2> QED
      BY ONLY <1>3, <1>4, <1>6, <2>1 DEF TotalsOK
  <1> QED
    BY <1>2, <1>3, <1>4, <1>7 DEF Prefix, n

(* A reading enlarged by a symbol that makes sense is in order again.       *)
LEMMA EnlargedOK ==
    ASSUME NEW b \in Seq(Bytes), NEW m, OpenOK(m, b), Sensible(b, m)
    PROVE  LET e == Enlarged(b, m)
           IN  /\ ReadSymbol(b, m) = e /\ OpenOK(e, b)
               /\ e.text = NextText(b, m) /\ e.coder = NextCoder(b, m) /\ e.reps = NextReps(b, m)
               /\ e.state = DecodedState(m.state, NextWalk(b, m).w)
               /\ e.need = Append(m.need, NextCoder(b, m).buf)
               /\ e.give = Append(m.give, Len(e.text))
               /\ Len(e.need) = Len(m.need) + 1
               /\ Prefix(m.text, e.text) /\ Prefix(m.need, e.need) /\ Prefix(m.give, e.give)
  <1> DEFINE w == NextWalk(b, m).w
             t == NextText(b, m)
             ds == NextReps(b, m)
             c == NextCoder(b, m)
             need == Append(m.need, c.buf)
             give == Append(m.give, Len(t))
             state1 == DecodedState(m.state, w)
             e == Enlarged(b, m)
  <1>1. /\ m \in Readable /\ m.text \in Seq(Letters) /\ m.state \in 0 .. 11
        /\ m.coder \in Coders /\ m.coder.buf \in Nat /\ m.end = "open" /\ Len(b) \in Nat
    BY LenProperties DEF OpenOK, Readable, Coders
  <1>2. /\ c \in Coders /\ c.range \in Intervals /\ m.coder.buf <= c.buf /\ WalkOK(w)
    BY NextIs
  <1>3. /\ ds \in Seq(Nat) /\ Len(ds) = LZMA_NUM_REPS
        /\ \A k \in 1 .. LZMA_NUM_REPS : ds[k] \in 1 .. Farthest(m)
        /\ t \in Seq(Letters) /\ Whole(w) \in Nat \ {0}
        /\ Len(t) = Len(m.text) + Whole(w) /\ Prefix(m.text, t)
    BY SensibleText
  <1>4. state1 \in 0 .. 11
    BY <1>1, <1>2, StateKept
  <1>5. c.buf \in Nat /\ Len(t) \in Nat /\ Len(m.text) \in Nat
    BY <1>1, <1>2, <1>3, LenProperties DEF Coders
  <1>6. e = [m EXCEPT !.text = t, !.coder = c, !.need = need, !.give = give,
                      !.state = state1, !.reps = ds]
    BY DEF Enlarged
  <1>7. c.buf <= Len(b)
    BY DEF Sensible
  <1>8. ReadSymbol(b, m) = e
    <2>1. ~(c.buf > Len(b))
      BY <1>1, <1>5, <1>7
    <2> QED
      BY <1>1, <2>1, ReadSymbolIs DEF Sensible
  <1> HIDE DEF w, t, ds, c, need, give, state1, e
  <1>9. need \in Seq(Nat) /\ give \in Seq(Nat)
    BY <1>1, <1>5, AppendProperties DEF need, give, Readable
  <1>10. /\ e \in Readable /\ e.text = t /\ e.coder = c /\ e.need = need /\ e.give = give
         /\ e.state = state1 /\ e.reps = ds /\ e.end = "open"
    BY <1>1, <1>2, <1>3, <1>4, <1>6, <1>9 DEF Readable
  <1>11. /\ TotalsOK(e) /\ Len(e.need) = Len(m.need) + 1
         /\ Prefix(m.need, e.need) /\ Prefix(m.give, e.give)
    <2>0. b \in Seq(Bytes) /\ OpenOK(m, b)
      OBVIOUS
    <2>1. /\ Len(t) > Len(m.text) /\ t \in Seq(Letters)
          /\ c.buf \in Nat /\ m.coder.buf <= c.buf
      BY <1>2, <1>3, <1>5
    <2>2. Adds(m, c.buf, t, e)
      BY <1>10 DEF need, give, Adds
    <2> QED
      BY ONLY <2>0, <2>1, <2>2, TotalsGrow
  <1>12. t # << >> /\ Farthest(m) \in Nat /\ Farthest(e) \in Nat /\ Farthest(m) <= Farthest(e)
    <2>1. t # << >>
      BY <1>3, <1>5, EmptySeq
    <2>2. Farthest(e) = AtMost(Len(t), DicBufSize)
      BY <1>10, <2>1 DEF Farthest
    <2>3. DicBufSize \in Nat \ {0}
      BY DecoderAssumption
    <2>4. Farthest(m) = 1 \/ Farthest(m) = AtMost(Len(m.text), DicBufSize)
      BY DEF Farthest
    <2> QED
      BY <1>3, <1>5, <2>1, <2>2, <2>3, <2>4 DEF AtMost
  <1>13. RepsOK(e)
    BY <1>3, <1>10, <1>12 DEF RepsOK
  <1>14. RcInitSize <= c.buf
    BY <1>1, <1>2, <1>5, DecoderAssumption DEF OpenOK
  <1>15. OpenOK(e, b)
    BY <1>2, <1>7, <1>10, <1>11, <1>12, <1>13, <1>14 DEF OpenOK
  <1> QED
    BY <1>3, <1>8, <1>10, <1>11, <1>15 DEF w, t, ds, c, need, give, state1, e

(* Where the reading begins, when the bytes that start the range decoder    *)
(* are there and the first is 0.                                            *)
LEMMA BeginningOK ==
    ASSUME NEW b \in Seq(Bytes)
    PROVE  /\ Beginning(b).end \in {"open", "none", "bad"}
           /\ Beginning(b) \in Readable
           /\ Beginning(b).text = << >> /\ Beginning(b).need = << >>
           /\ Beginning(b).give = << >>
           /\ Beginning(b).end = "none" => Len(b) < RcInitSize
           /\ Beginning(b).end = "bad" => RcInitSize <= Len(b) /\ b[1] # 0
           /\ Beginning(b).endAt = RcInitSize
           /\ Beginning(b).end = "open" =>
                /\ RcInitSize <= Len(b) /\ b[1] = 0
                /\ OpenOK(Beginning(b), b)
                /\ Beginning(b).state = 0 /\ Beginning(b).reps = <<1, 1, 1, 1>>
                /\ Beginning(b).coder =
                      [range |-> Word - 1, buf |-> RcInitSize, probs |-> ProbsAlwaysReset,
                       code |-> ((b[2] * Base + b[3]) * Base + b[4]) * Base + b[5]]
  <1> DEFINE code == IF Len(b) < RcInitSize THEN 0
                     ELSE ((b[2] * Base + b[3]) * Base + b[4]) * Base + b[5]
             coder == [range |-> Word - 1, buf |-> RcInitSize, probs |-> ProbsAlwaysReset,
                       code |-> code]
             end == IF Len(b) < RcInitSize THEN "none" ELSE IF b[1] # 0 THEN "bad" ELSE "open"
             m == Beginning(b)
  <1>1. m = [text |-> << >>, need |-> << >>, give |-> << >>, state |-> 0,
             reps |-> <<1, 1, 1, 1>>, coder |-> coder, end |-> end, endAt |-> RcInitSize]
    BY DEF Beginning
  <1>2. Len(b) \in Nat /\ RcInitSize = 5
    BY LenProperties, DecoderAssumption
  <1>3. /\ end \in {"open", "none", "bad"} /\ (end = "none" => Len(b) < RcInitSize)
        /\ end = "bad" => RcInitSize <= Len(b) /\ b[1] # 0
        /\ end = "open" => RcInitSize <= Len(b) /\ b[1] = 0
    BY <1>2
  <1>4. code \in 0 .. Word - 1
    <2>1. CASE Len(b) < RcInitSize
      BY <2>1, Sizes
    <2>2. CASE ~(Len(b) < RcInitSize)
      <3>1. 2 \in 1 .. Len(b) /\ 3 \in 1 .. Len(b) /\ 4 \in 1 .. Len(b) /\ 5 \in 1 .. Len(b)
        BY <1>2, <2>2
      <3>2. b[2] \in Bytes /\ b[3] \in Bytes /\ b[4] \in Bytes /\ b[5] \in Bytes
        BY ONLY <3>1, ElementOf, b \in Seq(Bytes)
      <3> QED
        BY <2>2, <3>2, StartCode
    <2> QED
      BY <2>1, <2>2
  <1> HIDE DEF code
  <1>5. Word - 1 \in Intervals /\ Word - 1 \in Base * Base .. Word - 1
    <2>1. kTopValue < Word /\ Base * Base <= kTopValue
      <3>1. kTopValue \in Nat /\ Base \in Nat \ {0, 1} /\ kTopValue # 0 /\ Word = kTopValue * Base
            /\ Base * Base \in Nat \ {0} /\ 2 * (Base * Base) <= kTopValue
        BY Sizes
      <3>2. \A x, y \in Nat : x # 0 /\ y > 1 => x < x * y
        OBVIOUS
      <3> QED
        BY <3>1, <3>2
    <2> QED
      BY <2>1, Sizes DEF Intervals
  <1>6. ProbsAlwaysReset \in [AllContexts -> Probabilities]
    <2>1. kProbInitValue \in Probabilities
      BY BitModelAssumption DEF kProbInitValue, Probabilities
    <2> QED
      BY <2>1 DEF ProbsAlwaysReset
  <1>7. coder \in Coders
    BY <1>2, <1>4, <1>5, <1>6 DEF Coders
  <1> HIDE DEF end
  <1>r. m \in Readable
    <2>1. << >> \in Seq(Letters) /\ << >> \in Seq(Nat) /\ <<1, 1, 1, 1>> \in Seq(Nat)
      OBVIOUS
    <2> HIDE DEF coder
    <2> QED
      BY <1>1, <1>2, <1>3, <1>7, <2>1 DEF Readable
  <1>8. ASSUME end = "open" PROVE OpenOK(m, b)
    <2>1. /\ m.text = << >> /\ m.need = << >> /\ m.give = << >> /\ m.state = 0
          /\ m.reps = <<1, 1, 1, 1>> /\ m.coder = coder /\ m.end = "open"
      BY <1>1, <1>8
    <2>3. Farthest(m) = 1
      BY <2>1 DEF Farthest
    <2>4. RepsOK(m)
      <3>1. \A k \in 1 .. 4 : <<1, 1, 1, 1>>[k] = 1
        OBVIOUS
      <3> QED
        BY <2>1, <2>3, <3>1 DEF RepsOK, LZMA_NUM_REPS
    <2>5. TotalsOK(m)
      BY <2>1 DEF TotalsOK
    <2> HIDE DEF m
    <2>6. coder.range = Word - 1 /\ coder.buf = RcInitSize
      OBVIOUS
    <2>7. RcInitSize <= Len(b) /\ RcInitSize <= RcInitSize
      BY <1>2, <1>3, <1>8
    <2> QED
      BY <1>5, <1>r, <2>1, <2>4, <2>5, <2>6, <2>7 DEF OpenOK
  <1>9. /\ m.end = end /\ m.text = << >> /\ m.need = << >> /\ m.give = << >>
        /\ m.endAt = RcInitSize /\ m.state = 0 /\ m.reps = <<1, 1, 1, 1>> /\ m.coder = coder
    BY <1>1
  <1>10. RcInitSize <= Len(b) =>
            code = ((b[2] * Base + b[3]) * Base + b[4]) * Base + b[5]
    BY <1>2 DEF code
  <1> HIDE DEF m
  <1> QED
    BY <1>3, <1>r, <1>8, <1>9, <1>10 DEF m

(* A reading that comes to an end keeps the text and the totals.            *)
LEMMA BrokenIs ==
    ASSUME NEW m \in Readable, NEW how, how \in {"none", "bad", "mark"}, NEW at, at \in Nat
    PROVE  /\ Broken(m, how, at) \in Readable
           /\ Broken(m, how, at).end = how /\ Broken(m, how, at).endAt = at
           /\ Broken(m, how, at).text = m.text /\ Broken(m, how, at).need = m.need
           /\ Broken(m, how, at).give = m.give /\ Broken(m, how, at).coder = m.coder
  BY DEF Broken, Readable

(* How a reading ends.                                                      *)
EndOf(b, m) ==
    IF NextCoder(b, m).buf > Len(b) THEN "none"
    ELSE IF Mark(NextWalk(b, m).w) /\ NextCoder(b, m).code = 0 THEN "mark" ELSE "bad"

(* A symbol that makes no sense, is not all there, or is the end mark       *)
(* ends the reading and adds nothing.                                       *)
LEMMA ReadingEnds ==
    ASSUME NEW b \in Seq(Bytes), NEW m, OpenOK(m, b), ~Sensible(b, m)
    PROVE  LET e == ReadSymbol(b, m)
           IN  /\ e \in Readable /\ e.text = m.text /\ e.need = m.need /\ e.give = m.give
               /\ e.coder = m.coder
               /\ e.end = EndOf(b, m) /\ e.end # "open"
               /\ e.end # "none" => e.endAt = NextCoder(b, m).buf /\ e.endAt <= Len(b)
  <1> DEFINE c == NextCoder(b, m)
             w == NextWalk(b, m).w
             e == ReadSymbol(b, m)
  <1>1. /\ m \in Readable /\ m.end = "open" /\ Len(b) \in Nat /\ c.buf \in Nat
        /\ m.endAt \in Nat
    BY NextIs, LenProperties DEF OpenOK, Readable, Coders
  <1>2. CASE c.buf > Len(b)
    <2>1. e = [m EXCEPT !.end = "none"]
      BY <1>1, <1>2, ReadSymbolIs
    <2>2. EndOf(b, m) = "none"
      BY <1>2 DEF EndOf
    <2> HIDE DEF e
    <2>3. /\ e \in Readable /\ e.text = m.text /\ e.need = m.need /\ e.give = m.give
          /\ e.end = "none" /\ e.coder = m.coder
      BY <1>1, <2>1 DEF Readable
    <2> QED
      BY <2>2, <2>3 DEF e
  <1>3. CASE ~(c.buf > Len(b))
    <2>1. c.buf <= Len(b) /\ (Mark(w) \/ LeadsNowhere(Len(m.text), w))
      BY <1>1, <1>3 DEF Sensible
    <2>2. e = Broken(m, EndOf(b, m), c.buf)
      <3>1. CASE Mark(w)
        BY <1>1, <1>3, <3>1, ReadSymbolIs DEF EndOf
      <3>2. CASE ~Mark(w)
        BY <1>1, <1>3, <2>1, <3>2, ReadSymbolIs DEF EndOf
      <3> QED
        BY <3>1, <3>2
    <2>3. EndOf(b, m) \in {"bad", "mark"}
      BY <1>3 DEF EndOf
    <2> HIDE DEF e
    <2>4. /\ e \in Readable /\ e.text = m.text /\ e.need = m.need /\ e.give = m.give
          /\ e.end = EndOf(b, m) /\ e.endAt = c.buf /\ e.coder = m.coder
      <3>1. m \in Readable /\ EndOf(b, m) \in {"none", "bad", "mark"} /\ c.buf \in Nat
        BY <1>1, <2>3
      <3> DEFINE how == EndOf(b, m)
                 at == c.buf
      <3>2. e = Broken(m, how, at) /\ how \in {"none", "bad", "mark"} /\ at \in Nat
        BY <2>2, <3>1
      <3> HIDE DEF how, at
      <3>3. /\ Broken(m, how, at) \in Readable
            /\ Broken(m, how, at).end = how /\ Broken(m, how, at).endAt = at
            /\ Broken(m, how, at).text = m.text /\ Broken(m, how, at).need = m.need
            /\ Broken(m, how, at).give = m.give /\ Broken(m, how, at).coder = m.coder
        BY <3>1, <3>2, BrokenIs
      <3>4. /\ e \in Readable /\ e.text = m.text /\ e.need = m.need /\ e.give = m.give
            /\ e.end = how /\ e.endAt = at /\ e.coder = m.coder
        BY ONLY <3>2, <3>3
      <3> QED
        BY <3>4 DEF how, at
    <2> QED
      BY <2>1, <2>3, <2>4 DEF e
  <1> QED
    BY <1>2, <1>3

(* How much of the input, and of the interval, a reading has used up.       *)
Spent(m) == m.coder.buf * Word + (Word - m.coder.range)

(* A symbol uses up some more.                                              *)
LEMMA SpentGrows ==
    ASSUME NEW m, NEW e, m.coder \in Coders, e.coder \in Coders, Further(e.coder, m.coder)
    PROVE  Spent(m) \in Nat /\ Spent(e) \in Nat /\ Spent(m) + 1 <= Spent(e)
  <1> DEFINE a == m.coder.buf
             u == m.coder.range
             c == e.coder.buf
             v == e.coder.range
  <1>1. /\ a \in Nat /\ c \in Nat /\ u \in 1 .. Word - 1 /\ v \in 1 .. Word - 1
        /\ Word \in Nat /\ (a < c \/ (a = c /\ v < u))
    BY Sizes DEF Coders, Further
  <1>2. Spent(m) = a * Word + (Word - u) /\ Spent(e) = c * Word + (Word - v)
    BY DEF Spent
  <1> HIDE DEF a, c, u, v
  <1>3. \A i, j, k \in Nat : /\ i * k \in Nat
                             /\ i < j => i * k + k <= j * k
    <2> SUFFICES ASSUME NEW i \in Nat, NEW j \in Nat, NEW k \in Nat, i < j
                 PROVE  i * k + k <= j * k
      OBVIOUS
    <2>1. j * k = (i + 1) * k + (j - (i + 1)) * k /\ (i + 1) * k = i * k + k
      OBVIOUS
    <2>2. (j - (i + 1)) * k \in Nat /\ i * k \in Nat
      OBVIOUS
    <2> QED
      BY <2>1, <2>2
  <1>4. a * Word \in Nat /\ c * Word \in Nat /\ (a < c => a * Word + Word <= c * Word)
    BY <1>1, <1>3
  <1> DEFINE x == a * Word
             y == c * Word
  <1>5. x \in Nat /\ y \in Nat /\ (a < c => x + Word <= y) /\ (a = c => x = y)
    BY <1>4
  <1>6. Spent(m) = x + (Word - u) /\ Spent(e) = y + (Word - v)
    BY <1>2
  <1> HIDE DEF x, y
  <1> QED
    BY ONLY <1>1, <1>5, <1>6

(* Symbol after symbol: where a reading is open, it has read that many      *)
(* symbols and used up as much.                                             *)
OpenAfter(b, m, n) == OpenOK(m, b) /\ Len(m.need) = n /\ n <= Spent(m)

(* As long as it is open, the reading is in order after every symbol.       *)
LEMMA ReadingsOK ==
    ASSUME NEW b \in Seq(Bytes), NEW n \in 0 .. MostSymbols(b), Readings(b)[n].end = "open"
    PROVE  OpenAfter(b, Readings(b)[n], n)
  <1> DEFINE most == MostSymbols(b)
             read == Readings(b)
             S == {k \in Nat : k <= most /\ read[k].end = "open" => OpenAfter(b, read[k], k)}
  <1>0. /\ most \in Nat /\ read[0] = Beginning(b)
        /\ \A k \in 0 .. most - 1 : read[k + 1] = ReadSymbol(b, read[k])
    BY ReadingsAre
  <1> HIDE DEF most, read
  <1>1. 0 \in S
    <2> SUFFICES ASSUME Beginning(b).end = "open" PROVE OpenAfter(b, Beginning(b), 0)
      BY <1>0
    <2> DEFINE m == Beginning(b)
    <2>1. OpenOK(m, b) /\ m.need = << >>
      BY BeginningOK
    <2>2. m.coder \in Coders
      BY <2>1 DEF OpenOK, Readable
    <2> HIDE DEF m
    <2>3. 0 <= Spent(m)
      <3>1. /\ m.coder.buf \in Nat /\ m.coder.range \in 0 .. Word - 1 /\ Word \in Nat
        BY <2>2, Sizes DEF Coders
      <3>2. m.coder.buf * Word \in Nat
        BY <3>1
      <3>3. \A x \in Nat, y \in Nat : \A z \in 0 .. y - 1 : 0 <= x + (y - z)
        OBVIOUS
      <3> QED
        BY ONLY <3>1, <3>2, <3>3 DEF Spent
    <2>4. Len(m.need) = 0
      BY <2>1
    <2> QED
      BY <2>1, <2>3, <2>4 DEF OpenAfter, m
  <1>2. \A k \in S \cap Nat : k + 1 \in S
    <2> SUFFICES ASSUME NEW k \in Nat, k \in S, k + 1 <= most, read[k + 1].end = "open"
                 PROVE  OpenAfter(b, read[k + 1], k + 1)
      OBVIOUS
    <2> DEFINE m == read[k]
               e == read[k + 1]
    <2>1. e = ReadSymbol(b, m) /\ k \in 0 .. most - 1 /\ k <= most
      BY <1>0
    <2>2. m.end = "open"
      <3> SUFFICES ASSUME m.end # "open" PROVE FALSE
        OBVIOUS
      <3>1. ReadSymbol(b, m) = m
        BY ReadSymbolIs
      <3> QED
        BY <2>1, <3>1
    <2>3. OpenAfter(b, m, k)
      BY <2>1, <2>2
    <2>4. OpenOK(m, b) /\ Len(m.need) = k /\ k <= Spent(m)
      BY <2>3 DEF OpenAfter
    <2>5. e.end = "open"
      OBVIOUS
    <2> HIDE DEF m, e
    <2>6. Sensible(b, m)
      BY <2>1, <2>4, <2>5, ReadingEnds
    <2>7. OpenOK(e, b) /\ Len(e.need) = k + 1 /\ e.coder = NextCoder(b, m)
      BY <2>1, <2>4, <2>6, EnlargedOK
    <2>8. m.coder \in Coders /\ e.coder \in Coders /\ Further(e.coder, m.coder)
      BY <2>4, <2>7, NextIs DEF OpenOK, Readable
    <2>9. Spent(m) \in Nat /\ Spent(e) \in Nat /\ Spent(m) + 1 <= Spent(e)
      BY ONLY <2>8, SpentGrows
    <2>10. k + 1 <= Spent(e)
      BY <2>4, <2>9
    <2>11. OpenAfter(b, e, k + 1)
      BY <2>7, <2>10 DEF OpenAfter
    <2> QED
      BY <2>11 DEF e
  <1> HIDE DEF S
  <1>3. Nat \subseteq S
    BY <1>1, <1>2, NaturalInduction
  <1>4. n \in S /\ n <= most
    BY <1>0, <1>3 DEF most
  <1>5. OpenAfter(b, read[n], n)
    BY <1>4 DEF S, read
  <1> QED
    BY <1>5 DEF read

(* The input ends, so the reading does.                                     *)
LEMMA ReadingsEnd ==
    ASSUME NEW b \in Seq(Bytes)
    PROVE  Readings(b)[MostSymbols(b)].end # "open"
  <1> DEFINE most == MostSymbols(b)
             m == Readings(b)[most]
  <1> SUFFICES ASSUME m.end = "open" PROVE FALSE
    OBVIOUS
  <1>1. most \in Nat /\ most \in 0 .. most
    BY ReadingsAre
  <1>2. OpenOK(m, b) /\ most <= Spent(m)
    BY <1>1, ReadingsOK DEF OpenAfter
  <1>3. most = (Len(b) + 1) * Word
    BY DEF MostSymbols
  <1> HIDE DEF m
  <1>4. /\ m.coder.buf \in Nat /\ m.coder.buf <= Len(b) /\ m.coder.range \in 1 .. Word - 1
        /\ Word \in Nat /\ Len(b) \in Nat
    <2>1. m.coder \in Coders /\ m.coder.buf <= Len(b) /\ Len(b) \in Nat
      BY <1>2, LenProperties DEF OpenOK, Readable
    <2> QED
      BY <2>1, Sizes DEF Coders
  <1>5. m.coder.buf * Word <= Len(b) * Word
    <2>1. \A i, j, k \in Nat : i <= j => i * k <= j * k
      <3> SUFFICES ASSUME NEW i \in Nat, NEW j \in Nat, NEW k \in Nat, i <= j
                   PROVE  i * k <= j * k
        OBVIOUS
      <3>1. j * k = i * k + (j - i) * k
        OBVIOUS
      <3>2. (j - i) * k \in Nat /\ i * k \in Nat
        OBVIOUS
      <3> QED
        BY <3>1, <3>2
    <2> QED
      BY <1>4, <2>1
  <1>6. (Len(b) + 1) * Word = Len(b) * Word + Word
    BY <1>4
  <1> DEFINE x == m.coder.buf * Word
             y == Len(b) * Word
  <1>7. x \in Nat /\ y \in Nat /\ x <= y /\ most = y + Word
    BY <1>3, <1>4, <1>5, <1>6
  <1>8. most <= x + (Word - m.coder.range)
    BY <1>2 DEF Spent
  <1> HIDE DEF x, y, most
  <1> QED
    BY <1>4, <1>7, <1>8

(* What has been read is there to stay.                                     *)
Grows(m, e) == Prefix(m.text, e.text) /\ Prefix(m.need, e.need) /\ Prefix(m.give, e.give)

(* To be a prefix is reflexive and transitive.                              *)
LEMMA PrefixOf ==
    /\ \A S, s : s \in Seq(S) => Prefix(s, s)
    /\ \A s, t, u : Len(s) \in Nat /\ Len(t) \in Nat /\ Len(u) \in Nat
                    /\ Prefix(s, t) /\ Prefix(t, u) => Prefix(s, u)
  <1>1. ASSUME NEW S, NEW s \in Seq(S) PROVE Prefix(s, s)
    BY LenProperties DEF Prefix
  <1>2. ASSUME NEW s, NEW t, NEW u, Len(s) \in Nat, Len(t) \in Nat, Len(u) \in Nat,
               Prefix(s, t), Prefix(t, u)
        PROVE  Prefix(s, u)
    <2>1. Len(s) <= Len(t) /\ Len(t) <= Len(u)
      BY <1>2 DEF Prefix
    <2>2. \A i \in 1 .. Len(s) : i \in 1 .. Len(t)
      BY <1>2, <2>1
    <2>3. \A i \in 1 .. Len(s) : u[i] = s[i]
      BY <1>2, <2>2 DEF Prefix
    <2> QED
      BY <1>2, <2>1, <2>3 DEF Prefix
  <1> QED
    BY <1>1, <1>2

(* So is to have grown.                                                     *)
LEMMA GrowsOn ==
    /\ \A m : m \in Readable => Grows(m, m)
    /\ \A m, e, f : m \in Readable /\ e \in Readable /\ f \in Readable
                    /\ Grows(m, e) /\ Grows(e, f) => Grows(m, f)
  <1>1. \A m : m \in Readable => /\ m.text \in Seq(Letters) /\ m.need \in Seq(Nat)
                                 /\ m.give \in Seq(Nat) /\ Len(m.text) \in Nat
                                 /\ Len(m.need) \in Nat /\ Len(m.give) \in Nat
    BY LenProperties DEF Readable
  <1>2. ASSUME NEW m, m \in Readable PROVE Grows(m, m)
    BY <1>1, <1>2, PrefixOf DEF Grows
  <1>3. ASSUME NEW m, NEW e, NEW f, m \in Readable, e \in Readable, f \in Readable,
               Grows(m, e), Grows(e, f)
        PROVE  Grows(m, f)
    <2>1. Prefix(m.text, f.text)
      BY <1>1, <1>3, PrefixOf DEF Grows
    <2>2. Prefix(m.need, f.need)
      BY <1>1, <1>3, PrefixOf DEF Grows
    <2>3. Prefix(m.give, f.give)
      BY <1>1, <1>3, PrefixOf DEF Grows
    <2> QED
      BY <2>1, <2>2, <2>3 DEF Grows
  <1> QED
    BY <1>2, <1>3

(* Symbol by symbol, ...                                                    *)
LEMMA ReadingOn ==
    ASSUME NEW b \in Seq(Bytes), NEW m, m \in Readable, m.end = "open" => OpenOK(m, b)
    PROVE  /\ ReadSymbol(b, m) \in Readable /\ Grows(m, ReadSymbol(b, m))
           /\ m.end # "open" => ReadSymbol(b, m) = m
  <1> DEFINE e == ReadSymbol(b, m)
  <1>1. CASE m.end # "open"
    <2>1. e = m
      BY <1>1, ReadSymbolIs
    <2> HIDE DEF e
    <2> QED
      BY <2>1, GrowsOn DEF e
  <1>2. CASE m.end = "open" /\ ~Sensible(b, m)
    <2>1. /\ e \in Readable /\ e.text = m.text /\ e.need = m.need /\ e.give = m.give
      BY <1>2, ReadingEnds
    <2> HIDE DEF e
    <2>2. Grows(m, e)
      BY <2>1, GrowsOn DEF Grows
    <2> QED
      BY <1>2, <2>1, <2>2 DEF e
  <1>3. CASE m.end = "open" /\ Sensible(b, m)
    <2>1. /\ OpenOK(e, b) /\ Prefix(m.text, e.text)
          /\ Prefix(m.need, e.need) /\ Prefix(m.give, e.give)
      BY <1>3, EnlargedOK
    <2> HIDE DEF e
    <2>2. e \in Readable /\ Grows(m, e)
      BY <2>1 DEF OpenOK, Grows
    <2> QED
      BY <1>3, <2>2 DEF e
  <1> QED
    BY <1>1, <1>2, <1>3

(* ... as far as the input goes.                                            *)
LEMMA ReadingsGrow ==
    ASSUME NEW b \in Seq(Bytes), NEW k \in 0 .. MostSymbols(b)
    PROVE  /\ Readings(b)[k] \in Readable
           /\ \A j \in 0 .. k : /\ Grows(Readings(b)[j], Readings(b)[k])
                                /\ Readings(b)[j].end # "open" =>
                                        Readings(b)[k] = Readings(b)[j]
  <1> DEFINE most == MostSymbols(b)
             read == Readings(b)
             Good(n) == /\ read[n] \in Readable
                        /\ \A j \in 0 .. n : /\ Grows(read[j], read[n]) /\ read[j] \in Readable
                                             /\ read[j].end # "open" => read[n] = read[j]
             S == {n \in Nat : n <= most => Good(n)}
  <1>0. /\ most \in Nat /\ read[0] = Beginning(b)
        /\ \A n \in 0 .. most - 1 : read[n + 1] = ReadSymbol(b, read[n])
        /\ \A n \in 0 .. most : read[n].end = "open" => OpenOK(read[n], b)
    BY ReadingsAre, ReadingsOK DEF OpenAfter
  <1> HIDE DEF most, read
  <1>1. 0 \in S
    <2>1. read[0] \in Readable
      BY <1>0, BeginningOK
    <2>2. Grows(read[0], read[0])
      BY <2>1, GrowsOn
    <2>3. \A j \in 0 .. 0 : j = 0
      OBVIOUS
    <2> QED
      BY <2>1, <2>2, <2>3
  <1>2. \A n \in S \cap Nat : n + 1 \in S
    <2> SUFFICES ASSUME NEW n \in Nat, n \in S, n + 1 <= most PROVE Good(n + 1)
      <3> HIDE DEF Good
      <3> QED
        OBVIOUS
    <2>1. Good(n) /\ n \in 0 .. most - 1 /\ n \in 0 .. most
      BY <1>0
    <2> DEFINE m == read[n]
               e == read[n + 1]
    <2>2. e = ReadSymbol(b, m) /\ m \in Readable /\ (m.end = "open" => OpenOK(m, b))
      BY <1>0, <2>1
    <2>3. e \in Readable /\ Grows(m, e) /\ (m.end # "open" => e = m)
      BY <2>2, ReadingOn
    <2>4. ASSUME NEW j \in 0 .. n + 1
          PROVE  Grows(read[j], e) /\ read[j] \in Readable /\ (read[j].end # "open" => e = read[j])
      <3>1. CASE j = n + 1
        BY <2>3, <3>1, GrowsOn
      <3>2. CASE j # n + 1
        <4>1. j \in 0 .. n
          BY <3>2
        <4>2. Grows(read[j], m) /\ read[j] \in Readable /\ (read[j].end # "open" => m = read[j])
          BY <2>1, <4>1
        <4>3. Grows(read[j], e)
          BY <2>2, <2>3, <4>2, GrowsOn
        <4> QED
          BY <2>3, <4>2, <4>3
      <3> QED
        BY <3>1, <3>2
    <2> QED
      BY <2>3, <2>4
  <1> HIDE DEF S, Good
  <1>3. Nat \subseteq S
    BY <1>1, <1>2, NaturalInduction
  <1>4. k \in S /\ k <= most
    BY <1>0, <1>3 DEF most
  <1>5. Good(k)
    BY <1>4 DEF S
  <1> QED
    BY <1>5 DEF Good, read

(* The steps of the reading that gives the meaning of b.                    *)
Read(b) == {Readings(b)[n] : n \in 0 .. MostSymbols(b)}

(* Every step of the reading is a reading, and an open one has a next.      *)
LEMMA ReadIs ==
    ASSUME NEW b \in Seq(Bytes)
    PROVE  /\ Beginning(b) \in Read(b)
           /\ \A m \in Read(b) : /\ m \in Readable
                                 /\ m.end = "open" => /\ OpenOK(m, b)
                                                      /\ ReadSymbol(b, m) \in Read(b)
                                                      /\ Len(m.need) + 1 <= MostSymbols(b)
                                                      /\ m = Readings(b)[Len(m.need)]
  <1> DEFINE most == MostSymbols(b)
             read == Readings(b)
  <1>0. /\ most \in Nat /\ read[0] = Beginning(b)
        /\ \A n \in 0 .. most - 1 : read[n + 1] = ReadSymbol(b, read[n])
        /\ read[most].end # "open"
    BY ReadingsAre, ReadingsEnd
  <1>1. Beginning(b) \in Read(b)
    BY <1>0 DEF Read
  <1>2. ASSUME NEW m \in Read(b)
        PROVE  /\ m \in Readable
               /\ m.end = "open" => /\ OpenOK(m, b) /\ ReadSymbol(b, m) \in Read(b)
                                    /\ Len(m.need) + 1 <= most /\ m = read[Len(m.need)]
    <2>1. PICK n \in 0 .. most : m = read[n]
      BY DEF Read
    <2>2. m \in Readable
      BY <2>1, ReadingsGrow
    <2>3. ASSUME m.end = "open"
          PROVE  /\ OpenOK(m, b) /\ ReadSymbol(b, m) \in Read(b)
                 /\ Len(m.need) + 1 <= most /\ m = read[Len(m.need)]
      <3>1. OpenOK(m, b) /\ Len(m.need) = n
        BY <2>1, <2>3, ReadingsOK DEF OpenAfter
      <3>2. n \in 0 .. most - 1 /\ n + 1 \in 0 .. most
        BY <1>0, <2>1, <2>3
      <3>3. ReadSymbol(b, m) = read[n + 1]
        BY <1>0, <2>1, <3>2
      <3>4. ReadSymbol(b, m) \in Read(b)
        BY <3>2, <3>3 DEF Read
      <3> QED
        BY <1>0, <2>1, <3>1, <3>2, <3>4
    <2> QED
      BY <2>2, <2>3
  <1> QED
    BY <1>1, <1>2

(* The meaning is what the reading ends with: it has grown out of every     *)
(* step of the reading, the last open one of which makes no more sense.     *)
LEMMA MeaningIs ==
    ASSUME NEW b \in Seq(Bytes)
    PROVE  /\ Meaning(b) \in Readable /\ Meaning(b).end # "open"
           /\ \A m \in Read(b) : /\ Grows(m, Meaning(b))
                                 /\ m.end # "open" => m = Meaning(b)
           /\ \/ Meaning(b) = Beginning(b)
              \/ \E m \in Read(b) : /\ m.end = "open" /\ ~Sensible(b, m)
                                    /\ Meaning(b) = ReadSymbol(b, m)
  <1> DEFINE most == MostSymbols(b)
             read == Readings(b)
             T == {n \in 0 .. most : read[n].end # "open"}
             at == CHOOSE n \in 0 .. most : read[n].end # "open"
  <1>0. /\ most \in Nat /\ read[0] = Beginning(b)
        /\ \A n \in 0 .. most - 1 : read[n + 1] = ReadSymbol(b, read[n])
        /\ read[most].end # "open"
    BY ReadingsAre, ReadingsEnd
  <1>1. Meaning(b) = read[at]
    BY DEF Meaning
  <1> HIDE DEF read, most
  <1>2. at \in 0 .. most /\ read[at].end # "open"
    BY <1>0
  <1> HIDE DEF at
  <1>3. \A k \in 0 .. most : /\ read[k] \in Readable
                             /\ \A j \in 0 .. k : /\ Grows(read[j], read[k])
                                                  /\ read[j].end # "open" => read[k] = read[j]
    BY ReadingsGrow DEF read, most
  <1>4. ASSUME NEW n \in 0 .. most
        PROVE  Grows(read[n], read[at]) /\ (read[n].end # "open" => read[n] = read[at])
    <2>1. CASE n <= at
      <3>1. n \in 0 .. at
        BY <1>2, <2>1
      <3> QED
        BY <1>2, <1>3, <3>1
    <2>2. CASE ~(n <= at)
      <3>1. at \in 0 .. n
        BY <1>2, <2>2
      <3>2. read[n] = read[at]
        BY <1>2, <1>3, <3>1
      <3>3. Grows(read[at], read[at])
        BY <1>2, <1>3, GrowsOn
      <3> QED
        BY <3>2, <3>3
    <2> QED
      BY <2>1, <2>2
  <1>5. PICK n \in T : \A k \in T : n <= k
    <2>1. T \subseteq Nat /\ T # {}
      BY <1>0, <1>2
    <2> HIDE DEF T
    <2> QED
      BY <2>1, LeastNatural
  <1>6. n \in 0 .. most /\ read[n].end # "open" /\ read[n] = read[at]
    BY <1>4, <1>5
  <1>7. \/ read[at] = Beginning(b)
        \/ \E m \in Read(b) : /\ m.end = "open" /\ ~Sensible(b, m)
                              /\ read[at] = ReadSymbol(b, m)
    <2>1. CASE n = 0
      BY <1>0, <1>6, <2>1
    <2>2. CASE n # 0
      <3> DEFINE k == n - 1
      <3>1. k \in 0 .. most - 1 /\ k \in 0 .. most /\ k + 1 = n /\ ~(n <= k)
        BY <1>0, <1>6, <2>2
      <3> HIDE DEF k
      <3>2. k \notin T
        BY <1>5, <3>1
      <3>3. read[k].end = "open"
        BY <3>1, <3>2
      <3>4. read[at] = ReadSymbol(b, read[k])
        BY <1>0, <1>6, <3>1
      <3>5. read[k] \in Read(b)
        BY <3>1 DEF Read, read, most
      <3>6. ~Sensible(b, read[k])
        <4> SUFFICES ASSUME Sensible(b, read[k]) PROVE FALSE
          OBVIOUS
        <4>1. OpenOK(read[k], b)
          BY <3>3, <3>5, ReadIs
        <4>2. OpenOK(ReadSymbol(b, read[k]), b)
          BY <4>1, EnlargedOK
        <4> QED
          BY <1>2, <3>4, <4>2 DEF OpenOK
      <3> QED
        BY <3>3, <3>4, <3>5, <3>6
    <2> QED
      BY <2>1, <2>2
  <1>8. \A m \in Read(b) : \E k \in 0 .. most : m = read[k]
    BY DEF Read, read, most
  <1> QED
    BY <1>1, <1>2, <1>3, <1>4, <1>7, <1>8

(* The dictionary behind pos holds the last letters of the first n of t.    *)
Holds(dict, pos, n, t) ==
    \A j \in 1 .. DicBufSize : j <= n => dict[Behind(pos, j)] = t[n - j + 1]

(* The cells of a cyclic dictionary.                                        *)
LEMMA BehindIs ==
    /\ \A pos \in 0 .. DicBufSize, j \in 1 .. DicBufSize :
            /\ Behind(pos, j) \in Places
            /\ j <= pos => Behind(pos, j) = pos - j
    /\ \A pos \in Places : /\ Behind(pos + 1, 1) = pos
                           /\ \A j \in 2 .. DicBufSize :
                                /\ Behind(pos + 1, j) = Behind(pos, j - 1)
                                /\ Behind(pos, j - 1) # pos
    /\ \A j \in 1 .. DicBufSize : Behind(DicBufSize, j) = Behind(0, j)
  <1>0. DicBufSize \in Nat \ {0}
    BY DecoderAssumption
  <1>1. ASSUME NEW pos \in 0 .. DicBufSize, NEW j \in 1 .. DicBufSize
        PROVE  Behind(pos, j) \in Places /\ (j <= pos => Behind(pos, j) = pos - j)
    BY <1>0 DEF Behind, Places
  <1>2. ASSUME NEW pos \in Places, NEW j \in 2 .. DicBufSize
        PROVE  Behind(pos + 1, j) = Behind(pos, j - 1) /\ Behind(pos, j - 1) # pos
    BY <1>0 DEF Behind, Places
  <1>3. ASSUME NEW pos \in Places PROVE Behind(pos + 1, 1) = pos
    BY <1>0 DEF Behind, Places
  <1>4. ASSUME NEW j \in 1 .. DicBufSize PROVE Behind(DicBufSize, j) = Behind(0, j)
    BY <1>0 DEF Behind
  <1> QED
    BY <1>1, <1>2, <1>3, <1>4

(* One letter more.                                                         *)
LEMMA HoldsNext ==
    ASSUME NEW dict \in [Places -> Cells], NEW pos, pos \in Places, NEW n, n \in Nat, NEW t,
           Holds(dict, pos, n, t)
    PROVE  Holds([dict EXCEPT ![pos] = t[n + 1]], pos + 1, n + 1, t)
  <1> DEFINE more == [dict EXCEPT ![pos] = t[n + 1]]
  <1>0. DicBufSize \in Nat \ {0} /\ pos \in Nat
    BY DecoderAssumption DEF Places
  <1>1. more[pos] = t[n + 1] /\ \A i \in Places : i # pos => more[i] = dict[i]
    OBVIOUS
  <1> HIDE DEF more
  <1>2. ASSUME NEW j \in 1 .. DicBufSize, j <= n + 1
        PROVE  more[Behind(pos + 1, j)] = t[(n + 1) - j + 1]
    <2>1. CASE j = 1
      <3>1. Behind(pos + 1, j) = pos /\ (n + 1) - j + 1 = n + 1
        BY <2>1, BehindIs
      <3> QED
        BY <1>1, <3>1
    <2>2. CASE j # 1
      <3> DEFINE i == j - 1
      <3>1. j \in 2 .. DicBufSize /\ i \in 1 .. DicBufSize /\ i <= n
            /\ (n + 1) - j + 1 = n - i + 1
        BY <1>0, <1>2, <2>2
      <3>2. Behind(pos + 1, j) = Behind(pos, i) /\ Behind(pos, i) # pos
        BY <3>1, BehindIs
      <3>3. pos \in 0 .. DicBufSize
        BY <1>0 DEF Places
      <3> HIDE DEF i
      <3>4. Behind(pos, i) \in Places
        BY <3>1, <3>3, BehindIs
      <3>5. dict[Behind(pos, i)] = t[n - i + 1]
        BY <3>1 DEF Holds
      <3> QED
        BY <1>1, <3>1, <3>2, <3>4, <3>5
    <2> QED
      BY <2>1, <2>2
  <1> QED
    BY <1>2 DEF Holds, more

(* A copy writes what the text has, if the text repeats it.                 *)
LEMMA HoldsCopy ==
    ASSUME NEW dict, dict \in [Places -> Cells], NEW pos, pos \in 0 .. DicBufSize,
           NEW n, n \in Nat, NEW t, t \in Seq(Letters), NEW len, len \in Nat,
           pos + len <= DicBufSize, n + len <= Len(t), NEW rep0, rep0 \in 1 .. DicBufSize,
           Repeats(t, n + 1, rep0), Holds(dict, pos, n, t)
    PROVE  /\ Holds(Copied(dict, pos, len, rep0), pos + len, n + len, t)
           /\ Copied(dict, pos, len, rep0) \in [Places -> Cells]
           /\ \A i \in 0 .. pos - 1 : Copied(dict, pos, len, rep0)[i] = dict[i]
  <1>0. DicBufSize \in Nat \ {0} /\ pos \in Nat /\ Len(t) \in Nat /\ rep0 \in Nat
    BY DecoderAssumption, LenProperties
  <1>1. PICK cell : CopyOf(cell, dict, pos, len, rep0)
    BY CopiedIs
  <1> DEFINE Good(k) == /\ cell[k] \in [Places -> Cells] /\ Holds(cell[k], pos + k, n + k, t)
                        /\ \A i \in 0 .. pos - 1 : cell[k][i] = dict[i]
             S == {k \in Nat : k <= len => Good(k)}
  <1>2. 0 \in S
    <2>1. pos + 0 = pos /\ n + 0 = n /\ cell[0] = dict
      BY <1>0, <1>1 DEF CopyOf
    <2> QED
      BY <2>1
  <1>3. \A k \in S \cap Nat : k + 1 \in S
    <2> SUFFICES ASSUME NEW k \in Nat, k \in S, k + 1 <= len PROVE Good(k + 1)
      <3> HIDE DEF Good
      <3> QED
        OBVIOUS
    <2> DEFINE old == cell[k]
               at == pos + k
               m == n + k
               from == Behind(at, rep0)
    <2>1. old \in [Places -> Cells] /\ Holds(old, at, m, t)
          /\ \A i \in 0 .. pos - 1 : old[i] = dict[i]
      OBVIOUS
    <2>2. at \in Places /\ at \in 0 .. DicBufSize /\ m \in Nat /\ m + 1 <= Len(t)
          /\ pos + (k + 1) = at + 1 /\ n + (k + 1) = m + 1 /\ pos + (k + 1) - 1 = at
          /\ m + 1 \in n + 1 .. Len(t) /\ (\A i \in 0 .. pos - 1 : i # at /\ i \in Places)
      BY <1>0 DEF Places
    <2>3. k \in 0 .. len - 1
      OBVIOUS
    <2>4. cell[k + 1] = [old EXCEPT ![at] = old[from]]
      BY <1>1, <2>2, <2>3 DEF CopyOf
    <2> HIDE DEF old, at, m, from
    <2>5. rep0 < m + 1 /\ t[m + 1] = t[(m + 1) - rep0]
      BY <2>2 DEF Repeats
    <2>6. from \in Places
      BY <2>2, BehindIs DEF from
    <2>7. old[from] = t[m + 1]
      <3>1. rep0 <= m /\ (m + 1) - rep0 = m - rep0 + 1
        BY <1>0, <2>2, <2>5
      <3>2. old[from] = t[m - rep0 + 1]
        BY <2>1, <3>1 DEF Holds, from
      <3> QED
        BY <2>5, <3>1, <3>2
    <2>8. Holds([old EXCEPT ![at] = t[m + 1]], at + 1, m + 1, t)
      BY <2>1, <2>2, HoldsNext
    <2>9. cell[k + 1] \in [Places -> Cells]
      BY <2>1, <2>2, <2>4, <2>6
    <2>10. \A i \in 0 .. pos - 1 : cell[k + 1][i] = dict[i]
      BY <2>1, <2>2, <2>4
    <2> QED
      BY <2>2, <2>4, <2>7, <2>8, <2>9, <2>10
  <1> HIDE DEF S, Good
  <1>4. Nat \subseteq S
    BY <1>2, <1>3, NaturalInduction
  <1>5. Good(len)
    BY <1>4 DEF S
  <1>6. Copied(dict, pos, len, rep0) = cell[len]
    BY <1>1 DEF CopyOf
  <1> QED
    BY <1>5, <1>6 DEF Good

(* The end of the dictionary and its beginning are the same place.          *)
LEMMA HoldsWrap ==
    ASSUME NEW dict, NEW n, NEW t, Holds(dict, DicBufSize, n, t)
    PROVE  Holds(dict, 0, n, t)
  BY BehindIs DEF Holds

(* A dictionary that holds a text holds it when it has been lengthened.     *)
LEMMA HoldsLonger ==
    ASSUME NEW dict, NEW pos, NEW n, n \in Nat, NEW t, NEW u, Len(t) \in Nat,
           Prefix(t, u), n <= Len(t), Holds(dict, pos, n, t)
    PROVE  Holds(dict, pos, n, u)
  <1>1. ASSUME NEW j \in 1 .. DicBufSize, j <= n
        PROVE  dict[Behind(pos, j)] = u[n - j + 1]
    <2>1. n - j + 1 \in 1 .. Len(t)
      BY <1>1, DecoderAssumption
    <2> QED
      BY <1>1, <2>1 DEF Holds, Prefix
  <1> QED
    BY <1>1 DEF Holds

(* What of the text is new in the dictionary since pos0.                    *)
Since(dict, pos0, pos, n0, t) ==
    \A i \in pos0 .. pos - 1 : dict[i] = t[n0 + (i - pos0) + 1]

(* A dictionary that holds the text up to here holds what is new in it.     *)
LEMMA HoldsSince ==
    ASSUME NEW dict, NEW pos, pos \in 0 .. DicBufSize, NEW n, n \in Nat, NEW t,
           Holds(dict, pos, n, t), NEW pos0, pos0 \in 0 .. pos, NEW n0, n0 \in Nat,
           n = n0 + (pos - pos0)
    PROVE  Since(dict, pos0, pos, n0, t)
  <1> SUFFICES ASSUME NEW i \in pos0 .. pos - 1 PROVE dict[i] = t[n0 + (i - pos0) + 1]
    BY DEF Since
  <1> DEFINE j == pos - i
  <1>1. /\ j \in 1 .. DicBufSize /\ j <= n /\ j <= pos /\ pos - j = i
        /\ n - j + 1 = n0 + (i - pos0) + 1
    BY DecoderAssumption
  <1> HIDE DEF j
  <1>2. Behind(pos, j) = i
    BY <1>1, BehindIs
  <1> QED
    BY <1>1, <1>2 DEF Holds

(* The decoder agrees with a reading: its state and distances are those of  *)
(* the reading, its dictionary holds the text as far as it has been written *)
(* and the rest is a match that a limit has cut off, ...                    *)
SameText(d, dict, m) ==
    /\ d.state = m.state /\ d.reps = m.reps
    /\ d.processedPos <= Len(m.text)
    /\ Holds(dict, d.dicPos, d.processedPos, m.text)
    /\ Repeats(m.text, d.processedPos + 1, d.reps[1])
    /\ d.checkDicSize # 0 => DicBufSize <= d.processedPos

(* ... and its range decoder is at the same place, or behind an end mark,   *)
(* which comes next.                                                        *)
CoderAt(d, q, at) == [range |-> d.range, code |-> d.code, buf |-> at, probs |-> q]

Marked(d) == d.remainLen >= kMatchSpecLenStart

MarkNext(b, m, at, code) ==
    /\ Mark(NextWalk(b, m).w) /\ NextCoder(b, m).buf = at /\ at <= Len(b)
    /\ NextCoder(b, m).code = code

SamePlace(d, q, at, m, b) ==
    /\ Marked(d) => Len(m.text) = d.processedPos /\ MarkNext(b, m, at, d.code)
    /\ ~Marked(d) => /\ Len(m.text) = d.processedPos + d.remainLen
                     /\ m.coder = Normalized(CoderAt(d, q, at), b)

Agrees(d, dict, q, at, m, b) == SameText(d, dict, m) /\ SamePlace(d, q, at, m, b)

(* What LzmaDec_WriteRem leaves.                                            *)
LEMMA RemFields ==
    ASSUME NEW d, d \in Decoders, NEW limit, limit \in 0 .. DicBufSize, d.dicPos <= limit
    PROVE  LET e == WriteRem(d, limit)
               len == RemLen(d, limit)
           IN  /\ len \in Nat /\ d.dicPos + len <= limit
               /\ e.dicPos = d.dicPos + len /\ e.processedPos = d.processedPos + len
               /\ e.remainLen = d.remainLen - len
               /\ len # 0 => ~Marked(d) /\ len <= d.remainLen
               /\ ~Marked(d) => e.dicPos = limit \/ e.remainLen = 0
               /\ Marked(e) = Marked(d)
               /\ e.range = d.range /\ e.code = d.code /\ e.state = d.state /\ e.reps = d.reps
               /\ e.needFlush = d.needFlush /\ e.needInitState = d.needInitState
               /\ \/ e.checkDicSize = d.checkDicSize
                  \/ len # 0 /\ DicBufSize - d.processedPos <= len
                  \/ DicBufSize <= d.processedPos
               /\ e.checkDicSize \in {0, DicBufSize}
  <1> DEFINE e == WriteRem(d, limit)
             len == RemLen(d, limit)
             full == IF /\ d.remainLen \in 1 .. kMatchSpecLenStart - 1
                        /\ d.checkDicSize = 0 /\ DicBufSize - d.processedPos <= len
                     THEN DicBufSize ELSE d.checkDicSize
  <1>1. /\ d.remainLen \in Nat /\ d.dicPos \in Nat /\ d.processedPos \in Nat
        /\ DicBufSize \in Nat \ {0} /\ limit \in Nat /\ kMatchSpecLenStart \in Nat
        /\ d.checkDicSize \in {0, DicBufSize}
    BY DecoderAssumption, MarkLength DEF Decoders
  <1>2. /\ len \in Nat /\ d.dicPos + len <= limit /\ (len # 0 => ~Marked(d) /\ len <= d.remainLen)
        /\ ~Marked(d) => d.dicPos + len = limit \/ d.remainLen - len = 0
        /\ len <= d.remainLen
        /\ Marked(d) => len = 0
    BY <1>1 DEF RemLen, AtMost, Marked
  <1>3. e = [d EXCEPT !.checkDicSize = full, !.processedPos = @ + len,
                      !.remainLen = @ - len, !.dicPos = @ + len]
    BY DEF WriteRem
  <1> HIDE DEF len, full
  <1>4. /\ e.dicPos = d.dicPos + len /\ e.processedPos = d.processedPos + len
        /\ e.remainLen = d.remainLen - len /\ e.checkDicSize = full
        /\ e.range = d.range /\ e.code = d.code /\ e.state = d.state /\ e.reps = d.reps
        /\ e.needFlush = d.needFlush /\ e.needInitState = d.needInitState
    BY <1>3 DEF Decoders
  <1> HIDE DEF e
  <1>5. Marked(e) = Marked(d)
    BY <1>1, <1>2, <1>4 DEF Marked
  <1>6. /\ \/ full = d.checkDicSize
           \/ len # 0 /\ DicBufSize - d.processedPos <= len
           \/ DicBufSize <= d.processedPos
        /\ full \in {0, DicBufSize}
    BY <1>1, <1>2 DEF full
  <1> QED
    BY <1>1, <1>2, <1>4, <1>5, <1>6 DEF e, len

(* LzmaDec_WriteRem copies what the text says.                              *)
LEMMA RemAgrees ==
    ASSUME NEW d, NEW dict, DecoderOK(d, dict), ~d.needInitState, NEW limit,
           limit \in 0 .. DicBufSize, d.dicPos <= limit,
           NEW q, NEW at, NEW b, NEW m, m \in Readable, Agrees(d, dict, q, at, m, b)
    PROVE  Agrees(WriteRem(d, limit), Copied(dict, d.dicPos, RemLen(d, limit), d.reps[1]),
                  q, at, m, b)
  <1> DEFINE e == WriteRem(d, limit)
             len == RemLen(d, limit)
             n == d.processedPos
             more == Copied(dict, d.dicPos, len, d.reps[1])
  <1>1. /\ d \in Decoders /\ dict \in [Places -> Cells] /\ n \in Nat /\ d.dicPos \in 0 .. DicBufSize
        /\ m.text \in Seq(Letters) /\ Len(m.text) \in Nat /\ d.remainLen \in Nat
        /\ kMatchSpecLenStart \in Nat /\ DicBufSize \in Nat
    BY LenProperties, MarkLength, DecoderAssumption DEF DecoderOK, Filled, Decoders, Readable
  <1>2. d.reps[1] \in 1 .. DicBufSize
    <2>1. d.reps[1] \in 1 .. Back(d) /\ Back(d) \in 1 .. DicBufSize
      BY FirstRep
    <2> QED
      BY <1>1, <2>1
  <1>3. /\ len \in Nat /\ d.dicPos + len <= limit
        /\ e.dicPos = d.dicPos + len /\ e.processedPos = n + len
        /\ e.remainLen = d.remainLen - len
        /\ len # 0 => ~Marked(d) /\ len <= d.remainLen
        /\ Marked(e) = Marked(d)
        /\ e.range = d.range /\ e.code = d.code /\ e.state = d.state /\ e.reps = d.reps
        /\ \/ e.checkDicSize = d.checkDicSize
           \/ len # 0 /\ DicBufSize - n <= len
           \/ DicBufSize <= n
    BY <1>1, RemFields
  <1> HIDE DEF e, len, n, more
  <1>4. SameText(d, dict, m) /\ SamePlace(d, q, at, m, b)
    BY DEF Agrees
  <1>5. n + len <= Len(m.text) /\ (~Marked(d) => Len(m.text) = n + d.remainLen)
    BY <1>1, <1>3, <1>4 DEF SameText, SamePlace, n
  <1>6. Holds(more, d.dicPos + len, n + len, m.text)
    <2>1. /\ Repeats(m.text, n + 1, d.reps[1]) /\ Holds(dict, d.dicPos, n, m.text)
          /\ d.dicPos + len <= DicBufSize
      BY <1>1, <1>3, <1>4 DEF SameText, n
    <2> QED
      BY <1>1, <1>2, <1>3, <1>5, <2>1, HoldsCopy DEF more
  <1>7. Repeats(m.text, (n + len) + 1, d.reps[1])
    <2>1. \A k \in (n + len) + 1 .. Len(m.text) : k \in n + 1 .. Len(m.text)
      BY <1>1, <1>3
    <2> QED
      BY <1>4, <2>1 DEF SameText, Repeats, n
  <1>8. e.checkDicSize # 0 => DicBufSize <= n + len
    <2>1. d.checkDicSize # 0 => DicBufSize <= n
      BY <1>4 DEF SameText, n
    <2> QED
      BY <1>1, <1>3, <2>1
  <1>9. SameText(e, more, m)
    <2>1. d.state = m.state /\ d.reps = m.reps
      BY <1>4 DEF SameText
    <2> QED
      BY <1>3, <1>5, <1>6, <1>7, <1>8, <2>1 DEF SameText
  <1>10. SamePlace(e, q, at, m, b)
    <2>1. CoderAt(e, q, at) = CoderAt(d, q, at)
      BY <1>3 DEF CoderAt
    <2>2. Marked(d) => len = 0
      BY <1>3
    <2>3. Marked(d) => Len(m.text) = n + len /\ MarkNext(b, m, at, e.code)
      BY <1>1, <1>3, <1>4, <2>2 DEF SamePlace, n
    <2>4. ~Marked(d) => Len(m.text) = (n + len) + (d.remainLen - len)
      BY <1>1, <1>3, <1>5
    <2>5. ~Marked(d) => m.coder = Normalized(CoderAt(d, q, at), b)
      BY <1>4 DEF SamePlace
    <2> QED
      BY <1>3, <2>1, <2>3, <2>4, <2>5 DEF SamePlace
  <1> QED
    BY <1>9, <1>10 DEF Agrees, e, more, len

(* So what the next symbol depends on is what it depends on in the text.    *)
LEMMA KnownAgrees ==
    ASSUME NEW d, NEW dict, DecoderOK(d, dict), NEW m, NEW b, OpenOK(m, b),
           SameText(d, dict, m), Len(m.text) = d.processedPos
    PROVE  /\ Known(d, dict) = KnownAfter(m)
           /\ (d.checkDicSize = 0 /\ d.processedPos = 0) <=> Len(m.text) = 0
  <1> DEFINE n == d.processedPos
             t == m.text
  <1>1. /\ d \in Decoders /\ n \in Nat /\ n = Len(t) /\ d.dicPos \in 0 .. DicBufSize
        /\ m \in Readable /\ t \in Seq(Letters) /\ m.reps[1] \in 1 .. Farthest(m)
        /\ d.state = m.state /\ d.reps = m.reps /\ DicBufSize \in Nat \ {0}
        /\ d.checkDicSize # 0 => DicBufSize <= n
        /\ Holds(dict, d.dicPos, n, t)
    BY DecoderAssumption
    DEF DecoderOK, Decoders, OpenOK, Readable, RepsOK, SameText, LZMA_NUM_REPS
  <1>2. (t = << >>) <=> n = 0
    BY <1>1, EmptySeq
  <1>3. (d.checkDicSize = 0 /\ n = 0) <=> t = << >>
    BY <1>1, <1>2
  <1> DEFINE prev == (IF d.dicPos = 0 THEN DicBufSize ELSE d.dicPos) - 1
             match == Behind(d.dicPos, d.reps[1])
  <1>4. t # << >> => dict[prev] = t[n]
    <2> SUFFICES ASSUME t # << >> PROVE dict[prev] = t[n]
      OBVIOUS
    <2>1. 1 \in 1 .. DicBufSize /\ 1 <= n /\ n - 1 + 1 = n
      BY <1>1, <1>2
    <2>2. dict[Behind(d.dicPos, 1)] = t[n]
      BY <1>1, <2>1 DEF Holds
    <2>3. Behind(d.dicPos, 1) = prev
      BY <1>1 DEF Behind
    <2> QED
      BY <2>2, <2>3
  <1>5. ~IsCharState(m.state) => dict[match] = t[n - m.reps[1] + 1]
    <2> SUFFICES ASSUME ~IsCharState(m.state) PROVE dict[match] = t[n - m.reps[1] + 1]
      OBVIOUS
    <2>1. t # << >>
      BY DEF OpenOK, IsCharState
    <2>2. Farthest(m) \in 1 .. DicBufSize /\ Farthest(m) \in 1 .. n
      BY <1>1, <2>1, FarthestIs
    <2>3. m.reps[1] \in 1 .. DicBufSize /\ m.reps[1] <= n
      BY <1>1, <2>2
    <2> QED
      BY <1>1, <2>3 DEF Holds
  <1> HIDE DEF prev, match, n
  <1>6. Known(d, dict) =
          [state |-> d.state, pos |-> n,
           prevByte |-> IF d.checkDicSize = 0 /\ n = 0 THEN 0 ELSE dict[prev],
           matchByte |-> IF IsCharState(d.state) THEN 0 ELSE dict[match]]
    BY DEF Known, prev, match, n
  <1>7. KnownAfter(m) =
          [state |-> m.state, pos |-> n,
           prevByte |-> IF t = << >> THEN 0 ELSE t[n],
           matchByte |-> IF IsCharState(m.state) THEN 0 ELSE t[n - m.reps[1] + 1]]
    BY <1>1 DEF KnownAfter, Last
  <1>8. (IF d.checkDicSize = 0 /\ n = 0 THEN 0 ELSE dict[prev]) =
        (IF t = << >> THEN 0 ELSE t[n])
    BY <1>3, <1>4
  <1>9. (IF IsCharState(d.state) THEN 0 ELSE dict[match]) =
        (IF IsCharState(m.state) THEN 0 ELSE t[n - m.reps[1] + 1])
    BY <1>1, <1>5
  <1>10. Known(d, dict) = KnownAfter(m)
    BY <1>1, <1>6, <1>7, <1>8, <1>9
  <1>11. (d.checkDicSize = 0 /\ n = 0) <=> Len(t) = 0
    BY <1>1, <1>2, <1>3
  <1> QED
    BY <1>10, <1>11 DEF n

(* What a symbol leaves.                                                    *)
LEMMA AfterIs ==
    ASSUME NEW d, d \in Decoders, NEW w, WalkOK(w), NEW c, NEW limit, limit \in Nat,
           d.dicPos < limit
    PROVE  LET e == After(d, w, c, limit)
               part == Part(d, w, limit)
           IN  /\ part \in Nat /\ part <= Whole(w) /\ d.dicPos + part <= limit
               /\ part = Whole(w) \/ d.dicPos + part = limit
               /\ Whole(w) = 1 => part = 1
               /\ Whole(w) \in Nat /\ Whole(w) < kMatchSpecLenStart
               /\ e.dicPos = d.dicPos + part /\ e.processedPos = d.processedPos + part
               /\ e.range = c.range /\ e.code = c.code /\ e.checkDicSize = d.checkDicSize
               /\ e.needFlush = d.needFlush /\ e.needInitState = d.needInitState
               /\ Mark(w) => /\ part = 0 /\ e.state = d.state /\ e.reps = d.reps
                             /\ e.remainLen = kMatchSpecLenStart + w.len
                             /\ Marked(e)
               /\ ~Mark(w) => /\ e.state = DecodedState(d.state, w)
                              /\ e.reps = DecodedReps(d.reps, w)
                              /\ e.remainLen = Whole(w) - part /\ ~Marked(e)
  <1> DEFINE e == After(d, w, c, limit)
             part == Part(d, w, limit)
             state1 == IF Mark(w) THEN d.state ELSE DecodedState(d.state, w)
             reps1 == IF Mark(w) THEN d.reps ELSE DecodedReps(d.reps, w)
             left == IF Mark(w) THEN kMatchSpecLenStart + w.len ELSE Whole(w) - part
  <1>1. /\ d.dicPos \in Nat /\ w.len \in 0 .. LengthSymbols - 1 /\ LengthSymbols \in Nat
        /\ kMatchSpecLenStart = 2 + LengthSymbols
        /\ w.kind \in {"literal", "short", "rep", "match"}
    BY MarkLength DEF WalkOK, WalkTypes, Decoders
  <1>2. /\ Whole(w) \in Nat /\ Whole(w) < kMatchSpecLenStart /\ (Mark(w) => Whole(w) = 0)
    <2>1. CASE Mark(w)
      BY <1>1, <2>1 DEF Whole, Mark
    <2>2. CASE ~Mark(w)
      BY <1>1, <2>2, MarkLength DEF Whole, LZMA_MATCH_LEN_MIN
    <2> QED
      BY <2>1, <2>2
  <1>3. /\ part \in Nat /\ part <= Whole(w) /\ d.dicPos + part <= limit
        /\ part = Whole(w) \/ d.dicPos + part = limit
        /\ Whole(w) = 1 => part = 1
        /\ Mark(w) => part = 0
    BY <1>1, <1>2 DEF Part, AtMost
  <1>4. e = [d EXCEPT !.range = c.range, !.code = c.code, !.dicPos = @ + part,
                      !.processedPos = @ + part, !.state = state1, !.reps = reps1,
                      !.remainLen = left]
    BY DEF After
  <1> HIDE DEF part, state1, reps1, left
  <1>5. /\ e.dicPos = d.dicPos + part /\ e.processedPos = d.processedPos + part
        /\ e.range = c.range /\ e.code = c.code /\ e.checkDicSize = d.checkDicSize
        /\ e.needFlush = d.needFlush /\ e.needInitState = d.needInitState
        /\ e.state = state1 /\ e.reps = reps1 /\ e.remainLen = left
    BY <1>4 DEF Decoders
  <1> HIDE DEF e
  <1>6. Mark(w) => left = kMatchSpecLenStart + w.len /\ left >= kMatchSpecLenStart
    BY <1>1 DEF left
  <1>7. ~Mark(w) => left = Whole(w) - part /\ ~(left >= kMatchSpecLenStart)
    BY <1>1, <1>2, <1>3 DEF left
  <1>8. /\ Mark(w) => state1 = d.state /\ reps1 = d.reps
        /\ ~Mark(w) => state1 = DecodedState(d.state, w) /\ reps1 = DecodedReps(d.reps, w)
    BY DEF state1, reps1
  <1> QED
    BY <1>2, <1>3, <1>5, <1>6, <1>7, <1>8 DEF Marked, e, part

(* A symbol is refused when the text has not what it refers to, or it is    *)
(* farther back than the dictionary reaches.                                *)
LEMMA UnfitIs ==
    ASSUME NEW d, d \in Decoders, NEW n, n = d.processedPos, NEW w, WalkOK(w),
           d.checkDicSize # 0 => DicBufSize <= n,
           d.checkDicSize = 0 => n < DicBufSize
    PROVE  Unfit(d, w) <=> LeadsNowhere(n, w)
  <1>1. /\ n \in Nat /\ DicBufSize \in Nat \ {0} /\ d.checkDicSize \in {0, DicBufSize}
        /\ w.distance \in Nat
    BY DecoderAssumption DEF Decoders, WalkOK, WalkTypes
  <1> QED
    BY <1>1 DEF Unfit, LeadsNowhere

(* A decoded symbol is stored the way it lengthens the text: as far as      *)
(* the limit allows, and the rest of a match is left for later.             *)
LEMMA SymbolAgrees ==
    ASSUME NEW b, b \in Seq(Bytes), NEW m, OpenOK(m, b), Sensible(b, m),
           NEW d, NEW dict, DecoderOK(d, dict), NEW limit, limit \in 0 .. DicBufSize,
           d.dicPos < limit, SameText(d, dict, m), Len(m.text) = d.processedPos,
           NEW c
    PROVE  LET w == NextWalk(b, m).w
               e == After(d, w, c, limit)
           IN  /\ SameText(e, Written(d, w, dict, limit), Enlarged(b, m))
               /\ Len(Enlarged(b, m).text) = e.processedPos + e.remainLen
  <1> DEFINE w == NextWalk(b, m).w
             e == After(d, w, c, limit)
             n == d.processedPos
             part == Part(d, w, limit)
             m1 == Enlarged(b, m)
             t == m1.text
             more == Written(d, w, dict, limit)
             ds == NextReps(b, m)
  <1>1. /\ d \in Decoders /\ dict \in [Places -> Cells] /\ n \in Nat
        /\ limit \in Nat /\ limit <= DicBufSize
        /\ d.dicPos \in 0 .. DicBufSize /\ DicBufSize \in Nat \ {0} /\ d.dicPos \in Places
    BY DecoderAssumption DEF DecoderOK, Filled, Decoders, Places
  <1>2. WalkOK(w) /\ Done(w) /\ ~Mark(w)
    BY NextIs DEF Sensible
  <1>3. /\ part \in Nat /\ part <= Whole(w) /\ d.dicPos + part <= limit
        /\ Whole(w) = 1 => part = 1
        /\ Whole(w) \in Nat
        /\ e.dicPos = d.dicPos + part /\ e.processedPos = n + part
        /\ e.checkDicSize = d.checkDicSize
        /\ e.state = DecodedState(d.state, w) /\ e.reps = DecodedReps(d.reps, w)
        /\ e.remainLen = Whole(w) - part
    <2>1. d \in Decoders /\ WalkOK(w) /\ ~Mark(w) /\ limit \in Nat /\ d.dicPos < limit
      BY <1>1, <1>2
    <2> HIDE DEF w
    <2> QED
      BY ONLY <2>1, AfterIs DEF e, part, n
  <1>4. /\ OpenOK(m1, b) /\ t = NextText(b, m) /\ m1.reps = ds
        /\ m1.state = DecodedState(m.state, w) /\ Prefix(m.text, t)
    BY EnlargedOK
  <1>5. /\ t \in Seq(Letters) /\ Len(t) = Len(m.text) + Whole(w)
        /\ \A k \in 1 .. LZMA_NUM_REPS : ds[k] \in 1 .. Farthest(m)
        /\ w.kind = "literal" => Whole(w) = 1 /\ t[Len(m.text) + 1] = w.i - 2 ^ NumLitBits
        /\ w.kind # "literal" => Repeats(t, Len(m.text) + 1, ds[1])
    BY <1>4, SensibleText
  <1>6. /\ m.text \in Seq(Letters) /\ Len(m.text) = n /\ d.state = m.state /\ d.reps = m.reps
        /\ Holds(dict, d.dicPos, n, m.text)
        /\ d.checkDicSize # 0 => DicBufSize <= n
        /\ m \in Readable
    BY DEF SameText, OpenOK, Readable
  <1>7. ds = DecodedReps(d.reps, w)
    BY <1>6 DEF NextReps
  <1>8. more = IF w.kind = "literal" THEN [dict EXCEPT ![d.dicPos] = w.i - 2 ^ NumLitBits]
               ELSE Copied(dict, d.dicPos, part, ds[1])
    BY <1>7 DEF Written
  <1> HIDE DEF w, e, n, part, m1, t, more, ds
  <1>9. Len(t) = n + Whole(w) /\ Prefix(m.text, t)
    BY <1>4, <1>5, <1>6
  <1>10. Holds(dict, d.dicPos, n, t)
    BY <1>1, <1>6, <1>9, HoldsLonger
  <1>11. Holds(more, d.dicPos + part, n + part, t)
    <2>1. CASE w.kind = "literal"
      <3>1. more = [dict EXCEPT ![d.dicPos] = t[n + 1]] /\ part = 1
        BY <1>3, <1>5, <1>6, <1>8, <2>1
      <3> QED
        BY <1>1, <1>10, <3>1, HoldsNext
    <2>2. CASE w.kind # "literal"
      <3>1. ds[1] \in 1 .. DicBufSize
        <4>1. Farthest(m) \in 1 .. DicBufSize
          BY <1>6, FarthestIs
        <4> QED
          BY <1>1, <1>5, <4>1 DEF LZMA_NUM_REPS
      <3>2. Repeats(t, n + 1, ds[1]) /\ more = Copied(dict, d.dicPos, part, ds[1])
        BY <1>5, <1>6, <1>8, <2>2
      <3>3. d.dicPos + part <= DicBufSize /\ n + part <= Len(t)
        BY <1>1, <1>3, <1>9
      <3> QED
        BY <1>1, <1>3, <1>5, <1>10, <3>1, <3>2, <3>3, HoldsCopy
    <2> QED
      BY <2>1, <2>2
  <1>12. Repeats(t, (n + part) + 1, ds[1])
    <2>1. CASE w.kind = "literal"
      <3>1. Len(t) = n + 1 /\ part = 1
        BY <1>3, <1>5, <1>9, <2>1
      <3>2. \A k \in (n + part) + 1 .. Len(t) : FALSE
        BY <1>1, <3>1
      <3> QED
        BY <3>2 DEF Repeats
    <2>2. CASE w.kind # "literal"
      <3>1. Repeats(t, n + 1, ds[1])
        BY <1>5, <1>6, <2>2
      <3>2. \A k \in (n + part) + 1 .. Len(t) : k \in n + 1 .. Len(t)
        BY <1>1, <1>3, <1>9
      <3> QED
        BY <3>1, <3>2 DEF Repeats
    <2> QED
      BY <2>1, <2>2
  <1>13. SameText(e, more, m1)
    <2>1. e.state = m1.state /\ e.reps = m1.reps /\ e.reps = ds
      BY <1>3, <1>4, <1>6, <1>7
    <2>2. e.processedPos <= Len(t)
      BY <1>1, <1>3, <1>9
    <2>3. e.checkDicSize # 0 => DicBufSize <= e.processedPos
      BY <1>1, <1>3, <1>6
    <2> QED
      BY <1>3, <1>11, <1>12, <2>1, <2>2, <2>3 DEF SameText, t
  <1>14. Len(t) = e.processedPos + e.remainLen
    BY <1>1, <1>3, <1>9
  <1> QED
    BY <1>13, <1>14 DEF w, e, more, m1, t

(* The end mark changes neither text nor dictionary.                        *)
LEMMA MarkAgrees ==
    ASSUME NEW m, m \in Readable, NEW d, NEW dict, DecoderOK(d, dict), ~d.needInitState,
           NEW limit, limit \in 0 .. DicBufSize, d.dicPos < limit, SameText(d, dict, m),
           Len(m.text) = d.processedPos, NEW w, WalkOK(w), Mark(w), NEW c
    PROVE  /\ SameText(After(d, w, c, limit), Written(d, w, dict, limit), m)
           /\ Len(m.text) = After(d, w, c, limit).processedPos
           /\ Written(d, w, dict, limit) = dict
  <1> DEFINE e == After(d, w, c, limit)
  <1>1. /\ d \in Decoders /\ d.processedPos \in Nat /\ d.dicPos \in Nat /\ limit \in Nat
    BY DecoderAssumption DEF DecoderOK, Decoders
  <1>2. /\ Part(d, w, limit) = 0 /\ e.state = d.state /\ e.reps = d.reps
        /\ e.dicPos = d.dicPos + 0 /\ e.processedPos = d.processedPos + 0
        /\ e.checkDicSize = d.checkDicSize
    BY <1>1, AfterIs
  <1>3. Written(d, w, dict, limit) = dict
    BY <1>2, NothingCopied DEF Written, Mark
  <1>4. d.dicPos + 0 = d.dicPos /\ d.processedPos + 0 = d.processedPos
    BY <1>1
  <1> HIDE DEF e
  <1>5. SameText(e, dict, m)
    BY <1>2, <1>4 DEF SameText
  <1> QED
    BY <1>2, <1>3, <1>4, <1>5 DEF e

(* The decoder at work: what it has stored, or the locals of                *)
(* LzmaDec_DecodeReal; and how much of the input is behind it.              *)
InReal == pc \in {"real", "stored"}
Offset == taken - Len(tempBuf)
Cur == IF InReal THEN r.dec ELSE StateReady
CurProbs == IF InReal THEN dprobs ELSE ProbsReady
CurAt == IF InReal THEN Offset + r.buf ELSE Offset

(* The bytes in tempBuf, and what is new in the dictionary since this call  *)
(* of LzmaDec_DecodeToDic has begun.                                        *)
Fresh == IF pc \in {"idle", "toBuf"} THEN 0 ELSE Cur.dicPos - io.dicPos

AtHand ==
    /\ PieceOf(tempBuf, bytes, Offset)
    /\ InReal /\ ~r.fromTemp => tempBuf = << >>
    /\ Cur.processedPos = Len(output) + Fresh
    /\ InReal => p.dicPos <= r.dec.dicPos
    /\ pc = "toDic" => p.dicPos = io.dicLimit \/ p.remainLen = 0 \/ Marked(p)
    /\ pc = "real" => r.dec.remainLen = 0

(* The decoder follows a reading, ...                                       *)
Follows(m) ==
    /\ ret.ok /\ ~p.needFlush /\ AtHand
    /\ m \in Read(bytes) /\ m.end = "open"
    /\ Agrees(Cur, dic, CurProbs, CurAt, m, bytes)
    /\ Prefix(output, m.text)

(* ... or waits for the bytes that start the range decoder, ...             *)
Waits ==
    /\ ret.ok /\ p.needFlush /\ AtHand /\ ~InReal
    /\ taken = Len(tempBuf) /\ output = << >>
    /\ p.processedPos = 0 /\ p.dicPos = 0 /\ p.needInitState /\ p.remainLen = 0

(* ... or has found something that no encoder writes.                       *)
Pending(t) ==
    /\ Len(output) + (p.dicPos - io.dicPos) <= Len(t)
    /\ Since(dic, io.dicPos, p.dicPos, Len(output), t)

GivesUp(t) ==
    /\ ~ret.ok /\ pc \in {"idle", "leave"}
    /\ Prefix(output, t)
    /\ pc = "leave" => Pending(t)

OutputInv ==
    /\ meaning = NotDelivered => DecoderInit(<< >>)
    /\ meaning # NotDelivered =>
        /\ meaning = Meaning(bytes)
        /\ Waits \/ (\E m : Follows(m)) \/ GivesUp(meaning.text)

(* The types of all this.                                                   *)
LEMMA FollowsTypes ==
    ASSUME LzmaInv
    PROVE  /\ bytes \in Seq(Bytes) /\ tempBuf \in Seq(Bytes) /\ output \in Seq(Letters)
           /\ taken \in Nat /\ Len(tempBuf) \in Nat /\ Len(output) \in Nat /\ Offset \in Nat
           /\ Len(bytes) \in Nat /\ taken + io.inSize <= Len(bytes)
           /\ p \in Decoders /\ p.dicPos \in 0 .. DicBufSize /\ p.processedPos \in Nat
           /\ p.remainLen \in Nat /\ DecoderOK(p, dic) /\ dic \in [Places -> Cells]
           /\ r \in Locals /\ r.dec \in Decoders /\ r.buf \in Nat
           /\ io \in [inSize : Nat, outSize : Nat, dicPos : 0 .. DicBufSize,
                      dicLimit : 0 .. DicBufSize]
           /\ ret \in [status : Statuses, ok : BOOLEAN]
           /\ DicBufSize \in Nat \ {0}
           /\ pc \in {"toDic", "real", "stored", "leave"} => io.dicPos <= p.dicPos
           /\ p.needInitState => p.checkDicSize = 0 /\ p.processedPos = 0
           /\ StateReady \in Decoders
           /\ StateReady.dicPos = p.dicPos /\ StateReady.processedPos = p.processedPos
           /\ StateReady.remainLen = p.remainLen /\ StateReady.code = p.code
           /\ StateReady.range = p.range /\ StateReady.checkDicSize = p.checkDicSize
           /\ StateReady.needFlush = p.needFlush /\ ~StateReady.needInitState
           /\ Marked(StateReady) = Marked(p)
  <1>1. /\ DecoderOK(p, dic) /\ p \in Decoders /\ Filled(p, dic) /\ DistancesOK(p)
        /\ KeptOK(p)
    BY DEF LzmaInv, KeptInv, DecoderOK
  <1>2. /\ bytes \in Seq(Bytes) /\ tempBuf \in Seq(Bytes) /\ taken \in Nat
        /\ taken + io.inSize <= Len(bytes) /\ Len(tempBuf) <= taken
        /\ output \in Seq(Letters) /\ r \in Locals
        /\ io \in [inSize : Nat, outSize : Nat, dicPos : 0 .. DicBufSize,
                   dicLimit : 0 .. DicBufSize]
        /\ ret \in [status : Statuses, ok : BOOLEAN]
        /\ pc \in {"toDic", "real", "stored", "leave"} => io.dicPos <= p.dicPos
    BY DEF LzmaInv, InputInv, CallInv
  <1>3. /\ Len(tempBuf) \in Nat /\ Len(output) \in Nat /\ Len(bytes) \in Nat /\ Offset \in Nat
    BY <1>2, LenProperties DEF Offset
  <1>4. r.dec \in Decoders /\ r.buf \in Nat
    BY <1>2 DEF Locals
  <1>5. DicBufSize \in Nat \ {0}
    BY DecoderAssumption
  <1>6. /\ p.dicPos \in 0 .. DicBufSize /\ p.processedPos \in Nat /\ p.remainLen \in Nat
        /\ dic \in [Places -> Cells]
        /\ p.needInitState => p.checkDicSize = 0 /\ p.processedPos = 0
    BY <1>1 DEF Decoders, Filled, DistancesOK
  <1>7. /\ StateReady \in Decoders
        /\ StateReady.dicPos = p.dicPos /\ StateReady.processedPos = p.processedPos
        /\ StateReady.remainLen = p.remainLen /\ StateReady.code = p.code
        /\ StateReady.range = p.range /\ StateReady.checkDicSize = p.checkDicSize
        /\ StateReady.needFlush = p.needFlush /\ ~StateReady.needInitState
    <2>1. CASE ~p.needInitState
      BY <1>1, <2>1 DEF StateReady
    <2>2. CASE p.needInitState
      <3> DEFINE reps1 == <<1, 1, 1, 1>>
                 s == StateReady
      <3>1. reps1 \in Seq(Nat) /\ 0 \in 0 .. 11
        OBVIOUS
      <3>2. s = [p EXCEPT !.needInitState = FALSE, !.reps = reps1, !.state = 0]
        BY <2>2 DEF StateReady
      <3> HIDE DEF reps1, s
      <3>3. s \in Decoders
        BY <1>1, <3>1, <3>2 DEF Decoders
      <3>4. /\ s.dicPos = p.dicPos /\ s.processedPos = p.processedPos
            /\ s.remainLen = p.remainLen /\ s.code = p.code
        BY <1>1, <3>2 DEF Decoders
      <3>5. /\ s.range = p.range /\ s.checkDicSize = p.checkDicSize /\ ~s.needInitState
        BY <1>1, <3>2 DEF Decoders
      <3>6. s.needFlush = p.needFlush
        BY <1>1, <3>2 DEF Decoders
      <3> QED
        BY <3>3, <3>4, <3>5, <3>6 DEF s
    <2> QED
      BY <2>1, <2>2
  <1>8. Marked(StateReady) = Marked(p)
    BY <1>7 DEF Marked
  <1> QED
    BY <1>1, <1>2, <1>3, <1>4, <1>5, <1>6, <1>7, <1>8 DEF Decoders

(* Nothing has changed of the decoder outside LzmaDec_DecodeReal.           *)
LEMMA NothingMoved ==
    ASSUME UNCHANGED <<bytes, taken, p, dic, dprobs, tempBuf>>, ~InReal, ~InReal'
    PROVE  /\ Offset' = Offset /\ Cur' = Cur /\ CurProbs' = CurProbs /\ CurAt' = CurAt
           /\ Cur = StateReady /\ CurProbs = ProbsReady /\ CurAt = Offset
  BY DEF Offset, Cur, CurProbs, CurAt, StateReady, ProbsReady

(* A decoder that has moved nothing follows the same reading.               *)
LEMMA StillFollows ==
    ASSUME NEW m, Follows(m), UNCHANGED <<bytes, taken, p, dic, dprobs, tempBuf>>,
           ~InReal, ~InReal', ret.ok', Prefix(output, m.text)',
           (Cur.processedPos = Len(output) + Fresh)',
           pc' # "toDic"
    PROVE  Follows(m)'
  <1>1. /\ Offset' = Offset /\ Cur' = Cur /\ CurProbs' = CurProbs /\ CurAt' = CurAt
    BY NothingMoved
  <1>2. /\ ~p.needFlush' /\ m \in Read(bytes') /\ m.end = "open"
        /\ Agrees(Cur', dic', CurProbs', CurAt', m, bytes')
    BY <1>1 DEF Follows
  <1>3. pc' # "real"
    BY DEF InReal
  <1>4. PieceOf(tempBuf', bytes', Offset')
    BY <1>1 DEF Follows, AtHand
  <1>5. AtHand'
    BY <1>3, <1>4 DEF AtHand
  <1> QED
    BY <1>2, <1>5 DEF Follows

(* What is new in the dictionary belongs to any longer text, too.           *)
LEMMA SinceIsPending ==
    ASSUME NEW dict, NEW pos, pos \in 0 .. DicBufSize, NEW n, n \in Nat, NEW s, NEW t,
           Len(s) \in Nat, Len(t) \in Nat, Prefix(s, t), n <= Len(s), Holds(dict, pos, n, s),
           NEW pos0, pos0 \in 0 .. DicBufSize, NEW pos1, pos1 \in 0 .. DicBufSize,
           pos0 <= pos1, pos1 <= pos, NEW n0, n0 \in Nat, n = n0 + (pos - pos0)
    PROVE  /\ n0 + (pos1 - pos0) <= Len(t)
           /\ Since(dict, pos0, pos1, n0, t)
  <1>1. DicBufSize \in Nat /\ pos0 \in 0 .. pos
    BY DecoderAssumption
  <1>2. Since(dict, pos0, pos, n0, s)
    BY <1>1, HoldsSince
  <1>3. Len(s) <= Len(t) /\ \A k \in 1 .. Len(s) : t[k] = s[k]
    BY DEF Prefix
  <1>4. ASSUME NEW i \in pos0 .. pos1 - 1 PROVE dict[i] = t[n0 + (i - pos0) + 1]
    <2> DEFINE k == n0 + (i - pos0) + 1
    <2>1. k \in 1 .. Len(s) /\ i \in pos0 .. pos - 1
      BY <1>1
    <2>2. dict[i] = s[k]
      BY <1>2, <2>1 DEF Since
    <2> HIDE DEF k
    <2>3. t[k] = s[k]
      BY <1>3, <2>1
    <2> QED
      BY <2>2, <2>3 DEF k
  <1> QED
    BY <1>1, <1>3, <1>4 DEF Since

(* What LzmaDec_DecodeToDic has made, the text has too.                     *)
LEMMA PendingIs ==
    ASSUME LzmaInv, NEW m, Follows(m), pc \notin {"idle", "toBuf"}, NEW t, t \in Seq(Letters),
           Prefix(m.text, t)
    PROVE  Pending(t) /\ Prefix(output, t)
  <1>1. /\ output \in Seq(Letters) /\ Len(output) \in Nat /\ Len(t) \in Nat
        /\ p.dicPos \in 0 .. DicBufSize /\ io.dicPos \in 0 .. DicBufSize /\ DicBufSize \in Nat
        /\ io.dicPos <= p.dicPos
        /\ StateReady \in Decoders /\ r.dec \in Decoders /\ StateReady.dicPos = p.dicPos
    <2>1. pc \in {"toDic", "real", "stored", "leave"}
      BY DEF LzmaInv, CallInv
    <2> QED
      BY <2>1, FollowsTypes, LenProperties
  <1>2. m.text \in Seq(Letters) /\ Len(m.text) \in Nat
    <2>1. m \in Readable
      BY FollowsTypes, ReadIs DEF Follows
    <2> QED
      BY <2>1, LenProperties DEF Readable
  <1> DEFINE pos == Cur.dicPos
             n == Cur.processedPos
  <1>3. /\ pos \in 0 .. DicBufSize /\ n \in Nat /\ p.dicPos <= pos
    <2>1. CASE InReal
      <3>1. Cur = r.dec /\ p.dicPos <= r.dec.dicPos
        BY <2>1 DEF Cur, Follows, AtHand
      <3> QED
        BY <1>1, <3>1 DEF Decoders
    <2>2. CASE ~InReal
      <3>1. Cur = StateReady
        BY <2>2 DEF Cur
      <3> QED
        BY <1>1, <3>1 DEF Decoders
    <2> QED
      BY <2>1, <2>2
  <1>4. /\ n = Len(output) + (pos - io.dicPos) /\ n <= Len(m.text)
        /\ Holds(dic, pos, n, m.text) /\ Prefix(output, m.text)
    BY DEF Follows, AtHand, Agrees, SameText, Fresh
  <1> HIDE DEF pos, n
  <1>5. Pending(t)
    BY <1>1, <1>2, <1>3, <1>4, SinceIsPending DEF Pending
  <1>6. Prefix(output, t)
    BY <1>1, <1>2, <1>4, PrefixOf
  <1> QED
    BY <1>5, <1>6

(* A call moves nothing.                                                    *)
LEMMA CallFollows ==
    ASSUME LzmaInv, NEW m, Follows(m), NEW amt, NEW dst, Call(amt, dst)
    PROVE  Follows(m)'
  <1>1. /\ pc = "idle" /\ pc' = "toBuf" /\ ret' = ret /\ output' = output
        /\ UNCHANGED <<bytes, taken, p, dic, dprobs, tempBuf>>
    BY DEF Call
  <1>2. ~InReal /\ ~InReal' /\ pc' # "toDic" /\ ret.ok' /\ Prefix(output, m.text)'
    BY <1>1 DEF InReal, Follows
  <1>3. Cur' = Cur /\ Fresh = 0 /\ Fresh' = 0
    BY <1>1, <1>2, NothingMoved DEF Fresh
  <1>4. (Cur.processedPos = Len(output) + Fresh)'
    BY <1>1, <1>3 DEF Follows, AtHand
  <1> QED
    BY <1>1, <1>2, <1>4, StillFollows

(* LzmaDec_DecodeToDic returns.                                             *)
LEMMA LeavingFollows ==
    ASSUME LzmaInv, NEW m, Follows(m), pc = "toDic", NEW status, Leave(status, TRUE),
           UNCHANGED <<bytes, asked, taken, output, p, dic, dprobs, tempBuf, io, r>>
    PROVE  Follows(m)'
  <1>1. pc' = "leave" /\ ret'.ok = TRUE
    BY DEF Leave
  <1>2. ~InReal /\ ~InReal' /\ pc' # "toDic" /\ ret.ok' /\ Prefix(output, m.text)'
    BY <1>1 DEF InReal, Follows
  <1>3. Cur' = Cur /\ Fresh' = Fresh
    BY <1>1, <1>2, NothingMoved DEF Fresh
  <1>4. (Cur.processedPos = Len(output) + Fresh)'
    BY <1>3 DEF Follows, AtHand
  <1> QED
    BY <1>2, <1>4, StillFollows

(* LzmaDec_DecodeToDic has filled the room it was given, ...                *)
LEMMA LimitFollows ==
    ASSUME LzmaInv, NEW m, Follows(m), LimitMet
    PROVE  Follows(m)'
  BY LeavingFollows DEF LimitMet

(* ... or stands behind an end mark, and fails when p->code is not 0.       *)
LEMMA MarkFollows ==
    ASSUME LzmaInv, NEW m, Follows(m), MarkMet
    PROVE  Follows(m)' \/ GivesUp(Meaning(bytes).text)'
  <1>1. CASE p.code = 0
    BY <1>1, LeavingFollows DEF MarkMet
  <1>2. CASE p.code # 0
    <2> DEFINE t == Meaning(bytes).text
    <2>0. bytes \in Seq(Bytes)
      BY FollowsTypes
    <2>1. t \in Seq(Letters) /\ Prefix(m.text, t)
      BY <2>0, MeaningIs DEF Follows, Readable, Grows
    <2>2. /\ pc = "toDic" /\ ret'.ok = FALSE /\ pc' = "leave"
          /\ UNCHANGED <<bytes, output, p, dic, io>>
      BY <1>2 DEF MarkMet, Leave
    <2> HIDE DEF t
    <2>3. Pending(t) /\ Prefix(output, t)
      BY <2>1, <2>2, PendingIs
    <2>4. t' = t
      BY <2>2 DEF t
    <2>5. Pending(t)' /\ Prefix(output, t)'
      BY <2>2, <2>3, <2>4 DEF Pending
    <2>6. GivesUp(t)'
      BY <2>2, <2>5 DEF GivesUp
    <2> QED
      BY <2>6 DEF t
  <1> QED
    BY <1>1, <1>2

(* LzmaDec_DecodeToBuf copies what is new to the caller's buffer, ...       *)
LEMMA OutputGrows ==
    ASSUME LzmaInv, LeaveDecodeToDic
    PROVE  LET made == p.dicPos - io.dicPos
               n == Len(output)
           IN  /\ made \in Nat /\ n \in Nat /\ Len(output') = n + made
               /\ \A i \in 1 .. n + made :
                     output'[i] = IF i <= n THEN output[i] ELSE dic[io.dicPos + (i - n) - 1]
  <1> DEFINE made == p.dicPos - io.dicPos
             more == [i \in 1 .. made |-> dic[io.dicPos + i - 1]]
             n == Len(output)
  <1>1. /\ output \in Seq(Letters) /\ n \in Nat /\ io.dicPos <= p.dicPos
        /\ p.dicPos \in 0 .. DicBufSize /\ io.dicPos \in 0 .. DicBufSize /\ DicBufSize \in Nat
        /\ dic \in [Places -> Cells]
    BY FollowsTypes DEF LeaveDecodeToDic
  <1>2. output' = output \o more
    BY DEF LeaveDecodeToDic
  <1>3. made \in Nat
    BY <1>1
  <1>4. \A i \in 1 .. made : io.dicPos + i - 1 \in Places
    BY <1>1 DEF Places
  <1>5. /\ more \in Seq(Cells) /\ Len(more) = made
        /\ \A i \in 1 .. made : more[i] = dic[io.dicPos + i - 1]
    <2>1. \A i \in 1 .. made : dic[io.dicPos + i - 1] \in Cells
      BY <1>1, <1>4
    <2>2. \A k \in Nat : \A f : (\A i \in 1 .. k : f[i] \in Cells) =>
              /\ [i \in 1 .. k |-> f[i]] \in Seq(Cells)
              /\ Len([i \in 1 .. k |-> f[i]]) = k
      OBVIOUS
    <2>3. more = [i \in 1 .. made |-> more[i]] /\ \A i \in 1 .. made : more[i] \in Cells
      BY <2>1
    <2>4. \A i \in 1 .. made : more[i] = dic[io.dicPos + i - 1]
      OBVIOUS
    <2> HIDE DEF made, more
    <2>5. /\ [i \in 1 .. made |-> more[i]] \in Seq(Cells)
          /\ Len([i \in 1 .. made |-> more[i]]) = made
      BY <1>3, <2>2, <2>3
    <2> QED
      BY <2>3, <2>4, <2>5
  <1> HIDE DEF more
  <1>6. output \in Seq(Cells)
    BY <1>1 DEF Cells
  <1>7. /\ Len(output') = n + made
        /\ \A i \in 1 .. n + made : output'[i] = IF i <= n THEN output[i] ELSE more[i - n]
    <2>1. /\ Len(output \o more) = Len(output) + Len(more)
          /\ \A i \in 1 .. Len(output) + Len(more) :
                (output \o more)[i] = IF i <= Len(output) THEN output[i]
                                      ELSE more[i - Len(output)]
      BY <1>5, <1>6, ConcatProperties
    <2>2. Len(more) = made
      BY <1>5
    <2> QED
      BY ONLY <1>2, <2>1, <2>2
  <1>8. \A i \in 1 .. n + made : i > n => i - n \in 1 .. made
    BY ONLY <1>1, <1>3
  <1>9. \A i \in 1 .. n + made : i > n => more[i - n] = dic[io.dicPos + (i - n) - 1]
    BY <1>5, <1>8
  <1>10. \A i \in 1 .. n + made :
            output'[i] = IF i <= n THEN output[i] ELSE dic[io.dicPos + (i - n) - 1]
    <2>1. \A i \in 1 .. n + made : ~(i <= n) => i > n
      BY ONLY <1>1, <1>3
    <2> QED
      BY <1>7, <1>9, <2>1
  <1> QED
    BY <1>1, <1>3, <1>7, <1>10

(* ... which is what the text has.                                          *)
LEMMA CopiedOut ==
    ASSUME LzmaInv, LeaveDecodeToDic, NEW t, Len(t) \in Nat, Pending(t), Prefix(output, t)
    PROVE  Prefix(output, t)' /\ Len(output') = Len(output) + (p.dicPos - io.dicPos)
  <1> DEFINE made == p.dicPos - io.dicPos
             n == Len(output)
  <1>1. /\ n \in Nat /\ io.dicPos <= p.dicPos
        /\ p.dicPos \in 0 .. DicBufSize /\ io.dicPos \in 0 .. DicBufSize /\ DicBufSize \in Nat
    BY FollowsTypes DEF LeaveDecodeToDic
  <1>7. /\ made \in Nat /\ Len(output') = n + made
        /\ \A i \in 1 .. n + made :
              output'[i] = IF i <= n THEN output[i] ELSE dic[io.dicPos + (i - n) - 1]
    BY OutputGrows
  <1>8. n + made <= Len(t)
    BY DEF Pending
  <1>9. ASSUME NEW i \in 1 .. n + made PROVE t[i] = output'[i]
    <2>1. CASE i <= n
      <3>1. i \in 1 .. n
        BY <1>1, <2>1
      <3>2. t[i] = output[i]
        BY <3>1 DEF Prefix
      <3>3. output'[i] = output[i]
        BY <1>7, <2>1
      <3> QED
        BY <3>2, <3>3
    <2>2. CASE ~(i <= n)
      <3> DEFINE k == io.dicPos + (i - n) - 1
      <3>1. /\ k \in io.dicPos .. p.dicPos - 1 /\ i - n \in 1 .. made
            /\ n + (k - io.dicPos) + 1 = i
        BY <1>1, <2>2
      <3>2. output'[i] = dic[k]
        BY <1>7, <2>2
      <3> HIDE DEF k
      <3>3. dic[k] = t[i]
        BY <3>1 DEF Pending, Since
      <3> QED
        BY <3>2, <3>3
    <2> QED
      BY <2>1, <2>2
  <1>10. Prefix(output', t)
    BY <1>7, <1>8, <1>9 DEF Prefix
  <1> QED
    BY <1>7, <1>10

(* What LzmaDec_DecodeToBuf copies out is the next part of the text.        *)
LEMMA LeaveFollows ==
    ASSUME LzmaInv, NEW m, Follows(m), LeaveDecodeToDic
    PROVE  Follows(m)'
  <1>1. /\ pc = "leave" /\ pc' \in {"toBuf", "idle"} /\ ret' = ret
        /\ UNCHANGED <<bytes, taken, p, dic, dprobs, tempBuf>>
    BY DEF LeaveDecodeToDic
  <1>2. m.text \in Seq(Letters) /\ Len(m.text) \in Nat /\ Prefix(m.text, m.text)
    <2>1. m \in Readable
      BY FollowsTypes, ReadIs DEF Follows
    <2> QED
      BY <2>1, LenProperties, PrefixOf DEF Readable
  <1>3. Pending(m.text) /\ Prefix(output, m.text)
    BY <1>1, <1>2, PendingIs
  <1>4. Prefix(output, m.text)' /\ Len(output') = Len(output) + (p.dicPos - io.dicPos)
    BY <1>2, <1>3, CopiedOut
  <1>5. ~InReal /\ ~InReal' /\ pc' # "toDic" /\ ret.ok'
    BY <1>1 DEF InReal, Follows
  <1>6. Cur' = Cur /\ Cur = StateReady
    BY <1>1, <1>5, NothingMoved
  <1>7. Cur.dicPos = p.dicPos
    BY <1>6, FollowsTypes
  <1>8. Cur.processedPos = Len(output) + (p.dicPos - io.dicPos)
    BY <1>1, <1>7 DEF Follows, AtHand, Fresh
  <1>9. Fresh' = 0
    BY <1>1 DEF Fresh
  <1>10. Cur.processedPos \in Nat
    BY <1>6, FollowsTypes
  <1>11. (Cur.processedPos = Len(output) + Fresh)'
    BY <1>4, <1>6, <1>8, <1>9, <1>10
  <1> QED
    BY <1>1, <1>4, <1>5, <1>11, StillFollows

(* A round of LzmaDec_DecodeToBuf: the dictionary begins anew at its end,   *)
(* and the rest of a match is copied.                                       *)
EnterAt(pos, limit) ==
    LET at == [p EXCEPT !.dicPos = pos]
    IN  /\ pos \in 0 .. DicBufSize /\ limit \in 0 .. DicBufSize /\ pos <= limit
        /\ io'.dicPos = pos /\ io'.dicLimit = limit
        /\ pc = "toBuf" /\ pc' = "toDic" /\ ret'.ok = ret.ok
        /\ UNCHANGED <<bytes, taken, output, dprobs, tempBuf, r>>
        /\ pos = p.dicPos \/ (pos = 0 /\ p.dicPos = DicBufSize)
        /\ DecoderOK(at, dic)
        /\ p' = WriteRem(at, limit)
        /\ dic' = Copied(dic, pos, RemLen(at, limit), p.reps[1])

(* Where LzmaDec_DecodeToDic begins, and how far it may go.                 *)
LEMMA EnterIsAt ==
    ASSUME LzmaInv, EnterDecodeToDic
    PROVE  \E pos, limit : EnterAt(pos, limit)
  <1> DEFINE pos == IF p.dicPos = DicBufSize THEN 0 ELSE p.dicPos
             limit == AtMost(DicBufSize, pos + io.outSize)
             at == [p EXCEPT !.dicPos = pos]
  <1>1. /\ DecoderOK(p, dic) /\ KeptOK(p) /\ DicBufSize \in Nat \ {0}
        /\ p \in Decoders /\ p.dicPos \in 0 .. DicBufSize /\ io.outSize \in Nat
        /\ p.checkDicSize \in {0, DicBufSize} /\ p.processedPos \in Nat
        /\ Filled(p, dic) /\ DistancesOK(p)
    BY DecoderAssumption DEF LzmaInv, KeptInv, CallInv, DecoderOK, Decoders
  <1>2. /\ pos \in 0 .. DicBufSize /\ limit \in 0 .. DicBufSize /\ pos <= limit
        /\ pos = p.dicPos \/ (pos = 0 /\ p.dicPos = DicBufSize)
    <2>1. pos \in 0 .. DicBufSize /\ (pos = p.dicPos \/ (pos = 0 /\ p.dicPos = DicBufSize))
      BY <1>1
    <2> HIDE DEF pos
    <2>2. limit \in 0 .. DicBufSize /\ pos <= limit
      BY <1>1, <2>1 DEF AtMost
    <2> QED
      BY <2>1, <2>2
  <1>3. p.dicPos = DicBufSize => p.checkDicSize # 0
    BY <1>1 DEF KeptOK, Filled
  <1>4. /\ p' = WriteRem(at, limit)
        /\ dic' = Copied(dic, pos, RemLen(at, limit), p.reps[1])
        /\ io' = [io EXCEPT !.dicPos = pos, !.dicLimit = limit]
        /\ ret' = [ret EXCEPT !.status = "NOT_SPECIFIED"] /\ pc = "toBuf" /\ pc' = "toDic"
        /\ UNCHANGED <<bytes, asked, taken, output, dprobs, tempBuf, r>>
    BY DEF EnterDecodeToDic
  <1>5. p.dicPos # DicBufSize => pos = p.dicPos
    OBVIOUS
  <1> HIDE DEF pos, limit
  <1>6. /\ at \in Decoders /\ at.dicPos = pos /\ at.reps = p.reps
        /\ at.processedPos = p.processedPos /\ at.checkDicSize = p.checkDicSize
        /\ at.state = p.state /\ at.remainLen = p.remainLen /\ at.range = p.range
        /\ at.needFlush = p.needFlush /\ at.needInitState = p.needInitState
    BY <1>1, <1>2 DEF Decoders
  <1>7. DecoderOK(at, dic)
    <2> HIDE DEF at
    <2>1. Filled(at, dic)
      BY <1>1, <1>3, <1>5, <1>6 DEF Filled
    <2>2. DistancesOK(at)
      BY <1>1, <1>6 DEF DistancesOK, Back
    <2> QED
      BY <1>6, <2>1, <2>2 DEF DecoderOK
  <1>8. io'.dicPos = pos /\ io'.dicLimit = limit /\ ret'.ok = ret.ok
    BY <1>4 DEF LzmaInv, CallInv
  <1>9. EnterAt(pos, limit)
    BY <1>2, <1>4, <1>7, <1>8 DEF EnterAt
  <1> QED
    BY <1>9

(* Before the first symbol there is no match to copy the rest of.           *)
LEMMA NothingToCopy ==
    ASSUME LzmaInv, NEW pos, NEW limit, EnterAt(pos, limit), p.needInitState
    PROVE  p' = p /\ dic' = dic /\ pos = p.dicPos /\ (p.remainLen = 0 \/ Marked(p))
  <1> DEFINE at == [p EXCEPT !.dicPos = pos]
  <1>1. /\ p \in Decoders /\ Filled(p, dic) /\ DistancesOK(p) /\ DicBufSize \in Nat \ {0}
    BY DecoderAssumption DEF LzmaInv, KeptInv, DecoderOK
  <1>2. p.dicPos = 0 /\ p.remainLen \notin CopyLengths /\ p.remainLen \in Nat
    BY <1>1 DEF Decoders, Filled, DistancesOK
  <1>3. pos = p.dicPos
    BY <1>1, <1>2 DEF EnterAt
  <1>4. at = p
    BY <1>1, <1>3 DEF Decoders
  <1>5. RemLen(p, limit) = 0
    BY <1>2 DEF RemLen, CopyLengths
  <1>6. WriteRem(p, limit) = p
    <2>1. WriteRem(p, limit) = [p EXCEPT !.checkDicSize = @, !.processedPos = @ + 0,
                                         !.remainLen = @ - 0, !.dicPos = @ + 0]
      BY <1>2, <1>5 DEF WriteRem, CopyLengths
    <2>2. p.processedPos + 0 = p.processedPos /\ p.remainLen - 0 = p.remainLen
          /\ p.dicPos + 0 = p.dicPos
      BY <1>1 DEF Decoders
    <2>3. WriteRem(p, limit) = [p EXCEPT !.checkDicSize = p.checkDicSize,
                                         !.processedPos = p.processedPos,
                                         !.remainLen = p.remainLen, !.dicPos = p.dicPos]
      BY <2>1, <2>2
    <2> QED
      BY <1>1, <2>3 DEF Decoders
  <1>7. p' = p /\ dic' = Copied(dic, pos, 0, p.reps[1])
    BY <1>4, <1>5, <1>6 DEF EnterAt
  <1>8. p.remainLen = 0 \/ Marked(p)
    BY <1>2, MarkLength DEF Marked, CopyLengths
  <1> QED
    BY <1>3, <1>7, <1>8, NothingCopied

(* The rest of a match is copied before anything else is decoded.           *)
LEMMA EnterFollows ==
    ASSUME LzmaInv, NEW m, Follows(m), EnterDecodeToDic
    PROVE  Follows(m)'
  <1>1. PICK pos, limit : EnterAt(pos, limit)
    BY EnterIsAt
  <1> DEFINE at == [p EXCEPT !.dicPos = pos]
  <1>2. /\ pc = "toBuf" /\ pc' = "toDic" /\ ret'.ok = ret.ok
        /\ pos \in 0 .. DicBufSize /\ limit \in 0 .. DicBufSize /\ pos <= limit
        /\ io'.dicPos = pos /\ io'.dicLimit = limit
        /\ UNCHANGED <<bytes, taken, output, dprobs, tempBuf, r>>
    BY <1>1 DEF EnterAt
  <1>3. ~InReal /\ ~InReal' /\ Offset' = Offset /\ Cur = StateReady /\ Cur' = StateReady'
        /\ CurProbs = ProbsReady /\ CurProbs' = ProbsReady' /\ CurAt' = CurAt /\ Fresh = 0
    BY <1>2 DEF InReal, Offset, Cur, CurProbs, CurAt, Fresh
  <1>4. ret.ok /\ ~p.needFlush /\ m \in Read(bytes) /\ m.end = "open"
        /\ Agrees(StateReady, dic, ProbsReady, CurAt, m, bytes) /\ Prefix(output, m.text)
        /\ PieceOf(tempBuf, bytes, Offset) /\ StateReady.processedPos = Len(output) + 0
    BY <1>3 DEF Follows, AtHand
  <1>t. /\ p \in Decoders /\ StateReady \in Decoders /\ StateReady.dicPos = p.dicPos
        /\ StateReady.processedPos \in Nat /\ StateReady.remainLen = p.remainLen
        /\ Marked(StateReady) = Marked(p) /\ bytes \in Seq(Bytes) /\ Len(output) \in Nat
        /\ DicBufSize \in Nat
    BY FollowsTypes DEF Decoders
  <1>5. m \in Readable
    BY <1>4, <1>t, ReadIs
  <1>6. CASE p.needInitState
    <2>1. p' = p /\ dic' = dic /\ pos = p.dicPos /\ (p.remainLen = 0 \/ Marked(p))
      BY <1>1, <1>6, NothingToCopy
    <2>2. StateReady' = StateReady /\ ProbsReady' = ProbsReady
      BY <1>2, <2>1 DEF StateReady, ProbsReady
    <2>3. Agrees(Cur', dic', CurProbs', CurAt', m, bytes')
      BY <1>2, <1>3, <1>4, <2>1, <2>2
    <2>4. Fresh' = StateReady.dicPos - pos
      BY <1>2, <1>3, <2>2 DEF Fresh
    <2>5. (Cur.processedPos = Len(output) + Fresh)'
      <3>1. StateReady.dicPos = pos /\ pos \in Nat
        BY <1>2, <1>t, <2>1
      <3>2. Fresh' = 0
        BY ONLY <2>4, <3>1
      <3>3. Cur'.processedPos = Len(output') + 0
        BY <1>2, <1>3, <1>4, <2>2
      <3> QED
        BY <3>2, <3>3
    <2>6. AtHand'
      BY <1>2, <1>3, <1>4, <2>1, <2>5 DEF AtHand
    <2> QED
      BY <1>2, <1>4, <2>1, <2>3, <2>6 DEF Follows
  <1>7. CASE ~p.needInitState
    <2>1. StateReady = p /\ ProbsReady = dprobs
      BY <1>7 DEF StateReady, ProbsReady
    <2>2. /\ at.dicPos = pos /\ at.reps = p.reps
          /\ at.processedPos = p.processedPos /\ at.checkDicSize = p.checkDicSize
          /\ at.state = p.state /\ at.remainLen = p.remainLen /\ at.range = p.range
          /\ at.needFlush = p.needFlush /\ at.needInitState = p.needInitState
          /\ at.code = p.code /\ at \in Decoders
      BY <1>2, <1>t DEF Decoders
    <2>3. /\ DecoderOK(at, dic) /\ p' = WriteRem(at, limit)
          /\ dic' = Copied(dic, pos, RemLen(at, limit), p.reps[1])
          /\ pos = p.dicPos \/ (pos = 0 /\ p.dicPos = DicBufSize)
      BY <1>1 DEF EnterAt
    <2> DEFINE len == RemLen(at, limit)
    <2> HIDE DEF at, len
    <2>4. Agrees(at, dic, dprobs, CurAt, m, bytes)
      <3>1. SameText(p, dic, m) /\ SamePlace(p, dprobs, CurAt, m, bytes)
        BY <1>4, <2>1 DEF Agrees
      <3>2. Holds(dic, pos, p.processedPos, m.text)
        BY <2>3, <3>1, HoldsWrap DEF SameText
      <3>3. SameText(at, dic, m)
        BY <2>2, <3>1, <3>2 DEF SameText
      <3>4. CoderAt(at, dprobs, CurAt) = CoderAt(p, dprobs, CurAt) /\ Marked(at) = Marked(p)
        BY <2>2 DEF CoderAt, Marked
      <3>5. SamePlace(at, dprobs, CurAt, m, bytes)
        BY <2>2, <3>1, <3>4 DEF SamePlace
      <3> QED
        BY <3>3, <3>5 DEF Agrees
    <2>5. /\ len \in Nat /\ p'.dicPos = pos + len /\ p'.processedPos = p.processedPos + len
          /\ ~Marked(at) => p'.dicPos = limit \/ p'.remainLen = 0
          /\ Marked(p') = Marked(at)
          /\ p'.needFlush = p.needFlush /\ p'.needInitState = p.needInitState
      BY <1>2, <2>2, <2>3, RemFields DEF len
    <2>6. Agrees(p', dic', dprobs, CurAt, m, bytes)
      BY <1>2, <1>5, <1>7, <2>2, <2>3, <2>4, RemAgrees DEF len
    <2>7. StateReady' = p' /\ ProbsReady' = dprobs
      BY <1>2, <1>7, <2>5 DEF StateReady, ProbsReady
    <2>8. Agrees(Cur', dic', CurProbs', CurAt', m, bytes')
      BY <1>2, <1>3, <2>6, <2>7
    <2>9. Fresh' = p'.dicPos - pos
      BY <1>2, <1>3, <2>7 DEF Fresh
    <2>10. (Cur.processedPos = Len(output) + Fresh)'
      <3>1. Cur' = p' /\ output' = output
        BY <1>2, <1>3, <2>7
      <3>2. StateReady.processedPos = p.processedPos /\ p.processedPos = Len(output) + 0
        BY <1>4, <2>1
      <3>3. pos \in Nat /\ len \in Nat /\ Len(output) \in Nat
        BY <1>2, <1>t, <2>5
      <3>4. Fresh' = len /\ p'.processedPos = Len(output) + len
        BY <2>5, <2>9, <3>2, <3>3
      <3> QED
        BY <3>1, <3>4
    <2>11. p'.dicPos = io'.dicLimit \/ p'.remainLen = 0 \/ Marked(p')
      BY <1>2, <2>5
    <2>12. AtHand'
      BY <1>2, <1>3, <1>4, <2>10, <2>11 DEF AtHand
    <2> QED
      BY <1>2, <1>4, <1>7, <2>5, <2>8, <2>12 DEF Follows
  <1> QED
    BY <1>6, <1>7

(* Pieces of the stream, and what one after the other makes.                *)
LEMMA PieceIs ==
    ASSUME NEW b, b \in Seq(Bytes), NEW a, a \in Nat, NEW n, n \in Nat, a + n <= Len(b)
    PROVE  PieceOf(SubSeq(b, a + 1, a + n), b, a)
  <1> DEFINE x == SubSeq(b, a + 1, a + n)
  <1>0. Len(b) \in Nat
    BY LenProperties
  <1>1. Len(x) = n
    BY Pieces
  <1>2. ASSUME NEW i \in 1 .. n PROVE x[i] = b[a + i]
    <2>1. a + 1 \in 1 .. Len(b) + 1 /\ a + n \in a .. Len(b)
      BY <1>0
    <2>2. x[i] = b[(a + 1) + i - 1]
      BY <1>0, <1>2, <2>1, SubSeqProperties
    <2>3. (a + 1) + i - 1 = a + i
      OBVIOUS
    <2> QED
      BY <2>2, <2>3
  <1> HIDE DEF x
  <1> QED
    BY <1>1, <1>2 DEF PieceOf, x

(* Two pieces side by side are one.                                         *)
LEMMA PiecesJoin ==
    ASSUME NEW b, NEW x, x \in Seq(Bytes), NEW y, y \in Seq(Bytes), NEW off, off \in Nat,
           PieceOf(x, b, off), PieceOf(y, b, off + Len(x))
    PROVE  PieceOf(x \o y, b, off) /\ Len(x \o y) = Len(x) + Len(y)
  <1>1. /\ Len(x) \in Nat /\ Len(y) \in Nat /\ Len(x \o y) = Len(x) + Len(y)
        /\ \A i \in 1 .. Len(x) + Len(y) :
              (x \o y)[i] = IF i <= Len(x) THEN x[i] ELSE y[i - Len(x)]
    BY LenProperties, ConcatProperties
  <1>2. ASSUME NEW i \in 1 .. Len(x) + Len(y) PROVE (x \o y)[i] = b[off + i]
    <2>1. CASE i <= Len(x)
      BY <1>1, <2>1 DEF PieceOf
    <2>2. CASE ~(i <= Len(x))
      <3>1. i - Len(x) \in 1 .. Len(y) /\ (off + Len(x)) + (i - Len(x)) = off + i
        BY <1>1, <2>2
      <3>2. y[i - Len(x)] = b[(off + Len(x)) + (i - Len(x))]
        BY <3>1 DEF PieceOf
      <3> QED
        BY <1>1, <2>2, <3>1, <3>2
    <2> QED
      BY <2>1, <2>2
  <1>3. off + (Len(x) + Len(y)) <= Len(b)
    BY <1>1 DEF PieceOf
  <1> QED
    BY <1>1, <1>2, <1>3 DEF PieceOf

(* LzmaDec_DecodeToDic goes on to LzmaDec_DecodeReal, or keeps what input   *)
(* there is until there is more.                                            *)
LEMMA GoesOn ==
    ASSUME LzmaInv, NEW m, Follows(m), Ready, p' = StateReady, dprobs' = ProbsReady,
           dic' = dic, bytes' = bytes, output' = output, ret'.ok, io'.dicPos = io.dicPos,
           pc' \in {"leave", "real"},
           pc' = "real" => /\ r'.dec = StateReady /\ r'.buf = 0
                           /\ ~r'.fromTemp => tempBuf' = << >>,
           Offset' = Offset, PieceOf(tempBuf', bytes', Offset)
    PROVE  Follows(m)'
  <1>1. pc = "toDic" /\ ~InReal /\ Cur = StateReady /\ CurProbs = ProbsReady /\ CurAt = Offset
    BY DEF Ready, InReal, Cur, CurProbs, CurAt
  <1>2. /\ ~p.needFlush /\ m \in Read(bytes) /\ m.end = "open"
        /\ Agrees(StateReady, dic, ProbsReady, Offset, m, bytes) /\ Prefix(output, m.text)
        /\ StateReady.processedPos = Len(output) + (StateReady.dicPos - io.dicPos)
        /\ p.dicPos = io.dicLimit \/ p.remainLen = 0 \/ Marked(p)
    BY <1>1 DEF Follows, AtHand, Fresh
  <1>t. /\ p \in Decoders /\ StateReady.needFlush = p.needFlush /\ ~StateReady.needInitState
        /\ StateReady.dicPos = p.dicPos /\ StateReady.remainLen = p.remainLen
        /\ p.dicPos \in 0 .. DicBufSize /\ DicBufSize \in Nat /\ io.dicLimit \in 0 .. DicBufSize
        /\ p.remainLen \in Nat /\ Offset \in Nat
    BY FollowsTypes
  <1>3. p.remainLen = 0
    <2>1. p.remainLen <= kMatchSpecLenStart /\ kMatchSpecLenStart \in Nat
      BY MarkLength DEF LzmaInv, KeptInv, KeptOK
    <2> QED
      BY <1>2, <1>t, <2>1 DEF Ready, Marked
  <1>4. StateReady' = StateReady /\ ProbsReady' = ProbsReady
    BY <1>t DEF StateReady, ProbsReady
  <1>5. InReal' <=> pc' = "real"
    BY DEF InReal
  <1>6. Cur' = StateReady /\ CurProbs' = ProbsReady
    BY <1>4, <1>5 DEF Cur, CurProbs
  <1>7. CurAt' = Offset
    BY <1>5, <1>t DEF CurAt
  <1>8. Fresh' = StateReady.dicPos - io.dicPos
    BY <1>6 DEF Fresh
  <1>9. /\ (Cur.processedPos = Len(output) + Fresh)'
        /\ Agrees(Cur', dic', CurProbs', CurAt', m, bytes')
    BY <1>2, <1>6, <1>7, <1>8
  <1>10. InReal' => p'.dicPos <= r'.dec.dicPos /\ r'.dec.remainLen = 0
    BY <1>3, <1>5, <1>t
  <1>11. AtHand'
    BY <1>5, <1>9, <1>10 DEF AtHand
  <1> QED
    BY <1>2, <1>9, <1>11, <1>t DEF Follows

(* Its input, from the caller ...                                           *)
LEMMA SourceFollows ==
    ASSUME LzmaInv, NEW m, Follows(m), DecodeFromSource
    PROVE  Follows(m)'
  <1>1. /\ Ready /\ tempBuf = << >> /\ p' = StateReady /\ dprobs' = ProbsReady
        /\ dic' = dic /\ bytes' = bytes /\ output' = output
    BY DEF DecodeFromSource
  <1>2. ret.ok
    BY DEF Follows
  <1>t. /\ taken \in Nat /\ bytes \in Seq(Bytes) /\ io.inSize \in Nat /\ Offset \in Nat
        /\ taken + io.inSize <= Len(bytes) /\ Len(bytes) \in Nat
        /\ io \in [inSize : Nat, outSize : Nat, dicPos : 0 .. DicBufSize, dicLimit : 0 .. DicBufSize]
    BY FollowsTypes
  <1>3. Offset = taken
    BY <1>1, <1>t DEF Offset
  <1>4. CASE /\ tempBuf' = Source /\ taken' = taken + io.inSize
             /\ io' = [io EXCEPT !.inSize = 0] /\ Leave("NEEDS_MORE_INPUT", TRUE)
    <2>1. Len(Source) = io.inSize /\ PieceOf(Source, bytes, taken)
      BY <1>t, SourceIs, PieceIs DEF Source
    <2>2. Offset' = Offset
      BY <1>3, <1>4, <1>t, <2>1 DEF Offset
    <2>3. ret'.ok /\ pc' = "leave" /\ io'.dicPos = io.dicPos
      BY <1>4, <1>t DEF Leave
    <2> QED
      BY <1>1, <1>3, <1>4, <2>1, <2>2, <2>3, GoesOn
  <1>5. ASSUME NEW bufLimit, EnterReal(StateReady, bufLimit, FALSE),
               UNCHANGED <<tempBuf, taken, io, ret>>
        PROVE  Follows(m)'
    <2>1. pc' = "real" /\ r'.dec = StateReady /\ r'.buf = 0
      BY <1>5 DEF EnterReal
    <2>2. Offset' = Offset /\ PieceOf(tempBuf', bytes', Offset)
      BY <1>1, <1>5 DEF Offset, Follows, AtHand
    <2> QED
      BY <1>1, <1>2, <1>5, <2>1, <2>2, GoesOn
  <1> QED
    BY <1>4, <1>5 DEF DecodeFromSource

(* ... or after what is left of an earlier call's.                          *)
LEMMA TempFollows ==
    ASSUME LzmaInv, NEW m, Follows(m), DecodeFromTemp
    PROVE  Follows(m)'
  <1> DEFINE n == AtMost(io.inSize, LZMA_REQUIRED_INPUT_MAX - Len(tempBuf))
             piece == SubSeq(bytes, taken + 1, taken + n)
             filled == tempBuf \o piece
  <1>1. /\ Ready /\ p' = StateReady /\ dprobs' = ProbsReady
        /\ dic' = dic /\ bytes' = bytes /\ output' = output
        /\ tempBuf' = filled /\ taken' = taken + n /\ io' = [io EXCEPT !.inSize = @ - n]
        /\ \/ Leave("NEEDS_MORE_INPUT", TRUE)
           \/ EnterReal(StateReady, 0, TRUE) /\ ret' = ret
    BY DEF DecodeFromTemp
  <1>2. ret.ok /\ PieceOf(tempBuf, bytes, Offset)
    BY DEF Follows, AtHand
  <1>t. /\ taken \in Nat /\ bytes \in Seq(Bytes) /\ io.inSize \in Nat /\ Offset \in Nat
        /\ taken + io.inSize <= Len(bytes) /\ Len(bytes) \in Nat
        /\ io \in [inSize : Nat, outSize : Nat, dicPos : 0 .. DicBufSize, dicLimit : 0 .. DicBufSize]
        /\ tempBuf \in Seq(Bytes) /\ Len(tempBuf) \in Nat
        /\ Len(tempBuf) <= LZMA_REQUIRED_INPUT_MAX /\ LZMA_REQUIRED_INPUT_MAX \in Nat
    BY FollowsTypes, DecoderAssumption DEF LzmaInv, InputInv
  <1>3. n \in Nat /\ n <= io.inSize
    BY <1>t DEF AtMost
  <1> HIDE DEF n
  <1>4. piece \in Seq(Bytes) /\ Len(piece) = n /\ PieceOf(piece, bytes, taken)
    <2>1. taken + n <= Len(bytes)
      BY <1>t, <1>3
    <2>2. piece \in Seq(Bytes) /\ Len(piece) = n
      BY <1>t, <1>3, <2>1, Pieces
    <2>3. PieceOf(piece, bytes, taken)
      BY <1>t, <1>3, <2>1, PieceIs
    <2> QED
      BY <2>2, <2>3
  <1> HIDE DEF piece
  <1>5. Len(filled) = Len(tempBuf) + n /\ PieceOf(filled, bytes, Offset)
    <2>1. Offset + Len(tempBuf) = taken
      BY <1>t DEF Offset
    <2> QED
      BY <1>t, <1>2, <1>3, <1>4, <2>1, PiecesJoin
  <1>6. Offset' = Offset
    BY <1>1, <1>3, <1>5, <1>t DEF Offset
  <1>7. io'.dicPos = io.dicPos
    BY <1>1, <1>t
  <1>8. CASE Leave("NEEDS_MORE_INPUT", TRUE)
    <2>1. ret'.ok /\ pc' = "leave"
      BY <1>8 DEF Leave
    <2> QED
      BY <1>1, <1>5, <1>6, <1>7, <2>1, GoesOn
  <1>9. CASE EnterReal(StateReady, 0, TRUE) /\ ret' = ret
    <2>1. pc' = "real" /\ r'.dec = StateReady /\ r'.buf = 0 /\ r'.fromTemp
      BY <1>9 DEF EnterReal
    <2> QED
      BY <1>1, <1>2, <1>5, <1>6, <1>7, <1>9, <2>1, GoesOn
  <1> QED
    BY <1>1, <1>8, <1>9

(* LzmaDec_DecodeReal has stored its locals; checkDicSize is set, ...       *)
LEMMA FullAgrees ==
    ASSUME NEW d, NEW dict, NEW q, NEW at, NEW m, NEW b, d \in Decoders,
           Agrees(d, dict, q, at, m, b)
    PROVE  /\ Agrees(FullDictionary(d), dict, q, at, m, b)
           /\ FullDictionary(d).processedPos = d.processedPos
           /\ FullDictionary(d).dicPos = d.dicPos
  <1> DEFINE f == FullDictionary(d)
             size == IF d.processedPos >= DicBufSize THEN DicBufSize ELSE d.checkDicSize
  <1>1. f = [d EXCEPT !.checkDicSize = size]
    BY DEF FullDictionary
  <1>2. /\ d.processedPos \in Nat /\ DicBufSize \in Nat
        /\ SameText(d, dict, m) /\ SamePlace(d, q, at, m, b)
    BY DecoderAssumption DEF Agrees, Decoders
  <1>3. size # 0 => DicBufSize <= d.processedPos
    BY <1>2 DEF SameText
  <1> HIDE DEF size
  <1>4. /\ f.checkDicSize = size /\ f.state = d.state /\ f.reps = d.reps
        /\ f.processedPos = d.processedPos /\ f.dicPos = d.dicPos
    BY <1>1 DEF Decoders
  <1>5. f.range = d.range /\ f.code = d.code /\ f.remainLen = d.remainLen
    BY <1>1 DEF Decoders
  <1> HIDE DEF f
  <1>6. SameText(f, dict, m)
    BY <1>2, <1>3, <1>4 DEF SameText
  <1>7. CoderAt(f, q, at) = CoderAt(d, q, at) /\ Marked(f) = Marked(d)
    BY <1>5 DEF CoderAt, Marked
  <1>8. SamePlace(f, q, at, m, b)
    BY <1>2, <1>4, <1>5, <1>7 DEF SamePlace
  <1> QED
    BY <1>4, <1>6, <1>8 DEF Agrees, f

(* ... an end mark is kept as such, ...                                     *)
Cut(d) == [d EXCEPT !.remainLen = AtMost(@, kMatchSpecLenStart)]

(* A rest cut down to kMatchSpecLenStart was no rest of a match.            *)
LEMMA CutAgrees ==
    ASSUME NEW d, NEW dict, NEW q, NEW at, NEW m, NEW b, d \in Decoders,
           Agrees(d, dict, q, at, m, b)
    PROVE  /\ Agrees(Cut(d), dict, q, at, m, b) /\ Cut(d).dicPos = d.dicPos
           /\ Cut(d).processedPos = d.processedPos /\ Cut(d).needFlush = d.needFlush
           /\ Cut(d).needInitState = d.needInitState /\ Marked(Cut(d)) = Marked(d)
           /\ ~Marked(d) => Cut(d).remainLen = d.remainLen
  <1> DEFINE rest == AtMost(d.remainLen, kMatchSpecLenStart)
             e == Cut(d)
  <1>1. e = [d EXCEPT !.remainLen = rest]
    BY DEF Cut
  <1>2. /\ d.remainLen \in Nat /\ kMatchSpecLenStart \in Nat
        /\ SameText(d, dict, m) /\ SamePlace(d, q, at, m, b)
    BY MarkLength DEF Agrees, Decoders
  <1>3. /\ rest >= kMatchSpecLenStart <=> d.remainLen >= kMatchSpecLenStart
        /\ ~(d.remainLen >= kMatchSpecLenStart) => rest = d.remainLen
    BY <1>2 DEF AtMost
  <1> HIDE DEF rest, e
  <1>4. /\ e.remainLen = rest /\ e.state = d.state /\ e.reps = d.reps
        /\ e.processedPos = d.processedPos /\ e.dicPos = d.dicPos
    BY <1>1 DEF Decoders
  <1>5. e.range = d.range /\ e.code = d.code /\ e.checkDicSize = d.checkDicSize
    BY <1>1 DEF Decoders
  <1>6. e.needFlush = d.needFlush /\ e.needInitState = d.needInitState
    BY <1>1 DEF Decoders
  <1>7. SameText(e, dict, m)
    BY <1>2, <1>4, <1>5 DEF SameText
  <1>8. CoderAt(e, q, at) = CoderAt(d, q, at) /\ Marked(e) = Marked(d)
        /\ (~Marked(d) => e.remainLen = d.remainLen)
    BY <1>3, <1>4, <1>5 DEF CoderAt, Marked
  <1>9. SamePlace(e, q, at, m, b)
    BY <1>2, <1>4, <1>5, <1>8 DEF SamePlace
  <1> QED
    BY <1>4, <1>6, <1>7, <1>8, <1>9 DEF Agrees, e

(* ... and the input that was used is accounted for.                        *)
LEMMA StoreFollows ==
    ASSUME LzmaInv, NEW m, Follows(m), StoreReal
    PROVE  Follows(m)'
  <1> DEFINE full == FullDictionary(r.dec)
             len == RemLen(full, io.dicLimit)
             d == WriteRem(full, io.dicLimit)
             more == d.dicPos < io.dicLimit /\ r.buf < r.bufLimit
                        /\ d.remainLen < kMatchSpecLenStart
  <1>1. /\ pc = "stored" /\ dic' = Copied(dic, full.dicPos, len, full.reps[1])
        /\ bytes' = bytes /\ output' = output /\ dprobs' = dprobs /\ ret' = ret
        /\ more => /\ p' = d /\ pc' = "real"
                   /\ r' = [r EXCEPT !.limit = RealLimit(d), !.dec = d]
                   /\ UNCHANGED <<taken, tempBuf, io>>
        /\ ~more => /\ p' = [d EXCEPT !.remainLen = AtMost(@, kMatchSpecLenStart)]
                    /\ pc' = "toDic" /\ tempBuf' = << >>
                    /\ taken' = IF r.fromTemp THEN taken - UnreadOfTemp(r.buf)
                                ELSE taken + r.buf
                    /\ io' = [io EXCEPT !.inSize = IF r.fromTemp THEN @ + UnreadOfTemp(r.buf)
                                                   ELSE @ - r.buf]
    BY DEF StoreReal
  <1>2. InReal /\ Cur = r.dec /\ CurProbs = dprobs /\ CurAt = Offset + r.buf
    BY <1>1 DEF InReal, Cur, CurProbs, CurAt
  <1>3. /\ ret.ok /\ m \in Read(bytes) /\ m.end = "open" /\ Prefix(output, m.text)
        /\ Agrees(r.dec, dic, dprobs, CurAt, m, bytes)
        /\ r.dec.processedPos = Len(output) + (r.dec.dicPos - io.dicPos)
        /\ ~r.fromTemp => tempBuf = << >>
        /\ PieceOf(tempBuf, bytes, Offset)
    BY <1>1, <1>2 DEF Follows, AtHand, Fresh
  <1>t. /\ r \in Locals /\ r.dec \in Decoders /\ r.buf \in Nat /\ taken \in Nat
        /\ Len(tempBuf) \in Nat /\ Offset \in Nat /\ bytes \in Seq(Bytes) /\ Len(output) \in Nat
        /\ io \in [inSize : Nat, outSize : Nat, dicPos : 0 .. DicBufSize, dicLimit : 0 .. DicBufSize]
        /\ DicBufSize \in Nat
    BY FollowsTypes
  <1>4. /\ DecoderOK(r.dec, dic) /\ ~r.dec.needInitState /\ ~r.dec.needFlush
        /\ r.dec.dicPos <= io.dicLimit
    <2>1. /\ DecoderOK(r.dec, dic) /\ ~r.dec.needInitState /\ ~r.dec.needFlush
          /\ r.dec.dicPos <= r.limit /\ r.limit <= io.dicLimit
      BY <1>1 DEF LzmaInv, LocalsInv
    <2>2. r.dec.dicPos \in 0 .. DicBufSize /\ r.limit \in Nat /\ io.dicLimit \in 0 .. DicBufSize
      BY <1>t DEF Decoders, Locals
    <2> QED
      BY <1>t, <2>1, <2>2
  <1>5. /\ DecoderOK(full, dic) /\ full.dicPos = r.dec.dicPos
        /\ ~full.needInitState /\ ~full.needFlush
    BY <1>4, FullIsWritten
  <1>6. Agrees(full, dic, dprobs, CurAt, m, bytes) /\ full.processedPos = r.dec.processedPos
    BY <1>3, <1>t, FullAgrees
  <1>7. full \in Decoders /\ full.dicPos <= io.dicLimit /\ io.dicLimit \in 0 .. DicBufSize
    BY <1>4, <1>5, <1>t DEF DecoderOK
  <1> HIDE DEF full
  <1>8. m \in Readable
    BY <1>3, <1>t, ReadIs
  <1>9. Agrees(d, dic', dprobs, CurAt, m, bytes)
    BY <1>1, <1>5, <1>6, <1>7, <1>8, RemAgrees
  <1>10. /\ len \in Nat /\ d.dicPos = full.dicPos + len
         /\ d.processedPos = full.processedPos + len
         /\ ~Marked(d) => d.dicPos = io.dicLimit \/ d.remainLen = 0
         /\ ~d.needFlush /\ ~d.needInitState
    BY <1>5, <1>7, RemFields
  <1>11. d \in Decoders
    <2>1. full.checkDicSize = 0 => full.processedPos < DicBufSize
      BY <1>4, FullIsWritten DEF full
    <2> QED
      BY <1>5, <1>7, <2>1, RemWritten DEF DecoderOK
  <1> HIDE DEF d, len
  <1>12. d.processedPos = Len(output) + (d.dicPos - io.dicPos)
    <2>1. r.dec.dicPos \in 0 .. DicBufSize /\ io.dicPos \in 0 .. DicBufSize
      BY <1>t DEF Decoders
    <2> QED
      BY <1>3, <1>5, <1>6, <1>10, <1>t, <2>1
  <1>t2. d.dicPos \in 0 .. DicBufSize /\ d.remainLen \in Nat /\ kMatchSpecLenStart \in Nat
    BY <1>11, MarkLength DEF Decoders
  <1>13. CASE more
    <2>1. pc' = "real" /\ p' = d /\ r'.dec = d /\ r'.buf = r.buf /\ r'.fromTemp = r.fromTemp
          /\ UNCHANGED <<taken, tempBuf, io>>
      BY <1>1, <1>13, <1>t DEF Locals
    <2>2. d.remainLen = 0
      BY <1>10, <1>13, <1>7, <1>t, <1>t2 DEF Marked
    <2>3. /\ InReal' /\ Offset' = Offset /\ Cur' = d /\ CurProbs' = dprobs /\ CurAt' = CurAt
          /\ Fresh' = d.dicPos - io.dicPos
      BY <1>1, <1>2, <2>1 DEF InReal, Offset, Cur, CurProbs, CurAt, Fresh
    <2>4. (Cur.processedPos = Len(output) + Fresh)' /\ p'.dicPos <= r'.dec.dicPos
      BY <1>1, <1>12, <1>t2, <1>t, <2>1, <2>3
    <2>5. AtHand'
      BY <1>1, <1>3, <2>1, <2>2, <2>3, <2>4 DEF AtHand
    <2> QED
      BY <1>1, <1>3, <1>9, <1>10, <2>1, <2>3, <2>5 DEF Follows
  <1>14. CASE ~more
    <2>1. /\ p' = [d EXCEPT !.remainLen = AtMost(@, kMatchSpecLenStart)] /\ pc' = "toDic"
          /\ tempBuf' = << >>
          /\ taken' = IF r.fromTemp THEN taken - UnreadOfTemp(r.buf) ELSE taken + r.buf
      BY <1>1, <1>14
    <2>2. io'.dicPos = io.dicPos /\ io'.dicLimit = io.dicLimit
      BY <1>1, <1>14, <1>t
    <2>3. /\ Agrees(p', dic', dprobs, CurAt, m, bytes) /\ p'.dicPos = d.dicPos
          /\ p'.processedPos = d.processedPos /\ ~p'.needFlush /\ ~p'.needInitState
          /\ Marked(p') = Marked(d) /\ (~Marked(d) => p'.remainLen = d.remainLen)
      <3>1. p' = Cut(d)
        BY <2>1 DEF Cut
      <3> QED
        BY <1>9, <1>10, <1>11, <3>1, CutAgrees
    <2>4. Offset' = CurAt /\ Len(tempBuf') = 0
      <3>1. Len(tempBuf') = 0
        BY <2>1
      <3>2. CASE r.fromTemp
        <4>1. taken' = taken - (Len(tempBuf) - r.buf) /\ Offset' = taken' - 0
          BY <2>1, <3>1, <3>2 DEF Offset, UnreadOfTemp
        <4>2. taken \in Nat /\ Len(tempBuf) \in Nat /\ r.buf \in Nat
          BY <1>t
        <4>3. CurAt = (taken - Len(tempBuf)) + r.buf
          BY <1>2 DEF Offset
        <4> QED
          BY ONLY <3>1, <4>1, <4>2, <4>3
      <3>3. CASE ~r.fromTemp
        <4>1. Len(tempBuf) = 0
          BY <1>3, <3>3
        <4> QED
          BY <1>2, <1>t, <2>1, <3>1, <3>3, <4>1 DEF Offset
      <3> QED
        BY <3>1, <3>2, <3>3
    <2>5. /\ ~InReal' /\ StateReady' = p' /\ ProbsReady' = dprobs
      BY <1>1, <2>1, <2>3 DEF InReal, StateReady, ProbsReady
    <2>6. /\ Cur' = p' /\ CurProbs' = dprobs /\ CurAt' = CurAt
          /\ Fresh' = p'.dicPos - io.dicPos
      BY <2>1, <2>2, <2>4, <2>5 DEF Cur, CurProbs, CurAt, Fresh
    <2>7. (Cur.processedPos = Len(output) + Fresh)'
      BY <1>1, <1>12, <2>3, <2>6
    <2>8. PieceOf(tempBuf', bytes', Offset')
      <3>1. LzmaInv'
        BY StoreKeeps
      <3>2. /\ taken' \in Nat /\ taken' + io'.inSize <= Len(bytes') /\ io'.inSize \in Nat
            /\ Len(bytes') \in Nat
        BY <3>1, LenProperties DEF LzmaInv, InputInv, CallInv
      <3>3. Offset' = taken'
        <4>1. Offset' = taken' - Len(tempBuf')
          BY DEF Offset
        <4>2. Len(tempBuf') = 0
          BY <2>4
        <4>3. taken' \in Nat
          BY <3>2
        <4>4. \A x \in Nat : x - 0 = x
          OBVIOUS
        <4>5. taken' - 0 = taken'
          BY ONLY <4>3, <4>4
        <4> QED
          BY ONLY <4>1, <4>2, <4>5
      <3> QED
        BY <2>4, <3>2, <3>3 DEF PieceOf
    <2>9. p'.dicPos = io'.dicLimit \/ p'.remainLen = 0 \/ Marked(p')
      BY <1>10, <2>2, <2>3
    <2>10. AtHand'
      BY <2>1, <2>5, <2>7, <2>8, <2>9 DEF AtHand, InReal
    <2> QED
      BY <1>1, <1>3, <2>3, <2>6, <2>10 DEF Follows
  <1> QED
    BY <1>13, <1>14

(* LzmaDec_DecodeReal: what it knows of the symbol to come is what the text *)
(* says, and its range decoder is where the reading's is.                   *)
AtSymbol(m) ==
    /\ OpenOK(m, bytes) /\ m \in Read(bytes)
    /\ DecoderOK(r.dec, dic) /\ ~r.dec.needInitState /\ ~r.dec.needFlush
    /\ r.dec.dicPos < r.limit /\ r.limit \in 0 .. DicBufSize
    /\ SameText(r.dec, dic, m) /\ Len(m.text) = r.dec.processedPos
    /\ Known(r.dec, dic) = KnownAfter(m)
    /\ CoderAt(r.dec, dprobs, r.buf) \in Coders
    /\ m.coder = Normalized(CoderAt(r.dec, dprobs, Offset + r.buf), bytes)
    /\ PieceOf(Input, bytes, Offset)
    /\ Prefix(output, m.text)
    /\ r.dec.processedPos = Len(output) + (r.dec.dicPos - io.dicPos)
    /\ p.dicPos <= r.dec.dicPos

(* LzmaDec_DecodeReal is about to decode the next symbol of the reading.    *)
LEMMA IsAtSymbol ==
    ASSUME LzmaInv, NEW m, Follows(m), pc = "real"
    PROVE  AtSymbol(m)
  <1>1. InReal /\ Cur = r.dec /\ CurProbs = dprobs /\ CurAt = Offset + r.buf
    BY DEF InReal, Cur, CurProbs, CurAt
  <1>2. /\ m \in Read(bytes) /\ m.end = "open" /\ Prefix(output, m.text)
        /\ SameText(r.dec, dic, m) /\ SamePlace(r.dec, dprobs, Offset + r.buf, m, bytes)
        /\ r.dec.processedPos = Len(output) + (r.dec.dicPos - io.dicPos)
        /\ ~r.fromTemp => tempBuf = << >>
        /\ PieceOf(tempBuf, bytes, Offset) /\ p.dicPos <= r.dec.dicPos
        /\ r.dec.remainLen = 0
    BY <1>1 DEF Follows, AtHand, Fresh, Agrees
  <1>t. /\ r \in Locals /\ r.dec \in Decoders /\ r.buf \in Nat /\ taken \in Nat
        /\ Len(tempBuf) \in Nat /\ bytes \in Seq(Bytes) /\ io.inSize \in Nat
        /\ taken + io.inSize <= Len(bytes) /\ DicBufSize \in Nat
        /\ io.dicLimit \in 0 .. DicBufSize
    BY FollowsTypes
  <1>3. OpenOK(m, bytes)
    BY <1>2, <1>t, ReadIs
  <1>4. /\ DecoderOK(r.dec, dic) /\ ~r.dec.needInitState /\ ~r.dec.needFlush
        /\ ~p.needInitState /\ r.dec.dicPos < r.limit /\ r.limit <= io.dicLimit
        /\ r.dec.range >= Base * Base
    BY DEF LzmaInv, LocalsInv
  <1>5. r.limit \in 0 .. DicBufSize
    BY <1>4, <1>t DEF Locals
  <1>6. Len(m.text) = r.dec.processedPos /\ m.coder = Normalized(CoderAt(r.dec, dprobs, Offset + r.buf), bytes)
    <2>1. ~Marked(r.dec)
      BY <1>2, MarkLength DEF Marked
    <2>2. r.dec.processedPos \in Nat
      BY <1>t DEF Decoders
    <2> QED
      BY <1>2, <2>1, <2>2 DEF SamePlace
  <1>7. Known(r.dec, dic) = KnownAfter(m)
    BY <1>2, <1>3, <1>4, <1>6, KnownAgrees
  <1>8. CoderAt(r.dec, dprobs, r.buf) \in Coders
    <2>1. dprobs \in [AllContexts -> Probabilities]
      BY <1>4 DEF LzmaInv, KeptInv
    <2>2. r.dec.range \in Base * Base .. Word - 1 /\ r.dec.code \in 0 .. Word - 1
      <3> DEFINE least == Base * Base
      <3>1. least \in Nat /\ Word \in Nat /\ r.dec.range >= least
        BY <1>4, Sizes
      <3>2. r.dec.range \in 0 .. Word - 1 /\ r.dec.code \in 0 .. Word - 1
        BY <1>t DEF Decoders
      <3> HIDE DEF least
      <3>3. r.dec.range \in least .. Word - 1
        BY <3>1, <3>2
      <3> QED
        BY <3>2, <3>3 DEF least
    <2> QED
      BY <1>t, <2>1, <2>2 DEF CoderAt, Coders
  <1>9. PieceOf(Input, bytes, Offset)
    <2>1. CASE r.fromTemp
      BY <1>2, <2>1 DEF Input
    <2>2. CASE ~r.fromTemp
      <3>1. Offset = taken
        <4>1. Len(tempBuf) = 0
          BY <1>2, <2>2
        <4> QED
          BY <1>t, <4>1 DEF Offset
      <3>2. PieceOf(Source, bytes, taken)
        BY <1>t, PieceIs DEF Source
      <3> QED
        BY <2>2, <3>1, <3>2 DEF Input
    <2> QED
      BY <2>1, <2>2
  <1> QED
    BY <1>2, <1>3, <1>4, <1>5, <1>6, <1>7, <1>8, <1>9 DEF AtSymbol

(* So it reads the reading's next symbol.                                   *)
LEMMA ReadsNext ==
    ASSUME LzmaInv, NEW m, Follows(m), pc = "real"
    PROVE  \E y : /\ SymbolWalks(Known(r.dec, dic), CoderAt(r.dec, dprobs, r.buf), Input) = {y}
                  /\ WalkOK(y.w) /\ Done(y.w) /\ y.coder \in Coders
                  /\ y.w = NextWalk(bytes, m).w
                  /\ NextCoder(bytes, m) = Normalized(Shifted(y.coder, Offset), bytes)
                  /\ NextCoder(bytes, m) = Shifted(Normalized(y.coder, Input), Offset)
                  /\ NextCoder(bytes, m).buf <= Len(bytes)
                  /\ Normalized(y.coder, Input).buf <= Len(Input)
                  /\ Normalized(y.coder, Input) \in Coders
  <1> DEFINE c == CoderAt(r.dec, dprobs, r.buf)
             e == m.coder
             d == Known(r.dec, dic)
  <1>1. AtSymbol(m)
    BY IsAtSymbol
  <1>t. /\ bytes \in Seq(Bytes) /\ Input \in Seq(Bytes) /\ Len(Input) \in Nat /\ Offset \in Nat
        /\ Len(bytes) \in Nat
    BY FollowsTypes, InputIs
  <1>2. /\ c \in Coders /\ PieceOf(Input, bytes, Offset) /\ d = KnownAfter(m)
        /\ OpenOK(m, bytes) /\ e = Normalized(CoderAt(r.dec, dprobs, Offset + r.buf), bytes)
    BY <1>1 DEF AtSymbol
  <1>3. e \in Coders /\ KnownOK(d)
    BY <1>2, OpenKnows DEF OpenOK, Readable
  <1>4. CoderAt(r.dec, dprobs, Offset + r.buf) = Shifted(c, Offset)
    BY DEF CoderAt, Shifted
  <1>c. c = [range |-> r.dec.range, code |-> r.dec.code, buf |-> r.buf, probs |-> dprobs]
    BY DEF CoderAt
  <1> HIDE DEF c, e, d
  <1>5. Normalized(e, bytes) = Normalized(Shifted(c, Offset), bytes)
    <2>1. Shifted(c, Offset) \in Coders
      BY <1>2, <1>t, ShiftedCoder
    <2> QED
      BY <1>2, <1>4, <1>t, <2>1, NormalizedOnce
  <1>6. PICK y, z : /\ SymbolWalks(d, c, Input) = {y} /\ Ends(y, c, Input)
                    /\ SymbolWalks(d, e, bytes) = {z} /\ Ends(z, e, bytes)
                    /\ Together(y, z, Input, bytes, Offset) \/ Apart(y, z, Input, bytes, Offset)
    BY <1>2, <1>3, <1>5, <1>t, PieceWalk
  <1>7. NextWalk(bytes, m) = z
    BY <1>2, <1>6 DEF NextWalk, e
  <1>8. y.coder \in Coders /\ WalkOK(y.w) /\ Done(y.w)
    BY <1>6 DEF Ends
  <1>9. Normalized(y.coder, Input).buf <= Len(Input)
    BY <1>2, <1>6, <1>c, SymbolFits DEF d
  <1>10. /\ Normalized(Shifted(y.coder, Offset), bytes).buf = Offset + Normalized(y.coder, Input).buf
         /\ Normalized(Shifted(y.coder, Offset), bytes) = Shifted(Normalized(y.coder, Input), Offset)
         /\ Normalized(y.coder, Input).buf \in Nat
    BY <1>2, <1>8, <1>9, <1>t, NormalizedShifted
  <1>11. Together(y, z, Input, bytes, Offset)
    BY <1>6, <1>9, <1>10, <1>t DEF Apart
  <1>12. NextCoder(bytes, m) = Normalized(Shifted(y.coder, Offset), bytes) /\ y.w = z.w
    BY <1>7, <1>11 DEF Together, NextCoder
  <1>13. NextCoder(bytes, m).buf <= Len(bytes)
    BY <1>2, <1>9, <1>10, <1>12, <1>t DEF PieceOf
  <1>14. Normalized(y.coder, Input) \in Coders
    BY <1>8, <1>t, NormalizedIs DEF Bytes
  <1> QED
    BY <1>6, <1>7, <1>8, <1>9, <1>10, <1>12, <1>13, <1>14 DEF c, d

(* A symbol of LzmaDec_DecodeReal takes the decoder to the next reading, ...*)
Taken(w, k) ==
    /\ dprobs' = k.probs /\ dic' = Written(r.dec, w, dic, r.limit)
    /\ r'.dec = After(r.dec, w, k, r.limit) /\ r'.buf = k.buf /\ r'.fromTemp = r.fromTemp
    /\ pc' \in {"real", "stored"}
    /\ pc' = "real" => ~Mark(w) /\ r'.dec.dicPos < r.limit
    /\ UNCHANGED <<bytes, taken, output, p, tempBuf, io, ret>>

(* A symbol that makes sense is taken, and the reading goes on with it.     *)
LEMMA TakenFollows ==
    ASSUME LzmaInv, NEW m, Follows(m), pc = "real", Sensible(bytes, m),
           NEW k, k \in Coders, Normalized(Shifted(k, Offset), bytes) = NextCoder(bytes, m),
           Taken(NextWalk(bytes, m).w, k)
    PROVE  Follows(Enlarged(bytes, m))'
  <1> DEFINE w == NextWalk(bytes, m).w
             m1 == Enlarged(bytes, m)
             e == After(r.dec, w, k, r.limit)
             part == Part(r.dec, w, r.limit)
             n == r.dec.processedPos
  <1>1. /\ OpenOK(m, bytes) /\ m \in Read(bytes)
        /\ DecoderOK(r.dec, dic) /\ r.dec \in Decoders /\ ~r.dec.needInitState
        /\ ~r.dec.needFlush /\ r.dec.dicPos < r.limit /\ r.limit \in 0 .. DicBufSize
        /\ SameText(r.dec, dic, m) /\ Len(m.text) = n
        /\ Prefix(output, m.text)
        /\ n = Len(output) + (r.dec.dicPos - io.dicPos)
        /\ p.dicPos <= r.dec.dicPos
    <2>1. AtSymbol(m)
      BY IsAtSymbol
    <2> QED
      BY <2>1 DEF AtSymbol, DecoderOK
  <1>t. /\ bytes \in Seq(Bytes) /\ Len(output) \in Nat /\ output \in Seq(Letters)
        /\ DicBufSize \in Nat /\ p.dicPos \in 0 .. DicBufSize /\ io.dicPos \in 0 .. DicBufSize
        /\ r.dec.dicPos \in 0 .. DicBufSize /\ n \in Nat /\ r.limit \in Nat
    <2>1. /\ bytes \in Seq(Bytes) /\ Len(output) \in Nat /\ output \in Seq(Letters)
          /\ DicBufSize \in Nat /\ p.dicPos \in 0 .. DicBufSize
          /\ io.dicPos \in 0 .. DicBufSize
      BY FollowsTypes
    <2>2. r.dec.dicPos \in 0 .. DicBufSize /\ n \in Nat
      BY <1>1 DEF Decoders
    <2>3. r.limit \in Nat
      BY <1>1, <2>1
    <2> QED
      BY <2>1, <2>2, <2>3
  <1>2. WalkOK(w) /\ Done(w) /\ ~Mark(w)
    BY <1>1, <1>t, NextIs DEF Sensible
  <1>3. /\ m1 = ReadSymbol(bytes, m) /\ OpenOK(m1, bytes) /\ m1.coder = NextCoder(bytes, m)
        /\ Prefix(m.text, m1.text) /\ m1 \in Read(bytes)
    <2>1. ReadSymbol(bytes, m) \in Read(bytes)
      BY <1>1, <1>t, ReadIs DEF OpenOK
    <2> QED
      BY <1>1, <1>t, <2>1, EnlargedOK
  <1>4. SameText(e, Written(r.dec, w, dic, r.limit), m1) /\ Len(m1.text) = e.processedPos + e.remainLen
    <2>1. /\ bytes \in Seq(Bytes) /\ OpenOK(m, bytes) /\ Sensible(bytes, m)
          /\ DecoderOK(r.dec, dic) /\ r.limit \in 0 .. DicBufSize /\ r.dec.dicPos < r.limit
          /\ SameText(r.dec, dic, m) /\ Len(m.text) = r.dec.processedPos
      BY <1>1, <1>t
    <2> QED
      BY ONLY <2>1, SymbolAgrees
  <1>5. /\ part \in Nat /\ part <= Whole(w) /\ (part = Whole(w) \/ r.dec.dicPos + part = r.limit)
        /\ e.dicPos = r.dec.dicPos + part /\ e.processedPos = n + part
        /\ e.range = k.range /\ e.code = k.code /\ Whole(w) \in Nat
        /\ e.remainLen = Whole(w) - part /\ ~Marked(e)
    <2>1. r.dec \in Decoders /\ WalkOK(w) /\ ~Mark(w) /\ r.limit \in Nat /\ r.dec.dicPos < r.limit
      BY <1>1, <1>2, <1>t
    <2> HIDE DEF w
    <2> QED
      BY ONLY <2>1, AfterIs DEF e, part, n
  <1>6. /\ dprobs' = k.probs /\ dic' = Written(r.dec, w, dic, r.limit)
        /\ r'.dec = e /\ r'.buf = k.buf /\ r'.fromTemp = r.fromTemp
        /\ pc' \in {"real", "stored"} /\ (pc' = "real" => r'.dec.dicPos < r.limit)
        /\ UNCHANGED <<bytes, taken, output, p, tempBuf, io, ret>>
    BY DEF Taken
  <1> HIDE DEF w, m1, e, part, n
  <1>7. /\ InReal' /\ Offset' = Offset /\ Cur' = e /\ CurProbs' = k.probs
        /\ CurAt' = Offset + k.buf /\ Fresh' = e.dicPos - io.dicPos
    BY <1>6 DEF InReal, Offset, Cur, CurProbs, CurAt, Fresh
  <1>8. SamePlace(e, k.probs, Offset + k.buf, m1, bytes)
    <2>1. CoderAt(e, k.probs, Offset + k.buf) = Shifted(k, Offset)
      BY <1>5 DEF CoderAt, Shifted, Coders
    <2> QED
      BY <1>3, <1>4, <1>5, <2>1 DEF SamePlace
  <1>9. Agrees(Cur', dic', CurProbs', CurAt', m1, bytes')
    BY <1>4, <1>6, <1>7, <1>8 DEF Agrees
  <1>10. (Cur.processedPos = Len(output) + Fresh)' /\ p'.dicPos <= r'.dec.dicPos
    <2>1. /\ Cur' = e /\ output' = output /\ Fresh' = e.dicPos - io.dicPos
          /\ p' = p /\ r'.dec = e
      BY <1>6, <1>7
    <2>2. e.processedPos = Len(output) + (e.dicPos - io.dicPos) /\ p.dicPos <= e.dicPos
      <3>1. n = Len(output) + (r.dec.dicPos - io.dicPos) /\ p.dicPos <= r.dec.dicPos
        BY <1>1
      <3>2. e.dicPos = r.dec.dicPos + part /\ e.processedPos = n + part /\ part \in Nat
        BY <1>5
      <3>3. /\ r.dec.dicPos \in Nat /\ io.dicPos \in Nat /\ p.dicPos \in Nat
            /\ Len(output) \in Nat /\ n \in Nat
        BY <1>t
      <3> QED
        BY ONLY <3>1, <3>2, <3>3
    <2> QED
      BY <2>1, <2>2
  <1>11. pc' = "real" => r'.dec.remainLen = 0
    <2> SUFFICES ASSUME pc' = "real" PROVE e.remainLen = 0
      BY <1>6
    <2>1. e.dicPos < r.limit
      BY <1>6
    <2>2. part = Whole(w)
      BY <1>5, <1>t, <2>1
    <2> QED
      BY <1>5, <2>2
  <1>12. AtHand'
    <2>1. PieceOf(tempBuf, bytes, Offset) /\ (~r.fromTemp => tempBuf = << >>)
      BY DEF Follows, AtHand, InReal
    <2> QED
      BY <1>6, <1>7, <1>10, <1>11, <2>1 DEF AtHand
  <1>13. Prefix(output, m1.text)
    <2>1. Len(m1.text) \in Nat /\ Len(m.text) \in Nat
      BY <1>1, <1>3, LenProperties DEF OpenOK, Readable
    <2> QED
      BY <1>1, <1>3, <1>t, <2>1, PrefixOf
  <1>14. ret'.ok /\ ~p'.needFlush /\ m1.end = "open"
    BY <1>3, <1>6 DEF Follows, OpenOK
  <1> QED
    BY <1>3, <1>6, <1>9, <1>12, <1>13, <1>14 DEF Follows, m1

(* ... an end mark leaves it where it is, the mark behind it, ...           *)
LEMMA MarkTaken ==
    ASSUME LzmaInv, NEW m, Follows(m), pc = "real", Mark(NextWalk(bytes, m).w),
           NEW k, k \in Coders, Shifted(k, Offset) = NextCoder(bytes, m),
           NextCoder(bytes, m).buf <= Len(bytes), Taken(NextWalk(bytes, m).w, k)
    PROVE  Follows(m)'
  <1> DEFINE w == NextWalk(bytes, m).w
             e == After(r.dec, w, k, r.limit)
             n == r.dec.processedPos
  <1>1. /\ OpenOK(m, bytes) /\ m \in Read(bytes) /\ m \in Readable
        /\ DecoderOK(r.dec, dic) /\ r.dec \in Decoders /\ ~r.dec.needInitState
        /\ ~r.dec.needFlush /\ r.dec.dicPos < r.limit /\ r.limit \in 0 .. DicBufSize
        /\ SameText(r.dec, dic, m) /\ Len(m.text) = n
        /\ Prefix(output, m.text)
        /\ n = Len(output) + (r.dec.dicPos - io.dicPos)
        /\ p.dicPos <= r.dec.dicPos
    <2>1. AtSymbol(m)
      BY IsAtSymbol
    <2> QED
      BY <2>1 DEF AtSymbol, DecoderOK, OpenOK
  <1>t. /\ bytes \in Seq(Bytes) /\ Len(output) \in Nat
        /\ DicBufSize \in Nat /\ p.dicPos \in 0 .. DicBufSize /\ io.dicPos \in 0 .. DicBufSize
        /\ r.dec.dicPos \in 0 .. DicBufSize /\ n \in Nat /\ r.limit \in Nat
    <2>1. /\ bytes \in Seq(Bytes) /\ Len(output) \in Nat /\ output \in Seq(Letters)
          /\ DicBufSize \in Nat /\ p.dicPos \in 0 .. DicBufSize
          /\ io.dicPos \in 0 .. DicBufSize
      BY FollowsTypes
    <2>2. r.dec.dicPos \in 0 .. DicBufSize /\ n \in Nat
      BY <1>1 DEF Decoders
    <2>3. r.limit \in Nat
      BY <1>1, <2>1
    <2> QED
      BY <2>1, <2>2, <2>3
  <1>2. WalkOK(w) /\ Mark(w)
    BY <1>1, <1>t, NextIs
  <1>3. /\ SameText(e, Written(r.dec, w, dic, r.limit), m) /\ Len(m.text) = e.processedPos
    <2> HIDE DEF w
    <2> QED
      BY <1>1, <1>2, MarkAgrees
  <1>4. /\ e.dicPos = r.dec.dicPos + 0 /\ e.code = k.code /\ Marked(e)
    <2> HIDE DEF w
    <2> QED
      BY <1>1, <1>2, <1>t, AfterIs
  <1>5. /\ dprobs' = k.probs /\ dic' = Written(r.dec, w, dic, r.limit)
        /\ r'.dec = e /\ r'.buf = k.buf /\ r'.fromTemp = r.fromTemp /\ pc' = "stored"
        /\ UNCHANGED <<bytes, taken, output, p, tempBuf, io, ret>>
    BY <1>2 DEF Taken
  <1> HIDE DEF e, n
  <1>6. /\ InReal' /\ Offset' = Offset /\ Cur' = e /\ CurProbs' = k.probs
        /\ CurAt' = Offset + k.buf /\ Fresh' = e.dicPos - io.dicPos
    BY <1>5 DEF InReal, Offset, Cur, CurProbs, CurAt, Fresh
  <1>7. SamePlace(e, k.probs, Offset + k.buf, m, bytes)
    <2>1. NextCoder(bytes, m).buf = Offset + k.buf /\ NextCoder(bytes, m).code = k.code
      <3>1. Shifted(k, Offset).buf = Offset + k.buf /\ Shifted(k, Offset).code = k.code
        BY DEF Shifted, Coders
      <3> QED
        BY <3>1
    <2>2. MarkNext(bytes, m, Offset + k.buf, e.code)
      BY <1>2, <1>4, <2>1 DEF MarkNext
    <2> QED
      BY <1>3, <1>4, <2>2 DEF SamePlace
  <1>8. Agrees(Cur', dic', CurProbs', CurAt', m, bytes')
    BY <1>3, <1>5, <1>6, <1>7 DEF Agrees
  <1>9. (Cur.processedPos = Len(output) + Fresh)' /\ p'.dicPos <= r'.dec.dicPos
    BY <1>1, <1>3, <1>4, <1>5, <1>6, <1>t
  <1>10. AtHand'
    <2>1. PieceOf(tempBuf, bytes, Offset) /\ (~r.fromTemp => tempBuf = << >>)
      BY DEF Follows, AtHand, InReal
    <2> QED
      BY <1>5, <1>6, <1>9, <2>1 DEF AtHand
  <1>11. ret'.ok /\ ~p'.needFlush /\ m.end = "open"
    BY <1>5 DEF Follows
  <1> QED
    BY <1>1, <1>5, <1>8, <1>10, <1>11 DEF Follows

(* ... and a symbol that leads nowhere is refused.  What is read lies       *)
(* within the input of the call.                                            *)
LEMMA SymbolIs ==
    ASSUME LzmaInv, NEW m, Follows(m), DecodeSymbol
    PROVE  /\ pc = "real" /\ UNCHANGED <<bytes, asked, taken, output, p, tempBuf, io>>
           /\ NextCoder(bytes, m).buf <= Len(bytes)
           /\ NextCoder(bytes, m).buf <= taken + io.inSize
           /\ \/ /\ ~Mark(NextWalk(bytes, m).w)
                 /\ LeadsNowhere(Len(m.text), NextWalk(bytes, m).w)
                 /\ Leave("NOT_SPECIFIED", FALSE) /\ UNCHANGED <<dic, r>>
              \/ /\ Mark(NextWalk(bytes, m).w)
                 /\ \E k \in Coders : /\ Shifted(k, Offset) = NextCoder(bytes, m)
                                      /\ Taken(NextWalk(bytes, m).w, k)
              \/ /\ Sensible(bytes, m)
                 /\ \E k \in Coders :
                        /\ Normalized(Shifted(k, Offset), bytes) = NextCoder(bytes, m)
                        /\ Taken(NextWalk(bytes, m).w, k)
  <1>0. pc = "real"
    BY DEF DecodeSymbol
  <1>1. PICK y : /\ SymbolWalks(Known(r.dec, dic), CoderAt(r.dec, dprobs, r.buf), Input) = {y}
                 /\ WalkOK(y.w) /\ Done(y.w) /\ y.coder \in Coders
                 /\ y.w = NextWalk(bytes, m).w
                 /\ NextCoder(bytes, m) = Normalized(Shifted(y.coder, Offset), bytes)
                 /\ NextCoder(bytes, m) = Shifted(Normalized(y.coder, Input), Offset)
                 /\ NextCoder(bytes, m).buf <= Len(bytes)
                 /\ Normalized(y.coder, Input).buf <= Len(Input)
                 /\ Normalized(y.coder, Input) \in Coders
    BY <1>0, ReadsNext
  <1> DEFINE w == y.w
             c == y.coder
             k == Normalized(c, Input)
  <1>2. /\ SymbolDecoded(r.dec, w, c) /\ UNCHANGED <<bytes, asked, taken, output, p, tempBuf, io>>
    BY <1>1 DEF DecodeSymbol, CoderAt
  <1>3. AtSymbol(m)
    BY <1>0, IsAtSymbol
  <1>t. /\ bytes \in Seq(Bytes) /\ r \in Locals /\ Input \in Seq(Bytes)
        /\ Len(Input) \in Nat /\ Offset \in Nat
    BY FollowsTypes, InputIs
  <1>4. k.probs = c.probs
    BY <1>1, <1>t, NormalizedIs DEF Bytes
  <1>5. NextCoder(bytes, m).buf <= taken + io.inSize
    <2>1. NextCoder(bytes, m).buf = Offset + k.buf /\ k.buf <= Len(Input) /\ k.buf \in Nat
      BY <1>1 DEF Shifted, Coders
    <2>2. Offset + Len(Input) <= taken + io.inSize
      <3>1. /\ taken \in Nat /\ Len(tempBuf) \in Nat /\ io.inSize \in Nat
            /\ taken + io.inSize <= Len(bytes)
        BY FollowsTypes
      <3>2. CASE r.fromTemp
        BY <3>1, <3>2 DEF Input, Offset
      <3>3. CASE ~r.fromTemp
        <4>1. Len(tempBuf) = 0
          BY <1>0, <3>3 DEF Follows, AtHand, InReal
        <4>2. Len(Source) = io.inSize
          BY <3>1, <1>t, Pieces DEF Source
        <4> QED
          BY <3>1, <3>3, <4>1, <4>2 DEF Input, Offset
      <3> QED
        BY <3>2, <3>3
    <2>3. taken \in Nat /\ io.inSize \in Nat
      BY FollowsTypes
    <2>4. NextCoder(bytes, m).buf <= Offset + Len(Input) /\ NextCoder(bytes, m).buf \in Nat
      BY <1>t, <2>1
    <2>5. Offset + Len(Input) \in Nat /\ taken + io.inSize \in Nat
      BY <1>t, <2>3
    <2>6. \A i, j, n \in Nat : i <= j /\ j <= n => i <= n
      OBVIOUS
    <2> QED
      BY ONLY <2>2, <2>4, <2>5, <2>6
  <1> HIDE DEF k
  <1>6. Unfit(r.dec, w) <=> LeadsNowhere(Len(m.text), w)
    <2>1. /\ r.dec \in Decoders /\ Len(m.text) = r.dec.processedPos
          /\ r.dec.checkDicSize # 0 => DicBufSize <= Len(m.text)
          /\ r.dec.checkDicSize = 0 => Len(m.text) < DicBufSize
      <3>1. /\ DecoderOK(r.dec, dic) /\ SameText(r.dec, dic, m)
            /\ Len(m.text) = r.dec.processedPos
            /\ r.dec.dicPos < r.limit /\ r.limit \in 0 .. DicBufSize
        BY <1>3 DEF AtSymbol
      <3> QED
        BY <3>1, DecoderAssumption DEF DecoderOK, Filled, Decoders, SameText
    <2> QED
      BY <1>1, <2>1, UnfitIs
  <1>7. Refused(r.dec, w) <=> Unfit(r.dec, w)
    <2>1. r.limit # r.dec.dicPos
      <3>1. r.dec.dicPos < r.limit /\ r.limit \in 0 .. DicBufSize /\ r.dec \in Decoders
        BY <1>3 DEF AtSymbol, DecoderOK
      <3> QED
        BY <3>1, DecoderAssumption DEF Decoders
    <2> QED
      BY <2>1 DEF Refused, Unfit
  <1>8. CASE ~Mark(w) /\ Refused(r.dec, w) /\ Leave("NOT_SPECIFIED", FALSE) /\ UNCHANGED <<dic, r>>
    BY <1>0, <1>1, <1>2, <1>5, <1>6, <1>7, <1>8
  <1>9. CASE (Mark(w) \/ ~Refused(r.dec, w)) /\ dic' = Written(r.dec, w, dic, r.limit) /\ ret' = ret
    <2>1. \/ /\ ~Mark(w) /\ MoreReal(After(r.dec, w, c, r.limit), c.buf)
             /\ r' = [r EXCEPT !.dec = After(r.dec, w, c, r.limit), !.buf = c.buf] /\ pc' = pc
          \/ /\ r' = [r EXCEPT !.dec = After(r.dec, w, k, r.limit), !.buf = k.buf]
             /\ pc' = "stored"
      BY <1>2, <1>9 DEF SymbolDecoded, k, Leave
    <2>2. Taken(w, k) \/ (Taken(w, c) /\ ~Mark(w))
      <3>1. dprobs' = c.probs
        BY <1>2 DEF SymbolDecoded
      <3> QED
        BY <1>0, <1>2, <1>4, <1>9, <1>t, <2>1, <3>1 DEF Taken, MoreReal, Locals
    <2>3. CASE Mark(w)
      BY <1>0, <1>1, <1>2, <1>5, <2>2, <2>3 DEF k
    <2>4. CASE ~Mark(w)
      <3>1. Sensible(bytes, m)
        BY <1>1, <1>6, <1>7, <1>9, <2>4 DEF Sensible
      <3>2. \E x \in Coders : Taken(w, x) /\ Normalized(Shifted(x, Offset), bytes) = NextCoder(bytes, m)
        <4>1. CASE Taken(w, c)
          BY <1>1, <4>1
        <4>2. CASE Taken(w, k)
          <5>1. Shifted(c, Offset) \in Coders
            BY <1>1, FollowsTypes, ShiftedCoder
          <5>2. Normalized(Shifted(k, Offset), bytes) = NextCoder(bytes, m)
            BY <1>1, <1>t, <5>1, NormalizedOnce DEF k
          <5> QED
            BY <1>1, <4>2, <5>2 DEF k
        <4> QED
          BY <2>2, <4>1, <4>2
      <3> QED
        BY <1>0, <1>1, <1>2, <1>5, <3>1, <3>2
    <2> QED
      BY <2>3, <2>4
  <1> QED
    BY <1>2, <1>8, <1>9 DEF SymbolDecoded

(* So the text goes on, or ends with what is refused.                       *)
LEMMA SymbolFollows ==
    ASSUME LzmaInv, NEW m, Follows(m), DecodeSymbol
    PROVE  \/ \E e : Follows(e)'
           \/ GivesUp(Meaning(bytes).text)'
  <1>1. /\ pc = "real" /\ UNCHANGED <<bytes, asked, taken, output, p, tempBuf, io>>
        /\ NextCoder(bytes, m).buf <= Len(bytes)
    BY SymbolIs
  <1>2. CASE Leave("NOT_SPECIFIED", FALSE) /\ UNCHANGED <<dic, r>>
    <2> DEFINE t == Meaning(bytes).text
    <2>t. bytes \in Seq(Bytes)
      BY FollowsTypes
    <2>1. t \in Seq(Letters) /\ Prefix(m.text, t)
      BY <2>t, MeaningIs DEF Follows, Readable, Grows
    <2>2. ret'.ok = FALSE /\ pc' = "leave" /\ UNCHANGED <<bytes, output, p, dic, io>>
      BY <1>1, <1>2 DEF Leave
    <2> HIDE DEF t
    <2>3. Pending(t) /\ Prefix(output, t)
      BY <1>1, <2>1, PendingIs
    <2>4. t' = t
      BY <2>2 DEF t
    <2>5. Pending(t)' /\ Prefix(output, t)'
      BY <2>2, <2>3, <2>4 DEF Pending
    <2>6. GivesUp(t)'
      BY <2>2, <2>5 DEF GivesUp
    <2> QED
      BY <2>6 DEF t
  <1>3. CASE /\ Mark(NextWalk(bytes, m).w)
             /\ \E k \in Coders : /\ Shifted(k, Offset) = NextCoder(bytes, m)
                                  /\ Taken(NextWalk(bytes, m).w, k)
    BY <1>1, <1>3, MarkTaken
  <1>4. CASE /\ Sensible(bytes, m)
             /\ \E k \in Coders :
                    /\ Normalized(Shifted(k, Offset), bytes) = NextCoder(bytes, m)
                    /\ Taken(NextWalk(bytes, m).w, k)
    <2>1. Follows(Enlarged(bytes, m))'
      BY <1>1, <1>4, TakenFollows
    <2> QED
      BY <2>1
  <1> QED
    BY <1>2, <1>3, <1>4, SymbolIs

(* Before the range decoder has started.                                    *)
WaitsAt ==
    /\ ret.ok /\ p.needFlush /\ pc \notin {"real", "stored"}
    /\ PieceOf(tempBuf, bytes, 0) /\ taken = Len(tempBuf) /\ output = << >>
    /\ p.processedPos = 0 /\ p.dicPos = 0 /\ p.needInitState /\ p.remainLen = 0
    /\ pc \in {"toDic", "leave"} => io.dicPos = 0

(* What waiting means, with the definitions of the place unfolded.          *)
LEMMA WaitsIs ==
    ASSUME LzmaInv
    PROVE  Waits <=> WaitsAt
  <1>1. /\ taken \in Nat /\ Len(tempBuf) \in Nat /\ output \in Seq(Letters)
        /\ StateReady.dicPos = p.dicPos /\ StateReady.processedPos = p.processedPos
        /\ io.dicPos \in Nat /\ pc \in {"idle", "toBuf", "toDic", "real", "stored", "leave"}
    <2>1. pc \in {"idle", "toBuf", "toDic", "real", "stored", "leave"}
      BY DEF LzmaInv, CallInv
    <2>2. /\ taken \in Nat /\ Len(tempBuf) \in Nat /\ output \in Seq(Letters)
          /\ StateReady.dicPos = p.dicPos /\ StateReady.processedPos = p.processedPos
          /\ io.dicPos \in 0 .. DicBufSize /\ DicBufSize \in Nat
      BY FollowsTypes
    <2> QED
      BY <2>1, <2>2
  <1>2. taken = Len(tempBuf) => Offset = 0
    BY <1>1 DEF Offset
  <1>3. output = << >> => Len(output) = 0
    OBVIOUS
  <1>4. ASSUME ~InReal, p.processedPos = 0, p.dicPos = 0, output = << >>
        PROVE  (Cur.processedPos = Len(output) + Fresh) <=>
                    (pc \in {"toDic", "leave"} => io.dicPos = 0)
    <2>1. Cur = StateReady
      BY <1>4 DEF Cur
    <2>2. CASE pc \in {"idle", "toBuf"}
      BY <1>1, <1>3, <1>4, <2>1, <2>2 DEF Fresh
    <2>3. CASE pc \in {"toDic", "leave"}
      <3>1. Fresh = 0 - io.dicPos /\ Cur.processedPos = 0
        BY <1>1, <1>4, <2>1, <2>3 DEF Fresh
      <3> QED
        BY <1>1, <1>3, <1>4, <2>3, <3>1
    <2> QED
      BY <1>1, <1>4, <2>2, <2>3 DEF InReal
  <1> QED
    BY <1>2, <1>4 DEF Waits, WaitsAt, AtHand, InReal

(* Said as one formula, what WaitsIs shows can be said of the next state.   *)
LEMMA WaitingBack == LzmaInv => (WaitsAt => Waits)
  BY WaitsIs

(* A step after which everything is as before the start leaves it waiting.  *)
LEMMA WaitsNext ==
    ASSUME LzmaInv', WaitsAt'
    PROVE  Waits'
  <1>1. (LzmaInv => (WaitsAt => Waits))'
    BY WaitingBack, PTL
  <1> QED
    BY <1>1

(* Nothing that the caller or the buffers do starts the range decoder.      *)
LEMMA WaitingGoesOn ==
    ASSUME LzmaInv, LzmaInv', Waits,
           \/ \E amt, dst : Call(amt, dst)
           \/ EnterDecodeToDic
           \/ LeaveDecodeToDic
    PROVE  Waits'
  <1>1. WaitsAt
    BY WaitsIs
  <1>2. CASE \E amt, dst : Call(amt, dst)
    <2>1. /\ pc' = "toBuf" /\ UNCHANGED <<bytes, taken, output, p, tempBuf, ret>>
      BY <1>2 DEF Call
    <2>2. WaitsAt'
      BY <1>1, <2>1 DEF WaitsAt
    <2> QED
      BY <2>2, WaitsNext
  <1>3. CASE EnterDecodeToDic
    <2>1. PICK pos, limit : EnterAt(pos, limit)
      BY <1>3, EnterIsAt
    <2>2. p' = p /\ pos = p.dicPos
      BY <1>1, <2>1, NothingToCopy DEF WaitsAt
    <2>3. /\ pc' = "toDic" /\ ret'.ok = ret.ok /\ io'.dicPos = pos
          /\ UNCHANGED <<bytes, taken, output, tempBuf>>
      BY <2>1 DEF EnterAt
    <2>4. WaitsAt'
      BY <1>1, <2>2, <2>3 DEF WaitsAt
    <2> QED
      BY <2>4, WaitsNext
  <1>4. CASE LeaveDecodeToDic
    <2>1. /\ pc = "leave" /\ pc' \in {"idle", "toBuf"}
          /\ UNCHANGED <<bytes, taken, p, tempBuf, ret>>
          /\ output' = output \o [i \in 1 .. p.dicPos - io.dicPos |-> dic[io.dicPos + i - 1]]
      BY <1>4 DEF LeaveDecodeToDic
    <2>2. Len(output) = 0 /\ p.dicPos = 0 /\ io.dicPos = 0
      BY <1>1, <2>1 DEF WaitsAt
    <2>3. Prefix(output, << >>) /\ Pending(<< >>)
      BY <2>2 DEF Prefix, Pending, Since
    <2>4. Len(output') = Len(output) + (p.dicPos - io.dicPos)
      BY <1>4, <2>3, CopiedOut
    <2>5. Len(output') = 0 /\ output' \in Seq(Letters)
      BY <2>2, <2>4 DEF LzmaInv, CallInv
    <2>6. output' = << >>
      BY <2>5, EmptySeq
    <2>7. WaitsAt'
      BY <1>1, <2>1, <2>6 DEF WaitsAt
    <2> QED
      BY <2>7, WaitsNext
  <1> QED
    BY <1>2, <1>3, <1>4

(* The range decoder starts where the reading does.                         *)
LEMMA StartAgrees ==
    ASSUME NEW b, b \in Seq(Bytes), RcInitSize <= Len(b), b[1] = 0,
           NEW d, NEW dict, d \in Decoders, d.range = Word - 1, d.processedPos = 0,
           d.code = ((b[2] * Base + b[3]) * Base + b[4]) * Base + b[5],
           d.remainLen = 0, d.state = 0, d.reps = <<1, 1, 1, 1>>, d.checkDicSize = 0
    PROVE  /\ Beginning(b) \in Read(b) /\ Beginning(b).end = "open"
           /\ Beginning(b).text = << >>
           /\ Agrees(d, dict, ProbsAlwaysReset, RcInitSize, Beginning(b), b)
  <1> DEFINE m == Beginning(b)
             n == ((b[2] * Base + b[3]) * Base + b[4]) * Base + b[5]
             c == [range |-> Word - 1, buf |-> RcInitSize, probs |-> ProbsAlwaysReset, code |-> n]
  <1>1. ~(Len(b) < RcInitSize)
    BY LenProperties, DecoderAssumption
  <1> HIDE DEF n
  <1>2. /\ m.end = "open" /\ m.text = << >> /\ m.state = 0 /\ m.reps = <<1, 1, 1, 1>>
        /\ m.coder = c
    BY <1>1 DEF Beginning, n
  <1>3. m \in Read(b)
    BY ReadIs
  <1> HIDE DEF m
  <1>4. CoderAt(d, ProbsAlwaysReset, RcInitSize) = c
    BY DEF CoderAt, n
  <1>5. Normalized(c, b) = c
    <2>1. c.range >= kTopValue
      <3>1. /\ kTopValue \in Nat \ {0} /\ Word = kTopValue * Base /\ Base \in Nat \ {0, 1}
        BY Sizes
      <3>2. \A x \in Nat \ {0} : x * Base \in Nat /\ x * Base > x
        BY <3>1
      <3>3. kTopValue * Base \in Nat /\ kTopValue * Base > kTopValue
        BY <3>1, <3>2
      <3>4. Word \in Nat /\ Word > kTopValue /\ kTopValue \in Nat
        BY <3>1, <3>3
      <3>5. Word - 1 >= kTopValue
        BY ONLY <3>4
      <3>6. c.range = Word - 1
        OBVIOUS
      <3> QED
        BY <3>5, <3>6
    <2> HIDE DEF c
    <2> QED
      BY <2>1 DEF Normalized
  <1>6. Len(m.text) = 0
    BY <1>2
  <1>7. SameText(d, dict, m)
    <2>1. Holds(dict, d.dicPos, d.processedPos, m.text)
      BY DecoderAssumption DEF Holds
    <2>2. Repeats(m.text, d.processedPos + 1, d.reps[1])
      BY <1>6 DEF Repeats
    <2> QED
      BY <1>2, <1>6, <2>1, <2>2 DEF SameText
  <1>8. SamePlace(d, ProbsAlwaysReset, RcInitSize, m, b)
    <2>1. ~Marked(d)
      BY MarkLength DEF Marked
    <2> QED
      BY <1>2, <1>4, <1>5, <1>6, <2>1 DEF SamePlace
  <1> QED
    BY <1>2, <1>3, <1>7, <1>8 DEF Agrees, m

(* What making the state ready leaves alone, as one formula.                *)
LEMMA ReadyKeeps ==
    LzmaInv => /\ StateReady \in Decoders /\ StateReady.range = p.range
               /\ StateReady.code = p.code /\ StateReady.processedPos = p.processedPos
               /\ StateReady.remainLen = p.remainLen
               /\ StateReady.checkDicSize = p.checkDicSize /\ StateReady.dicPos = p.dicPos
  BY FollowsTypes

(* The first five bytes start the range decoder where the reading of the    *)
(* input does; a first byte that is not zero ends the decoding.             *)
LEMMA StartsReading ==
    ASSUME LzmaInv, LzmaInv', Waits, StartRangeDecoder
    PROVE  \/ Waits'
           \/ (\E e : Follows(e)')
           \/ GivesUp(Meaning(bytes).text)'
  <1> DEFINE n == AtMost(io.inSize, RcInitSize - Len(tempBuf))
             piece == SubSeq(bytes, taken + 1, taken + n)
             start == tempBuf \o piece
  <1>1. /\ pc = "toDic" /\ taken' = taken + n /\ io' = [io EXCEPT !.inSize = @ - n]
        /\ \/ /\ Len(start) < RcInitSize
              /\ tempBuf' = start /\ p' = p
              /\ Leave("NEEDS_MORE_INPUT", TRUE)
           \/ /\ Len(start) = RcInitSize /\ start[1] # 0
              /\ tempBuf' = start /\ p' = p
              /\ Leave("NOT_SPECIFIED", FALSE)
           \/ /\ Len(start) = RcInitSize /\ start[1] = 0
              /\ tempBuf' = << >>
              /\ p' = [p EXCEPT !.needFlush = FALSE, !.range = Word - 1,
                                !.code = ((start[2] * Base + start[3]) * Base
                                          + start[4]) * Base + start[5]]
              /\ UNCHANGED <<pc, ret>>
        /\ UNCHANGED <<bytes, asked, output, dic, dprobs, r>>
    BY DEF StartRangeDecoder
  <1>2. /\ ret.ok /\ p.needFlush
        /\ PieceOf(tempBuf, bytes, 0) /\ taken = Len(tempBuf) /\ output = << >>
        /\ p.processedPos = 0 /\ p.dicPos = 0 /\ p.needInitState /\ p.remainLen = 0
        /\ io.dicPos = 0
    <2>1. WaitsAt
      BY WaitsIs
    <2> QED
      BY <1>1, <2>1 DEF WaitsAt
  <1>t. /\ taken \in Nat /\ bytes \in Seq(Bytes) /\ io.inSize \in Nat
        /\ taken + io.inSize <= Len(bytes) /\ Len(bytes) \in Nat
        /\ io \in [inSize : Nat, outSize : Nat, dicPos : 0 .. DicBufSize, dicLimit : 0 .. DicBufSize]
        /\ tempBuf \in Seq(Bytes) /\ Len(tempBuf) \in Nat
        /\ Len(tempBuf) < RcInitSize /\ RcInitSize = 5 /\ p \in Decoders
        /\ p.checkDicSize = 0
    <2>1. /\ Len(tempBuf) < RcInitSize /\ RcInitSize = 5
      BY <1>2, DecoderAssumption DEF LzmaInv, InputInv
    <2> QED
      BY <1>2, <2>1, FollowsTypes
  <1>3. n \in Nat /\ n <= io.inSize /\ taken + n <= Len(bytes)
    <2>1. n \in Nat /\ n <= io.inSize
      BY <1>t DEF AtMost
    <2> HIDE DEF n
    <2> QED
      BY <1>t, <2>1
  <1> HIDE DEF n
  <1>4. piece \in Seq(Bytes) /\ Len(piece) = n /\ PieceOf(piece, bytes, taken)
    <2>1. piece \in Seq(Bytes) /\ Len(piece) = n
      BY <1>t, <1>3, Pieces
    <2>2. PieceOf(piece, bytes, taken)
      BY <1>t, <1>3, PieceIs
    <2> QED
      BY <2>1, <2>2
  <1> HIDE DEF piece
  <1>5. Len(start) = Len(tempBuf) + n /\ PieceOf(start, bytes, 0)
    <2>1. 0 + Len(tempBuf) = taken
      BY <1>2, <1>t
    <2> QED
      BY <1>t, <1>2, <1>3, <1>4, <2>1, PiecesJoin
  <1>6. taken' = Len(start)
    BY <1>1, <1>2, <1>3, <1>5, <1>t
  <1>7. io'.dicPos = 0 /\ io'.dicLimit = io.dicLimit
    BY <1>1, <1>2, <1>t
  <1> HIDE DEF start
  <1>8. CASE /\ tempBuf' = start /\ p' = p /\ Leave("NEEDS_MORE_INPUT", TRUE)
    <2>1. pc' = "leave" /\ ret'.ok
      BY <1>8 DEF Leave
    <2>2. WaitsAt'
      BY <1>1, <1>2, <1>5, <1>6, <1>7, <1>8, <2>1 DEF WaitsAt
    <2> QED
      BY <2>2, WaitsNext
  <1>9. CASE p' = p /\ Leave("NOT_SPECIFIED", FALSE)
    <2> DEFINE t == Meaning(bytes).text
    <2>1. pc' = "leave" /\ ret'.ok = FALSE /\ output' = << >> /\ p'.dicPos = 0 /\ t' = t
      BY <1>1, <1>2, <1>9 DEF Leave
    <2>2. Len(t) \in Nat
      BY <1>t, MeaningIs, LenProperties DEF Readable
    <2> HIDE DEF t
    <2>3. Len(output') = 0
      BY <2>1
    <2>4. Prefix(output', t)
      BY <2>2, <2>3 DEF Prefix
    <2>5. Len(output') + (p'.dicPos - io'.dicPos) <= Len(t)
      BY <1>7, <2>1, <2>2, <2>3
    <2>6. Since(dic', io'.dicPos, p'.dicPos, Len(output'), t)
      BY <1>7, <2>1 DEF Since
    <2>7. GivesUp(t)'
      BY <2>1, <2>4, <2>5, <2>6 DEF GivesUp, Pending
    <2> QED
      BY <2>7 DEF t
  <1>10. CASE /\ Len(start) = RcInitSize /\ start[1] = 0
              /\ tempBuf' = << >>
              /\ p' = [p EXCEPT !.needFlush = FALSE, !.range = Word - 1,
                                !.code = ((start[2] * Base + start[3]) * Base
                                          + start[4]) * Base + start[5]]
              /\ UNCHANGED <<pc, ret>>
    <2> DEFINE d == StateReady
               m == Beginning(bytes)
               code == ((start[2] * Base + start[3]) * Base + start[4]) * Base + start[5]
    <2>1. /\ RcInitSize <= Len(bytes)
          /\ \A i \in 1 .. 5 : start[i] = bytes[i]
      <3>1. \A i \in 1 .. 5 : start[i] = bytes[0 + i]
        BY <1>5, <1>10, <1>t DEF PieceOf
      <3>2. \A i \in 1 .. 5 : 0 + i = i
        OBVIOUS
      <3>3. 0 + RcInitSize <= Len(bytes)
        BY <1>5, <1>10 DEF PieceOf
      <3> QED
        BY <1>t, <3>1, <3>2, <3>3
    <2>2. /\ start[1] = bytes[1] /\ start[2] = bytes[2] /\ start[3] = bytes[3]
          /\ start[4] = bytes[4] /\ start[5] = bytes[5]
      BY <2>1
    <2>3. bytes[1] = 0 /\ code = ((bytes[2] * Base + bytes[3]) * Base + bytes[4]) * Base + bytes[5]
      BY <1>10, <2>2
    <2>4. p' = [p EXCEPT !.needFlush = FALSE, !.range = Word - 1, !.code = code]
      BY <1>10
    <2> HIDE DEF code
    <2>5. /\ p'.range = Word - 1 /\ p'.code = code /\ p'.processedPos = 0 /\ p'.dicPos = 0
          /\ p'.remainLen = 0 /\ p'.needInitState /\ p'.checkDicSize = 0 /\ ~p'.needFlush
      BY <1>2, <1>t, <2>4 DEF Decoders
    <2>6. /\ d' \in Decoders /\ d'.range = Word - 1 /\ d'.code = code
          /\ d'.processedPos = 0 /\ d'.remainLen = 0 /\ d'.checkDicSize = 0 /\ d'.dicPos = 0
      <3>1. (LzmaInv => /\ StateReady \in Decoders /\ StateReady.range = p.range
                        /\ StateReady.code = p.code
                        /\ StateReady.processedPos = p.processedPos
                        /\ StateReady.remainLen = p.remainLen
                        /\ StateReady.checkDicSize = p.checkDicSize
                        /\ StateReady.dicPos = p.dicPos)'
        BY ReadyKeeps, PTL
      <3> QED
        BY <2>5, <3>1
    <2>7. d'.state = 0 /\ d'.reps = <<1, 1, 1, 1>>
      <3>1. p' \in Decoders
        BY DEF LzmaInv, KeptInv, DecoderOK
      <3>2. d' = [p' EXCEPT !.needInitState = FALSE, !.reps = <<1, 1, 1, 1>>, !.state = 0]
        BY <2>5 DEF StateReady
      <3> QED
        BY <3>1, <3>2 DEF Decoders
    <2> HIDE DEF d, m
    <2>8. /\ m \in Read(bytes) /\ m.end = "open" /\ m.text = << >>
          /\ Agrees(d', dic', ProbsAlwaysReset, RcInitSize, m, bytes)
      <3> HIDE DEF code
      <3>1. /\ RcInitSize <= Len(bytes) /\ bytes[1] = 0 /\ bytes \in Seq(Bytes)
            /\ d' \in Decoders /\ d'.range = Word - 1 /\ d'.processedPos = 0
            /\ d'.code = ((bytes[2] * Base + bytes[3]) * Base + bytes[4]) * Base + bytes[5]
            /\ d'.remainLen = 0 /\ d'.state = 0 /\ d'.reps = <<1, 1, 1, 1>>
            /\ d'.checkDicSize = 0
        BY <1>t, <2>1, <2>3, <2>6, <2>7
      <3> QED
        BY ONLY <3>1, StartAgrees DEF m
    <2>9. pc' = "toDic" /\ ret'.ok /\ output' = << >> /\ bytes' = bytes /\ dic' = dic
      BY <1>1, <1>2, <1>10
    <2>10. Offset' = RcInitSize
      <3>1. taken' = 5 /\ RcInitSize = 5 /\ Len(tempBuf') = 0
        BY <1>6, <1>10, <1>t
      <3>2. Offset' = taken' - Len(tempBuf')
        BY DEF Offset
      <3> QED
        BY <3>1, <3>2
    <2>11. /\ ~InReal' /\ Cur' = d' /\ CurProbs' = ProbsAlwaysReset /\ CurAt' = RcInitSize
      BY <2>5, <2>9, <2>10
      DEF InReal, Cur, CurProbs, CurAt, ProbsReady, ProbsAlwaysReset, d
    <2>12. Fresh' = 0 - 0
      BY <1>7, <2>6, <2>9, <2>11 DEF Fresh
    <2>13. (Cur.processedPos = Len(output) + Fresh)'
      <3>1. Len(output') = 0
        BY <2>9
      <3> QED
        BY <2>6, <2>11, <2>12, <3>1
    <2>14. PieceOf(tempBuf', bytes', Offset')
      <3>1. Len(tempBuf') = 0
        BY <1>10
      <3> QED
        BY <1>t, <2>1, <2>9, <2>10, <3>1 DEF PieceOf
    <2>15. AtHand'
      BY <2>5, <2>9, <2>11, <2>13, <2>14 DEF AtHand
    <2>16. Prefix(output', m.text)
      BY <2>8, <2>9, PrefixOf DEF Prefix
    <2>17. PICK e : e = m
      OBVIOUS
    <2>18. /\ e \in Read(bytes') /\ e.end = "open" /\ Prefix(output', e.text)
           /\ Agrees(d', dic', ProbsAlwaysReset, RcInitSize, e, bytes')
      BY <2>8, <2>9, <2>16, <2>17
    <2>19. Follows(e)'
      BY <2>5, <2>9, <2>11, <2>15, <2>18 DEF Follows
    <2> QED
      BY <2>19
  <1> QED
    BY <1>1, <1>8, <1>9, <1>10 DEF start, piece, n

(* A decoder that has given up only leaves, and is called no more.          *)
LEMMA GivenUpStays ==
    ASSUME LzmaInv, NEW t, Len(t) \in Nat, GivesUp(t),
           \/ Decoding
           \/ \E amt, dst : Call(amt, dst)
    PROVE  GivesUp(t)'
  <1>1. LeaveDecodeToDic
    <2>1. ~ret.ok /\ pc \in {"idle", "leave"}
      BY DEF GivesUp
    <2>2. ~ \E amt, dst : Call(amt, dst)
      BY <2>1 DEF Call
    <2>3. /\ ~EnterDecodeToDic /\ ~MarkMet /\ ~StartRangeDecoder /\ ~LimitMet
          /\ ~DecodeSymbol /\ ~StoreReal
      BY <2>1 DEF EnterDecodeToDic, MarkMet, StartRangeDecoder, LimitMet, DecodeSymbol, StoreReal
    <2>4. ~DecodeFromSource /\ ~DecodeFromTemp
      BY <2>1 DEF DecodeFromSource, DecodeFromTemp, Ready
    <2> QED
      BY <2>2, <2>3, <2>4 DEF Decoding
  <1>2. pc = "leave"
    BY <1>1 DEF LeaveDecodeToDic
  <1>3. Pending(t) /\ Prefix(output, t) /\ ~ret.ok
    BY <1>2 DEF GivesUp
  <1>4. Prefix(output, t)'
    BY <1>1, <1>3, CopiedOut
  <1>5. pc' = "idle" /\ ret' = ret
    BY <1>1, <1>3 DEF LeaveDecodeToDic, Again
  <1> QED
    BY <1>3, <1>4, <1>5 DEF GivesUp

(* What the decoder does while it waits.                                    *)
LEMMA WaitingSteps ==
    ASSUME LzmaInv, Waits, Decoding
    PROVE  EnterDecodeToDic \/ StartRangeDecoder \/ LeaveDecodeToDic
  <1>1. p.needFlush /\ pc \notin {"real", "stored"} /\ p.remainLen = 0
    BY DEF Waits, InReal
  <1>2. ~MarkMet
    BY <1>1, MarkLength DEF MarkMet
  <1>3. ~LimitMet /\ ~DecodeFromSource /\ ~DecodeFromTemp /\ ~DecodeSymbol /\ ~StoreReal
    BY <1>1 DEF LimitMet, DecodeFromSource, DecodeFromTemp, Ready, DecodeSymbol, StoreReal
  <1> QED
    BY <1>2, <1>3 DEF Decoding

(* What a step of the decoder, or a call of it, makes of where it is.       *)
LEMMA DecoderGoesOn ==
    ASSUME LzmaInv, LzmaInv', bytes' = bytes,
           Waits \/ (\E m : Follows(m)) \/ GivesUp(Meaning(bytes).text),
           Decoding \/ \E amt, dst : Call(amt, dst)
    PROVE  Waits' \/ (\E m : Follows(m)') \/ GivesUp(Meaning(bytes).text)'
  <1>1. CASE Waits
    <2>1. CASE \E amt, dst : Call(amt, dst)
      BY <1>1, <2>1, WaitingGoesOn
    <2>2. CASE EnterDecodeToDic
      BY <1>1, <2>2, WaitingGoesOn
    <2>3. CASE LeaveDecodeToDic
      BY <1>1, <2>3, WaitingGoesOn
    <2>4. CASE StartRangeDecoder
      BY <1>1, <2>4, StartsReading
    <2> QED
      BY <1>1, <2>1, <2>2, <2>3, <2>4, WaitingSteps
  <1>2. CASE \E m : Follows(m)
    <2>1. PICK m : Follows(m)
      BY <1>2
    <2>2. CASE \E amt, dst : Call(amt, dst)
      BY <2>1, <2>2, CallFollows
    <2>3. CASE EnterDecodeToDic
      BY <2>1, <2>3, EnterFollows
    <2>4. CASE MarkMet
      BY <2>1, <2>4, MarkFollows
    <2>5. ~StartRangeDecoder
      BY <2>1 DEF Follows, StartRangeDecoder
    <2>6. CASE LimitMet
      BY <2>1, <2>6, LimitFollows
    <2>7. CASE DecodeFromSource
      BY <2>1, <2>7, SourceFollows
    <2>8. CASE DecodeFromTemp
      BY <2>1, <2>8, TempFollows
    <2>9. CASE DecodeSymbol
      BY <2>1, <2>9, SymbolFollows
    <2>10. CASE StoreReal
      BY <2>1, <2>10, StoreFollows
    <2>11. CASE LeaveDecodeToDic
      BY <2>1, <2>11, LeaveFollows
    <2> QED
      BY <2>2, <2>3, <2>4, <2>5, <2>6, <2>7, <2>8, <2>9, <2>10, <2>11 DEF Decoding
  <1>3. CASE GivesUp(Meaning(bytes).text)
    <2>1. bytes \in Seq(Bytes)
      BY FollowsTypes
    <2>2. Meaning(bytes).text \in Seq(Letters)
      BY <2>1, MeaningIs DEF Readable
    <2>3. PICK t : t = Meaning(bytes).text
      OBVIOUS
    <2>4. Len(t) \in Nat
      BY <2>2, <2>3, LenProperties
    <2>5. GivesUp(t)'
      BY <1>3, <2>3, <2>4, GivenUpStays
    <2>6. t = Meaning(bytes').text
      BY <2>3
    <2> QED
      BY <2>5, <2>6 DEF GivesUp, Prefix, Pending
  <1> QED
    BY <1>1, <1>2, <1>3

(* The bytes arrive, and the decoder waits for the first of them.           *)
LEMMA DeliverKeeps ==
    ASSUME LzmaInv, LzmaInv', OutputInv, Deliver
    PROVE  OutputInv'
  <1>1. DecoderInit(<< >>) /\ meaning' = Meaning(bytes')
    BY DEF OutputInv, Deliver
  <1>2. PICK b : b \in Seq(0 .. Base - 1) /\ Receive(b)
    BY DEF Deliver
  <1>3. /\ taken' = 0 /\ output' = << >> /\ p' = InitialDec /\ tempBuf' = << >>
        /\ pc' = "idle" /\ ret'.ok
    BY <1>1, <1>2 DEF DecoderInit, Receive
  <1>4. /\ p'.needFlush /\ p'.processedPos = 0 /\ p'.dicPos = 0 /\ p'.needInitState
        /\ p'.remainLen = 0
    BY <1>3 DEF InitialDec
  <1>5. bytes' \in Seq(Bytes)
    BY DEF LzmaInv, InputInv
  <1>6. PieceOf(tempBuf', bytes', 0) /\ taken' = Len(tempBuf')
    <2>1. Len(tempBuf') = 0 /\ Len(bytes') \in Nat
      BY <1>3, <1>5, LenProperties
    <2> QED
      BY <1>3, <2>1 DEF PieceOf
  <1>7. Waits'
    <2>1. WaitsAt'
      BY <1>3, <1>4, <1>6 DEF WaitsAt
    <2> QED
      BY <2>1, WaitsNext
  <1>8. meaning' # NotDelivered
    <2>1. meaning' \in Readable
      BY <1>1, <1>5, MeaningIs
    <2>2. "text" \in DOMAIN meaning'
      BY <2>1 DEF Readable
    <2>3. "text" \notin DOMAIN NotDelivered
      BY DEF NotDelivered
    <2> QED
      BY <2>2, <2>3
  <1> QED
    BY <1>1, <1>7, <1>8 DEF OutputInv

(* Every step of the decoder's half keeps LzmaInv, and the encoder's half   *)
(* does not touch the decoder.                                              *)
LEMMA TransferLzma ==
    ASSUME LzmaInv, [Next]_vars
    PROVE  LzmaInv'
  <1>1. ASSUME UNCHANGED dvars PROVE LzmaInv'
    BY <1>1, StepKeeps
  <1>2. CASE CodeNext \/ Flush \/ CodeDecision \/ FlushRange \/ UNCHANGED vars
    BY <1>1, <1>2 DEF CodeNext, Flush, CodeDecision, FlushRange, vars
  <1>3. CASE Deliver
    BY <1>3, ReceiveKeeps DEF Deliver, Bytes
  <1>4. CASE Ask
    <2>1. PICK amt \in Amounts \cup {Len(bytes) - taken}, dst \in Rooms :
            amt > 0 /\ Call(amt, dst)
      BY <1>4 DEF Ask
    <2>2. taken \in Nat /\ Len(bytes) \in Nat /\ taken <= Len(bytes)
      <3>1. /\ taken \in Nat /\ taken + io.inSize <= Len(bytes) /\ bytes \in Seq(Bytes)
            /\ io.inSize \in Nat
        BY DEF LzmaInv, InputInv, CallInv
      <3> QED
        BY <3>1, LenProperties
    <2>3. amt \in Nat /\ dst \in Nat
      BY <2>1, <2>2, TransferAssumption
    <2> QED
      BY <2>1, <2>3, CallKeeps
  <1>5. CASE Decode
    BY <1>5, StepKeeps DEF Decode, DecoderNext
  <1> QED
    BY <1>2, <1>3, <1>4, <1>5 DEF Next

(* What the decoder has given out stays what the bytes stand for.           *)
LEMMA OutputStep ==
    ASSUME LzmaInv, LzmaInv', OutputInv, [Next]_vars
    PROVE  OutputInv'
  <1>1. CASE CodeNext \/ Flush \/ CodeDecision \/ FlushRange \/ UNCHANGED vars
    <2>1. UNCHANGED <<dvars, meaning>>
      BY <1>1 DEF CodeNext, Flush, CodeDecision, FlushRange, vars
    <2>2. meaning = NotDelivered => DecoderInit(<< >>)'
      BY <2>1 DEF OutputInv, DecoderInit, dvars
    <2>3. Waits' = Waits
      BY <2>1 DEF Waits, AtHand, InReal, Offset, Cur, Fresh, StateReady, dvars
    <2>4. \A m : Follows(m)' = Follows(m)
      BY <2>1 DEF Follows, AtHand, InReal, Offset, Cur, CurProbs, CurAt, Fresh, StateReady,
                  ProbsReady, dvars
    <2>5. GivesUp(meaning.text)' = GivesUp(meaning.text)
      BY <2>1 DEF GivesUp, Pending, dvars
    <2>6. Meaning(bytes') = Meaning(bytes) /\ meaning' = meaning
      BY <2>1 DEF dvars
    <2> QED
      BY <2>2, <2>3, <2>4, <2>5, <2>6 DEF OutputInv
  <1>2. CASE Deliver
    BY <1>2, DeliverKeeps
  <1>3. CASE Ask \/ Decode
    <2>1. /\ meaning' = meaning /\ bytes' = bytes
          /\ Decoding \/ \E amt, dst : Call(amt, dst)
      <3>1. CASE Ask
        BY <3>1 DEF Ask, Call
      <3>2. CASE Decode
        BY <3>2 DEF Decode, Decoding, EnterDecodeToDic, MarkMet, StartRangeDecoder, LimitMet,
                    DecodeFromSource, DecodeFromTemp, DecodeSymbol, StoreReal, LeaveDecodeToDic
      <3> QED
        BY <1>3, <3>1, <3>2
    <2>2. meaning # NotDelivered
      <3>1. CASE Ask
        BY <3>1 DEF Ask
      <3>2. CASE Decode
        <4>1. pc # "idle"
          BY <3>2 DEF Decode, Decoding, EnterDecodeToDic, MarkMet, StartRangeDecoder, LimitMet,
                      DecodeFromSource, DecodeFromTemp, Ready, DecodeSymbol, StoreReal,
                      LeaveDecodeToDic
        <4> QED
          BY <4>1 DEF OutputInv, DecoderInit
      <3> QED
        BY <1>3, <3>1, <3>2
    <2>3. /\ meaning = Meaning(bytes)
          /\ Waits \/ (\E m : Follows(m)) \/ GivesUp(Meaning(bytes).text)
      BY <2>2 DEF OutputInv
    <2>4. Waits' \/ (\E m : Follows(m)') \/ GivesUp(Meaning(bytes).text)'
      BY <2>1, <2>3, DecoderGoesOn
    <2>5. meaning' = Meaning(bytes') /\ meaning' # NotDelivered
      BY <2>1, <2>2, <2>3
    <2>6. GivesUp(Meaning(bytes).text)' => GivesUp(meaning.text)'
      BY <2>5 DEF GivesUp, Pending
    <2> QED
      BY <2>4, <2>5, <2>6 DEF OutputInv
  <1> QED
    BY <1>1, <1>2, <1>3 DEF Next

(* Before anything has been coded.                                          *)
LEMMA TransferInit ==
    ASSUME Init
    PROVE  LzmaInv /\ OutputInv
  BY LzmaInit DEF Init, OutputInv

(* The decoder's own invariant holds when it is fed with the encoder's      *)
(* bytes, harmed or not.                                                    *)
THEOREM TransferKeepsLzma == Spec => []LzmaInv
  <1>1. LzmaInv /\ [Next]_vars => LzmaInv'
    BY TransferLzma
  <1>2. Init => LzmaInv
    BY TransferInit
  <1> QED
    BY <1>1, <1>2, PTL DEF Spec

(* The decoder waits, follows a reading of the bytes, or has given up.      *)
THEOREM OutputInvariant == Spec => []OutputInv
  <1>1. Init => OutputInv
    BY TransferInit
  <1>2. LzmaInv /\ LzmaInv' /\ OutputInv /\ [Next]_vars => OutputInv'
    BY OutputStep
  <1> QED
    BY <1>1, <1>2, TransferKeepsLzma, PTL DEF Spec

(* A prefix is an initial part.                                             *)
LEMMA PrefixIsPart ==
    ASSUME NEW s, s \in Seq(Letters), NEW t, t \in Seq(Letters), Prefix(s, t)
    PROVE  Len(s) <= Len(t) /\ s = SubSeq(t, 1, Len(s))
  <1>1. /\ Len(s) \in Nat /\ Len(t) \in Nat /\ Len(s) <= Len(t)
        /\ \A i \in 1 .. Len(s) : s[i] = t[i]
    BY LenProperties DEF Prefix
  <1> DEFINE u == SubSeq(t, 1, Len(s))
  <1>2. /\ \A i \in 1 .. Len(s) : t[i] \in Letters
        /\ 1 \in Int /\ Len(s) \in Int
    BY <1>1, ElementOfSeq
  <1>3. /\ u \in Seq(Letters) /\ Len(u) = Len(s)
        /\ \A i \in 1 .. Len(s) : u[i] = t[i]
    <2>1. /\ u \in Seq(Letters)
          /\ Len(u) = IF 1 <= Len(s) THEN Len(s) - 1 + 1 ELSE 0
          /\ \A i \in 1 .. Len(s) - 1 + 1 : u[i] = t[1 + i - 1]
      BY <1>2, SubSeqProperties
    <2>2. \A i \in 1 .. Len(s) : 1 + i - 1 = i
      OBVIOUS
    <2>3. Len(s) - 1 + 1 = Len(s)
      BY <1>1
    <2> QED
      BY <1>1, <2>1, <2>2, <2>3
  <1> HIDE DEF u
  <1>4. s = u
    BY <1>1, <1>3, SeqEqual
  <1> QED
    BY <1>1, <1>4 DEF u

(* Whatever pieces the bytes come in and whatever room the caller offers,   *)
(* LzmaDec_DecodeToBuf gives out an initial part of what they stand for:    *)
(* no copy across the end of the cyclic dictionary, no symbol that had to   *)
(* wait in tempBuf and no match that a limit cut off leaves a trace.        *)
THEOREM OutputIsRight == Spec => []OutputIsMeaning
  <1>1. LzmaInv /\ OutputInv => OutputIsMeaning
    <2> SUFFICES ASSUME LzmaInv, OutputInv, meaning # NotDelivered
                 PROVE  /\ Len(output) <= Len(meaning.text)
                        /\ output = SubSeq(meaning.text, 1, Len(output))
      BY DEF OutputIsMeaning
    <2>1. bytes \in Seq(Bytes) /\ output \in Seq(Letters)
      BY FollowsTypes
    <2>2. /\ meaning = Meaning(bytes)
          /\ Waits \/ (\E m : Follows(m)) \/ GivesUp(meaning.text)
      BY DEF OutputInv
    <2>3. meaning.text \in Seq(Letters) /\ Len(meaning.text) \in Nat
      BY <2>1, <2>2, MeaningIs, LenProperties DEF Readable
    <2>4. CASE Waits
      <3>1. Len(output) = 0
        BY <2>4 DEF Waits
      <3>2. Prefix(output, meaning.text)
        BY <2>3, <3>1 DEF Prefix
      <3> QED
        BY <2>1, <2>3, <3>2, PrefixIsPart
    <2>5. CASE \E m : Follows(m)
      <3>1. PICK m : Follows(m)
        BY <2>5
      <3>2. Prefix(output, m.text) /\ m \in Read(bytes)
        BY <3>1 DEF Follows
      <3>3. Prefix(m.text, meaning.text) /\ m \in Readable
        BY <2>1, <2>2, <3>2, MeaningIs, ReadIs DEF Grows
      <3>4. Prefix(output, meaning.text)
        BY <2>1, <2>3, <3>2, <3>3, LenProperties DEF Prefix, Readable
      <3> QED
        BY <2>1, <2>3, <3>4, PrefixIsPart
    <2>6. CASE GivesUp(meaning.text)
      BY <2>1, <2>3, <2>6, PrefixIsPart DEF GivesUp
    <2> QED
      BY <2>2, <2>4, <2>5, <2>6
  <1> QED
    BY <1>1, TransferKeepsLzma, OutputInvariant, PTL
-----------------------------------------------------------------------------
(* A symbol is read back: sequences of decisions, of whatever contexts.     *)
IsSeq(s) == \E S : s \in Seq(S)

(* The decoder, at w within a symbol, follows the decisions ds to v.        *)
Reads(d, w, ds, v) ==
    \E f : /\ f[0] = w /\ f[Len(ds)] = v
           /\ \A k \in 1 .. Len(ds) : f[k] = Follow(d, f[k - 1], ds[k])

(* A sequence is a function over the numbers up to its length.              *)
LEMMA FunctionIsSeq ==
    ASSUME NEW n \in Nat, NEW s, s = [i \in 1 .. n |-> s[i]]
    PROVE  IsSeq(s) /\ Len(s) = n
  <1> DEFINE S == {s[i] : i \in 1 .. n}
  <1>1. s \in [1 .. n -> S]
    OBVIOUS
  <1>2. s \in Seq(S) /\ Len(s) = n
    BY <1>1
  <1> QED
    BY <1>2 DEF IsSeq

(* One decision is a sequence of them.                                      *)
LEMMA OneOf ==
    ASSUME NEW x
    PROVE  IsSeq(<<x>>) /\ Len(<<x>>) = 1 /\ <<x>>[1] = x
  <1>1. <<x>> \in Seq({x})
    OBVIOUS
  <1> QED
    BY <1>1 DEF IsSeq

(* Two sequences, one behind the other.                                     *)
LEMMA Joined ==
    ASSUME NEW s, NEW t, IsSeq(s), IsSeq(t)
    PROVE  /\ IsSeq(s \o t) /\ Len(s \o t) = Len(s) + Len(t)
           /\ Len(s) \in Nat /\ Len(t) \in Nat
           /\ \A i \in 1 .. Len(s) + Len(t) :
                (s \o t)[i] = IF i <= Len(s) THEN s[i] ELSE t[i - Len(s)]
  <1>1. PICK S : s \in Seq(S)
    BY DEF IsSeq
  <1>2. PICK T : t \in Seq(T)
    BY DEF IsSeq
  <1>3. s \in Seq(S \cup T) /\ t \in Seq(S \cup T)
    BY <1>1, <1>2, SeqMonotonic
  <1> QED
    BY <1>3, ConcatProperties, LenProperties DEF IsSeq

(* What one decision leads to, ...                                          *)
LEMMA ReadsOne ==
    ASSUME NEW d, NEW w, NEW x
    PROVE  Reads(d, w, <<x>>, Follow(d, w, x))
  <1> DEFINE f == [k \in 0 .. 1 |-> IF k = 0 THEN w ELSE Follow(d, w, x)]
  <1>1. f[0] = w /\ f[1] = Follow(d, w, x)
    OBVIOUS
  <1> HIDE DEF f
  <1>2. Len(<<x>>) = 1 /\ <<x>>[1] = x
    BY OneOf
  <1>3. \A k \in 1 .. 1 : f[k] = Follow(d, f[k - 1], <<x>>[k])
    BY <1>1, <1>2
  <1> QED
    BY <1>1, <1>2, <1>3 DEF Reads

(* ... and one sequence of decisions after another.                         *)
LEMMA ReadsOn ==
    ASSUME NEW d, NEW w, NEW s, NEW v, NEW t, NEW u, IsSeq(s), IsSeq(t),
           Reads(d, w, s, v), Reads(d, v, t, u)
    PROVE  Reads(d, w, s \o t, u)
  <1> DEFINE m == Len(s)
             n == Len(t)
  <1>1. PICK f : /\ f[0] = w /\ f[m] = v
                 /\ \A k \in 1 .. m : f[k] = Follow(d, f[k - 1], s[k])
    BY DEF Reads
  <1>2. PICK g : /\ g[0] = v /\ g[n] = u
                 /\ \A k \in 1 .. n : g[k] = Follow(d, g[k - 1], t[k])
    BY DEF Reads
  <1>3. /\ Len(s \o t) = m + n /\ m \in Nat /\ n \in Nat
        /\ \A i \in 1 .. m + n : (s \o t)[i] = IF i <= m THEN s[i] ELSE t[i - m]
    BY Joined
  <1> HIDE DEF m, n
  <1> DEFINE h == [k \in 0 .. m + n |-> IF k <= m THEN f[k] ELSE g[k - m]]
  <1>4. \A k \in 0 .. m + n : h[k] = IF k <= m THEN f[k] ELSE g[k - m]
    OBVIOUS
  <1> HIDE DEF h
  <1>5. h[0] = w
    BY <1>1, <1>3, <1>4
  <1>6. h[m + n] = u
    <2>1. CASE n = 0
      <3>1. h[m] = f[m] /\ m + n = m
        BY <1>3, <1>4, <2>1
      <3> QED
        BY <1>1, <1>2, <2>1, <3>1
    <2>2. CASE n # 0
      <3>1. ~(m + n <= m) /\ m + n \in 0 .. m + n /\ (m + n) - m = n
        BY <1>3, <2>2
      <3> QED
        BY <1>2, <1>4, <3>1
    <2> QED
      BY <2>1, <2>2
  <1>7. ASSUME NEW k \in 1 .. m + n PROVE h[k] = Follow(d, h[k - 1], (s \o t)[k])
    <2>1. CASE k <= m
      <3>1. k \in 1 .. m /\ k - 1 \in 0 .. m + n /\ k \in 0 .. m + n /\ k - 1 <= m
        BY <1>3, <2>1
      <3>2. h[k] = f[k] /\ h[k - 1] = f[k - 1] /\ (s \o t)[k] = s[k]
        BY <1>3, <1>4, <2>1, <3>1
      <3> QED
        BY <1>1, <3>1, <3>2
    <2>2. CASE k > m
      <3>1. /\ k - m \in 1 .. n /\ k - 1 \in 0 .. m + n /\ k \in 0 .. m + n
            /\ ~(k <= m) /\ (k - 1) - m = (k - m) - 1
        BY <1>3, <2>2
      <3>2. h[k] = g[k - m] /\ (s \o t)[k] = t[k - m]
        BY <1>3, <1>4, <3>1
      <3>3. h[k - 1] = g[(k - m) - 1]
        <4>1. CASE k - 1 <= m
          <5>1. k - 1 = m /\ (k - m) - 1 = 0
            BY <1>3, <2>2, <4>1
          <5> QED
            BY <1>1, <1>2, <1>4, <3>1, <5>1
        <4>2. CASE ~(k - 1 <= m)
          BY <1>4, <3>1, <4>2
        <4> QED
          BY <4>1, <4>2
      <3> QED
        BY <1>2, <3>1, <3>2, <3>3
    <2> QED
      BY <1>3, <2>1, <2>2
  <1> QED
    BY <1>3, <1>5, <1>6, <1>7 DEF Reads

(* The reference ReadBack, without its recursive function.                  *)
LEMMA ReadBackIs ==
    ASSUME NEW d, NEW ds, Len(ds) \in Nat, NEW v, Reads(d, WalkStart, ds, v)
    PROVE  ReadBack(d, ds) = v
  <1> DEFINE n == Len(ds)
             F(f, k) == Follow(d, f[k - 1], ds[k])
             Upto(f) == [k \in 0 .. n |-> IF k = 0 THEN WalkStart ELSE F(f, k)]
             walk == CHOOSE f : f = Upto(f)
  <1>1. PICK f : /\ f[0] = WalkStart /\ f[n] = v
                 /\ \A k \in 1 .. n : f[k] = Follow(d, f[k - 1], ds[k])
    BY DEF Reads
  <1>2. ReadBack(d, ds) = walk[n]
    BY DEF ReadBack
  <1>3. n \in Nat
    OBVIOUS
  <1> HIDE DEF n
  <1> DEFINE g == [k \in 0 .. n |-> f[k]]
  <1>4. g = Upto(g)
    <2>1. \A k \in 0 .. n : f[k] = IF k = 0 THEN WalkStart ELSE F(g, k)
      <3> TAKE k \in 0 .. n
      <3>1. CASE k = 0
        BY <1>1, <3>1
      <3>2. CASE k # 0
        <4>1. k \in 1 .. n /\ k - 1 \in 0 .. n
          BY <1>3, <3>2
        <4>2. g[k - 1] = f[k - 1]
          BY <4>1
        <4> QED
          BY <1>1, <3>2, <4>1, <4>2
      <3> QED
        BY <3>1, <3>2
    <2> HIDE DEF F
    <2> QED
      BY <2>1
  <1>5. walk = Upto(walk)
    <2> HIDE DEF g, Upto
    <2> QED
      BY <1>4
  <1> HIDE DEF walk
  <1>6. /\ walk[0] = WalkStart
        /\ \A k \in 1 .. n : walk[k] = Follow(d, walk[k - 1], ds[k])
    <2>1. \A k \in 0 .. n : walk[k] = IF k = 0 THEN WalkStart ELSE F(walk, k)
      <3> HIDE DEF F
      <3> QED
        BY <1>5
    <2> QED
      BY <1>3, <2>1
  <1> DEFINE S == {k \in Nat : k <= n => walk[k] = f[k]}
  <1>7. 0 \in S
    BY <1>1, <1>6
  <1>8. \A k \in S \cap Nat : k + 1 \in S
    <2> SUFFICES ASSUME NEW k \in S, k + 1 <= n PROVE walk[k + 1] = f[k + 1]
      OBVIOUS
    <2>1. k + 1 \in 1 .. n /\ (k + 1) - 1 = k /\ k <= n
      BY <1>3
    <2>2. walk[k] = f[k]
      BY <2>1
    <2> QED
      BY <1>1, <1>6, <2>1, <2>2
  <1> HIDE DEF S
  <1>9. n \in S
    BY <1>3, <1>7, <1>8, NaturalInduction
  <1> QED
    BY <1>1, <1>2, <1>9 DEF S

(* A number by its upper bits: the next one doubles it.                     *)
LEMMA NextBit ==
    ASSUME NEW value \in Nat, NEW j \in 0 .. 31
    PROVE  /\ Bit(value, j) \in {0, 1} /\ value \div Power(j) \in Nat
           /\ value \div Power(j) = 2 * (value \div Power(j + 1)) + Bit(value, j)
           /\ value % Power(j + 1) = (value % Power(j)) + Bit(value, j) * Power(j)
           /\ value % Power(j) \in 0 .. Power(j) - 1
  <1> DEFINE P == Power(j)
             q == value \div P
             h == q \div 2
             b == q % 2
             rest == value % P
  <1>1. P \in Nat \ {0} /\ Power(j + 1) = 2 * P
    BY PowersGrow
  <1>2. Bit(value, j) = b
    BY DEF Bit, Power
  <1> HIDE DEF P
  <1>3. q \in Nat /\ rest \in 0 .. P - 1 /\ value = P * q + rest
    BY <1>1, Division
  <1> HIDE DEF q, rest
  <1>4. h \in Nat /\ b \in {0, 1} /\ q = 2 * h + b
    BY <1>3
  <1> HIDE DEF h, b
  <1>5. P * q = (2 * P) * h + b * P
    <2>1. CASE b = 0
      <3>1. \A x, y \in Nat : x * (2 * y) = (2 * x) * y
        OBVIOUS
      <3> QED
        BY <1>1, <1>4, <2>1, <3>1
    <2>2. CASE b = 1
      <3>1. \A x, y \in Nat : x * (2 * y + 1) = (2 * x) * y + x
        OBVIOUS
      <3> QED
        BY <1>1, <1>4, <2>2, <3>1
    <2> QED
      BY <1>4, <2>1, <2>2
  <1>6. b * P + rest \in 0 .. 2 * P - 1
    <2>1. b * P \in {0, P}
      BY <1>1, <1>4
    <2> QED
      BY <1>1, <1>3, <2>1
  <1>7. value = (2 * P) * h + (b * P + rest)
    BY <1>1, <1>3, <1>4, <1>5, <1>6
  <1>8. value \div (2 * P) = h /\ value % (2 * P) = b * P + rest
    <2>1. 2 * P \in Nat \ {0}
      BY <1>1
    <2> QED
      BY <1>3, <1>4, <1>6, <1>7, <2>1, QuotientUnique
  <1>9. b * P + rest = rest + b * P
    <2>1. b * P \in {0, P}
      BY <1>1, <1>4
    <2> QED
      BY <1>1, <1>3, <2>1
  <1> QED
    BY <1>1, <1>2, <1>3, <1>4, <1>8, <1>9 DEF P, q, rest

(* The node of a tree where the highest k bits of a value lead.             *)
NodeAt(value, levels, k) == Power(k) + (value \div Power(levels - k))

(* Each bit leads one level down, from the root to the value itself.        *)
LEMMA NodeOn ==
    ASSUME NEW levels \in 1 .. 31, NEW value \in 0 .. Power(levels) - 1
    PROVE  /\ NodeAt(value, levels, 0) = 1
           /\ NodeAt(value, levels, levels) = Power(levels) + value
           /\ \A k \in 0 .. levels - 1 :
                /\ Bit(value, levels - (k + 1)) \in {0, 1}
                /\ NodeAt(value, levels, k + 1) =
                        2 * NodeAt(value, levels, k) + Bit(value, levels - (k + 1))
           /\ \A k \in 0 .. levels : NodeAt(value, levels, k) \in Nat \ {0}
  <1>1. value \in Nat /\ Power(levels) \in Nat \ {0}
    BY PowersNatural
  <1>2. \A k \in 0 .. levels - 1 :
            /\ Bit(value, levels - (k + 1)) \in {0, 1}
            /\ NodeAt(value, levels, k + 1) =
                    2 * NodeAt(value, levels, k) + Bit(value, levels - (k + 1))
    <2> TAKE k \in 0 .. levels - 1
    <2> DEFINE j == levels - (k + 1)
    <2>1. j \in 0 .. 31 /\ j + 1 = levels - k /\ k \in 0 .. 31
      OBVIOUS
    <2> HIDE DEF j
    <2>2. /\ Bit(value, j) \in {0, 1}
          /\ value \div Power(j) = 2 * (value \div Power(j + 1)) + Bit(value, j)
      BY <1>1, <2>1, NextBit
    <2>3. Power(k) \in Nat /\ Power(k + 1) = 2 * Power(k)
      BY <2>1, PowersGrow
    <2>4. value \div Power(j + 1) \in Nat
      <3>1. Power(j + 1) \in Nat \ {0}
        BY <2>1, PowersGrow
      <3> QED
        BY <1>1, <3>1, Division
    <2>5. NodeAt(value, levels, k + 1) = Power(k + 1) + (value \div Power(j))
      BY DEF NodeAt, j
    <2>6. NodeAt(value, levels, k) = Power(k) + (value \div Power(j + 1))
      BY <2>1 DEF NodeAt
    <2>7. NodeAt(value, levels, k + 1) = 2 * NodeAt(value, levels, k) + Bit(value, j)
      BY ONLY <2>2, <2>3, <2>4, <2>5, <2>6
    <2> QED
      BY <2>2, <2>7 DEF j
  <1>3. NodeAt(value, levels, 0) = 1
    <2>1. value = Power(levels) * 0 + value
      BY <1>1
    <2>2. value \div Power(levels) = 0
      BY <1>1, <2>1, QuotientUnique
    <2>3. Power(0) = 1 /\ levels - 0 = levels
      BY PowerTable
    <2> QED
      BY <2>2, <2>3 DEF NodeAt
  <1>4. NodeAt(value, levels, levels) = Power(levels) + value
    <2>1. Power(0) = 1 /\ levels - levels = 0
      BY PowerTable
    <2>2. value \div 1 = value
      BY <1>1
    <2> QED
      BY <2>1, <2>2 DEF NodeAt
  <1>5. \A k \in 0 .. levels : NodeAt(value, levels, k) \in Nat \ {0}
    <2> TAKE k \in 0 .. levels
    <2>1. Power(k) \in Nat \ {0} /\ Power(levels - k) \in Nat \ {0}
      BY PowersNatural
    <2>2. value \div Power(levels - k) \in Nat
      BY <1>1, <2>1, Division
    <2> QED
      BY <2>1, <2>2 DEF NodeAt
  <1> QED
    BY <1>2, <1>3, <1>4, <1>5

(* The decoder after k decisions of a tree whose root is w.                 *)
At(w, i, left) == [w EXCEPT !.i = i, !.left = left]
Level(w, value, levels, k) == At(w, NodeAt(value, levels, k), levels - k)

(* Where it is in a tree is all that changes on the way down.               *)
LEMMA LevelIs ==
    ASSUME NEW w \in WalkTypes, NEW x \in Nat, NEW y \in Nat
    PROVE  /\ At(w, x, y) \in WalkTypes /\ At(w, x, y).at = w.at
           /\ At(w, x, y).i = x /\ At(w, x, y).left = y
           /\ w.i = x /\ w.left = y => At(w, x, y) = w
  BY DEF WalkTypes, At

(* A decision further down.                                                 *)
LEMMA LevelOn ==
    ASSUME NEW w \in WalkTypes, NEW x \in Nat, NEW y \in Nat, NEW b, NEW u, NEW v,
           u = 2 * x + b, v = y - 1
    PROVE  Deeper(At(w, x, y), b) = At(w, u, v)
  BY DEF WalkTypes, Deeper, At

(* The decisions of a tree are made in the contexts of its nodes, and all   *)
(* but the last lead down.                                                  *)
Descends(d, w, levels, value, c) ==
    /\ \A k \in 0 .. levels - 1 :
            ContextOf(d, Level(w, value, levels, k)) = Append(c, NodeAt(value, levels, k))
    /\ \A k \in 0 .. levels - 2 : \A bit \in {0, 1} :
            Took(d, Level(w, value, levels, k), bit) = Deeper(Level(w, value, levels, k), bit)

(* It follows RcTree_Encode to the last level.                              *)
LEMMA TreeReads ==
    ASSUME NEW d, NEW w \in WalkTypes, ~Done(w), NEW levels \in 1 .. 31, w.i = 1, w.left = levels,
           NEW value \in 0 .. Power(levels) - 1, NEW c, Descends(d, w, levels, value, c)
    PROVE  /\ Reads(d, w, RcTree(c, levels, value),
                    Took(d, Level(w, value, levels, levels - 1), Bit(value, 0)))
           /\ IsSeq(RcTree(c, levels, value)) /\ Bit(value, 0) \in {0, 1}
  <1> DEFINE ds == RcTree(c, levels, value)
             end == Took(d, Level(w, value, levels, levels - 1), Bit(value, 0))
             L(k) == Level(w, value, levels, k)
             N(k) == NodeAt(value, levels, k)
             B(k) == Bit(value, levels - (k + 1))
             f == [k \in 0 .. levels |-> IF k < levels THEN L(k) ELSE end]
  <1>0. w \in WalkTypes
    OBVIOUS
  <1>1. /\ N(0) = 1 /\ \A k \in 0 .. levels - 1 : B(k) \in {0, 1} /\ N(k + 1) = 2 * N(k) + B(k)
        /\ \A k \in 0 .. levels : N(k) \in Nat
    BY NodeOn
  <1>2. IsSeq(ds) /\ Len(ds) = levels
    <2>1. ds = [i \in 1 .. levels |-> ds[i]]
      BY DEF RcTree
    <2>2. levels \in Nat
      OBVIOUS
    <2> HIDE DEF ds
    <2> QED
      BY ONLY <2>1, <2>2, FunctionIsSeq
  <1>3. \A k \in 0 .. levels - 1 : ds[k + 1].context = Append(c, N(k)) /\ ds[k + 1].bit = B(k)
    <2> TAKE k \in 0 .. levels - 1
    <2>1. k + 1 \in 1 .. levels /\ (k + 1) - 1 = k /\ levels - (k + 1) + 1 = levels - k
      OBVIOUS
    <2>2. ds[k + 1] = [context |-> Append(c, 2 ^ ((k + 1) - 1)
                                             + value \div 2 ^ (levels - (k + 1) + 1)),
                       bit |-> Bit(value, levels - (k + 1))]
      BY <2>1 DEF RcTree
    <2> HIDE DEF ds
    <2> QED
      BY <2>1, <2>2 DEF NodeAt, Power
  <1>4. \A k \in 0 .. levels - 1 :
            /\ L(k) \in WalkTypes /\ L(k).at = w.at
            /\ L(k).i = N(k) /\ L(k).left = levels - k
    <2> TAKE k \in 0 .. levels - 1
    <2> DEFINE x == N(k)
               y == levels - k
    <2>1. x \in Nat /\ y \in Nat
      BY <1>1
    <2>2. L(k) = At(w, x, y)
      BY DEF Level
    <2> HIDE DEF L, x, y
    <2>3. L(k) \in WalkTypes /\ L(k).at = w.at /\ L(k).i = x /\ L(k).left = y
      BY ONLY <1>0, <2>1, <2>2, LevelIs
    <2> QED
      BY <2>3 DEF x, y
  <1>5. L(0) = w
    <2>1. w.left = levels - 0 /\ w.i = N(0) /\ N(0) \in Nat /\ levels - 0 \in Nat
      BY <1>1
    <2>2. L(0) = At(w, N(0), levels - 0)
      BY DEF Level
    <2> HIDE DEF L, N
    <2> QED
      BY ONLY <1>0, <2>1, <2>2, LevelIs
  <1>6. \A k \in 0 .. levels - 2 : Deeper(L(k), B(k)) = L(k + 1)
    <2> TAKE k \in 0 .. levels - 2
    <2>1. /\ k \in 0 .. levels - 1 /\ N(k + 1) = 2 * N(k) + B(k) /\ k + 1 \in 0 .. levels - 1
          /\ (levels - k) - 1 = levels - (k + 1)
      BY <1>1
    <2> DEFINE x == N(k)
               y == levels - k
               b == B(k)
    <2>2. L(k) = At(w, x, y) /\ L(k + 1) = At(w, N(k + 1), levels - (k + 1))
      BY DEF Level
    <2>3. x \in Nat /\ y \in Nat /\ b \in {0, 1}
      BY <1>1, <2>1
    <2>4. N(k + 1) = 2 * x + b /\ levels - (k + 1) = y - 1
      BY <2>1
    <2> HIDE DEF L, N, B, x, y, b
    <2>5. Deeper(At(w, x, y), b) = At(w, N(k + 1), levels - (k + 1))
      BY ONLY <1>0, <2>3, <2>4, LevelOn
    <2> QED
      BY ONLY <2>2, <2>5 DEF b
  <1>7. \A k \in 0 .. levels - 1 :
            Follow(d, L(k), ds[k + 1]) = Took(d, L(k), B(k))
    <2> TAKE k \in 0 .. levels - 1
    <2>1. ContextOf(d, L(k)) = ds[k + 1].context /\ ds[k + 1].bit = B(k)
      BY <1>3 DEF Descends
    <2>2. L(k).at # "lost" /\ ~Done(L(k))
      BY <1>4 DEF Done, WalkTypes
    <2> HIDE DEF L, N, B, ds
    <2> QED
      BY <2>1, <2>2 DEF Follow
  <1>8. /\ f[0] = w /\ f[levels] = end
        /\ \A k \in 0 .. levels - 1 : f[k] = L(k)
    BY <1>5
  <1>9. B(levels - 1) = Bit(value, 0) /\ Bit(value, 0) \in {0, 1}
    <2>1. levels - ((levels - 1) + 1) = 0 /\ levels - 1 \in 0 .. levels - 1
      OBVIOUS
    <2> QED
      BY <1>1, <2>1
  <1>10. \A k \in 0 .. levels - 1 : f[k + 1] = Follow(d, f[k], ds[k + 1])
    <2> TAKE k \in 0 .. levels - 1
    <2>1. CASE k = levels - 1
      <3>1. k + 1 = levels
        BY <2>1
      <3> HIDE DEF f, L, B, ds
      <3>2. end = Took(d, L(k), B(k))
        BY <1>9, <2>1 DEF L
      <3> QED
        BY <1>7, <1>8, <3>1, <3>2
    <2>2. CASE k # levels - 1
      <3>1. k \in 0 .. levels - 2 /\ k + 1 \in 0 .. levels - 1
        BY <2>2
      <3>2. Took(d, L(k), B(k)) = Deeper(L(k), B(k))
        BY <1>1, <3>1 DEF Descends
      <3> HIDE DEF f, L, B, ds
      <3> QED
        BY <1>6, <1>7, <1>8, <3>1, <3>2
    <2> QED
      BY <2>1, <2>2
  <1> HIDE DEF f, ds, end
  <1>11. \A k \in 1 .. levels : f[k] = Follow(d, f[k - 1], ds[k])
    <2> TAKE k \in 1 .. levels
    <2>1. k - 1 \in 0 .. levels - 1 /\ (k - 1) + 1 = k
      OBVIOUS
    <2> QED
      BY <1>10, <2>1
  <1>12. Reads(d, w, ds, end)
    BY <1>2, <1>8, <1>11 DEF Reads
  <1> QED
    BY <1>2, <1>9, <1>12 DEF ds, end

(* What stays as it is on the way down a tree.                              *)
Like(x, w) ==
    /\ x \in WalkTypes /\ x.at = w.at /\ x.kind = w.kind /\ x.coder = w.coder
    /\ x.rep = w.rep /\ x.len = w.len /\ x.offs = w.offs

PlainTrees == {"low", "mid", "high", "PosSlot"}

(* A decision in a tree, but the last.                                      *)
LEMMA WithinTree ==
    ASSUME NEW d, NEW w \in WalkTypes, w.at \in PlainTrees, w.left \in Nat \ {0, 1}, NEW bit
    PROVE  Took(d, w, bit) = Deeper(w, bit)
  <1>1. Deeper(w, bit).left # 0
    BY DEF WalkTypes, Deeper
  <1> QED
    BY <1>1 DEF PlainTrees, Took, Then

(* The decoder goes down a tree like RcTree_Encode, and the last decision   *)
(* leaves it.                                                               *)
LEMMA PlainTreeReads ==
    ASSUME NEW d, NEW w \in WalkTypes, w.at \in PlainTrees, NEW levels \in 1 .. 31, w.i = 1,
           w.left = levels, NEW value \in 0 .. Power(levels) - 1, NEW c,
           \A x : Like(x, w) => ContextOf(d, x) = Append(c, x.i)
    PROVE  /\ IsSeq(RcTree(c, levels, value))
           /\ \E x, bit :
                /\ Like(x, w)
                /\ Deeper(x, bit) = At(w, Power(levels) + value, 0)
                /\ Reads(d, w, RcTree(c, levels, value), Took(d, x, bit))
  <1> DEFINE L(k) == Level(w, value, levels, k)
             N(k) == NodeAt(value, levels, k)
             e == levels - 1
  <1>0. w \in WalkTypes /\ levels \in 1 .. 31 /\ e \in 0 .. levels - 1
    OBVIOUS
  <1>1. /\ \A k \in 0 .. levels : N(k) \in Nat
        /\ N(levels) = Power(levels) + value
        /\ N(e + 1) = 2 * N(e) + Bit(value, levels - (e + 1))
    <2>1. /\ \A k \in 0 .. levels : N(k) \in Nat
          /\ N(levels) = Power(levels) + value
          /\ \A k \in 0 .. levels - 1 : N(k + 1) = 2 * N(k) + Bit(value, levels - (k + 1))
      <3>1. \A k \in 0 .. levels - 1 :
                /\ Bit(value, levels - (k + 1)) \in {0, 1}
                /\ NodeAt(value, levels, k + 1) =
                        2 * NodeAt(value, levels, k) + Bit(value, levels - (k + 1))
        BY NodeOn
      <3>2. /\ NodeAt(value, levels, levels) = Power(levels) + value
            /\ \A k \in 0 .. levels : NodeAt(value, levels, k) \in Nat \ {0}
        BY NodeOn
      <3> QED
        BY <3>1, <3>2
    <2> HIDE DEF N, e
    <2> QED
      BY <1>0, <2>1
  <1>2. \A k \in 0 .. levels - 1 :
            Like(L(k), w) /\ L(k).i = N(k) /\ L(k).left = levels - k /\ L(k).at = w.at
    <2> TAKE k \in 0 .. levels - 1
    <2> DEFINE x == N(k)
               y == levels - k
    <2>1. x \in Nat /\ y \in Nat
      BY <1>1
    <2>2. L(k) = At(w, x, y)
      BY DEF Level
    <2> HIDE DEF L, x, y
    <2>3. L(k) \in WalkTypes /\ L(k).at = w.at /\ L(k).i = x /\ L(k).left = y
      BY ONLY <1>0, <2>1, <2>2, LevelIs
    <2>4. /\ L(k).kind = w.kind /\ L(k).coder = w.coder /\ L(k).rep = w.rep
          /\ L(k).len = w.len /\ L(k).offs = w.offs
      BY ONLY <1>0, <2>2 DEF At, WalkTypes
    <2> QED
      BY <2>3, <2>4 DEF Like, x, y
  <1> HIDE DEF L, N, e
  <1>3. \A k \in 0 .. levels - 1 :
            ContextOf(d, Level(w, value, levels, k)) = Append(c, NodeAt(value, levels, k))
    BY <1>2 DEF L, N
  <1>4. \A k \in 0 .. levels - 2 : \A bit \in {0, 1} :
            Took(d, Level(w, value, levels, k), bit) = Deeper(Level(w, value, levels, k), bit)
    <2> SUFFICES ASSUME NEW k \in 0 .. levels - 2, NEW bit \in {0, 1}
                 PROVE  Took(d, L(k), bit) = Deeper(L(k), bit)
      BY DEF L
    <2>2. levels - k \in Nat \ {0, 1} /\ k \in 0 .. levels - 1
      BY <1>0
    <2>1. Like(L(k), w) /\ L(k).left = levels - k /\ L(k).at \in PlainTrees
      BY <1>2, <2>2
    <2> QED
      BY <2>1, <2>2, WithinTree DEF Like
  <1>5. ~Done(w)
    BY DEF Done, PlainTrees
  <1> DEFINE b == Bit(value, 0)
  <1>6. /\ Reads(d, w, RcTree(c, levels, value), Took(d, L(e), b))
        /\ IsSeq(RcTree(c, levels, value)) /\ b \in {0, 1}
    <2> HIDE DEF b
    <2>1. /\ Reads(d, w, RcTree(c, levels, value),
                   Took(d, Level(w, value, levels, levels - 1), Bit(value, 0)))
          /\ IsSeq(RcTree(c, levels, value)) /\ Bit(value, 0) \in {0, 1}
      <3>1. Descends(d, w, levels, value, c)
        BY <1>3, <1>4 DEF Descends
      <3> QED
        BY <1>5, <3>1, TreeReads
    <2> QED
      BY <2>1 DEF L, e, b
  <1>7. Deeper(L(e), b) = At(w, Power(levels) + value, 0)
    <2> DEFINE x == N(e)
               y == levels - e
    <2>1. x \in Nat /\ y \in Nat /\ y - 1 = 0 /\ levels - (e + 1) = 0 /\ e + 1 = levels
      BY <1>0, <1>1 DEF e
    <2>2. L(e) = At(w, x, y)
      BY DEF Level, L, N
    <2>3. Power(levels) + value = 2 * x + b
      BY <1>1, <2>1
    <2> HIDE DEF x, y, b
    <2>4. Deeper(At(w, x, y), b) = At(w, Power(levels) + value, 0)
      BY ONLY <1>0, <2>1, <2>3, LevelOn
    <2> QED
      BY ONLY <2>2, <2>4 DEF b
  <1>8. Like(L(e), w)
    BY <1>0, <1>2
  <1> HIDE DEF b
  <1> QED
    BY <1>6, <1>7, <1>8

(* Where a length leads: a match to its slot, a repetition to its end.      *)
LengthRead(w, v, value) ==
    /\ v \in WalkTypes /\ v.kind = w.kind /\ v.rep = w.rep /\ v.len = value
    /\ IF w.coder = "Len" THEN v.at = "PosSlot" /\ v.i = 1 /\ v.left = kNumPosSlotBits
       ELSE v.at = "done"

(* The end of a length.                                                     *)
LEMMA LengthEndsIs ==
    ASSUME NEW w, NEW x, Like(x, w), NEW value \in 0 .. LengthSymbols - 1
    PROVE  LengthRead(w, LengthEnds(x, value), value)
  <1> DEFINE u == [x EXCEPT !.len = value]
  <1>1. /\ u \in WalkTypes /\ u.kind = w.kind /\ u.rep = w.rep /\ u.coder = w.coder
        /\ u.len = value
    BY DEF Like, WalkTypes
  <1>2. x.coder = w.coder
    BY DEF Like
  <1>3. kNumPosSlotBits \in Nat
    BY SymbolSizes, DecisionCounts
  <1> HIDE DEF u
  <1>4. CASE w.coder = "Len"
    <2>1. LengthEnds(x, value) = Into(u, "PosSlot", kNumPosSlotBits)
      BY <1>2, <1>4 DEF LengthEnds, u
    <2>2. LengthRead(w, Into(u, "PosSlot", kNumPosSlotBits), value)
      BY <1>1, <1>3, <1>4 DEF LengthRead, Into, WalkTypes
    <2> QED
      BY <2>1, <2>2
  <1>5. CASE w.coder # "Len"
    <2>1. LengthEnds(x, value) = [u EXCEPT !.at = "done"]
      BY <1>2, <1>5 DEF LengthEnds, u
    <2>2. LengthRead(w, [u EXCEPT !.at = "done"], value)
      BY <1>1, <1>5 DEF LengthRead, WalkTypes
    <2> QED
      BY <2>1, <2>2
  <1> QED
    BY <1>4, <1>5

(* Tuples, one element longer.                                              *)
LEMMA AppendedTuples ==
    ASSUME NEW a, NEW b, NEW c, NEW i
    PROVE  /\ Append(<<a>>, i) = <<a, i>>
           /\ Append(<<a, b>>, i) = <<a, b, i>>
           /\ Append(<<a, b, c>>, i) = <<a, b, c, i>>
  <1> DEFINE S == {a, b, c, i}
  <1>1. <<a>> \in Seq(S) /\ <<a, b>> \in Seq(S) /\ <<a, b, c>> \in Seq(S)
    OBVIOUS
  <1>2. <<a, i>> \in Seq(S) /\ <<a, b, i>> \in Seq(S) /\ <<a, b, c, i>> \in Seq(S)
    OBVIOUS
  <1>3. /\ Len(<<a>>) = 1 /\ Len(<<a, b>>) = 2 /\ Len(<<a, b, c>>) = 3
        /\ Len(<<a, i>>) = 2 /\ Len(<<a, b, i>>) = 3 /\ Len(<<a, b, c, i>>) = 4
    OBVIOUS
  <1>4. i \in S
    OBVIOUS
  <1> HIDE DEF S
  <1>5. \A s \in Seq(S) : /\ Append(s, i) \in Seq(S) /\ Len(Append(s, i)) = Len(s) + 1
                          /\ \A k \in 1 .. Len(s) + 1 :
                                Append(s, i)[k] = IF k <= Len(s) THEN s[k] ELSE i
    BY <1>4, AppendProperties
  <1>6. Append(<<a>>, i) = <<a, i>>
    <2> DEFINE t == <<a>>
               s == Append(t, i)
    <2>0. t \in Seq(S) /\ Len(t) = 1 /\ t[1] = a
      BY <1>1, <1>3
    <2> HIDE DEF t
    <2>1. s \in Seq(S) /\ Len(s) = 2 /\ s[1] = a /\ s[2] = i
      <3>1. /\ s \in Seq(S) /\ Len(s) = Len(t) + 1
            /\ \A k \in 1 .. Len(t) + 1 : s[k] = IF k <= Len(t) THEN t[k] ELSE i
        BY <1>5, <2>0
      <3> HIDE DEF s
      <3> QED
        BY <2>0, <3>1
    <2> HIDE DEF s
    <2>2. \A k \in 1 .. 2 : s[k] = <<a, i>>[k]
      BY <2>1
    <2> QED
      BY <1>2, <1>3, <2>1, <2>2, SeqEqual DEF s, t
  <1>7. Append(<<a, b>>, i) = <<a, b, i>>
    <2> DEFINE t == <<a, b>>
               s == Append(t, i)
    <2>0. t \in Seq(S) /\ Len(t) = 2 /\ t[1] = a /\ t[2] = b
      BY <1>1, <1>3
    <2> HIDE DEF t
    <2>1. s \in Seq(S) /\ Len(s) = 3 /\ s[1] = a /\ s[2] = b /\ s[3] = i
      <3>1. /\ s \in Seq(S) /\ Len(s) = Len(t) + 1
            /\ \A k \in 1 .. Len(t) + 1 : s[k] = IF k <= Len(t) THEN t[k] ELSE i
        BY <1>5, <2>0
      <3> HIDE DEF s
      <3> QED
        BY <2>0, <3>1
    <2> HIDE DEF s
    <2>2. \A k \in 1 .. 3 : s[k] = <<a, b, i>>[k]
      BY <2>1
    <2> QED
      BY <1>2, <1>3, <2>1, <2>2, SeqEqual DEF s, t
  <1>8. Append(<<a, b, c>>, i) = <<a, b, c, i>>
    <2> DEFINE t == <<a, b, c>>
               s == Append(t, i)
    <2>0. t \in Seq(S) /\ Len(t) = 3 /\ t[1] = a /\ t[2] = b /\ t[3] = c
      BY <1>1, <1>3
    <2> HIDE DEF t
    <2>1. s \in Seq(S) /\ Len(s) = 4 /\ s[1] = a /\ s[2] = b /\ s[3] = c /\ s[4] = i
      <3>1. /\ s \in Seq(S) /\ Len(s) = Len(t) + 1
            /\ \A k \in 1 .. Len(t) + 1 : s[k] = IF k <= Len(t) THEN t[k] ELSE i
        BY <1>5, <2>0
      <3> HIDE DEF s
      <3> QED
        BY <2>0, <3>1
    <2> HIDE DEF s
    <2>2. \A k \in 1 .. 4 : s[k] = <<a, b, c, i>>[k]
      BY <2>1
    <2> QED
      BY <1>2, <1>3, <2>1, <2>2, SeqEqual DEF s, t
  <1> QED
    BY <1>6, <1>7, <1>8

(* Where a tree begins.                                                     *)
LEMMA IntoIs ==
    ASSUME NEW w \in WalkTypes, NEW label \in PlainTrees \cup {"literal"}, NEW levels \in Nat
    PROVE  LET u == Into(w, label, levels)
           IN  /\ u \in WalkTypes /\ u.at = label /\ u.i = 1 /\ u.left = levels
               /\ u.kind = w.kind /\ u.coder = w.coder /\ u.rep = w.rep /\ u.len = w.len
               /\ u.offs = w.offs
  <1> DEFINE u == Into(w, label, levels)
  <1>1. w \in WalkTypes /\ levels \in Nat /\ label \in {"low", "mid", "high", "PosSlot", "literal"}
    BY DEF PlainTrees
  <1>2. u \in WalkTypes
    BY ONLY <1>1 DEF Into, WalkTypes
  <1>3. /\ u.at = label /\ u.i = 1 /\ u.left = levels
        /\ u.kind = w.kind /\ u.coder = w.coder /\ u.rep = w.rep /\ u.len = w.len
        /\ u.offs = w.offs
    BY ONLY <1>1 DEF Into, WalkTypes
  <1> QED
    BY <1>2, <1>3

(* The trees of a length.                                                   *)
LengthTree(label) ==
    CASE label = "low" -> [levels |-> kLenNumLowBits, base |-> 0]
      [] label = "mid" -> [levels |-> kLenNumMidBits, base |-> kLenNumLowSymbols]
      [] label = "high" -> [levels |-> kLenNumHighBits,
                            base |-> kLenNumLowSymbols + kLenNumMidSymbols]

LengthContext(coder, label, posState) ==
    IF label = "high" THEN <<coder, "high">> ELSE <<coder, label, posState>>

(* A tree of a length is read to the length it holds.                       *)
LEMMA LengthTreeReads ==
    ASSUME NEW d, NEW w \in WalkTypes, NEW label \in {"low", "mid", "high"},
           NEW value \in 0 .. Power(LengthTree(label).levels) - 1
    PROVE  LET ds == RcTree(LengthContext(w.coder, label, PosState(d.pos)),
                            LengthTree(label).levels, value)
           IN  /\ IsSeq(ds)
               /\ \E v : /\ LengthRead(w, v, LengthTree(label).base + value)
                         /\ Reads(d, Into(w, label, LengthTree(label).levels), ds, v)
  <1> DEFINE levels == LengthTree(label).levels
             base == LengthTree(label).base
             c == LengthContext(w.coder, label, PosState(d.pos))
             u == Into(w, label, levels)
             ds == RcTree(c, levels, value)
  <1>1. /\ levels \in 1 .. 16 /\ base \in Nat
        /\ Power(levels) \in Nat /\ base + Power(levels) <= LengthSymbols
        /\ LengthSymbols \in Nat
    <2>1. CASE label = "low"
      BY <2>1, SymbolSizes DEF LengthTree
    <2>2. CASE label = "mid"
      BY <2>2, SymbolSizes DEF LengthTree
    <2>3. CASE label = "high"
      BY <2>3, SymbolSizes DEF LengthTree
    <2> QED
      BY <2>1, <2>2, <2>3
  <1>2. base + value \in 0 .. LengthSymbols - 1 /\ levels \in 1 .. 31
    BY <1>1
  <1> HIDE DEF levels, base
  <1>4. label \in PlainTrees
    BY DEF PlainTrees
  <1>3. /\ u \in WalkTypes /\ u.at = label /\ u.i = 1 /\ u.left = levels
        /\ u.kind = w.kind /\ u.coder = w.coder /\ u.rep = w.rep
    <2>1. levels \in Nat /\ label \in PlainTrees \cup {"literal"}
      BY <1>2, <1>4
    <2> QED
      BY <2>1, IntoIs
  <1>5. ASSUME NEW x, Like(x, u) PROVE ContextOf(d, x) = Append(c, x.i)
    <2>1. x.at = label /\ x.coder = w.coder
      BY <1>3, <1>5 DEF Like
    <2>2. CASE label = "high"
      BY <2>1, <2>2, AppendedTuples DEF ContextOf, LengthContext
    <2>3. CASE label # "high"
      BY <2>1, <2>3, AppendedTuples DEF ContextOf, LengthContext
    <2> QED
      BY <2>2, <2>3
  <1> HIDE DEF c, u
  <1>6. value \in 0 .. Power(levels) - 1
    BY DEF levels
  <1>7. /\ IsSeq(ds)
        /\ \E x, bit : /\ Like(x, u)
                       /\ Deeper(x, bit) = At(u, Power(levels) + value, 0)
                       /\ Reads(d, u, ds, Took(d, x, bit))
    BY <1>2, <1>3, <1>4, <1>5, <1>6, PlainTreeReads
  <1>8. PICK x, bit : /\ Like(x, u)
                      /\ Deeper(x, bit) = At(u, Power(levels) + value, 0)
                      /\ Reads(d, u, ds, Took(d, x, bit))
    BY <1>7
  <1> HIDE DEF ds
  <1> DEFINE z == At(u, Power(levels) + value, 0)
             v == LengthEnds(x, base + value)
  <1>9. z.left = 0 /\ z.i = Power(levels) + value
    <2>1. Power(levels) + value \in Nat /\ 0 \in Nat
      BY <1>1, <1>6
    <2> QED
      BY <1>3, <2>1, LevelIs
  <1>10. Took(d, x, bit) = v
    <2>1. x.at = label /\ Deeper(x, bit) = z
      BY <1>3, <1>8 DEF Like
    <2> HIDE DEF z
    <2>2. Power(levels) \in Nat /\ value \in Nat
      BY <1>1, <1>6
    <2>3. CASE label = "low"
      <3>1. Took(d, x, bit) = LengthEnds(x, z.i - kLenNumLowSymbols)
        BY <1>9, <2>1, <2>3 DEF Took, Then
      <3>2. levels = kLenNumLowBits /\ base = 0
        BY <2>3 DEF levels, base, LengthTree
      <3>3. z.i - kLenNumLowSymbols = base + value
        BY <1>9, <2>2, <3>2, SymbolSizes
      <3> QED
        BY <3>1, <3>3
    <2>4. CASE label = "mid"
      <3>1. Took(d, x, bit) = LengthEnds(x, z.i - kLenNumMidSymbols + kLenNumLowSymbols)
        BY <1>9, <2>1, <2>4 DEF Took, Then
      <3>2. levels = kLenNumMidBits /\ base = kLenNumLowSymbols
        BY <2>4 DEF levels, base, LengthTree
      <3>3. z.i - kLenNumMidSymbols + kLenNumLowSymbols = base + value
        BY <1>9, <2>2, <3>2, SymbolSizes
      <3> QED
        BY <3>1, <3>3
    <2>5. CASE label = "high"
      <3>1. Took(d, x, bit) = LengthEnds(x, (z.i - kLenNumHighSymbols)
                                            + kLenNumLowSymbols + kLenNumMidSymbols)
        BY <1>9, <2>1, <2>5 DEF Took, Then
      <3>2. levels = kLenNumHighBits /\ base = kLenNumLowSymbols + kLenNumMidSymbols
        BY <2>5 DEF levels, base, LengthTree
      <3>3. (z.i - kLenNumHighSymbols) + kLenNumLowSymbols + kLenNumMidSymbols = base + value
        BY <1>9, <2>2, <3>2, SymbolSizes
      <3> QED
        BY <3>1, <3>3
    <2> QED
      BY <2>3, <2>4, <2>5
  <1>11. LengthRead(w, v, base + value)
    <2>1. LengthRead(u, v, base + value)
      BY <1>2, <1>8, LengthEndsIs
    <2> QED
      BY <1>3, <2>1 DEF LengthRead
  <1> QED
    BY <1>7, <1>8, <1>10, <1>11 DEF ds, c, u, levels, base

(* A decision that the decoder makes in the context it was coded in.        *)
LEMMA ReadsFlag ==
    ASSUME NEW d, NEW w \in WalkTypes, ~Done(w), NEW c, NEW b, ContextOf(d, w) = c
    PROVE  /\ Reads(d, w, <<[context |-> c, bit |-> b]>>, Took(d, w, b))
           /\ IsSeq(<<[context |-> c, bit |-> b]>>)
  <1> DEFINE x == [context |-> c, bit |-> b]
  <1>1. x.context = c /\ x.bit = b
    OBVIOUS
  <1> HIDE DEF x
  <1>2. w.at # "lost"
    BY DEF WalkTypes
  <1>3. Follow(d, w, x) = Took(d, w, b)
    BY <1>1, <1>2 DEF Follow
  <1>4. Reads(d, w, <<x>>, Follow(d, w, x)) /\ IsSeq(<<x>>)
    BY ReadsOne, OneOf
  <1> QED
    BY <1>3, <1>4 DEF x

(* ... and others behind it.                                                *)
LEMMA ReadsFlagThen ==
    ASSUME NEW d, NEW w \in WalkTypes, ~Done(w), NEW c, NEW b, ContextOf(d, w) = c,
           NEW t, NEW v, IsSeq(t), Reads(d, Took(d, w, b), t, v)
    PROVE  /\ Reads(d, w, <<[context |-> c, bit |-> b]>> \o t, v)
           /\ IsSeq(<<[context |-> c, bit |-> b]>> \o t)
  <1> DEFINE s == <<[context |-> c, bit |-> b]>>
  <1>1. Reads(d, w, s, Took(d, w, b)) /\ IsSeq(s)
    BY ReadsFlag
  <1> HIDE DEF s
  <1>2. Reads(d, w, s \o t, v) /\ IsSeq(s \o t)
    BY <1>1, ReadsOn, Joined
  <1> QED
    BY <1>2 DEF s

(* Grouping does not matter.                                                *)
LEMMA Regrouped ==
    ASSUME NEW s, NEW t, NEW u, IsSeq(s), IsSeq(t), IsSeq(u)
    PROVE  (s \o t) \o u = s \o (t \o u)
  <1>1. PICK S : s \in Seq(S)
    BY DEF IsSeq
  <1>2. PICK T : t \in Seq(T)
    BY DEF IsSeq
  <1>3. PICK U : u \in Seq(U)
    BY DEF IsSeq
  <1> DEFINE A == S \cup (T \cup U)
  <1>4. s \in Seq(A) /\ t \in Seq(A) /\ u \in Seq(A)
    <2>1. S \subseteq A /\ T \subseteq A /\ U \subseteq A
      OBVIOUS
    <2> HIDE DEF A
    <2> QED
      BY <1>1, <1>2, <1>3, <2>1, SeqMonotonic
  <1> HIDE DEF A
  <1> QED
    BY <1>4, ConcatAssociative

(* The decoder reads a length that LenEnc_Encode has coded.                 *)
LEMMA LengthReads ==
    ASSUME NEW d, NEW w \in WalkTypes, w.at = "choice", NEW value \in 0 .. LengthSymbols - 1
    PROVE  /\ IsSeq(LenEnc(w.coder, value, PosState(d.pos)))
           /\ \E v : /\ LengthRead(w, v, value)
                     /\ Reads(d, w, LenEnc(w.coder, value, PosState(d.pos)), v)
  <1> DEFINE ps == PosState(d.pos)
             low0 == kLenNumLowSymbols
             mid0 == kLenNumLowSymbols + kLenNumMidSymbols
             choice(c, b) == <<[context |-> <<w.coder, c>>, bit |-> b]>>
             tree(label, x) == RcTree(LengthContext(w.coder, label, ps),
                                      LengthTree(label).levels, x)
             w2 == [w EXCEPT !.at = "choice2"]
  <1>1. /\ kLenNumLowSymbols = Power(kLenNumLowBits) /\ kLenNumMidSymbols = Power(kLenNumMidBits)
        /\ kLenNumHighSymbols = Power(kLenNumHighBits)
        /\ kLenNumLowSymbols \in Nat \ {0} /\ kLenNumMidSymbols \in Nat \ {0}
        /\ kLenNumHighSymbols \in Nat \ {0}
        /\ LengthSymbols = kLenNumLowSymbols + kLenNumMidSymbols + kLenNumHighSymbols
    BY SymbolSizes
  <1>2. /\ LengthTree("low").levels = kLenNumLowBits /\ LengthTree("low").base = 0
        /\ LengthTree("mid").levels = kLenNumMidBits /\ LengthTree("mid").base = low0
        /\ LengthTree("high").levels = kLenNumHighBits /\ LengthTree("high").base = mid0
    BY DEF LengthTree
  <1>3. LenEnc(w.coder, value, ps) =
            IF value < low0 THEN choice("choice", 0) \o tree("low", value)
            ELSE IF value < mid0
            THEN choice("choice", 1) \o choice("choice2", 0) \o tree("mid", value - low0)
            ELSE choice("choice", 1) \o choice("choice2", 1)
                 \o tree("high", value - low0 - kLenNumMidSymbols)
    BY <1>2 DEF LenEnc, LengthContext
  <1>4. /\ w2 \in WalkTypes /\ w2.at = "choice2" /\ w2.kind = w.kind /\ w2.coder = w.coder
        /\ w2.rep = w.rep
    BY DEF WalkTypes
  <1>5. /\ ContextOf(d, w) = <<w.coder, "choice">> /\ ~Done(w)
        /\ Took(d, w, 0) = Into(w, "low", kLenNumLowBits) /\ Took(d, w, 1) = w2
    BY DEF ContextOf, Done, Took
  <1> HIDE DEF w2
  <1>6. /\ ContextOf(d, w2) = <<w2.coder, "choice2">> /\ ~Done(w2)
        /\ Took(d, w2, 0) = Into(w2, "mid", kLenNumMidBits)
        /\ Took(d, w2, 1) = Into(w2, "high", kLenNumHighBits)
    BY <1>4 DEF ContextOf, Done, Took
  <1> HIDE DEF choice, tree
  <1>7. CASE value < low0
    <2>1. value \in 0 .. Power(LengthTree("low").levels) - 1 /\ 0 + value = value
      BY <1>1, <1>2, <1>7
    <2>2. PICK v : /\ IsSeq(tree("low", value)) /\ LengthRead(w, v, value)
                   /\ Reads(d, Into(w, "low", kLenNumLowBits), tree("low", value), v)
      BY <1>2, <2>1, LengthTreeReads DEF tree
    <2>3. /\ Reads(d, w, choice("choice", 0) \o tree("low", value), v)
          /\ IsSeq(choice("choice", 0) \o tree("low", value))
      BY <1>5, <2>2, ReadsFlagThen DEF choice
    <2> QED
      BY <1>3, <1>7, <2>2, <2>3
  <1>8. CASE ~(value < low0) /\ value < mid0
    <2> DEFINE x == value - low0
    <2>1. x \in 0 .. Power(LengthTree("mid").levels) - 1 /\ low0 + x = value
      BY <1>1, <1>2, <1>8
    <2> HIDE DEF x
    <2>2. PICK v : /\ IsSeq(tree("mid", x)) /\ LengthRead(w2, v, value)
                   /\ Reads(d, Into(w2, "mid", kLenNumMidBits), tree("mid", x), v)
      BY <1>2, <1>4, <2>1, LengthTreeReads DEF tree
    <2>3. /\ Reads(d, w2, choice("choice2", 0) \o tree("mid", x), v)
          /\ IsSeq(choice("choice2", 0) \o tree("mid", x))
      BY <1>4, <1>6, <2>2, ReadsFlagThen DEF choice
    <2>4. /\ Reads(d, w, choice("choice", 1) \o (choice("choice2", 0) \o tree("mid", x)), v)
          /\ IsSeq(choice("choice", 1) \o (choice("choice2", 0) \o tree("mid", x)))
      BY <1>5, <2>3, ReadsFlagThen DEF choice
    <2>5. (choice("choice", 1) \o choice("choice2", 0)) \o tree("mid", x)
            = choice("choice", 1) \o (choice("choice2", 0) \o tree("mid", x))
      BY <2>2, OneOf, Regrouped DEF choice
    <2>6. LengthRead(w, v, value)
      BY <1>4, <2>2 DEF LengthRead
    <2> QED
      BY <1>3, <1>8, <2>4, <2>5, <2>6 DEF x
  <1>9. CASE ~(value < low0) /\ ~(value < mid0)
    <2> DEFINE x == value - low0 - kLenNumMidSymbols
    <2>1. x \in 0 .. Power(LengthTree("high").levels) - 1 /\ mid0 + x = value
      BY <1>1, <1>2, <1>9
    <2> HIDE DEF x
    <2>2. PICK v : /\ IsSeq(tree("high", x)) /\ LengthRead(w2, v, value)
                   /\ Reads(d, Into(w2, "high", kLenNumHighBits), tree("high", x), v)
      BY <1>2, <1>4, <2>1, LengthTreeReads DEF tree
    <2>3. /\ Reads(d, w2, choice("choice2", 1) \o tree("high", x), v)
          /\ IsSeq(choice("choice2", 1) \o tree("high", x))
      BY <1>4, <1>6, <2>2, ReadsFlagThen DEF choice
    <2>4. /\ Reads(d, w, choice("choice", 1) \o (choice("choice2", 1) \o tree("high", x)), v)
          /\ IsSeq(choice("choice", 1) \o (choice("choice2", 1) \o tree("high", x)))
      BY <1>5, <2>3, ReadsFlagThen DEF choice
    <2>5. (choice("choice", 1) \o choice("choice2", 1)) \o tree("high", x)
            = choice("choice", 1) \o (choice("choice2", 1) \o tree("high", x))
      BY <2>2, OneOf, Regrouped DEF choice
    <2>6. LengthRead(w, v, value)
      BY <1>4, <2>2 DEF LengthRead
    <2> QED
      BY <1>3, <1>9, <2>4, <2>5, <2>6 DEF x
  <1> QED
    BY <1>7, <1>8, <1>9

(* The contexts of a literal.                                               *)
LEMMA LiteralTuples ==
    ASSUME NEW a, NEW b, NEW o, NEW n, NEW z
    PROVE  /\ Append(<<a, b>> \o <<o>>, n) = <<a, b, o, n>>
           /\ [<<a, b, o, n>> EXCEPT ![Len(<<a, b>>) + 1] = z] = <<a, b, z, n>>
  <1> DEFINE S == {a, b, o, n, z}
             u == <<a, b>>
             v == <<o>>
             t == u \o v
             x == <<a, b, o, n>>
             y == [x EXCEPT ![3] = z]
  <1>1. /\ u \in Seq(S) /\ v \in Seq(S) /\ <<a, b, o>> \in Seq(S)
        /\ x \in Seq(S) /\ <<a, b, z, n>> \in Seq(S) /\ z \in S
    OBVIOUS
  <1>2. /\ Len(u) = 2 /\ Len(v) = 1 /\ Len(<<a, b, o>>) = 3 /\ Len(x) = 4
        /\ Len(<<a, b, z, n>>) = 4
    OBVIOUS
  <1>3. /\ u[1] = a /\ u[2] = b /\ v[1] = o
        /\ x[1] = a /\ x[2] = b /\ x[3] = o /\ x[4] = n
    OBVIOUS
  <1>4. /\ Append(<<a>>, n) = <<a, n>> /\ Append(<<a, b>>, n) = <<a, b, n>>
        /\ Append(<<a, b, o>>, n) = <<a, b, o, n>>
    BY AppendedTuples
  <1> HIDE DEF S, u, v, x
  <1>5. t = <<a, b, o>>
    <2>1. /\ t \in Seq(S) /\ Len(t) = Len(u) + Len(v)
          /\ \A i \in 1 .. Len(u) + Len(v) : t[i] = IF i <= Len(u) THEN u[i] ELSE v[i - Len(u)]
      BY <1>1, ConcatProperties
    <2> HIDE DEF t
    <2>2. Len(t) = 3 /\ t[1] = a /\ t[2] = b /\ t[3] = o
      BY <1>2, <1>3, <2>1
    <2>3. \A i \in 1 .. 3 : t[i] = <<a, b, o>>[i]
      BY <2>2
    <2> QED
      BY <1>1, <1>2, <2>1, <2>2, <2>3, SeqEqual
  <1>6. y = <<a, b, z, n>>
    <2>1. 3 \in 1 .. Len(x)
      BY <1>2
    <2>2. /\ y \in Seq(S) /\ Len(y) = Len(x)
          /\ \A j \in 1 .. Len(x) : y[j] = IF j = 3 THEN z ELSE x[j]
      BY <1>1, <2>1, ExceptSeq
    <2> HIDE DEF y
    <2>3. Len(y) = 4 /\ y[1] = a /\ y[2] = b /\ y[3] = z /\ y[4] = n
      BY <1>2, <1>3, <2>2
    <2>4. \A i \in 1 .. 4 : y[i] = <<a, b, z, n>>[i]
      BY <2>3
    <2> QED
      BY <1>1, <1>2, <2>2, <2>3, <2>4, SeqEqual
  <1>7. Len(u) + 1 = 3
    BY <1>2
  <1>8. Append(t, n) = <<a, b, o, n>>
    BY <1>4, <1>5 DEF x
  <1>9. [x EXCEPT ![Len(u) + 1] = z] = <<a, b, z, n>>
    BY <1>6, <1>7
  <1> HIDE DEF t, y
  <1> QED
    BY <1>8, <1>9 DEF t, u, v, x

(* Whether a literal still agrees with the byte at the last distance.       *)
Agreed(offs, byte, matchByte, k) ==
    IF /\ offs = 1
       /\ byte \div Power(NumLitBits - k) = matchByte \div Power(NumLitBits - k)
    THEN 1 ELSE 0

(* It does as long as the next bits are the same.                           *)
LEMMA AgreesOn ==
    ASSUME NEW offs \in {0, 1}, NEW byte \in Letters, NEW matchByte \in Letters,
           NEW k \in 0 .. NumLitBits - 1
    PROVE  LET b == Bit(byte, NumLitBits - (k + 1))
               m == Agreed(offs, byte, matchByte, k) * Bit(matchByte, NumLitBits - (k + 1))
           IN  /\ b \in {0, 1} /\ Bit(matchByte, NumLitBits - (k + 1)) \in {0, 1}
               /\ Agreed(offs, byte, matchByte, k + 1) =
                    IF b = 1 THEN m ELSE Agreed(offs, byte, matchByte, k) - m
  <1> DEFINE j == NumLitBits - (k + 1)
             b == Bit(byte, j)
             mb == Bit(matchByte, j)
             B == byte \div Power(j)
             M == matchByte \div Power(j)
             B1 == byte \div Power(j + 1)
             M1 == matchByte \div Power(j + 1)
  <1>1. NumLitBits \in 1 .. 16 /\ j \in 0 .. 31 /\ j + 1 = NumLitBits - k
    BY SymbolSizes
  <1>2. byte \in Nat /\ matchByte \in Nat
    BY <1>1, PowersNatural DEF Letters
  <1> HIDE DEF j
  <1>3. b \in {0, 1} /\ B = 2 * B1 + b /\ B \in Nat
    BY <1>1, <1>2, NextBit
  <1>4. mb \in {0, 1} /\ M = 2 * M1 + mb /\ M \in Nat
    BY <1>1, <1>2, NextBit
  <1>5. Power(j + 1) \in Nat \ {0}
    BY <1>1, PowersGrow
  <1>6. B1 \in Nat /\ M1 \in Nat
    BY <1>2, <1>5, Division
  <1>7. Agreed(offs, byte, matchByte, k) = IF offs = 1 /\ B1 = M1 THEN 1 ELSE 0
    BY <1>1 DEF Agreed
  <1>8. Agreed(offs, byte, matchByte, k + 1) = IF offs = 1 /\ B = M THEN 1 ELSE 0
    BY DEF Agreed, j
  <1> HIDE DEF B, M, B1, M1, b, mb
  <1>9. B = M <=> B1 = M1 /\ b = mb
    BY <1>3, <1>4, <1>6
  <1> DEFINE g == Agreed(offs, byte, matchByte, k)
             h == Agreed(offs, byte, matchByte, k + 1)
  <1>10. g \in {0, 1} /\ h = IF g = 1 /\ b = mb THEN 1 ELSE 0
    BY <1>7, <1>8, <1>9
  <1> HIDE DEF g, h
  <1>11. h = IF b = 1 THEN g * mb ELSE g - g * mb
    BY <1>3, <1>4, <1>10
  <1> QED
    BY <1>3, <1>4, <1>11 DEF g, h, b, mb, j

(* The decisions of a literal, after another one or after a match.          *)
LiteralCode(d, byte) ==
    IF IsCharState(d.state)
    THEN RcTree(<<"Literal", LitState(d.pos, d.prevByte)>> \o <<0>>, NumLitBits, byte)
    ELSE LitMatched(<<"Literal", LitState(d.pos, d.prevByte)>>, byte, d.matchByte)

AfterChar(d) == IF IsCharState(d.state) THEN 0 ELSE 1

(* Each of them: the bit, and a context that tells how far the literal      *)
(* agrees with the byte at the last distance.                               *)
LEMMA LiteralDecisions ==
    ASSUME NEW d, KnownOK(d), NEW byte \in Letters
    PROVE  /\ IsSeq(LiteralCode(d, byte)) /\ Len(LiteralCode(d, byte)) = NumLitBits
           /\ \A k \in 0 .. NumLitBits - 1 :
                LET g == Agreed(AfterChar(d), byte, d.matchByte, k)
                IN  /\ LiteralCode(d, byte)[k + 1].bit = Bit(byte, NumLitBits - (k + 1))
                    /\ LiteralCode(d, byte)[k + 1].context =
                         <<"Literal", LitState(d.pos, d.prevByte),
                           g + g * Bit(d.matchByte, NumLitBits - (k + 1)),
                           NodeAt(byte, NumLitBits, k)>>
  <1> DEFINE lit == <<"Literal", LitState(d.pos, d.prevByte)>>
             plain == RcTree(lit \o <<0>>, NumLitBits, byte)
             agree(i) == byte \div 2 ^ (NumLitBits - i + 1)
                            = d.matchByte \div 2 ^ (NumLitBits - i + 1)
             ds == LiteralCode(d, byte)
             N(k) == NodeAt(byte, NumLitBits, k)
             G(k) == Agreed(AfterChar(d), byte, d.matchByte, k)
             M(k) == Bit(d.matchByte, NumLitBits - (k + 1))
             at(z, k) == <<"Literal", LitState(d.pos, d.prevByte), z, N(k)>>
  <1>0. NumLitBits \in 1 .. 16 /\ NumLitBits \in Nat
    BY SymbolSizes
  <1>1. \A k \in 0 .. NumLitBits - 1 :
            /\ k + 1 \in 1 .. NumLitBits /\ NumLitBits - (k + 1) + 1 = NumLitBits - k
            /\ (k + 1) - 1 = k
    BY <1>0
  <1>2. \A k \in 0 .. NumLitBits - 1 :
            plain[k + 1] = [context |-> Append(lit \o <<0>>, N(k)),
                            bit |-> Bit(byte, NumLitBits - (k + 1))]
    <2> TAKE k \in 0 .. NumLitBits - 1
    <2>1. k + 1 \in 1 .. NumLitBits /\ (k + 1) - 1 = k
          /\ NumLitBits - (k + 1) + 1 = NumLitBits - k
      BY <1>1
    <2>2. plain[k + 1] = [context |-> Append(lit \o <<0>>, 2 ^ ((k + 1) - 1)
                                             + byte \div 2 ^ (NumLitBits - (k + 1) + 1)),
                       bit |-> Bit(byte, NumLitBits - (k + 1))]
      BY <2>1 DEF RcTree
    <2> HIDE DEF plain, lit
    <2> QED
      BY <2>1, <2>2 DEF NodeAt, Power
  <1>3. \A k : Append(lit \o <<0>>, N(k)) = at(0, k)
    <2> TAKE k
    <2> DEFINE n == N(k)
               o == 0
    <2> HIDE DEF n, o, N
    <2>1. /\ Append(<<"Literal", LitState(d.pos, d.prevByte)>> \o <<o>>, n)
                = <<"Literal", LitState(d.pos, d.prevByte), o, n>>
          /\ [<<"Literal", LitState(d.pos, d.prevByte), o, n>>
                    EXCEPT ![Len(<<"Literal", LitState(d.pos, d.prevByte)>>) + 1] = o]
                = <<"Literal", LitState(d.pos, d.prevByte), o, n>>
      BY LiteralTuples
    <2> QED
      BY <2>1 DEF n, o
  <1>4. \A k, z : [at(0, k) EXCEPT ![Len(lit) + 1] = z] = at(z, k)
    <2> TAKE k, z
    <2> DEFINE n == N(k)
               o == 0
    <2> HIDE DEF n, o, N
    <2>1. /\ Append(<<"Literal", LitState(d.pos, d.prevByte)>> \o <<o>>, n)
                = <<"Literal", LitState(d.pos, d.prevByte), o, n>>
          /\ [<<"Literal", LitState(d.pos, d.prevByte), o, n>>
                    EXCEPT ![Len(<<"Literal", LitState(d.pos, d.prevByte)>>) + 1] = z]
                = <<"Literal", LitState(d.pos, d.prevByte), z, n>>
      BY LiteralTuples
    <2> QED
      BY <2>1 DEF n, o
  <1>5. \A k \in 0 .. NumLitBits - 1 : M(k) \in {0, 1}
    <2>1. AfterChar(d) \in {0, 1} /\ d.matchByte \in Letters
      BY DEF AfterChar, KnownOK
    <2> QED
      BY <2>1, AgreesOn
  <1> HIDE DEF at, N
  <1>6. CASE IsCharState(d.state)
    <2>1. ds = plain /\ \A k : G(k) = 0
      BY <1>6 DEF LiteralCode, AfterChar, Agreed
    <2>2. IsSeq(ds) /\ Len(ds) = NumLitBits
      <3>1. ds = [i \in 1 .. NumLitBits |-> ds[i]]
        BY <2>1 DEF RcTree
      <3> HIDE DEF ds
      <3> QED
        BY <1>0, <3>1, FunctionIsSeq
    <2> HIDE DEF ds, plain, G, lit
    <2>3. \A k \in 0 .. NumLitBits - 1 :
            ds[k + 1].bit = Bit(byte, NumLitBits - (k + 1)) /\ ds[k + 1].context = at(0, k)
      <3> TAKE k \in 0 .. NumLitBits - 1
      <3>1. ds[k + 1] = [context |-> Append(lit \o <<0>>, N(k)),
                         bit |-> Bit(byte, NumLitBits - (k + 1))]
        BY <1>2, <2>1
      <3> QED
        BY <1>3, <3>1
    <2>4. \A k \in 0 .. NumLitBits - 1 : G(k) + G(k) * M(k) = 0
      BY <1>5, <2>1
    <2>5. \A k \in 0 .. NumLitBits - 1 : at(0, k) = at(G(k) + G(k) * M(k), k)
      BY <2>4
    <2> QED
      BY <2>2, <2>3, <2>5 DEF ds, at, N, G
  <1>7. CASE ~IsCharState(d.state)
    <2>1. ds = [i \in 1 .. NumLitBits |->
                IF agree(i)
                THEN [plain[i] EXCEPT !.context =
                        [@ EXCEPT ![Len(lit) + 1] = 1 + Bit(d.matchByte, NumLitBits - i)]]
                ELSE plain[i]]
      BY <1>7 DEF LiteralCode, LitMatched
    <2>2. IsSeq(ds) /\ Len(ds) = NumLitBits
      <3>1. ds = [i \in 1 .. NumLitBits |-> ds[i]]
        BY <2>1
      <3> HIDE DEF ds
      <3> QED
        BY <1>0, <3>1, FunctionIsSeq
    <2> HIDE DEF ds, plain, lit
    <2>3. \A k \in 0 .. NumLitBits - 1 : agree(k + 1) <=> G(k) = 1
      <3> TAKE k \in 0 .. NumLitBits - 1
      <3>1. NumLitBits - (k + 1) + 1 = NumLitBits - k
        BY <1>1
      <3> QED
        BY <1>7, <3>1 DEF Agreed, AfterChar, Power
    <2>4. \A k \in 0 .. NumLitBits - 1 : G(k) \in {0, 1}
      BY DEF Agreed
    <2> HIDE DEF agree, G
    <2>5. ASSUME NEW k \in 0 .. NumLitBits - 1
          PROVE  /\ ds[k + 1].bit = Bit(byte, NumLitBits - (k + 1))
                 /\ ds[k + 1].context = at(G(k) + G(k) * M(k), k)
      <3>1. plain[k + 1] = [context |-> at(0, k), bit |-> Bit(byte, NumLitBits - (k + 1))]
        BY <1>2, <1>3
      <3>2. k + 1 \in 1 .. NumLitBits
        BY <1>1
      <3>3. CASE G(k) = 1
        <4>1. agree(k + 1)
          BY <2>3, <3>3
        <4>2. ds[k + 1] = [plain[k + 1] EXCEPT !.context =
                                [@ EXCEPT ![Len(lit) + 1] = 1 + M(k)]]
          BY <2>1, <3>2, <4>1
        <4>3. /\ ds[k + 1].bit = Bit(byte, NumLitBits - (k + 1))
              /\ ds[k + 1].context = [at(0, k) EXCEPT ![Len(lit) + 1] = 1 + M(k)]
          BY <3>1, <4>2
        <4>4. ds[k + 1].context = at(1 + M(k), k)
          BY <1>4, <4>3
        <4>5. G(k) + G(k) * M(k) = 1 + M(k)
          BY <1>5, <3>3
        <4> QED
          BY <4>3, <4>4, <4>5
      <3>4. CASE G(k) # 1
        <4>1. ~agree(k + 1)
          BY <2>3, <3>4
        <4>2. ds[k + 1] = plain[k + 1]
          BY <2>1, <3>2, <4>1
        <4>3. G(k) + G(k) * M(k) = 0
          BY <1>5, <2>4, <3>4
        <4> QED
          BY <3>1, <4>2, <4>3
      <3> QED
        BY <3>3, <3>4
    <2> QED
      BY <2>2, <2>5 DEF ds, at, N, G
  <1> QED
    BY <1>6, <1>7

(* The decoder within a literal.                                            *)
InLiteral(w, i, left, offs) == [w EXCEPT !.i = i, !.left = left, !.offs = offs]

(* A bit of a literal.                                                      *)
LEMMA LiteralOn ==
    ASSUME NEW d, NEW w \in WalkTypes, w.at = "literal", NEW x \in Nat, NEW left \in Nat \ {0},
           NEW g \in {0, 1}, NEW bit \in {0, 1}, Bit(d.matchByte, left - 1) \in {0, 1},
           NEW y, y = 2 * x + bit, NEW rest, rest = left - 1,
           NEW h, h = IF bit = 1 THEN g * Bit(d.matchByte, left - 1)
                      ELSE g - g * Bit(d.matchByte, left - 1)
    PROVE  LET u == InLiteral(w, x, left, g)
               v == InLiteral(w, y, rest, h)
           IN  /\ ContextOf(d, u) = <<"Literal", LitState(d.pos, d.prevByte),
                                      g + g * Bit(d.matchByte, left - 1), x>>
               /\ ~Done(u) /\ u.at # "lost"
               /\ Took(d, u, bit) = IF rest = 0 THEN [v EXCEPT !.at = "done"] ELSE v
  <1> DEFINE u == InLiteral(w, x, left, g)
             v == InLiteral(w, y, rest, h)
             m == Bit(d.matchByte, left - 1)
  <1>1. u.at = "literal" /\ u.i = x /\ u.left = left /\ u.offs = g
    BY DEF InLiteral, WalkTypes
  <1>2. [Deeper(u, bit) EXCEPT !.offs = h] = v
    BY DEF InLiteral, WalkTypes, Deeper
  <1>3. v.left = rest
    BY DEF InLiteral, WalkTypes
  <1> HIDE DEF u, v
  <1>4. MatchBit(d, u) = g * m
    BY <1>1 DEF MatchBit
  <1>5. ContextOf(d, u) = <<"Literal", LitState(d.pos, d.prevByte), g + g * m, x>>
    BY <1>1, <1>4 DEF ContextOf
  <1>6. h = IF bit = 1 THEN MatchBit(d, u) ELSE u.offs - MatchBit(d, u)
    BY <1>1, <1>4
  <1>7. Took(d, u, bit) = Then(v, [v EXCEPT !.at = "done"])
    BY <1>1, <1>2, <1>6 DEF Took
  <1>8. Then(v, [v EXCEPT !.at = "done"]) = IF rest = 0 THEN [v EXCEPT !.at = "done"] ELSE v
    BY <1>3 DEF Then
  <1> QED
    BY <1>1, <1>5, <1>7, <1>8 DEF Done, u, v

(* The decoder reads a literal, coded on its own or against the byte at the *)
(* last distance (LitEnc_Encode, LitEnc_EncodeMatched).                     *)
LEMMA LiteralReads ==
    ASSUME NEW d, KnownOK(d), NEW w \in WalkTypes, NEW byte \in Letters
    PROVE  /\ IsSeq(LiteralCode(d, byte))
           /\ \E v : /\ v \in WalkTypes /\ v.at = "done" /\ v.kind = w.kind
                     /\ v.i = Power(NumLitBits) + byte
                     /\ Reads(d, Into([w EXCEPT !.offs = AfterChar(d)], "literal", NumLitBits),
                              LiteralCode(d, byte), v)
  <1> DEFINE n == NumLitBits
             u == Into([w EXCEPT !.offs = AfterChar(d)], "literal", NumLitBits)
             ds == LiteralCode(d, byte)
             N(k) == NodeAt(byte, NumLitBits, k)
             G(k) == Agreed(AfterChar(d), byte, d.matchByte, k)
             B(k) == Bit(byte, NumLitBits - (k + 1))
             M(k) == Bit(d.matchByte, NumLitBits - (k + 1))
             L(k) == InLiteral(u, N(k), n - k, G(k))
             v == [L(n) EXCEPT !.at = "done"]
             f == [k \in 0 .. n |-> IF k = n THEN v ELSE L(k)]
  <1>0. n \in 1 .. 16
    BY SymbolSizes
  <1>1. AfterChar(d) \in {0, 1} /\ d.matchByte \in Letters
    BY DEF AfterChar, KnownOK
  <1>2. [w EXCEPT !.offs = AfterChar(d)] \in WalkTypes
    BY <1>1 DEF WalkTypes
  <1>3. /\ u \in WalkTypes /\ u.at = "literal" /\ u.i = 1 /\ u.left = n
        /\ u.offs = AfterChar(d) /\ u.kind = w.kind
    <2>1. n \in Nat /\ "literal" \in PlainTrees \cup {"literal"}
      BY <1>0
    <2> DEFINE z == [w EXCEPT !.offs = AfterChar(d)]
    <2>2. z.offs = AfterChar(d) /\ z.kind = w.kind /\ z \in WalkTypes
      BY <1>2 DEF WalkTypes
    <2> HIDE DEF z
    <2>3. LET x == Into(z, "literal", n)
          IN  /\ x \in WalkTypes /\ x.at = "literal" /\ x.i = 1 /\ x.left = n
              /\ x.kind = z.kind /\ x.offs = z.offs
      BY <2>1, <2>2, IntoIs
    <2> QED
      BY <2>2, <2>3 DEF z
  <1> HIDE DEF u
  <1>4. \A k \in 0 .. n - 1 :
            /\ B(k) \in {0, 1} /\ M(k) \in {0, 1}
            /\ G(k + 1) = IF B(k) = 1 THEN G(k) * M(k) ELSE G(k) - G(k) * M(k)
    <2> TAKE k \in 0 .. n - 1
    <2> QED
      BY <1>1, AgreesOn
  <1>5. \A k \in 0 .. n : G(k) \in {0, 1}
    BY DEF Agreed
  <1>6. /\ N(0) = 1 /\ N(n) = Power(n) + byte
        /\ \A k \in 0 .. n - 1 : N(k + 1) = 2 * N(k) + B(k)
        /\ \A k \in 0 .. n : N(k) \in Nat
    <2>1. byte \in 0 .. Power(NumLitBits) - 1 /\ NumLitBits \in 1 .. 31
      BY <1>0 DEF Letters
    <2>2. \A k \in 0 .. NumLitBits - 1 :
              /\ Bit(byte, NumLitBits - (k + 1)) \in {0, 1}
              /\ NodeAt(byte, NumLitBits, k + 1) =
                      2 * NodeAt(byte, NumLitBits, k) + Bit(byte, NumLitBits - (k + 1))
      BY <2>1, NodeOn
    <2>3. /\ NodeAt(byte, NumLitBits, 0) = 1
          /\ NodeAt(byte, NumLitBits, NumLitBits) = Power(NumLitBits) + byte
          /\ \A k \in 0 .. NumLitBits : NodeAt(byte, NumLitBits, k) \in Nat \ {0}
      BY <2>1, NodeOn
    <2> QED
      BY <2>2, <2>3
  <1>7. /\ IsSeq(ds) /\ Len(ds) = n
        /\ \A k \in 0 .. n - 1 :
            /\ ds[k + 1].bit = B(k)
            /\ ds[k + 1].context = <<"Literal", LitState(d.pos, d.prevByte),
                                     G(k) + G(k) * M(k), N(k)>>
    BY LiteralDecisions
  <1>8. G(0) = AfterChar(d)
    <2>1. Power(n) \in Nat \ {0} /\ byte \in 0 .. Power(n) - 1 /\ d.matchByte \in 0 .. Power(n) - 1
      BY <1>0, <1>1, PowersNatural DEF Letters
    <2>2. byte = Power(n) * 0 + byte /\ d.matchByte = Power(n) * 0 + d.matchByte
      BY <2>1
    <2>3. byte \div Power(n) = 0 /\ d.matchByte \div Power(n) = 0
      BY <2>1, <2>2, QuotientUnique
    <2>4. NumLitBits - 0 = n
      BY <1>0
    <2> HIDE DEF n
    <2> QED
      BY <1>1, <2>3, <2>4 DEF Agreed
  <1> HIDE DEF N, G, B, M
  <1>9. L(0) = u
    <2>1. n - 0 = n
      BY <1>0
    <2>2. InLiteral(u, 1, n, AfterChar(d)) = u
      BY <1>3 DEF InLiteral, WalkTypes
    <2> QED
      BY <1>6, <1>8, <2>1, <2>2
  <1>10. ASSUME NEW k \in 0 .. n - 1
         PROVE  f[k + 1] = Follow(d, f[k], ds[k + 1])
    <2> DEFINE x == N(k)
               left == n - k
               g == G(k)
               b == B(k)
               y == N(k + 1)
               rest == n - (k + 1)
               h == G(k + 1)
    <2>1. x \in Nat /\ left \in Nat \ {0} /\ g \in {0, 1} /\ b \in {0, 1}
      BY <1>0, <1>4, <1>5, <1>6
    <2>2. M(k) = Bit(d.matchByte, left - 1) /\ M(k) \in {0, 1}
      <3>1. NumLitBits - (k + 1) = left - 1
        BY <1>0
      <3> QED
        BY <1>4, <3>1 DEF M
    <2>3. y = 2 * x + b /\ rest = left - 1
      BY <1>0, <1>6
    <2>4. h = IF b = 1 THEN g * Bit(d.matchByte, left - 1) ELSE g - g * Bit(d.matchByte, left - 1)
      BY <1>4, <2>2
    <2>5. L(k) = InLiteral(u, x, left, g) /\ L(k + 1) = InLiteral(u, y, rest, h)
      OBVIOUS
    <2>6. ds[k + 1].bit = b /\ ds[k + 1].context =
            <<"Literal", LitState(d.pos, d.prevByte), g + g * Bit(d.matchByte, left - 1), x>>
      BY <1>7, <2>2
    <2>7. f[k] = L(k) /\ f[k + 1] = IF rest = 0 THEN [L(k + 1) EXCEPT !.at = "done"] ELSE L(k + 1)
      <3>1. k \in 0 .. n /\ k # n /\ k + 1 \in 0 .. n /\ (rest = 0 <=> k + 1 = n)
        BY <1>0
      <3> HIDE DEF L, rest
      <3>2. f[k] = L(k)
        BY <3>1
      <3>3. f[k + 1] = IF k + 1 = n THEN [L(n) EXCEPT !.at = "done"] ELSE L(k + 1)
        BY <3>1
      <3> QED
        BY <3>1, <3>2, <3>3
    <2> HIDE DEF x, left, g, b, y, rest, h, L, f, ds
    <2>8. /\ ContextOf(d, L(k)) = ds[k + 1].context
          /\ ~Done(L(k)) /\ L(k).at # "lost"
          /\ Took(d, L(k), b) = IF rest = 0 THEN [L(k + 1) EXCEPT !.at = "done"] ELSE L(k + 1)
      <3>1. Bit(d.matchByte, left - 1) \in {0, 1}
        BY <2>2
      <3> DEFINE s1 == InLiteral(u, x, left, g)
                 s2 == InLiteral(u, y, rest, h)
      <3>2. /\ ContextOf(d, s1) = <<"Literal", LitState(d.pos, d.prevByte),
                                    g + g * Bit(d.matchByte, left - 1), x>>
            /\ ~Done(s1) /\ s1.at # "lost"
            /\ Took(d, s1, b) = IF rest = 0 THEN [s2 EXCEPT !.at = "done"] ELSE s2
        <4>1. u \in WalkTypes /\ u.at = "literal"
          BY <1>3
        <4> QED
          BY ONLY <2>1, <2>3, <2>4, <3>1, <4>1, LiteralOn, SMTT(60)
      <3> HIDE DEF s1, s2
      <3>3. L(k) = s1 /\ L(k + 1) = s2
        BY <2>5 DEF s1, s2
      <3> QED
        BY <2>6, <3>2, <3>3
    <2> QED
      BY <2>6, <2>7, <2>8 DEF Follow
  <1>11. f[0] = u /\ f[n] = v
    BY <1>0, <1>9
  <1>12. v \in WalkTypes /\ v.at = "done" /\ v.kind = w.kind /\ v.i = Power(n) + byte
    <2>1. N(n) \in Nat /\ n - n \in Nat /\ G(n) \in {0, 1} /\ N(n) = Power(n) + byte
      BY <1>0, <1>5, <1>6
    <2> QED
      BY <1>3, <2>1 DEF InLiteral, WalkTypes
  <1> HIDE DEF f, v, ds, L
  <1>13. \A k \in 1 .. n : f[k] = Follow(d, f[k - 1], ds[k])
    <2> TAKE k \in 1 .. n
    <2>1. k - 1 \in 0 .. n - 1 /\ (k - 1) + 1 = k
      BY <1>0
    <2> QED
      BY <1>10, <2>1
  <1>14. Reads(d, u, ds, v)
    BY <1>7, <1>11, <1>13 DEF Reads
  <1> QED
    BY <1>7, <1>12, <1>14 DEF u, ds

(* Each slot begins where the one before it ends.                           *)
LEMMA SlotsJoin ==
    /\ \A s \in 4 .. Power(kNumPosSlotBits) - 1 :
            SlotBase(s) = (2 + (s % 2)) * Power(FooterBits(s))
            /\ Power(FooterBits(s)) \in Nat \ {0} /\ SlotBase(s) \in Nat
    /\ \A s \in 4 .. Power(kNumPosSlotBits) - 2 :
            SlotBase(s + 1) = SlotBase(s) + Power(FooterBits(s))
    /\ SlotBase(4) = 4
    /\ SlotBase(Power(kNumPosSlotBits) - 1) + Power(FooterBits(Power(kNumPosSlotBits) - 1)) - 1
            = EndDistance
    /\ Power(kNumPosSlotBits) - 1 > 4 /\ EndDistance \in Nat
  <1> DEFINE top == Power(kNumPosSlotBits) - 1
             P(s) == Power(FooterBits(s))
  <1>1. /\ top \in Nat /\ top > 4
        /\ \A s \in 4 .. top : FooterBits(s) \in 1 .. 30 /\ SlotBase(s) \in Nat
    <2>1. top \in Nat /\ top > 4
      <3>1. /\ Power(kNumPosSlotBits) \in Nat /\ kEndPosModelIndex \in Nat
            /\ kEndPosModelIndex > 4 /\ kEndPosModelIndex <= Power(kNumPosSlotBits) - 1
        BY Footers DEF kStartPosModelIndex
      <3> QED
        BY <3>1
    <2>2. MostDirects \in 1 .. 30 /\ kNumAlignBits \in 1 .. 30 /\ MostDirects + kNumAlignBits <= 30
      BY Footers, DecisionCounts
    <2>3. \A s \in 4 .. top :
            FooterBits(s) \in 1 .. MostDirects + kNumAlignBits /\ SlotBase(s) \in Nat
      BY Footers DEF kStartPosModelIndex
    <2> HIDE DEF top
    <2> QED
      BY <2>1, <2>2, <2>3
  <1>2. \A s \in 4 .. top : SlotBase(s) = (2 + (s % 2)) * P(s) /\ P(s) \in Nat \ {0}
    <2> TAKE s \in 4 .. top
    <2>1. FooterBits(s) \in 0 .. 32
      BY <1>1
    <2>2. Power(FooterBits(s)) \in Nat \ {0}
      BY <2>1, PowersNatural
    <2> QED
      BY <2>2 DEF SlotBase, Power
  <1>3. ASSUME NEW s \in 4 .. top - 1 PROVE SlotBase(s + 1) = SlotBase(s) + P(s)
    <2>1. s \in 4 .. top /\ s + 1 \in 4 .. top
      BY <1>1
    <2>2. /\ SlotBase(s) = (2 + (s % 2)) * P(s) /\ P(s) \in Nat
          /\ SlotBase(s + 1) = (2 + ((s + 1) % 2)) * P(s + 1)
      BY <1>2, <2>1
    <2>3. CASE s % 2 = 0
      <3>1. (s + 1) % 2 = 1 /\ (s + 1) \div 2 = s \div 2
        BY <2>1, <2>3
      <3>2. P(s + 1) = P(s)
        BY <3>1 DEF FooterBits
      <3> HIDE DEF P
      <3> QED
        BY <2>2, <2>3, <3>1, <3>2
    <2>4. CASE s % 2 = 1
      <3>1. (s + 1) % 2 = 0 /\ (s + 1) \div 2 = s \div 2 + 1
        BY <2>1, <2>4
      <3>2. FooterBits(s + 1) = FooterBits(s) + 1 /\ FooterBits(s) \in 0 .. 31
        BY <1>1, <2>1, <3>1 DEF FooterBits
      <3>3. P(s + 1) = 2 * P(s)
        BY <3>2, PowersGrow
      <3> HIDE DEF P
      <3> QED
        BY <2>2, <2>4, <3>1, <3>3
    <2>5. s % 2 \in {0, 1}
      BY <2>1
    <2> QED
      BY <2>3, <2>4, <2>5
  <1>4. SlotBase(4) = 4
    <2>1. 4 % 2 = 0 /\ FooterBits(4) = 1 /\ 4 \in 4 .. top
      BY <1>1 DEF FooterBits
    <2>2. P(4) = 2
      BY <2>1, PowerTable
    <2>3. SlotBase(4) = (2 + (4 % 2)) * P(4)
      BY <1>2, <2>1
    <2> HIDE DEF P
    <2> QED
      BY <2>1, <2>2, <2>3
  <1>5. SlotBase(top) + P(top) - 1 = EndDistance /\ EndDistance \in Nat
    <2> DEFINE h == Power(kNumPosSlotBits - 1)
    <2>1. kNumPosSlotBits \in 3 .. 6
      BY DecisionCounts
    <2>2. h \in {4, 8, 16, 32} /\ top = 2 * h - 1
      BY <2>1, PowerTable
    <2> HIDE DEF h
    <2>3. top % 2 = 1 /\ FooterBits(top) = h - 2
      BY <2>2 DEF FooterBits
    <2>4. Power(h) = 4 * P(top)
      <3>1. h - 2 \in 0 .. 31 /\ (h - 2) + 1 \in 0 .. 31 /\ ((h - 2) + 1) + 1 = h
        BY <2>2
      <3>2. Power((h - 2) + 1) = 2 * Power(h - 2) /\ Power(h) = 2 * Power((h - 2) + 1)
            /\ Power(h - 2) \in Nat
        BY <3>1, PowersGrow
      <3> QED
        BY <2>3, <3>2
    <2>5. EndDistance = Power(h) - 1
      BY DEF EndDistance, Power, h
    <2>6. SlotBase(top) = (2 + (top % 2)) * P(top) /\ P(top) \in Nat \ {0}
      <3>1. top \in 4 .. top
        BY <1>1
      <3> HIDE DEF top, P
      <3> QED
        BY <1>2, <3>1
    <2> HIDE DEF top, P
    <2> QED
      BY <2>3, <2>4, <2>5, <2>6
  <1>6. top - 1 = Power(kNumPosSlotBits) - 2
    BY Footers
  <1>7. \A s \in 4 .. Power(kNumPosSlotBits) - 2 :
            SlotBase(s + 1) = SlotBase(s) + Power(FooterBits(s))
    BY <1>3, <1>6
  <1> QED
    BY <1>1, <1>2, <1>4, <1>5, <1>7

(* GetPosSlot: a distance lies in the slot that it is given.                *)
LEMMA SlotOf ==
    ASSUME NEW distance \in 0 .. EndDistance
    PROVE  LET s == GetPosSlot(distance)
           IN  /\ s \in 0 .. Power(kNumPosSlotBits) - 1
               /\ s < kStartPosModelIndex => s = distance
               /\ s >= kStartPosModelIndex =>
                    /\ distance - SlotBase(s) \in 0 .. Power(FooterBits(s)) - 1
                    /\ SlotBase(s) \in Nat
  <1> DEFINE top == Power(kNumPosSlotBits) - 1
             P(s) == Power(FooterBits(s))
             s0 == GetPosSlot(distance)
  <1>1. /\ \A s \in 4 .. top : SlotBase(s) \in Nat /\ P(s) \in Nat \ {0}
        /\ \A s \in 4 .. top - 1 : SlotBase(s + 1) = SlotBase(s) + P(s)
        /\ SlotBase(4) = 4 /\ SlotBase(top) + P(top) - 1 = EndDistance
        /\ top > 4 /\ top \in Nat /\ EndDistance \in Nat
    <2>1. top \in Nat
      BY Footers DEF kStartPosModelIndex
    <2>2. top - 1 = Power(kNumPosSlotBits) - 2
      BY Footers
    <2>3. \A s \in 4 .. top - 1 : SlotBase(s + 1) = SlotBase(s) + P(s)
      BY <2>2, SlotsJoin
    <2>4. \A s \in 4 .. top : SlotBase(s) \in Nat /\ P(s) \in Nat \ {0}
      BY SlotsJoin
    <2>5. /\ SlotBase(4) = 4 /\ SlotBase(top) + P(top) - 1 = EndDistance /\ top > 4
          /\ EndDistance \in Nat
      BY SlotsJoin
    <2> QED
      BY <2>1, <2>3, <2>4, <2>5
  <1> HIDE DEF top
  <1>2. CASE distance < 4
    <2>1. s0 = distance
      BY <1>2 DEF GetPosSlot, kStartPosModelIndex
    <2> QED
      BY <1>1, <1>2, <2>1 DEF kStartPosModelIndex, top
  <1>3. CASE ~(distance < 4)
    <2> DEFINE T == {s \in 4 .. top : distance < SlotBase(s) + P(s)}
    <2>1. top \in T
      BY <1>1
    <2>2. T \subseteq Nat /\ T # {}
      BY <2>1
    <2> HIDE DEF T
    <2>3. PICK s \in T : \A x \in T : s <= x
      BY <2>2, LeastNatural
    <2>4. s \in 4 .. top /\ distance < SlotBase(s) + P(s)
      BY <2>3 DEF T
    <2>5. SlotBase(s) <= distance
      <3>1. CASE s = 4
        BY <1>1, <1>3, <3>1
      <3>2. CASE s # 4
        <4>1. s - 1 \in 4 .. top /\ s - 1 \in 4 .. top - 1 /\ (s - 1) + 1 = s /\ ~(s <= s - 1)
          BY <1>1, <2>4, <3>2
        <4>2. s - 1 \notin T
          BY <2>3, <4>1
        <4>3. ~(distance < SlotBase(s - 1) + P(s - 1))
          BY <4>1, <4>2 DEF T
        <4>4. SlotBase(s) = SlotBase(s - 1) + P(s - 1) /\ SlotBase(s) \in Nat
          BY <1>1, <2>4, <4>1
        <4> QED
          BY <4>3, <4>4
      <3> QED
        BY <3>1, <3>2
    <2>6. s \in 4 .. top /\ distance \in SlotBase(s) .. SlotBase(s) + P(s) - 1
      BY <1>1, <2>4, <2>5
    <2>7. s0 = CHOOSE x \in 4 .. top : distance \in SlotBase(x) .. SlotBase(x) + P(x) - 1
      BY <1>3 DEF GetPosSlot, kStartPosModelIndex, top, Power
    <2>8. s0 \in 4 .. top /\ distance \in SlotBase(s0) .. SlotBase(s0) + P(s0) - 1
      BY <2>6, <2>7
    <2> HIDE DEF s0, P
    <2>9. /\ s0 \in 0 .. top /\ ~(s0 < 4) /\ SlotBase(s0) \in Nat
          /\ distance - SlotBase(s0) \in 0 .. P(s0) - 1
      <3>1. SlotBase(s0) \in Nat /\ P(s0) \in Nat
        BY <1>1, <2>8
      <3> QED
        BY <1>1, <2>8, <3>1
    <2> QED
      BY <2>9 DEF s0, P, top, kStartPosModelIndex
  <1> QED
    BY <1>2, <1>3

(* The nodes of a reverse tree on the way to a value.                       *)
BackNodes(g, value, n) ==
    /\ g[0] = 1
    /\ \A k \in 0 .. n - 1 : g[k + 1] = 2 * g[k] + Bit(value, k)
    /\ \A k \in 0 .. n : g[k] \in Power(k) .. 2 * Power(k) - 1

(* There is one for each bit.                                               *)
LEMMA BackNodesExist ==
    ASSUME NEW value \in Nat, NEW levels \in 0 .. 31
    PROVE  \E g : BackNodes(g, value, levels)
  <1> DEFINE S == {n \in Nat : n <= 31 => \E g : BackNodes(g, value, n)}
  <1>1. 0 \in S
    <2> DEFINE g == [k \in {0} |-> 1]
    <2>1. g[0] = 1 /\ Power(0) = 1
      BY PowerTable
    <2> HIDE DEF g
    <2>2. BackNodes(g, value, 0)
      BY <2>1 DEF BackNodes
    <2> QED
      BY <2>2
  <1>2. \A n \in S \cap Nat : n + 1 \in S
    <2> SUFFICES ASSUME NEW n \in S \cap Nat, n + 1 <= 31
                 PROVE  \E g : BackNodes(g, value, n + 1)
      OBVIOUS
    <2>1. n \in 0 .. 30 /\ n \in Nat
      OBVIOUS
    <2>2. PICK g : BackNodes(g, value, n)
      BY <2>1
    <2> DEFINE h == [k \in 0 .. n + 1 |-> IF k <= n THEN g[k] ELSE 2 * g[n] + Bit(value, n)]
    <2>3. /\ \A k \in 0 .. n : h[k] = g[k]
          /\ h[n + 1] = 2 * g[n] + Bit(value, n)
      BY <2>1
    <2> HIDE DEF h
    <2>4. h[0] = 1
      BY <2>1, <2>2, <2>3 DEF BackNodes
    <2>5. \A k \in 0 .. n : h[k + 1] = 2 * h[k] + Bit(value, k)
      <3> TAKE k \in 0 .. n
      <3>1. CASE k = n
        BY <2>1, <2>3, <3>1
      <3>2. CASE k # n
        <4>1. k \in 0 .. n - 1 /\ k + 1 \in 0 .. n
          BY <2>1, <3>2
        <4> QED
          BY <2>2, <2>3, <4>1 DEF BackNodes
      <3> QED
        BY <3>1, <3>2
    <2>6. h[n + 1] \in Power(n + 1) .. 2 * Power(n + 1) - 1
      <3>1. Power(n) \in Nat \ {0} /\ Power(n + 1) = 2 * Power(n)
        BY <2>1, PowersGrow
      <3>2. Bit(value, n) \in {0, 1}
        <4>1. n \in 0 .. 31
          BY <2>1
        <4>2. /\ Bit(value, n) \in {0, 1} /\ value \div Power(n) \in Nat
              /\ value \div Power(n) = 2 * (value \div Power(n + 1)) + Bit(value, n)
          BY <4>1, NextBit
        <4> QED
          BY <4>2
      <3>3. g[n] \in Power(n) .. 2 * Power(n) - 1
        BY <2>1, <2>2 DEF BackNodes
      <3> QED
        BY <2>3, <3>1, <3>2, <3>3
    <2>7. \A k \in 0 .. n + 1 : h[k] \in Power(k) .. 2 * Power(k) - 1
      <3> TAKE k \in 0 .. n + 1
      <3>1. k = n + 1 \/ k \in 0 .. n
        BY <2>1
      <3> QED
        BY <2>2, <2>3, <2>6, <3>1 DEF BackNodes
    <2>8. (n + 1) - 1 = n
      BY <2>1
    <2>9. BackNodes(h, value, n + 1)
      BY <2>4, <2>5, <2>7, <2>8 DEF BackNodes
    <2> QED
      BY <2>9
  <1> HIDE DEF S
  <1>3. levels \in S
    BY <1>1, <1>2, NaturalInduction
  <1> QED
    BY <1>3 DEF S

(* The decisions of a reverse tree, by its nodes.                           *)
BackDecisions(ds, c, first, g, value, levels) ==
    /\ IsSeq(ds) /\ Len(ds) = levels
    /\ \A k \in 0 .. levels - 1 :
        ds[k + 1].context = Append(c, first + g[k]) /\ ds[k + 1].bit = Bit(value, k)

(* RcTree_ReverseEncode, without its recursive function.                    *)
LEMMA BackTreeIs ==
    ASSUME NEW c, NEW first \in Int, NEW levels \in 1 .. 31, NEW value \in Nat,
           NEW g, BackNodes(g, value, levels)
    PROVE  BackDecisions(RcTreeReverse(c, first, levels, value), c, first, g, value, levels)
  <1> DEFINE F(f, i) == 2 * f[i - 1] + Bit(value, i - 2)
             Upto(f) == [i \in 1 .. levels |-> IF i = 1 THEN 1 ELSE F(f, i)]
             m == CHOOSE f : f = Upto(f)
             ds == RcTreeReverse(c, first, levels, value)
  <1>0. levels \in Nat \ {0}
    OBVIOUS
  <1>1. ds = [i \in 1 .. levels |->
                [context |-> Append(c, first + m[i]), bit |-> Bit(value, i - 1)]]
    BY DEF RcTreeReverse
  <1>2. /\ g[0] = 1 /\ \A k \in 0 .. levels - 1 : g[k + 1] = 2 * g[k] + Bit(value, k)
    BY DEF BackNodes
  <1> DEFINE h == [i \in 1 .. levels |-> g[i - 1]]
  <1>3. h = Upto(h)
    <2>1. \A i \in 1 .. levels : g[i - 1] = IF i = 1 THEN 1 ELSE F(h, i)
      <3> TAKE i \in 1 .. levels
      <3>1. CASE i = 1
        BY <1>2, <3>1
      <3>2. CASE i # 1
        <4>1. /\ i - 2 \in 0 .. levels - 1 /\ i - 1 \in 1 .. levels /\ (i - 2) + 1 = i - 1
              /\ (i - 1) - 1 = i - 2
          BY <1>0, <3>2
        <4>2. h[i - 1] = g[i - 2]
          BY <4>1
        <4> QED
          BY <1>2, <3>2, <4>1, <4>2
      <3> QED
        BY <3>1, <3>2
    <2> HIDE DEF F
    <2> QED
      BY <2>1
  <1>4. m = Upto(m)
    <2> HIDE DEF h, Upto
    <2> QED
      BY <1>3
  <1> HIDE DEF m
  <1>5. /\ m[1] = 1
        /\ \A i \in 2 .. levels : m[i] = 2 * m[i - 1] + Bit(value, i - 2)
    <2>1. \A i \in 1 .. levels : m[i] = IF i = 1 THEN 1 ELSE F(m, i)
      <3> HIDE DEF F
      <3> QED
        BY <1>4
    <2> QED
      BY <1>0, <2>1
  <1> DEFINE S == {k \in Nat : k < levels => m[k + 1] = g[k]}
  <1>6. 0 \in S
    BY <1>2, <1>5
  <1>7. \A k \in S \cap Nat : k + 1 \in S
    <2> SUFFICES ASSUME NEW k \in S \cap Nat, k + 1 < levels PROVE m[(k + 1) + 1] = g[k + 1]
      OBVIOUS
    <2>1. /\ (k + 1) + 1 \in 2 .. levels /\ ((k + 1) + 1) - 1 = k + 1 /\ k < levels
          /\ ((k + 1) + 1) - 2 = k /\ k \in 0 .. levels - 1
      BY <1>0
    <2>2. m[k + 1] = g[k]
      BY <2>1
    <2> QED
      BY <1>2, <1>5, <2>1, <2>2
  <1> HIDE DEF S
  <1>8. \A k \in 0 .. levels - 1 : m[k + 1] = g[k]
    BY <1>0, <1>6, <1>7, NaturalInduction DEF S
  <1>9. IsSeq(ds) /\ Len(ds) = levels
    <2>1. ds = [i \in 1 .. levels |-> ds[i]]
      BY <1>1
    <2> HIDE DEF ds
    <2> QED
      BY <1>0, <2>1, FunctionIsSeq
  <1>10. \A k \in 0 .. levels - 1 :
            ds[k + 1].context = Append(c, first + g[k]) /\ ds[k + 1].bit = Bit(value, k)
    <2> TAKE k \in 0 .. levels - 1
    <2>1. k + 1 \in 1 .. levels /\ (k + 1) - 1 = k
      OBVIOUS
    <2> HIDE DEF ds
    <2>2. ds[k + 1] = [context |-> Append(c, first + m[k + 1]), bit |-> Bit(value, (k + 1) - 1)]
      BY <1>1, <2>1
    <2>3. m[k + 1] = g[k]
      BY <1>8
    <2> QED
      BY <2>1, <2>2, <2>3
  <1> QED
    BY <1>9, <1>10 DEF BackDecisions

(* The decoder within the lowest bits of a distance.                        *)
InFooter(w, i, left, distance) == [w EXCEPT !.i = i, !.left = left, !.distance = distance]

LongestFooter == MostDirects + kNumAlignBits

(* A node of a reverse tree tells how many bits are above it.               *)
LEMMA OneDepth ==
    ASSUME NEW k \in 0 .. LongestFooter, NEW x \in Nat, Power(k) <= x, x < 2 * Power(k)
    PROVE  (CHOOSE n \in 0 .. FooterBits(2 ^ kNumPosSlotBits - 1) :
                2 ^ n <= x /\ x < 2 ^ (n + 1)) = k
  <1> DEFINE n == CHOOSE j \in 0 .. FooterBits(2 ^ kNumPosSlotBits - 1) :
                        2 ^ j <= x /\ x < 2 ^ (j + 1)
  <1>1. FooterBits(2 ^ kNumPosSlotBits - 1) = LongestFooter /\ LongestFooter \in 1 .. 30
    BY DecisionCounts, Footers DEF LongestFooter
  <1>2. k \in 0 .. 31
    BY <1>1
  <1>3. Power(k) \in Nat \ {0} /\ Power(k + 1) = 2 * Power(k)
    BY <1>2, PowersGrow
  <1>4. 2 ^ k <= x /\ x < 2 ^ (k + 1)
    BY <1>3 DEF Power
  <1>5. /\ n \in 0 .. FooterBits(2 ^ kNumPosSlotBits - 1)
        /\ 2 ^ n <= x /\ x < 2 ^ (n + 1)
    BY <1>1, <1>4
  <1> HIDE DEF n
  <1>6. n \in 0 .. 30 /\ Power(n) <= x /\ x < Power(n + 1)
    BY <1>1, <1>5 DEF Power
  <1>7. Power(n) \in Nat \ {0} /\ Power(n + 1) \in Nat \ {0}
    <2>1. n \in 0 .. 32 /\ n + 1 \in 0 .. 32
      BY <1>6
    <2> QED
      BY <2>1, PowersNatural
  <1>8. ~(n < k)
    <2> SUFFICES ASSUME n < k PROVE FALSE
      OBVIOUS
    <2>1. n + 1 <= k /\ n + 1 \in 0 .. 32 /\ k \in 0 .. 32
      BY <1>2, <1>6
    <2>2. Power(n + 1) <= Power(k)
      BY <2>1, PowersMonotone
    <2> QED
      BY <1>3, <1>6, <1>7, <2>2
  <1>9. ~(k < n)
    <2> SUFFICES ASSUME k < n PROVE FALSE
      OBVIOUS
    <2>1. k + 1 <= n /\ k + 1 \in 0 .. 32 /\ n \in 0 .. 32
      BY <1>2, <1>6
    <2>2. Power(k + 1) <= Power(n)
      BY <2>1, PowersMonotone
    <2> QED
      BY <1>3, <1>6, <1>7, <2>2
  <1>10. n = k
    BY <1>2, <1>6, <1>8, <1>9
  <1> QED
    BY <1>10 DEF n

(* What a bit of a reverse tree does.                                       *)
BackStep(d, w, u, bit, rest, v) ==
    /\ ~Done(u) /\ u.at = w.at /\ u.i \in Nat /\ u.posSlot = w.posSlot
    /\ Took(d, u, bit) = IF rest = 0 THEN [v EXCEPT !.at = "done"] ELSE v

(* A bit of a reverse tree.                                                 *)
LEMMA BackOn ==
    ASSUME NEW d, NEW w \in WalkTypes, w.at \in {"SpecPos", "Align"}, NEW k \in 0 .. LongestFooter,
           NEW x \in Nat, Power(k) <= x, x < 2 * Power(k), NEW left \in Nat \ {0},
           NEW sum \in Nat, NEW bit, NEW y, y = 2 * x + bit, NEW rest, rest = left - 1,
           NEW e, e = sum + bit * Power(k)
    PROVE  BackStep(d, w, InFooter(w, x, left, sum), bit, rest, InFooter(w, y, rest, e))
  <1> DEFINE u == InFooter(w, x, left, sum)
             v == InFooter(w, y, rest, e)
  <1>1. /\ u.at = w.at /\ u.i = x /\ u.left = left /\ u.distance = sum
        /\ u.posSlot = w.posSlot
    BY DEF InFooter, WalkTypes
  <1>2. Deeper([u EXCEPT !.distance = e], bit) = v
    BY DEF InFooter, WalkTypes, Deeper
  <1>3. v.left = rest
    BY DEF InFooter, WalkTypes
  <1> HIDE DEF u, v
  <1> DEFINE n == CHOOSE j \in 0 .. FooterBits(2 ^ kNumPosSlotBits - 1) :
                        2 ^ j <= u.i /\ u.i < 2 ^ (j + 1)
             z == Deeper([u EXCEPT !.distance = @ + bit * 2 ^ n], bit)
  <1>4. n = k
    BY <1>1, OneDepth
  <1>5. ReverseBit(u, bit) = Then(z, [z EXCEPT !.at = "done"])
    BY DEF ReverseBit
  <1> HIDE DEF n
  <1>6. [u EXCEPT !.distance = @ + bit * 2 ^ n] = [u EXCEPT !.distance = e]
    <2>1. u.distance + bit * 2 ^ n = e
      BY <1>1, <1>4 DEF Power
    <2> QED
      BY <2>1
  <1>7. z = v
    BY <1>2, <1>6
  <1> HIDE DEF z
  <1>8. Took(d, u, bit) = ReverseBit(u, bit)
    BY <1>1 DEF Took
  <1>9. Took(d, u, bit) = IF rest = 0 THEN [v EXCEPT !.at = "done"] ELSE v
    BY <1>3, <1>5, <1>7, <1>8 DEF Then
  <1>10. ~Done(u)
    BY <1>1 DEF Done
  <1> QED
    BY <1>1, <1>9, <1>10 DEF u, v, BackStep

(* Where the rest of a distance leads.                                      *)
DistanceRead(w, v, distance) ==
    v.at = "done" /\ v.kind = w.kind /\ v.len = w.len /\ v.distance = distance

(* The decisions of a reverse tree are made in the contexts of its nodes.   *)
BackContexts(d, w, c, first) ==
    \A x : x.at = w.at /\ x.posSlot = w.posSlot /\ x.i \in Nat =>
            ContextOf(d, x) = Append(c, first + x.i)

(* The decoder reads what RcTree_ReverseEncode has coded.                   *)
LEMMA BackTreeReads ==
    ASSUME NEW d, NEW w \in WalkTypes, w.at \in {"SpecPos", "Align"},
           NEW levels \in 1 .. LongestFooter, w.i = 1, w.left = levels,
           NEW value \in 0 .. Power(levels) - 1, NEW c, NEW first \in Int,
           BackContexts(d, w, c, first)
    PROVE  /\ IsSeq(RcTreeReverse(c, first, levels, value))
           /\ \E v : /\ DistanceRead(w, v, w.distance + value)
                     /\ Reads(d, w, RcTreeReverse(c, first, levels, value), v)
  <1>0. LongestFooter \in 1 .. 30 /\ levels \in 1 .. 30 /\ levels \in 1 .. 31 /\ levels \in 0 .. 31
    <2>1. LongestFooter \in 1 .. 30
      BY DecisionCounts, Footers DEF LongestFooter
    <2> QED
      BY <2>1
  <1>1. Power(levels) \in Nat \ {0} /\ value \in Nat
    BY <1>0, PowersGrow
  <1>2. PICK g : BackNodes(g, value, levels)
    BY <1>0, <1>1, BackNodesExist
  <1> DEFINE ds == RcTreeReverse(c, first, levels, value)
             sum(k) == w.distance + (value % Power(k))
             L(k) == InFooter(w, g[k], levels - k, sum(k))
             v == [L(levels) EXCEPT !.at = "done"]
             f == [k \in 0 .. levels |-> IF k = levels THEN v ELSE L(k)]
  <1>3. /\ IsSeq(ds) /\ Len(ds) = levels
        /\ \A k \in 0 .. levels - 1 :
            ds[k + 1].context = Append(c, first + g[k]) /\ ds[k + 1].bit = Bit(value, k)
    <2>1. BackDecisions(ds, c, first, g, value, levels)
      BY <1>0, <1>1, <1>2, BackTreeIs
    <2> HIDE DEF ds
    <2> QED
      BY <2>1 DEF BackDecisions
  <1>4. w.distance \in Nat
    BY DEF WalkTypes
  <1>5. \A k \in 0 .. levels - 1 :
            /\ Bit(value, k) \in {0, 1} /\ Power(k) \in Nat \ {0}
            /\ sum(k) \in Nat /\ sum(k + 1) = sum(k) + Bit(value, k) * Power(k)
    <2> TAKE k \in 0 .. levels - 1
    <2>1. k \in 0 .. 31
      BY <1>0
    <2>2. Power(k) \in Nat \ {0}
      BY <2>1, PowersGrow
    <2>3. /\ Bit(value, k) \in {0, 1} /\ value \div Power(k) \in Nat
          /\ value % Power(k + 1) = (value % Power(k)) + Bit(value, k) * Power(k)
          /\ value % Power(k) \in 0 .. Power(k) - 1
      BY <1>1, <2>1, NextBit
    <2> DEFINE m == value % Power(k)
               n == value % Power(k + 1)
               P == Power(k)
               b == Bit(value, k)
    <2>4. b \in {0, 1} /\ P \in Nat \ {0} /\ m \in Nat /\ n = m + b * P
      BY <2>2, <2>3
    <2> HIDE DEF m, n, P, b
    <2>5. b * P \in Nat
      BY <2>4
    <2>6. w.distance + m \in Nat /\ w.distance + n = (w.distance + m) + b * P
      BY <1>4, <2>4, <2>5
    <2>7. sum(k) = w.distance + m /\ sum(k + 1) = w.distance + n
      BY DEF m, n
    <2>8. /\ sum(k) \in Nat /\ sum(k + 1) = sum(k) + b * P
      BY <2>6, <2>7
    <2> QED
      BY <2>4, <2>8 DEF P, b
  <1>6. sum(0) = w.distance /\ sum(levels) = w.distance + value
    <2>1. value % 1 = 0 /\ Power(0) = 1
      BY <1>1, PowerTable
    <2>2. value % Power(levels) = value
      <3>1. value = Power(levels) * 0 + value
        BY <1>1
      <3> QED
        BY <1>1, <3>1, QuotientUnique
    <2>3. value % Power(0) = 0
      BY <2>1
    <2>4. sum(0) = w.distance + 0 /\ sum(levels) = w.distance + value
      BY <2>2, <2>3
    <2> QED
      BY <1>4, <2>4
  <1> HIDE DEF sum
  <1>7. /\ g[0] = 1 /\ \A k \in 0 .. levels - 1 : g[k + 1] = 2 * g[k] + Bit(value, k)
        /\ \A k \in 0 .. levels : g[k] \in Power(k) .. 2 * Power(k) - 1
    BY <1>2 DEF BackNodes
  <1>8. ASSUME NEW k \in 0 .. levels - 1
        PROVE  f[k + 1] = Follow(d, f[k], ds[k + 1])
    <2> DEFINE x == g[k]
               left == levels - k
               s == sum(k)
               bit == Bit(value, k)
               z == g[k + 1]
               rest == levels - (k + 1)
               e == sum(k + 1)
    <2>1. /\ x \in Nat /\ Power(k) <= x /\ x < 2 * Power(k) /\ left \in Nat \ {0} /\ s \in Nat
          /\ k \in 0 .. LongestFooter
      <3>1. k \in 0 .. levels /\ Power(k) \in Nat /\ s \in Nat
        BY <1>5
      <3>2. x \in Power(k) .. 2 * Power(k) - 1
        BY <1>7, <3>1
      <3> HIDE DEF x, s
      <3> QED
        BY <1>0, <3>1, <3>2
    <2>2. z = 2 * x + bit /\ rest = left - 1 /\ e = s + bit * Power(k)
      BY <1>0, <1>5, <1>7
    <2>3. ds[k + 1].context = Append(c, first + x) /\ ds[k + 1].bit = bit
      BY <1>3
    <2>4. f[k] = L(k) /\ f[k + 1] = IF rest = 0 THEN [L(k + 1) EXCEPT !.at = "done"] ELSE L(k + 1)
      <3>1. /\ k \in 0 .. levels /\ k # levels /\ k + 1 \in 0 .. levels
            /\ (rest = 0 <=> k + 1 = levels)
        BY <1>0
      <3> HIDE DEF L, rest
      <3>2. f[k] = L(k)
        BY <3>1
      <3>3. f[k + 1] = IF k + 1 = levels THEN [L(levels) EXCEPT !.at = "done"] ELSE L(k + 1)
        BY <3>1
      <3> QED
        BY <3>1, <3>2, <3>3
    <2> DEFINE u1 == InFooter(w, x, left, s)
               u2 == InFooter(w, z, rest, e)
    <2>5. L(k) = u1 /\ L(k + 1) = u2
      OBVIOUS
    <2> HIDE DEF x, left, s, bit, z, rest, e, L, f, ds
    <2>6. /\ ~Done(u1) /\ u1.at = w.at /\ u1.i = x /\ u1.posSlot = w.posSlot
          /\ Took(d, u1, bit) = IF rest = 0 THEN [u2 EXCEPT !.at = "done"] ELSE u2
      <3>1. w \in WalkTypes /\ w.at \in {"SpecPos", "Align"}
        OBVIOUS
      <3> QED
        <4>1. u1.i = x
          BY DEF u1, InFooter, WalkTypes
        <4>2. BackStep(d, w, u1, bit, rest, u2)
          <5>1. x \in Nat /\ left \in Nat \ {0} /\ s \in Nat /\ k \in 0 .. LongestFooter
            BY <2>1
          <5>2. BackStep(d, w, InFooter(w, x, left, s), bit, rest, InFooter(w, z, rest, e))
            BY ONLY <2>1, <2>2, <3>1, <5>1, BackOn
          <5> QED
            BY <5>2 DEF u1, u2
        <4> QED
          BY <4>1, <4>2 DEF BackStep
    <2> HIDE DEF u1, u2
    <2>7. ContextOf(d, u1) = ds[k + 1].context
      BY <2>1, <2>3, <2>6 DEF BackContexts
    <2>8. u1.at # "lost"
      BY <2>6
    <2> QED
      BY <2>3, <2>4, <2>5, <2>6, <2>7, <2>8 DEF Follow
  <1>9. L(0) = w
    <2>1. InFooter(w, 1, levels, w.distance) = w
      BY DEF InFooter, WalkTypes
    <2>2. levels - 0 = levels
      BY <1>0
    <2> QED
      BY <1>6, <1>7, <2>1, <2>2
  <1>10. f[0] = w /\ f[levels] = v
    BY <1>0, <1>9
  <1>11. DistanceRead(w, v, w.distance + value)
    BY <1>6 DEF DistanceRead, InFooter, WalkTypes
  <1> HIDE DEF f, v, ds, L
  <1>12. \A k \in 1 .. levels : f[k] = Follow(d, f[k - 1], ds[k])
    <2> TAKE k \in 1 .. levels
    <2>1. k - 1 \in 0 .. levels - 1 /\ (k - 1) + 1 = k
      BY <1>0
    <2> QED
      BY <1>8, <2>1
  <1>13. Reads(d, w, ds, v)
    BY <1>3, <1>10, <1>12 DEF Reads
  <1> QED
    BY <1>3, <1>11, <1>13 DEF ds

(* The decoder within the bits of a distance that have no context.          *)
InDirect(w, distance, left) == [w EXCEPT !.distance = distance, !.left = left]

(* ... and behind the last of them.                                         *)
Aligned(w, distance) ==
    [w EXCEPT !.at = "Align", !.i = 1, !.left = kNumAlignBits,
              !.distance = distance * Power(kNumAlignBits)]

(* A bit without a context.                                                 *)
LEMMA DirectOn ==
    ASSUME NEW d, NEW w \in WalkTypes, w.at = "direct", NEW s \in Nat, NEW left \in Nat \ {0},
           NEW bit, NEW e, e = 2 * s + bit, NEW rest, rest = left - 1,
           NEW x, x.context = << >>, x.bit = bit
    PROVE  Follow(d, InDirect(w, s, left), x) =
                IF rest = 0 THEN Aligned(w, e) ELSE InDirect(w, e, rest)
  <1> DEFINE u == InDirect(w, s, left)
             v == InDirect(w, e, rest)
  <1>1. u.at = "direct" /\ u.left = left /\ u.distance = s
    BY DEF InDirect, WalkTypes
  <1>2. [u EXCEPT !.distance = e, !.left = rest] = v /\ v.left = rest /\ v.distance = e
    BY DEF InDirect, WalkTypes
  <1>3. [u EXCEPT !.distance = 2 * @ + bit, !.left = @ - 1]
            = [u EXCEPT !.distance = e, !.left = rest]
    <2> HIDE DEF u
    <2>1. 2 * u.distance + bit = e /\ u.left - 1 = rest
      BY <1>1
    <2> QED
      BY <2>1
  <1>4. Into([v EXCEPT !.distance = @ * 2 ^ kNumAlignBits], "Align", kNumAlignBits)
            = Aligned(w, e)
    BY DEF Into, Aligned, InDirect, WalkTypes, Power
  <1> HIDE DEF u, v
  <1>5. Took(d, u, bit) = IF rest = 0 THEN Aligned(w, e) ELSE v
    <2> DEFINE z == [u EXCEPT !.distance = 2 * @ + bit, !.left = @ - 1]
    <2>1. Took(d, u, bit) =
            Then(z, Into([z EXCEPT !.distance = @ * 2 ^ kNumAlignBits], "Align", kNumAlignBits))
      BY <1>1 DEF Took
    <2>2. z = v
      BY <1>2, <1>3
    <2> HIDE DEF z
    <2> QED
      BY <1>2, <1>4, <2>1, <2>2 DEF Then
  <1>6. ContextOf(d, u) = << >> /\ ~Done(u) /\ u.at # "lost"
    BY <1>1 DEF ContextOf, Done
  <1>7. Follow(d, u, x) = Took(d, u, bit)
    BY <1>6 DEF Follow
  <1> QED
    BY <1>5, <1>7 DEF u, v

(* The decoder reads what RangeEnc_EncodeDirectBits has coded.              *)
LEMMA DirectReads ==
    ASSUME NEW d, NEW w \in WalkTypes, w.at = "direct",
           NEW bits \in 1 .. 30, w.left = bits, NEW value \in 0 .. Power(bits) - 1
    PROVE  /\ IsSeq(DirectBits(bits, value))
           /\ Reads(d, w, DirectBits(bits, value), Aligned(w, w.distance * Power(bits) + value))
  <1> DEFINE ds == DirectBits(bits, value)
             D == w.distance
             sum(k) == D * Power(k) + (value \div Power(bits - k))
             L(k) == InDirect(w, sum(k), bits - k)
             v == Aligned(w, sum(bits))
             f == [k \in 0 .. bits |-> IF k = bits THEN v ELSE L(k)]
  <1>1. /\ bits \in 0 .. 31 /\ bits \in Nat \ {0} /\ value \in Nat /\ D \in Nat
        /\ Power(bits) \in Nat \ {0}
    <2>1. bits \in 0 .. 31 /\ bits \in Nat \ {0} /\ value \in Nat /\ D \in Nat
      BY DEF WalkTypes
    <2> QED
      BY <2>1, PowersGrow
  <1>2. ds = [i \in 1 .. bits |-> [context |-> << >>, bit |-> Bit(value, bits - i)]]
    BY DEF DirectBits
  <1>3. IsSeq(ds) /\ Len(ds) = bits
    <2>1. ds = [i \in 1 .. bits |-> ds[i]]
      BY <1>2
    <2> HIDE DEF ds
    <2> QED
      BY <1>1, <2>1, FunctionIsSeq
  <1>4. \A k \in 0 .. bits - 1 :
            ds[k + 1].context = << >> /\ ds[k + 1].bit = Bit(value, bits - (k + 1))
    <2> TAKE k \in 0 .. bits - 1
    <2>1. k + 1 \in 1 .. bits
      BY <1>1
    <2> HIDE DEF ds
    <2>2. ds[k + 1] = [context |-> << >>, bit |-> Bit(value, bits - (k + 1))]
      BY <1>2, <2>1
    <2> QED
      BY <2>2
  <1>5. \A k \in 0 .. bits - 1 :
            sum(k) \in Nat /\ sum(k + 1) = 2 * sum(k) + Bit(value, bits - (k + 1))
    <2> TAKE k \in 0 .. bits - 1
    <2> DEFINE j == bits - (k + 1)
               q == value \div Power(j + 1)
               h == value \div Power(j)
               P == Power(k)
               b == Bit(value, j)
    <2>1. j \in 0 .. 31 /\ k \in 0 .. 31 /\ j + 1 = bits - k
      BY <1>1
    <2>2. P \in Nat /\ Power(k + 1) = 2 * P /\ Power(j + 1) \in Nat \ {0}
      BY <2>1, PowersGrow
    <2> HIDE DEF j, P
    <2>3. q \in Nat
      BY <1>1, <2>2, Division
    <2>4. b \in {0, 1} /\ h = 2 * q + b
      BY <1>1, <2>1, NextBit
    <2>5. sum(k) = D * P + q /\ sum(k + 1) = D * (2 * P) + h
      BY <2>1, <2>2 DEF P, j
    <2> HIDE DEF q, h, b, D, sum
    <2>6. D * P \in Nat /\ D * (2 * P) = 2 * (D * P)
      <3>1. \A x, y \in Nat : x * y \in Nat /\ x * (2 * y) = 2 * (x * y)
        OBVIOUS
      <3> QED
        BY <1>1, <2>2, <3>1
    <2>7. sum(k) \in Nat /\ sum(k + 1) = 2 * sum(k) + b
      <3>1. \A x, y, z \in Nat : x + y \in Nat /\ 2 * x + (2 * y + z) = 2 * (x + y) + z
        OBVIOUS
      <3>2. b \in Nat
        BY <2>4
      <3>3. D * P + q \in Nat /\ 2 * (D * P) + (2 * q + b) = 2 * (D * P + q) + b
        BY ONLY <2>3, <2>6, <3>1, <3>2
      <3> QED
        BY <2>4, <2>5, <2>6, <3>3
    <2> QED
      BY <2>7 DEF b, j
  <1>6. sum(0) = D /\ sum(bits) = D * Power(bits) + value
    <2>1. value = Power(bits) * 0 + value
      BY <1>1
    <2>2. value \div Power(bits) = 0
      BY <1>1, <2>1, QuotientUnique
    <2>3. Power(0) = 1 /\ bits - 0 = bits /\ bits - bits = 0
      BY <1>1, PowerTable
    <2>4. value \div Power(bits - bits) = value
      BY <1>1, <2>3
    <2>5. value \div Power(bits - 0) = 0 /\ D * Power(0) = D
      BY <1>1, <2>2, <2>3
    <2> HIDE DEF D
    <2> QED
      BY <1>1, <2>4, <2>5
  <1> HIDE DEF sum, ds
  <1>7. L(0) = w
    <2>1. InDirect(w, D, bits) = w
      BY DEF InDirect, WalkTypes
    <2>2. bits - 0 = bits
      BY <1>1
    <2> HIDE DEF D
    <2> QED
      BY <1>6, <2>1, <2>2
  <1>8. f[0] = w /\ f[bits] = v
    BY <1>1, <1>7
  <1>9. ASSUME NEW k \in 0 .. bits - 1 PROVE f[k + 1] = Follow(d, f[k], ds[k + 1])
    <2> DEFINE s == sum(k)
               left == bits - k
               e == sum(k + 1)
               rest == bits - (k + 1)
               x == ds[k + 1]
               bit == Bit(value, bits - (k + 1))
    <2>1. s \in Nat /\ left \in Nat \ {0} /\ e = 2 * s + bit /\ rest = left - 1
      BY <1>1, <1>5
    <2>2. x.context = << >> /\ x.bit = bit
      BY <1>4
    <2>3. /\ k \in 0 .. bits /\ k # bits /\ k + 1 \in 0 .. bits /\ (rest = 0 <=> k + 1 = bits)
      BY <1>1
    <2>4. f[k] = InDirect(w, s, left)
      BY <2>3
    <2>5. f[k + 1] = IF rest = 0 THEN Aligned(w, e) ELSE InDirect(w, e, rest)
      BY <2>3
    <2> HIDE DEF s, left, e, rest, x, bit, f
    <2>6. Follow(d, InDirect(w, s, left), x) =
                IF rest = 0 THEN Aligned(w, e) ELSE InDirect(w, e, rest)
      BY ONLY w \in WalkTypes, w.at = "direct", <2>1, <2>2, DirectOn
    <2> QED
      BY <2>4, <2>5, <2>6 DEF x
  <1> HIDE DEF f, v, L
  <1>10. \A k \in 1 .. bits : f[k] = Follow(d, f[k - 1], ds[k])
    <2> TAKE k \in 1 .. bits
    <2>1. k - 1 \in 0 .. bits - 1 /\ (k - 1) + 1 = k
      BY <1>1
    <2> QED
      BY <1>9, <2>1
  <1>11. Reads(d, w, ds, v)
    BY <1>3, <1>8, <1>10 DEF Reads
  <1> QED
    BY <1>3, <1>6, <1>11 DEF ds, v, D

(* Where a slot is known: the decoder at what follows it.                   *)
SlotLeft(w, slot, label, levels, distance) ==
    [w EXCEPT !.at = label, !.i = 1, !.left = levels, !.posSlot = slot, !.distance = distance]

(* The three ways on from a slot.                                           *)
SlotWays(w, slot, y) ==
    /\ slot < kStartPosModelIndex => DistanceRead(w, y, slot)
    /\ slot >= kStartPosModelIndex /\ slot < kEndPosModelIndex =>
        y = SlotLeft(w, slot, "SpecPos", FooterBits(slot), SlotBase(slot))
    /\ slot >= kStartPosModelIndex /\ slot >= kEndPosModelIndex =>
        y = SlotLeft(w, slot, "direct", FooterBits(slot) - kNumAlignBits, 2 + (slot % 2))

(* The decoder takes the one it should.                                     *)
LEMMA SlotWay ==
    ASSUME NEW w \in WalkTypes, NEW slot \in Nat
    PROVE  SlotWays(w, slot, SlotEnds(At(w, Power(kNumPosSlotBits) + slot, 0)))
  <1> DEFINE P == Power(kNumPosSlotBits)
             u == At(w, P + slot, 0)
             v == [u EXCEPT !.posSlot = slot, !.distance = slot]
             F == FooterBits(slot)
             y == SlotEnds(u)
  <1>1. P \in Nat /\ P = 2 ^ kNumPosSlotBits
    BY Footers DEF Power
  <1> HIDE DEF P
  <1>2. u.i = P + slot
    BY DEF At, WalkTypes
  <1>3. u.i - 2 ^ kNumPosSlotBits = slot
    BY <1>1, <1>2
  <1> HIDE DEF u
  <1>4. y = IF slot < kStartPosModelIndex THEN [v EXCEPT !.at = "done"]
            ELSE IF slot < kEndPosModelIndex
            THEN Into([v EXCEPT !.distance = SlotBase(slot)], "SpecPos", F)
            ELSE Into([v EXCEPT !.distance = 2 + (slot % 2)], "direct", F - kNumAlignBits)
    BY <1>3 DEF SlotEnds
  <1>5. DistanceRead(w, [v EXCEPT !.at = "done"], slot)
    BY DEF DistanceRead, u, At, WalkTypes
  <1> DEFINE a == SlotBase(slot)
             b == 2 + (slot % 2)
             l == F - kNumAlignBits
  <1> HIDE DEF a, b, l, F
  <1>6. /\ Into([v EXCEPT !.distance = a], "SpecPos", F) = SlotLeft(w, slot, "SpecPos", F, a)
        /\ Into([v EXCEPT !.distance = b], "direct", l) = SlotLeft(w, slot, "direct", l, b)
    BY DEF SlotLeft, Into, u, At, WalkTypes
  <1>7. slot \in Nat /\ kEndPosModelIndex \in Nat /\ kStartPosModelIndex = 4
    BY Footers DEF kStartPosModelIndex
  <1> HIDE DEF v, y
  <1>8. /\ slot < kStartPosModelIndex => y = [v EXCEPT !.at = "done"]
        /\ slot >= kStartPosModelIndex /\ slot < kEndPosModelIndex =>
            y = Into([v EXCEPT !.distance = a], "SpecPos", F)
        /\ slot >= kStartPosModelIndex /\ slot >= kEndPosModelIndex =>
            y = Into([v EXCEPT !.distance = b], "direct", l)
    BY <1>4, <1>7 DEF a, b, l
  <1>9. /\ slot < kStartPosModelIndex => DistanceRead(w, y, slot)
        /\ slot >= kStartPosModelIndex /\ slot < kEndPosModelIndex =>
                    y = SlotLeft(w, slot, "SpecPos", F, a)
        /\ slot >= kStartPosModelIndex /\ slot >= kEndPosModelIndex =>
                    y = SlotLeft(w, slot, "direct", l, b)
    BY <1>5, <1>6, <1>8
  <1>10. SlotWays(w, slot, y)
    BY <1>9 DEF SlotWays, F, a, b, l
  <1> QED
    BY <1>10 DEF y, u, P

(* The decoder reads a slot.                                                *)
LEMMA SlotReads ==
    ASSUME NEW d, NEW w \in WalkTypes, w.at = "PosSlot", w.i = 1, w.left = kNumPosSlotBits,
           NEW len \in Nat, w.len = len - LZMA_MATCH_LEN_MIN,
           NEW slot \in 0 .. Power(kNumPosSlotBits) - 1
    PROVE  LET ds == RcTree(<<"PosSlot", LenToPosState(len)>>, kNumPosSlotBits, slot)
           IN  /\ IsSeq(ds)
               /\ Reads(d, w, ds, SlotEnds(At(w, Power(kNumPosSlotBits) + slot, 0)))
  <1> DEFINE c == <<"PosSlot", LenToPosState(len)>>
             ds == RcTree(c, kNumPosSlotBits, slot)
             y == At(w, Power(kNumPosSlotBits) + slot, 0)
  <1>1. w.at \in PlainTrees /\ kNumPosSlotBits \in 1 .. 31
    BY DecisionCounts DEF PlainTrees
  <1>2. ASSUME NEW x, Like(x, w) PROVE ContextOf(d, x) = Append(c, x.i)
    <2>1. x.at = "PosSlot" /\ x.len = len - 2
      BY <1>2 DEF Like, LZMA_MATCH_LEN_MIN
    <2>2. (IF x.len < kNumLenToPosStates THEN x.len ELSE kNumLenToPosStates - 1)
            = LenToPosState(len)
      <3>1. x.len \in Nat /\ len \in Nat
        BY <1>2 DEF Like, WalkTypes
      <3> QED
        BY <2>1, <3>1 DEF LenToPosState, kNumLenToPosStates
    <2> DEFINE e == LenToPosState(len)
               n == x.i
    <2> HIDE DEF e, n
    <2>3. Append(<<"PosSlot", e>>, n) = <<"PosSlot", e, n>>
      <3>1. /\ Append(<<"PosSlot">>, n) = <<"PosSlot", n>>
            /\ Append(<<"PosSlot", e>>, n) = <<"PosSlot", e, n>>
            /\ Append(<<"PosSlot", e, e>>, n) = <<"PosSlot", e, e, n>>
        BY AppendedTuples
      <3> QED
        BY <3>1
    <2> QED
      BY <2>1, <2>2, <2>3 DEF ContextOf, e, n
  <1> HIDE DEF c
  <1>3. /\ IsSeq(ds)
        /\ \E x, bit : /\ Like(x, w) /\ Deeper(x, bit) = y
                       /\ Reads(d, w, ds, Took(d, x, bit))
    BY <1>1, <1>2, PlainTreeReads
  <1>4. PICK x, bit : /\ Like(x, w) /\ Deeper(x, bit) = y
                      /\ Reads(d, w, ds, Took(d, x, bit))
    BY <1>3
  <1>5. y.left = 0
    BY DEF At, WalkTypes
  <1>6. Took(d, x, bit) = Then(Deeper(x, bit), SlotEnds(Deeper(x, bit)))
    BY <1>4 DEF Took, Like
  <1>7. Took(d, x, bit) = SlotEnds(y)
    BY <1>4, <1>5, <1>6 DEF Then
  <1> QED
    BY <1>3, <1>4, <1>7 DEF ds, y, c

(* What was read of two sequences is read of both.                          *)
LEMMA ReadsBoth ==
    ASSUME NEW d, NEW w, NEW s, IsSeq(s), NEW v, Reads(d, w, s, v),
           NEW t, IsSeq(t), NEW u, Reads(d, v, t, u)
    PROVE  Reads(d, w, s \o t, u) /\ IsSeq(s \o t)
  BY ReadsOn, Joined

(* Nothing more to read.                                                    *)
LEMMA NothingMore ==
    ASSUME NEW s, IsSeq(s)
    PROVE  s \o << >> = s
  <1>1. PICK S : s \in Seq(S)
    BY DEF IsSeq
  <1> QED
    BY <1>1

(* A distance with some bits that have no context, and others that have.    *)
LEMMA SplitBits ==
    ASSUME NEW F \in 1 .. 30, NEW A \in 1 .. 30, F - A \in 1 .. 30,
           NEW value \in 0 .. Power(F) - 1, NEW top \in Nat
    PROVE  /\ value \div Power(A) \in 0 .. Power(F - A) - 1
           /\ value % Power(A) \in 0 .. Power(A) - 1
           /\ (top * Power(F - A) + (value \div Power(A))) * Power(A) + (value % Power(A))
                = top * Power(F) + value
  <1> DEFINE P == Power(A)
             Q == Power(F - A)
             h == value \div P
             l == value % P
  <1>0. value \in Nat
    OBVIOUS
  <1>1. P \in Nat \ {0} /\ Q \in Nat \ {0} /\ Power(F) = Q * P
    <2>1. F - A \in 0 .. 32 /\ A \in 0 .. 32 /\ (F - A) + A <= 32 /\ (F - A) + A = F
      OBVIOUS
    <2> QED
      BY <2>1, PowerOfSum, PowersNatural
  <1>2. value \in 0 .. Q * P - 1
    BY <1>1
  <1> HIDE DEF P, Q
  <1>3. h \in Nat /\ l \in 0 .. P - 1 /\ value = P * h + l
    BY <1>0, <1>1, Division
  <1> HIDE DEF h, l
  <1>4. P * h <= value
    <2>1. P * h \in Nat
      BY <1>1, <1>3
    <2> QED
      BY <1>0, <1>1, <1>3, <2>1
  <1>5. h < Q
    <2> SUFFICES ASSUME Q <= h PROVE FALSE
      BY <1>1, <1>3
    <2>1. P * Q <= P * h
      <3>1. \A x, y, z \in Nat : x <= y => z * x <= z * y
        OBVIOUS
      <3> QED
        BY <1>1, <1>3, <3>1
    <2>2. P * Q = Q * P /\ Q * P \in Nat
      <3>1. \A x, y \in Nat : x * y = y * x /\ x * y \in Nat
        OBVIOUS
      <3> QED
        BY <1>1, <3>1
    <2>3. P * h \in Nat
      BY <1>1, <1>3
    <2> QED
      BY <1>2, <1>4, <2>1, <2>2, <2>3
  <1>6. (top * Q + h) * P + l = top * (Q * P) + value
    <2>1. \A a, b, c, x, y \in Nat : (a * b + x) * c + y = a * (b * c) + (c * x + y)
      OBVIOUS
    <2> QED
      BY <1>1, <1>3, <2>1
  <1> QED
    BY <1>1, <1>3, <1>5, <1>6 DEF h, l, P, Q

(* The parts of a distance's code.                                          *)
SlotCode(len, slot) == RcTree(<<"PosSlot", LenToPosState(len)>>, kNumPosSlotBits, slot)
SpecCode(slot, rest) == RcTreeReverse(<<"SpecPos">>, SpecPos(slot), FooterBits(slot), rest)
AlignCode(rest) ==
    RcTreeReverse(<<"Align">>, 0, kNumAlignBits, rest % Power(kNumAlignBits))
TopCode(slot, rest) ==
    DirectBits(FooterBits(slot) - kNumAlignBits, rest \div Power(kNumAlignBits))

(* Which of them there are.                                                 *)
LEMMA DistanceCodeIs ==
    ASSUME NEW distance, NEW len, NEW slot, slot = GetPosSlot(distance), slot \in Nat
    PROVE  /\ slot < kStartPosModelIndex =>
                DistanceCode(distance, len) = SlotCode(len, slot) \o << >>
           /\ slot >= kStartPosModelIndex /\ slot < kEndPosModelIndex =>
                DistanceCode(distance, len) =
                    SlotCode(len, slot) \o SpecCode(slot, distance - SlotBase(slot))
           /\ slot >= kStartPosModelIndex /\ slot >= kEndPosModelIndex =>
                DistanceCode(distance, len) =
                    SlotCode(len, slot) \o (TopCode(slot, distance - SlotBase(slot))
                                            \o AlignCode(distance - SlotBase(slot)))
  <1>1. kStartPosModelIndex = 4 /\ kEndPosModelIndex \in Nat
    BY Footers DEF kStartPosModelIndex
  <1> DEFINE rest == distance - SlotBase(slot)
  <1>2. DistanceCode(distance, len) = SlotCode(len, slot)
            \o (IF slot < kStartPosModelIndex THEN << >>
                ELSE IF slot < kEndPosModelIndex THEN SpecCode(slot, rest)
                ELSE TopCode(slot, rest) \o AlignCode(rest))
    BY DEF DistanceCode, SlotCode, SpecCode, TopCode, AlignCode, Power
  <1> HIDE DEF rest
  <1>3. (slot >= kStartPosModelIndex => ~(slot < kStartPosModelIndex))
        /\ (slot >= kEndPosModelIndex => ~(slot < kEndPosModelIndex))
    BY <1>1
  <1>4. /\ slot < kStartPosModelIndex =>
                DistanceCode(distance, len) = SlotCode(len, slot) \o << >>
        /\ slot >= kStartPosModelIndex /\ slot < kEndPosModelIndex =>
                DistanceCode(distance, len) = SlotCode(len, slot) \o SpecCode(slot, rest)
        /\ slot >= kStartPosModelIndex /\ slot >= kEndPosModelIndex =>
                DistanceCode(distance, len) =
                    SlotCode(len, slot) \o (TopCode(slot, rest) \o AlignCode(rest))
    BY <1>2, <1>3
  <1> QED
    BY <1>4 DEF rest

(* What follows a slot, of those that have all their bits in contexts, ...  *)
LEMMA SpecReads ==
    ASSUME NEW d, NEW w \in WalkTypes,
           NEW slot \in kStartPosModelIndex .. Power(kNumPosSlotBits) - 1,
           slot < kEndPosModelIndex, NEW value \in 0 .. Power(FooterBits(slot)) - 1
    PROVE  /\ IsSeq(SpecCode(slot, value))
           /\ \E v : /\ DistanceRead(w, v, SlotBase(slot) + value)
                     /\ Reads(d, SlotLeft(w, slot, "SpecPos", FooterBits(slot), SlotBase(slot)),
                              SpecCode(slot, value), v)
  <1> DEFINE F == FooterBits(slot)
             base == SlotBase(slot)
             first == SpecPos(slot)
             u == SlotLeft(w, slot, "SpecPos", F, base)
             c == <<"SpecPos">>
  <1>1. F \in 1 .. LongestFooter /\ base \in Nat /\ slot \in Nat /\ first \in Int
    <2>1. slot \in Nat
      BY DEF kStartPosModelIndex
    <2>2. FooterBits(slot) \in 1 .. MostDirects + kNumAlignBits /\ SlotBase(slot) \in Nat
      BY Footers
    <2> QED
      BY <2>1, <2>2 DEF LongestFooter, SpecPos
  <1>2. F \in Nat
    <2>1. LongestFooter \in 1 .. 30
      BY DecisionCounts, Footers DEF LongestFooter
    <2> QED
      BY <1>1, <2>1
  <1> HIDE DEF F, base
  <1>3. /\ u \in WalkTypes /\ u.at = "SpecPos" /\ u.i = 1 /\ u.left = F
        /\ u.posSlot = slot /\ u.distance = base /\ u.kind = w.kind /\ u.len = w.len
    BY <1>1, <1>2 DEF SlotLeft, WalkTypes
  <1> HIDE DEF u
  <1>4. BackContexts(d, u, c, first)
    <2> SUFFICES ASSUME NEW x, x.at = u.at, x.posSlot = u.posSlot, x.i \in Nat
                 PROVE  ContextOf(d, x) = Append(c, first + x.i)
      BY DEF BackContexts
    <2>1. ContextOf(d, x) = <<"SpecPos", SpecPos(slot) + x.i>>
      BY <1>3 DEF ContextOf
    <2> DEFINE n == SpecPos(slot) + x.i
    <2> HIDE DEF n
    <2>2. Append(<<"SpecPos">>, n) = <<"SpecPos", n>>
      <3>1. /\ Append(<<"SpecPos">>, n) = <<"SpecPos", n>>
            /\ Append(<<"SpecPos", n>>, n) = <<"SpecPos", n, n>>
            /\ Append(<<"SpecPos", n, n>>, n) = <<"SpecPos", n, n, n>>
        BY AppendedTuples
      <3> QED
        BY <3>1
    <2> QED
      BY <2>1, <2>2 DEF n
  <1> HIDE DEF c, first
  <1>5. SpecCode(slot, value) = RcTreeReverse(c, first, F, value)
    BY DEF SpecCode, c, first, F
  <1>6. value \in 0 .. Power(F) - 1
    BY DEF F
  <1>7. /\ IsSeq(RcTreeReverse(c, first, F, value))
        /\ \E v : /\ DistanceRead(u, v, u.distance + value)
                  /\ Reads(d, u, RcTreeReverse(c, first, F, value), v)
    <2>1. u.at \in {"SpecPos", "Align"}
      BY <1>3
    <2> QED
      BY <1>1, <1>3, <1>4, <1>6, <2>1, BackTreeReads
  <1>8. PICK v : /\ DistanceRead(u, v, base + value)
                 /\ Reads(d, u, RcTreeReverse(c, first, F, value), v)
    BY <1>3, <1>7
  <1>9. DistanceRead(w, v, base + value)
    BY <1>3, <1>8 DEF DistanceRead
  <1>10. /\ IsSeq(SpecCode(slot, value)) /\ Reads(d, u, SpecCode(slot, value), v)
    BY <1>5, <1>7, <1>8
  <1> QED
    BY <1>9, <1>10 DEF u, base, F

(* ... and of the others.                                                   *)
LEMMA TopReads ==
    ASSUME NEW d, NEW w \in WalkTypes,
           NEW slot \in kStartPosModelIndex .. Power(kNumPosSlotBits) - 1,
           slot >= kEndPosModelIndex, NEW value \in 0 .. Power(FooterBits(slot)) - 1
    PROVE  /\ IsSeq(TopCode(slot, value) \o AlignCode(value))
           /\ \E v : /\ DistanceRead(w, v, SlotBase(slot) + value)
                     /\ Reads(d, SlotLeft(w, slot, "direct", FooterBits(slot) - kNumAlignBits,
                                          2 + (slot % 2)),
                              TopCode(slot, value) \o AlignCode(value), v)
  <1> DEFINE F == FooterBits(slot)
             n == F - kNumAlignBits
             base == SlotBase(slot)
             top == 2 + (slot % 2)
             hi == value \div Power(kNumAlignBits)
             lo == value % Power(kNumAlignBits)
             u == SlotLeft(w, slot, "direct", n, top)
             x == Aligned(u, top * Power(n) + hi)
             c == <<"Align">>
  <1>0. slot \in Nat /\ kNumAlignBits \in 1 .. 30
    BY DecisionCounts DEF kStartPosModelIndex
  <1>1. /\ F \in 1 .. 30 /\ n \in 1 .. 30 /\ kNumAlignBits \in 1 .. LongestFooter
        /\ base = top * Power(F) /\ top \in Nat
    <2>1. /\ FooterBits(slot) \in 1 .. MostDirects + kNumAlignBits
          /\ FooterBits(slot) - kNumAlignBits \in 1 .. MostDirects
          /\ MostDirects + kNumAlignBits <= 30
      BY Footers
    <2>2. SlotBase(slot) = (2 + (slot % 2)) * Power(FooterBits(slot))
      BY DEF SlotBase, Power
    <2>3. MostDirects \in 1 .. 30
      BY DecisionCounts
    <2> QED
      BY <1>0, <2>1, <2>2, <2>3 DEF LongestFooter
  <1>2. /\ hi \in 0 .. Power(n) - 1 /\ lo \in 0 .. Power(kNumAlignBits) - 1
        /\ (top * Power(n) + hi) * Power(kNumAlignBits) + lo = top * Power(F) + value
    <2>1. F \in 1 .. 30 /\ F - kNumAlignBits \in 1 .. 30 /\ value \in 0 .. Power(F) - 1
      BY <1>1
    <2> HIDE DEF F, top
    <2> QED
      BY <1>0, <1>1, <2>1, SplitBits
  <1>3. /\ TopCode(slot, value) = DirectBits(n, hi)
        /\ AlignCode(value) = RcTreeReverse(c, 0, kNumAlignBits, lo)
    BY DEF TopCode, AlignCode
  <1>3a. /\ Power(n) \in Nat /\ hi \in Nat /\ top * Power(n) + hi \in Nat
         /\ Power(kNumAlignBits) \in Nat
    <2>1. Power(n) \in Nat /\ Power(kNumAlignBits) \in Nat
      <3>1. n \in 0 .. 32 /\ kNumAlignBits \in 0 .. 32
        BY <1>0, <1>1
      <3> HIDE DEF n
      <3> QED
        BY <3>1, PowersNatural
    <2> HIDE DEF top, hi, n
    <2>2. hi \in Nat
      BY <1>2
    <2> QED
      BY <1>1, <2>1, <2>2
  <1> HIDE DEF F, n, base, top, hi, lo
  <1>4. /\ u \in WalkTypes /\ u.at = "direct" /\ u.left = n
        /\ u.distance = top /\ u.kind = w.kind /\ u.len = w.len
    <2>1. n \in Nat
      BY <1>1
    <2> QED
      BY <1>0, <1>1, <2>1 DEF SlotLeft, WalkTypes
  <1> HIDE DEF u
  <1>5. IsSeq(DirectBits(n, hi)) /\ Reads(d, u, DirectBits(n, hi), x)
    BY <1>1, <1>2, <1>4, DirectReads
  <1> DEFINE e == (top * Power(n) + hi) * Power(kNumAlignBits)
  <1>6. e \in Nat
    BY <1>3a
  <1>7. /\ x \in WalkTypes /\ x.at = "Align" /\ x.i = 1 /\ x.left = kNumAlignBits
        /\ x.distance = e /\ x.kind = w.kind /\ x.len = w.len
    <2> DEFINE t == top * Power(n) + hi
               z == [u EXCEPT !.at = "Align", !.i = 1, !.left = kNumAlignBits, !.distance = e]
    <2>1. x = z
      BY DEF Aligned
    <2> HIDE DEF e, x
    <2>2. z \in WalkTypes
      <3>1. kNumAlignBits \in Nat /\ u \in WalkTypes /\ e \in Nat
        BY <1>0, <1>4, <1>6
      <3> QED
        BY ONLY <3>1 DEF WalkTypes, z
    <2>3. /\ z.at = "Align" /\ z.i = 1 /\ z.left = kNumAlignBits
          /\ z.distance = e /\ z.kind = u.kind /\ z.len = u.len
      BY <1>4 DEF WalkTypes
    <2> QED
      BY <1>4, <2>1, <2>2, <2>3
  <1> HIDE DEF x, e
  <1>8. BackContexts(d, x, c, 0)
    <2> SUFFICES ASSUME NEW y, y.at = x.at, y.posSlot = x.posSlot, y.i \in Nat
                 PROVE  ContextOf(d, y) = Append(c, 0 + y.i)
      BY DEF BackContexts
    <2> DEFINE i == y.i
    <2>1. ContextOf(d, y) = <<"Align", i>> /\ 0 + i = i
      BY <1>7 DEF ContextOf
    <2> HIDE DEF i
    <2>2. Append(<<"Align">>, i) = <<"Align", i>>
      <3>1. /\ Append(<<"Align">>, i) = <<"Align", i>>
            /\ Append(<<"Align", i>>, i) = <<"Align", i, i>>
            /\ Append(<<"Align", i, i>>, i) = <<"Align", i, i, i>>
        BY AppendedTuples
      <3> QED
        BY <3>1
    <2> QED
      BY <2>1, <2>2 DEF i
  <1> HIDE DEF c
  <1>9. /\ IsSeq(RcTreeReverse(c, 0, kNumAlignBits, lo))
        /\ \E v : /\ DistanceRead(x, v, x.distance + lo)
                  /\ Reads(d, x, RcTreeReverse(c, 0, kNumAlignBits, lo), v)
    <2>1. x.at \in {"SpecPos", "Align"} /\ 0 \in Int
      BY <1>7
    <2> QED
      BY <1>1, <1>2, <1>7, <1>8, <2>1, BackTreeReads
  <1>10. PICK v : /\ DistanceRead(x, v, e + lo)
                  /\ Reads(d, x, RcTreeReverse(c, 0, kNumAlignBits, lo), v)
    BY <1>7, <1>9
  <1>11. DistanceRead(w, v, base + value)
    <2>1. e + lo = base + value
      BY <1>1, <1>2 DEF e
    <2> QED
      BY <1>7, <1>10, <2>1 DEF DistanceRead
  <1>12. /\ Reads(d, u, DirectBits(n, hi) \o RcTreeReverse(c, 0, kNumAlignBits, lo), v)
         /\ IsSeq(DirectBits(n, hi) \o RcTreeReverse(c, 0, kNumAlignBits, lo))
    BY <1>5, <1>9, <1>10, ReadsBoth
  <1>13. /\ Reads(d, u, TopCode(slot, value) \o AlignCode(value), v)
         /\ IsSeq(TopCode(slot, value) \o AlignCode(value))
    BY <1>3, <1>12
  <1> QED
    BY <1>11, <1>13 DEF u, base, n, F, top

(* What is read of a distance.                                              *)
ReadsDistance(d, w, ds, distance) ==
    IsSeq(ds) /\ \E v : DistanceRead(w, v, distance) /\ Reads(d, w, ds, v)

(* The decoder reads the distance that LzmaEnc_CodeOneBlock has coded.      *)
LEMMA DistanceReads ==
    ASSUME NEW d, NEW w \in WalkTypes, w.at = "PosSlot", w.i = 1, w.left = kNumPosSlotBits,
           NEW len \in Nat, w.len = len - LZMA_MATCH_LEN_MIN,
           NEW distance \in 0 .. EndDistance
    PROVE  ReadsDistance(d, w, DistanceCode(distance, len), distance)
  <1> DEFINE slot == GetPosSlot(distance)
             rest == distance - SlotBase(slot)
             y == SlotEnds(At(w, Power(kNumPosSlotBits) + slot, 0))
             code == SlotCode(len, slot)
             all == DistanceCode(distance, len)
  <1>1. /\ slot \in 0 .. Power(kNumPosSlotBits) - 1 /\ slot \in Nat
        /\ slot < kStartPosModelIndex => slot = distance
        /\ slot >= kStartPosModelIndex =>
            rest \in 0 .. Power(FooterBits(slot)) - 1 /\ SlotBase(slot) \in Nat
    BY SlotOf
  <1>2. kStartPosModelIndex = 4 /\ kEndPosModelIndex \in Nat /\ Power(kNumPosSlotBits) \in Nat
    BY Footers DEF kStartPosModelIndex
  <1>3. /\ slot < kStartPosModelIndex => all = code \o << >>
        /\ slot >= kStartPosModelIndex /\ slot < kEndPosModelIndex =>
                all = code \o SpecCode(slot, rest)
        /\ slot >= kStartPosModelIndex /\ slot >= kEndPosModelIndex =>
                all = code \o (TopCode(slot, rest) \o AlignCode(rest))
    BY <1>1, DistanceCodeIs
  <1> HIDE DEF slot, rest, all
  <1>4. IsSeq(code) /\ Reads(d, w, code, y)
    BY <1>1, SlotReads DEF SlotCode
  <1>5. SlotWays(w, slot, y)
    BY <1>1, SlotWay
  <1> HIDE DEF code, y
  <1>6. CASE slot < kStartPosModelIndex
    <2>1. all = code
      BY <1>3, <1>4, <1>6, NothingMore
    <2>2. DistanceRead(w, y, distance)
      BY <1>1, <1>5, <1>6 DEF SlotWays
    <2> QED
      BY <1>4, <2>1, <2>2 DEF ReadsDistance, all
  <1>7. CASE slot >= kStartPosModelIndex /\ slot < kEndPosModelIndex
    <2> DEFINE ds == SpecCode(slot, rest)
    <2>1. /\ slot \in kStartPosModelIndex .. Power(kNumPosSlotBits) - 1
          /\ SlotBase(slot) + rest = distance /\ rest \in 0 .. Power(FooterBits(slot)) - 1
      BY <1>1, <1>2, <1>7 DEF rest
    <2>2. y = SlotLeft(w, slot, "SpecPos", FooterBits(slot), SlotBase(slot))
      BY <1>5, <1>7 DEF SlotWays
    <2>3. IsSeq(ds) /\ \E v : DistanceRead(w, v, distance) /\ Reads(d, y, ds, v)
      <3>1. /\ IsSeq(SpecCode(slot, rest))
            /\ \E v : /\ DistanceRead(w, v, SlotBase(slot) + rest)
                      /\ Reads(d, SlotLeft(w, slot, "SpecPos", FooterBits(slot), SlotBase(slot)),
                               SpecCode(slot, rest), v)
        BY <1>7, <2>1, SpecReads
      <3> QED
        BY <2>1, <2>2, <3>1
    <2>4. PICK v : DistanceRead(w, v, distance) /\ Reads(d, y, ds, v)
      BY <2>3
    <2>5. Reads(d, w, code \o ds, v) /\ IsSeq(code \o ds)
      <3> HIDE DEF ds
      <3> QED
        BY <1>4, <2>3, <2>4, ReadsBoth
    <2>6. all = code \o ds
      BY <1>3, <1>7
    <2> QED
      BY <2>4, <2>5, <2>6 DEF ReadsDistance, all
  <1>8. CASE slot >= kStartPosModelIndex /\ slot >= kEndPosModelIndex
    <2> DEFINE ds == TopCode(slot, rest) \o AlignCode(rest)
    <2>1. /\ slot \in kStartPosModelIndex .. Power(kNumPosSlotBits) - 1
          /\ SlotBase(slot) + rest = distance /\ rest \in 0 .. Power(FooterBits(slot)) - 1
      BY <1>1, <1>2, <1>8 DEF rest
    <2>2. y = SlotLeft(w, slot, "direct", FooterBits(slot) - kNumAlignBits, 2 + (slot % 2))
      BY <1>5, <1>8 DEF SlotWays
    <2>3. IsSeq(ds) /\ \E v : DistanceRead(w, v, distance) /\ Reads(d, y, ds, v)
      <3>1. /\ IsSeq(TopCode(slot, rest) \o AlignCode(rest))
            /\ \E v : /\ DistanceRead(w, v, SlotBase(slot) + rest)
                      /\ Reads(d, SlotLeft(w, slot, "direct", FooterBits(slot) - kNumAlignBits,
                                           2 + (slot % 2)),
                               TopCode(slot, rest) \o AlignCode(rest), v)
        BY <1>8, <2>1, TopReads
      <3> QED
        BY <2>1, <2>2, <3>1
    <2>4. PICK v : DistanceRead(w, v, distance) /\ Reads(d, y, ds, v)
      BY <2>3
    <2>5. Reads(d, w, code \o ds, v) /\ IsSeq(code \o ds)
      <3> HIDE DEF ds
      <3> QED
        BY <1>4, <2>3, <2>4, ReadsBoth
    <2>6. all = code \o ds
      BY <1>3, <1>8
    <2> QED
      BY <2>4, <2>5, <2>6 DEF ReadsDistance, all
  <1> QED
    BY <1>1, <1>2, <1>6, <1>7, <1>8

(* The decoder before one of the flags that a symbol begins with.           *)
AtFlag(label) == [WalkStart EXCEPT !.at = label]

FlagContext(d, label) ==
    IF label \in {"IsMatch", "IsRep0Long"} THEN <<label, d.state, PosState(d.pos)>>
    ELSE <<label, d.state>>

FlagCode(d, label, b) == <<[context |-> FlagContext(d, label), bit |-> b]>>

(* What it knows there.                                                     *)
LEMMA FlagIs ==
    ASSUME NEW label \in FlagLabels
    PROVE  /\ AtFlag(label) \in WalkTypes /\ AtFlag(label).at = label
           /\ AtFlag(label).kind = "literal" /\ AtFlag(label).coder = "Len"
           /\ ~Done(AtFlag(label))
  <1>1. 0 \in 0 .. LengthSymbols - 1
    BY SymbolSizes DEF LengthSymbols
  <1>2. WalkStart \in WalkTypes /\ WalkStart.kind = "literal" /\ WalkStart.coder = "Len"
    BY <1>1 DEF WalkStart, WalkTypes
  <1> QED
    BY <1>2 DEF AtFlag, WalkTypes, FlagLabels, Done

(* It reads a flag in the context it was coded in.                          *)
LEMMA FlagReads ==
    ASSUME NEW d, NEW label \in FlagLabels, NEW b
    PROVE  /\ Reads(d, AtFlag(label), FlagCode(d, label, b), Took(d, AtFlag(label), b))
           /\ IsSeq(FlagCode(d, label, b))
  <1> DEFINE w == AtFlag(label)
             c == FlagContext(d, label)
  <1>1. w \in WalkTypes /\ w.at = label /\ ~Done(w)
    BY FlagIs
  <1>2. ContextOf(d, w) = c
    BY <1>1 DEF ContextOf, FlagContext, FlagLabels
  <1> HIDE DEF w, c
  <1>3. /\ Reads(d, w, <<[context |-> c, bit |-> b]>>, Took(d, w, b))
        /\ IsSeq(<<[context |-> c, bit |-> b]>>)
    BY <1>1, <1>2, ReadsFlag
  <1> QED
    BY <1>3 DEF FlagCode, w, c

(* Where the flags lead.                                                    *)
LEMMA FlagLeads ==
    ASSUME NEW d
    PROVE  /\ AtFlag("IsMatch") = WalkStart
           /\ Took(d, AtFlag("IsMatch"), 0)
                = Into([AtFlag("IsMatch") EXCEPT !.offs = AfterChar(d)], "literal", NumLitBits)
           /\ Took(d, AtFlag("IsMatch"), 1) = AtFlag("IsRep")
           /\ Took(d, AtFlag("IsRep"), 0)
                = [AtFlag("IsRep") EXCEPT !.at = "choice", !.kind = "match"]
           /\ Took(d, AtFlag("IsRep"), 1) = AtFlag("IsRepG0")
           /\ Took(d, AtFlag("IsRepG0"), 0) = AtFlag("IsRep0Long")
           /\ Took(d, AtFlag("IsRepG0"), 1) = AtFlag("IsRepG1")
           /\ Took(d, AtFlag("IsRep0Long"), 0)
                = [AtFlag("IsRep0Long") EXCEPT !.at = "done", !.kind = "short"]
           /\ Took(d, AtFlag("IsRep0Long"), 1) = RepLength(AtFlag("IsRep0Long"), 0)
           /\ Took(d, AtFlag("IsRepG1"), 0) = RepLength(AtFlag("IsRepG1"), 1)
           /\ Took(d, AtFlag("IsRepG1"), 1) = AtFlag("IsRepG2")
           /\ \A b : Took(d, AtFlag("IsRepG2"), b) = RepLength(AtFlag("IsRepG2"), 2 + b)
  <1>1. \A label \in FlagLabels : AtFlag(label).at = label
    BY FlagIs
  <1>2. /\ AtFlag("IsMatch").at = "IsMatch" /\ AtFlag("IsRep").at = "IsRep"
        /\ AtFlag("IsRepG0").at = "IsRepG0" /\ AtFlag("IsRepG1").at = "IsRepG1"
        /\ AtFlag("IsRepG2").at = "IsRepG2" /\ AtFlag("IsRep0Long").at = "IsRep0Long"
    BY <1>1 DEF FlagLabels
  <1>3. AtFlag("IsMatch") = WalkStart
    BY DEF AtFlag, WalkStart
  <1>4. /\ [AtFlag("IsMatch") EXCEPT !.at = "IsRep"] = AtFlag("IsRep")
        /\ [AtFlag("IsRep") EXCEPT !.at = "IsRepG0"] = AtFlag("IsRepG0")
        /\ [AtFlag("IsRepG0") EXCEPT !.at = "IsRep0Long"] = AtFlag("IsRep0Long")
        /\ [AtFlag("IsRepG0") EXCEPT !.at = "IsRepG1"] = AtFlag("IsRepG1")
        /\ [AtFlag("IsRepG1") EXCEPT !.at = "IsRepG2"] = AtFlag("IsRepG2")
    BY DEF AtFlag, WalkStart
  <1>5. /\ Took(d, AtFlag("IsMatch"), 0)
                = Into([AtFlag("IsMatch") EXCEPT !.offs = AfterChar(d)], "literal", NumLitBits)
        /\ Took(d, AtFlag("IsMatch"), 1) = [AtFlag("IsMatch") EXCEPT !.at = "IsRep"]
    <2> DEFINE w == AtFlag("IsMatch")
    <2>0. w.at = "IsMatch"
      BY <1>2
    <2> HIDE DEF w
    <2>1. Took(d, w, 0) = Into([w EXCEPT !.offs = AfterChar(d)], "literal", NumLitBits)
      BY <2>0 DEF Took, AfterChar
    <2>2. Took(d, w, 1) = [w EXCEPT !.at = "IsRep"]
      BY <2>0 DEF Took, AfterChar
    <2> QED
      BY <2>1, <2>2 DEF w
  <1>6. /\ Took(d, AtFlag("IsRep"), 0)
                = [[AtFlag("IsRep") EXCEPT !.at = "choice"] EXCEPT !.kind = "match"]
        /\ Took(d, AtFlag("IsRep"), 1) = [AtFlag("IsRep") EXCEPT !.at = "IsRepG0"]
    <2> DEFINE w == AtFlag("IsRep")
    <2>0. w.at = "IsRep"
      BY <1>2
    <2> HIDE DEF w
    <2>1. Took(d, w, 0) = [[w EXCEPT !.at = "choice"] EXCEPT !.kind = "match"]
      BY <2>0 DEF Took, AfterChar
    <2>2. Took(d, w, 1) = [w EXCEPT !.at = "IsRepG0"]
      BY <2>0 DEF Took, AfterChar
    <2> QED
      BY <2>1, <2>2 DEF w
  <1>7. [[AtFlag("IsRep") EXCEPT !.at = "choice"] EXCEPT !.kind = "match"]
            = [AtFlag("IsRep") EXCEPT !.at = "choice", !.kind = "match"]
    BY DEF AtFlag, WalkStart
  <1>8. /\ Took(d, AtFlag("IsRepG0"), 0) = [AtFlag("IsRepG0") EXCEPT !.at = "IsRep0Long"]
        /\ Took(d, AtFlag("IsRepG0"), 1) = [AtFlag("IsRepG0") EXCEPT !.at = "IsRepG1"]
    <2> DEFINE w == AtFlag("IsRepG0")
    <2>0. w.at = "IsRepG0"
      BY <1>2
    <2> HIDE DEF w
    <2>1. Took(d, w, 0) = [w EXCEPT !.at = "IsRep0Long"]
      BY <2>0 DEF Took, AfterChar
    <2>2. Took(d, w, 1) = [w EXCEPT !.at = "IsRepG1"]
      BY <2>0 DEF Took, AfterChar
    <2> QED
      BY <2>1, <2>2 DEF w
  <1>9. /\ Took(d, AtFlag("IsRep0Long"), 0)
                = [[AtFlag("IsRep0Long") EXCEPT !.at = "done"] EXCEPT !.kind = "short"]
        /\ Took(d, AtFlag("IsRep0Long"), 1) = RepLength(AtFlag("IsRep0Long"), 0)
    <2> DEFINE w == AtFlag("IsRep0Long")
    <2>0. w.at = "IsRep0Long"
      BY <1>2
    <2> HIDE DEF w
    <2>1. Took(d, w, 0) = [[w EXCEPT !.at = "done"] EXCEPT !.kind = "short"]
      BY <2>0 DEF Took, AfterChar
    <2>2. Took(d, w, 1) = RepLength(w, 0)
      BY <2>0 DEF Took, AfterChar
    <2> QED
      BY <2>1, <2>2 DEF w
  <1>10. [[AtFlag("IsRep0Long") EXCEPT !.at = "done"] EXCEPT !.kind = "short"]
            = [AtFlag("IsRep0Long") EXCEPT !.at = "done", !.kind = "short"]
    BY DEF AtFlag, WalkStart
  <1>11. /\ Took(d, AtFlag("IsRepG1"), 0) = RepLength(AtFlag("IsRepG1"), 1)
         /\ Took(d, AtFlag("IsRepG1"), 1) = [AtFlag("IsRepG1") EXCEPT !.at = "IsRepG2"]
    <2> DEFINE w == AtFlag("IsRepG1")
    <2>0. w.at = "IsRepG1"
      BY <1>2
    <2> HIDE DEF w
    <2>1. Took(d, w, 0) = RepLength(w, 1)
      BY <2>0 DEF Took, AfterChar
    <2>2. Took(d, w, 1) = [w EXCEPT !.at = "IsRepG2"]
      BY <2>0 DEF Took, AfterChar
    <2> QED
      BY <2>1, <2>2 DEF w
  <1>12. \A b : Took(d, AtFlag("IsRepG2"), b) = RepLength(AtFlag("IsRepG2"), 2 + b)
    <2> DEFINE w == AtFlag("IsRepG2")
    <2>0. w.at = "IsRepG2"
      BY <1>2
    <2> HIDE DEF w
    <2>1. \A b : Took(d, w, b) = RepLength(w, 2 + b)
      BY <2>0 DEF Took, AfterChar
    <2> QED
      BY <2>1 DEF w
  <1> QED
    BY <1>3, <1>4, <1>5, <1>6, <1>7, <1>8, <1>9, <1>10, <1>11, <1>12

(* What the length of a repetition, or of a match, begins with.             *)
LEMMA ChoiceIs ==
    ASSUME NEW label \in FlagLabels, NEW rep \in 0 .. 3
    PROVE  /\ RepLength(AtFlag(label), rep) \in WalkTypes
           /\ RepLength(AtFlag(label), rep).at = "choice"
           /\ RepLength(AtFlag(label), rep).kind = "rep"
           /\ RepLength(AtFlag(label), rep).coder = "RepLen"
           /\ RepLength(AtFlag(label), rep).rep = rep
           /\ [AtFlag(label) EXCEPT !.at = "choice", !.kind = "match"] \in WalkTypes
           /\ [AtFlag(label) EXCEPT !.at = "choice", !.kind = "match"].at = "choice"
           /\ [AtFlag(label) EXCEPT !.at = "choice", !.kind = "match"].kind = "match"
           /\ [AtFlag(label) EXCEPT !.at = "choice", !.kind = "match"].coder = "Len"
  <1> DEFINE w == AtFlag(label)
  <1>1. w \in WalkTypes /\ w.coder = "Len"
    BY FlagIs
  <1> HIDE DEF w
  <1>2. /\ RepLength(w, rep) \in WalkTypes /\ RepLength(w, rep).at = "choice"
        /\ RepLength(w, rep).kind = "rep" /\ RepLength(w, rep).coder = "RepLen"
        /\ RepLength(w, rep).rep = rep
    BY <1>1 DEF RepLength, WalkTypes
  <1>3. /\ [w EXCEPT !.at = "choice", !.kind = "match"] \in WalkTypes
        /\ [w EXCEPT !.at = "choice", !.kind = "match"].at = "choice"
        /\ [w EXCEPT !.at = "choice", !.kind = "match"].kind = "match"
        /\ [w EXCEPT !.at = "choice", !.kind = "match"].coder = "Len"
    BY <1>1 DEF WalkTypes
  <1> QED
    BY <1>2, <1>3 DEF w

(* The decisions ds are read back as the symbol sym.                        *)
ReadsAs(d, ds, sym) ==
    IsSeq(ds) /\ \E v : Done(v) /\ Denotes(v, sym) /\ Reads(d, WalkStart, ds, v)

(* A literal.                                                               *)
LEMMA LiteralSymbol ==
    ASSUME NEW d, KnownOK(d), NEW sym, sym.pos = -1, sym.byte \in Letters
    PROVE  ReadsAs(d, FlagCode(d, "IsMatch", 0) \o LiteralCode(d, sym.byte), sym)
  <1> DEFINE w == AtFlag("IsMatch")
             u == Into([w EXCEPT !.offs = AfterChar(d)], "literal", NumLitBits)
             s == FlagCode(d, "IsMatch", 0)
             t == LiteralCode(d, sym.byte)
  <1>1. Reads(d, w, s, u) /\ IsSeq(s) /\ w = WalkStart
    <2>1. AtFlag("IsMatch") = WalkStart /\ Took(d, w, 0) = u
      BY FlagLeads
    <2>2. "IsMatch" \in FlagLabels
      BY DEF FlagLabels
    <2>3. /\ Reads(d, AtFlag("IsMatch"), FlagCode(d, "IsMatch", 0), Took(d, AtFlag("IsMatch"), 0))
          /\ IsSeq(FlagCode(d, "IsMatch", 0))
      BY <2>2, FlagReads
    <2> QED
      BY <2>1, <2>3
  <1>2. w \in WalkTypes /\ w.kind = "literal"
    BY FlagIs DEF FlagLabels
  <1> HIDE DEF w, s
  <1>3. IsSeq(t) /\ \E v : /\ v \in WalkTypes /\ v.at = "done" /\ v.kind = w.kind
                           /\ v.i = Power(NumLitBits) + sym.byte /\ Reads(d, u, t, v)
    BY <1>2, LiteralReads
  <1> HIDE DEF t, u
  <1>4. PICK v : /\ v.at = "done" /\ v.kind = w.kind /\ v.i = Power(NumLitBits) + sym.byte
                 /\ Reads(d, u, t, v)
    BY <1>3
  <1>5. Reads(d, w, s \o t, v) /\ IsSeq(s \o t)
    BY <1>1, <1>3, <1>4, ReadsBoth
  <1>6. Done(v) /\ Denotes(v, sym)
    BY <1>2, <1>4 DEF Done, Denotes, Power
  <1> QED
    BY <1>1, <1>5, <1>6 DEF ReadsAs, s, t

(* A flag after others.                                                     *)
LEMMA FlagAfter ==
    ASSUME NEW d, NEW s, IsSeq(s), NEW label \in FlagLabels, NEW b,
           Reads(d, WalkStart, s, AtFlag(label)), NEW u, u = Took(d, AtFlag(label), b)
    PROVE  /\ Reads(d, WalkStart, s \o FlagCode(d, label, b), u)
           /\ IsSeq(s \o FlagCode(d, label, b))
  <1> DEFINE t == FlagCode(d, label, b)
  <1>1. Reads(d, AtFlag(label), t, u) /\ IsSeq(t)
    BY FlagReads
  <1> HIDE DEF t
  <1>2. Reads(d, WalkStart, s \o t, u) /\ IsSeq(s \o t)
    BY <1>1, ReadsBoth
  <1> QED
    BY <1>2 DEF t

(* The flags of a match, ...                                                *)
MatchFlags(d) == FlagCode(d, "IsMatch", 1) \o FlagCode(d, "IsRep", 0)

(* ... of a repetition of the last distance, but the last of them, ...      *)
LastFlags(d) ==
    FlagCode(d, "IsMatch", 1) \o FlagCode(d, "IsRep", 1) \o FlagCode(d, "IsRepG0", 0)

(* ... and of another.                                                      *)
OtherFlags(d) ==
    FlagCode(d, "IsMatch", 1) \o FlagCode(d, "IsRep", 1) \o FlagCode(d, "IsRepG0", 1)

(* They lead where they should.                                             *)
LEMMA FlagsRead ==
    ASSUME NEW d
    PROVE  /\ IsSeq(MatchFlags(d)) /\ IsSeq(LastFlags(d)) /\ IsSeq(OtherFlags(d))
           /\ Reads(d, WalkStart, MatchFlags(d),
                    [AtFlag("IsRep") EXCEPT !.at = "choice", !.kind = "match"])
           /\ Reads(d, WalkStart, LastFlags(d), AtFlag("IsRep0Long"))
           /\ Reads(d, WalkStart, OtherFlags(d), AtFlag("IsRepG1"))
  <1> DEFINE s == FlagCode(d, "IsMatch", 1)
             t == FlagCode(d, "IsRep", 1)
             m == [AtFlag("IsRep") EXCEPT !.at = "choice", !.kind = "match"]
  <1>1. /\ "IsMatch" \in FlagLabels /\ "IsRep" \in FlagLabels /\ "IsRepG0" \in FlagLabels
        /\ "IsRep0Long" \in FlagLabels /\ "IsRepG1" \in FlagLabels
    BY DEF FlagLabels
  <1>2. /\ AtFlag("IsMatch") = WalkStart
        /\ Took(d, AtFlag("IsMatch"), 1) = AtFlag("IsRep")
        /\ Took(d, AtFlag("IsRep"), 0) = m
        /\ Took(d, AtFlag("IsRep"), 1) = AtFlag("IsRepG0")
        /\ Took(d, AtFlag("IsRepG0"), 0) = AtFlag("IsRep0Long")
        /\ Took(d, AtFlag("IsRepG0"), 1) = AtFlag("IsRepG1")
    BY FlagLeads
  <1> HIDE DEF m
  <1>3. IsSeq(s) /\ Reads(d, WalkStart, s, AtFlag("IsRep"))
    <2>1. /\ Reads(d, AtFlag("IsMatch"), FlagCode(d, "IsMatch", 1), Took(d, AtFlag("IsMatch"), 1))
          /\ IsSeq(FlagCode(d, "IsMatch", 1))
      BY <1>1, FlagReads
    <2> QED
      BY <1>2, <2>1
  <1> HIDE DEF s
  <1>4. /\ Reads(d, WalkStart, s \o FlagCode(d, "IsRep", 0), m)
        /\ IsSeq(s \o FlagCode(d, "IsRep", 0))
    BY <1>1, <1>2, <1>3, FlagAfter
  <1>5. Reads(d, WalkStart, s \o t, AtFlag("IsRepG0")) /\ IsSeq(s \o t)
    BY <1>1, <1>2, <1>3, FlagAfter
  <1> DEFINE st == s \o t
  <1> HIDE DEF st
  <1>6. Reads(d, WalkStart, st, AtFlag("IsRepG0")) /\ IsSeq(st)
    BY <1>5 DEF st
  <1>7. /\ Reads(d, WalkStart, st \o FlagCode(d, "IsRepG0", 0), AtFlag("IsRep0Long"))
        /\ IsSeq(st \o FlagCode(d, "IsRepG0", 0))
    BY <1>1, <1>2, <1>6, FlagAfter
  <1>8. /\ Reads(d, WalkStart, st \o FlagCode(d, "IsRepG0", 1), AtFlag("IsRepG1"))
        /\ IsSeq(st \o FlagCode(d, "IsRepG0", 1))
    BY <1>1, <1>2, <1>6, FlagAfter
  <1> QED
    BY <1>4, <1>7, <1>8 DEF MatchFlags, LastFlags, OtherFlags, s, t, m, st

(* A byte at the last distance.                                             *)
LEMMA ShortSymbol ==
    ASSUME NEW d, NEW sym, sym.pos = 0, sym.len = 1
    PROVE  ReadsAs(d, LastFlags(d) \o FlagCode(d, "IsRep0Long", 0), sym)
  <1> DEFINE v == [AtFlag("IsRep0Long") EXCEPT !.at = "done", !.kind = "short"]
  <1>1. /\ Reads(d, WalkStart, LastFlags(d) \o FlagCode(d, "IsRep0Long", 0), v)
        /\ IsSeq(LastFlags(d) \o FlagCode(d, "IsRep0Long", 0))
    <2>1. v = Took(d, AtFlag("IsRep0Long"), 0)
      BY FlagLeads
    <2> HIDE DEF v
    <2>2. /\ IsSeq(LastFlags(d)) /\ Reads(d, WalkStart, LastFlags(d), AtFlag("IsRep0Long"))
          /\ "IsRep0Long" \in FlagLabels
      BY FlagsRead DEF FlagLabels
    <2> QED
      BY <2>1, <2>2, FlagAfter
  <1>2. v.at = "done" /\ v.kind = "short"
    BY DEF AtFlag, WalkStart
  <1> HIDE DEF v
  <1>3. Done(v) /\ Denotes(v, sym)
    BY <1>2 DEF Done, Denotes
  <1> QED
    BY <1>1, <1>3 DEF ReadsAs

(* A length that a symbol can have.                                         *)
Lengths == LZMA_MATCH_LEN_MIN .. kMatchSpecLenStart - 1

(* It is coded less the shortest one.                                       *)
LEMMA LengthsFit ==
    ASSUME NEW len \in Lengths
    PROVE  /\ len \in Nat /\ len > 1
           /\ len - LZMA_MATCH_LEN_MIN \in 0 .. LengthSymbols - 1
  <1>1. LengthSymbols \in Nat /\ kMatchSpecLenStart = 2 + LengthSymbols
    BY SymbolSizes DEF LengthSymbols, kMatchSpecLenStart, LZMA_MATCH_LEN_MIN
  <1> QED
    BY <1>1 DEF Lengths, LZMA_MATCH_LEN_MIN

(* A repetition, whatever flags led to it.                                  *)
LEMMA RepSymbol ==
    ASSUME NEW d, NEW ds, IsSeq(ds), NEW label \in FlagLabels, NEW rep \in 0 .. 3,
           Reads(d, WalkStart, ds, RepLength(AtFlag(label), rep)),
           NEW sym, sym.pos = rep, sym.len \in Lengths
    PROVE  ReadsAs(d, ds \o LenEnc("RepLen", sym.len - LZMA_MATCH_LEN_MIN, PosState(d.pos)), sym)
  <1> DEFINE w == RepLength(AtFlag(label), rep)
             value == sym.len - LZMA_MATCH_LEN_MIN
             t == LenEnc("RepLen", value, PosState(d.pos))
  <1>1. /\ w \in WalkTypes /\ w.at = "choice" /\ w.kind = "rep" /\ w.coder = "RepLen"
        /\ w.rep = rep
    BY ChoiceIs
  <1>2. sym.len \in Nat /\ sym.len > 1 /\ value \in 0 .. LengthSymbols - 1
    BY LengthsFit
  <1> HIDE DEF w, value
  <1>3. /\ IsSeq(LenEnc(w.coder, value, PosState(d.pos)))
        /\ \E v : /\ LengthRead(w, v, value)
                  /\ Reads(d, w, LenEnc(w.coder, value, PosState(d.pos)), v)
    BY <1>1, <1>2, LengthReads
  <1>4. IsSeq(t) /\ \E v : LengthRead(w, v, value) /\ Reads(d, w, t, v)
    BY <1>1, <1>3
  <1> HIDE DEF t
  <1>5. PICK v : LengthRead(w, v, value) /\ Reads(d, w, t, v)
    BY <1>4
  <1>6. Reads(d, WalkStart, ds \o t, v) /\ IsSeq(ds \o t)
    <2>1. Reads(d, WalkStart, ds, w)
      BY DEF w
    <2> QED
      BY <1>4, <1>5, <2>1, ReadsBoth
  <1>7. v.at = "done" /\ v.kind = "rep" /\ v.rep = rep /\ v.len = value
    BY <1>1, <1>5 DEF LengthRead
  <1>8. Done(v) /\ Denotes(v, sym)
    <2>1. /\ sym.pos # -1 /\ ~(sym.pos = 0 /\ sym.len = 1) /\ sym.pos \in 0 .. 3
          /\ sym.len > 1 /\ ~(sym.pos \notin -1 .. 3)
      BY <1>2
    <2>2. v.kind = "rep" /\ v.rep = sym.pos /\ v.len = sym.len - LZMA_MATCH_LEN_MIN
      BY <1>7 DEF value
    <2>3. Denotes(v, sym)
      BY <2>1, <2>2 DEF Denotes
    <2> QED
      BY <1>7, <2>3 DEF Done
  <1> QED
    BY <1>6, <1>8 DEF ReadsAs, t, value

(* The distance that a match, or the end mark, has.                         *)
DistanceOf(sym) == IF sym.pos = EndMark THEN EndDistance ELSE sym.pos - LZMA_NUM_REPS

(* A match.                                                                 *)
LEMMA MatchSymbol ==
    ASSUME NEW d, NEW sym, sym.pos \notin -1 .. 3, sym.len \in Lengths,
           DistanceOf(sym) \in 0 .. EndDistance
    PROVE  ReadsAs(d, (MatchFlags(d)
                       \o LenEnc("Len", sym.len - LZMA_MATCH_LEN_MIN, PosState(d.pos)))
                      \o DistanceCode(DistanceOf(sym), sym.len), sym)
  <1> DEFINE w == [AtFlag("IsRep") EXCEPT !.at = "choice", !.kind = "match"]
             value == sym.len - LZMA_MATCH_LEN_MIN
             ds == MatchFlags(d)
             t == LenEnc("Len", value, PosState(d.pos))
             u == DistanceCode(DistanceOf(sym), sym.len)
  <1>1. w \in WalkTypes /\ w.at = "choice" /\ w.kind = "match" /\ w.coder = "Len"
    <2>1. "IsRep" \in FlagLabels /\ 0 \in 0 .. 3
      BY DEF FlagLabels
    <2> QED
      BY <2>1, ChoiceIs
  <1>2. sym.len \in Nat /\ value \in 0 .. LengthSymbols - 1
    BY LengthsFit
  <1>3. IsSeq(ds) /\ Reads(d, WalkStart, ds, w)
    BY FlagsRead
  <1> HIDE DEF w, value, ds
  <1>4. /\ IsSeq(LenEnc(w.coder, value, PosState(d.pos)))
        /\ \E v : /\ LengthRead(w, v, value)
                  /\ Reads(d, w, LenEnc(w.coder, value, PosState(d.pos)), v)
    BY <1>1, <1>2, LengthReads
  <1>5. IsSeq(t) /\ \E v : LengthRead(w, v, value) /\ Reads(d, w, t, v)
    BY <1>1, <1>4
  <1> HIDE DEF t
  <1>6. PICK x : LengthRead(w, x, value) /\ Reads(d, w, t, x)
    BY <1>5
  <1>7. /\ x \in WalkTypes /\ x.at = "PosSlot" /\ x.i = 1 /\ x.left = kNumPosSlotBits
        /\ x.kind = "match" /\ x.len = sym.len - LZMA_MATCH_LEN_MIN
    BY <1>1, <1>6 DEF LengthRead, value
  <1>8. ReadsDistance(d, x, u, DistanceOf(sym))
    <2> DEFINE len == sym.len
               distance == DistanceOf(sym)
    <2>1. len \in Nat /\ x.len = len - LZMA_MATCH_LEN_MIN /\ distance \in 0 .. EndDistance
      BY <1>2, <1>7
    <2> HIDE DEF len, distance
    <2>2. ReadsDistance(d, x, DistanceCode(distance, len), distance)
      BY <1>7, <2>1, DistanceReads
    <2> QED
      BY <2>2 DEF len, distance
  <1> HIDE DEF u
  <1>9. IsSeq(u) /\ \E v : DistanceRead(x, v, DistanceOf(sym)) /\ Reads(d, x, u, v)
    BY <1>8 DEF ReadsDistance
  <1>10. PICK v : DistanceRead(x, v, DistanceOf(sym)) /\ Reads(d, x, u, v)
    BY <1>9
  <1>11. Reads(d, WalkStart, ds \o t, x) /\ IsSeq(ds \o t)
    BY <1>3, <1>5, <1>6, ReadsBoth
  <1> DEFINE st == ds \o t
  <1> HIDE DEF st
  <1>12. Reads(d, WalkStart, st, x) /\ IsSeq(st)
    BY <1>11 DEF st
  <1>13. Reads(d, WalkStart, st \o u, v) /\ IsSeq(st \o u)
    BY <1>9, <1>10, <1>12, ReadsBoth
  <1>14. Done(v) /\ Denotes(v, sym)
    <2>1. /\ v.at = "done" /\ v.kind = "match" /\ v.len = sym.len - LZMA_MATCH_LEN_MIN
          /\ v.distance = DistanceOf(sym)
      BY <1>7, <1>10 DEF DistanceRead
    <2>2. sym.pos # -1 /\ ~(sym.pos = 0 /\ sym.len = 1) /\ sym.pos \notin 0 .. 3
      OBVIOUS
    <2> QED
      BY <2>1, <2>2 DEF Done, Denotes, DistanceOf
  <1> QED
    BY <1>13, <1>14 DEF ReadsAs, ds, t, u, st, value

(* What a symbol is.                                                        *)
LEMMA SymbolKinds ==
    ASSUME NEW sym \in Symbols
    PROVE  \/ sym.pos = -1 /\ sym.byte \in Letters
           \/ sym.pos = 0 /\ sym.len = 1
           \/ sym.pos \in 0 .. 3 /\ sym.len \in Lengths
           \/ /\ sym.pos \notin -1 .. 3 /\ sym.len \in Lengths
              /\ DistanceOf(sym) \in 0 .. EndDistance
              /\ \/ sym.pos = EndMark /\ sym.len = LZMA_MATCH_LEN_MIN
                 \/ sym.pos \in Nat /\ sym.pos >= LZMA_NUM_REPS /\ sym.pos # EndMark
  <1>0. EndDistance \in Nat
    BY SlotsJoin
  <1>1. CASE sym \in Literals
    <2>1. PICK b \in 0 .. 2 ^ NumLitBits - 1 : sym = [pos |-> -1, len |-> 1, byte |-> b]
      BY <1>1 DEF Literals
    <2>2. sym.pos = -1 /\ sym.byte \in Letters
      BY <2>1 DEF Letters, Power
    <2> QED
      BY <2>2
  <1>2. CASE sym \in LongReps
    <2>1. sym.pos \in 0 .. 3 /\ sym.len \in Lengths
      BY <1>2 DEF LongReps, Lengths, LZMA_MATCH_LEN_MIN
    <2> QED
      BY <2>1
  <1>3. CASE sym \in Matches
    <2>1. sym.pos \in 4 .. EndDistance + 3 /\ sym.len \in Lengths
      BY <1>3 DEF Matches, Lengths, LZMA_MATCH_LEN_MIN
    <2>2. /\ sym.pos \notin -1 .. 3 /\ sym.pos \in Nat /\ sym.pos >= 4 /\ sym.pos # -2
          /\ sym.pos - 4 \in 0 .. EndDistance
      BY <1>0, <2>1
    <2> QED
      BY <2>1, <2>2 DEF DistanceOf, EndMark, LZMA_NUM_REPS
  <1>4. CASE sym = ShortRep
    BY <1>4 DEF ShortRep
  <1>5. CASE sym = EndMarker
    <2>1. sym.pos = -2 /\ sym.len = 2
      BY <1>5 DEF EndMarker, EndMark
    <2>2. 2 \in Lengths
      <3>1. LengthSymbols \in Nat \ {0} /\ kMatchSpecLenStart = 2 + LengthSymbols
        BY SymbolSizes DEF LengthSymbols, kMatchSpecLenStart, LZMA_MATCH_LEN_MIN
      <3> QED
        BY <3>1 DEF Lengths, LZMA_MATCH_LEN_MIN
    <2>3. DistanceOf(sym) = EndDistance
      BY <2>1 DEF DistanceOf, EndMark
    <2> QED
      BY <1>0, <2>1, <2>2, <2>3 DEF EndMark, LZMA_MATCH_LEN_MIN
  <1> QED
    BY <1>1, <1>2, <1>3, <1>4, <1>5 DEF Symbols

(* A symbol's decisions, by its kind.                                       *)
LEMMA DecisionsAre ==
    ASSUME NEW d, NEW sym
    PROVE  /\ sym.pos = -1 =>
                Decisions(d, sym) = FlagCode(d, "IsMatch", 0) \o LiteralCode(d, sym.byte)
           /\ sym.pos = 0 /\ sym.len = 1 =>
                Decisions(d, sym) = LastFlags(d) \o FlagCode(d, "IsRep0Long", 0)
           /\ sym.pos = 0 /\ sym.len # 1 =>
                Decisions(d, sym) = LastFlags(d)
                    \o (FlagCode(d, "IsRep0Long", 1)
                        \o LenEnc("RepLen", sym.len - LZMA_MATCH_LEN_MIN, PosState(d.pos)))
           /\ sym.pos = 1 =>
                Decisions(d, sym) = (OtherFlags(d) \o FlagCode(d, "IsRepG1", 0))
                    \o LenEnc("RepLen", sym.len - LZMA_MATCH_LEN_MIN, PosState(d.pos))
           /\ sym.pos \in {2, 3} =>
                Decisions(d, sym) =
                    (OtherFlags(d)
                     \o (FlagCode(d, "IsRepG1", 1) \o FlagCode(d, "IsRepG2", sym.pos - 2)))
                    \o LenEnc("RepLen", sym.len - LZMA_MATCH_LEN_MIN, PosState(d.pos))
           /\ \/ sym.pos = EndMark /\ sym.len = LZMA_MATCH_LEN_MIN
              \/ sym.pos \in Nat /\ sym.pos >= LZMA_NUM_REPS /\ sym.pos # EndMark
              => Decisions(d, sym) =
                    (MatchFlags(d)
                     \o LenEnc("Len", sym.len - LZMA_MATCH_LEN_MIN, PosState(d.pos)))
                    \o DistanceCode(DistanceOf(sym), sym.len)
  <1> DEFINE ps == PosState(d.pos)
             of(array, b) == <<[context |-> <<array, d.state>>, bit |-> b]>>
             ofPos(array, b) == <<[context |-> <<array, d.state, ps>>, bit |-> b]>>
             L(coder, n) == LenEnc(coder, n, ps)
  <1>1. \A b : /\ FlagCode(d, "IsMatch", b) = ofPos("IsMatch", b)
               /\ FlagCode(d, "IsRep0Long", b) = ofPos("IsRep0Long", b)
               /\ FlagCode(d, "IsRep", b) = of("IsRep", b)
               /\ FlagCode(d, "IsRepG0", b) = of("IsRepG0", b)
               /\ FlagCode(d, "IsRepG1", b) = of("IsRepG1", b)
               /\ FlagCode(d, "IsRepG2", b) = of("IsRepG2", b)
    BY DEF FlagCode, FlagContext
  <1>2. Decisions(d, sym) =
            CASE sym.pos = -1 -> ofPos("IsMatch", 0) \o LiteralCode(d, sym.byte)
              [] sym.pos = 0 ->
                    ofPos("IsMatch", 1) \o of("IsRep", 1) \o of("IsRepG0", 0)
                    \o (IF sym.len = 1 THEN ofPos("IsRep0Long", 0)
                        ELSE ofPos("IsRep0Long", 1)
                             \o L("RepLen", sym.len - LZMA_MATCH_LEN_MIN))
              [] sym.pos \in 1 .. 3 ->
                    ofPos("IsMatch", 1) \o of("IsRep", 1) \o of("IsRepG0", 1)
                    \o (IF sym.pos = 1 THEN of("IsRepG1", 0)
                        ELSE of("IsRepG1", 1) \o of("IsRepG2", sym.pos - 2))
                    \o L("RepLen", sym.len - LZMA_MATCH_LEN_MIN)
              [] sym.pos >= LZMA_NUM_REPS ->
                    ofPos("IsMatch", 1) \o of("IsRep", 0)
                    \o L("Len", sym.len - LZMA_MATCH_LEN_MIN)
                    \o DistanceCode(sym.pos - LZMA_NUM_REPS, sym.len)
              [] sym.pos = EndMark ->
                    ofPos("IsMatch", 1) \o of("IsRep", 0)
                    \o L("Len", 0) \o DistanceCode(EndDistance, LZMA_MATCH_LEN_MIN)
    BY DEF Decisions, LiteralCode
  <1> HIDE DEF ps, of, ofPos, L
  <1>3. sym.pos = -1 => Decisions(d, sym) = FlagCode(d, "IsMatch", 0) \o LiteralCode(d, sym.byte)
    <2> SUFFICES ASSUME sym.pos = -1
                 PROVE  Decisions(d, sym) =
                            FlagCode(d, "IsMatch", 0) \o LiteralCode(d, sym.byte)
      OBVIOUS
    <2>1. /\ ~(sym.pos = 0) /\ ~(sym.pos \in 1 .. 3)
          /\ ~(sym.pos >= LZMA_NUM_REPS) /\ ~(sym.pos = EndMark)
      BY DEF LZMA_NUM_REPS, EndMark
    <2> QED
      BY <1>1, <1>2, <2>1
  <1>4. sym.pos = 0 => Decisions(d, sym) =
            LastFlags(d) \o (IF sym.len = 1 THEN FlagCode(d, "IsRep0Long", 0)
                             ELSE FlagCode(d, "IsRep0Long", 1)
                                  \o L("RepLen", sym.len - LZMA_MATCH_LEN_MIN))
    <2> SUFFICES ASSUME sym.pos = 0
                 PROVE  Decisions(d, sym) =
                            LastFlags(d) \o
                            (IF sym.len = 1 THEN FlagCode(d, "IsRep0Long", 0)
                             ELSE FlagCode(d, "IsRep0Long", 1)
                                  \o L("RepLen", sym.len - LZMA_MATCH_LEN_MIN))
      OBVIOUS
    <2>1. /\ ~(sym.pos = -1) /\ ~(sym.pos \in 1 .. 3)
          /\ ~(sym.pos >= LZMA_NUM_REPS) /\ ~(sym.pos = EndMark)
      BY DEF LZMA_NUM_REPS, EndMark
    <2> QED
      BY <1>1, <1>2, <2>1 DEF LastFlags
  <1>5. sym.pos \in 1 .. 3 => Decisions(d, sym) =
            OtherFlags(d)
            \o (IF sym.pos = 1 THEN FlagCode(d, "IsRepG1", 0)
                ELSE FlagCode(d, "IsRepG1", 1) \o FlagCode(d, "IsRepG2", sym.pos - 2))
            \o L("RepLen", sym.len - LZMA_MATCH_LEN_MIN)
    <2> SUFFICES ASSUME sym.pos \in 1 .. 3
                 PROVE  Decisions(d, sym) =
                            OtherFlags(d)
                            \o (IF sym.pos = 1 THEN FlagCode(d, "IsRepG1", 0)
                                ELSE FlagCode(d, "IsRepG1", 1)
                                     \o FlagCode(d, "IsRepG2", sym.pos - 2))
                            \o L("RepLen", sym.len - LZMA_MATCH_LEN_MIN)
      OBVIOUS
    <2>1. /\ ~(sym.pos = -1) /\ ~(sym.pos = 0)
          /\ ~(sym.pos >= LZMA_NUM_REPS) /\ ~(sym.pos = EndMark)
      BY DEF LZMA_NUM_REPS, EndMark
    <2> QED
      BY <1>1, <1>2, <2>1 DEF OtherFlags
  <1>6. sym.pos \in Nat /\ sym.pos >= LZMA_NUM_REPS /\ sym.pos # EndMark => Decisions(d, sym) =
            MatchFlags(d) \o L("Len", sym.len - LZMA_MATCH_LEN_MIN)
            \o DistanceCode(DistanceOf(sym), sym.len)
    <2> SUFFICES ASSUME sym.pos \in Nat, sym.pos >= 4
                 PROVE  Decisions(d, sym) =
                            MatchFlags(d) \o L("Len", sym.len - LZMA_MATCH_LEN_MIN)
                            \o DistanceCode(DistanceOf(sym), sym.len)
      BY DEF LZMA_NUM_REPS
    <2>1. /\ ~(sym.pos = -1) /\ ~(sym.pos = 0) /\ ~(sym.pos \in 1 .. 3)
          /\ sym.pos >= LZMA_NUM_REPS /\ ~(sym.pos = EndMark)
      BY DEF LZMA_NUM_REPS, EndMark
    <2>2. DistanceOf(sym) = sym.pos - LZMA_NUM_REPS
      BY <2>1 DEF DistanceOf
    <2> QED
      BY <1>1, <1>2, <2>1, <2>2 DEF MatchFlags
  <1>7. sym.pos = EndMark /\ sym.len = LZMA_MATCH_LEN_MIN => Decisions(d, sym) =
            MatchFlags(d) \o L("Len", sym.len - LZMA_MATCH_LEN_MIN)
            \o DistanceCode(DistanceOf(sym), sym.len)
    <2> SUFFICES ASSUME sym.pos = EndMark, sym.len = LZMA_MATCH_LEN_MIN
                 PROVE  Decisions(d, sym) =
                            MatchFlags(d) \o L("Len", sym.len - LZMA_MATCH_LEN_MIN)
                            \o DistanceCode(DistanceOf(sym), sym.len)
      OBVIOUS
    <2>1. /\ ~(sym.pos = -1) /\ ~(sym.pos = 0) /\ ~(sym.pos \in 1 .. 3)
          /\ ~(sym.pos >= LZMA_NUM_REPS)
      BY DEF LZMA_NUM_REPS, EndMark
    <2>2. DistanceOf(sym) = EndDistance /\ sym.len - LZMA_MATCH_LEN_MIN = 0
      BY DEF DistanceOf, LZMA_MATCH_LEN_MIN
    <2> QED
      BY <1>1, <1>2, <2>1, <2>2 DEF MatchFlags
  <1>8. /\ sym.pos = -1 =>
             Decisions(d, sym) = FlagCode(d, "IsMatch", 0) \o LiteralCode(d, sym.byte)
        /\ sym.pos = 0 /\ sym.len = 1 =>
             Decisions(d, sym) = LastFlags(d) \o FlagCode(d, "IsRep0Long", 0)
        /\ sym.pos = 0 /\ sym.len # 1 =>
             Decisions(d, sym) = LastFlags(d)
                 \o (FlagCode(d, "IsRep0Long", 1)
                     \o L("RepLen", sym.len - LZMA_MATCH_LEN_MIN))
        /\ sym.pos = 1 =>
             Decisions(d, sym) = (OtherFlags(d) \o FlagCode(d, "IsRepG1", 0))
                 \o L("RepLen", sym.len - LZMA_MATCH_LEN_MIN)
        /\ sym.pos \in {2, 3} =>
             Decisions(d, sym) =
                 (OtherFlags(d)
                  \o (FlagCode(d, "IsRepG1", 1) \o FlagCode(d, "IsRepG2", sym.pos - 2)))
                 \o L("RepLen", sym.len - LZMA_MATCH_LEN_MIN)
        /\ \/ sym.pos = EndMark /\ sym.len = LZMA_MATCH_LEN_MIN
           \/ sym.pos \in Nat /\ sym.pos >= LZMA_NUM_REPS /\ sym.pos # EndMark
           => Decisions(d, sym) =
                 (MatchFlags(d)
                  \o L("Len", sym.len - LZMA_MATCH_LEN_MIN))
                 \o DistanceCode(DistanceOf(sym), sym.len)
    <2>1. sym.pos \in {2, 3} => sym.pos \in 1 .. 3 /\ sym.pos # 1
      OBVIOUS
    <2>2. sym.pos = 1 => sym.pos \in 1 .. 3
      OBVIOUS
    <2> QED
      BY <1>3, <1>4, <1>5, <1>6, <1>7, <2>1, <2>2
  <1> QED
    BY <1>8 DEF L, ps

(* A repetition of the last distance, longer than a byte, ...               *)
LEMMA LastSymbol ==
    ASSUME NEW d, NEW sym, sym.pos = 0, sym.len \in Lengths
    PROVE  ReadsAs(d, LastFlags(d)
                      \o (FlagCode(d, "IsRep0Long", 1)
                          \o LenEnc("RepLen", sym.len - LZMA_MATCH_LEN_MIN, PosState(d.pos))), sym)
  <1> DEFINE s == LastFlags(d)
             t == FlagCode(d, "IsRep0Long", 1)
             w == RepLength(AtFlag("IsRep0Long"), 0)
             l == LenEnc("RepLen", sym.len - LZMA_MATCH_LEN_MIN, PosState(d.pos))
  <1>1. IsSeq(s) /\ Reads(d, WalkStart, s, AtFlag("IsRep0Long"))
    BY FlagsRead
  <1>2. w = Took(d, AtFlag("IsRep0Long"), 1) /\ "IsRep0Long" \in FlagLabels /\ 0 \in 0 .. 3
    <2>1. Took(d, AtFlag("IsRep0Long"), 1) = w
      BY FlagLeads
    <2> QED
      BY <2>1 DEF FlagLabels
  <1>3. IsSeq(t)
    BY <1>2, FlagReads
  <1> HIDE DEF s, w
  <1>4. Reads(d, WalkStart, s \o t, w) /\ IsSeq(s \o t)
    BY <1>1, <1>2, FlagAfter
  <1> HIDE DEF t
  <1> DEFINE st == s \o t
  <1> HIDE DEF st
  <1>5. Reads(d, WalkStart, st, RepLength(AtFlag("IsRep0Long"), 0)) /\ IsSeq(st)
    BY <1>4 DEF st, w
  <1>6. ReadsAs(d, st \o l, sym)
    <2> DEFINE label == "IsRep0Long"
               rep == 0
    <2>1. /\ label \in FlagLabels /\ rep \in 0 .. 3 /\ sym.pos = rep
          /\ Reads(d, WalkStart, st, RepLength(AtFlag(label), rep))
      BY <1>2, <1>5
    <2> HIDE DEF label, rep
    <2> QED
      BY <1>5, <2>1, RepSymbol
  <1>7. IsSeq(l)
    <2>1. sym.len - LZMA_MATCH_LEN_MIN \in 0 .. LengthSymbols - 1
      BY LengthsFit
    <2>2. w \in WalkTypes /\ w.at = "choice" /\ w.coder = "RepLen"
      BY <1>2, ChoiceIs DEF w
    <2>3. IsSeq(LenEnc(w.coder, sym.len - LZMA_MATCH_LEN_MIN, PosState(d.pos)))
      BY <2>1, <2>2, LengthReads
    <2> QED
      BY <2>2, <2>3
  <1> HIDE DEF l
  <1>8. st \o l = s \o (t \o l)
    BY <1>1, <1>3, <1>7, Regrouped DEF st
  <1> QED
    BY <1>6, <1>8 DEF s, t, l

(* ... of the one before it, ...                                            *)
LEMMA SecondSymbol ==
    ASSUME NEW d, NEW sym, sym.pos = 1, sym.len \in Lengths
    PROVE  ReadsAs(d, (OtherFlags(d) \o FlagCode(d, "IsRepG1", 0))
                      \o LenEnc("RepLen", sym.len - LZMA_MATCH_LEN_MIN, PosState(d.pos)), sym)
  <1> DEFINE s == OtherFlags(d)
             label == "IsRepG1"
             rep == 1
             w == RepLength(AtFlag(label), rep)
             st == s \o FlagCode(d, label, 0)
             l == LenEnc("RepLen", sym.len - LZMA_MATCH_LEN_MIN, PosState(d.pos))
  <1>1. IsSeq(s) /\ Reads(d, WalkStart, s, AtFlag(label))
    BY FlagsRead
  <1>2. w = Took(d, AtFlag(label), 0) /\ label \in FlagLabels /\ rep \in 0 .. 3 /\ sym.pos = rep
    <2>1. Took(d, AtFlag("IsRepG1"), 0) = w
      BY FlagLeads
    <2> QED
      BY <2>1 DEF FlagLabels
  <1> HIDE DEF s, w, label, rep
  <1>3. Reads(d, WalkStart, st, w) /\ IsSeq(st)
    BY <1>1, <1>2, FlagAfter
  <1> HIDE DEF st
  <1>4. Reads(d, WalkStart, st, RepLength(AtFlag(label), rep))
    BY <1>3 DEF w
  <1>5. ReadsAs(d, st \o l, sym)
    BY <1>2, <1>3, <1>4, RepSymbol
  <1> QED
    BY <1>5 DEF st, s, label

(* ... and of those before that.                                            *)
LEMMA ThirdSymbol ==
    ASSUME NEW d, NEW sym, sym.pos \in {2, 3}, sym.len \in Lengths
    PROVE  ReadsAs(d, (OtherFlags(d)
                       \o (FlagCode(d, "IsRepG1", 1) \o FlagCode(d, "IsRepG2", sym.pos - 2)))
                      \o LenEnc("RepLen", sym.len - LZMA_MATCH_LEN_MIN, PosState(d.pos)), sym)
  <1> DEFINE s == OtherFlags(d)
             label == "IsRepG2"
             rep == sym.pos
             b == sym.pos - 2
             w == RepLength(AtFlag(label), rep)
             t == FlagCode(d, "IsRepG1", 1)
             u == FlagCode(d, label, b)
             l == LenEnc("RepLen", sym.len - LZMA_MATCH_LEN_MIN, PosState(d.pos))
  <1>1. IsSeq(s) /\ Reads(d, WalkStart, s, AtFlag("IsRepG1"))
    BY FlagsRead
  <1>2. /\ "IsRepG1" \in FlagLabels /\ AtFlag(label) = Took(d, AtFlag("IsRepG1"), 1)
        /\ label \in FlagLabels /\ rep \in 0 .. 3 /\ 2 + b = rep /\ sym.pos = rep
    <2>1. Took(d, AtFlag("IsRepG1"), 1) = AtFlag(label)
      BY FlagLeads
    <2>2. rep \in 0 .. 3 /\ 2 + b = rep
      OBVIOUS
    <2> QED
      BY <2>1, <2>2 DEF FlagLabels
  <1>3. w = Took(d, AtFlag(label), b)
    <2>1. Took(d, AtFlag("IsRepG2"), b) = RepLength(AtFlag("IsRepG2"), 2 + b)
      <3> HIDE DEF b
      <3> QED
        BY FlagLeads
    <2> QED
      BY <1>2, <2>1
  <1> HIDE DEF s, w, label, rep, b
  <1>4. IsSeq(t) /\ IsSeq(u)
    BY <1>2, FlagReads
  <1> DEFINE st == s \o t
  <1>5. Reads(d, WalkStart, st, AtFlag(label)) /\ IsSeq(st)
    BY <1>1, <1>2, FlagAfter
  <1> HIDE DEF st
  <1>6. Reads(d, WalkStart, st \o u, w) /\ IsSeq(st \o u)
    BY <1>2, <1>3, <1>5, FlagAfter
  <1> HIDE DEF t, u
  <1> DEFINE stu == st \o u
  <1> HIDE DEF stu
  <1>7. Reads(d, WalkStart, stu, RepLength(AtFlag(label), rep)) /\ IsSeq(stu)
    BY <1>6 DEF stu, w
  <1>8. ReadsAs(d, stu \o l, sym)
    BY <1>2, <1>7, RepSymbol
  <1>9. stu = s \o (t \o u)
    BY <1>1, <1>4, Regrouped DEF stu, st
  <1> QED
    BY <1>8, <1>9 DEF s, t, u, label, b

(* Whatever the parser chooses is read back.                                *)
LEMMA SymbolReads ==
    ASSUME NEW d, KnownOK(d), NEW sym \in Symbols
    PROVE  ReadsAs(d, Decisions(d, sym), sym)
  <1>1. \/ sym.pos = -1 /\ sym.byte \in Letters
        \/ sym.pos = 0 /\ sym.len = 1
        \/ sym.pos \in 0 .. 3 /\ sym.len \in Lengths
        \/ /\ sym.pos \notin -1 .. 3 /\ sym.len \in Lengths
           /\ DistanceOf(sym) \in 0 .. EndDistance
           /\ \/ sym.pos = EndMark /\ sym.len = LZMA_MATCH_LEN_MIN
              \/ sym.pos \in Nat /\ sym.pos >= LZMA_NUM_REPS /\ sym.pos # EndMark
    BY SymbolKinds
  <1>2. CASE sym.pos = -1 /\ sym.byte \in Letters
    BY <1>2, DecisionsAre, LiteralSymbol
  <1>3. CASE sym.pos = 0 /\ sym.len = 1
    <2>1. Decisions(d, sym) = LastFlags(d) \o FlagCode(d, "IsRep0Long", 0)
      BY <1>3, DecisionsAre
    <2>2. ReadsAs(d, LastFlags(d) \o FlagCode(d, "IsRep0Long", 0), sym)
      BY <1>3, ShortSymbol
    <2> QED
      BY <2>1, <2>2
  <1>4. CASE sym.pos \in 0 .. 3 /\ sym.len \in Lengths
    <2>1. sym.len # 1
      BY <1>4, LengthsFit
    <2>2. CASE sym.pos = 0
      <3>1. Decisions(d, sym) = LastFlags(d)
            \o (FlagCode(d, "IsRep0Long", 1)
                \o LenEnc("RepLen", sym.len - LZMA_MATCH_LEN_MIN, PosState(d.pos)))
        BY <1>4, <2>1, <2>2, DecisionsAre
      <3>2. ReadsAs(d, LastFlags(d)
            \o (FlagCode(d, "IsRep0Long", 1)
                \o LenEnc("RepLen", sym.len - LZMA_MATCH_LEN_MIN, PosState(d.pos))), sym)
        BY <1>4, <2>1, <2>2, LastSymbol
      <3> QED
        BY <3>1, <3>2
    <2>3. CASE sym.pos = 1
      <3>1. Decisions(d, sym) = (OtherFlags(d) \o FlagCode(d, "IsRepG1", 0))
            \o LenEnc("RepLen", sym.len - LZMA_MATCH_LEN_MIN, PosState(d.pos))
        BY <1>4, <2>3, DecisionsAre
      <3>2. ReadsAs(d, (OtherFlags(d) \o FlagCode(d, "IsRepG1", 0))
            \o LenEnc("RepLen", sym.len - LZMA_MATCH_LEN_MIN, PosState(d.pos)), sym)
        BY <1>4, <2>3, SecondSymbol
      <3> QED
        BY <3>1, <3>2
    <2>4. CASE sym.pos \in {2, 3}
      <3>1. Decisions(d, sym) = (OtherFlags(d)
             \o (FlagCode(d, "IsRepG1", 1) \o FlagCode(d, "IsRepG2", sym.pos - 2)))
            \o LenEnc("RepLen", sym.len - LZMA_MATCH_LEN_MIN, PosState(d.pos))
        BY <1>4, <2>4, DecisionsAre
      <3>2. ReadsAs(d, (OtherFlags(d)
             \o (FlagCode(d, "IsRepG1", 1) \o FlagCode(d, "IsRepG2", sym.pos - 2)))
            \o LenEnc("RepLen", sym.len - LZMA_MATCH_LEN_MIN, PosState(d.pos)), sym)
        BY <1>4, <2>4, ThirdSymbol
      <3> QED
        BY <3>1, <3>2
    <2> QED
      BY <1>4, <2>2, <2>3, <2>4
  <1>5. CASE /\ sym.pos \notin -1 .. 3 /\ sym.len \in Lengths
             /\ DistanceOf(sym) \in 0 .. EndDistance
             /\ \/ sym.pos = EndMark /\ sym.len = LZMA_MATCH_LEN_MIN
                \/ sym.pos \in Nat /\ sym.pos >= LZMA_NUM_REPS /\ sym.pos # EndMark
    BY <1>5, DecisionsAre, MatchSymbol
  <1> QED
    BY <1>1, <1>2, <1>3, <1>4, <1>5

(* Four numbers, each one more.                                             *)
FromOne(rs) == [i \in 1 .. LZMA_NUM_REPS |-> rs[i] + 1]

(* A tuple of four.                                                         *)
LEMMA FourOf ==
    ASSUME NEW a, NEW b, NEW c, NEW e, NEW f, f = [i \in 1 .. 4 |-> f[i]],
           f[1] = a, f[2] = b, f[3] = c, f[4] = e
    PROVE  <<a, b, c, e>> = f
  <1> DEFINE S == {a, b, c, e}
             t == <<a, b, c, e>>
  <1>1. f \in [1 .. 4 -> S]
    <2>1. \A i \in 1 .. 4 : f[i] \in S
      <3> TAKE i \in 1 .. 4
      <3>1. i = 1 \/ i = 2 \/ i = 3 \/ i = 4
        OBVIOUS
      <3> QED
        BY <3>1
    <2> HIDE DEF S
    <2> QED
      BY <2>1
  <1>2. f \in Seq(S) /\ Len(f) = 4
    BY <1>1
  <1>3. t \in Seq(S) /\ Len(t) = 4 /\ t[1] = a /\ t[2] = b /\ t[3] = c /\ t[4] = e
    OBVIOUS
  <1> HIDE DEF S, t
  <1>4. \A i \in 1 .. Len(t) : t[i] = f[i]
    <2> TAKE i \in 1 .. Len(t)
    <2>1. i = 1 \/ i = 2 \/ i = 3 \/ i = 4
      BY <1>3
    <2> QED
      BY <1>3, <2>1
  <1>5. t = f
    BY <1>2, <1>3, <1>4, SeqEqual
  <1> QED
    BY <1>5 DEF t

(* The last four distances after a symbol.                                  *)
Distances4(rs) == rs \in Seq(Nat) /\ Len(rs) = 4

(* They are numbers, of which the one used comes to the front.              *)
LEMMA RepsAfterIs ==
    ASSUME NEW rs, Distances4(rs), NEW sym
    PROVE  /\ sym.pos \in {-1, 0} => RepsAfter(rs, sym) = rs
           /\ sym.pos \in 1 .. 3 =>
                /\ Distances4(RepsAfter(rs, sym))
                /\ RepsAfter(rs, sym)[1] = rs[sym.pos + 1]
                /\ \A i \in 2 .. 4 : RepsAfter(rs, sym)[i] =
                        IF i <= sym.pos + 1 THEN rs[i - 1] ELSE rs[i]
           /\ sym.pos \in Nat /\ sym.pos > 3 =>
                /\ Distances4(RepsAfter(rs, sym))
                /\ RepsAfter(rs, sym)[1] = sym.pos - LZMA_NUM_REPS
                /\ \A i \in 2 .. 4 : RepsAfter(rs, sym)[i] = rs[i - 1]
  <1>1. rs \in Seq(Nat) /\ Len(rs) = 4 /\ \A i \in 1 .. 4 : rs[i] \in Nat
    <2>1. rs \in Seq(Nat) /\ Len(rs) = 4
      BY DEF Distances4
    <2> QED
      BY <2>1, ElementOfSeq
  <1>2. sym.pos \in {-1, 0} => RepsAfter(rs, sym) = rs
    <2> SUFFICES ASSUME sym.pos \in {-1, 0} PROVE RepsAfter(rs, sym) = rs
      OBVIOUS
    <2>1. sym.pos < 1 /\ ~(sym.pos \in 1 .. 3) /\ ~(sym.pos > 3)
      OBVIOUS
    <2> QED
      BY <2>1 DEF RepsAfter
  <1>3. ASSUME sym.pos \in 1 .. 3
        PROVE  /\ Distances4(RepsAfter(rs, sym))
               /\ RepsAfter(rs, sym)[1] = rs[sym.pos + 1]
               /\ \A i \in 2 .. 4 : RepsAfter(rs, sym)[i] =
                        IF i <= sym.pos + 1 THEN rs[i - 1] ELSE rs[i]
    <2> DEFINE k == sym.pos
               a == <<rs[k + 1]>>
               b == SubSeq(rs, 1, k)
               c == SubSeq(rs, k + 2, 4)
               t == a \o b
    <2>1. k \in 1 .. 3 /\ ~(sym.pos < 1) /\ ~(sym.pos > 3)
      BY <1>3
    <2>2. RepsAfter(rs, sym) = t \o c
      BY <1>3, <2>1 DEF RepsAfter, LZMA_NUM_REPS
    <2> HIDE DEF k
    <2>3. rs[k + 1] \in Nat
      BY <1>1, <2>1
    <2>4. a \in Seq(Nat) /\ Len(a) = 1 /\ a[1] = rs[k + 1]
      BY <2>3
    <2>5. b \in Seq(Nat) /\ Len(b) = k /\ \A i \in 1 .. k : b[i] = rs[i]
      <3>1. 1 \in 1 .. Len(rs) + 1 /\ k \in 0 .. Len(rs)
        BY <1>1, <2>1
      <3> QED
        BY <1>1, <2>1, <3>1, SubSeqProperties
    <2>6. c \in Seq(Nat) /\ Len(c) = 3 - k /\ \A i \in 1 .. 3 - k : c[i] = rs[(k + 2) + i - 1]
      <3>1. k + 2 \in 1 .. Len(rs) + 1 /\ 4 \in (k + 2) - 1 .. Len(rs) /\ 4 - (k + 2) + 1 = 3 - k
        BY <1>1, <2>1
      <3> QED
        BY <1>1, <2>1, <3>1, SubSeqProperties
    <2> HIDE DEF a, b, c
    <2>7. /\ t \in Seq(Nat) /\ Len(t) = 1 + k
          /\ \A i \in 1 .. 1 + k : t[i] = IF i <= 1 THEN a[i] ELSE b[i - 1]
      <3>1. IsSeq(a) /\ IsSeq(b) /\ a \o b \in Seq(Nat)
        BY <2>4, <2>5, ConcatProperties DEF IsSeq
      <3>2. /\ Len(a \o b) = Len(a) + Len(b)
            /\ \A i \in 1 .. Len(a) + Len(b) :
                (a \o b)[i] = IF i <= Len(a) THEN a[i] ELSE b[i - Len(a)]
        BY <3>1, Joined
      <3> QED
        BY <2>4, <2>5, <3>1, <3>2 DEF t
    <2> HIDE DEF t
    <2>8. /\ t \o c \in Seq(Nat) /\ Len(t \o c) = 4
          /\ \A i \in 1 .. 4 : (t \o c)[i] = IF i <= 1 + k THEN t[i] ELSE c[i - (1 + k)]
      <3>1. (1 + k) + (3 - k) = 4
        BY <2>1
      <3> QED
        <4>1. IsSeq(t) /\ IsSeq(c) /\ t \o c \in Seq(Nat)
          BY <2>6, <2>7, ConcatProperties DEF IsSeq
        <4>2. /\ Len(t \o c) = Len(t) + Len(c)
              /\ \A i \in 1 .. Len(t) + Len(c) :
                  (t \o c)[i] = IF i <= Len(t) THEN t[i] ELSE c[i - Len(t)]
          BY <4>1, Joined
        <4> QED
          BY <2>6, <2>7, <3>1, <4>1, <4>2
    <2>9. (t \o c)[1] = rs[k + 1]
      BY <2>1, <2>4, <2>7, <2>8
    <2>10. ASSUME NEW i \in 2 .. 4
           PROVE  (t \o c)[i] = IF i <= k + 1 THEN rs[i - 1] ELSE rs[i]
      <3>1. CASE i <= k + 1
        <4>1. i - 1 \in 1 .. k /\ i \in 1 .. 1 + k /\ ~(i <= 1) /\ i <= 1 + k /\ i \in 1 .. 4
          BY <2>1, <3>1
        <4> QED
          BY <2>5, <2>7, <2>8, <3>1, <4>1
      <3>2. CASE ~(i <= k + 1)
        <4>1. /\ i - (1 + k) \in 1 .. 3 - k /\ ~(i <= 1 + k) /\ i \in 1 .. 4
              /\ (k + 2) + (i - (1 + k)) - 1 = i
          BY <2>1, <3>2
        <4> QED
          BY <2>6, <2>8, <3>2, <4>1
      <3> QED
        BY <3>1, <3>2
    <2> QED
      BY <2>2, <2>8, <2>9, <2>10 DEF Distances4, k
  <1>4. ASSUME sym.pos \in Nat, sym.pos > 3
        PROVE  /\ Distances4(RepsAfter(rs, sym))
               /\ RepsAfter(rs, sym)[1] = sym.pos - LZMA_NUM_REPS
               /\ \A i \in 2 .. 4 : RepsAfter(rs, sym)[i] = rs[i - 1]
    <2> DEFINE n == sym.pos - LZMA_NUM_REPS
               a == <<n>>
               b == SubSeq(rs, 1, 3)
    <2>1. n \in Nat /\ ~(sym.pos < 1) /\ ~(sym.pos \in 1 .. 3)
      BY <1>4 DEF LZMA_NUM_REPS
    <2>2. RepsAfter(rs, sym) = a \o b
      BY <1>4, <2>1 DEF RepsAfter
    <2> HIDE DEF n
    <2>3. a \in Seq(Nat) /\ Len(a) = 1 /\ a[1] = n
      BY <2>1
    <2>4. b \in Seq(Nat) /\ Len(b) = 3 /\ \A i \in 1 .. 3 : b[i] = rs[i]
      <3>1. 1 \in 1 .. Len(rs) + 1 /\ 3 \in 0 .. Len(rs)
        BY <1>1
      <3> QED
        BY <1>1, <3>1, SubSeqProperties
    <2> HIDE DEF a, b
    <2>5. /\ a \o b \in Seq(Nat) /\ Len(a \o b) = 4
          /\ \A i \in 1 .. 4 : (a \o b)[i] = IF i <= 1 THEN a[i] ELSE b[i - 1]
      <3>1. IsSeq(a) /\ IsSeq(b) /\ a \o b \in Seq(Nat)
        BY <2>3, <2>4, ConcatProperties DEF IsSeq
      <3>2. /\ Len(a \o b) = Len(a) + Len(b)
            /\ \A i \in 1 .. Len(a) + Len(b) :
                (a \o b)[i] = IF i <= Len(a) THEN a[i] ELSE b[i - Len(a)]
        BY <3>1, Joined
      <3> QED
        BY <2>3, <2>4, <3>1, <3>2
    <2>6. \A i \in 2 .. 4 : i \in 1 .. 4 /\ ~(i <= 1) /\ i - 1 \in 1 .. 3
      OBVIOUS
    <2>7. (a \o b)[1] = n
      BY <2>3, <2>5
    <2>8. \A i \in 2 .. 4 : (a \o b)[i] = rs[i - 1]
      <3> TAKE i \in 2 .. 4
      <3>1. (a \o b)[i] = b[i - 1] /\ b[i - 1] = rs[i - 1]
        BY <2>4, <2>5, <2>6
      <3> QED
        BY <3>1
    <2> QED
      BY <2>2, <2>5, <2>7, <2>8 DEF Distances4, n
  <1> QED
    BY <1>2, <1>3, <1>4

(* What a symbol other than the end mark is, for the state and distances.   *)
SymbolShape(sym) ==
    \/ sym.pos = -1 /\ sym.len = 1 /\ sym.byte \in Letters
    \/ sym.pos = 0 /\ sym.len = 1
    \/ sym.pos \in 0 .. 3 /\ sym.len \in Nat /\ sym.len > 1
    \/ sym.pos \in Nat /\ sym.pos > 3 /\ sym.len \in Nat /\ sym.len > 1

(* Every symbol is one of these.                                            *)
LEMMA ShapeOf ==
    ASSUME NEW sym \in Symbols, sym.pos # EndMark
    PROVE  SymbolShape(sym)
  <1>1. CASE sym \in Literals
    <2>1. PICK b \in 0 .. 2 ^ NumLitBits - 1 : sym = [pos |-> -1, len |-> 1, byte |-> b]
      BY <1>1 DEF Literals
    <2> QED
      BY <2>1 DEF SymbolShape, Letters, Power
  <1>2. CASE sym \in LongReps
    <2>1. sym.pos \in 0 .. 3 /\ sym.len \in Lengths
      BY <1>2 DEF LongReps, Lengths, LZMA_MATCH_LEN_MIN
    <2> QED
      BY <2>1, LengthsFit DEF SymbolShape
  <1>3. CASE sym \in Matches
    <2>1. sym.pos \in 4 .. EndDistance + 3 /\ sym.len \in Lengths /\ EndDistance \in Nat
      BY <1>3, SlotsJoin DEF Matches, Lengths, LZMA_MATCH_LEN_MIN
    <2>2. sym.pos \in Nat /\ sym.pos > 3
      BY <2>1
    <2> QED
      BY <2>1, <2>2, LengthsFit DEF SymbolShape
  <1>4. CASE sym = ShortRep
    BY <1>4 DEF ShortRep, SymbolShape
  <1>5. CASE sym = EndMarker
    BY <1>5 DEF EndMarker
  <1> QED
    BY <1>1, <1>2, <1>3, <1>4, <1>5 DEF Symbols

(* Both sides agree on the state that follows, ...                          *)
LEMMA StatesAgree ==
    ASSUME NEW s \in 0 .. 11, NEW sym, SymbolShape(sym), NEW v, Denotes(v, sym)
    PROVE  DecodedState(s, v) = StateAfter(s, sym)
  <1>1. CASE sym.pos = -1
    <2>1. /\ ~(sym.pos \in 0 .. 3 /\ sym.len = 1) /\ ~(sym.pos \in 0 .. 3 /\ sym.len # 1)
          /\ ~(sym.pos \notin -1 .. 3) /\ ~(sym.pos = 0 /\ sym.len = 1)
          /\ ~(sym.pos \in 0 .. 3 /\ sym.len > 1)
      BY <1>1
    <2>2. v.kind = "literal"
      BY <1>1, <2>1 DEF Denotes
    <2> QED
      BY <1>1, <2>1, <2>2 DEF DecodedState, StateAfter
  <1>2. CASE sym.pos = 0 /\ sym.len = 1
    <2>1. v.kind = "short"
      BY <1>2 DEF Denotes
    <2>2. StateAfter(s, sym) = AfterShortRep(s)
      BY <1>2 DEF StateAfter
    <2> QED
      BY <2>1, <2>2 DEF DecodedState, AfterShortRep, IsCharState
  <1>3. CASE sym.pos \in 0 .. 3 /\ sym.len \in Nat /\ sym.len > 1
    <2>1. /\ sym.pos # -1 /\ ~(sym.pos \in 0 .. 3 /\ sym.len = 1) /\ sym.len # 1
          /\ ~(sym.pos = 0 /\ sym.len = 1) /\ ~(sym.pos \notin -1 .. 3)
      BY <1>3
    <2>2. v.kind = "rep"
      BY <1>3, <2>1 DEF Denotes
    <2>3. StateAfter(s, sym) = AfterRep(s)
      BY <1>3, <2>1 DEF StateAfter
    <2> QED
      BY <2>2, <2>3 DEF DecodedState, AfterRep, IsCharState
  <1>4. CASE sym.pos \in Nat /\ sym.pos > 3
    <2>1. sym.pos # -1 /\ ~(sym.pos \in 0 .. 3) /\ sym.pos # 0 /\ sym.pos \notin -1 .. 3
      BY <1>4
    <2>2. v.kind = "match"
      BY <2>1 DEF Denotes
    <2>3. StateAfter(s, sym) = AfterMatch(s)
      BY <2>1 DEF StateAfter
    <2> QED
      BY <2>2, <2>3 DEF DecodedState, AfterMatch, IsCharState
  <1> QED
    BY <1>1, <1>2, <1>3, <1>4 DEF SymbolShape

(* ... and on the last four distances.                                      *)
LEMMA RepsAgree ==
    ASSUME NEW rs, Distances4(rs), NEW sym, SymbolShape(sym), NEW v, Denotes(v, sym)
    PROVE  DecodedReps(FromOne(rs), v) = FromOne(RepsAfter(rs, sym))
  <1> DEFINE u == FromOne(rs)
             s == RepsAfter(rs, sym)
             f == FromOne(s)
  <1>1. /\ u[1] = rs[1] + 1 /\ u[2] = rs[2] + 1 /\ u[3] = rs[3] + 1 /\ u[4] = rs[4] + 1
        /\ f[1] = s[1] + 1 /\ f[2] = s[2] + 1 /\ f[3] = s[3] + 1 /\ f[4] = s[4] + 1
        /\ f = [i \in 1 .. 4 |-> f[i]]
    BY DEF FromOne, LZMA_NUM_REPS
  <1>2. /\ sym.pos \in {-1, 0} => s = rs
        /\ sym.pos \in 1 .. 3 =>
                /\ s[1] = rs[sym.pos + 1]
                /\ \A i \in 2 .. 4 : s[i] = IF i <= sym.pos + 1 THEN rs[i - 1] ELSE rs[i]
        /\ sym.pos \in Nat /\ sym.pos > 3 =>
                /\ s[1] = sym.pos - LZMA_NUM_REPS
                /\ \A i \in 2 .. 4 : s[i] = rs[i - 1]
    BY RepsAfterIs
  <1>3. s = rs => u = f
    OBVIOUS
  <1> HIDE DEF u, f, s
  <1>4. CASE sym.pos = -1
    <2>1. ~(sym.pos = 0 /\ sym.len = 1) /\ ~(sym.pos \in 0 .. 3 /\ sym.len > 1)
          /\ ~(sym.pos \notin -1 .. 3)
      BY <1>4
    <2>2. v.kind = "literal"
      BY <1>4, <2>1 DEF Denotes
    <2>3. DecodedReps(u, v) = u
      BY <2>2 DEF DecodedReps
    <2> QED
      BY <1>2, <1>3, <1>4, <2>3 DEF u, f, s
  <1>5. CASE sym.pos = 0 /\ sym.len = 1
    <2>1. v.kind = "short"
      BY <1>5 DEF Denotes
    <2>2. DecodedReps(u, v) = u
      BY <2>1 DEF DecodedReps
    <2> QED
      BY <1>2, <1>3, <1>5, <2>2 DEF u, f, s
  <1>6. CASE sym.pos \in 0 .. 3 /\ sym.len \in Nat /\ sym.len > 1
    <2>1. /\ sym.pos # -1 /\ ~(sym.pos = 0 /\ sym.len = 1) /\ ~(sym.pos \notin -1 .. 3)
      BY <1>6
    <2>2. v.kind = "rep" /\ v.rep = sym.pos
      BY <1>6, <2>1 DEF Denotes
    <2>3. CASE sym.pos = 0
      <3>1. DecodedReps(u, v) = u
        BY <2>2, <2>3 DEF DecodedReps
      <3> QED
        BY <1>2, <1>3, <2>3, <3>1 DEF u, f, s
    <2>4. CASE sym.pos = 1
      <3>1. DecodedReps(u, v) = <<u[2], u[1], u[3], u[4]>>
        BY <2>2, <2>4 DEF DecodedReps
      <3>2. s[1] = rs[2] /\ s[2] = rs[1] /\ s[3] = rs[3] /\ s[4] = rs[4]
        BY <1>2, <2>4
      <3>3. f[1] = u[2] /\ f[2] = u[1] /\ f[3] = u[3] /\ f[4] = u[4]
        BY <1>1, <3>2
      <3> QED
        BY <1>1, <3>1, <3>3, FourOf DEF u, f, s
    <2>5. CASE sym.pos = 2
      <3>1. DecodedReps(u, v) = <<u[3], u[1], u[2], u[4]>>
        BY <2>2, <2>5 DEF DecodedReps
      <3>2. s[1] = rs[3] /\ s[2] = rs[1] /\ s[3] = rs[2] /\ s[4] = rs[4]
        BY <1>2, <2>5
      <3>3. f[1] = u[3] /\ f[2] = u[1] /\ f[3] = u[2] /\ f[4] = u[4]
        BY <1>1, <3>2
      <3> QED
        BY <1>1, <3>1, <3>3, FourOf DEF u, f, s
    <2>6. CASE sym.pos = 3
      <3>1. DecodedReps(u, v) = <<u[4], u[1], u[2], u[3]>>
        BY <2>2, <2>6 DEF DecodedReps
      <3>2. s[1] = rs[4] /\ s[2] = rs[1] /\ s[3] = rs[2] /\ s[4] = rs[3]
        BY <1>2, <2>6
      <3>3. f[1] = u[4] /\ f[2] = u[1] /\ f[3] = u[2] /\ f[4] = u[3]
        BY <1>1, <3>2
      <3> QED
        BY <1>1, <3>1, <3>3, FourOf DEF u, f, s
    <2> QED
      BY <1>6, <2>3, <2>4, <2>5, <2>6
  <1>7. CASE sym.pos \in Nat /\ sym.pos > 3
    <2>1. sym.pos # -1 /\ ~(sym.pos \in 0 .. 3) /\ sym.pos # 0 /\ sym.pos \notin -1 .. 3
          /\ sym.pos # EndMark
      BY <1>7 DEF EndMark
    <2>2. v.kind = "match" /\ v.distance = sym.pos - LZMA_NUM_REPS
      BY <2>1 DEF Denotes
    <2>3. DecodedReps(u, v) = <<v.distance + 1, u[1], u[2], u[3]>>
      BY <2>2 DEF DecodedReps
    <2>4. s[1] = v.distance /\ s[2] = rs[1] /\ s[3] = rs[2] /\ s[4] = rs[3]
      BY <1>2, <1>7, <2>2
    <2>5. f[1] = v.distance + 1 /\ f[2] = u[1] /\ f[3] = u[2] /\ f[4] = u[3]
      BY <1>1, <2>4
    <2> QED
      BY <1>1, <2>3, <2>5, FourOf DEF u, f, s
  <1> QED
    BY <1>4, <1>5, <1>6, <1>7 DEF SymbolShape

(* What the encoder knows, as long as it has not written the end: a byte at *)
(* the last distance, whenever it will be compared with one.                *)
EncoderOK ==
    ~finished =>
        /\ text \in Seq(Letters) /\ Distances4(reps) /\ state \in 0 .. 11
        /\ ~IsCharState(state) => reps[1] < Len(text)

(* It is enough to code any symbol.                                         *)
LEMMA EncoderKnowsOK ==
    ASSUME EncoderOK, ~finished
    PROVE  KnownOK(EncoderKnows)
  <1>1. /\ text \in Seq(Letters) /\ reps \in Seq(Nat) /\ Len(reps) = 4 /\ state \in 0 .. 11
        /\ ~IsCharState(state) => reps[1] < Len(text)
    BY DEF EncoderOK, Distances4
  <1>2. 0 \in Letters /\ Len(text) \in Nat
    <2>1. Power(NumLitBits) \in Nat \ {0}
      <3>1. NumLitBits \in 0 .. 32
        BY SymbolSizes
      <3> QED
        BY <3>1, PowersNatural
    <2> QED
      BY <1>1, <2>1, LenProperties DEF Letters
  <1>3. (IF text = << >> THEN 0 ELSE Last(text)) \in Letters
    <2>1. CASE text = << >>
      BY <1>2, <2>1
    <2>2. CASE text # << >>
      <3>1. Len(text) # 0
        BY <1>1, <2>2, EmptySeq
      <3>2. Len(text) \in 1 .. Len(text)
        BY <1>2, <3>1
      <3>3. text[Len(text)] \in Letters
        BY <1>1, <3>2, ElementOfSeq
      <3> QED
        BY <2>2, <3>3 DEF Last
    <2> QED
      BY <2>1, <2>2
  <1>4. (IF IsCharState(state) THEN 0 ELSE text[Len(text) - reps[1]]) \in Letters
    <2>1. CASE IsCharState(state)
      BY <1>2, <2>1
    <2>2. CASE ~IsCharState(state)
      <3>1. reps[1] \in Nat
        <4>1. 1 \in 1 .. Len(reps)
          BY <1>1
        <4> QED
          BY <1>1, <4>1, ElementOfSeq
      <3>2. Len(text) - reps[1] \in 1 .. Len(text)
        BY <1>1, <1>2, <2>2, <3>1
      <3>3. text[Len(text) - reps[1]] \in Letters
        BY <1>1, <3>2, ElementOfSeq
      <3> QED
        BY <2>2, <3>3
    <2> QED
      BY <2>1, <2>2
  <1> QED
    BY <1>1, <1>2, <1>3, <1>4 DEF KnownOK, EncoderKnows

(* The state after a literal, and after the others.                         *)
LEMMA StateStays ==
    ASSUME NEW s \in 0 .. 11, NEW sym, SymbolShape(sym)
    PROVE  /\ StateAfter(s, sym) \in 0 .. 11
           /\ sym.pos = -1 => IsCharState(StateAfter(s, sym))
  <1>1. CASE sym.pos = -1
    <2>1. /\ ~(sym.pos \in 0 .. 3 /\ sym.len = 1) /\ ~(sym.pos \in 0 .. 3 /\ sym.len # 1)
          /\ ~(sym.pos \notin -1 .. 3)
      BY <1>1
    <2>2. StateAfter(s, sym) = kLiteralNextStates[s + 1]
      BY <1>1, <2>1 DEF StateAfter, AfterLiteral
    <2>3. \A i \in 1 .. 12 : kLiteralNextStates[i] \in 0 .. 6
      <3> TAKE i \in 1 .. 12
      <3>1. \/ i = 1 \/ i = 2 \/ i = 3 \/ i = 4 \/ i = 5 \/ i = 6
            \/ i = 7 \/ i = 8 \/ i = 9 \/ i = 10 \/ i = 11 \/ i = 12
        OBVIOUS
      <3> QED
        BY <3>1 DEF kLiteralNextStates
    <2>4. s + 1 \in 1 .. 12
      OBVIOUS
    <2>5. StateAfter(s, sym) \in 0 .. 6
      BY <2>2, <2>3, <2>4
    <2> QED
      BY <2>5 DEF IsCharState
  <1>2. CASE sym.pos \in 0 .. 3 /\ sym.len = 1
    <2>1. sym.pos # -1
      BY <1>2
    <2>2. StateAfter(s, sym) = AfterShortRep(s)
      BY <1>2, <2>1 DEF StateAfter
    <2> QED
      BY <2>1, <2>2 DEF AfterShortRep
  <1>3. CASE sym.pos \in 0 .. 3 /\ sym.len # 1
    <2>1. sym.pos # -1
      BY <1>3
    <2>2. StateAfter(s, sym) = AfterRep(s)
      BY <1>3, <2>1 DEF StateAfter
    <2> QED
      BY <2>1, <2>2 DEF AfterRep
  <1>4. CASE sym.pos \in Nat /\ sym.pos > 3
    <2>1. sym.pos # -1 /\ ~(sym.pos \in 0 .. 3) /\ sym.pos \notin -1 .. 3
      BY <1>4
    <2>2. StateAfter(s, sym) = AfterMatch(s)
      BY <2>1 DEF StateAfter
    <2> QED
      BY <2>1, <2>2 DEF AfterMatch
  <1> QED
    BY <1>1, <1>2, <1>3, <1>4 DEF SymbolShape

(* The next symbol, coded by LzmaEnc_CodeOneBlock.                          *)
LEMMA EncoderGoesOn ==
    ASSUME EncoderOK, ~finished, NEW sym, Fits(sym), CodeSymbol(sym)
    PROVE  /\ text' \in Seq(Letters) /\ Distances4(reps') /\ state' \in 0 .. 11
           /\ ~IsCharState(state') => reps'[1] < Len(text')
  <1> DEFINE rs == RepsAfter(reps, sym)
  <1>1. /\ text \in Seq(Letters) /\ Distances4(reps) /\ state \in 0 .. 11
        /\ reps \in Seq(Nat) /\ Len(reps) = 4 /\ Len(text) \in Nat
    BY LenProperties DEF EncoderOK, Distances4
  <1>2. /\ SymbolShape(sym) /\ sym.pos # EndMark /\ sym.len \in Nat
        /\ sym.pos \in 0 .. 3 => reps[sym.pos + 1] < Len(text)
        /\ sym.pos > 3 => sym.pos - LZMA_NUM_REPS < Len(text)
    <2>1. SymbolShape(sym)
      BY ShapeOf DEF Fits
    <2> QED
      BY <2>1 DEF Fits, SymbolShape
  <1>3. state' = StateAfter(state, sym) /\ reps' = rs /\ text' = TextAfter(text, rs[1], sym)
    BY DEF CodeSymbol
  <1>4. state' \in 0 .. 11 /\ (sym.pos = -1 => IsCharState(state'))
    BY <1>1, <1>2, <1>3, StateStays
  <1>5. /\ sym.pos \in {-1, 0} => rs = reps
        /\ sym.pos \in 1 .. 3 => Distances4(rs) /\ rs[1] = reps[sym.pos + 1]
        /\ sym.pos \in Nat /\ sym.pos > 3 => Distances4(rs) /\ rs[1] = sym.pos - LZMA_NUM_REPS
    BY <1>1, RepsAfterIs
  <1> HIDE DEF rs
  <1>6. CASE sym.pos = -1
    <2>1. text' = Append(text, sym.byte) /\ sym.byte \in Letters
      <3>1. sym.byte \in Letters
        BY <1>2, <1>6 DEF SymbolShape
      <3>2. TextAfter(text, rs[1], sym) = Append(text, sym.byte)
        BY <1>2, <1>6, TextAfterIs
      <3> QED
        BY <1>3, <3>1, <3>2
    <2>2. text' \in Seq(Letters)
      BY <1>1, <2>1, AppendProperties
    <2> QED
      BY <1>1, <1>3, <1>4, <1>5, <1>6, <2>2
  <1>7. CASE sym.pos \in Nat
    <2>1. /\ Distances4(rs) /\ rs[1] < Len(text)
          /\ sym.len \in Nat \ {0} /\ sym.pos \notin {-1, EndMark}
      <3>1. CASE sym.pos = 0
        BY <1>1, <1>2, <1>5, <3>1 DEF SymbolShape, EndMark
      <3>2. CASE sym.pos \in 1 .. 3
        BY <1>2, <1>5, <3>2 DEF SymbolShape, EndMark
      <3>3. CASE sym.pos > 3
        BY <1>2, <1>5, <1>7, <3>3 DEF SymbolShape, EndMark
      <3> QED
        BY <1>7, <3>1, <3>2, <3>3
    <2> DEFINE last == rs[1]
               len == sym.len
    <2>2. last \in 0 .. Len(text) - 1
      <3>1. last \in Nat
        <4>1. rs \in Seq(Nat) /\ 1 \in 1 .. Len(rs)
          BY <2>1 DEF Distances4
        <4> QED
          BY <4>1, ElementOfSeq
      <3> QED
        BY <1>1, <2>1, <3>1
    <2>3. \E f : Grown(f, text, last, len) /\ TextAfter(text, last, sym) = f[len]
      <3> HIDE DEF last
      <3> QED
        BY <1>2, <2>1, TextAfterIs
    <2>4. PICK f : Grown(f, text, last, len) /\ TextAfter(text, last, sym) = f[len]
      BY <2>3
    <2>5. len \in Nat /\ len > 0
      BY <2>1
    <2>6. f[len] \in Seq(Letters) /\ Len(f[len]) = Len(text) + len
      <3> HIDE DEF last, len
      <3> QED
        BY <1>1, <2>2, <2>4, <2>5, GrownText
    <2>7. text' \in Seq(Letters) /\ Len(text') = Len(text) + len
      BY <1>3, <2>4, <2>6
    <2>8. rs[1] < Len(text')
      BY <1>1, <2>2, <2>5, <2>7
    <2> QED
      BY <1>3, <1>4, <2>1, <2>7, <2>8
  <1> QED
    BY <1>2, <1>6, <1>7 DEF SymbolShape

(* The encoder's steps keep what it knows.                                  *)
LEMMA EncoderStep == EncoderOK /\ [Next]_vars => EncoderOK'
  <1> SUFFICES ASSUME EncoderOK, [Next]_vars, ~finished' PROVE EncoderOK'
    BY DEF EncoderOK
  <1> DEFINE same == UNCHANGED <<text, reps, state, finished>>
  <1>1. CASE same
    BY <1>1 DEF EncoderOK
  <1>2. CASE CodeNext
    <2> DEFINE sym == Head(message)
    <2>1. Fits(sym) /\ CodeSymbol(sym) /\ finished' = finished
      BY <1>2 DEF CodeNext
    <2> HIDE DEF sym
    <2>2. /\ text' \in Seq(Letters) /\ Distances4(reps') /\ state' \in 0 .. 11
          /\ ~IsCharState(state') => reps'[1] < Len(text')
      BY <2>1, EncoderGoesOn
    <2> QED
      BY <2>2 DEF EncoderOK, Distances4
  <1>3. CASE Flush
    BY <1>3 DEF Flush
  <1>4. CASE CodeDecision \/ FlushRange \/ Deliver \/ Ask \/ Decode
    <2>1. same
      BY <1>4 DEF CodeDecision, FlushRange, Deliver, Ask, Decode, evars
    <2> QED
      BY <1>1, <2>1
  <1>5. CASE UNCHANGED vars
    <2>1. same
      BY <1>5 DEF vars, evars
    <2> QED
      BY <1>1, <2>1
  <1> QED
    BY <1>2, <1>3, <1>4, <1>5 DEF Next

(* What SymbolsReadBack says, of one symbol.                                *)
LEMMA OneReadsBack ==
    ASSUME EncoderOK, ~finished, NEW sym \in Symbols
    PROVE  LET knows == EncoderKnows
               w == ReadBack(knows, Decisions(knows, sym))
               up(rs) == [i \in 1 .. LZMA_NUM_REPS |-> rs[i] + 1]
           IN  /\ Done(w) /\ Denotes(w, sym)
               /\ sym.pos # EndMark =>
                    /\ DecodedState(state, w) = StateAfter(state, sym)
                    /\ DecodedReps(up(reps), w) = up(RepsAfter(reps, sym))
  <1> DEFINE d == EncoderKnows
             ds == Decisions(d, sym)
             x == ReadBack(d, ds)
  <1>1. KnownOK(d)
    BY EncoderKnowsOK
  <1> HIDE DEF d
  <1>2. ReadsAs(d, ds, sym)
    BY <1>1, SymbolReads
  <1> HIDE DEF ds
  <1>3. IsSeq(ds) /\ \E v : Done(v) /\ Denotes(v, sym) /\ Reads(d, WalkStart, ds, v)
    BY <1>2 DEF ReadsAs
  <1>4. PICK v : Done(v) /\ Denotes(v, sym) /\ Reads(d, WalkStart, ds, v)
    BY <1>3
  <1>5. Len(ds) \in Nat
    <2>1. PICK S : ds \in Seq(S)
      BY <1>3 DEF IsSeq
    <2> QED
      BY <2>1, LenProperties
  <1>6. x = v
    BY <1>4, <1>5, ReadBackIs
  <1> HIDE DEF x
  <1>7. Done(x) /\ Denotes(x, sym)
    BY <1>4, <1>6
  <1>8. ASSUME sym.pos # EndMark
        PROVE  /\ DecodedState(state, x) = StateAfter(state, sym)
               /\ DecodedReps(FromOne(reps), x) = FromOne(RepsAfter(reps, sym))
    <2>1. SymbolShape(sym)
      BY <1>8, ShapeOf
    <2>2. Distances4(reps) /\ state \in 0 .. 11
      BY DEF EncoderOK
    <2> QED
      BY <1>7, <2>1, <2>2, StatesAgree, RepsAgree
  <1> QED
    BY <1>7, <1>8 DEF FromOne, x, ds, d

(* What LzmaEnc_CodeOneBlock writes of a symbol, LzmaDec_DecodeReal reads   *)
(* back as that symbol, whatever symbol the parser chooses and wherever the *)
(* encoder is, and both then agree on the state and the last distances.     *)
THEOREM SymbolsAgree == Spec => []SymbolsReadBack
  <1>1. Init => EncoderOK
    <2> SUFFICES ASSUME Init PROVE EncoderOK
      OBVIOUS
    <2>1. text = << >> /\ reps = <<0, 0, 0, 0>> /\ state = 0
      BY DEF Init
    <2>2. text \in Seq(Letters)
      BY <2>1, EmptySeq
    <2>3. <<0, 0, 0, 0>> \in Seq(Nat) /\ Len(<<0, 0, 0, 0>>) = 4
      OBVIOUS
    <2> QED
      BY <2>1, <2>2, <2>3 DEF EncoderOK, Distances4, IsCharState
  <1>2. EncoderOK => SymbolsReadBack
    BY OneReadsBack DEF SymbolsReadBack
  <1> QED
    BY <1>1, <1>2, EncoderStep, PTL DEF Spec
=============================================================================
