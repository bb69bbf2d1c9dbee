----------------------------- MODULE SymbolCode -----------------------------
(***************************************************************************)
(* How one symbol becomes binary decisions, in the encoder                 *)
(* (LzmaEnc_CodeOneBlock and what it calls, src/src/pavlov/LzmaEnc.c), and *)
(* how the decoder finds its way back through them (LzmaDec_DecodeReal,    *)
(* src/src/pavlov/LzmaDec.c).  The two are written independently in C; if  *)
(* they disagree about one context, everything that follows is garbage.    *)
(*                                                                         *)
(* A symbol is what the optimal parser returns, [pos, len, byte]:          *)
(*   pos = -1        a literal, byte                                       *)
(*   pos in 0 .. 3   a repetition of one of the last four distances        *)
(*   pos >= 4        a match at distance pos - 4 (0 is the previous byte)  *)
(*   pos = EndMark   WriteEndMarker                                        *)
(* A context (an index into the probability arrays) is a tuple.            *)
(*                                                                         *)
(* Here and in the modules that follow, an operator whose name tells of a  *)
(* bug (LenToPosStateEarly) stands before the one it is a bug in: it shows *)
(* which property would notice.                                            *)
(***************************************************************************)
EXTENDS Integers, Sequences

CONSTANTS
    NumLitBits,                                    \* 8
    lc, lp, pb,
    kLenNumLowBits, kLenNumMidBits, kLenNumHighBits,   \* 3, 3, 8
    kNumPosSlotBits,                               \* 6
    kEndPosModelIndex,                             \* 14
    kNumAlignBits                                  \* 4

kStartPosModelIndex == 4
kNumLenToPosStates == 4
LZMA_NUM_REPS == 4
LZMA_MATCH_LEN_MIN == 2
EndMark == -2

ASSUME SymbolAssumption ==
    /\ NumLitBits \in 1 .. 16 /\ lc \in 0 .. NumLitBits
    /\ lp \in 0 .. 8 /\ pb \in 0 .. 8
    /\ kLenNumHighBits \in 1 .. 16
    /\ kLenNumLowBits \in 1 .. kLenNumHighBits /\ kLenNumMidBits \in 1 .. kLenNumHighBits
    /\ kNumPosSlotBits \in 3 .. 6
    /\ NumLitBits < 4 + kLenNumHighBits + kNumPosSlotBits
    /\ kNumAlignBits \in Nat \ {0}
    /\ kEndPosModelIndex % 2 = 0
    /\ kEndPosModelIndex \in 2 * (kNumAlignBits + 2) .. 2 ^ kNumPosSlotBits - 1

kLenNumLowSymbols == 2 ^ kLenNumLowBits
kLenNumMidSymbols == 2 ^ kLenNumMidBits
kLenNumHighSymbols == 2 ^ kLenNumHighBits
kMatchSpecLenStart == LZMA_MATCH_LEN_MIN + kLenNumLowSymbols + kLenNumMidSymbols
                      + kLenNumHighSymbols

(* The distance that marks the end, all ones: 0xFFFFFFFF.                   *)
EndDistance == 2 ^ (2 ^ (kNumPosSlotBits - 1)) - 1

(* The state, 0 .. 11, remembers the kinds of the last symbols.             *)
kLiteralNextStates == <<0, 0, 0, 0, 1, 2, 3, 4, 5, 6, 4, 5>>
IsCharState(s) == s < 7
AfterLiteral(s) == kLiteralNextStates[s + 1]
AfterMatch(s) == IF IsCharState(s) THEN 7 ELSE 10
AfterRep(s) == IF IsCharState(s) THEN 8 ELSE 11
AfterShortRep(s) == IF IsCharState(s) THEN 9 ELSE 11

PosState(pos) == pos % 2 ^ pb

(* Which literal probabilities: LIT_PROBS.                                  *)
LitState(pos, prevByte) ==
    ((pos % 2 ^ lp) * 2 ^ lc) + (prevByte \div 2 ^ (NumLitBits - lc))

(* A match starts in one of four classes by its length: GetLenToPosState.   *)
LenToPosStateEarly(len) ==
    IF len < kNumLenToPosStates THEN len - 2 ELSE kNumLenToPosStates - 1

LenToPosState(len) ==
    IF len < kNumLenToPosStates + 1 THEN len - 2 ELSE kNumLenToPosStates - 1

(* The slot of a distance: its two highest bits and how many follow.        *)
FooterBits(posSlot) == posSlot \div 2 - 1
SlotBase(posSlot) == (2 + (posSlot % 2)) * 2 ^ FooterBits(posSlot)
GetPosSlot(distance) ==
    IF distance < kStartPosModelIndex THEN distance
    ELSE CHOOSE s \in kStartPosModelIndex .. 2 ^ kNumPosSlotBits - 1 :
            distance \in SlotBase(s) .. SlotBase(s) + 2 ^ FooterBits(s) - 1
-----------------------------------------------------------------------------
Bit(value, i) == (value \div 2 ^ i) % 2

(* RcTree_Encode: from the highest bit, each in the context of those above. *)
RcTree(context, levels, value) ==
    [i \in 1 .. levels |->
        [context |-> Append(context, 2 ^ (i - 1) + value \div 2 ^ (levels - i + 1)),
         bit |-> Bit(value, levels - i)]]

(* RcTree_ReverseEncode: from the lowest bit.  A node before the first is   *)
(* counted from, not multiplied: the distances of a slot follow its base.   *)
RcTreeReverse(context, first, levels, value) ==
    LET m[i \in 1 .. levels] == IF i = 1 THEN 1 ELSE 2 * m[i - 1] + Bit(value, i - 2)
    IN  [i \in 1 .. levels |->
            [context |-> Append(context, first + m[i]), bit |-> Bit(value, i - 1)]]

(* RangeEnc_EncodeDirectBits: no context.                                   *)
DirectBits(bits, value) ==
    [i \in 1 .. bits |-> [context |-> << >>, bit |-> Bit(value, bits - i)]]

(* LitEnc_EncodeMatched: as long as the literal agrees with the byte at the *)
(* last distance, that byte's next bit is part of the context.              *)
LitMatched(context, byte, matchByte) ==
    LET plain == RcTree(context \o <<0>>, NumLitBits, byte)
        agree(i) == byte \div 2 ^ (NumLitBits - i + 1) = matchByte \div 2 ^ (NumLitBits - i + 1)
    IN  [i \in 1 .. NumLitBits |->
            IF agree(i)
            THEN [plain[i] EXCEPT !.context =
                    [@ EXCEPT ![Len(context) + 1] = 1 + Bit(matchByte, NumLitBits - i)]]
            ELSE plain[i]]

LenEnc(coder, value, posState) ==
    LET choice(c, b) == <<[context |-> <<coder, c>>, bit |-> b]>>
    IN  IF value < kLenNumLowSymbols
        THEN choice("choice", 0)
             \o RcTree(<<coder, "low", posState>>, kLenNumLowBits, value)
        ELSE IF value < kLenNumLowSymbols + kLenNumMidSymbols
        THEN choice("choice", 1) \o choice("choice2", 0)
             \o RcTree(<<coder, "mid", posState>>, kLenNumMidBits, value - kLenNumLowSymbols)
        ELSE choice("choice", 1) \o choice("choice2", 1)
             \o RcTree(<<coder, "high">>, kLenNumHighBits,
                       value - kLenNumLowSymbols - kLenNumMidSymbols)

(* The slot of a distance, and the rest of it.                              *)
SpecPos(posSlot) == SlotBase(posSlot) - posSlot - 1

DistanceCode(distance, len) ==
    LET posSlot == GetPosSlot(distance)
        footer == FooterBits(posSlot)
        reduced == distance - SlotBase(posSlot)
    IN  RcTree(<<"PosSlot", LenToPosState(len)>>, kNumPosSlotBits, posSlot)
        \o (IF posSlot < kStartPosModelIndex THEN << >>
            ELSE IF posSlot < kEndPosModelIndex
            THEN RcTreeReverse(<<"SpecPos">>, SpecPos(posSlot), footer, reduced)
            ELSE DirectBits(footer - kNumAlignBits, reduced \div 2 ^ kNumAlignBits)
                 \o RcTreeReverse(<<"Align">>, 0, kNumAlignBits,
                                  reduced % 2 ^ kNumAlignBits))

(* The probabilities that LzmaEnc_Init and LzmaDec_InitStateReal set.       *)
Nodes(levels) == 1 .. 2 ^ levels - 1

AllContexts ==
    LET states == 0 .. 11
        posStates == 0 .. 2 ^ pb - 1
        coders == {"Len", "RepLen"}
    IN  ({"IsMatch", "IsRep0Long"} \X states \X posStates)
        \cup ({"IsRep", "IsRepG0", "IsRepG1", "IsRepG2"} \X states)
        \cup ({"Literal"} \X (0 .. 2 ^ (lc + lp) - 1) \X (0 .. 2) \X Nodes(NumLitBits))
        \cup (coders \X {"choice", "choice2"})
        \cup (coders \X {"low"} \X posStates \X Nodes(kLenNumLowBits))
        \cup (coders \X {"mid"} \X posStates \X Nodes(kLenNumMidBits))
        \cup (coders \X {"high"} \X Nodes(kLenNumHighBits))
        \cup ({"PosSlot"} \X (0 .. kNumLenToPosStates - 1) \X Nodes(kNumPosSlotBits))
        \cup ({"SpecPos"} \X (0 .. 2 ^ (kEndPosModelIndex \div 2) - kEndPosModelIndex - 1))
        \cup ({"Align"} \X Nodes(kNumAlignBits))

(* Every decision of a symbol.  e is the encoder's side of the context:     *)
(* state, pos (nowPos32), prevByte, and matchByte, the byte at reps[0].     *)
Decisions(e, sym) ==
    LET posState == PosState(e.pos)
        of(array, b) == <<[context |-> <<array, e.state>>, bit |-> b]>>
        ofPos(array, b) == <<[context |-> <<array, e.state, posState>>, bit |-> b]>>
        literal == <<"Literal", LitState(e.pos, e.prevByte)>>
    IN  CASE sym.pos = -1 ->
                ofPos("IsMatch", 0)
                \o (IF IsCharState(e.state)
                    THEN RcTree(literal \o <<0>>, NumLitBits, sym.byte)
                    ELSE LitMatched(literal, sym.byte, e.matchByte))
          [] sym.pos = 0 ->
                ofPos("IsMatch", 1) \o of("IsRep", 1) \o of("IsRepG0", 0)
                \o (IF sym.len = 1 THEN ofPos("IsRep0Long", 0)
                    ELSE ofPos("IsRep0Long", 1)
                         \o LenEnc("RepLen", sym.len - LZMA_MATCH_LEN_MIN, posState))
          [] sym.pos \in 1 .. 3 ->
                ofPos("IsMatch", 1) \o of("IsRep", 1) \o of("IsRepG0", 1)
                \o (IF sym.pos = 1 THEN of("IsRepG1", 0)
                    ELSE of("IsRepG1", 1) \o of("IsRepG2", sym.pos - 2))
                \o LenEnc("RepLen", sym.len - LZMA_MATCH_LEN_MIN, posState)
          [] sym.pos >= LZMA_NUM_REPS ->
                ofPos("IsMatch", 1) \o of("IsRep", 0)
                \o LenEnc("Len", sym.len - LZMA_MATCH_LEN_MIN, posState)
                \o DistanceCode(sym.pos - LZMA_NUM_REPS, sym.len)
          [] sym.pos = EndMark ->
                ofPos("IsMatch", 1) \o of("IsRep", 0)
                \o LenEnc("Len", 0, posState)
                \o DistanceCode(EndDistance, LZMA_MATCH_LEN_MIN)

(* The encoder's state after a symbol; its last four distances, counted     *)
(* from 0 and all 0 at first, of which the one used comes to the front.     *)
StateAfter(state, sym) ==
    CASE sym.pos = -1 -> AfterLiteral(state)
      [] sym.pos \in 0 .. 3 /\ sym.len = 1 -> AfterShortRep(state)
      [] sym.pos \in 0 .. 3 /\ sym.len # 1 -> AfterRep(state)
      [] sym.pos \notin -1 .. 3 -> AfterMatch(state)

RepsAfterSwap(reps, sym) ==
    CASE sym.pos < 1 -> reps
      [] sym.pos \in 1 .. 3 ->
            [reps EXCEPT ![1] = reps[sym.pos + 1], ![sym.pos + 1] = reps[1]]
      [] sym.pos > 3 -> <<sym.pos - LZMA_NUM_REPS>> \o SubSeq(reps, 1, 3)

RepsAfter(reps, sym) ==
    CASE sym.pos < 1 -> reps
      [] sym.pos \in 1 .. 3 ->
            <<reps[sym.pos + 1]>> \o SubSeq(reps, 1, sym.pos)
            \o SubSeq(reps, sym.pos + 2, LZMA_NUM_REPS)
      [] sym.pos > 3 -> <<sym.pos - LZMA_NUM_REPS>> \o SubSeq(reps, 1, 3)

(* The text after a symbol: a match copies from what it may be making.      *)
TextAfter(t, last, sym) ==
    LET grown[k \in 0 .. sym.len] ==
            IF k = 0 THEN t ELSE Append(grown[k - 1], grown[k - 1][Len(t) + k - 1 - last])
    IN  IF sym.pos = EndMark THEN t
        ELSE IF sym.pos = -1 THEN Append(t, sym.byte)
        ELSE grown[sym.len]
=============================================================================
