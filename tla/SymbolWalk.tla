----------------------------- MODULE SymbolWalk -----------------------------
(***************************************************************************)
(* The decoder's way through the decisions of one symbol                   *)
(* (LzmaDec_DecodeReal and LzmaDec_TryDummy, src/src/pavlov/LzmaDec.c):    *)
(* which probability comes next, and where each value of the bit leads.    *)
(*                                                                         *)
(* d is what the decoder knows before the symbol: state, pos               *)
(* (processedPos), prevByte and matchByte, the byte at reps[0].            *)
(* w is where it is: the label at, the node i of a tree of which left      *)
(* levels remain, and what it has found out so far.                        *)
(***************************************************************************)
EXTENDS SymbolCode

WalkStart ==
    [at |-> "IsMatch", i |-> 1, left |-> 0, offs |-> 0, kind |-> "literal",
     coder |-> "Len", rep |-> 0, len |-> 0, posSlot |-> 0, distance |-> 0]

Done(w) == w.at = "done"

(* The decisions of the longest symbol: a match whose length is one of the  *)
(* high ones, as far as its slot, and the footer of its distance.           *)
SlotDecisions == 4 + kLenNumHighBits + kNumPosSlotBits
MaxDecisions == SlotDecisions + FooterBits(2 ^ kNumPosSlotBits - 1)

(* The next bit of matchByte, while the literal agrees with it.             *)
MatchBit(d, w) == w.offs * Bit(d.matchByte, w.left - 1)

ContextOf(d, w) ==
    LET posState == PosState(d.pos)
    IN  CASE w.at \in {"IsMatch", "IsRep0Long"} -> <<w.at, d.state, posState>>
          [] w.at \in {"IsRep", "IsRepG0", "IsRepG1", "IsRepG2"} -> <<w.at, d.state>>
          [] w.at = "literal" ->
                <<"Literal", LitState(d.pos, d.prevByte), w.offs + MatchBit(d, w), w.i>>
          [] w.at \in {"choice", "choice2"} -> <<w.coder, w.at>>
          [] w.at \in {"low", "mid"} -> <<w.coder, w.at, posState, w.i>>
          [] w.at = "high" -> <<w.coder, w.at, w.i>>
          [] w.at = "PosSlot" ->
                <<w.at, IF w.len < kNumLenToPosStates THEN w.len
                        ELSE kNumLenToPosStates - 1, w.i>>
          [] w.at = "SpecPos" -> <<w.at, SpecPos(w.posSlot) + w.i>>
          [] w.at = "direct" -> << >>
          [] w.at = "Align" -> <<w.at, w.i>>

(* One level down a tree, or along one of whose levels `levels' remain.     *)
Deeper(w, bit) == [w EXCEPT !.i = 2 * @ + bit, !.left = @ - 1]
Into(w, label, levels) == [w EXCEPT !.at = label, !.i = 1, !.left = levels]
Then(w, rest) == IF w.left = 0 THEN rest ELSE w

RepLength(w, rep) == [w EXCEPT !.at = "choice", !.kind = "rep", !.coder = "RepLen",
                               !.rep = rep]

LengthEnds(w, len) ==
    LET v == [w EXCEPT !.len = len]
    IN  IF w.coder = "Len" THEN Into(v, "PosSlot", kNumPosSlotBits)
        ELSE [v EXCEPT !.at = "done"]

SlotEnds(w) ==
    LET posSlot == w.i - 2 ^ kNumPosSlotBits
        v == [w EXCEPT !.posSlot = posSlot, !.distance = posSlot]
    IN  IF posSlot < kStartPosModelIndex THEN [v EXCEPT !.at = "done"]
        ELSE IF posSlot < kEndPosModelIndex
        THEN Into([v EXCEPT !.distance = SlotBase(posSlot)], "SpecPos", FooterBits(posSlot))
        ELSE Into([v EXCEPT !.distance = 2 + (posSlot % 2)], "direct",
                  FooterBits(posSlot) - kNumAlignBits)

(* A bit of a reverse tree, the lowest first: node i tells which it is.     *)
ReverseBit(w, bit) ==
    LET n == CHOOSE k \in 0 .. FooterBits(2 ^ kNumPosSlotBits - 1) :
                2 ^ k <= w.i /\ w.i < 2 ^ (k + 1)
        v == Deeper([w EXCEPT !.distance = @ + bit * 2 ^ n], bit)
    IN  Then(v, [v EXCEPT !.at = "done"])

(* Where a bit leads.                                                       *)
Took(d, w, bit) ==
    LET deeper == Deeper(w, bit)
        to(label) == [w EXCEPT !.at = label]
    IN  CASE w.at = "IsMatch" ->
                IF bit = 1 THEN to("IsRep")
                ELSE Into([w EXCEPT !.offs = IF IsCharState(d.state) THEN 0 ELSE 1],
                          "literal", NumLitBits)
          [] w.at = "literal" ->
                LET agrees == IF bit = 1 THEN MatchBit(d, w)
                              ELSE w.offs - MatchBit(d, w)
                    v == [deeper EXCEPT !.offs = agrees]
                IN  Then(v, [v EXCEPT !.at = "done"])
          [] w.at = "IsRep" ->
                IF bit = 0 THEN [to("choice") EXCEPT !.kind = "match"] ELSE to("IsRepG0")
          [] w.at = "IsRepG0" -> IF bit = 0 THEN to("IsRep0Long") ELSE to("IsRepG1")
          [] w.at = "IsRep0Long" ->
                IF bit = 1 THEN RepLength(w, 0) ELSE [to("done") EXCEPT !.kind = "short"]
          [] w.at = "IsRepG1" -> IF bit = 0 THEN RepLength(w, 1) ELSE to("IsRepG2")
          [] w.at = "IsRepG2" -> RepLength(w, 2 + bit)
          [] w.at = "choice" ->
                IF bit = 0 THEN Into(w, "low", kLenNumLowBits) ELSE to("choice2")
          [] w.at = "choice2" ->
                IF bit = 0 THEN Into(w, "mid", kLenNumMidBits)
                ELSE Into(w, "high", kLenNumHighBits)
          [] w.at = "low" ->
                Then(deeper, LengthEnds(w, deeper.i - kLenNumLowSymbols))
          [] w.at = "mid" ->
                Then(deeper, LengthEnds(w, deeper.i - kLenNumMidSymbols + kLenNumLowSymbols))
          [] w.at = "high" ->
                Then(deeper, LengthEnds(w, (deeper.i - kLenNumHighSymbols)
                                           + kLenNumLowSymbols + kLenNumMidSymbols))
          [] w.at = "PosSlot" -> Then(deeper, SlotEnds(deeper))
          [] w.at = "direct" ->
                LET v == [w EXCEPT !.distance = 2 * @ + bit, !.left = @ - 1]
                IN  Then(v, Into([v EXCEPT !.distance = @ * 2 ^ kNumAlignBits],
                                 "Align", kNumAlignBits))
          [] w.at \in {"SpecPos", "Align"} -> ReverseBit(w, bit)

(* The decoder's last four distances, counted from 1 and all 1 at first.    *)
DecodedReps(reps, w) ==
    CASE w.kind \in {"literal", "short"} \/ (w.kind = "rep" /\ w.rep = 0) -> reps
      [] w.kind = "rep" /\ w.rep = 1 -> <<reps[2], reps[1], reps[3], reps[4]>>
      [] w.kind = "rep" /\ w.rep = 2 -> <<reps[3], reps[1], reps[2], reps[4]>>
      [] w.kind = "rep" /\ w.rep = 3 -> <<reps[4], reps[1], reps[2], reps[3]>>
      [] w.kind = "match" -> <<w.distance + 1, reps[1], reps[2], reps[3]>>

DecodedState(state, w) ==
    CASE w.kind = "literal" -> AfterLiteral(state)
      [] w.kind = "short" -> IF state < 7 THEN 9 ELSE 11
      [] w.kind = "rep" -> IF state < 7 THEN 8 ELSE 11
      [] w.kind = "match" -> IF state < 7 THEN 7 ELSE 10
=============================================================================
