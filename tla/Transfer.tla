------------------------------ MODULE Transfer ------------------------------
(***************************************************************************)
(* From symbols to bytes and back: the encoder's half                      *)
(* (LzmaEnc_CodeOneBlock from the symbol on, RangeEnc_ShiftLow), and the    *)
(* decoder's (module LzmaDecoder) fed with those bytes, or with a part of  *)
(* them, or with one of them changed.                                      *)
(*                                                                         *)
(* Which symbols are coded is the optimal parser's choice (module          *)
(* Optimum): here they come from Messages.                                 *)
(***************************************************************************)
EXTENDS RangeCoder, LzmaDecoder

CONSTANTS
    Messages,     \* sequences of symbols
    Amounts,      \* input pieces the decoder's caller hands over
    Rooms,        \* output room it offers
    Damaged(_)    \* what may become of the bytes on their way

ASSUME TransferAssumption ==
    /\ Contexts = AllContexts
    /\ Amounts \subseteq Nat /\ Rooms \subseteq Nat \ {0}
    /\ 2 ^ MostDirects >= Base    \* an end mark takes a byte of its own

VARIABLES
    message,      \* the symbols still to be coded
    text,         \* what they stand for, as far as they are coded
    reps, state,  \* p->reps, p->state
    todo,         \* decisions of the current symbol
    writeEndMark, finished,
    meaning       \* what the bytes delivered stand for

evars == <<message, text, reps, state, todo, writeEndMark, finished>>
vars == <<rcVars, dvars, evars, meaning>>

Last(s) == s[Len(s)]

EncoderKnows ==
    [state |-> state, pos |-> Len(text),
     prevByte |-> IF text = << >> THEN 0 ELSE Last(text),
     matchByte |-> IF IsCharState(state) THEN 0 ELSE text[Len(text) - reps[1]]]

(* What the parser may choose: a byte, a repetition of one of the last four *)
(* distances, or a match; and the end mark, which it may not.               *)
Literals == {[pos |-> -1, len |-> 1, byte |-> b] : b \in 0 .. 2 ^ NumLitBits - 1}
LongReps == [pos : 0 .. 3, len : 2 .. kMatchSpecLenStart - 1, byte : {0}]
Matches == [pos : 4 .. EndDistance + 3, len : 2 .. kMatchSpecLenStart - 1, byte : {0}]
ShortRep == [pos |-> 0, len |-> 1, byte |-> 0]
EndMarker == [pos |-> EndMark, len |-> 2, byte |-> 0]
Symbols == Literals \cup LongReps \cup Matches \cup {ShortRep, EndMarker}

(* The parser's symbols lead back to the text (module Optimum,              *)
(* SymbolsMakeText).                                                        *)
Fits(sym) ==
    /\ sym \in Symbols /\ sym.pos # EndMark
    /\ sym.pos \in 0 .. 3 => reps[sym.pos + 1] < Len(text)
    /\ sym.pos > 3 => sym.pos - LZMA_NUM_REPS < Len(text)

(* LzmaEnc_CodeOneBlock with one symbol of the parser's, or the end mark    *)
(* that Flush writes.                                                       *)
CodeSymbol(sym) ==
    /\ todo' = Decisions(EncoderKnows, sym)
    /\ state' = StateAfter(state, sym)
    /\ reps' = RepsAfter(reps, sym)
    /\ text' = TextAfter(text, RepsAfter(reps, sym)[1], sym)

CodeNext ==
    /\ todo = << >> /\ message # << >>
    /\ Fits(Head(message))
    /\ CodeSymbol(Head(message))
    /\ message' = Tail(message)
    /\ UNCHANGED <<rcVars, dvars, writeEndMark, finished, meaning>>

Flush ==
    /\ todo = << >> /\ message = << >> /\ ~finished
    /\ finished' = TRUE
    /\ IF writeEndMark THEN CodeSymbol(EndMarker)
       ELSE UNCHANGED <<todo, state, reps, text>>
    /\ UNCHANGED <<rcVars, dvars, message, writeEndMark, meaning>>

CodeDecision ==
    /\ todo # << >>
    /\ IF Head(todo).context = << >> THEN EncodeDirectBit(Head(todo).bit)
       ELSE EncodeBit(Head(todo).context, Head(todo).bit)
    /\ todo' = Tail(todo)
    /\ UNCHANGED <<dvars, message, text, reps, state, writeEndMark, finished, meaning>>

FlushRange ==
    /\ finished /\ todo = << >>
    /\ FlushData
    /\ UNCHANGED <<dvars, evars, meaning>>
-----------------------------------------------------------------------------
(* What bytes b stand for, read at once and with all the text at hand: the  *)
(* reference for the decoder, which gets them in pieces and keeps the last  *)
(* DicBufSize bytes of the text.  need, give, end and endAt are as in       *)
(* module StreamDecoder; end is "open" as long as there is more to read.    *)
Beginning(b) ==
    [text |-> << >>, need |-> << >>, give |-> << >>, state |-> 0, reps |-> <<1, 1, 1, 1>>,
     coder |-> [range |-> Word - 1, buf |-> RcInitSize, probs |-> ProbsAlwaysReset,
                code |-> IF Len(b) < RcInitSize THEN 0
                         ELSE ((b[2] * Base + b[3]) * Base + b[4]) * Base + b[5]],
     end |-> IF Len(b) < RcInitSize THEN "none" ELSE IF b[1] # 0 THEN "bad" ELSE "open",
     endAt |-> RcInitSize]

KnownAfter(m) ==
    [state |-> m.state, pos |-> Len(m.text),
     prevByte |-> IF m.text = << >> THEN 0 ELSE Last(m.text),
     matchByte |-> IF IsCharState(m.state) THEN 0
                   ELSE m.text[Len(m.text) - m.reps[1] + 1]]

SymbolOf(w) ==
    [pos |-> IF w.kind = "literal" THEN -1 ELSE 0,
     len |-> Whole(w),
     byte |-> IF w.kind = "literal" THEN w.i - 2 ^ NumLitBits ELSE 0]

LeadsNowhere(n, w) ==
    \/ w.kind \in {"rep", "short"} /\ n = 0
    \/ w.kind = "match" /\ (w.distance >= n \/ w.distance >= DicBufSize)

ReadSymbol(b, m) ==
    LET walk == CHOOSE x \in SymbolWalks(KnownAfter(m), m.coder, b) : TRUE
        w == walk.w
        after == Normalized(walk.coder, b)
        rs == DecodedReps(m.reps, w)
        t == TextAfter(m.text, rs[1] - 1, SymbolOf(w))
        ends(how) == [m EXCEPT !.end = how, !.endAt = after.buf]
    IN  IF m.end # "open" THEN m
        ELSE IF after.buf > Len(b) THEN [m EXCEPT !.end = "none"]
        ELSE IF Mark(w) THEN ends(IF after.code = 0 THEN "mark" ELSE "bad")
        ELSE IF LeadsNowhere(Len(m.text), w) THEN ends("bad")
        ELSE [m EXCEPT !.text = t, !.coder = after,
                       !.need = Append(@, after.buf), !.give = Append(@, Len(t)),
                       !.state = DecodedState(@, w), !.reps = rs]

(* Each symbol takes some of the interval, or a byte.                       *)
MostSymbols(b) == (Len(b) + 1) * Word

Readings(b) ==
    LET read[n \in 0 .. MostSymbols(b)] ==
            IF n = 0 THEN Beginning(b) ELSE ReadSymbol(b, read[n - 1])
    IN  read

Meaning(b) ==
    LET read == Readings(b)
    IN  read[CHOOSE n \in 0 .. MostSymbols(b) : read[n].end # "open"]

NotDelivered == [end |-> "none"]

(* The bytes reach the decoder, unharmed or not.                            *)
Deliver ==
    /\ flushed = FlushShifts /\ meaning = NotDelivered
    /\ \E b \in {out} \cup Damaged(out) : b \in Seq(0 .. Base - 1) /\ Receive(b)
    /\ meaning' = Meaning(bytes')
    /\ UNCHANGED <<rcVars, evars>>

Init ==
    /\ RangeInit
    /\ DecoderInit(<< >>)
    /\ message \in Messages
    /\ text = << >> /\ reps = <<0, 0, 0, 0>> /\ state = 0
    /\ todo = << >>
    /\ writeEndMark \in BOOLEAN /\ finished = FALSE
    /\ meaning = NotDelivered

(* The caller hands over what it likes, but never nothing.                  *)
Ask ==
    /\ meaning # NotDelivered
    /\ \E amt \in Amounts \cup {Len(bytes) - taken}, dst \in Rooms :
        amt > 0 /\ Call(amt, dst)
    /\ UNCHANGED <<rcVars, evars, meaning>>

Decode == Decoding /\ UNCHANGED <<rcVars, evars, meaning>>

Next == CodeNext \/ Flush \/ CodeDecision \/ FlushRange \/ Deliver \/ Ask \/ Decode

(* The decoder runs on when it has been called.                             *)
Spec == Init /\ [][Next]_vars /\ WF_vars(Decode)
-----------------------------------------------------------------------------
(* Whatever symbol the parser chooses next, the decoder reads it back from  *)
(* the contexts and bits it is coded with (LzmaEnc_CodeOneBlock against     *)
(* LzmaDec_DecodeReal), and both sides then agree on state and distances.   *)
Follow(knows, w, decision) ==
    IF w.at = "lost" THEN w
    ELSE IF Done(w) \/ ContextOf(knows, w) # decision.context
    THEN [w EXCEPT !.at = "lost"]
    ELSE Took(knows, w, decision.bit)

ReadBack(knows, decisions) ==
    LET w[k \in 0 .. Len(decisions)] ==
            IF k = 0 THEN WalkStart ELSE Follow(knows, w[k - 1], decisions[k])
    IN  w[Len(decisions)]

Denotes(w, sym) ==
    CASE sym.pos = -1 -> w.kind = "literal" /\ w.i = 2 ^ NumLitBits + sym.byte
      [] sym.pos = 0 /\ sym.len = 1 -> w.kind = "short"
      [] sym.pos \in 0 .. 3 /\ sym.len > 1 ->
            w.kind = "rep" /\ w.rep = sym.pos /\ w.len = sym.len - LZMA_MATCH_LEN_MIN
      [] sym.pos \notin -1 .. 3 ->
            /\ w.kind = "match" /\ w.len = sym.len - LZMA_MATCH_LEN_MIN
            /\ w.distance = IF sym.pos = EndMark THEN EndDistance
                            ELSE sym.pos - LZMA_NUM_REPS

SymbolsReadBack ==
    todo = << >> /\ ~finished =>
        \A sym \in Symbols :
            LET knows == EncoderKnows
                w == ReadBack(knows, Decisions(knows, sym))
                up(rs) == [i \in 1 .. LZMA_NUM_REPS |-> rs[i] + 1]
            IN  /\ Done(w) /\ Denotes(w, sym)
                /\ sym.pos # EndMark =>
                    /\ DecodedState(state, w) = StateAfter(state, sym)
                    /\ DecodedReps(up(reps), w) = up(RepsAfter(reps, sym))

(* What arrives unharmed means what was coded: the text, and its end mark   *)
(* at the last byte that RangeEnc_FlushData writes.                         *)
MeaningIsText ==
    meaning # NotDelivered /\ bytes = out =>
        /\ meaning.text = text
        /\ meaning.end = IF writeEndMark THEN "mark" ELSE "none"
        /\ writeEndMark => meaning.endAt = Len(out)
        /\ ~writeEndMark /\ text # << >> => Last(meaning.need) = Len(out)

(* What the decoder gives out is what the bytes stand for, whatever pieces  *)
(* they came in and however the dictionary wrapped around meanwhile.        *)
OutputIsMeaning ==
    meaning # NotDelivered =>
        /\ Len(output) <= Len(meaning.text)
        /\ output = SubSeq(meaning.text, 1, Len(output))

(* LzmaDecoder implements the contract that module Decompress relies on.    *)
Contract == INSTANCE DecoderContract WITH
    stream <- IF meaning = NotDelivered THEN [end |-> "unknown"]
              ELSE [need |-> meaning.need, give |-> meaning.give, end |-> meaning.end,
                    endAt |-> meaning.endAt],
    fed <- IF pc = "idle" /\ ret.ok THEN taken ELSE asked.fed,
    made <- IF pc = "idle" /\ ret.ok THEN Len(output) ELSE asked.made,
    busy <- pc # "idle",
    amt <- asked.amt, dst <- asked.dst,
    stat <- IF pc = "idle" /\ ret.ok THEN ret.status ELSE "NOT_SPECIFIED",
    ok <- pc # "idle" \/ ret.ok

ImplementsContract == Contract!Spec
=============================================================================
