----------------------------- MODULE LzmaDecoder -----------------------------
(***************************************************************************)
(* LzmaDec_DecodeToBuf and all that it calls (src/src/pavlov/LzmaDec.c):   *)
(* the range decoder, the symbols, the cyclic dictionary, and the pieces   *)
(* of any size in which the input arrives and the output is taken away.    *)
(*                                                                         *)
(* The C function is a nest of loops; each step here is one round of one   *)
(* of them, and pc says of which:                                          *)
(*   "idle"    the caller's turn                                           *)
(*   "toBuf"   the loop of LzmaDec_DecodeToBuf                             *)
(*   "toDic"   the loop of LzmaDec_DecodeToDic                             *)
(*   "real"    the loop of LzmaDec_DecodeReal, one symbol a step           *)
(*   "stored"  the end of a round of LzmaDec_DecodeReal2                   *)
(*   "leave"   LzmaDec_DecodeToDic has returned                            *)
(*                                                                         *)
(* finishMode is always LZMA_FINISH_ANY (src/src/decompress.c:175).        *)
(***************************************************************************)
EXTENDS SymbolWalk, BitModel

CONSTANTS
    DicBufSize,                 \* p->dicBufSize, which is p->prop.dicSize
    RcInitSize,                 \* RC_INIT_SIZE
    LZMA_REQUIRED_INPUT_MAX     \* 20

ASSUME DecoderAssumption ==
    /\ DicBufSize \in Nat \ {0}
    /\ RcInitSize = 5
    /\ LZMA_REQUIRED_INPUT_MAX \in Nat /\ RcInitSize <= LZMA_REQUIRED_INPUT_MAX
    /\ kTopValue % kBitModelTotal = 0 /\ kTopValue % 2 = 0

(* The input one symbol takes at most, if its decisions all go the way that *)
(* leaves least of the interval: they are adaptive but for `directs' after  *)
(* the slot.                                                                *)
Narrowed(c, direct) ==
    LET range == IF direct THEN c.range \div 2
                 ELSE (c.range \div kBitModelTotal) * (MoveScale - 1)
    IN  IF range >= kTopValue THEN [range |-> range, buf |-> c.buf]
        ELSE [range |-> range * Base, buf |-> c.buf + 1]

Narrowest(directs) ==
    LET left[n \in 0 .. MaxDecisions] ==
            IF n = 0 THEN [range |-> kTopValue, buf |-> 0]
            ELSE Narrowed(left[n - 1], n - 1 \in SlotDecisions .. SlotDecisions + directs - 1)
    IN  left

MostDirects == FooterBits(2 ^ kNumPosSlotBits - 1) - kNumAlignBits

ASSUME RequiredInputAssumption ==
    /\ Narrowest(0)[SlotDecisions + FooterBits(kEndPosModelIndex - 1)].buf
            <= LZMA_REQUIRED_INPUT_MAX
    /\ Narrowest(MostDirects)[MaxDecisions].buf <= LZMA_REQUIRED_INPUT_MAX

VARIABLES
    bytes,      \* the compressed stream, of which the caller hands out pieces
    taken,      \* bytes of it the decoder has taken (srcLen), over all calls
    output,     \* what the decoder has made, over all calls
    p,          \* CLzmaDec, without its arrays
    dic, dprobs, tempBuf,
    pc,
    io,         \* inSize, outSize, and of the innermost call dicPos, dicLimit
    asked,      \* taken, Len(output), and what was asked for, at the call
    r,          \* the locals of LzmaDec_DecodeReal
    ret         \* what the call returns: status, ok

dvars == <<bytes, taken, output, p, dic, dprobs, tempBuf, pc, io, asked, r, ret>>

Unwritten == -1     \* what a cell of dic holds before it is written

(* LzmaDec_Init.  LzmaDec_InitStateReal waits for the first symbol.         *)
InitialDec ==
    [range |-> 0, code |-> 0, dicPos |-> 0, processedPos |-> 0,
     checkDicSize |-> 0, state |-> 0, reps |-> <<0, 0, 0, 0>>,
     remainLen |-> 0, needFlush |-> TRUE, needInitState |-> TRUE]

NoCall == [inSize |-> 0, outSize |-> 0, dicPos |-> 0, dicLimit |-> 0]
NoAsk == [fed |-> 0, made |-> 0, amt |-> 0, dst |-> 0]
NoLocals == [limit |-> 0, bufLimit |-> 0, buf |-> 0, fromTemp |-> FALSE, dec |-> InitialDec]

DecoderInit(stream) ==
    /\ bytes = stream
    /\ taken = 0 /\ output = << >>
    /\ p = InitialDec
    /\ dic = [i \in 0 .. DicBufSize - 1 |-> Unwritten]
    /\ dprobs = [c \in AllContexts |-> 0]
    /\ tempBuf = << >>
    /\ pc = "idle" /\ io = NoCall /\ asked = NoAsk
    /\ r = NoLocals
    /\ ret = [status |-> "NOT_SPECIFIED", ok |-> TRUE]
-----------------------------------------------------------------------------
(* The cell from which a byte at distance rep0 is copied to cell pos.       *)
Behind(pos, rep0) == (pos - rep0) + (IF pos < rep0 THEN DicBufSize ELSE 0)

(* What the symbol at hand depends on.                                      *)
Known(d, dict) ==
    LET empty == d.checkDicSize = 0 /\ d.processedPos = 0
    IN  [state |-> d.state,
         pos |-> d.processedPos,
         prevByte |-> IF empty THEN 0
                      ELSE dict[(IF d.dicPos = 0 THEN DicBufSize ELSE d.dicPos) - 1],
         matchByte |-> IF IsCharState(d.state) THEN 0
                       ELSE dict[Behind(d.dicPos, d.reps[1])]]

(* NORMALIZE.  A byte past the end of the input can be anything; here it is *)
(* 0, and buf tells.                                                        *)
Normalized(c, input) ==
    IF c.range >= kTopValue THEN c
    ELSE [c EXCEPT !.range = @ * Base,
                   !.code = (@ * Base
                             + (IF c.buf < Len(input) THEN input[c.buf + 1] ELSE 0)) % Word,
                   !.buf = @ + 1]

(* IF_BIT_0 ... UPDATE_0 ... UPDATE_1.                                      *)
AdaptiveBit(c, context) ==
    LET prob == c.probs[context]
        bound == NewBound(c.range, prob)
        bit == IF c.code < bound THEN 0 ELSE 1
    IN  [bit |-> bit,
         coder |-> IF bit = 0 THEN [c EXCEPT !.range = bound,
                                             !.probs[context] = Moved(prob, 0)]
                   ELSE [c EXCEPT !.range = @ - bound, !.code = @ - bound,
                                  !.probs[context] = Moved(prob, 1)]]

(* A direct bit: the sign of code - range / 2 decides.                      *)
DirectBit(c) ==
    LET half == c.range \div 2
        code == (c.code - half) % Word
    IN  IF code >= Word \div 2
        THEN [bit |-> 0, coder |-> [c EXCEPT !.range = half]]
        ELSE [bit |-> 1, coder |-> [c EXCEPT !.range = half, !.code = code]]

(* One decision, and all of them to the end of the symbol: the set of where *)
(* they can end, which has one element.                                     *)
Decided(d, at, input) ==
    LET n == Normalized(at.coder, input)
        context == ContextOf(d, at.w)
        step == IF context = << >> THEN DirectBit(n) ELSE AdaptiveBit(n, context)
    IN  [w |-> Took(d, at.w, step.bit), coder |-> step.coder]

Stepped(d, at, input) == IF Done(at.w) THEN at ELSE Decided(d, at, input)

SymbolWalks(d, coder, input) ==
    LET walk[n \in 0 .. MaxDecisions] ==
            IF n = 0 THEN {[w |-> WalkStart, coder |-> coder]}
            ELSE {Stepped(d, at, input) : at \in walk[n - 1]}
    IN  walk[MaxDecisions]

(* LzmaDec_TryDummy: whether the input holds the next symbol and the        *)
(* normalization behind it.  (It leaves the probabilities alone; no         *)
(* decision of a symbol is made with one that an earlier one has moved.     *)
(* The code writes the walk out a second time, LzmaDec.c:495-683; here both *)
(* are SymbolWalks, and only the normalizations at the end are separate.)   *)
TryDummyUnnormalized(d, dict, probs, input) ==
    \E walk \in SymbolWalks(Known(d, dict),
                            [range |-> d.range, code |-> d.code, buf |-> 0, probs |-> probs],
                            input) :
        walk.coder.buf <= Len(input)

TryDummy(d, dict, probs, input) ==
    \E walk \in SymbolWalks(Known(d, dict),
                            [range |-> d.range, code |-> d.code, buf |-> 0, probs |-> probs],
                            input) :
        Normalized(walk.coder, input).buf <= Len(input)

(* LzmaDec_WriteRem: the part of a match that an earlier limit cut off.     *)
Copied(dict, from, len, rep0) ==
    LET cell[k \in 0 .. len] ==
            IF k = 0 THEN dict
            ELSE [cell[k - 1] EXCEPT
                    ![from + k - 1] = cell[k - 1][Behind(from + k - 1, rep0)]]
    IN  cell[len]

AtMost(a, b) == IF a < b THEN a ELSE b

RemLenUnlimited(d, limit) ==
    IF d.remainLen \in 1 .. kMatchSpecLenStart - 1 THEN d.remainLen ELSE 0

RemLen(d, limit) ==
    IF d.remainLen \in 1 .. kMatchSpecLenStart - 1
    THEN AtMost(d.remainLen, limit - d.dicPos) ELSE 0

WriteRem(d, limit) ==
    LET len == RemLen(d, limit)
    IN  [d EXCEPT
            !.checkDicSize = IF /\ d.remainLen \in 1 .. kMatchSpecLenStart - 1
                                /\ @ = 0 /\ DicBufSize - d.processedPos <= len
                             THEN DicBufSize ELSE @,
            !.processedPos = @ + len,
            !.remainLen = @ - len,
            !.dicPos = @ + len]
-----------------------------------------------------------------------------
(* More of the stream reaches the caller, ...                               *)
Receive(more) ==
    /\ pc = "idle"
    /\ bytes' = bytes \o more
    /\ UNCHANGED <<taken, output, p, dic, dprobs, tempBuf, pc, io, asked, r, ret>>

(* ... who hands over the next amt bytes and asks for up to dst.            *)
Call(amt, dst) ==
    /\ pc = "idle" /\ ret.ok
    /\ taken + amt <= Len(bytes)
    /\ io' = [io EXCEPT !.inSize = amt, !.outSize = dst]
    /\ asked' = [fed |-> taken, made |-> Len(output), amt |-> amt, dst |-> dst]
    /\ pc' = "toBuf"
    /\ UNCHANGED <<bytes, taken, output, p, dic, dprobs, tempBuf, r, ret>>

(* A round of LzmaDec_DecodeToBuf: the dictionary is cyclic, a call of      *)
(* LzmaDec_DecodeToDic fills it to its end at most.  WriteRem comes first.  *)
EnterDecodeToDic ==
    /\ pc = "toBuf"
    /\ LET pos == IF p.dicPos = DicBufSize THEN 0 ELSE p.dicPos
           limit == AtMost(DicBufSize, pos + io.outSize)
           at == [p EXCEPT !.dicPos = pos]
       IN  /\ io' = [io EXCEPT !.dicPos = pos, !.dicLimit = limit]
           /\ p' = WriteRem(at, limit)
           /\ dic' = Copied(dic, pos, RemLen(at, limit), p.reps[1])
    /\ ret' = [ret EXCEPT !.status = "NOT_SPECIFIED"]
    /\ pc' = "toDic"
    /\ UNCHANGED <<bytes, asked, taken, output, dprobs, tempBuf, r>>

Leave(status, ok) ==
    /\ ret' = [status |-> status, ok |-> ok]
    /\ pc' = "leave"

(* The end mark has been met.                                               *)
MarkMet ==
    /\ pc = "toDic"
    /\ p.remainLen = kMatchSpecLenStart
    /\ IF p.code = 0 THEN Leave("FINISHED_WITH_MARK", TRUE) ELSE Leave("NOT_SPECIFIED", FALSE)
    /\ UNCHANGED <<bytes, asked, taken, output, p, dic, dprobs, tempBuf, io, r>>

(* The bytes that start the range decoder, LzmaDec_InitRc.                  *)
StartRangeDecoder ==
    /\ pc = "toDic"
    /\ p.remainLen # kMatchSpecLenStart /\ p.needFlush
    /\ LET n == AtMost(io.inSize, RcInitSize - Len(tempBuf))
           start == tempBuf \o SubSeq(bytes, taken + 1, taken + n)
       IN  /\ taken' = taken + n
           /\ io' = [io EXCEPT !.inSize = @ - n]
           /\ \/ /\ Len(start) < RcInitSize
                 /\ tempBuf' = start /\ p' = p
                 /\ Leave("NEEDS_MORE_INPUT", TRUE)
              \/ /\ Len(start) = RcInitSize /\ start[1] # 0
                 /\ tempBuf' = start /\ p' = p
                 /\ Leave("NOT_SPECIFIED", FALSE)
              \/ /\ Len(start) = RcInitSize /\ start[1] = 0
                 /\ tempBuf' = << >>
                 /\ p' = [p EXCEPT !.needFlush = FALSE,
                                   !.range = Word - 1,
                                   !.code = ((start[2] * Base + start[3]) * Base
                                             + start[4]) * Base + start[5]]
                 /\ UNCHANGED <<pc, ret>>
    /\ UNCHANGED <<bytes, asked, output, dic, dprobs, r>>

(* No room is left.  (MAYBE_FINISHED_WITHOUT_MARK when code is 0.)          *)
LimitMet ==
    /\ pc = "toDic"
    /\ p.remainLen # kMatchSpecLenStart /\ ~p.needFlush
    /\ p.dicPos >= io.dicLimit
    /\ Leave("NOT_FINISHED", TRUE)
    /\ UNCHANGED <<bytes, asked, taken, output, p, dic, dprobs, tempBuf, io, r>>

(* LzmaDec_InitStateReal.                                                   *)
StateReady == IF p.needInitState
              THEN [p EXCEPT !.needInitState = FALSE, !.reps = <<1, 1, 1, 1>>, !.state = 0]
              ELSE p

ProbsAlwaysReset == [c \in AllContexts |-> kProbInitValue]

ProbsReady == IF p.needInitState THEN [c \in AllContexts |-> kProbInitValue]
              ELSE dprobs

(* LzmaDec_DecodeReal2 sets the limit so that no symbol begins with the     *)
(* dictionary full and checkDicSize not set.                                *)
RealLimit(d) ==
    IF d.checkDicSize = 0
    THEN AtMost(io.dicLimit, d.dicPos + (DicBufSize - d.processedPos))
    ELSE io.dicLimit

EnterReal(d, bufLimit, fromTemp) ==
    /\ r' = [limit |-> RealLimit(d), bufLimit |-> bufLimit, buf |-> 0,
             fromTemp |-> fromTemp, dec |-> d]
    /\ pc' = "real"

Ready ==
    /\ pc = "toDic"
    /\ p.remainLen # kMatchSpecLenStart /\ ~p.needFlush
    /\ p.dicPos < io.dicLimit

(* The input at hand.                                                       *)
Source == SubSeq(bytes, taken + 1, taken + io.inSize)

(* Symbols are decoded from the caller's input as long as any symbol would  *)
(* fit in what is left of it, and then one by one after a trial.  One that  *)
(* is not complete goes to tempBuf.                                         *)
DecodeFromSource ==
    /\ Ready /\ tempBuf = << >>
    /\ p' = StateReady /\ dprobs' = ProbsReady
    /\ \/ /\ io.inSize < LZMA_REQUIRED_INPUT_MAX
          /\ ~TryDummy(StateReady, dic, ProbsReady, Source)
          /\ tempBuf' = Source
          /\ taken' = taken + io.inSize
          /\ io' = [io EXCEPT !.inSize = 0]
          /\ Leave("NEEDS_MORE_INPUT", TRUE)
          /\ r' = r
       \/ /\ io.inSize < LZMA_REQUIRED_INPUT_MAX
          /\ TryDummy(StateReady, dic, ProbsReady, Source)
          /\ EnterReal(StateReady, 0, FALSE)
          /\ UNCHANGED <<tempBuf, taken, io, ret>>
       \/ /\ io.inSize >= LZMA_REQUIRED_INPUT_MAX
          /\ EnterReal(StateReady, io.inSize - LZMA_REQUIRED_INPUT_MAX, FALSE)
          /\ UNCHANGED <<tempBuf, taken, io, ret>>
    /\ UNCHANGED <<bytes, asked, output, dic>>

(* tempBuf is filled up from the input and its one symbol decoded.          *)
DecodeFromTemp ==
    /\ Ready /\ tempBuf # << >>
    /\ LET n == AtMost(io.inSize, LZMA_REQUIRED_INPUT_MAX - Len(tempBuf))
           filled == tempBuf \o SubSeq(bytes, taken + 1, taken + n)
       IN  /\ tempBuf' = filled
           /\ p' = StateReady /\ dprobs' = ProbsReady
           /\ \/ /\ Len(filled) < LZMA_REQUIRED_INPUT_MAX
                 /\ ~TryDummy(StateReady, dic, ProbsReady, filled)
                 /\ taken' = taken + n
                 /\ io' = [io EXCEPT !.inSize = @ - n]
                 /\ Leave("NEEDS_MORE_INPUT", TRUE)
                 /\ r' = r
              \/ /\ \/ Len(filled) >= LZMA_REQUIRED_INPUT_MAX
                    \/ TryDummy(StateReady, dic, ProbsReady, filled)
                 /\ EnterReal(StateReady, 0, TRUE)
                 /\ taken' = taken + n
                 /\ io' = [io EXCEPT !.inSize = @ - n]
                 /\ ret' = ret
    /\ UNCHANGED <<bytes, asked, output, dic>>

(* What LzmaDec_DecodeReal refuses: a repetition before anything, and a     *)
(* distance to what has not been written or is no longer kept.              *)
RefusedWhenFull(d, w) ==
    \/ w.kind \in {"rep", "short"} /\ d.checkDicSize = 0 /\ d.processedPos = 0
    \/ w.kind = "match" /\ w.distance >= DicBufSize
    \/ w.kind \in {"match", "rep"} /\ r.limit = d.dicPos

Refused(d, w) ==
    \/ w.kind \in {"rep", "short"} /\ d.checkDicSize = 0 /\ d.processedPos = 0
    \/ /\ w.kind = "match"
       /\ w.distance >= (IF d.checkDicSize = 0 THEN d.processedPos ELSE d.checkDicSize)
    \/ w.kind \in {"match", "rep"} /\ r.limit = d.dicPos

(* Its loop goes on.                                                        *)
MoreReal(d, buf) == d.dicPos < r.limit /\ buf < r.bufLimit

Input == IF r.fromTemp THEN tempBuf ELSE Source

(* What a symbol stands for, of which limit may cut off a part, ...         *)
Mark(w) == w.kind = "match" /\ w.distance = EndDistance

Whole(w) ==
    CASE w.kind \in {"literal", "short"} -> 1
      [] Mark(w) -> 0
      [] OTHER -> w.len + LZMA_MATCH_LEN_MIN

Part(d, w, limit) == AtMost(Whole(w), limit - d.dicPos)

(* ... what it leaves of the decoder, c being the range decoder's, ...      *)
After(d, w, c, limit) ==
    [d EXCEPT !.range = c.range, !.code = c.code,
              !.dicPos = @ + Part(d, w, limit), !.processedPos = @ + Part(d, w, limit),
              !.state = IF Mark(w) THEN @ ELSE DecodedState(@, w),
              !.reps = IF Mark(w) THEN @ ELSE DecodedReps(@, w),
              !.remainLen = IF Mark(w) THEN kMatchSpecLenStart + w.len
                            ELSE Whole(w) - Part(d, w, limit)]

(* ... and of the dictionary.                                               *)
Written(d, w, dict, limit) ==
    IF w.kind = "literal" THEN [dict EXCEPT ![d.dicPos] = w.i - 2 ^ NumLitBits]
    ELSE Copied(dict, d.dicPos, Part(d, w, limit), DecodedReps(d.reps, w)[1])

(* One symbol.  What an error leaves in the arrays is not looked at again.  *)
SymbolDecoded(d, w, c) ==
    /\ dprobs' = c.probs
    /\ \/ /\ ~Mark(w) /\ Refused(d, w)
          /\ Leave("NOT_SPECIFIED", FALSE)
          /\ UNCHANGED <<dic, r>>
       \/ /\ Mark(w) \/ ~Refused(d, w)
          /\ dic' = Written(d, w, dic, r.limit)
          /\ IF ~Mark(w) /\ MoreReal(After(d, w, c, r.limit), c.buf)
             THEN /\ r' = [r EXCEPT !.dec = After(d, w, c, r.limit), !.buf = c.buf]
                  /\ pc' = pc
             ELSE /\ r' = [r EXCEPT !.dec = After(d, w, Normalized(c, Input), r.limit),
                                    !.buf = Normalized(c, Input).buf]
                  /\ pc' = "stored"
          /\ ret' = ret

DecodeSymbol ==
    /\ pc = "real"
    /\ \E walk \in SymbolWalks(Known(r.dec, dic),
                               [range |-> r.dec.range, code |-> r.dec.code, buf |-> r.buf,
                                probs |-> dprobs], Input) :
          SymbolDecoded(r.dec, walk.w, walk.coder)
    /\ UNCHANGED <<bytes, asked, taken, output, p, tempBuf, io>>

(* LzmaDec_DecodeReal has stored its locals; LzmaDec_DecodeReal2 goes on,   *)
(* or LzmaDec_DecodeToDic accounts for the input that was used.             *)
FullDictionary(d) ==
    [d EXCEPT !.checkDicSize = IF d.processedPos >= DicBufSize THEN DicBufSize ELSE @]

UnreadForgotten(buf) == 0
UnreadOfTemp(buf) == Len(tempBuf) - buf

StoreReal ==
    /\ pc = "stored"
    /\ LET full == FullDictionary(r.dec)
           d == WriteRem(full, io.dicLimit)
       IN  /\ dic' = Copied(dic, full.dicPos, RemLen(full, io.dicLimit), full.reps[1])
           /\ IF d.dicPos < io.dicLimit /\ r.buf < r.bufLimit
                 /\ d.remainLen < kMatchSpecLenStart
              THEN /\ p' = d
                   /\ r' = [r EXCEPT !.limit = RealLimit(d), !.dec = d]
                   /\ pc' = "real"
                   /\ UNCHANGED <<taken, tempBuf, io>>
              ELSE /\ p' = [d EXCEPT !.remainLen = AtMost(@, kMatchSpecLenStart)]
                   /\ r' = NoLocals
                   /\ pc' = "toDic"
                   /\ taken' = IF r.fromTemp THEN taken - UnreadOfTemp(r.buf)
                               ELSE taken + r.buf
                   /\ io' = [io EXCEPT !.inSize = IF r.fromTemp THEN @ + UnreadOfTemp(r.buf)
                                                  ELSE @ - r.buf]
                   /\ tempBuf' = << >>
    /\ UNCHANGED <<bytes, asked, output, dprobs, ret>>

(* LzmaDec_DecodeToDic has returned: LzmaDec_DecodeToBuf copies what is new *)
(* in the dictionary to the caller's buffer.                                *)
AgainAlways(made) == ret.ok /\ io.outSize > made
Again(made) == ret.ok /\ made > 0 /\ io.outSize > made

LeaveDecodeToDic ==
    /\ pc = "leave"
    /\ LET made == p.dicPos - io.dicPos
       IN  /\ output' = output \o [i \in 1 .. made |-> dic[io.dicPos + i - 1]]
           /\ io' = IF Again(made) THEN [io EXCEPT !.outSize = @ - made] ELSE NoCall
           /\ pc' = IF Again(made) THEN "toBuf" ELSE "idle"
    /\ UNCHANGED <<bytes, asked, taken, p, dic, dprobs, tempBuf, r, ret>>

Decoding == EnterDecodeToDic \/ MarkMet \/ StartRangeDecoder \/ LimitMet
            \/ DecodeFromSource \/ DecodeFromTemp \/ DecodeSymbol \/ StoreReal
            \/ LeaveDecodeToDic

(* The decoder by itself, whatever the stream holds and its caller does.    *)
DecoderNext ==
    \/ \E more \in Seq(0 .. Base - 1) : Receive(more)
    \/ \E amt, dst \in Nat : Call(amt, dst)
    \/ Decoding

DecoderSpec == DecoderInit(<< >>) /\ [][DecoderNext]_dvars
-----------------------------------------------------------------------------
DecoderTypeOK ==
    /\ taken \in 0 .. Len(bytes)
    /\ p.range \in 0 .. Word - 1 /\ p.code \in 0 .. Word - 1
    /\ p.dicPos \in 0 .. DicBufSize
    /\ p.processedPos \in Nat
    /\ p.checkDicSize \in {0, DicBufSize}
    /\ p.state \in 0 .. 11
    /\ p.reps \in Seq(Nat) /\ Len(p.reps) = LZMA_NUM_REPS
    /\ p.remainLen \in 0 .. kMatchSpecLenStart
    /\ Len(tempBuf) <= LZMA_REQUIRED_INPUT_MAX
    /\ pc \in {"idle", "toBuf", "toDic", "real", "stored", "leave"}
    /\ io.inSize \in Nat /\ io.outSize \in Nat /\ io.dicLimit \in 0 .. DicBufSize
    /\ \A c \in AllContexts : dprobs[c] \in Probabilities \cup {0}

(* The unchecked NORMALIZE of LzmaDec_DecodeReal never goes past the input: *)
(* a trial, or the margin of LZMA_REQUIRED_INPUT_MAX bytes, came first, and *)
(* no symbol takes more than that.                                          *)
NeverOverreads ==
    pc \in {"real", "stored"} => r.buf <= Len(Input)

(* Only bytes that were written are copied, given out, or decide contexts,  *)
(* whatever the stream holds: checkDicSize and the distances are kept so.   *)
OnlyWrittenIsRead ==
    /\ \A i \in DOMAIN output : output[i] # Unwritten
    /\ pc = "real" => /\ Known(r.dec, dic).prevByte # Unwritten
                      /\ Known(r.dec, dic).matchByte # Unwritten

(* Every call returns, however input and room are cut up.                   *)
CallsReturn == (pc # "idle") ~> (pc = "idle")
=============================================================================
