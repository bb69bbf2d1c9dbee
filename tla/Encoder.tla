------------------------------ MODULE Encoder ------------------------------
(***************************************************************************)
(* LzmaEnc_Encode (src/src/pavlov/LzmaEnc.c) between the client's read and *)
(* write callbacks: input arrives through the match finder, is coded block *)
(* by block, and leaves through the range coder's buffer.                  *)
(*                                                                         *)
(* Input and output are abstracted to their lengths.  Of the optimal       *)
(* parser the model keeps that it codes the input in stretches, at whose   *)
(* ends additionalOffset is 0; of the range coder that coding a stretch    *)
(* makes some bytes, which go to its buffer one at a time.  Of the match   *)
(* finder it keeps what module MatchWindow establishes (LookaheadKept):    *)
(* until the input ends or fails more than KeepSizeAfter bytes are ahead.  *)
(***************************************************************************)
EXTENDS Integers

CONSTANTS
    RcBufSize,      \* RC_BUF_SIZE
    BlockLength,    \* the 1 << 15 bytes after which a block ends
    MaxStretch,     \* kNumOpts + LZMA_MATCH_LEN_MAX
    KeepSizeAfter,  \* of the match finder
    BlockCode,      \* bound on the bytes made during one block
    InputMax        \* bound on the bytes the client's stream delivers

(* BlockCode <= RcBufSize: a block has at most 1 << 15 bytes and a stretch  *)
(* of input, of which adaptive coding makes fewer bytes than the 1 << 16 of *)
(* the range coder's buffer.                                                *)
ASSUME BlockCodeAssumption ==
    /\ RcBufSize \in Nat \ {0}
    /\ BlockLength \in Nat \ {0, 1}
    /\ MaxStretch \in Nat \ {0}
    /\ KeepSizeAfter \in Nat
    /\ BlockCode \in Nat /\ BlockCode <= RcBufSize
    /\ InputMax \in Nat

VARIABLES
    estep,       \* where LzmaEnc_Encode is
    got,         \* bytes read
    input,       \* "more", "end" (streamEndWasReached), "failed" (matchFinderBase.result)
    now,         \* nowPos: bytes coded
    blockStart,  \* startPos32
    owed,        \* bytes the range coder has still to put in its buffer
    made,        \* bytes made during this block
    rcBuf,       \* rc.buf - rc.bufBase
    rcRes,       \* rc.res: "OK", "WRITE"
    result,      \* result: "OK", "MEM", "READ", "WRITE"
    emitted,     \* bytes put in the buffer since the start
    written      \* bytes of them the client has taken

evars == <<estep, got, input, now, blockStart, owed, made, rcBuf, rcRes, result,
           emitted, written>>

coding  == <<now, blockStart, made>>
reading == <<got, input>>
output  == <<owed, rcBuf, rcRes, emitted, written>>

EncoderIdle ==
    /\ estep = "off"
    /\ got = 0 /\ now = 0 /\ blockStart = 0
    /\ input = "more" /\ rcRes = "OK" /\ result = "OK"
    /\ owed = 0 /\ made = 0 /\ rcBuf = 0 /\ emitted = 0 /\ written = 0

PrepareKeepingRefusal(allocated) ==
    /\ estep = "off"
    /\ IF allocated THEN estep' = "block" /\ result' = "OK"
       ELSE estep' = "returned" /\ result' = "MEM"
    /\ got' = 0 /\ now' = 0 /\ blockStart' = 0
    /\ input' = "more"
    /\ owed' = 0 /\ made' = 0 /\ rcBuf' = 0 /\ emitted' = 0 /\ written' = 0
    /\ UNCHANGED rcRes

(* LzmaEnc_Prepare, LzmaEnc_AllocAndInit, RangeEnc_Init and the reset of    *)
(* MatchFinder_Init.                                                        *)
Prepare(allocated) ==
    /\ estep = "off"
    /\ IF allocated THEN estep' = "block" /\ result' = "OK"
       ELSE estep' = "returned" /\ result' = "MEM"
    /\ got' = 0 /\ now' = 0 /\ blockStart' = 0
    /\ input' = "more" /\ rcRes' = "OK"
    /\ owed' = 0 /\ made' = 0 /\ rcBuf' = 0 /\ emitted' = 0 /\ written' = 0
-----------------------------------------------------------------------------
(* What the match finder promises when its cursor is at a position.         *)
Ready(at) == input # "more" \/ got - at > KeepSizeAfter

(* A call of the client's read, through MatchFinder_ReadBlock: for the      *)
(* first position, and while the parser's cursor runs up to a stretch ahead.*)
Read ==
    /\ \/ estep = "block" /\ ~Ready(now)
       \/ estep = "stretch" /\ ~Ready(now + MaxStretch)
    /\ \/ \E n \in 1 .. InputMax - got : got' = got + n /\ UNCHANGED input
       \/ input' \in {"end", "failed"} /\ UNCHANGED got
    /\ UNCHANGED <<estep, coding, result, output>>

(* CheckErrors: a failed read prevails over a failed write.                 *)
Errors == IF input = "failed" THEN "READ" ELSE rcRes

ErrorsIgnored(next) == estep' = next /\ UNCHANGED result

CheckErrors(next) ==
    /\ result' = Errors
    /\ estep' = IF Errors = "OK" THEN next ELSE "returned"

(* The entry of LzmaEnc_CodeOneBlock, once the match finder has its input.  *)
BlockEntry ==
    /\ estep = "block" /\ Ready(now)
    /\ CheckErrors(IF got = now THEN "flush" ELSE "stretch")
    /\ blockStart' = now
    /\ made' = 0
    /\ UNCHANGED <<now, reading, output>>

(* One stretch: GetOptimum and the coding of the symbols it chose.  The     *)
(* first byte of all is coded on its own.                                   *)
CodeStretch ==
    /\ estep = "stretch"
    /\ \E n \in 1 .. MaxStretch, bytes \in 0 .. BlockCode - made :
        /\ n <= got - now /\ Ready(now + n)
        /\ now = 0 => n = 1
        /\ now' = now + n
        /\ owed' = bytes
        /\ made' = made + bytes
    /\ estep' = "emit"
    /\ UNCHANGED <<blockStart, reading, result, rcBuf, rcRes, emitted, written>>

FlushRetrying(num) ==
    \/ /\ written' = written + num
       /\ rcRes' = "OK"
       /\ rcBuf' = 0
    \/ /\ \E wt \in 0 .. num - 1 : written' = written + wt
       /\ rcRes' = "WRITE"
       /\ rcBuf' = 0

FlushForgetting(num) ==
    /\ \E wt \in 0 .. num : written' = written + wt
    /\ rcBuf' = 0
    /\ rcRes' = rcRes

FlushUncleared(num) ==
    /\ rcBuf' = num
    /\ written' = written + num
    /\ rcRes' = rcRes

(* RangeEnc_FlushStream with num bytes in the buffer: nothing after the     *)
(* first refusal, where the buffer is emptied all the same.                 *)
FlushStream(num) ==
    IF rcRes # "OK" THEN rcBuf' = num /\ UNCHANGED <<rcRes, written>>
    ELSE /\ rcBuf' = 0
         /\ \/ /\ written' = written + num
               /\ rcRes' = "OK"
            \/ /\ \E wt \in 0 .. num - 1 : written' = written + wt
               /\ rcRes' = "WRITE"

(* A byte of RangeEnc_ShiftLow.                                             *)
Emit ==
    /\ estep \in {"emit", "drain"} /\ owed > 0
    /\ owed' = owed - 1
    /\ emitted' = emitted + 1
    /\ IF rcBuf + 1 = RcBufSize THEN FlushStream(rcBuf + 1)
       ELSE rcBuf' = rcBuf + 1 /\ UNCHANGED <<rcRes, written>>
    /\ UNCHANGED <<estep, coding, reading, result>>

(* additionalOffset is 0: the input is used up, the block is long enough,   *)
(* or the next stretch follows.                                             *)
StretchEnd ==
    /\ estep = "emit" /\ owed = 0
    /\ IF got # now /\ now - blockStart >= BlockLength
       THEN CheckErrors("block")
       ELSE /\ estep' = IF got = now THEN "flush" ELSE "stretch"
            /\ UNCHANGED result
    /\ UNCHANGED <<coding, reading, output>>

(* Flush: the end mark and the range coder's last bytes are made ...        *)
Flush ==
    /\ estep = "flush"
    /\ \E bytes \in 0 .. BlockCode - made :
        /\ owed' = bytes
        /\ made' = made + bytes
    /\ estep' = "drain"
    /\ UNCHANGED <<now, blockStart, reading, result, rcBuf, rcRes, emitted, written>>

FlushAgain ==
    /\ estep = "drain" /\ owed = 0
    /\ FlushStream(rcBuf)
    /\ UNCHANGED <<estep, coding, reading, result, owed, emitted>>

(* ... and what is in the buffer is written.                                *)
FlushEnd ==
    /\ estep = "drain" /\ owed = 0
    /\ FlushStream(rcBuf)
    /\ UNCHANGED <<coding, reading, owed, emitted>>
    /\ result' = Errors'
    /\ estep' = "returned"

Encode ==
    \/ Read \/ BlockEntry \/ CodeStretch \/ Emit \/ StretchEnd \/ Flush \/ FlushEnd
-----------------------------------------------------------------------------
(* Types of the encoder's variables, with the bounds between its counters.  *)
EncoderTypeOK ==
    /\ estep \in {"off", "block", "stretch", "emit", "flush", "drain", "returned"}
    /\ got \in Nat /\ now \in 0 .. got /\ blockStart \in 0 .. now
    /\ input \in {"more", "end", "failed"}
    /\ rcRes \in {"OK", "WRITE"}
    /\ result \in {"OK", "MEM", "READ", "WRITE"}
    /\ made \in 0 .. BlockCode /\ owed \in 0 .. made
    /\ rcBuf \in Nat
    /\ emitted \in Nat /\ written \in 0 .. emitted
=============================================================================
