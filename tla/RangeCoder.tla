----------------------------- MODULE RangeCoder -----------------------------
(***************************************************************************)
(* The range encoder (RangeEnc_*, src/src/pavlov/LzmaEnc.c).               *)
(*                                                                         *)
(* A coded stream denotes one long number.  Each decision adds to it and   *)
(* narrows the interval [number, number + range).  The encoder can give a  *)
(* byte away only when no later addition can carry into it: it keeps one   *)
(* byte (`cache') and the count of the 0xFF bytes behind it, which a carry *)
(* would turn into 0x00 (`cacheSize' counts all of them), and the lowest   *)
(* 33 bits of the number (`low').                                          *)
(*                                                                         *)
(* `out' is everything RangeEnc_ShiftLow has put into the output buffer;   *)
(* the buffer's own life is in module Encoder.                             *)
(*                                                                         *)
(* exact and shifts are history variables, kept for the first MaxShifts    *)
(* shifts: the sum of all that was added, and the number of shifts.        *)
(***************************************************************************)
EXTENDS BitModel, Sequences

CONSTANTS
    Contexts,     \* the probabilities there are
    FlushShifts,  \* 5: RangeEnc_FlushData
    MaxShifts     \* bound of the history variables

ASSUME RangeCoderAssumption ==
    /\ FlushShifts \in Nat /\ FlushShifts > 4
    /\ MaxShifts \in Nat

VARIABLES
    low, range, cache, cacheSize, probs, out,
    flushed,                          \* shifts of RangeEnc_FlushData so far
    exact, shifts                     \* history variables

history == <<exact, shifts>>
rcVars == <<low, range, cache, cacheSize, probs, out, flushed, history>>

(* RangeEnc_Init, and every probability of LzmaEnc_Init.                     *)
RangeInit ==
    /\ low = 0
    /\ range = Word - 1
    /\ cache = 0
    /\ cacheSize = 1
    /\ probs = [c \in Contexts |-> kProbInitValue]
    /\ out = << >>
    /\ flushed = 0
    /\ exact = 0 /\ shifts = 0

(* The withheld bytes with a carry of c: the first is cache, all others 0xFF. *)
WithheldUncarried(c) == <<cache>> \o [i \in 1 .. cacheSize - 1 |-> Base - 1]

Withheld(c) ==
    <<(cache + c) % Base>> \o [i \in 1 .. cacheSize - 1 |-> ((Base - 1) + c) % Base]

(* Whether they can be put out: a carry has come, or none can come any more. *)
SettledEarly(l) == l % Word < Word - Base \/ l \div Word # 0

Settled(l) == l % Word < (Base - 1) * kTopValue \/ l \div Word # 0

(* RangeEnc_ShiftLow with l for low: the highest byte of its 32 bits becomes *)
(* the new cache, or is a 0xFF to be counted.                                *)
ShiftLow(l) ==
    /\ IF Settled(l)
       THEN /\ out' = out \o Withheld(l \div Word)
            /\ cache' = (l % Word) \div kTopValue
            /\ cacheSize' = 1
       ELSE /\ cacheSize' = cacheSize + 1
            /\ UNCHANGED <<out, cache>>
    /\ low' = (l % kTopValue) * Base

(* The history variables over a shift, `added' being new.                    *)
NoteShift(added) ==
    IF shifts < MaxShifts
    THEN shifts' = shifts + 1 /\ exact' = (exact + added) * Base
    ELSE shifts' = MaxShifts + 1 /\ exact' = exact

(* The end of RangeEnc_EncodeBit and of each round of                        *)
(* RangeEnc_EncodeDirectBits: the interval r that begins `added' above low.  *)
Normalize(r, added) ==
    IF r < kTopValue
    THEN /\ range' = r * Base
         /\ ShiftLow(low + added)
         /\ NoteShift(added)
    ELSE /\ range' = r
         /\ low' = low + added
         /\ exact' = IF shifts <= MaxShifts THEN exact + added ELSE exact
         /\ UNCHANGED <<cache, cacheSize, out, shifts>>

EncodeBit(c, bit) ==
    LET bound == NewBound(range, probs[c]) IN
    /\ flushed = 0
    /\ probs' = [probs EXCEPT ![c] = Moved(@, bit)]
    /\ IF bit = 0 THEN Normalize(bound, 0) ELSE Normalize(range - bound, bound)
    /\ UNCHANGED flushed

(* One round of RangeEnc_EncodeDirectBits.                                   *)
EncodeDirectBit(bit) ==
    LET half == range \div 2 IN
    /\ flushed = 0
    /\ Normalize(half, half * bit)
    /\ UNCHANGED <<probs, flushed>>

(* One round of RangeEnc_FlushData.                                          *)
FlushData ==
    /\ flushed < FlushShifts
    /\ flushed' = flushed + 1
    /\ ShiftLow(low)
    /\ NoteShift(0)
    /\ UNCHANGED <<range, probs>>

RangeNext ==
    \/ \E c \in Contexts, bit \in {0, 1} : EncodeBit(c, bit)
    \/ \E bit \in {0, 1} : EncodeDirectBit(bit)
    \/ FlushData

RangeSpec == RangeInit /\ [][RangeNext]_rcVars
-----------------------------------------------------------------------------
RangeTypeOK ==
    /\ low \in 0 .. 2 * Word - 1
    /\ range \in 1 .. Word
    /\ flushed = 0 => range >= kTopValue
    /\ cache \in 0 .. Base - 1
    /\ cacheSize \in Nat \ {0}
    /\ probs \in [Contexts -> Probabilities]
    /\ out \in Seq(0 .. Base - 1)
    /\ flushed \in 0 .. FlushShifts
    /\ exact \in Nat /\ shifts \in 0 .. MaxShifts + 1

(* The number that a sequence of bytes denotes, and what is withheld.       *)
Number(s) ==
    LET first[i \in 0 .. Len(s)] == IF i = 0 THEN 0 ELSE first[i - 1] * Base + s[i]
    IN  first[Len(s)]

(* What has been put out, what is withheld and low together are exactly the *)
(* sum of everything added: no carry is lost, however many 0xFF bytes it    *)
(* runs through (RangeEnc_ShiftLow).                                        *)
SumIsExact ==
    shifts <= MaxShifts => exact = Number(out \o Withheld(0)) * Word + low

(* A carry fits the byte that is kept for it: bytes already put out never   *)
(* need to change (the addition of a Byte in RangeEnc_ShiftLow would wrap). *)
CarryHasRoom == cache + low \div Word < Base

(* The first byte of a stream is 0: LzmaDec_DecodeToDic refuses any other.  *)
FirstByteIsZero == out # << >> => out[1] = 0
=============================================================================
