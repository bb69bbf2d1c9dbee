------------------------------ MODULE BitModel ------------------------------
(***************************************************************************)
(* What the range encoder (src/src/pavlov/LzmaEnc.c) and the range decoder *)
(* (src/src/pavlov/LzmaDec.c) agree on: the sizes of their integers and    *)
(* the adaptive probability of one decision.                               *)
(*                                                                         *)
(* A byte has Base values (256 in the code), an interval is shifted by one *)
(* byte when it is smaller than kTopValue (2^24), and kTopValue * Base     *)
(* (2^32) values fit the 32-bit integers.                                  *)
(***************************************************************************)
EXTENDS Integers

CONSTANTS
    Base,             \* the values of a byte
    kTopValue,
    kBitModelTotal,   \* 2^11: the probability of a certain 0
    MoveScale         \* 2^kNumMoveBits: how slowly a probability moves

Word == kTopValue * Base

(* A coded bit leaves at least kTopValue / Base of the interval, so that one *)
(* shift by a byte is enough, and some of it to either value.                *)
ASSUME BitModelAssumption ==
    /\ Base \in Nat \ {0, 1}
    /\ kTopValue = Base * Base * Base
    /\ kBitModelTotal \in Nat \ {0}
    /\ MoveScale \in Nat \ {0, 1}
    /\ kBitModelTotal <= kTopValue
    /\ 2 * MoveScale <= kBitModelTotal
    /\ (kTopValue \div kBitModelTotal) * (MoveScale - 1) >= Base * Base

kProbInitValue == kBitModelTotal \div 2

(* Every value a probability can reach: it stops moving MoveScale - 1 before *)
(* 0 and before certainty.                                                   *)
Probabilities == MoveScale - 1 .. kBitModelTotal - (MoveScale - 1)

(* The part of an interval that a 0 takes.                                   *)
NewBound(range, p) == (range \div kBitModelTotal) * p

(* The probability of a 0 after a bit was coded with it.                     *)
MovedRoundedUp(p, bit) ==
    IF bit = 0 THEN p + ((kBitModelTotal - p) + MoveScale - 1) \div MoveScale
    ELSE p - p \div MoveScale

Moved(p, bit) ==
    IF bit = 0 THEN p + (kBitModelTotal - p) \div MoveScale
    ELSE p - p \div MoveScale
=============================================================================
