--------------------------- MODULE StreamDecoder ---------------------------
(***************************************************************************)
(* What one call of LzmaDec_DecodeToBuf (src/src/pavlov/LzmaDec.c) does,   *)
(* seen from its caller: how many input bytes it takes, how many output    *)
(* bytes it makes and the status it leaves.                                *)
(*                                                                         *)
(* A compressed stream s is a sequence of symbols (literals and matches):  *)
(*   s.need[i]  how many bytes of the stream decoding symbol i takes, from *)
(*              the first byte (the RcInitSize bytes that start the range  *)
(*              decoder included),                                         *)
(*   s.give[i]  how many output bytes symbols 1..i make,                   *)
(*   s.end      "mark": an end mark follows, "bad": data no encoder writes *)
(*              follows, "none": nothing follows,                          *)
(*   s.endAt    the bytes it takes to meet that mark or bad data.          *)
(* A decoder d is d.alloc, whether LzmaDec_Allocate succeeded, and the     *)
(* number of bytes it has taken (d.fed) and made (d.made).  The up to 20   *)
(* bytes kept in tempBuf while a symbol is incomplete count as taken.      *)
(*                                                                         *)
(* NOT_FINISHED stands for MAYBE_FINISHED_WITHOUT_MARK too: the caller     *)
(* looks for FINISHED_WITH_MARK and for nothing else.                      *)
(***************************************************************************)
EXTENDS Naturals, Sequences, FiniteSets

CONSTANT RcInitSize   \* RC_INIT_SIZE

ASSUME RcInitAssumption == RcInitSize \in Nat \ {0}

Statuses == {"NOT_SPECIFIED", "FINISHED_WITH_MARK", "NOT_FINISHED",
             "NEEDS_MORE_INPUT"}

Streams ==
    [need : Seq(Nat), give : Seq(Nat), end : {"mark", "bad", "none"}, endAt : Nat]

(* Symbols come in order, each makes output, and what ends them is last:    *)
(* the direct bits of an end mark always take a byte of their own.          *)
WellFormed(s) ==
    /\ Len(s.give) = Len(s.need)
    /\ \A i \in 1 .. Len(s.need) :
        /\ RcInitSize <= s.need[i]
        /\ s.end = "bad" => s.need[i] <= s.endAt
        /\ s.end = "mark" => s.need[i] < s.endAt
        /\ i > 1 => s.need[i - 1] <= s.need[i] /\ s.give[i - 1] < s.give[i]
    /\ s.end # "none" => RcInitSize <= s.endAt

Larger(a, b) == IF a < b THEN b ELSE a

Total(s) == IF Len(s.need) = 0 THEN 0 ELSE s.give[Len(s.need)]

(* The output that the first n bytes of s determine.                        *)
Given(s, n) ==
    LET whole == Cardinality({i \in DOMAIN s.need : s.need[i] <= n})
    IN  IF whole = 0 THEN 0 ELSE s.give[whole]

(* The bytes of s that the symbol which makes output byte m completes at.   *)
Cost(s, m) ==
    IF m = 0 THEN RcInitSize
    ELSE s.need[1 + Cardinality({i \in DOMAIN s.give : s.give[i] < m})]

(* A decoder without its buffers takes the bytes that start the range       *)
(* decoder (the first must be 0), then meets an output limit of 0 at every  *)
(* call.                                                                    *)
DecodeNothing(s, d, amt, o) ==
    /\ o.fed = IF d.fed + amt < RcInitSize THEN d.fed + amt
               ELSE Larger(d.fed, RcInitSize)
    /\ o.made = d.made
    /\ o.stat = IF o.fed < RcInitSize THEN "NEEDS_MORE_INPUT" ELSE "NOT_FINISHED"
    /\ o.ok = ~(s.end = "bad" /\ s.endAt <= RcInitSize /\ o.fed >= RcInitSize)

(* The output limit is met first: later symbols, an end mark among them,    *)
(* are left for the next call.  A match cut by the limit is finished there. *)
DecodeToLimit(s, d, dst, o) ==
    /\ o.fed = Larger(d.fed, Cost(s, d.made + dst))
    /\ o.made = d.made + dst
    /\ o.stat = "NOT_FINISHED"
    /\ o.ok

(* All that the input determines is made.  When the input is refused, ~o.ok, *)
(* what o says of fed and made means nothing: the caller returns.           *)
DecodeToInputEnd(s, d, amt, o) ==
    LET have == d.fed + amt
        met(e) == s.end = e /\ s.endAt <= have
    IN  /\ o.made = Given(s, have)
        /\ o.fed = IF met("mark") THEN Larger(d.fed, s.endAt) ELSE have
        /\ o.stat = IF met("mark") THEN "FINISHED_WITH_MARK" ELSE "NEEDS_MORE_INPUT"
        /\ o.ok = ~met("bad")

(* The outcome of LzmaDec_DecodeToBuf on the next amt bytes of s with room  *)
(* for dst bytes and LZMA_FINISH_ANY: a set with one element.               *)
DecodeToBuf(s, d, amt, dst) ==
    { o \in [fed : d.fed .. d.fed + amt, made : d.made .. d.made + dst,
             stat : Statuses, ok : BOOLEAN] :
        IF ~d.alloc THEN DecodeNothing(s, d, amt, o)
        ELSE IF RcInitSize <= d.fed + amt /\ d.made + dst <= Given(s, d.fed + amt)
        THEN DecodeToLimit(s, d, dst, o)
        ELSE DecodeToInputEnd(s, d, amt, o) }
=============================================================================
