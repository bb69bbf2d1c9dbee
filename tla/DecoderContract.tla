--------------------------- MODULE DecoderContract ---------------------------
(***************************************************************************)
(* What elzma_decompress_run (module Decompress) relies on when it calls   *)
(* LzmaDec_DecodeToBuf: each call is one step whose outcome module         *)
(* StreamDecoder gives, a function of the stream, of how much has been     *)
(* taken and made, and of nothing else that earlier calls have done.       *)
(***************************************************************************)
EXTENDS StreamDecoder

VARIABLES
    stream,
    fed, made,        \* as of the last return
    busy,             \* a call is being served
    amt, dst,         \* and these are its arguments
    stat, ok          \* what the last call returned

cvars == <<stream, fed, made, busy, amt, dst, stat, ok>>

Init ==
    /\ stream = [end |-> "unknown"]
    /\ fed = 0 /\ made = 0
    /\ busy = FALSE /\ amt = 0 /\ dst = 0
    /\ stat = "NOT_SPECIFIED" /\ ok = TRUE

(* The bytes to be decoded are there.                                       *)
Arrive ==
    /\ stream.end = "unknown"
    /\ stream' \in Streams /\ WellFormed(stream')
    /\ UNCHANGED <<fed, made, busy, amt, dst, stat, ok>>

Ask ==
    /\ stream.end # "unknown" /\ ~busy /\ ok
    /\ busy' = TRUE
    /\ amt' \in Nat \ {0} /\ dst' \in Nat \ {0}
    /\ stat' = "NOT_SPECIFIED"
    /\ UNCHANGED <<stream, fed, made, ok>>

(* An error leaves fed and made unspecified: the caller gives up.           *)
Answer ==
    /\ busy
    /\ busy' = FALSE
    /\ LET outcomes ==
               DecodeToBuf(stream, [alloc |-> TRUE, fed |-> fed, made |-> made], amt, dst)
       IN  \/ /\ ok'
              /\ [fed |-> fed', made |-> made', stat |-> stat', ok |-> TRUE] \in outcomes
           \/ /\ ~ok'
              /\ \E o \in outcomes : ~o.ok
              /\ UNCHANGED <<fed, made, stat>>
    /\ UNCHANGED <<stream, amt, dst>>

Next == Arrive \/ Ask \/ Answer

Spec == Init /\ [][Next]_cvars
=============================================================================
