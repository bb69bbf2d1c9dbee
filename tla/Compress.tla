------------------------------ MODULE Compress ------------------------------
(***************************************************************************)
(* A compression handle (src/src/compress.c): configuration, and runs that *)
(* write a header, what the encoder makes and, for lzip, a footer.         *)
(*                                                                         *)
(* The client may configure and run a handle again and again, let any      *)
(* allocation fail, end or fail its input, and take less output than it is *)
(* given.  A CRC of n bytes of input is abstracted to n.                   *)
(***************************************************************************)
EXTENDS Encoder

CONSTANTS
    Sizes,      \* uncompressed sizes a client configures, 0: unknown
    MaxRuns     \* bound on the runs

ASSUME RunsAssumption == Sizes \subseteq Nat /\ MaxRuns \in Nat \ {0}

VARIABLES
    pc, code,
    format, handler,    \* hand->format, and whose formatHandler is
    propsOk,            \* LzmaEnc_SetProps accepts hand->props
    uncompressedSize,
    encHand,            \* the run that created the encoder, 0: NULL
    live,               \* blocks obtained from allocStruct and not freed
    runs, since,        \* runs so far, and before this handle
    header, footer,     \* what of them the client has taken whole
    refused,            \* the client took less than it was given in this run
    asked               \* the configuration the last run began with

cvars == <<pc, code, format, handler, propsOk, uncompressedSize, encHand, live,
           runs, since, header, footer, refused, asked>>
vars == <<cvars, evars>>

Formats == {"lzma", "lzip", "other"}
Handlers == {"lzma", "lzip"}
Parts == {"enc", "rc", "lits", "window", "hdr", "ftr"}
NoFooter == [crc |-> -1, size |-> -1]
Codes == {"OK", "BAD_PARAMS", "COMPRESS_ERROR", "UNSUPPORTED_FORMAT", "OUTPUT_ERROR"}

Of(run, parts) == {[owner |-> run, part |-> part] : part \in parts}

Configured == [format |-> format, size |-> uncompressedSize]

config == <<format, handler, propsOk, uncompressedSize>>
-----------------------------------------------------------------------------
Init ==
    /\ pc = "none" /\ code = "OK"
    /\ format = "lzip" /\ handler = "lzma" /\ propsOk = TRUE /\ uncompressedSize = 0
    /\ encHand = 0 /\ live = {}
    /\ runs = 0 /\ since = 0
    /\ header = "none" /\ footer = NoFooter /\ refused = FALSE
    /\ asked = Configured
    /\ EncoderIdle

(* elzma_compress_alloc: the zeroed handle's format is ELZMA_lzip, which no *)
(* run looks at beyond its being one of the two.                            *)
Alloc ==
    /\ pc = "none"
    /\ pc' = "idle"
    /\ format' = "lzip" /\ handler' = "lzma" /\ propsOk' = TRUE /\ uncompressedSize' = 0
    /\ encHand' = 0
    /\ since' = runs
    /\ UNCHANGED <<code, live, runs, header, footer, refused, asked, evars>>

(* elzma_compress_free: LzmaEnc_Destroy on the last run's encoder.          *)
FreeEncoderOnly ==
    /\ pc = "idle"
    /\ pc' = "none"
    /\ encHand' = 0
    /\ live' = live \ Of(encHand, {"enc"})
    /\ UNCHANGED <<code, config, runs, since, header, footer, refused, asked, evars>>

Free ==
    /\ pc = "idle"
    /\ pc' = "none"
    /\ encHand' = 0
    /\ live' = live \ Of(encHand, Parts)
    /\ UNCHANGED <<code, config, runs, since, header, footer, refused, asked, evars>>

(* elzma_compress_config: the handler is only ever changed to lzip.         *)
Config ==
    /\ pc = "idle" /\ runs < MaxRuns
    /\ format' \in Formats
    /\ propsOk' \in BOOLEAN
    /\ uncompressedSize' \in Sizes
    /\ handler' = IF format' = "lzip" THEN "lzip" ELSE handler
    /\ UNCHANGED <<pc, code, encHand, live, runs, since, header, footer, refused, asked, evars>>
-----------------------------------------------------------------------------
Return(c) == pc' = "idle" /\ code' = c

(* elzma_compress_run up to the header: the encoder is created, given its   *)
(* properties, and the format is looked at.                                 *)
Start ==
    /\ pc = "idle" /\ runs < MaxRuns
    /\ runs' = runs + 1
    /\ asked' = Configured
    /\ header' = "none" /\ footer' = NoFooter /\ refused' = FALSE
    /\ estep' = "off" /\ UNCHANGED <<coding, reading, result, output>>
    /\ \/ /\ encHand' = 0                       \* LzmaEnc_Create fails
          /\ live' = live
          /\ Return("COMPRESS_ERROR")
       \/ /\ encHand' = runs'
          /\ live' = live \cup Of(runs', {"enc"})
          /\ \/ ~propsOk /\ Return("BAD_PARAMS")
             \/ propsOk /\ format = "other" /\ Return("UNSUPPORTED_FORMAT")
             \/ propsOk /\ format # "other" /\ pc' = "header" /\ code' = code
    /\ UNCHANGED <<config, since>>

(* The header is allocated, written and freed.                              *)
WriteHeader ==
    /\ pc = "header"
    /\ \/ /\ header' = handler
          /\ pc' = "encode" /\ code' = code
          /\ UNCHANGED refused
       \/ /\ refused' = TRUE
          /\ Return("OUTPUT_ERROR")
          /\ UNCHANGED header
    /\ UNCHANGED <<config, encHand, live, runs, since, footer, asked, evars>>

(* LzmaEnc_Alloc; what it got before a failure stays with the encoder.      *)
StartEncoder ==
    /\ pc = "encode"
    /\ \E parts \in {{}, {"rc"}, {"rc", "lits"}, {"rc", "lits", "window"}} :
        /\ live' = live \cup Of(encHand, parts)
        /\ Prepare("window" \in parts)
    /\ UNCHANGED <<pc, code, config, encHand, runs, since, header, footer, refused, asked>>

EncoderStep ==
    /\ pc = "encode"
    /\ Encode
    /\ refused' = (refused \/ (rcRes = "OK" /\ rcRes' # "OK"))
    /\ UNCHANGED <<pc, code, config, encHand, live, runs, since, header, footer, asked>>

(* LzmaEnc_Encode has returned.                                             *)
Encoded ==
    /\ pc = "encode" /\ estep = "returned"
    /\ IF result # "OK" THEN Return("COMPRESS_ERROR")
       ELSE IF handler = "lzip" THEN pc' = "footer" /\ code' = code
       ELSE Return("OK")
    /\ UNCHANGED <<config, encHand, live, runs, since, header, footer, refused, asked, evars>>

(* The lzip footer: the CRC of what was read, the length as configured.     *)
WriteFooter ==
    /\ pc = "footer"
    /\ \/ /\ footer' = [crc |-> got, size |-> uncompressedSize]
          /\ Return("OK")
          /\ UNCHANGED refused
       \/ /\ refused' = TRUE
          /\ Return("OUTPUT_ERROR")
          /\ UNCHANGED footer
    /\ UNCHANGED <<config, encHand, live, runs, since, header, asked, evars>>

Running == WriteHeader \/ StartEncoder \/ EncoderStep \/ Encoded \/ WriteFooter

Next == Alloc \/ Free \/ Config \/ Start \/ Running

Spec == Init /\ [][Next]_vars

(* The code runs on and the client's callbacks return.                      *)
FairSpec == Spec /\ WF_vars(Running)
-----------------------------------------------------------------------------
InRun == pc \notin {"none", "idle"}
Returned(c) == pc = "idle" /\ runs > since /\ code = c

(* Types, with the bounds between the encoder's counters.                   *)
TypeOK ==
    /\ pc \in {"none", "idle", "header", "encode", "footer"}
    /\ code \in Codes
    /\ format \in Formats /\ handler \in Handlers /\ propsOk \in BOOLEAN
    /\ uncompressedSize \in Nat
    /\ runs \in 0 .. MaxRuns /\ since \in 0 .. runs /\ encHand \in 0 .. runs
    /\ live \subseteq [owner : 1 .. runs, part : Parts]
    /\ header \in Handlers \cup {"none"}
    /\ footer \in [crc : Int, size : Int]
    /\ refused \in BOOLEAN
    /\ asked \in [format : Formats, size : Nat]
    /\ EncoderTypeOK

(* The range coder's buffer never overruns, although RangeEnc_FlushStream   *)
(* does not empty it any more after a refusal: coding stops at the end of   *)
(* the block, before the buffer is full a second time.                      *)
BufferNotOverrun == rcBuf < RcBufSize

(* OK is a promise about the data: the client's input was read to its end   *)
(* without failure, all of it was coded, every byte made was taken, header  *)
(* and footer included, and the CRC covers the whole input.                 *)
OkMeansComplete ==
    Returned("OK") =>
        /\ input = "end" /\ now = got
        /\ ~refused /\ written = emitted /\ rcBuf = 0
        /\ header \in Handlers
        /\ header = "lzip" => footer.crc = got

(* An error code blames what happened.                                      *)
ErrorsHaveCauses ==
    /\ Returned("OUTPUT_ERROR") => refused
    /\ Returned("COMPRESS_ERROR") => input = "failed" \/ refused \/ encHand = 0 \/ result = "MEM"

(* Once the client refuses output it is not given any more in this run.     *)
SilentAfterRefusal ==
    [][refused /\ refused' => UNCHANGED <<written, header, footer>>]_vars

(* A handle that ran once leaves nothing of its runs when it is freed.  A   *)
(* second run overwrites encHand, and the first encoder is never freed.     *)
FreedAfterOneRun ==
    pc = "none" /\ runs <= since + 1 => \A block \in live : block.owner <= since

(* Every run returns when its input is finite.                              *)
RunsReturn == InRun ~> ~InRun

(* A run configured for .lzma writes a .lzma header (compress.h:52: the     *)
(* parameters for a compression run).                                       *)
OutputHasFormat ==
    Returned("OK") /\ asked.format = "lzma" => header = "lzma"

(* The lzip footer agrees with the input when the client gave no length (0) *)
(* or the right one, so that the decompressor's ELZMA_E_SIZE_MISMATCH means *)
(* what common.h:61 says.                                                   *)
FooterAgrees ==
    Returned("OK") /\ header = "lzip" /\ asked.size \in {0, got} =>
        footer = [crc |-> got, size |-> got]
=============================================================================
