----------------------------- MODULE Decompress -----------------------------
(***************************************************************************)
(* elzma_decompress_run (src/src/decompress.c): the loop between the       *)
(* client's read and write callbacks and the LZMA decoder.                 *)
(*                                                                         *)
(* The client may deliver its input in pieces of any size, refuse a read,  *)
(* take less output than it is given, and decompress several files with    *)
(* one handle, whose input buffer keeps the bytes of earlier reads.        *)
(*                                                                         *)
(* A file is its compressed stream (module StreamDecoder) and              *)
(*   format    "lzma", "lzip" or "other",                                  *)
(*   header    "good", "corrupt" (parse_header refuses it) or "cut",       *)
(*   streamed, size    what parse_header leaves in h,                      *)
(*   len       how many bytes follow the header,                           *)
(*   fcrc, fsize       what the footer says.                               *)
(* The CRC of the first n bytes of the correct output is abstracted to n.  *)
(* A byte of input is abstracted to the part of a footer it is, if any.    *)
(***************************************************************************)
EXTENDS StreamDecoder, Integers

CONSTANTS
    InBufSize,    \* ELZMA_DECOMPRESS_INPUT_BUFSIZE
    OutBufSize,   \* ELZMA_DECOMPRESS_OUTPUT_BUFSIZE
    FooterSize,   \* ELZMA_LZIP_FOOTER_SIZE
    Files,        \* the files a client may decompress
    MaxRuns       \* bound on the runs on one handle

ASSUME BufferAssumption ==
    /\ InBufSize \in Nat \ {0}
    /\ OutBufSize \in Nat \ {0}
    /\ FooterSize \in Nat \ {0}
    /\ MaxRuns \in Nat \ {0}

Formats == {"lzma", "lzip", "other"}
Headers == {"good", "corrupt", "cut"}

FileType ==
    [stream : Streams, format : Formats, header : Headers, streamed : BOOLEAN,
     size : Nat, len : Nat, fcrc : Nat, fsize : Nat]

ASSUME FilesAssumption ==
    /\ Files \subseteq FileType
    /\ \A fl \in Files : WellFormed(fl.stream)

Codes == {"OK", "BAD_PARAMS", "INPUT_ERROR", "OUTPUT_ERROR", "CORRUPT_HEADER",
          "DECOMPRESS_ERROR", "INSUFFICIENT_INPUT", "CRC32_MISMATCH",
          "SIZE_MISMATCH"}

VARIABLES
    pc, file, code, runs,
    inbuf,                  \* hand->inbuf
    live,                   \* blocks obtained from allocStruct and not freed
    read,                   \* bytes read after the header
    srcLen, dstLen, amt, bufOff, stat, dec, crc32, totalRead,
    f,                      \* struct elzma_file_footer
    written                 \* bytes the client's write callback has taken

vars == <<pc, file, code, runs, inbuf, live, read, srcLen, dstLen, amt, bufOff,
          stat, dec, crc32, totalRead, f, written>>

locals == <<srcLen, dstLen, amt, bufOff, stat, dec, crc32, totalRead, f>>

Body == [part |-> 0, crc |-> 0, size |-> 0]
Cells == [part : 0 .. FooterSize, crc : Nat, size : Nat]
Junk == [crc |-> -1, size |-> -1]       \* what no footer says
NoFooter == [crc |-> 0, size |-> 0]

(* Byte i of the input after the header.                                    *)
ByteOf(fl, i) ==
    IF fl.format = "lzip" /\ fl.stream.endAt < i /\ i <= fl.stream.endAt + FooterSize
    THEN [part |-> i - fl.stream.endAt, crc |-> fl.fcrc, size |-> fl.fsize]
    ELSE Body

footer_size == IF file.format = "lzip" THEN FooterSize ELSE 0
isStreamed == file.format = "lzip" \/ file.streamed
-----------------------------------------------------------------------------
Init ==
    /\ pc = "none" /\ code = "OK" /\ runs = 0
    /\ file \in Files
    /\ inbuf = [i \in 0 .. InBufSize - 1 |-> Body]
    /\ live = {}
    /\ read = 0 /\ written = 0
    /\ srcLen = 0 /\ dstLen = 0 /\ amt = 0 /\ bufOff = 0
    /\ stat = "NOT_SPECIFIED"
    /\ dec = [alloc |-> FALSE, fed |-> 0, made |-> 0]
    /\ crc32 = 0 /\ totalRead = 0
    /\ f = NoFooter

(* elzma_decompress_alloc and elzma_decompress_free.                        *)
Alloc ==
    /\ pc = "none"
    /\ pc' = "idle"
    /\ runs' = 0
    /\ inbuf' = [i \in 0 .. InBufSize - 1 |-> Body]
    /\ UNCHANGED <<file, code, live, read, written, locals>>

Free ==
    /\ pc = "idle"
    /\ pc' = "none"
    /\ UNCHANGED <<file, code, runs, inbuf, live, read, written, locals>>

(* Small steps of the loop, each with the bug the mutants plant in it.       *)
CrcOfWholeBuffer(n) == crc32 + OutBufSize
CrcUpdated(n) == IF file.format = "lzip" THEN crc32 + n ELSE crc32

OffsetOffByOne == bufOff + amt + 1
NextOffset == bufOff + amt

RemainingUnchanged(off) == amt
Remaining(off) == srcLen - off

(* Both the break in the inner loop and its condition, which agree.         *)
ChunkUsed(off) == off >= srcLen

MarkUnseen == "decode"
AfterChunk == IF stat = "FINISHED_WITH_MARK" THEN "check" ELSE "decode"

TooShort(length) == length > totalRead
LengthDiffers(length) == length # totalRead

(* Every return after the decoder may have been allocated frees it.         *)
ReturnWithoutFree(c) ==
    /\ pc' = "idle"
    /\ code' = c
    /\ live' = live

Return(c) ==
    /\ pc' = "idle"
    /\ code' = c
    /\ live' = live \ {"probs", "dic"}

(* Entry: the format is selected and the header buffer allocated.           *)
Start ==
    /\ pc = "idle" /\ runs < MaxRuns
    /\ runs' = runs + 1
    /\ file' \in Files
    /\ read' = 0 /\ written' = 0
    /\ crc32' = 0 /\ totalRead' = 0
    /\ f' = NoFooter
    /\ dec' = [alloc |-> FALSE, fed |-> 0, made |-> 0]
    /\ IF file'.format = "other"
       THEN pc' = "idle" /\ code' = "BAD_PARAMS" /\ live' = live
       ELSE pc' = "header" /\ code' = code /\ live' = live \cup {"hdr"}
    /\ UNCHANGED <<inbuf, srcLen, dstLen, amt, bufOff, stat>>

(* The header must arrive in one read.  "cut" is a header that does not,    *)
(* because the input is too short or because the client delivers less.      *)
ReadHeader ==
    /\ pc = "header"
    /\ \/ /\ pc' = "idle" /\ code' = "INPUT_ERROR"
          /\ live' = live \ {"hdr"}
       \/ /\ file.header = "corrupt"
          /\ pc' = "idle" /\ code' = "CORRUPT_HEADER"
          /\ live' = live \ {"hdr"}
       \/ /\ file.header = "good"
          /\ pc' = "allocate"
          /\ UNCHANGED <<code, live>>
    /\ UNCHANGED <<file, runs, inbuf, read, written, locals>>

(* LzmaDec_Allocate, whose result is ignored: the properties may be ones it *)
(* does not support, and the client's allocator may refuse either block.    *)
AllocateDecoder ==
    /\ pc = "allocate"
    /\ \E ok \in BOOLEAN :
        /\ dec' = [dec EXCEPT !.alloc = ok]
        /\ live' = (live \ {"hdr"}) \cup (IF ok THEN {"probs", "dic"} ELSE {})
    /\ pc' = "read"
    /\ UNCHANGED <<file, code, runs, inbuf, read, written, srcLen, dstLen, amt,
                   bufOff, stat, crc32, totalRead, f>>

(* The top of the outer loop: one read of the client's input.               *)
ReadInput ==
    /\ pc = "read"
    /\ \/ /\ Return("INPUT_ERROR")
          /\ UNCHANGED <<inbuf, read, locals>>
       \/ /\ read = file.len
          /\ Return("INSUFFICIENT_INPUT")
          /\ srcLen' = 0
          /\ UNCHANGED <<inbuf, read, dstLen, amt, bufOff, stat, dec, crc32,
                         totalRead, f>>
       \/ \E n \in 1 .. InBufSize :
          /\ read + n <= file.len
          /\ inbuf' = [i \in 0 .. InBufSize - 1 |->
                        IF i < n THEN ByteOf(file, read + i + 1) ELSE inbuf[i]]
          /\ read' = read + n
          /\ srcLen' = n
          /\ dstLen' = OutBufSize
          /\ amt' = n
          /\ bufOff' = 0
          /\ stat' = "NOT_SPECIFIED"
          /\ pc' = "decode"
          /\ UNCHANGED <<code, live, dec, crc32, totalRead, f>>
    /\ UNCHANGED <<file, runs, written>>

(* One call of the decoder.  dstLen and amt, which go in as what there is   *)
(* room and input for, come out as what was made and taken.                 *)
Decode ==
    /\ pc = "decode"
    /\ \E o \in DecodeToBuf(file.stream, dec, amt, dstLen) :
        IF ~o.ok
        THEN /\ Return("DECOMPRESS_ERROR")
             /\ UNCHANGED locals
        ELSE /\ dec' = [dec EXCEPT !.fed = o.fed, !.made = o.made]
             /\ amt' = o.fed - dec.fed
             /\ dstLen' = o.made - dec.made
             /\ stat' = o.stat
             /\ crc32' = CrcUpdated(dstLen')
             /\ totalRead' = totalRead + dstLen'
             /\ pc' = "write"
             /\ UNCHANGED <<code, live, srcLen, bufOff, f>>
    /\ UNCHANGED <<file, runs, inbuf, read, written>>

(* The client takes the output, all of it or less, and the inner loop goes  *)
(* on while input is left and no end mark was met.                          *)
Write ==
    /\ pc = "write"
    /\ \/ \E wt \in 0 .. dstLen - 1 :
          /\ written' = written + wt
          /\ Return("OUTPUT_ERROR")
          /\ UNCHANGED locals
       \/ /\ written' = written + dstLen
          /\ bufOff' = NextOffset
          /\ IF ChunkUsed(NextOffset)
             THEN pc' = "check" /\ amt' = amt
             ELSE /\ amt' = Remaining(NextOffset)
                  /\ pc' = AfterChunk
          /\ UNCHANGED <<code, live, srcLen, dstLen, stat, dec, crc32, totalRead, f>>
    /\ UNCHANGED <<file, runs, inbuf, read>>

(* What parse_footer may make of the bytes from off on.  Those past the end *)
(* of inbuf are outbuf's, which can look like any footer.                   *)
ParseFooter(off) ==
    LET b(i) == inbuf[off + i - 1]
    IN  IF off + FooterSize > InBufSize
        THEN [crc : {crc32, Junk.crc}, size : {totalRead, Junk.size}]
        ELSE IF \A i \in 1 .. FooterSize : b(i) = [b(1) EXCEPT !.part = i]
        THEN {[crc |-> b(1).crc, size |-> b(1).size]}
        ELSE {Junk}

(* The bottom of the outer loop.                                            *)
CheckStatus ==
    /\ pc = "check"
    /\ IF stat = "FINISHED_WITH_MARK"
       THEN /\ f' \in IF footer_size > 0 /\ amt >= footer_size
                      THEN ParseFooter(bufOff) ELSE {f}
            /\ pc' = "finish"
       ELSE /\ f' = f
            /\ pc' = IF ~isStreamed /\ totalRead >= file.size THEN "finish" ELSE "read"
    /\ UNCHANGED <<file, code, runs, inbuf, live, read, written, srcLen, dstLen,
                   amt, bufOff, stat, dec, crc32, totalRead>>

(* The CRC and the sizes are compared.                                      *)
Finish ==
    /\ pc = "finish"
    /\ \/ /\ footer_size > 0 /\ f.crc # crc32
          /\ Return("CRC32_MISMATCH")
       \/ /\ footer_size > 0 /\ f.crc = crc32 /\ LengthDiffers(f.size)
          /\ Return("SIZE_MISMATCH")
       \/ /\ footer_size = 0 /\ ~isStreamed /\ LengthDiffers(file.size)
          /\ Return("SIZE_MISMATCH")
       \/ /\ IF footer_size > 0 THEN f.crc = crc32 /\ ~LengthDiffers(f.size)
             ELSE isStreamed \/ ~LengthDiffers(file.size)
          /\ Return("OK")
    /\ UNCHANGED <<file, runs, inbuf, read, written, locals>>

Running == ReadHeader \/ AllocateDecoder \/ ReadInput \/ Decode \/ Write
           \/ CheckStatus \/ Finish

Next == Alloc \/ Free \/ Start \/ Running

Spec == Init /\ [][Next]_vars

(* The code runs on and the client's callbacks return.                      *)
FairSpec == Spec /\ WF_vars(Running)
-----------------------------------------------------------------------------
InRun == pc \notin {"none", "idle"}
Returned(c) == pc = "idle" /\ runs > 0 /\ code = c

TypeOK ==
    /\ pc \in {"none", "idle", "header", "allocate", "read", "decode", "write",
               "check", "finish"}
    /\ file \in Files
    /\ code \in Codes
    /\ runs \in 0 .. MaxRuns
    /\ inbuf \in [0 .. InBufSize - 1 -> Cells]
    /\ live \subseteq {"hdr", "probs", "dic"}
    /\ read \in Nat /\ written \in Nat
    /\ srcLen \in 0 .. InBufSize
    /\ dstLen \in 0 .. OutBufSize
    /\ amt \in 0 .. InBufSize
    /\ bufOff \in 0 .. InBufSize
    /\ stat \in Statuses
    /\ dec \in [alloc : BOOLEAN, fed : Nat, made : Nat]
    /\ crc32 \in Nat /\ totalRead \in Nat
    /\ f \in [crc : Int, size : Int]

(* The accounts of the two loops agree: every byte read has been fed to the *)
(* decoder once or waits at bufOff, every byte made has been written once   *)
(* or waits in the output buffer, and the running CRC and length cover      *)
(* exactly what the decoder made.                                           *)
AccountsAgree ==
    InRun =>
        /\ totalRead = dec.made
        /\ file.format = "lzip" => crc32 = dec.made
        /\ written = dec.made - (IF pc = "write" THEN dstLen ELSE 0)
        /\ pc = "decode" => read = dec.fed + amt /\ bufOff + amt = srcLen
        /\ pc = "write" => /\ read = (dec.fed - amt) + (srcLen - bufOff)
                           /\ bufOff + amt <= srcLen
        /\ pc = "check" => read = dec.fed + (srcLen - bufOff) /\ bufOff <= srcLen
        /\ pc \in {"header", "allocate", "read"} => read = dec.fed

(* dstLen is set once per read and overwritten by every call, yet each call *)
(* of a working decoder gets the whole output buffer and some input, so the *)
(* inner loop cannot spin.                                                  *)
CallsHaveRoom ==
    pc = "decode" /\ dec.alloc => dstLen = OutBufSize /\ amt > 0

(* OK is a promise about the data: every byte made was taken by the client, *)
(* the whole stream was decoded, and for lzip the CRC and length compared   *)
(* are those of what was written; for a header with a length, that length.  *)
OkMeansComplete ==
    Returned("OK") =>
        /\ written = totalRead
        /\ file.format = "lzip" => f = [crc |-> written, size |-> written]
        /\ file.format = "lzma" /\ ~file.streamed => written = file.size
        /\ isStreamed => file.stream.end = "mark" /\ written = Total(file.stream)

(* What an error code blames is what happened: the decoder met bad data,    *)
(* the header is corrupt, the client ended its input although the decoder   *)
(* had not met the end (or still owed output it could have made, or nothing *)
(* at all followed the header), the CRC is wrong or the footer was not in   *)
(* the buffer with the end mark, the lengths differ.                        *)
ErrorsHaveCauses ==
    /\ Returned("CORRUPT_HEADER") => file.header = "corrupt"
    /\ Returned("DECOMPRESS_ERROR") =>
        file.stream.end = "bad" /\ file.stream.endAt <= read
    /\ Returned("INSUFFICIENT_INPUT") =>
        /\ read = file.len
        /\ dec.alloc => ~(file.stream.end = "mark" /\ file.stream.endAt <= read)
        /\ ~isStreamed /\ dec.alloc =>
            \/ file.size > Given(file.stream, read)
            \/ dec.made < Given(file.stream, read)
            \/ read = 0
    /\ Returned("CRC32_MISMATCH") =>
        /\ file.format = "lzip" /\ stat = "FINISHED_WITH_MARK"
        /\ file.fcrc # written \/ bufOff + FooterSize > srcLen
    /\ Returned("SIZE_MISMATCH") =>
        IF file.format = "lzip" THEN f.size # written ELSE file.size # written

(* No path out of a run keeps memory.                                       *)
NothingLeaked == ~InRun => live = {}

(* Every run whose decoder was allocated returns, however the input is cut  *)
(* up and whatever it holds.                                                *)
WorkingRunsReturn == (InRun /\ dec.alloc) ~> ~InRun

(* Every run returns.                                                       *)
RunsReturn == (pc = "header") ~> ~InRun

(* common.h:58-59: a CRC mismatch indicates that what came out was not what *)
(* went in.                                                                 *)
CrcMismatchMeansCorruption ==
    Returned("CRC32_MISMATCH") =>
        \/ file.fcrc # Total(file.stream)
        \/ file.len < file.stream.endAt + FooterSize

(* decompress.c:209-210, 230-231: the footer that is compared is the one    *)
(* present in the input; a file without it is not accepted (an empty one,   *)
(* whose footer would say 0 and 0, aside).                                  *)
AcceptedOnItsOwnFooter ==
    Returned("OK") /\ file.format = "lzip" /\ written > 0 =>
        file.len >= file.stream.endAt + FooterSize

(* common.h:56: INSUFFICIENT_INPUT says that the input ended before the     *)
(* decompression could complete.                                            *)
InsufficientMeansTruncated ==
    Returned("INSUFFICIENT_INPUT") /\ dec.alloc /\ ~isStreamed =>
        Given(file.stream, file.len) < file.size
=============================================================================
