-------------------------- MODULE DecompressProofs --------------------------
(***************************************************************************)
(* Safety of elzma_decompress_run for every buffer size, every set of      *)
(* files and every number of runs on a handle.                             *)
(***************************************************************************)
EXTENDS Decompress, FiniteSetTheorems, TLAPS

(* What decompressEnd finds: memory held at each stage of a run.            *)
LiveInv ==
    /\ ~InRun => live = {}
    /\ pc \in {"header", "allocate"} => live = {"hdr"}
    /\ pc \in {"read", "decode", "write", "check", "finish"} =>
        live \subseteq {"probs", "dic"}

(* Why a call of the decoder gets the whole output buffer: it is reached    *)
(* again only after a call that met the output limit.                       *)
RoomInv ==
    /\ pc = "decode" => amt > 0 /\ (dec.alloc => dstLen = OutBufSize)
    /\ pc = "write" /\ dec.alloc =>
        \/ stat = "FINISHED_WITH_MARK"
        \/ dstLen = OutBufSize
        \/ bufOff + amt = srcLen

(* The end mark is met only with the whole stream made, and only by a       *)
(* stream that has one; a lzip run reaches the comparison only through it.  *)
MarkInv ==
    /\ pc \in {"write", "check", "finish"} /\ stat = "FINISHED_WITH_MARK" =>
        file.stream.end = "mark" /\ dec.made = Total(file.stream)
    /\ pc = "finish" /\ isStreamed => stat = "FINISHED_WITH_MARK"
    /\ InRun => file.format \in {"lzma", "lzip"}

AccountsInv ==
    /\ AccountsAgree
    /\ pc \in {"header", "allocate"} => dec.fed = 0 /\ dec.made = 0
    /\ pc = "check" /\ stat # "FINISHED_WITH_MARK" => bufOff = srcLen

(* The decoder stays before the end mark until it reports it, and then has  *)
(* taken its last byte and no more.                                         *)
BeforeMark ==
    \/ pc \in {"read", "decode"}
    \/ pc \in {"write", "check"} /\ stat # "FINISHED_WITH_MARK"

EndInv ==
    /\ BeforeMark /\ dec.alloc /\ file.stream.end = "mark" =>
        dec.fed < file.stream.endAt
    /\ pc \in {"write", "check"} /\ stat = "FINISHED_WITH_MARK" =>
        dec.fed = file.stream.endAt

(* What the input buffer holds of this read, and how much of it is left.    *)
BufferInv ==
    /\ pc \in {"decode", "write", "check"} =>
        /\ srcLen <= read
        /\ \A i \in 0 .. srcLen - 1 : inbuf[i] = ByteOf(file, (read - srcLen) + i + 1)
    /\ pc = "check" /\ bufOff < srcLen => amt = srcLen - bufOff

(* The footer that is compared is the file's, if it was in the buffer.      *)
FooterInv ==
    pc = "finish" /\ file.format = "lzip" =>
        \/ bufOff + FooterSize > srcLen
        \/ f = [crc |-> file.fcrc, size |-> file.fsize]

(* The loop goes on only while the length in the header is not reached.     *)
LengthInv == pc = "read" /\ ~isStreamed => dec.made < file.size \/ read = 0

CauseInv == EndInv /\ BufferInv /\ FooterInv /\ LengthInv /\ ErrorsHaveCauses

IInv ==
    /\ TypeOK
    /\ LiveInv
    /\ RoomInv
    /\ AccountsInv
    /\ MarkInv
    /\ OkMeansComplete

-----------------------------------------------------------------------------
(* Bounds on what a call takes and makes.                                   *)
LEMMA DecodeBounds ==
    ASSUME NEW s \in Streams, NEW d \in [alloc : BOOLEAN, fed : Nat, made : Nat],
           NEW a \in Nat, NEW dst \in Nat, NEW o \in DecodeToBuf(s, d, a, dst)
    PROVE  /\ o.fed \in Nat /\ d.fed <= o.fed /\ o.fed - d.fed \in 0 .. a
           /\ o.made \in Nat /\ d.made <= o.made /\ o.made - d.made \in 0 .. dst
           /\ o.stat \in Statuses /\ o.ok \in BOOLEAN
  BY DEF DecodeToBuf

(* A call that leaves input behind met the output limit or the end mark.    *)
LEMMA DecodeLeavesInput ==
    ASSUME NEW s \in Streams, NEW d \in [alloc : BOOLEAN, fed : Nat, made : Nat],
           NEW a \in Nat, NEW dst \in Nat, NEW o \in DecodeToBuf(s, d, a, dst),
           d.alloc
    PROVE  \/ o.stat = "FINISHED_WITH_MARK"
           \/ o.made = d.made + dst
           \/ o.fed = d.fed + a
  BY DEF DecodeToBuf, DecodeToLimit, DecodeToInputEnd

(* All the bytes that end a stream determine all of its output.             *)
LEMMA GivenAll ==
    ASSUME NEW s \in Streams, WellFormed(s), s.end = "mark",
           NEW n \in Nat, s.endAt <= n
    PROVE  Given(s, n) = Total(s)
  <1> DEFINE whole == {i \in DOMAIN s.need : s.need[i] <= n}
  <1>1. /\ s.need \in Seq(Nat) /\ s.endAt \in Nat
        /\ Len(s.need) \in Nat /\ DOMAIN s.need = 1 .. Len(s.need)
    BY DEF Streams
  <1>2. \A i \in 1 .. Len(s.need) : s.need[i] \in Nat /\ s.need[i] <= s.endAt
    BY <1>1 DEF WellFormed
  <1>3. whole = 1 .. Len(s.need)
    BY <1>1, <1>2
  <1>4. Cardinality(whole) = Len(s.need)
    <2>1. 1 \in Int /\ Len(s.need) \in Int
      BY <1>1
    <2>2. Cardinality(1 .. Len(s.need)) =
            IF 1 > Len(s.need) THEN 0 ELSE Len(s.need) - 1 + 1
      BY <2>1, FS_Interval
    <2> HIDE DEF whole
    <2> QED
      BY <1>1, <1>3, <2>2
  <1> QED
    BY <1>4 DEF Given, Total

(* An end mark is reported only when the whole stream has been made.        *)
LEMMA DecodeMark ==
    ASSUME NEW s \in Streams, WellFormed(s),
           NEW d \in [alloc : BOOLEAN, fed : Nat, made : Nat],
           NEW a \in Nat, NEW dst \in Nat, NEW o \in DecodeToBuf(s, d, a, dst),
           o.stat = "FINISHED_WITH_MARK"
    PROVE  s.end = "mark" /\ o.made = Total(s)
  <1>1. DecodeToInputEnd(s, d, a, o)
    BY DEF DecodeToBuf, DecodeNothing, DecodeToLimit
  <1>2. s.end = "mark" /\ s.endAt <= d.fed + a /\ o.made = Given(s, d.fed + a)
    BY <1>1 DEF DecodeToInputEnd
  <1> QED
    BY <1>2, GivenAll

(* A part of the symbols has a number, and one that misses a symbol is less *)
(* than all of them.                                                        *)
LEMMA CountSymbols ==
    ASSUME NEW n \in Nat, NEW S \in SUBSET (1 .. n)
    PROVE  /\ Cardinality(S) \in 0 .. n
           /\ \A k \in (1 .. n) \ S : Cardinality(S) < n
  <1>1. IsFiniteSet(1 .. n) /\ Cardinality(1 .. n) = n
    <2>1. 1 \in Int /\ n \in Int
      OBVIOUS
    <2>2. /\ IsFiniteSet(1 .. n)
          /\ Cardinality(1 .. n) = IF 1 > n THEN 0 ELSE n - 1 + 1
      BY <2>1, FS_Interval
    <2> QED
      BY <2>2
  <1>2. /\ IsFiniteSet(S) /\ Cardinality(S) <= n
        /\ Cardinality(S) = n => S = 1 .. n
    BY <1>1, FS_Subset
  <1>3. Cardinality(S) \in Nat
    BY <1>2, FS_CardinalityType
  <1> QED
    BY <1>2, <1>3

(* What some bytes determine is a number of bytes, and where it is not 0    *)
(* one that a symbol completes.                                             *)
LEMMA GivenType ==
    ASSUME NEW s \in Streams, WellFormed(s), NEW n \in Nat
    PROVE  /\ Given(s, n) \in Nat
           /\ Given(s, n) > 0 => \E k \in 1 .. Len(s.need) : Given(s, n) = s.give[k]
  <1> DEFINE whole == {i \in DOMAIN s.need : s.need[i] <= n}
  <1>1. /\ s.give \in Seq(Nat) /\ s.need \in Seq(Nat)
        /\ Len(s.give) = Len(s.need) /\ Len(s.need) \in Nat
    BY DEF Streams, WellFormed
  <1>2. \A k \in 1 .. Len(s.need) : s.give[k] \in Nat
    BY <1>1
  <1>3. Cardinality(whole) \in 0 .. Len(s.need)
    <2>1. whole \in SUBSET (1 .. Len(s.need))
      BY <1>1
    <2> HIDE DEF whole
    <2> QED
      BY <1>1, <2>1, CountSymbols
  <1>4. Given(s, n) = IF Cardinality(whole) = 0 THEN 0 ELSE s.give[Cardinality(whole)]
    BY DEF Given
  <1> HIDE DEF whole
  <1> QED
    BY <1>2, <1>3, <1>4

(* A symbol that is there completes before the end mark does.               *)
LEMMA CostBeforeMark ==
    ASSUME NEW s \in Streams, WellFormed(s), s.end = "mark",
           NEW n \in Nat, NEW m \in Nat \ {0}, m <= Given(s, n)
    PROVE  Cost(s, m) \in Nat /\ Cost(s, m) < s.endAt
  <1> DEFINE earlier == {i \in DOMAIN s.give : s.give[i] < m}
             count == Cardinality(earlier)
  <1>1. /\ s.give \in Seq(Nat) /\ s.need \in Seq(Nat) /\ s.endAt \in Nat
        /\ Len(s.give) = Len(s.need) /\ Len(s.need) \in Nat
    BY DEF Streams, WellFormed
  <1>2. PICK k \in 1 .. Len(s.need) : Given(s, n) = s.give[k]
    <2>1. /\ Given(s, n) \in Nat
          /\ Given(s, n) > 0 => \E k \in 1 .. Len(s.need) : Given(s, n) = s.give[k]
      BY GivenType, ZenonT(30)
    <2> QED
      BY <2>1
  <1>3. k \notin earlier
    BY <1>1, <1>2
  <1>4. earlier \in SUBSET (1 .. Len(s.need))
    BY <1>1, SMTT(30)
  <1>5. count \in 0 .. Len(s.need) /\ count < Len(s.need)
    <2> HIDE DEF earlier
    <2> QED
      BY <1>1, <1>3, <1>4, CountSymbols
  <1>6. Cost(s, m) = s.need[1 + count]
    BY DEF Cost
  <1> HIDE DEF count
  <1>7. 1 + count \in 1 .. Len(s.need)
    BY <1>1, <1>5
  <1>8. \A i \in 1 .. Len(s.need) : s.need[i] < s.endAt
    BY <1>1 DEF WellFormed
  <1>9. \A i \in 1 .. Len(s.need) : s.need[i] \in Nat
    BY <1>1, SMTT(30)
  <1> QED
    BY <1>6, <1>7, <1>8, <1>9

(* A decoder before the end mark stays before it or reports it, having      *)
(* taken its last byte.                                                     *)
LEMMA DecodeEnd ==
    ASSUME NEW s \in Streams, WellFormed(s), s.end = "mark",
           NEW d \in [alloc : BOOLEAN, fed : Nat, made : Nat],
           d.alloc, d.fed < s.endAt,
           NEW a \in Nat, NEW dst \in Nat \ {0}, NEW o \in DecodeToBuf(s, d, a, dst)
    PROVE  IF o.stat = "FINISHED_WITH_MARK" THEN o.fed = s.endAt ELSE o.fed < s.endAt
  <1>1. s.endAt \in Nat /\ d.fed \in Nat /\ d.made \in Nat
    BY DEF Streams
  <1>2. CASE d.made + dst <= Given(s, d.fed + a) /\ DecodeToLimit(s, d, dst, o)
    <2>1. d.fed + a \in Nat /\ d.made + dst \in Nat \ {0}
      BY <1>1
    <2>2. Cost(s, d.made + dst) \in Nat /\ Cost(s, d.made + dst) < s.endAt
      BY <1>2, <2>1, CostBeforeMark
    <2> QED
      BY <1>1, <1>2, <2>2 DEF DecodeToLimit, Larger
  <1>3. CASE DecodeToInputEnd(s, d, a, o)
    BY <1>1, <1>3 DEF DecodeToInputEnd, Larger
  <1> QED
    BY <1>2, <1>3 DEF DecodeToBuf

(* Input is refused only where it is bad, and only when that was handed     *)
(* over.                                                                    *)
LEMMA DecodeRefuses ==
    ASSUME NEW s \in Streams, NEW d \in [alloc : BOOLEAN, fed : Nat, made : Nat],
           NEW a \in Nat, NEW dst \in Nat, NEW o \in DecodeToBuf(s, d, a, dst),
           ~o.ok
    PROVE  s.end = "bad" /\ s.endAt <= d.fed + a
  BY RcInitAssumption
  DEF DecodeToBuf, DecodeNothing, DecodeToLimit, DecodeToInputEnd, Streams
-----------------------------------------------------------------------------
(* The invariant holds before a handle exists.                              *)
LEMMA InitInv == Init => IInv
  BY BufferAssumption, FilesAssumption
  DEF Init, IInv, TypeOK, LiveInv, RoomInv, AccountsInv, AccountsAgree, MarkInv,
      OkMeansComplete, InRun, Returned, Body, Cells, NoFooter, Statuses, Codes

(* elzma_decompress_alloc, elzma_decompress_free and the entry of a run.    *)
LEMMA HandleInv ==
    ASSUME IInv, Alloc \/ Free \/ Start
    PROVE  IInv'
  <1>1. CASE Alloc
    <2>1. TypeOK'
      BY <1>1, BufferAssumption DEF Alloc, IInv, TypeOK, locals, Body, Cells
    <2> QED
      BY <1>1, <2>1
      DEF Alloc, IInv, TypeOK, LiveInv, RoomInv, AccountsInv, AccountsAgree,
          MarkInv, OkMeansComplete, InRun, Returned, locals
  <1>2. CASE Free
    BY <1>2
    DEF Free, IInv, TypeOK, LiveInv, RoomInv, AccountsInv, AccountsAgree, MarkInv,
        OkMeansComplete, InRun, Returned, locals
  <1>3. CASE Start
    <2>1. TypeOK'
      <3>1. runs' \in 0 .. MaxRuns
        BY <1>3, BufferAssumption DEF Start, IInv, TypeOK
      <3>2. /\ pc' \in {"idle", "header"} /\ code' \in Codes
            /\ live' \subseteq {"hdr", "probs", "dic"}
        BY <1>3 DEF Start, IInv, TypeOK, Codes
      <3>3. /\ read' \in Nat /\ written' \in Nat /\ crc32' \in Nat
            /\ totalRead' \in Nat /\ f' \in [crc : Int, size : Int]
            /\ dec' \in [alloc : BOOLEAN, fed : Nat, made : Nat]
            /\ file' \in Files
        BY <1>3 DEF Start, NoFooter
      <3>4. UNCHANGED <<inbuf, srcLen, dstLen, amt, bufOff, stat>>
        BY <1>3 DEF Start
      <3> QED
        BY <3>1, <3>2, <3>3, <3>4 DEF IInv, TypeOK
    <2>2. LiveInv' /\ RoomInv'
      BY <1>3 DEF Start, IInv, LiveInv, RoomInv, InRun
    <2>3. AccountsInv'
      BY <1>3 DEF Start, AccountsInv, AccountsAgree, InRun
    <2>4. MarkInv'
      <3>1. file'.format \in {"lzma", "lzip", "other"}
        BY <1>3, FilesAssumption DEF Start, FileType, Formats
      <3> QED
        BY <1>3, <3>1 DEF Start, MarkInv, InRun
    <2>5. OkMeansComplete'
      BY <1>3 DEF Start, OkMeansComplete, Returned
    <2> QED
      BY <2>1, <2>2, <2>3, <2>4, <2>5 DEF IInv
  <1> QED
    BY <1>1, <1>2, <1>3

(* The header: nothing is fed or made yet, and the header's block is freed  *)
(* on every way out.                                                        *)
LEMMA HeaderInv ==
    ASSUME IInv, ReadHeader \/ AllocateDecoder
    PROVE  IInv'
  <1>1. CASE ReadHeader
    <2>1. TypeOK'
      BY <1>1 DEF ReadHeader, IInv, TypeOK, Codes, locals
    <2>2. LiveInv' /\ RoomInv' /\ MarkInv' /\ AccountsInv' /\ OkMeansComplete'
      BY <1>1
      DEF ReadHeader, IInv, LiveInv, RoomInv, MarkInv, AccountsInv, AccountsAgree,
          OkMeansComplete, Returned, InRun, locals
    <2> QED
      BY <2>1, <2>2 DEF IInv
  <1>2. CASE AllocateDecoder
    <2>1. PICK ok \in BOOLEAN :
            /\ dec' = [dec EXCEPT !.alloc = ok]
            /\ live' = (live \ {"hdr"}) \cup (IF ok THEN {"probs", "dic"} ELSE {})
      BY <1>2 DEF AllocateDecoder
    <2>2. /\ dec' \in [alloc : BOOLEAN, fed : Nat, made : Nat]
          /\ dec'.fed = dec.fed /\ dec'.made = dec.made
      BY <2>1 DEF IInv, TypeOK
    <2>3. live' \subseteq {"probs", "dic"}
      BY <1>2, <2>1 DEF AllocateDecoder, IInv, LiveInv
    <2>4. TypeOK'
      BY <1>2, <2>2, <2>3 DEF AllocateDecoder, IInv, TypeOK
    <2>5. LiveInv' /\ RoomInv' /\ MarkInv' /\ AccountsInv' /\ OkMeansComplete'
      BY <1>2, <2>2, <2>3
      DEF AllocateDecoder, IInv, LiveInv, RoomInv, MarkInv, AccountsInv,
          AccountsAgree, OkMeansComplete, Returned, InRun
    <2> QED
      BY <2>4, <2>5 DEF IInv
  <1> QED
    BY <1>1, <1>2

(* A return with an error: the locals no longer matter.                     *)
LEMMA ErrorReturnInv ==
    ASSUME IInv, TypeOK', NEW c \in Codes \ {"OK"}, Return(c),
           pc \in {"read", "decode", "write", "finish"},
           UNCHANGED file
    PROVE  IInv'
  <1>1. LiveInv'
    BY DEF Return, IInv, LiveInv, InRun
  <1>2. RoomInv' /\ MarkInv' /\ AccountsInv' /\ OkMeansComplete'
    BY DEF Return, RoomInv, MarkInv, AccountsInv, AccountsAgree, OkMeansComplete,
           Returned, InRun
  <1> QED
    BY <1>1, <1>2 DEF IInv

(* The read at the top of the outer loop.                                   *)
LEMMA ReadInv ==
    ASSUME IInv, ReadInput
    PROVE  IInv'
  <1>1. CASE Return("INPUT_ERROR") /\ UNCHANGED <<inbuf, read, locals>>
    <2>1. TypeOK'
      BY <1>1 DEF ReadInput, Return, IInv, TypeOK, Codes, locals
    <2> QED
      BY <1>1, <2>1, ErrorReturnInv DEF ReadInput, Codes
  <1>2. CASE /\ Return("INSUFFICIENT_INPUT") /\ srcLen' = 0
             /\ UNCHANGED <<inbuf, read, dstLen, amt, bufOff, stat, dec, crc32,
                            totalRead, f>>
    <2>1. TypeOK'
      BY <1>2, BufferAssumption DEF ReadInput, Return, IInv, TypeOK, Codes
    <2> QED
      BY <1>2, <2>1, ErrorReturnInv DEF ReadInput, Codes
  <1>3. ASSUME NEW n \in 1 .. InBufSize,
               /\ inbuf' = [i \in 0 .. InBufSize - 1 |->
                        IF i < n THEN ByteOf(file, read + i + 1) ELSE inbuf[i]]
               /\ read' = read + n /\ srcLen' = n /\ dstLen' = OutBufSize
               /\ amt' = n /\ bufOff' = 0 /\ stat' = "NOT_SPECIFIED"
               /\ pc' = "decode"
               /\ UNCHANGED <<code, live, dec, crc32, totalRead, f>>
        PROVE  IInv'
    <2>1. inbuf' \in [0 .. InBufSize - 1 -> Cells]
      <3>1. file \in FileType
        BY FilesAssumption DEF IInv, TypeOK
      <3>2. \A k \in Nat : ByteOf(file, k) \in Cells
        BY <3>1, BufferAssumption
        DEF ByteOf, Body, Cells, FileType, Streams
      <3>3. \A i \in 0 .. InBufSize - 1 : read + i + 1 \in Nat
        BY BufferAssumption DEF IInv, TypeOK
      <3> QED
        BY <1>3, <3>2, <3>3 DEF IInv, TypeOK
    <2>2. TypeOK'
      <3>1. /\ srcLen' \in 0 .. InBufSize /\ amt' \in 0 .. InBufSize
            /\ bufOff' \in 0 .. InBufSize /\ dstLen' \in 0 .. OutBufSize
            /\ read' \in Nat
        BY <1>3, BufferAssumption DEF IInv, TypeOK
      <3>2. stat' \in Statuses /\ pc' = "decode"
        BY <1>3 DEF Statuses
      <3>3. UNCHANGED <<code, live, dec, crc32, totalRead, f, file, runs, written>>
        BY <1>3 DEF ReadInput
      <3> QED
        BY <2>1, <3>1, <3>2, <3>3 DEF IInv, TypeOK
    <2>3. LiveInv' /\ RoomInv' /\ MarkInv' /\ OkMeansComplete'
      BY <1>3
      DEF ReadInput, IInv, LiveInv, RoomInv, MarkInv, OkMeansComplete, Returned,
          InRun
    <2>4. AccountsInv'
      BY <1>3 DEF ReadInput, IInv, TypeOK, AccountsInv, AccountsAgree, InRun
    <2> QED
      BY <2>2, <2>3, <2>4 DEF IInv
  <1> QED
    BY <1>1, <1>2, <1>3 DEF ReadInput

(* One call of the decoder.                                                 *)
LEMMA DecodeInv ==
    ASSUME IInv, Decode
    PROVE  IInv'
  <1>1. /\ file \in FileType /\ file.stream \in Streams /\ WellFormed(file.stream)
        /\ dec \in [alloc : BOOLEAN, fed : Nat, made : Nat]
        /\ amt \in Nat /\ dstLen \in Nat
        /\ amt <= InBufSize /\ dstLen <= OutBufSize
        /\ InBufSize \in Nat /\ OutBufSize \in Nat
        /\ bufOff \in Nat /\ srcLen \in Nat /\ read \in Nat
        /\ dec.fed \in Nat /\ dec.made \in Nat /\ dec.alloc \in BOOLEAN
        /\ crc32 \in Nat /\ totalRead \in Nat /\ written \in Nat
    <2>1. file \in Files
      BY DEF IInv, TypeOK
    <2> QED
      BY <2>1, FilesAssumption, BufferAssumption DEF IInv, TypeOK, FileType
  <1>2. PICK o \in DecodeToBuf(file.stream, dec, amt, dstLen) :
          IF ~o.ok
          THEN Return("DECOMPRESS_ERROR") /\ UNCHANGED locals
          ELSE /\ dec' = [dec EXCEPT !.fed = o.fed, !.made = o.made]
               /\ amt' = o.fed - dec.fed
               /\ dstLen' = o.made - dec.made
               /\ stat' = o.stat
               /\ crc32' = CrcUpdated(dstLen')
               /\ totalRead' = totalRead + dstLen'
               /\ pc' = "write"
               /\ UNCHANGED <<code, live, srcLen, bufOff, f>>
    BY DEF Decode
  <1>3. pc = "decode" /\ UNCHANGED <<file, runs, inbuf, read, written>>
    BY DEF Decode
  <1>4. /\ o.fed \in Nat /\ dec.fed <= o.fed /\ o.fed - dec.fed \in 0 .. amt
        /\ o.made \in Nat /\ dec.made <= o.made /\ o.made - dec.made \in 0 .. dstLen
        /\ o.stat \in Statuses /\ o.ok \in BOOLEAN
    BY <1>1, DecodeBounds
  <1>5. CASE ~o.ok
    <2>1. Return("DECOMPRESS_ERROR") /\ UNCHANGED locals
      BY <1>2, <1>5
    <2>2. TypeOK'
      BY <1>3, <2>1 DEF Return, IInv, TypeOK, Codes, locals
    <2> QED
      BY <1>3, <2>1, <2>2, ErrorReturnInv DEF Codes
  <1>6. CASE o.ok
    <2>1. /\ dec' = [dec EXCEPT !.fed = o.fed, !.made = o.made]
          /\ amt' = o.fed - dec.fed /\ dstLen' = o.made - dec.made
          /\ stat' = o.stat /\ crc32' = CrcUpdated(dstLen')
          /\ totalRead' = totalRead + dstLen' /\ pc' = "write"
          /\ UNCHANGED <<code, live, srcLen, bufOff, f>>
      BY <1>2, <1>6
    <2>2. /\ dec' \in [alloc : BOOLEAN, fed : Nat, made : Nat]
          /\ dec'.alloc = dec.alloc /\ dec'.fed = o.fed /\ dec'.made = o.made
      BY <1>1, <1>4, <2>1
    <2>3. amt' \in 0 .. InBufSize /\ dstLen' \in 0 .. OutBufSize
      BY <1>1, <1>4, <2>1
    <2>4. crc32' \in Nat /\ totalRead' \in Nat
      BY <1>1, <2>1, <2>3 DEF CrcUpdated
    <2>5. TypeOK'
      <3>1. stat' \in Statuses /\ pc' = "write"
        BY <1>4, <2>1
      <3> QED
        BY <1>3, <2>1, <2>2, <2>3, <2>4, <3>1 DEF IInv, TypeOK
    <2>6. LiveInv'
      BY <1>3, <2>1 DEF IInv, LiveInv, InRun
    <2>7. RoomInv'
      <3>1. dec.alloc => dstLen = OutBufSize
        BY <1>3 DEF IInv, RoomInv
      <3>2. bufOff + amt = srcLen
        BY <1>3 DEF IInv, AccountsInv, AccountsAgree, InRun
      <3>3. dec.alloc => \/ o.stat = "FINISHED_WITH_MARK"
                         \/ o.made = dec.made + dstLen
                         \/ o.fed = dec.fed + amt
        BY <1>1, DecodeLeavesInput
      <3>4. dec.alloc => \/ stat' = "FINISHED_WITH_MARK"
                         \/ dstLen' = OutBufSize
                         \/ bufOff' + amt' = srcLen'
        BY <1>1, <1>4, <2>1, <3>1, <3>2, <3>3
      <3> QED
        BY <2>1, <2>2, <3>4 DEF RoomInv
    <2>8. AccountsInv'
      <3>1. /\ totalRead = dec.made /\ written = dec.made
            /\ file.format = "lzip" => crc32 = dec.made
            /\ read = dec.fed + amt /\ bufOff + amt = srcLen
        BY <1>1, <1>3 DEF IInv, AccountsInv, AccountsAgree, InRun
      <3>2. totalRead' = o.made /\ (file.format = "lzip" => crc32' = o.made)
        BY <1>1, <1>4, <2>1, <3>1 DEF CrcUpdated
      <3>3. written' = o.made - dstLen'
        BY <1>1, <1>3, <1>4, <2>1, <3>1
      <3>4. read' = (o.fed - amt') + (srcLen' - bufOff') /\ bufOff' + amt' <= srcLen'
        BY <1>1, <1>3, <1>4, <2>1, <3>1
      <3> QED
        BY <1>3, <2>1, <2>2, <3>2, <3>3, <3>4 DEF AccountsInv, AccountsAgree
    <2>9. MarkInv'
      <3>1. o.stat = "FINISHED_WITH_MARK" =>
              file.stream.end = "mark" /\ o.made = Total(file.stream)
        BY <1>1, DecodeMark
      <3> QED
        BY <1>3, <2>1, <2>2, <3>1 DEF IInv, MarkInv, InRun
    <2>10. OkMeansComplete'
      BY <2>1 DEF OkMeansComplete, Returned
    <2> QED
      BY <2>5, <2>6, <2>7, <2>8, <2>9, <2>10 DEF IInv
  <1> QED
    BY <1>4, <1>5, <1>6

(* The client's write and the bottom of the inner loop.                     *)
LEMMA WriteInv ==
    ASSUME IInv, Write
    PROVE  IInv'
  <1>1. pc = "write" /\ UNCHANGED <<file, runs, inbuf, read>>
    BY DEF Write
  <1>2. CASE \E wt \in 0 .. dstLen - 1 :
                written' = written + wt /\ Return("OUTPUT_ERROR") /\ UNCHANGED locals
    <2>1. written' \in Nat /\ Return("OUTPUT_ERROR") /\ UNCHANGED locals
      BY <1>2 DEF IInv, TypeOK
    <2>2. TypeOK'
      BY <1>1, <2>1 DEF Return, IInv, TypeOK, Codes, locals
    <2> QED
      BY <1>1, <2>1, <2>2, ErrorReturnInv DEF Codes
  <1>3. CASE /\ written' = written + dstLen
             /\ bufOff' = NextOffset
             /\ IF ChunkUsed(NextOffset)
                THEN pc' = "check" /\ amt' = amt
                ELSE /\ amt' = Remaining(NextOffset)
                     /\ pc' = AfterChunk
             /\ UNCHANGED <<code, live, srcLen, dstLen, stat, dec, crc32,
                            totalRead, f>>
    <2>1. /\ totalRead = dec.made /\ written = dec.made - dstLen
          /\ file.format = "lzip" => crc32 = dec.made
          /\ read = (dec.fed - amt) + (srcLen - bufOff) /\ bufOff + amt <= srcLen
      BY <1>1 DEF IInv, AccountsInv, AccountsAgree, InRun
    <2>2. /\ amt \in 0 .. InBufSize /\ bufOff \in 0 .. InBufSize
          /\ srcLen \in 0 .. InBufSize /\ dstLen \in 0 .. OutBufSize
          /\ dec.made \in Nat /\ dec.fed \in Nat /\ written \in Nat
          /\ InBufSize \in Nat /\ OutBufSize \in Nat
      BY BufferAssumption DEF IInv, TypeOK
    <2>3. /\ bufOff' = bufOff + amt /\ bufOff' \in 0 .. InBufSize
          /\ pc' \in {"check", "decode"}
          /\ amt' \in 0 .. InBufSize
          /\ pc' = "decode" => /\ amt' = srcLen - bufOff' /\ amt' > 0
                               /\ stat # "FINISHED_WITH_MARK"
          /\ bufOff' <= srcLen
      BY <1>3, <2>1, <2>2 DEF NextOffset, ChunkUsed, Remaining, AfterChunk
    <2>11. pc' = "check" /\ stat # "FINISHED_WITH_MARK" => bufOff' = srcLen
      BY <1>3, <2>1, <2>2 DEF NextOffset, ChunkUsed, AfterChunk
    <2>4. written' \in Nat /\ written' = dec.made
      BY <1>3, <2>1, <2>2
    <2>5. TypeOK'
      BY <1>1, <1>3, <2>3, <2>4 DEF IInv, TypeOK
    <2>6. LiveInv'
      BY <1>1, <1>3, <2>3 DEF IInv, LiveInv, InRun
    <2>7. RoomInv'
      <3>1. pc' = "decode" /\ dec.alloc => dstLen = OutBufSize
        BY <1>1, <2>2, <2>3 DEF IInv, RoomInv
      <3> QED
        BY <1>3, <2>3, <3>1 DEF RoomInv
    <2>8. AccountsInv'
      <3>1. read = dec.fed + (srcLen - bufOff')
        BY <2>1, <2>2, <2>3
      <3>2. pc' = "decode" => read = dec.fed + amt' /\ bufOff' + amt' = srcLen
        BY <2>2, <2>3, <3>1
      <3> QED
        BY <1>1, <1>3, <2>1, <2>3, <2>4, <2>11, <3>1, <3>2 DEF AccountsInv, AccountsAgree
    <2>9. MarkInv'
      BY <1>1, <1>3, <2>3 DEF IInv, MarkInv, InRun
    <2>10. OkMeansComplete'
      BY <2>3 DEF OkMeansComplete, Returned
    <2> QED
      BY <2>5, <2>6, <2>7, <2>8, <2>9, <2>10 DEF IInv
  <1> QED
    BY <1>2, <1>3 DEF Write

(* The bottom of the outer loop and the footer.                             *)
LEMMA CheckInv ==
    ASSUME IInv, CheckStatus
    PROVE  IInv'
  <1>1. /\ pc = "check" /\ pc' \in {"finish", "read"}
        /\ UNCHANGED <<file, code, runs, inbuf, live, read, written, srcLen, dstLen,
                       amt, bufOff, stat, dec, crc32, totalRead>>
        /\ stat # "FINISHED_WITH_MARK" /\ isStreamed => pc' = "read"
        /\ stat = "FINISHED_WITH_MARK" => pc' = "finish"
    BY DEF CheckStatus
  <1>2. f' \in [crc : Int, size : Int]
    <2>1. \A off \in Nat : ParseFooter(off) \subseteq [crc : Int, size : Int]
      <3>1. ASSUME NEW off \in Nat, off + FooterSize <= InBufSize
            PROVE  inbuf[off + 1 - 1] \in Cells
        <4>1. off + 1 - 1 = off /\ off \in 0 .. InBufSize - 1
          BY <3>1, BufferAssumption
        <4> QED
          BY <4>1 DEF IInv, TypeOK
      <3>2. crc32 \in Int /\ totalRead \in Int
        BY DEF IInv, TypeOK
      <3>3. TAKE off \in Nat
      <3>4. CASE off + FooterSize > InBufSize
        BY <3>2, <3>4 DEF ParseFooter, Junk
      <3>5. CASE off + FooterSize <= InBufSize
        <4>1. inbuf[off + 1 - 1].crc \in Nat /\ inbuf[off + 1 - 1].size \in Nat
          BY <3>1, <3>5 DEF Cells
        <4>2. ~(off + FooterSize > InBufSize)
          BY <3>5, BufferAssumption
        <4>3. ParseFooter(off) \subseteq
                {[crc |-> inbuf[off + 1 - 1].crc, size |-> inbuf[off + 1 - 1].size], Junk}
          BY <4>2 DEF ParseFooter
        <4> QED
          BY <4>1, <4>3 DEF Junk
      <3> QED
        BY <3>4, <3>5, BufferAssumption
    <2>2. bufOff \in Nat
      BY BufferAssumption DEF IInv, TypeOK
    <2>3. f \in [crc : Int, size : Int]
      BY DEF IInv, TypeOK
    <2> QED
      BY <2>1, <2>2, <2>3 DEF CheckStatus
  <1>3. TypeOK'
    BY <1>1, <1>2 DEF IInv, TypeOK
  <1>4. LiveInv' /\ RoomInv'
    BY <1>1 DEF IInv, LiveInv, RoomInv, InRun
  <1>5. AccountsInv'
    <2>1. pc' = "read" => read = dec.fed
      <3>1. SUFFICES ASSUME pc' = "read" PROVE read = dec.fed
        OBVIOUS
      <3>2. stat # "FINISHED_WITH_MARK"
        BY <1>1, <3>1
      <3>3. read = dec.fed + (srcLen - bufOff) /\ bufOff = srcLen
        BY <1>1, <3>2 DEF IInv, AccountsInv, AccountsAgree, InRun
      <3>4. srcLen \in Nat /\ dec.fed \in Nat
        BY BufferAssumption DEF IInv, TypeOK
      <3> QED
        BY <3>3, <3>4
    <2> QED
      BY <1>1, <2>1 DEF IInv, AccountsInv, AccountsAgree, InRun
  <1>6. MarkInv'
    BY <1>1 DEF IInv, MarkInv, InRun, isStreamed
  <1>7. OkMeansComplete'
    BY <1>1 DEF OkMeansComplete, Returned
  <1> QED
    BY <1>3, <1>4, <1>5, <1>6, <1>7 DEF IInv

(* The comparison at the end: OK is returned only when it succeeds.         *)
LEMMA FinishInv ==
    ASSUME IInv, Finish
    PROVE  IInv'
  <1>1. pc = "finish" /\ UNCHANGED <<file, runs, inbuf, read, written, locals>>
    BY DEF Finish
  <1>2. ASSUME NEW c \in Codes, Return(c)
        PROVE  TypeOK'
    BY <1>1, <1>2 DEF Return, IInv, TypeOK, locals
  <1>3. CASE \E c \in Codes \ {"OK"} : Return(c)
    BY <1>1, <1>2, <1>3, ErrorReturnInv
  <1>4. CASE /\ IF footer_size > 0 THEN f.crc = crc32 /\ ~LengthDiffers(f.size)
                ELSE isStreamed \/ ~LengthDiffers(file.size)
             /\ Return("OK")
    <2>1. /\ TypeOK'
          /\ pc' = "idle" /\ live' = {}
      <3>1. "OK" \in Codes
        BY DEF Codes
      <3>2. live' = {}
        BY <1>1, <1>4 DEF Return, IInv, LiveInv
      <3> QED
        BY <1>2, <1>4, <3>1, <3>2 DEF Return
    <2>2. /\ file.format \in {"lzma", "lzip"}
          /\ isStreamed => /\ file.stream.end = "mark"
                           /\ dec.made = Total(file.stream)
      BY <1>1 DEF IInv, MarkInv, InRun
    <2>3. /\ totalRead = dec.made /\ written = dec.made
          /\ file.format = "lzip" => crc32 = dec.made
          /\ dec.made \in Nat
      BY <1>1 DEF IInv, TypeOK, AccountsInv, AccountsAgree, InRun
    <2>4. file.format = "lzip" => f = [crc |-> written, size |-> written]
      <3>1. SUFFICES ASSUME file.format = "lzip"
                     PROVE  f = [crc |-> written, size |-> written]
        OBVIOUS
      <3>2. footer_size > 0
        BY <3>1, BufferAssumption DEF footer_size
      <3>3. f.crc = written /\ f.size = written
        BY <1>4, <2>3, <3>1, <3>2 DEF LengthDiffers
      <3>4. f \in [crc : Int, size : Int]
        BY DEF IInv, TypeOK
      <3> QED
        BY <3>3, <3>4
    <2>5. file.format = "lzma" /\ ~file.streamed => written = file.size
      BY <1>4, <2>3, BufferAssumption DEF footer_size, isStreamed, LengthDiffers
    <2>7. OkMeansComplete'
      BY <1>1, <2>2, <2>3, <2>4, <2>5
      DEF OkMeansComplete, Returned, locals, isStreamed
    <2>8. LiveInv' /\ RoomInv' /\ AccountsInv' /\ MarkInv'
      BY <2>1 DEF LiveInv, RoomInv, AccountsInv, AccountsAgree, MarkInv, InRun
    <2> QED
      BY <2>1, <2>7, <2>8 DEF IInv
  <1>5. {"CRC32_MISMATCH", "SIZE_MISMATCH"} \subseteq Codes \ {"OK"}
    BY DEF Codes
  <1> QED
    BY <1>3, <1>4, <1>5 DEF Finish

(* Every step preserves the invariant.                                      *)
LEMMA NextInv == IInv /\ [Next]_vars => IInv'
  <1> SUFFICES ASSUME IInv, [Next]_vars PROVE IInv'
    OBVIOUS
  <1>1. CASE Alloc \/ Free \/ Start
    BY <1>1, HandleInv
  <1>2. CASE ReadHeader \/ AllocateDecoder
    BY <1>2, HeaderInv
  <1>3. CASE ReadInput
    BY <1>3, ReadInv
  <1>4. CASE Decode
    BY <1>4, DecodeInv
  <1>5. CASE Write
    BY <1>5, WriteInv
  <1>6. CASE CheckStatus
    BY <1>6, CheckInv
  <1>7. CASE Finish
    BY <1>7, FinishInv
  <1>8. CASE UNCHANGED vars
    BY <1>8
    DEF vars, IInv, TypeOK, LiveInv, RoomInv, AccountsInv, AccountsAgree, MarkInv,
        OkMeansComplete, InRun, Returned, isStreamed
  <1> QED
    BY <1>1, <1>2, <1>3, <1>4, <1>5, <1>6, <1>7, <1>8 DEF Next, Running

(* The inductive invariant holds throughout.                                *)
THEOREM Invariance == Spec => []IInv
  BY InitInv, NextInv, PTL DEF Spec

(* Each checked property follows from the inductive invariant.              *)
LEMMA InvImplies ==
    IInv => /\ TypeOK /\ AccountsAgree /\ CallsHaveRoom /\ OkMeansComplete
            /\ NothingLeaked
  BY DEF IInv, AccountsInv, RoomInv, LiveInv, CallsHaveRoom, NothingLeaked

(* Type correctness; among it, the assertion of decompress.c:197 that       *)
(* bufOff stays within what was read.                                       *)
THEOREM TypeCorrect == Spec => []TypeOK
  BY Invariance, InvImplies, PTL

(* No byte of input is skipped or decoded twice, none of output dropped,    *)
(* and the CRC and the length cover just what was written.                  *)
THEOREM AccountsAlwaysAgree == Spec => []AccountsAgree
  BY Invariance, InvImplies, PTL

(* A working decoder is never called without room or without input.         *)
THEOREM CallsAlwaysHaveRoom == Spec => []CallsHaveRoom
  BY Invariance, InvImplies, PTL

(* OK is returned only for a complete output that agrees with the footer    *)
(* that was compared, or with the header's length.                          *)
THEOREM OkAlwaysMeansComplete == Spec => []OkMeansComplete
  BY Invariance, InvImplies, PTL

(* Nothing allocated for a run outlives it.                                 *)
THEOREM NothingIsLeaked == Spec => []NothingLeaked
  BY Invariance, InvImplies, PTL
-----------------------------------------------------------------------------
(* Before a handle exists, and across the calls on it.                      *)
LEMMA InitCause == Init => CauseInv
  BY DEF Init, CauseInv, EndInv, BeforeMark, BufferInv, FooterInv, LengthInv,
         ErrorsHaveCauses, Returned

LEMMA HandleCause ==
    ASSUME IInv, CauseInv, Alloc \/ Free \/ Start
    PROVE  CauseInv'
  <1>1. CASE Alloc
    BY <1>1
    DEF Alloc, CauseInv, EndInv, BeforeMark, BufferInv, FooterInv, LengthInv,
        ErrorsHaveCauses, Returned
  <1>2. CASE Free
    BY <1>2
    DEF Free, CauseInv, EndInv, BeforeMark, BufferInv, FooterInv, LengthInv,
        ErrorsHaveCauses, Returned
  <1>3. CASE Start
    <2>1. pc' = "header" \/ (pc' = "idle" /\ code' = "BAD_PARAMS")
      BY <1>3 DEF Start
    <2> QED
      BY <2>1
      DEF CauseInv, EndInv, BeforeMark, BufferInv, FooterInv, LengthInv,
          ErrorsHaveCauses, Returned
  <1> QED
    BY <1>1, <1>2, <1>3

(* The header, and the decoder that has taken nothing yet.                  *)
LEMMA HeaderCause ==
    ASSUME IInv, CauseInv, ReadHeader \/ AllocateDecoder
    PROVE  CauseInv'
  <1>1. CASE ReadHeader
    BY <1>1
    DEF ReadHeader, CauseInv, EndInv, BeforeMark, BufferInv, FooterInv, LengthInv,
        ErrorsHaveCauses, Returned
  <1>2. CASE AllocateDecoder
    <2>1. /\ pc = "allocate" /\ pc' = "read" /\ dec'.fed = dec.fed
          /\ UNCHANGED <<file, code, runs, read>>
      BY <1>2 DEF AllocateDecoder, IInv, TypeOK
    <2>2. dec.fed = 0 /\ read = 0
      BY <2>1 DEF IInv, AccountsInv, AccountsAgree, InRun
    <2>3. /\ file \in FileType /\ WellFormed(file.stream)
          /\ file.stream \in Streams
      BY FilesAssumption DEF IInv, TypeOK, FileType
    <2>4. file.stream.end = "mark" => 0 < file.stream.endAt
      BY <2>3, RcInitAssumption DEF WellFormed, Streams
    <2> QED
      BY <2>1, <2>2, <2>4
      DEF CauseInv, EndInv, BeforeMark, BufferInv, FooterInv, LengthInv,
          ErrorsHaveCauses, Returned
  <1> QED
    BY <1>1, <1>2

(* Of a run that has returned only the cause of its code matters.           *)
LEMMA ReturnCause ==
    ASSUME NEW c \in Codes, Return(c), ErrorsHaveCauses'
    PROVE  CauseInv'
  BY DEF Return, CauseInv, EndInv, BeforeMark, BufferInv, FooterInv, LengthInv

(* The read at the top of the outer loop, or the end of the input.          *)
LEMMA ReadCause ==
    ASSUME IInv, CauseInv, ReadInput
    PROVE  CauseInv'
  <1>1. /\ pc = "read" /\ UNCHANGED <<file, runs, written>>
        /\ file \in FileType /\ file.stream \in Streams /\ WellFormed(file.stream)
        /\ read \in Nat /\ dec.made \in Nat /\ file.size \in Nat
    BY FilesAssumption DEF ReadInput, IInv, TypeOK, FileType
  <1>2. read = dec.fed
    BY <1>1 DEF IInv, AccountsInv, AccountsAgree, InRun
  <1>3. CASE Return("INPUT_ERROR")
    <2>1. ErrorsHaveCauses'
      BY <1>3 DEF Return, ErrorsHaveCauses, Returned
    <2> QED
      BY <1>3, <2>1, ReturnCause DEF Codes
  <1>4. CASE /\ read = file.len /\ Return("INSUFFICIENT_INPUT") /\ srcLen' = 0
             /\ UNCHANGED <<inbuf, read, dstLen, amt, bufOff, stat, dec, crc32,
                            totalRead, f>>
    <2>1. dec.alloc /\ file.stream.end = "mark" => read < file.stream.endAt
      BY <1>1, <1>2 DEF CauseInv, EndInv, BeforeMark
    <2>2. ~(dec.alloc /\ file.stream.end = "mark" /\ file.stream.endAt <= read)
      BY <1>1, <2>1 DEF Streams
    <2>3. ~isStreamed => \/ file.size > Given(file.stream, read)
                         \/ dec.made < Given(file.stream, read)
                         \/ read = 0
      <3>1. Given(file.stream, read) \in Nat
        BY <1>1, GivenType
      <3>2. ~isStreamed => dec.made < file.size \/ read = 0
        BY <1>1 DEF CauseInv, LengthInv
      <3> QED
        BY <1>1, <3>1, <3>2
    <2>4. ErrorsHaveCauses'
      BY <1>1, <1>4, <2>2, <2>3 DEF Return, ErrorsHaveCauses, Returned, isStreamed
    <2> QED
      BY <1>4, <2>4, ReturnCause DEF Codes
  <1>5. ASSUME NEW n \in 1 .. InBufSize,
               /\ inbuf' = [i \in 0 .. InBufSize - 1 |->
                        IF i < n THEN ByteOf(file, read + i + 1) ELSE inbuf[i]]
               /\ read' = read + n /\ srcLen' = n /\ dstLen' = OutBufSize
               /\ amt' = n /\ bufOff' = 0 /\ stat' = "NOT_SPECIFIED"
               /\ pc' = "decode"
               /\ UNCHANGED <<code, live, dec, crc32, totalRead, f>>
        PROVE  CauseInv'
    <2>1. EndInv'
      BY <1>1, <1>5 DEF CauseInv, EndInv, BeforeMark
    <2>2. BufferInv'
      <3>1. srcLen' <= read' /\ read' - srcLen' = read
        BY <1>1, <1>5, BufferAssumption
      <3>2. ASSUME NEW i \in 0 .. srcLen' - 1
            PROVE  inbuf'[i] = ByteOf(file', (read' - srcLen') + i + 1)
        <4>1. i \in 0 .. InBufSize - 1 /\ i < n
          BY <1>5, BufferAssumption
        <4> QED
          BY <1>1, <1>5, <3>1, <4>1
      <3> QED
        BY <1>5, <3>1, <3>2 DEF BufferInv
    <2>3. FooterInv' /\ LengthInv' /\ ErrorsHaveCauses'
      BY <1>5 DEF FooterInv, LengthInv, ErrorsHaveCauses, Returned
    <2> QED
      BY <2>1, <2>2, <2>3 DEF CauseInv
  <1> QED
    BY <1>3, <1>4, <1>5 DEF ReadInput

(* One call of the decoder.                                                 *)
LEMMA DecodeCause ==
    ASSUME IInv, CauseInv, Decode
    PROVE  CauseInv'
  <1>1. /\ pc = "decode" /\ UNCHANGED <<file, runs, inbuf, read, written>>
        /\ file.stream \in Streams /\ WellFormed(file.stream)
        /\ dec \in [alloc : BOOLEAN, fed : Nat, made : Nat]
        /\ amt \in Nat /\ dstLen \in Nat /\ OutBufSize \in Nat \ {0}
        /\ dec.alloc => dstLen = OutBufSize
        /\ read = dec.fed + amt
    BY FilesAssumption, BufferAssumption
    DEF Decode, IInv, TypeOK, FileType, RoomInv, AccountsInv, AccountsAgree, InRun
  <1>2. PICK o \in DecodeToBuf(file.stream, dec, amt, dstLen) :
          IF ~o.ok
          THEN Return("DECOMPRESS_ERROR") /\ UNCHANGED locals
          ELSE /\ dec' = [dec EXCEPT !.fed = o.fed, !.made = o.made]
               /\ stat' = o.stat
               /\ pc' = "write"
               /\ UNCHANGED <<code, live, srcLen, bufOff, f>>
    BY DEF Decode
  <1>3. CASE ~o.ok
    <2>1. file.stream.end = "bad" /\ file.stream.endAt <= read
      BY <1>1, <1>3, DecodeRefuses
    <2>2. Return("DECOMPRESS_ERROR")
      BY <1>2, <1>3
    <2>3. ErrorsHaveCauses'
      BY <1>1, <2>1, <2>2 DEF Return, ErrorsHaveCauses, Returned
    <2> QED
      BY <2>2, <2>3, ReturnCause DEF Codes
  <1>4. CASE o.ok
    <2>1. /\ dec'.alloc = dec.alloc /\ dec'.fed = o.fed
          /\ stat' = o.stat /\ pc' = "write"
          /\ UNCHANGED <<code, srcLen, bufOff, f>>
      BY <1>1, <1>2, <1>4
    <2>2. o.stat = "FINISHED_WITH_MARK" => dec.alloc /\ file.stream.end = "mark"
      <3>1. o.stat = "FINISHED_WITH_MARK" => dec.alloc
        BY DEF DecodeToBuf, DecodeNothing
      <3>2. o.stat = "FINISHED_WITH_MARK" => file.stream.end = "mark"
        BY <1>1, DecodeMark
      <3> QED
        BY <3>1, <3>2
    <2>3. dec.alloc /\ file.stream.end = "mark" =>
            IF o.stat = "FINISHED_WITH_MARK" THEN o.fed = file.stream.endAt
            ELSE o.fed < file.stream.endAt
      <3>1. dec.alloc /\ file.stream.end = "mark" => dec.fed < file.stream.endAt
        BY <1>1 DEF CauseInv, EndInv, BeforeMark
      <3>2. dec.alloc => dstLen \in Nat \ {0}
        BY <1>1
      <3> QED
        BY <1>1, <3>1, <3>2, DecodeEnd
    <2>4. EndInv'
      BY <1>1, <2>1, <2>2, <2>3 DEF EndInv, BeforeMark
    <2>5. BufferInv'
      BY <1>1, <2>1 DEF CauseInv, BufferInv
    <2>6. FooterInv' /\ LengthInv' /\ ErrorsHaveCauses'
      BY <2>1 DEF FooterInv, LengthInv, ErrorsHaveCauses, Returned
    <2> QED
      BY <2>4, <2>5, <2>6 DEF CauseInv
  <1> QED
    BY <1>2, <1>3, <1>4, DecodeBounds, <1>1

(* The client's write and the bottom of the inner loop.                     *)
LEMMA WriteCause ==
    ASSUME IInv, CauseInv, Write
    PROVE  CauseInv'
  <1>1. pc = "write" /\ UNCHANGED <<file, runs, inbuf, read>>
    BY DEF Write
  <1>2. CASE \E wt \in 0 .. dstLen - 1 :
                written' = written + wt /\ Return("OUTPUT_ERROR") /\ UNCHANGED locals
    <2>1. Return("OUTPUT_ERROR") /\ ErrorsHaveCauses'
      BY <1>2 DEF Return, ErrorsHaveCauses, Returned
    <2> QED
      BY <2>1, ReturnCause DEF Codes
  <1>3. CASE /\ bufOff' = NextOffset
             /\ IF ChunkUsed(NextOffset)
                THEN pc' = "check" /\ amt' = amt
                ELSE /\ amt' = Remaining(NextOffset)
                     /\ pc' = AfterChunk
             /\ UNCHANGED <<code, live, srcLen, dstLen, stat, dec, crc32,
                            totalRead, f>>
    <2>1. /\ pc' \in {"check", "decode"}
          /\ pc' = "decode" => stat # "FINISHED_WITH_MARK"
      BY <1>3 DEF AfterChunk
    <2>2. EndInv'
      BY <1>1, <1>3, <2>1 DEF CauseInv, EndInv, BeforeMark
    <2>3. bufOff' < srcLen => amt' = srcLen - bufOff'
      <3>1. bufOff + amt \in Nat /\ srcLen \in Nat
        BY BufferAssumption DEF IInv, TypeOK
      <3> QED
        BY <1>3, <3>1 DEF ChunkUsed, Remaining, NextOffset
    <2>4. BufferInv'
      BY <1>1, <1>3, <2>1, <2>3 DEF CauseInv, BufferInv
    <2>5. FooterInv' /\ LengthInv' /\ ErrorsHaveCauses'
      BY <2>1 DEF FooterInv, LengthInv, ErrorsHaveCauses, Returned
    <2> QED
      BY <2>2, <2>4, <2>5 DEF CauseInv
  <1> QED
    BY <1>2, <1>3 DEF Write

(* With the end mark just taken and the whole footer behind it in the       *)
(* buffer, it is the file's footer that is parsed.                          *)
LEMMA FooterParsed ==
    ASSUME IInv, CauseInv, pc = "check", stat = "FINISHED_WITH_MARK",
           file.format = "lzip", bufOff + FooterSize <= srcLen
    PROVE  /\ amt >= FooterSize
           /\ ParseFooter(bufOff) = {[crc |-> file.fcrc, size |-> file.fsize]}
  <1>1. /\ bufOff \in Nat /\ srcLen \in Nat /\ read \in Nat /\ dec.fed \in Nat
        /\ srcLen <= InBufSize /\ InBufSize \in Nat /\ FooterSize \in Nat \ {0}
    BY BufferAssumption DEF IInv, TypeOK
  <1>2. /\ read = dec.fed + (srcLen - bufOff) /\ dec.fed = file.stream.endAt
        /\ amt = srcLen - bufOff
    BY <1>1 DEF IInv, AccountsInv, AccountsAgree, InRun, CauseInv, EndInv, BufferInv
  <1>3. ASSUME NEW i \in 1 .. FooterSize
        PROVE  inbuf[bufOff + i - 1] = [part |-> i, crc |-> file.fcrc, size |-> file.fsize]
    <2>1. bufOff + i - 1 \in 0 .. srcLen - 1
      BY <1>1
    <2>2. inbuf[bufOff + i - 1] = ByteOf(file, (read - srcLen) + (bufOff + i - 1) + 1)
      BY <2>1 DEF CauseInv, BufferInv
    <2>3. (read - srcLen) + (bufOff + i - 1) + 1 = file.stream.endAt + i
      BY <1>1, <1>2
    <2>4. file.stream.endAt \in Nat
      BY <1>1, <1>2
    <2>5. ByteOf(file, file.stream.endAt + i) =
            [part |-> i, crc |-> file.fcrc, size |-> file.fsize]
      <3>1. /\ file.stream.endAt < file.stream.endAt + i
            /\ file.stream.endAt + i <= file.stream.endAt + FooterSize
            /\ (file.stream.endAt + i) - file.stream.endAt = i
        BY <1>1, <2>4
      <3> QED
        BY <3>1 DEF ByteOf
    <2> QED
      BY <2>2, <2>3, <2>5
  <1>4. 1 \in 1 .. FooterSize /\ ~(bufOff + FooterSize > InBufSize)
    BY <1>1
  <1>5. inbuf[bufOff + 1 - 1] = [part |-> 1, crc |-> file.fcrc, size |-> file.fsize]
    BY <1>3, <1>4
  <1>6. \A i \in 1 .. FooterSize :
            inbuf[bufOff + i - 1] = [inbuf[bufOff + 1 - 1] EXCEPT !.part = i]
    BY <1>3, <1>5
  <1>7. ParseFooter(bufOff) =
            {[crc |-> inbuf[bufOff + 1 - 1].crc, size |-> inbuf[bufOff + 1 - 1].size]}
    BY <1>4, <1>6 DEF ParseFooter
  <1> QED
    BY <1>1, <1>2, <1>5, <1>7

(* The bottom of the outer loop and the footer.                             *)
LEMMA CheckCause ==
    ASSUME IInv, CauseInv, CheckStatus
    PROVE  CauseInv'
  <1>1. /\ pc = "check" /\ pc' \in {"finish", "read"}
        /\ UNCHANGED <<file, code, runs, inbuf, read, written, srcLen, amt, bufOff,
                       stat, dec, totalRead>>
        /\ pc' = "read" => /\ stat # "FINISHED_WITH_MARK"
                           /\ ~isStreamed => ~(totalRead >= file.size)
        /\ pc' = "finish" => stat = "FINISHED_WITH_MARK" \/ ~isStreamed
    BY DEF CheckStatus
  <1>2. EndInv'
    BY <1>1 DEF CauseInv, EndInv, BeforeMark
  <1>3. BufferInv'
    BY <1>1 DEF BufferInv
  <1>4. FooterInv'
    <2>1. SUFFICES ASSUME pc' = "finish", file.format = "lzip",
                          ~(bufOff + FooterSize > srcLen)
                   PROVE  f' = [crc |-> file.fcrc, size |-> file.fsize]
      BY <1>1 DEF FooterInv
    <2>2. stat = "FINISHED_WITH_MARK"
      BY <1>1, <2>1 DEF isStreamed
    <2>3. bufOff + FooterSize <= srcLen
      BY <2>1, BufferAssumption DEF IInv, TypeOK
    <2>4. /\ amt >= FooterSize
          /\ ParseFooter(bufOff) = {[crc |-> file.fcrc, size |-> file.fsize]}
      BY <1>1, <2>1, <2>2, <2>3, FooterParsed
    <2>5. footer_size > 0 /\ amt >= footer_size
      BY <2>1, <2>4, BufferAssumption DEF footer_size
    <2> QED
      BY <2>2, <2>4, <2>5 DEF CheckStatus
  <1>5. LengthInv'
    <2>1. totalRead = dec.made /\ totalRead \in Nat
      BY <1>1 DEF IInv, TypeOK, AccountsInv, AccountsAgree, InRun
    <2>2. file.size \in Nat
      BY FilesAssumption DEF IInv, TypeOK, FileType
    <2> QED
      BY <1>1, <2>1, <2>2 DEF LengthInv, isStreamed
  <1>6. ErrorsHaveCauses'
    BY <1>1 DEF ErrorsHaveCauses, Returned
  <1> QED
    BY <1>2, <1>3, <1>4, <1>5, <1>6 DEF CauseInv

(* The comparison at the end.                                               *)
LEMMA FinishCause ==
    ASSUME IInv, CauseInv, Finish
    PROVE  CauseInv'
  <1>1. pc = "finish" /\ UNCHANGED <<file, runs, inbuf, read, written, locals>>
    BY DEF Finish
  <1>2. /\ totalRead = dec.made /\ written = dec.made
        /\ file.format = "lzip" => crc32 = dec.made
        /\ dec.made \in Nat
        /\ file.format \in {"lzma", "lzip"}
        /\ isStreamed => stat = "FINISHED_WITH_MARK"
    BY <1>1 DEF IInv, TypeOK, AccountsInv, AccountsAgree, MarkInv, InRun
  <1>3. CASE footer_size > 0 /\ f.crc # crc32 /\ Return("CRC32_MISMATCH")
    <2>1. file.format = "lzip"
      BY <1>3 DEF footer_size
    <2>2. stat = "FINISHED_WITH_MARK" /\ f.crc # written
      BY <1>2, <1>3, <2>1 DEF isStreamed
    <2>3. file.fcrc # written \/ bufOff + FooterSize > srcLen
      BY <1>1, <2>1, <2>2 DEF CauseInv, FooterInv
    <2>4. ErrorsHaveCauses'
      BY <1>1, <1>3, <2>1, <2>2, <2>3 DEF Return, ErrorsHaveCauses, Returned, locals
    <2> QED
      BY <1>3, <2>4, ReturnCause DEF Codes
  <1>4. CASE footer_size > 0 /\ LengthDiffers(f.size) /\ Return("SIZE_MISMATCH")
    <2>1. file.format = "lzip" /\ f.size # written
      BY <1>2, <1>4 DEF footer_size, LengthDiffers
    <2>2. ErrorsHaveCauses'
      BY <1>1, <1>4, <2>1 DEF Return, ErrorsHaveCauses, Returned, locals
    <2> QED
      BY <1>4, <2>2, ReturnCause DEF Codes
  <1>5. CASE /\ footer_size = 0 /\ LengthDiffers(file.size)
             /\ Return("SIZE_MISMATCH")
    <2>1. file.format # "lzip" /\ file.size # written
      BY <1>2, <1>5, BufferAssumption DEF footer_size, LengthDiffers
    <2>2. ErrorsHaveCauses'
      BY <1>1, <1>5, <2>1 DEF Return, ErrorsHaveCauses, Returned, locals
    <2> QED
      BY <1>5, <2>2, ReturnCause DEF Codes
  <1>6. CASE Return("OK")
    <2>1. ErrorsHaveCauses'
      BY <1>6 DEF Return, ErrorsHaveCauses, Returned
    <2> QED
      BY <1>6, <2>1, ReturnCause DEF Codes
  <1> QED
    BY <1>3, <1>4, <1>5, <1>6 DEF Finish

(* Both invariants hold throughout.                                         *)
THEOREM CausesAreKept == Spec => []CauseInv
  <1>1. IInv /\ CauseInv /\ [Next]_vars => CauseInv'
    <2>1. SUFFICES ASSUME IInv, CauseInv, [Next]_vars PROVE CauseInv'
      OBVIOUS
    <2>2. CASE UNCHANGED vars
      BY <2>1, <2>2
      DEF vars, CauseInv, EndInv, BeforeMark, BufferInv, FooterInv, LengthInv,
          ErrorsHaveCauses, Returned, isStreamed
    <2> QED
      BY <2>1, <2>2, HandleCause, HeaderCause, ReadCause, DecodeCause, WriteCause,
         CheckCause, FinishCause DEF Next, Running
  <1> QED
    BY InitCause, Invariance, <1>1, PTL DEF Spec

(* A return code blames what happened: the data were refused where they are *)
(* bad, the input ended before the end mark or the length of the header was *)
(* decoded, and a CRC that differs is the file's own unless the footer was  *)
(* not in the buffer with the end mark.                                     *)
THEOREM ErrorsAlwaysHaveCauses == Spec => []ErrorsHaveCauses
  <1>1. CauseInv => ErrorsHaveCauses
    BY DEF CauseInv
  <1> QED
    BY CausesAreKept, <1>1, PTL
=============================================================================
