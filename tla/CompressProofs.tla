--------------------------- MODULE CompressProofs ---------------------------
(***************************************************************************)
(* Safety of elzma_compress_run for every buffer and block size, every     *)
(* input and every number of runs on a handle.                             *)
(***************************************************************************)
EXTENDS Compress, TLAPS

(* Input has not run out unnoticed, and a clean return has seen all of it.  *)
InputInv ==
    /\ estep \in {"stretch", "emit"} => Ready(now)
    /\ estep \in {"flush", "drain"} => got = now /\ input # "more"
    /\ estep = "returned" /\ result = "OK" =>
        got = now /\ input = "end" /\ rcRes = "OK" /\ rcBuf = 0

(* What LzmaEnc_Encode returns is what CheckErrors last saw.                *)
CauseInv ==
    /\ estep = "returned" /\ result = "READ" => input = "failed"
    /\ estep = "returned" /\ result = "WRITE" => rcRes # "OK"

(* The range coder's buffer: while the client takes everything, what is not *)
(* written is in it; after a refusal it holds bytes of this block only, and *)
(* not all of them, for one at least was in the refused buffer.             *)
BufferInv ==
    /\ rcBuf < RcBufSize
    /\ estep = "block" => rcRes = "OK" /\ owed = 0
    /\ rcRes # "OK" /\ estep \in {"stretch", "emit", "flush", "drain"} => rcBuf < made - owed
    /\ written + rcBuf <= emitted
    /\ rcRes = "OK" => written + rcBuf = emitted

EncInv == EncoderTypeOK /\ InputInv /\ BufferInv /\ CauseInv

(* The stages of a run.                                                     *)
StageInv ==
    /\ InRun => encHand \in 1 .. runs
    /\ pc = "header" => ~refused /\ estep = "off"
    /\ pc = "encode" => refused = (estep # "off" /\ rcRes # "OK")
    /\ pc = "footer" => ~refused /\ estep = "returned" /\ result = "OK"
    /\ pc \in {"encode", "footer"} => header = handler

(* What is allocated belongs to this handle's only run or to earlier ones.  *)
LiveInv ==
    pc # "none" /\ runs <= since + 1 =>
        \A block \in live : block.owner <= since \/ block.owner = encHand

IInv ==
    /\ TypeOK
    /\ InputInv
    /\ BufferInv
    /\ CauseInv
    /\ StageInv
    /\ LiveInv
    /\ OkMeansComplete
    /\ ErrorsHaveCauses
    /\ FreedAfterOneRun
-----------------------------------------------------------------------------
(* Sums of naturals are naturals: for sums of primed variables.             *)
LEMMA NatSum == \A a, b \in Nat : a + b \in Nat
  OBVIOUS

(* One attempt to empty the range coder's buffer.                           *)
LEMMA FlushStreamEffect ==
    ASSUME NEW num \in Nat, EncoderTypeOK, FlushStream(num)
    PROVE  /\ rcRes' \in {"OK", "WRITE"} /\ rcBuf' \in Nat
           /\ written' \in Nat /\ written <= written' /\ written' <= written + num
           /\ rcRes # "OK" => rcRes' # "OK" /\ rcBuf' = num /\ written' = written
           /\ rcRes = "OK" => rcBuf' = 0
           /\ rcRes' = "OK" => rcRes = "OK" /\ written' = written + num
           /\ rcRes = "OK" /\ rcRes' # "OK" => num > 0
  BY DEF FlushStream, EncoderTypeOK

(* Every step of LzmaEnc_Encode keeps the encoder's invariant.              *)
LEMMA EncodeInv ==
    ASSUME EncInv, Encode
    PROVE  EncInv'
  <1>1. CASE Read
    BY <1>1, BlockCodeAssumption
    DEF Read, EncInv, EncoderTypeOK, InputInv, BufferInv, CauseInv, Ready, coding, output
  <1>2. CASE BlockEntry
    <2>1. /\ estep = "block" /\ rcRes = "OK" /\ owed = 0 /\ Ready(now)
          /\ blockStart' = now /\ made' = 0
          /\ UNCHANGED <<now, got, input, owed, rcBuf, rcRes, emitted, written>>
      BY <1>2 DEF BlockEntry, EncInv, EncoderTypeOK, BufferInv, reading, output
    <2>2. \/ result' = "READ" /\ estep' = "returned" /\ input = "failed"
          \/ result' = "OK" /\ estep' = "flush" /\ got = now
          \/ result' = "OK" /\ estep' = "stretch"
      BY <1>2, <2>1 DEF BlockEntry, CheckErrors, Errors
    <2> QED
      BY <2>1, <2>2, BlockCodeAssumption
      DEF EncInv, EncoderTypeOK, InputInv, BufferInv, CauseInv, Ready
  <1>3. CASE CodeStretch
    <2>1. PICK n \in 1 .. MaxStretch, bytes \in 0 .. BlockCode - made :
            /\ n <= got - now /\ Ready(now + n)
            /\ now' = now + n /\ owed' = bytes /\ made' = made + bytes
      BY <1>3 DEF CodeStretch
    <2> QED
      BY <1>3, <2>1, BlockCodeAssumption
      DEF CodeStretch, EncInv, EncoderTypeOK, InputInv, BufferInv, CauseInv, Ready, reading
  <1>4. CASE Emit
    <2>1. /\ rcRes' \in {"OK", "WRITE"} /\ rcBuf' \in Nat
          /\ written' \in Nat /\ written <= written'
          /\ written' <= written + rcBuf + 1
          /\ rcRes # "OK" => rcRes' # "OK" /\ rcBuf' = rcBuf + 1 /\ written' = written
          /\ rcRes' = "OK" => rcRes = "OK" /\ written' + rcBuf' = written + rcBuf + 1
          /\ rcRes = "OK" /\ rcRes' # "OK" => rcBuf' = 0
          /\ written' + rcBuf' <= written + rcBuf + 1
          /\ rcBuf' = 0 \/ (rcBuf' = rcBuf + 1 /\ (rcRes = "OK" => rcBuf' # RcBufSize))
      <3>1. CASE rcBuf + 1 = RcBufSize
        BY <1>4, <3>1, FlushStreamEffect, BlockCodeAssumption DEF Emit, EncInv, EncoderTypeOK
      <3>2. CASE rcBuf + 1 # RcBufSize
        BY <1>4, <3>2, BlockCodeAssumption DEF Emit, EncInv, EncoderTypeOK
      <3> QED
        BY <3>1, <3>2
    <2>2. /\ estep \in {"emit", "drain"} /\ owed > 0
          /\ owed' = owed - 1 /\ emitted' = emitted + 1
          /\ UNCHANGED <<estep, now, blockStart, made, got, input, result>>
      BY <1>4 DEF Emit, coding, reading
    <2>3. EncoderTypeOK' /\ InputInv'
      BY <2>1, <2>2, BlockCodeAssumption
      DEF EncInv, EncoderTypeOK, InputInv, BufferInv, CauseInv, Ready
    <2>4. rcRes' # "OK" => rcBuf' < made' - owed'
      BY <2>1, <2>2 DEF EncInv, EncoderTypeOK, BufferInv
    <2>5. rcBuf' < RcBufSize
      BY <2>1, <2>2, <2>4, BlockCodeAssumption DEF EncInv, EncoderTypeOK, BufferInv
    <2>6. /\ written' + rcBuf' <= emitted'
          /\ rcRes' = "OK" => written' + rcBuf' = emitted'
      <3> DEFINE before == written + rcBuf
                 after == written' + rcBuf'
      <3>1. before \in Nat /\ emitted \in Nat
        BY DEF EncInv, EncoderTypeOK
      <3>2. after \in Nat
        <4>1. written' \in Nat /\ rcBuf' \in Nat
          BY <2>1
        <4> QED
          BY <4>1, NatSum
      <3>3. before <= emitted /\ (rcRes = "OK" => before = emitted)
        BY DEF EncInv, BufferInv
      <3>4. after <= before + 1 /\ (rcRes' = "OK" => rcRes = "OK" /\ after = before + 1)
        BY <2>1
      <3> HIDE DEF before, after
      <3>5. after <= emitted + 1 /\ (rcRes' = "OK" => after = emitted + 1)
        BY <3>1, <3>2, <3>3, <3>4
      <3> QED
        BY <2>2, <3>5 DEF before, after
    <2>7. estep' \notin {"block", "returned"}
      BY <2>2
    <2> QED
      BY <2>3, <2>4, <2>5, <2>6, <2>7 DEF EncInv, BufferInv, CauseInv
  <1>5. CASE StretchEnd
    BY <1>5, BlockCodeAssumption
    DEF StretchEnd, CheckErrors, Errors, EncInv, EncoderTypeOK, InputInv, BufferInv, CauseInv,
        Ready, coding, reading, output
  <1>6. CASE Flush
    BY <1>6, BlockCodeAssumption DEF Flush, EncInv, EncoderTypeOK, InputInv, BufferInv, CauseInv, reading
  <1>7. CASE FlushEnd
    <2>1. FlushStream(rcBuf) /\ rcBuf \in Nat
      BY <1>7 DEF FlushEnd, EncInv, EncoderTypeOK
    <2> QED
      BY <1>7, <2>1, FlushStreamEffect, BlockCodeAssumption
      DEF FlushEnd, Errors, EncInv, EncoderTypeOK, InputInv, BufferInv, CauseInv, coding, reading
  <1> QED
    BY <1>1, <1>2, <1>3, <1>4, <1>5, <1>6, <1>7 DEF Encode

(* What a step of the encoder can do to the client's view of the run.       *)
LEMMA EncodeStep ==
    ASSUME EncInv, Encode
    PROVE  estep # "off" /\ estep' # "off" /\ (rcRes # "OK" => rcRes' # "OK" /\ written' = written)
  <1>1. rcBuf \in Nat /\ rcBuf + 1 \in Nat
    BY DEF EncInv, EncoderTypeOK
  <1> QED
    BY <1>1, FlushStreamEffect
    DEF EncInv, Encode, Read, BlockEntry, CheckErrors, CodeStretch, Emit, StretchEnd,
        Flush, FlushEnd, coding, reading, output
-----------------------------------------------------------------------------
(* The invariant holds before a handle exists.                              *)
LEMMA InitInv == Init => IInv
  <1> SUFFICES ASSUME Init PROVE IInv
    OBVIOUS
  <1>1. EncoderTypeOK
    BY BlockCodeAssumption DEF Init, EncoderIdle, EncoderTypeOK
  <1>2. TypeOK
    <2>1. asked \in [format : Formats, size : Nat] /\ footer \in [crc : Int, size : Int]
      BY DEF Init, Configured, Formats, NoFooter
    <2>2. /\ runs = 0 /\ since = 0 /\ encHand = 0 /\ uncompressedSize = 0
          /\ live = {} /\ 0 \in 0 .. MaxRuns /\ 0 \in 0 .. 0
      BY RunsAssumption DEF Init
    <2>3. /\ pc = "none" /\ code \in Codes /\ header = "none"
          /\ format \in Formats /\ handler \in Handlers
          /\ propsOk \in BOOLEAN /\ refused \in BOOLEAN
      BY DEF Init, Codes, Formats, Handlers
    <2> QED
      BY <1>1, <2>1, <2>2, <2>3 DEF TypeOK
  <1>3. InputInv /\ BufferInv /\ CauseInv
    BY BlockCodeAssumption DEF Init, EncoderIdle, InputInv, BufferInv, CauseInv
  <1> QED
    BY <1>2, <1>3
    DEF Init, IInv, StageInv, LiveInv, OkMeansComplete, ErrorsHaveCauses, FreedAfterOneRun,
        InRun, Returned

(* Calls that leave the encoder and the last run's outcome alone.           *)
LEMMA HandleInv ==
    ASSUME IInv, Alloc \/ Free \/ Config
    PROVE  IInv'
  <1> USE RunsAssumption
  <1>1. UNCHANGED <<code, runs, header, footer, refused, asked, evars>>
    BY DEF Alloc, Free, Config
  <1>2. EncInv'
    BY <1>1 DEF IInv, TypeOK, EncInv, EncoderTypeOK, InputInv, BufferInv, CauseInv, Ready,
        evars
  <1>3. CASE Alloc
    BY <1>1, <1>2, <1>3
    DEF Alloc, IInv, TypeOK, EncInv, StageInv, LiveInv, OkMeansComplete, ErrorsHaveCauses,
        FreedAfterOneRun, InRun, Returned, Formats, Handlers
  <1>4. CASE Free
    <2>1. TypeOK'
      BY <1>1, <1>2, <1>4 DEF Free, IInv, TypeOK, EncInv, config
    <2>2. FreedAfterOneRun'
      BY <1>1, <1>4 DEF Free, IInv, TypeOK, LiveInv, FreedAfterOneRun, Of
    <2> QED
      BY <1>1, <1>2, <1>4, <2>1, <2>2
      DEF Free, IInv, EncInv, StageInv, LiveInv, OkMeansComplete, ErrorsHaveCauses, InRun, Returned
  <1>5. CASE Config
    <2>1. TypeOK'
      BY <1>1, <1>2, <1>5 DEF Config, IInv, TypeOK, EncInv, Handlers
    <2> QED
      BY <1>1, <1>2, <1>5, <2>1
      DEF Config, IInv, EncInv, StageInv, LiveInv, OkMeansComplete, ErrorsHaveCauses,
          FreedAfterOneRun, InRun, Returned, evars
  <1> QED
    BY <1>3, <1>4, <1>5

(* A run up to its header.                                                  *)
LEMMA StartInv ==
    ASSUME IInv, Start
    PROVE  IInv'
  <1> USE RunsAssumption
  <1>1. /\ pc = "idle" /\ runs < MaxRuns /\ runs' = runs + 1
        /\ asked' = Configured /\ header' = "none" /\ refused' = FALSE
        /\ footer' = NoFooter /\ estep' = "off"
        /\ UNCHANGED <<since, coding, reading, result, output, config>>
    BY DEF Start
  <1>2. \/ encHand' = 0 /\ live' = live /\ pc' = "idle" /\ code' = "COMPRESS_ERROR"
        \/ /\ encHand' = runs' /\ live' = live \cup Of(runs', {"enc"})
           /\ \/ pc' = "idle" /\ code' \in {"BAD_PARAMS", "UNSUPPORTED_FORMAT"}
              \/ pc' = "header" /\ code' = code
    BY DEF Start, Return
  <1>3. runs \in Nat /\ since \in 0 .. runs /\ runs' \in 1 .. MaxRuns
    BY <1>1 DEF IInv, TypeOK
  <1>4. EncoderTypeOK' /\ InputInv' /\ BufferInv' /\ CauseInv'
    BY <1>1
    DEF IInv, TypeOK, EncoderTypeOK, InputInv, BufferInv, CauseInv, coding, reading, output
  <1>5. asked' \in [format : Formats, size : Nat] /\ footer' \in [crc : Int, size : Int]
    BY <1>1 DEF IInv, TypeOK, Configured, NoFooter
  <1>6. live' \subseteq [owner : 1 .. runs', part : Parts]
    BY <1>1, <1>2, <1>3 DEF IInv, TypeOK, Of, Parts
  <1>7. TypeOK'
    <2>1. /\ pc' \in {"idle", "header"} /\ code' \in Codes /\ refused' = FALSE
          /\ UNCHANGED <<format, handler, propsOk, uncompressedSize>>
      BY <1>1, <1>2 DEF IInv, TypeOK, Codes, config
    <2>2. since' \in 0 .. runs' /\ encHand' \in 0 .. runs' /\ runs' \in 0 .. MaxRuns
      BY <1>1, <1>2, <1>3
    <2> QED
      BY <1>1, <1>4, <1>5, <1>6, <2>1, <2>2 DEF IInv, TypeOK
  <1>8. LiveInv'
    BY <1>1, <1>2, <1>3 DEF IInv, TypeOK, LiveInv, Of
  <1> QED
    BY <1>1, <1>2, <1>3, <1>4, <1>7, <1>8
    DEF IInv, StageInv, OkMeansComplete, ErrorsHaveCauses, FreedAfterOneRun, InRun, Returned

(* The stages of a run.                                                     *)
LEMMA RunningInv ==
    ASSUME IInv, Running
    PROVE  IInv'
  <1> USE RunsAssumption
  <1>1. CASE WriteHeader
    <2>1. UNCHANGED <<evars, config, encHand, live, runs, since, footer, asked>>
      BY <1>1 DEF WriteHeader
    <2>2. EncInv'
      BY <2>1 DEF IInv, TypeOK, EncInv, EncoderTypeOK, InputInv, BufferInv, CauseInv, Ready, evars
    <2> QED
      BY <1>1, <2>1, <2>2
      DEF WriteHeader, Return, IInv, TypeOK, EncInv, StageInv, LiveInv, OkMeansComplete, ErrorsHaveCauses,
          FreedAfterOneRun, InRun, Returned, Codes, Handlers, config, evars
  <1>2. CASE StartEncoder
    <2>1. PICK parts \in SUBSET Parts :
            live' = live \cup Of(encHand, parts) /\ Prepare("window" \in parts)
      BY <1>2 DEF StartEncoder, Parts
    <2>2. /\ pc = "encode" /\ encHand \in 1 .. runs
          /\ UNCHANGED <<pc, code, config, encHand, runs, since, header, footer,
                         refused, asked>>
      BY <1>2 DEF StartEncoder, IInv, StageInv, InRun
    <2>3. EncInv' /\ estep' # "off" /\ rcRes' = "OK" /\ ~refused
      <3>1. /\ estep = "off"
            /\ \/ estep' = "block" /\ result' = "OK"
               \/ estep' = "returned" /\ result' = "MEM"
            /\ got' = 0 /\ now' = 0 /\ blockStart' = 0
            /\ input' = "more" /\ rcRes' = "OK"
            /\ owed' = 0 /\ made' = 0 /\ rcBuf' = 0 /\ emitted' = 0 /\ written' = 0
        BY <2>1 DEF Prepare
      <3>2. EncoderTypeOK'
        BY <3>1, BlockCodeAssumption DEF EncoderTypeOK
      <3>3. InputInv' /\ BufferInv' /\ CauseInv'
        BY <3>1, BlockCodeAssumption DEF InputInv, BufferInv, CauseInv
      <3>4. ~refused
        BY <2>2, <3>1 DEF IInv, StageInv, TypeOK
      <3> QED
        BY <3>1, <3>2, <3>3, <3>4 DEF EncInv
    <2>4. live' \subseteq [owner : 1 .. runs, part : Parts]
      BY <2>1, <2>2 DEF IInv, TypeOK, Of
    <2>5. LiveInv'
      BY <2>1, <2>2 DEF IInv, LiveInv, Of
    <2>6. TypeOK'
      BY <2>2, <2>3, <2>4 DEF IInv, TypeOK, EncInv, config
    <2> QED
      BY <2>2, <2>3, <2>5, <2>6
      DEF IInv, EncInv, StageInv, OkMeansComplete, ErrorsHaveCauses, FreedAfterOneRun, InRun, Returned,
          config
  <1>3. CASE EncoderStep
    <2>1. /\ pc = "encode" /\ Encode
          /\ refused' = (refused \/ (rcRes = "OK" /\ rcRes' # "OK"))
          /\ UNCHANGED <<pc, code, config, encHand, live, runs, since, header, footer,
                         asked>>
      BY <1>3 DEF EncoderStep
    <2>2. EncInv'
      BY <2>1, EncodeInv DEF IInv, TypeOK, EncInv
    <2>3. estep # "off" /\ estep' # "off" /\ (rcRes # "OK" => rcRes' # "OK")
      BY <2>1, EncodeStep DEF IInv, TypeOK, EncInv
    <2>4. TypeOK'
      BY <2>1, <2>2 DEF IInv, TypeOK, EncInv, config
    <2>5. StageInv'
      BY <2>1, <2>3 DEF IInv, StageInv, InRun, config
    <2> QED
      BY <2>1, <2>2, <2>4, <2>5
      DEF IInv, EncInv, LiveInv, OkMeansComplete, ErrorsHaveCauses, FreedAfterOneRun, Returned
  <1>4. CASE Encoded
    <2>1. /\ pc = "encode" /\ estep = "returned"
          /\ UNCHANGED <<config, encHand, live, runs, since, header, footer, refused,
                         asked, evars>>
      BY <1>4 DEF Encoded
    <2>2. EncInv'
      BY <2>1 DEF IInv, TypeOK, EncInv, EncoderTypeOK, InputInv, BufferInv, CauseInv, Ready, evars
    <2>3. \/ result # "OK" /\ pc' = "idle" /\ code' = "COMPRESS_ERROR"
          \/ result = "OK" /\ pc' = "footer" /\ code' = code
          \/ result = "OK" /\ handler # "lzip" /\ pc' = "idle" /\ code' = "OK"
      BY <1>4 DEF Encoded, Return
    <2>4. TypeOK'
      BY <2>1, <2>2, <2>3 DEF IInv, TypeOK, EncInv, Codes, config
    <2>5. result = "OK" => /\ got = now /\ input = "end" /\ rcBuf = 0 /\ ~refused
                           /\ written = emitted /\ header = handler
      <3> SUFFICES ASSUME result = "OK"
                   PROVE  /\ got = now /\ input = "end" /\ rcBuf = 0 /\ ~refused
                          /\ written = emitted /\ header = handler
        OBVIOUS
      <3>1. got = now /\ input = "end" /\ rcRes = "OK" /\ rcBuf = 0
        BY <2>1 DEF IInv, InputInv
      <3>2. ~refused /\ header = handler
        BY <2>1, <3>1 DEF IInv, StageInv
      <3>3. written = emitted
        BY <3>1 DEF IInv, TypeOK, EncoderTypeOK, BufferInv
      <3> QED
        BY <3>1, <3>2, <3>3
    <2>6. OkMeansComplete'
      BY <2>1, <2>3, <2>5 DEF IInv, TypeOK, OkMeansComplete, Returned, evars
    <2>7. result # "OK" => input = "failed" \/ refused \/ result = "MEM"
      <3>1. result \in {"OK", "MEM", "READ", "WRITE"}
        BY DEF IInv, TypeOK, EncoderTypeOK
      <3>2. refused = (rcRes # "OK")
        BY <2>1 DEF IInv, StageInv
      <3> QED
        BY <2>1, <3>1, <3>2 DEF IInv, CauseInv
    <2>8. ErrorsHaveCauses'
      BY <2>1, <2>3, <2>7 DEF ErrorsHaveCauses, Returned, IInv, evars
    <2> QED
      BY <2>1, <2>2, <2>3, <2>4, <2>5, <2>6, <2>8
      DEF IInv, EncInv, StageInv, LiveInv, FreedAfterOneRun, InRun, config, evars
  <1>5. CASE WriteFooter
    <2>1. /\ pc = "footer" /\ pc' = "idle"
          /\ UNCHANGED <<config, encHand, live, runs, since, header, asked, evars>>
      BY <1>5 DEF WriteFooter, Return
    <2>2. EncInv'
      BY <2>1 DEF IInv, TypeOK, EncInv, EncoderTypeOK, InputInv, BufferInv, CauseInv, Ready, evars
    <2>3. \/ /\ footer' = [crc |-> got, size |-> uncompressedSize]
             /\ code' = "OK" /\ refused' = refused
          \/ footer' = footer /\ code' = "OUTPUT_ERROR" /\ refused' = TRUE
      BY <1>5 DEF WriteFooter, Return
    <2>4. TypeOK'
      <3>1. footer' \in [crc : Int, size : Int]
        BY <2>3 DEF IInv, TypeOK, EncoderTypeOK
      <3>2. code' \in Codes /\ refused' \in BOOLEAN
        BY <2>3 DEF IInv, TypeOK, Codes
      <3> QED
        BY <2>1, <2>2, <3>1, <3>2 DEF IInv, TypeOK, EncInv, config
    <2>5. /\ got = now /\ input = "end" /\ rcBuf = 0 /\ ~refused
          /\ written = emitted /\ header = handler
      <3>1. got = now /\ input = "end" /\ rcRes = "OK" /\ rcBuf = 0
        BY <2>1 DEF IInv, InputInv, StageInv
      <3>2. ~refused /\ header = handler
        BY <2>1 DEF IInv, StageInv
      <3>3. written = emitted
        BY <3>1 DEF IInv, TypeOK, EncoderTypeOK, BufferInv
      <3> QED
        BY <3>1, <3>2, <3>3
    <2>6. OkMeansComplete'
      BY <2>1, <2>3, <2>5 DEF IInv, TypeOK, OkMeansComplete, Returned, evars
    <2>7. ErrorsHaveCauses'
      BY <2>1, <2>3 DEF ErrorsHaveCauses, Returned
    <2> QED
      BY <2>1, <2>2, <2>4, <2>6, <2>7
      DEF IInv, EncInv, StageInv, LiveInv, FreedAfterOneRun, InRun
  <1> QED
    BY <1>1, <1>2, <1>3, <1>4, <1>5 DEF Running

(* Nothing happened.                                                        *)
LEMMA StutterInv ==
    ASSUME IInv, UNCHANGED vars
    PROVE  IInv'
  <1>1. EncInv'
    BY DEF vars, evars, IInv, TypeOK, EncInv, EncoderTypeOK, InputInv, BufferInv, CauseInv, Ready
  <1> QED
    BY <1>1
    DEF vars, cvars, evars, IInv, TypeOK, EncInv, StageInv, LiveInv, OkMeansComplete, ErrorsHaveCauses,
        FreedAfterOneRun, InRun, Returned

(* What every reachable state satisfies.                                    *)
THEOREM Invariance == Spec => []IInv
  <1>1. IInv /\ [Next]_vars => IInv'
    BY HandleInv, StartInv, RunningInv, StutterInv DEF Next
  <1> QED
    BY InitInv, <1>1, PTL DEF Spec
-----------------------------------------------------------------------------
(* Types and counters of compression hold for all constants.                *)
THEOREM TypeCorrect == Spec => []TypeOK
  <1>1. IInv => TypeOK
    BY DEF IInv
  <1> QED
    BY Invariance, <1>1, PTL

(* The range coder's buffer is never overrun, whatever output is refused:   *)
(* CheckErrors ends coding before the bytes of one block can fill it.       *)
THEOREM BufferIsNotOverrun == Spec => []BufferNotOverrun
  <1>1. IInv => BufferNotOverrun
    BY DEF IInv, BufferInv, BufferNotOverrun
  <1> QED
    BY Invariance, <1>1, PTL

(* elzma_compress_run returns ELZMA_E_OK only for input read to its end and *)
(* output taken whole.                                                      *)
THEOREM OkAlwaysMeansComplete == Spec => []OkMeansComplete
  <1>1. IInv => OkMeansComplete
    BY DEF IInv
  <1> QED
    BY Invariance, <1>1, PTL

(* An error code names what happened: ELZMA_E_OUTPUT_ERROR that the client  *)
(* took less than it was given, ELZMA_E_COMPRESS_ERROR that it did, or that *)
(* its input failed, or that memory was refused.                            *)
THEOREM ErrorsAlwaysHaveCauses == Spec => []ErrorsHaveCauses
  <1>1. IInv => ErrorsHaveCauses
    BY DEF IInv
  <1> QED
    BY Invariance, <1>1, PTL

(* elzma_compress_free leaves nothing of a handle that ran once.            *)
THEOREM OneRunIsFreed == Spec => []FreedAfterOneRun
  <1>1. IInv => FreedAfterOneRun
    BY DEF IInv
  <1> QED
    BY Invariance, <1>1, PTL

(* After a refusal nothing more is written in the run.                      *)
THEOREM SilenceAfterRefusal == Spec => SilentAfterRefusal
  <1>1. IInv /\ [Next]_vars =>
            [refused /\ refused' => UNCHANGED <<written, header, footer>>]_vars
    <2> SUFFICES ASSUME IInv, Next, refused, refused'
                 PROVE  UNCHANGED <<written, header, footer>>
      OBVIOUS
    <2>1. CASE Alloc \/ Free \/ Config
      BY <2>1 DEF Alloc, Free, Config, evars
    <2>2. CASE Start
      BY <2>2 DEF Start
    <2>3. CASE WriteHeader
      BY <2>3 DEF WriteHeader, IInv, StageInv
    <2>4. CASE StartEncoder
      BY <2>4 DEF StartEncoder, Prepare, IInv, StageInv
    <2>5. CASE EncoderStep
      BY <2>5, EncodeStep DEF EncoderStep, IInv, TypeOK, EncInv, StageInv
    <2>6. CASE Encoded
      BY <2>6 DEF Encoded, evars
    <2>7. CASE WriteFooter
      BY <2>7 DEF WriteFooter, IInv, StageInv
    <2> QED
      BY <2>1, <2>2, <2>3, <2>4, <2>5, <2>6, <2>7 DEF Next, Running
  <1> QED
    BY Invariance, <1>1, PTL DEF Spec, SilentAfterRefusal
=============================================================================
