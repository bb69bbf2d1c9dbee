----------------------------- MODULE ToolProofs -----------------------------
(***************************************************************************)
(* No data are lost between the files of the tool, what it takes for an    *)
(* archive is a whole one, and its failures leave nothing that a later run *)
(* could take for a file of the user, for texts of any length, integers of *)
(* any width up to that of an unsigned int, any sizes of the dictionaries  *)
(* proposed, any command lines and any number of runs.                     *)
(***************************************************************************)
EXTENDS Tool, SequenceTheorems, TLAPS, WellFoundedInduction

(* The least number with a property is a number.                            *)
LEMMA LeastNatural ==
    ASSUME NEW T, T \subseteq Nat, T # {}
    PROVE  \E x \in T : \A y \in T : x <= y
  <1> DEFINE R == {ss \in Nat \X Nat : ss[1] < ss[2]}
  <1>1. IsWellFoundedOn(R, Nat)
    BY NatLessThanWellFounded DEF OpToRel
  <1>2. \A x, y \in Nat : x < y => <<x, y>> \in R
    OBVIOUS
  <1> HIDE DEF R
  <1>3. PICK x \in T : \A y \in T : <<y, x>> \notin R
    BY <1>1, WFMin
  <1>4. \A y \in T : x <= y
    <2> SUFFICES ASSUME NEW y \in T PROVE ~ (y < x)
      OBVIOUS
    <2> QED
      BY <1>2, <1>3
  <1> QED
    BY <1>4

(* A nonempty set of indices has a greatest one, and it is what CHOOSE gives.*)
LEMMA GreatestIndex ==
    ASSUME NEW n \in Nat, NEW T, T \subseteq 1 .. n, T # {}
    PROVE  (CHOOSE i \in T : \A j \in T : j <= i) \in T
  <1> DEFINE U == {x \in Nat : \E i \in T : x = n - i}
  <1>1. U \subseteq Nat /\ U # {}
    <2>1. PICK i \in T : TRUE
      OBVIOUS
    <2>2. n - i \in U
      OBVIOUS
    <2> QED
      BY <2>2
  <1>2. PICK x \in U : \A y \in U : x <= y
    BY <1>1, LeastNatural
  <1>3. PICK i \in T : x = n - i
    OBVIOUS
  <1>4. \A j \in T : j <= i
    <2> SUFFICES ASSUME NEW j \in T PROVE j <= i
      OBVIOUS
    <2>1. x <= n - j
      BY <1>2
    <2> QED
      BY <2>1, <1>3
  <1> QED
    BY <1>4
-----------------------------------------------------------------------------
(* 2 ^ k.  The provers compute powers of numbers, case by case, and reason  *)
(* about this operator without its definition.                              *)
Power(k) == 2 ^ k

(* The powers of 2 of the integers of the code.                             *)
LEMMA PowerTable ==
    /\ Power(0) = 1               /\ Power(1) = 2
    /\ Power(2) = 4               /\ Power(3) = 8
    /\ Power(4) = 16              /\ Power(5) = 32
    /\ Power(6) = 64              /\ Power(7) = 128
    /\ Power(8) = 256             /\ Power(9) = 512
    /\ Power(10) = 1024           /\ Power(11) = 2048
    /\ Power(12) = 4096           /\ Power(13) = 8192
    /\ Power(14) = 16384          /\ Power(15) = 32768
    /\ Power(16) = 65536          /\ Power(17) = 131072
    /\ Power(18) = 262144         /\ Power(19) = 524288
    /\ Power(20) = 1048576        /\ Power(21) = 2097152
    /\ Power(22) = 4194304        /\ Power(23) = 8388608
    /\ Power(24) = 16777216       /\ Power(25) = 33554432
    /\ Power(26) = 67108864       /\ Power(27) = 134217728
    /\ Power(28) = 268435456      /\ Power(29) = 536870912
    /\ Power(30) = 1073741824     /\ Power(31) = 2147483648
    /\ Power(32) = 4294967296
  BY DEF Power

(* Powers of 2 are positive, ...                                            *)
LEMMA PowersNatural ==
    ASSUME NEW k \in 0 .. 32
    PROVE  Power(k) \in Nat \ {0}
  BY PowerTable

(* ... and grow.                                                            *)
LEMMA PowersOrdered ==
    ASSUME NEW j \in 0 .. 32, NEW k \in 0 .. 32, j < k
    PROVE  Power(j) < Power(k)
  BY PowerTable
-----------------------------------------------------------------------------
(* What files are made of.                                                  *)
Bytes == [kind : {"byte"}, val : Nat]
Codes == [kind : {"code"}, val : Nat, dist : Nat]
Headers == [kind : {"lzma"}, props : Int, dict : Int, size : Int] \cup [kind : {"lzip"}, log : Int]
Footers == [kind : {"footer"}, crc : Int, size : Int]
Parts == Bytes \cup Codes \cup Headers \cup Footers \cup {Mark}

DictSizes == {Power(k) : k \in 0 .. 31}

(* The output as it will be when all of it reaches the disk.                *)
Written == disk[job.out] \o pending

InOutput == pc \notin {"shell", "open"}

FilesOK ==
    /\ disk \in [Names -> Seq(Parts) \cup {Absent}]
    /\ disk["text"] \in Seq(Bytes) \cup {Absent}
    /\ pending \in Seq(Parts)
    /\ job.out = "text" => pending \in Seq(Bytes)
    /\ before \in Seq(Parts) \cup {Absent}
    /\ job.in = "text" => before \in Seq(Bytes) \cup {Absent}
    /\ InOutput => disk[job.out] # Absent /\ before # Absent
    /\ ~InOutput => pending = << >>

JobOK ==
    /\ job.in \in Names /\ job.out \in Names /\ job.in # job.out
    /\ job.mode \in {"compress", "decompress", "none"}
    /\ job.mode = "compress" =>
        /\ job.in = "text" /\ job.maxDict \in DictSizes
        /\ pc \notin {"decode", "verify"}
    /\ job.mode = "decompress" =>
        /\ job.out = "text"
        /\ pc \notin {"measure", "encode", "encode_footer", "close"}
    /\ job.mode = "none" => pc = "shell" /\ job.in = "text"
    /\ pc = "open" => ~opened
    /\ InOutput => opened
    /\ pos \in Nat /\ made \in Nat /\ size \in Nat

(* The input is only touched by DeleteInput.                                *)
InputIntact == pc \notin {"exit", "shell"} => disk[job.in] = before

(* How far doCompress has come.                                             *)
Coded ==
    /\ header = Header(job.format, dictSize, size)
    /\ pos <= Len(before) /\ Len(Written) > pos
    /\ Written[1] = header
    /\ \A i \in 1 .. pos : Written[i + 1] = Code(before[i], Smaller(i - 1, dictSize))

CompressInv ==
    job.mode = "compress" =>
        /\ pc \in {"measure", "header"} => Written = << >> /\ pos = 0
        /\ pc \in {"open", "measure"} => faults = {}
        /\ pc \in {"header", "encode", "encode_footer"} =>
            dictSize \in DictSizes /\ (faults = {} => size = Len(before))
        /\ pc \in {"encode", "encode_footer"} => Coded
        /\ pc = "encode" => Len(Written) = pos + 1
        /\ pc = "encode_footer" =>
            /\ Len(Written) = pos + 2 /\ Written[pos + 2] = Mark
            /\ faults = {} => pos = Len(before)
            /\ job.format = "lzip"
        /\ pc \in {"close", "delete", "exit"} /\ faults = {} => Archives(Written, before)

(* How far doDecompress has come.                                           *)
DecompressInv ==
    job.mode = "decompress" =>
        /\ pc = "header" => Written = << >> /\ made = 0
        /\ pc \in {"decode", "verify"} =>
            /\ header = before[1] /\ pos = made + 1 /\ pos <= Len(before)
            /\ Len(Written) = made
            /\ \A i \in 1 .. made : Written[i] = Byte(before[i + 1].val)
        /\ pc = "verify" =>
            header.kind = "lzma" \/ (pos < Len(before) /\ before[pos + 1] = Mark)
        /\ pc \in {"delete", "exit"} /\ InputWhole => Written = Content(before)

(* What exit status 0 says of this run alone.                               *)
ExitTold ==
    status = "0" /\ "flush" \notin faults =>
        IF job.mode = "compress" THEN faults = {} => Archives(disk[job.out], before)
        ELSE InputWhole => disk[job.out] = Content(before)

ToolInv ==
    /\ FilesOK
    /\ JobOK
    /\ InputIntact
    /\ CompressInv
    /\ DecompressInv
    /\ pc = "shell" => InputNeverLost /\ ExitTold
-----------------------------------------------------------------------------
(* Every number of 32 bits has a number of bits.                            *)
LEMMA BitsRange ==
    ASSUME NEW n \in Nat, n < Power(32)
    PROVE  /\ Bits(n) \in 0 .. 32 /\ n < Power(Bits(n))
           /\ Bits(n) > 0 => Power(Bits(n) - 1) <= n
  <1> DEFINE T == {r \in 0 .. 32 : n < Power(r)}
             Right(r) == n < Power(r) /\ (r > 0 => Power(r - 1) <= n)
  <1>1. 32 \in T
    OBVIOUS
  <1>2. PICK r \in T : \A s \in T : r <= s
    <2>1. T \subseteq Nat
      OBVIOUS
    <2> HIDE DEF T
    <2> QED
      BY <1>1, <2>1, LeastNatural
  <1>3. ASSUME r > 0
        PROVE  Power(r - 1) <= n
    <2>1. r - 1 \in 0 .. 32 /\ r - 1 \notin T
      BY <1>2, <1>3
    <2> QED
      BY <2>1, PowersNatural
  <1>4. \E s \in 0 .. 32 : Right(s)
    BY <1>3
  <1>5. Bits(n) = CHOOSE s \in 0 .. 32 : Right(s)
    BY DEF Bits, Power
  <1> HIDE DEF Right
  <1>6. Bits(n) \in 0 .. 32 /\ Right(Bits(n))
    BY <1>4, <1>5
  <1> QED
    BY <1>6 DEF Right

(* A power of two has one bit more than its exponent.                       *)
LEMMA BitsOfPower ==
    ASSUME NEW k \in 0 .. 31
    PROVE  Bits(Power(k)) = k + 1
  <1> DEFINE r == Bits(Power(k))
  <1>1. Power(k) \in Nat \ {0} /\ Power(k) < Power(32)
    BY PowersNatural, PowersOrdered
  <1>2. r \in 0 .. 32 /\ Power(k) < Power(r) /\ (r > 0 => Power(r - 1) <= Power(k))
    BY <1>1, BitsRange
  <1> HIDE DEF r
  <1>3. ~ (r < k)
    <2> SUFFICES ASSUME r < k PROVE FALSE
      OBVIOUS
    <2>1. Power(r) < Power(k) /\ Power(r) \in Nat
      BY <1>2, PowersOrdered, PowersNatural
    <2> QED
      BY <1>1, <1>2, <2>1
  <1>4. r # k
    BY <1>1, <1>2
  <1>5. ~ (r - 1 > k)
    <2> SUFFICES ASSUME r - 1 > k PROVE FALSE
      OBVIOUS
    <2>1. r - 1 \in 0 .. 32
      BY <1>2
    <2>2. Power(k) < Power(r - 1) /\ Power(r - 1) \in Nat
      BY <2>1, PowersOrdered, PowersNatural
    <2> QED
      BY <1>1, <1>2, <2>2
  <1> QED
    BY <1>2, <1>3, <1>4, <1>5 DEF r

(* elzma_get_dict_size proposes powers of two.                              *)
LEMMA ProposedPower ==
    ASSUME NEW given \in 0 .. SizeWord - 1
    PROVE  GetDictSize(given) \in DictSizes
  <1> DEFINE s == IF given > Power(MaxLog) THEN given \div 2 ELSE given
             i == IF Bits(s) < MinLog THEN MinLog ELSE Bits(s)
  <1>1. MaxLog \in 0 .. 30 /\ MinLog \in 1 .. 30
    BY FormatsAssumption
  <1>2. given \in Nat /\ given \div 2 \in Nat /\ given \div 2 < Power(32)
    BY ToolAssumption DEF Power
  <1>3. Power(MaxLog) \in Nat /\ Power(MaxLog) < Power(32) /\ Power(32) \in Nat
    BY <1>1, PowersNatural, PowersOrdered
  <1>4. s \in Nat /\ s < Power(32)
    BY <1>2, <1>3
  <1> HIDE DEF s
  <1>5. Bits(s) \in 0 .. 32
    BY <1>4, BitsRange
  <1>6. i \in 1 .. 32
    BY <1>1, <1>5
  <1>7. \/ GetDictSize(given) = Power(MaxLog)
        \/ i <= MaxLog /\ GetDictSize(given) \in {Power(i - 1), Power(i)}
    <2>1. GetDictSize(given) =
            IF i > MaxLog THEN Power(MaxLog)
            ELSE IF Power(i - 1) <= s /\ Power(i) - s > s - Power(i - 1)
            THEN Power(i - 1) ELSE Power(i)
      BY DEF GetDictSize, Power, s
    <2> HIDE DEF i
    <2> QED
      BY <2>1, <1>1, <1>6
  <1> HIDE DEF i
  <1> QED
    BY <1>1, <1>6, <1>7 DEF DictSizes
(* Of the flags that are asked for, LastOf finds one.                       *)
LEMMA LastOfFlag ==
    ASSUME NEW command \in Commands, NEW flags,
           \E i \in DOMAIN command.argv : command.argv[i].arg \in flags
    PROVE  LastOf(command.argv, flags).val \in 0 .. SizeWord - 1
  <1> DEFINE argv == command.argv
             T == {i \in DOMAIN argv : argv[i].arg \in flags}
             last == CHOOSE i \in T : \A j \in T : j <= i
  <1>1. argv \in Seq([arg : Names \cup Flags, val : 0 .. SizeWord - 1])
    BY ToolAssumption DEF CommandType
  <1>2. Len(argv) \in Nat /\ T \subseteq 1 .. Len(argv) /\ T # {}
    BY <1>1
  <1>3. last \in T
    <2> HIDE DEF T
    <2> QED
      BY <1>2, GreatestIndex
  <1>4. LastOf(argv, flags) = argv[last]
    BY DEF LastOf
  <1> HIDE DEF last
  <1>5. argv[last] \in [arg : Names \cup Flags, val : 0 .. SizeWord - 1]
    BY <1>1, <1>2, <1>3, ElementOfSeq
  <1> QED
    BY <1>4, <1>5

(* The greatest dictionary a user allows is a power of two as well.         *)
LEMMA GreatestDictPower ==
    ASSUME NEW command \in Commands
    PROVE  MaxDict(command.argv) \in DictSizes
  <1> DEFINE argv == command.argv
             given == LastOf(argv, {"s"}).val
  <1>1. Power(MaxLog + 1) \in DictSizes /\ Power(0) \in DictSizes
    BY FormatsAssumption DEF DictSizes
  <1>2. Power(0) = 1
    BY DEF Power
  <1>3. MaxDict(argv) = IF ~Has(argv, "s") THEN Power(MaxLog + 1)
                        ELSE IF given < 1 THEN 1 ELSE GetDictSize(given)
    BY DEF MaxDict, Power
  <1>4. Has(argv, "s") => given \in 0 .. SizeWord - 1
    BY LastOfFlag DEF Has
  <1> HIDE DEF given
  <1> QED
    BY <1>1, <1>2, <1>3, <1>4, ProposedPower

(* The decoder's window is as large as the encoder's dictionary.            *)
LEMMA WindowHolds ==
    ASSUME NEW format, NEW d \in DictSizes, NEW s
    PROVE  /\ d \in Nat \ {0} /\ Window(Header(format, d, s)) \in Int
           /\ d <= Window(Header(format, d, s))
  <1> DEFINE h == Header(format, d, s)
  <1>1. PICK k \in 0 .. 31 : d = Power(k)
    BY DEF DictSizes
  <1>2. d \in Nat \ {0}
    BY <1>1, PowersNatural
  <1>3. ParsedDict(h) = d
    <2>1. CASE format # "lzip"
      BY <2>1 DEF Header, LzmaHeader, ParsedDict
    <2>2. CASE format = "lzip"
      <3>1. h.kind = "lzip" /\ h.log = (Bits(d) - 1) % 32
        BY <2>2 DEF Header, LzipHeader
      <3>2. (Bits(d) - 1) % 32 = k
        BY <1>1, BitsOfPower
      <3> QED
        BY <1>1, <3>1, <3>2 DEF ParsedDict, Power
    <2> QED
      BY <2>1, <2>2
  <1> HIDE DEF h
  <1>4. Window(h) = IF d < DicMin THEN DicMin ELSE d
    BY <1>3 DEF Window
  <1>5. Window(h) \in Int /\ d <= Window(h)
    BY <1>2, <1>4, FormatsAssumption
  <1> QED
    BY <1>2, <1>5 DEF h

(* What a header says is what it was made from.                             *)
LEMMA HeaderReadsBack ==
    ASSUME NEW format, NEW d \in DictSizes, NEW s \in Nat
    PROVE  /\ Header(format, d, s) \in Headers
           /\ DecoderProps(Header(format, d, s)) = Defaults
           /\ format # "lzip" => Header(format, d, s).kind = "lzma"
                                 /\ Header(format, d, s).size = s
           /\ format = "lzip" => Header(format, d, s).kind = "lzip"
  <1>1. PropertiesByte(Defaults) = 93
    BY DEF PropertiesByte, Defaults
  <1>2. DecodedProps(93) = Defaults
    BY DEF DecodedProps, Defaults
  <1>3. d \in Nat
    BY WindowHolds
  <1>4. CASE format # "lzip"
    BY <1>1, <1>2, <1>3, <1>4 DEF Header, LzmaHeader, Headers, DecoderProps, ParsedProps
  <1>5. CASE format = "lzip"
    <2>1. PICK k \in 0 .. 31 : d = Power(k)
      BY DEF DictSizes
    <2>2. (Bits(d) - 1) % 32 \in Int
      BY <2>1, BitsOfPower
    <2> QED
      BY <1>1, <1>2, <1>5, <2>2 DEF Header, LzipHeader, Headers, DecoderProps, ParsedProps
  <1> QED
    BY <1>4, <1>5
(* The properties byte that serializeLzmaHeader writes is the one the       *)
(* parsers take apart exactly when lp is 0, which the tool never changes.   *)
THEOREM PropertiesReadBack ==
    ASSUME NEW p \in Properties
    PROVE  DecodedProps(PropertiesByte(p)) = p <=> p.lp = 0
  <1>1. p.lc \in 0 .. 8 /\ p.lp \in 0 .. 4 /\ p.pb \in 0 .. 4 /\ p = [lc |-> p.lc, lp |-> p.lp, pb |-> p.pb]
    BY DEF Properties
  <1> DEFINE b == PropertiesByte(p)
  <1>2. b = (p.lc + (p.pb * 45) + (p.lp * 405)) % 256
    BY <1>1 DEF PropertiesByte
  <1>3. b \in 0 .. 255
    BY <1>1, <1>2
  <1> HIDE DEF b
  <1>4. DecodedProps(b) = p <=> b = p.lc + 9 * p.lp + 45 * p.pb
    <2>1. DecodedProps(b) = p <=> b % 9 = p.lc /\ (b \div 9) % 5 = p.lp /\ (b \div 9) \div 5 = p.pb
      BY <1>1 DEF DecodedProps
    <2>2. b = 9 * (b \div 9) + (b % 9) /\ b \div 9 = 5 * ((b \div 9) \div 5) + ((b \div 9) % 5)
      BY <1>3
    <2> QED
      BY <1>1, <1>3, <2>1, <2>2
  <1>5. CASE p.lp = 0
    BY <1>1, <1>2, <1>4, <1>5 DEF b
  <1>6. CASE p.lp # 0
    <2>1. p.lp \in {1, 2, 3, 4}
      BY <1>1, <1>6
    <2> QED
      BY <1>1, <1>2, <1>4, <2>1, <1>6 DEF b
  <1> QED
    BY <1>5, <1>6
-----------------------------------------------------------------------------
(* A file and what is pending, when fwrite takes a part more, ...           *)
LEMMA PutPart ==
    ASSUME NEW S, NEW d \in Seq(S), NEW p \in Seq(S), NEW x \in S
    PROVE  /\ Append(p, x) \in Seq(S) /\ d \o Append(p, x) \in Seq(S) /\ d \o p \in Seq(S)
           /\ Len(d \o Append(p, x)) = Len(d \o p) + 1
           /\ \A i \in 1 .. Len(d \o p) : (d \o Append(p, x))[i] = (d \o p)[i]
           /\ (d \o Append(p, x))[Len(d \o p) + 1] = x
  <1>1. /\ d \o p \in Seq(S) /\ Len(d \o p) = Len(d) + Len(p)
        /\ \A i \in 1 .. Len(d) + Len(p) :
            (d \o p)[i] = IF i <= Len(d) THEN d[i] ELSE p[i - Len(d)]
    BY ConcatProperties
  <1>2. /\ Append(p, x) \in Seq(S) /\ Len(Append(p, x)) = Len(p) + 1
        /\ \A i \in 1 .. Len(p) : Append(p, x)[i] = p[i]
        /\ Append(p, x)[Len(p) + 1] = x
    BY AppendProperties
  <1>3. /\ d \o Append(p, x) \in Seq(S) /\ Len(d \o Append(p, x)) = Len(d) + (Len(p) + 1)
        /\ \A i \in 1 .. Len(d) + (Len(p) + 1) :
            (d \o Append(p, x))[i] = IF i <= Len(d) THEN d[i] ELSE Append(p, x)[i - Len(d)]
    BY <1>2, ConcatProperties
  <1>4. Len(d) \in Nat /\ Len(p) \in Nat
    OBVIOUS
  <1> QED
    BY <1>1, <1>2, <1>3, <1>4

(* ... when the disk takes some of it, ...                                  *)
LEMMA FlushPart ==
    ASSUME NEW S, NEW d \in Seq(S), NEW p \in Seq(S), NEW n \in 0 .. Len(p)
    PROVE  /\ d \o SubSeq(p, 1, n) \in Seq(S) /\ << >> \in Seq(S)
           /\ n = Len(p) => (d \o SubSeq(p, 1, n)) \o << >> = d \o p
  <1>1. SubSeq(p, 1, n) \in Seq(S)
    BY SubSeqProperties
  <1>2. n = Len(p) => SubSeq(p, 1, n) = p
    BY SubSeqFull
  <1>3. d \o SubSeq(p, 1, n) \in Seq(S)
    BY <1>1, ConcatProperties
  <1>4. (d \o SubSeq(p, 1, n)) \o << >> = d \o SubSeq(p, 1, n)
    BY <1>3, ConcatEmptySeq
  <1> QED
    BY <1>2, <1>3, <1>4, EmptySeq

(* ... and when it takes one part.                                          *)
LEMMA SpillPart ==
    ASSUME NEW S, NEW d \in Seq(S), NEW p \in Seq(S), p # << >>
    PROVE  /\ Append(d, p[1]) \in Seq(S) /\ SubSeq(p, 2, Len(p)) \in Seq(S)
           /\ Append(d, p[1]) \o SubSeq(p, 2, Len(p)) = d \o p
  <1>1. Len(p) \in Nat /\ Len(p) >= 1 /\ p[1] \in S
    OBVIOUS
  <1>2. <<p[1]>> \in Seq(S) /\ SubSeq(p, 2, Len(p)) \in Seq(S)
    BY <1>1, SubSeqProperties
  <1>3. Append(d, p[1]) \in Seq(S) /\ Append(d, p[1]) = d \o <<p[1]>>
    BY <1>1, AppendProperties, AppendIsConcat
  <1>4. p = <<p[1]>> \o SubSeq(p, 2, Len(p))
    <2>1. SubSeq(p, 1, Len(p)) = p
      BY SubSeqFull
    <2>2. 1 \in 1 .. Len(p) /\ Len(p) \in 1 .. Len(p)
      BY <1>1
    <2>3. SubSeq(p, 1, Len(p)) = <<p[1]>> \o SubSeq(p, 1 + 1, Len(p))
      BY <2>2, SubSeqRecursiveFirst
    <2> QED
      BY <2>1, <2>3
  <1>5. (d \o <<p[1]>>) \o SubSeq(p, 2, Len(p)) = d \o (<<p[1]>> \o SubSeq(p, 2, Len(p)))
    <2> DEFINE one == <<p[1]>>
               rest == SubSeq(p, 2, Len(p))
    <2>1. one \in Seq(S) /\ rest \in Seq(S)
      BY <1>2
    <2> HIDE DEF one, rest
    <2>2. (d \o one) \o rest = d \o (one \o rest)
      BY <2>1, ConcatAssociative, SMTT(60)
    <2> QED
      BY <2>2 DEF one, rest
  <1> QED
    BY <1>2, <1>3, <1>4, <1>5
-----------------------------------------------------------------------------
(* The tool starts with nothing written.                                    *)
LEMMA InitInv == Init => ToolInv
  <1> SUFFICES ASSUME Init PROVE ToolInv
    OBVIOUS
  <1>1. PICK n \in Lengths :
            /\ disk = [name \in Names |-> IF name = "text" THEN Text(n) ELSE Absent]
            /\ before = Text(n)
    BY DEF Init
  <1>2. n \in Nat
    BY ToolAssumption
  <1>3. Text(n) \in Seq(Bytes) /\ Text(n) \in Seq(Parts)
    <2>1. \A i \in 1 .. n : Byte(i) \in Bytes /\ Byte(i) \in Parts
      BY <1>2 DEF Byte, Bytes, Parts
    <2> QED
      BY <1>2, <2>1, IsASeq DEF Text
  <1>4. << >> \in Seq(Parts) /\ << >> \in Seq(Bytes)
    BY EmptySeq
  <1>5. FilesOK
    BY <1>1, <1>3, <1>4 DEF Init, FilesOK, InOutput, NoJob, Names
  <1>6. JobOK
    BY DEF Init, JobOK, InOutput, NoJob, Names
  <1>7. InputNeverLost /\ ExitTold
    BY <1>1 DEF Init, NoJob, Names, InputNeverLost, ExitTold
  <1> QED
    BY <1>5, <1>6, <1>7 DEF Init, NoJob, ToolInv, InputIntact, CompressInv, DecompressInv

(* What the disk holds while a run has its files open.                      *)
LEMMA OpenRun ==
    ASSUME ToolInv, InOutput
    PROVE  /\ disk[job.out] \in Seq(Parts) /\ pending \in Seq(Parts) /\ Written \in Seq(Parts)
           /\ before \in Seq(Parts) /\ job.in # job.out
           /\ job.in \in Names /\ job.out \in Names
           /\ DOMAIN disk = Names
  <1>1. disk[job.out] \in Seq(Parts) /\ before \in Seq(Parts)
    BY DEF ToolInv, FilesOK, JobOK
  <1> QED
    BY <1>1, ConcatProperties DEF ToolInv, FilesOK, JobOK, Written

(* No file is Absent.                                                       *)
LEMMA AbsentIsNoFile == Absent \notin Seq(Parts)
  <1> SUFFICES ASSUME Absent \in Seq(Parts) PROVE FALSE
    OBVIOUS
  <1>1. Absent[1].kind = "no such file"
    BY DEF Absent
  <1>2. 1 \in 1 .. Len(Absent)
    <2>1. Len(Absent) = 1
      BY DEF Absent
    <2> QED
      BY <2>1
  <1>3. Absent[1] \in Parts
    BY <1>2, ElementOfSeq
  <1>4. \A x \in Parts : x.kind \in {"byte", "code", "lzma", "lzip", "footer", "mark"}
    BY DEF Parts, Bytes, Codes, Headers, Footers, Mark
  <1> QED
    BY <1>1, <1>3, <1>4

(* What is pending reaches the disk, all of it or a part.                   *)
LEMMA OutputWritten ==
    ASSUME ToolInv, InOutput, NEW n \in 0 .. Len(pending),
           disk' = [disk EXCEPT ![job.out] = @ \o SubSeq(pending, 1, n)],
           pending' = << >>, UNCHANGED <<job, before>>, pc' # "open"
    PROVE  /\ FilesOK'
           /\ disk'[job.in] = disk[job.in]
           /\ disk'[job.out] = disk[job.out] \o SubSeq(pending, 1, n)
           /\ disk'[job.out] \in Seq(Parts) /\ disk'[job.out] # Absent
           /\ n = Len(pending) => disk'[job.out] = Written /\ Written' = Written
  <1> DEFINE d == disk[job.out]
  <1>1. disk' = [disk EXCEPT ![job.out] = d \o SubSeq(pending, 1, n)]
    OBVIOUS
  <1>2. d \in Seq(Parts) /\ pending \in Seq(Parts) /\ DOMAIN disk = Names
        /\ job.out \in Names /\ job.in \in Names
        /\ job.in # job.out /\ Len(pending) \in Nat
    BY OpenRun
  <1>3. disk'[job.out] = d \o SubSeq(pending, 1, n) /\ disk'[job.in] = disk[job.in]
    <2> HIDE DEF d
    <2> QED
      BY <1>1, <1>2
  <1>4. Written = d \o pending /\ Written' = (d \o SubSeq(pending, 1, n)) \o << >>
    BY <1>2, <1>3 DEF Written
  <1>5. job.out = "text" => d \in Seq(Bytes) /\ pending \in Seq(Bytes)
    BY DEF ToolInv, FilesOK
  <1>6. d \o SubSeq(pending, 1, n) = disk[job.out] \o SubSeq(pending, 1, n)
    OBVIOUS
  <1> HIDE DEF d
  <1>7. d \o SubSeq(pending, 1, n) \in Seq(Parts) /\ << >> \in Seq(Parts) /\ << >> \in Seq(Bytes)
    BY <1>2, FlushPart, EmptySeq
  <1>8. job.out = "text" => d \o SubSeq(pending, 1, n) \in Seq(Bytes)
    BY <1>5, FlushPart
  <1>9. disk'[job.out] # Absent
    BY <1>3, <1>7, AbsentIsNoFile
  <1>10. FilesOK'
    <2>1. disk' \in [Names -> Seq(Parts) \cup {Absent}]
      BY <1>1, <1>2, <1>7 DEF ToolInv, FilesOK
    <2>2. disk'["text"] \in Seq(Bytes) \cup {Absent}
      <3>1. CASE job.out = "text"
        BY <1>3, <1>8, <3>1
      <3>2. CASE job.out # "text"
        <4>1. disk'["text"] = disk["text"]
          BY <1>1, <1>2, <3>2 DEF Names
        <4> QED
          BY <4>1 DEF ToolInv, FilesOK
      <3> QED
        BY <3>1, <3>2
    <2> QED
      BY <1>2, <1>7, <1>9, <2>1, <2>2 DEF ToolInv, FilesOK, InOutput
  <1>11. n = Len(pending) => Written' = Written /\ d \o SubSeq(pending, 1, n) = Written
    <2>1. (d \o SubSeq(pending, 1, n)) \o << >> = d \o SubSeq(pending, 1, n)
      BY <1>7, ConcatEmptySeq
    <2>2. n = Len(pending) => (d \o SubSeq(pending, 1, n)) \o << >> = d \o pending
      BY <1>2, FlushPart
    <2> QED
      BY <1>4, <2>1, <2>2
  <1> QED
    BY <1>3, <1>6, <1>7, <1>9, <1>10, <1>11

(* A failure before the input is deleted, whether its output is deleted or  *)
(* stays.                                                                   *)
LEMMA AbandonInv ==
    ASSUME ToolInv, InOutput, pc # "exit", Abandon,
           UNCHANGED <<job, before, opened, pos, made>>, size' \in Nat
    PROVE  ToolInv'
  <1>1. pc' = "shell" /\ status' = "1" /\ pending' = << >>
    BY DEF Abandon, Exit
  <1>2. disk' \in [Names -> Seq(Parts) \cup {Absent}] /\ FilesOK' /\ disk'[job.in] = disk[job.in]
    <2>1. CASE disk' = [disk EXCEPT ![job.out] = Absent]
      <3>1. FilesOK'
        BY <1>1, <2>1, EmptySeq DEF ToolInv, FilesOK, JobOK, InOutput
      <3> QED
        BY <2>1, <3>1, OpenRun DEF FilesOK
    <2>2. CASE OutputStays
      <3>1. PICK n \in 0 .. Len(pending) :
              disk' = [disk EXCEPT ![job.out] = @ \o SubSeq(pending, 1, n)]
        BY <2>2 DEF OutputStays
      <3>2. FilesOK' /\ disk'[job.in] = disk[job.in]
        BY <1>1, <3>1, OutputWritten
      <3> QED
        BY <3>2 DEF FilesOK
    <2> QED
      BY <2>1, <2>2 DEF Abandon
  <1>3. JobOK'
    BY <1>1 DEF ToolInv, JobOK, InOutput
  <1>4. disk'[job'.in] = before'
    BY <1>2, OpenRun DEF ToolInv, InputIntact, InOutput
  <1>5. InputNeverLost' /\ ExitTold'
    BY <1>1, <1>4 DEF InputNeverLost, ExitTold
  <1> QED
    BY <1>1, <1>2, <1>3, <1>5 DEF ToolInv, InputIntact, CompressInv, DecompressInv
(* A command is a job, or an exit that touches nothing.                     *)
LEMMA InvokeInv ==
    ASSUME ToolInv, NEW command \in Commands, Invoke(command)
    PROVE  ToolInv'
  <1> DEFINE argv == command.argv
             compress == Mode(command) = "compress" /\ ParsedArgs(argv, CompressFlags)
             decompress == /\ Mode(command) = "decompress"
                           /\ ParsedArgs(argv, DecompressFlags)
                           /\ argv[Len(argv)].arg # "text"
  <1>1. /\ pc = "shell"
        /\ compress => argv[Len(argv)].arg = "text"
        /\ IF compress \/ decompress
           THEN /\ job' = IF compress THEN CompressJob(argv) ELSE DecompressJob(argv)
                /\ pc' = "open" /\ status' = "none"
           ELSE job' = NoJob /\ pc' = "shell" /\ status' = "1"
        /\ before' = disk[job'.in]
        /\ opened' = FALSE /\ faults' = {}
        /\ UNCHANGED <<disk, locals, pending>>
    BY DEF Invoke, Exit
  <1>2. argv[Len(argv)].arg \in Names \/ ~ (compress \/ decompress)
    BY DEF ParsedArgs
  <1>3. MaxDict(argv) \in DictSizes
    BY GreatestDictPower
  <1>4. \/ /\ pc' = "open"
           /\ job'.mode = "compress" /\ job'.in = "text" /\ job'.out \in {"text.lzma", "text.lz"}
           /\ job'.maxDict \in DictSizes
        \/ /\ pc' = "open"
           /\ job'.mode = "decompress" /\ job'.in \in {"text.lzma", "text.lz"} /\ job'.out = "text"
        \/ /\ pc' = "shell" /\ status' = "1"
           /\ job'.mode = "none" /\ job'.in = "text" /\ job'.out = "text.lzma"
    BY <1>1, <1>2, <1>3 DEF CompressJob, DecompressJob, NoJob, Names
  <1> HIDE DEF compress, decompress
  <1>5. FilesOK'
    BY <1>1, <1>4 DEF ToolInv, FilesOK, InOutput, Names
  <1>6. JobOK'
    BY <1>1, <1>4 DEF ToolInv, JobOK, InOutput, Names, locals
  <1>7. InputIntact' /\ CompressInv' /\ DecompressInv'
    BY <1>1, <1>4 DEF InputIntact, CompressInv, DecompressInv
  <1>8. pc' = "shell" => InputNeverLost' /\ ExitTold'
    BY <1>1, <1>4 DEF InputNeverLost, ExitTold
  <1> QED
    BY <1>5, <1>6, <1>7, <1>8 DEF ToolInv

(* The output begins empty, beside its input.                               *)
LEMMA OpenFilesInv ==
    ASSUME ToolInv, OpenFiles
    PROVE  ToolInv'
  <1>1. /\ pc = "open" /\ pos' = 0 /\ made' = 0 /\ pending' = << >>
        /\ UNCHANGED <<job, before, size, faults>>
    BY DEF OpenFiles
  <1>2. /\ job.in \in Names /\ job.out \in Names /\ job.in # job.out
        /\ disk[job.in] = before /\ ~opened /\ job.mode \in {"compress", "decompress"}
    BY <1>1 DEF ToolInv, JobOK, InputIntact
  <1>3. CASE Exit("1") /\ UNCHANGED <<disk, opened>>
    <2>1. FilesOK' /\ JobOK'
      BY <1>1, <1>3, <1>2, EmptySeq DEF ToolInv, FilesOK, JobOK, InOutput, Exit
    <2> QED
      BY <1>1, <1>2, <1>3, <2>1 DEF ToolInv, Exit, InputIntact, CompressInv, DecompressInv,
         InputNeverLost, ExitTold
  <1>4. CASE /\ disk[job.in] # Absent
             /\ disk' = [disk EXCEPT ![job.out] = << >>]
             /\ opened' = TRUE
             /\ pc' = IF job.mode = "compress" THEN "measure" ELSE "header"
    <2>1. << >> \in Seq(Parts) /\ << >> \in Seq(Bytes) /\ << >> # Absent
      BY EmptySeq DEF Absent
    <2>2. FilesOK'
      BY <1>1, <1>2, <1>4, <2>1 DEF ToolInv, FilesOK, InOutput
    <2>3. JobOK' /\ InputIntact'
      BY <1>1, <1>2, <1>4 DEF ToolInv, FilesOK, JobOK, InputIntact, InOutput
    <2>4. Written' = << >> \o << >> /\ << >> \o << >> = << >>
      BY <1>1, <1>2, <1>4, <2>1, ConcatEmptySeq DEF ToolInv, FilesOK, Written
    <2> QED
      BY <1>1, <1>2, <1>4, <2>2, <2>3, <2>4 DEF ToolInv, CompressInv, DecompressInv
  <1> QED
    BY <1>3, <1>4 DEF OpenFiles

(* An error of the library abandons the run.                                *)
LEMMA LibraryFailsInv ==
    ASSUME ToolInv, LibraryFails
    PROVE  ToolInv'
  <1>1. InOutput /\ pc # "exit" /\ size \in Nat
    BY DEF LibraryFails, InOutput, ToolInv, JobOK
  <1> QED
    BY <1>1, AbandonInv DEF LibraryFails, locals
-----------------------------------------------------------------------------
(* doCompress.                                                              *)
LEMMA MeasureInputInv ==
    ASSUME ToolInv, MeasureInput
    PROVE  ToolInv'
  <1>1. /\ pc = "measure" /\ InOutput
        /\ UNCHANGED <<job, before, opened, header, pos, made, footer>>
    BY DEF MeasureInput, InOutput
  <1>2. Len(before) \in Nat /\ size' = Len(before) % SizeWord
    BY <1>1, OpenRun DEF MeasureInput, LengthRead
  <1>3. size' \in 0 .. SizeWord - 1
    BY <1>2, ToolAssumption
  <1>4. CASE Abandon
    BY <1>1, <1>3, <1>4, AbandonInv
  <1>5. CASE pc' = "header" /\ UNCHANGED <<disk, status, pending>>
    <2>1. job.mode = "compress" /\ job.maxDict \in DictSizes /\ Written = << >> /\ pos = 0
      BY <1>1 DEF ToolInv, JobOK, CompressInv
    <2>2. dictSize' \in DictSizes
      BY <1>3, <2>1, ProposedPower DEF MeasureInput, Allowed
    <2>3. faults' = {} => size' = Len(before)
      BY <1>2, ToolAssumption DEF MeasureInput
    <2>4. FilesOK' /\ JobOK' /\ InputIntact'
      BY <1>1, <1>3, <1>5, <2>1 DEF ToolInv, FilesOK, JobOK, InputIntact, InOutput
    <2> QED
      BY <1>1, <1>5, <2>1, <2>2, <2>3, <2>4 DEF ToolInv, CompressInv, DecompressInv, Written
  <1> QED
    BY <1>4, <1>5 DEF MeasureInput

(* A part is put out, and no file is touched.                               *)
LEMMA PutInv ==
    ASSUME ToolInv, InOutput, NEW part \in Parts, Put(part),
           job.out = "text" => part \in Bytes,
           pc' \notin {"shell", "open"}, UNCHANGED <<disk, job, before>>
    PROVE  /\ FilesOK'
           /\ Written \in Seq(Parts) /\ Written' \in Seq(Parts)
           /\ Len(Written') = Len(Written) + 1
           /\ \A i \in 1 .. Len(Written) : Written'[i] = Written[i]
           /\ Written'[Len(Written) + 1] = part
  <1>1. disk[job.out] \in Seq(Parts) /\ pending \in Seq(Parts)
    BY OpenRun
  <1>2. pending' = Append(pending, part)
    BY DEF Put
  <1>3. job.out = "text" => pending' \in Seq(Bytes)
    BY <1>2, AppendProperties DEF ToolInv, FilesOK
  <1>4. FilesOK'
    BY <1>1, <1>2, <1>3, PutPart DEF ToolInv, FilesOK, InOutput
  <1> DEFINE d == disk[job.out]
  <1>5. Written = d \o pending /\ Written' = d \o Append(pending, part)
    BY <1>2 DEF Written
  <1>6. d \in Seq(Parts)
    BY <1>1
  <1> HIDE DEF d
  <1> QED
    BY <1>1, <1>4, <1>5, <1>6, PutPart

(* The header comes first, ...                                              *)
LEMMA WriteHeaderInv ==
    ASSUME ToolInv, WriteHeader
    PROVE  ToolInv'
  <1>1. /\ pc = "header" /\ job.mode = "compress" /\ InOutput
        /\ header' = Header(job.format, dictSize, size) /\ Put(header')
        /\ pc' = "encode"
        /\ UNCHANGED <<disk, status, job, before, opened, size, dictSize, pos, made, faults>>
    BY DEF WriteHeader, InOutput
  <1>2. /\ dictSize \in DictSizes /\ size \in Nat /\ Written = << >> /\ pos = 0
        /\ job.out # "text"
    BY <1>1 DEF ToolInv, JobOK, CompressInv
  <1>3. header' \in Parts
    BY <1>1, <1>2, HeaderReadsBack DEF Parts
  <1>4. /\ FilesOK' /\ Len(Written') = 1 /\ Written'[1] = header'
    BY <1>1, <1>2, <1>3, PutInv
  <1>5. JobOK' /\ InputIntact'
    BY <1>1 DEF ToolInv, JobOK, InputIntact, InOutput
  <1>6. Len(before) \in Nat
    BY <1>1, OpenRun
  <1> QED
    BY <1>1, <1>2, <1>4, <1>5, <1>6 DEF ToolInv, CompressInv, DecompressInv, Coded

(* A text is made of bytes.                                                 *)
LEMMA TextOfBytes ==
    ASSUME ToolInv, InOutput, job.mode = "compress"
    PROVE  /\ before \in Seq(Bytes)
           /\ \A i \in 1 .. Len(before) : before[i] \in Bytes /\ before[i] = Byte(before[i].val)
  <1>1. before \in Seq(Bytes)
    BY DEF ToolInv, FilesOK, JobOK
  <1>2. \A b \in Bytes : b = Byte(b.val)
    BY DEF Bytes, Byte
  <1> QED
    BY <1>1, <1>2, ElementOfSeq

(* ... then a code for each byte, ...                                       *)
LEMMA CodeAByte ==
    ASSUME ToolInv, pc = "encode", pos < Len(before), pos' = pos + 1,
           Put(Code(before[pos'], Smaller(pos, dictSize))),
           UNCHANGED <<pc, faults, disk, status, job, before, opened, size, dictSize, header, made>>
    PROVE  ToolInv'
  <1>1. InOutput /\ job.mode = "compress" /\ job.out # "text" /\ pos \in Nat
    BY DEF ToolInv, JobOK, InOutput
  <1>2. dictSize \in DictSizes /\ dictSize \in Nat
    BY <1>1, WindowHolds DEF ToolInv, CompressInv
  <1> DEFINE part == Code(before[pos'], Smaller(pos, dictSize))
  <1>3. pos' \in 1 .. Len(before) /\ Len(before) \in Nat
    BY <1>1, OpenRun
  <1>4. before[pos'] \in Bytes
    BY <1>1, <1>3, TextOfBytes
  <1>5. part \in Parts
    BY <1>1, <1>2, <1>4 DEF Parts, Bytes, Codes, Code, Smaller
  <1> HIDE DEF part
  <1>6. /\ FilesOK' /\ Written \in Seq(Parts) /\ Len(Written') = Len(Written) + 1
        /\ \A i \in 1 .. Len(Written) : Written'[i] = Written[i]
        /\ Written'[Len(Written) + 1] = part
    BY <1>1, <1>5, PutInv DEF InOutput, part
  <1>7. Len(Written) = pos + 1 /\ Coded /\ (faults = {} => size = Len(before))
    BY <1>1 DEF ToolInv, CompressInv
  <1>8. Coded'
    <2>1. header' = Header(job'.format, dictSize', size') /\ pos' <= Len(before') /\ Len(Written') > pos'
      BY <1>3, <1>6, <1>7 DEF Coded
    <2>2. Written'[1] = header'
      BY <1>1, <1>6, <1>7 DEF Coded
    <2>3. ASSUME NEW i \in 1 .. pos'
          PROVE  Written'[i + 1] = Code(before'[i], Smaller(i - 1, dictSize'))
      <3>1. CASE i = pos'
        BY <1>1, <1>6, <1>7, <3>1 DEF part
      <3>2. CASE i # pos'
        <4>1. i \in 1 .. pos /\ i + 1 \in 1 .. Len(Written)
          BY <1>1, <1>3, <1>7, <3>2
        <4>2. Written[i + 1] = Code(before[i], Smaller(i - 1, dictSize))
          BY <4>1, <1>7 DEF Coded
        <4> QED
          BY <1>6, <4>1, <4>2
      <3> QED
        BY <3>1, <3>2
    <2> QED
      BY <2>1, <2>2, <2>3 DEF Coded
  <1>9. JobOK' /\ InputIntact'
    BY <1>1, <1>3 DEF ToolInv, JobOK, InputIntact, InOutput
  <1>10. Len(Written') = pos' + 1
    BY <1>1, <1>6, <1>7
  <1> QED
    BY <1>1, <1>2, <1>6, <1>7, <1>8, <1>9, <1>10 DEF ToolInv, CompressInv, DecompressInv

(* All that the end of the archive has to add.                              *)
LEMMA ArchiveComplete ==
    ASSUME ToolInv, InOutput, job.mode = "compress", NEW w \in Seq(Parts),
           dictSize \in DictSizes, size = Len(before), pos = Len(before),
           w[1] = Header(job.format, dictSize, size),
           \A i \in 1 .. pos : w[i + 1] = Code(before[i], Smaller(i - 1, dictSize)),
           w[pos + 2] = Mark,
           \/ job.format # "lzip" /\ Len(w) = pos + 2
           \/ job.format = "lzip" /\ Len(w) = pos + 3 /\ w[pos + 3] = Footer(pos, pos)
    PROVE  Archives(w, before)
  <1>1. before \in Seq(Bytes) /\ pos \in Nat /\ Len(before) \in Nat /\ size \in Nat
    BY TextOfBytes
  <1>2. w # Absent /\ w # << >> /\ Len(w) \in Nat
    <2>1. Len(Absent) = 1
      BY DEF Absent
    <2> QED
      BY <1>1, <2>1
  <1>3. /\ DecoderProps(w[1]) = Defaults /\ w[1] \in Headers
        /\ job.format # "lzip" => w[1].kind = "lzma" /\ w[1].size = size
        /\ job.format = "lzip" => w[1].kind = "lzip"
    BY <1>1, HeaderReadsBack
  <1>4. TailLength(w) = IF job.format = "lzip" THEN 2 ELSE 1
    BY <1>3 DEF TailLength
  <1>5. dictSize \in Nat /\ Window(w[1]) \in Int /\ dictSize <= Window(w[1])
    BY WindowHolds
  <1>6. ASSUME NEW i \in 1 .. Len(before)
        PROVE  /\ w[i + 1].kind = "code" /\ Byte(w[i + 1].val) = before[i]
               /\ w[i + 1].dist <= Window(w[1])
    <2>1. w[i + 1] = Code(before[i], Smaller(i - 1, dictSize))
      OBVIOUS
    <2>2. before[i] = Byte(before[i].val)
      BY TextOfBytes
    <2>3. Smaller(i - 1, dictSize) <= Window(w[1])
      BY <1>5 DEF Smaller
    <2> QED
      BY <2>1, <2>2, <2>3 DEF Code
  <1> QED
    BY <1>1, <1>2, <1>3, <1>4, <1>6 DEF Archives

(* ... up to the end of the input, which the end mark says, ...             *)
LEMMA EncodeInv ==
    ASSUME ToolInv, Encode
    PROVE  ToolInv'
  <1>1. /\ pc = "encode" /\ InOutput
        /\ UNCHANGED <<disk, status, job, before, opened, size, dictSize, header, made>>
    BY DEF Encode, InOutput
  <1>2. CASE /\ pos < Len(before) /\ pos' = pos + 1
             /\ Put(Code(before[pos'], Smaller(pos, dictSize)))
             /\ UNCHANGED <<pc, faults>>
    BY <1>1, <1>2, CodeAByte
  <1>3. CASE /\ faults' = IF pos < Len(before) THEN faults \cup {"read"} ELSE faults
             /\ Put(Mark)
             /\ pc' = IF job.format = "lzip" THEN "encode_footer" ELSE "close"
             /\ UNCHANGED pos
    <2>1. /\ job.mode = "compress" /\ job.out # "text" /\ dictSize \in DictSizes
          /\ Coded /\ Len(Written) = pos + 1 /\ pos \in Nat
          /\ faults = {} => size = Len(before)
      BY <1>1 DEF ToolInv, JobOK, CompressInv
    <2>2. /\ FilesOK' /\ Written \in Seq(Parts) /\ Written' \in Seq(Parts)
          /\ Len(Written') = pos + 2
          /\ \A i \in 1 .. pos + 1 : Written'[i] = Written[i]
          /\ Written'[pos + 2] = Mark
      <3>1. Mark \in Parts
        BY DEF Parts
      <3> QED
        BY <1>1, <1>3, <2>1, <3>1, PutInv
    <2>3. /\ Written'[1] = Header(job.format, dictSize, size)
          /\ \A i \in 1 .. pos : Written'[i + 1] = Code(before[i], Smaller(i - 1, dictSize))
      BY <2>1, <2>2 DEF Coded
    <2>4. Coded'
      BY <1>1, <1>3, <2>1, <2>2, <2>3 DEF Coded
    <2>5. faults' = {} => faults = {} /\ size = Len(before) /\ pos = Len(before)
      <3>1. Len(before) \in Nat /\ pos <= Len(before)
        BY <1>1, <2>1, OpenRun DEF Coded
      <3> QED
        BY <1>3, <2>1, <3>1
    <2>6. faults' = {} /\ job.format # "lzip" => Archives(Written', before)
      BY <1>1, <2>1, <2>2, <2>3, <2>5, ArchiveComplete
    <2>7. JobOK' /\ InputIntact'
      BY <1>1, <1>3, <2>1 DEF ToolInv, JobOK, InputIntact, InOutput
    <2> QED
      BY <1>1, <1>3, <2>1, <2>2, <2>4, <2>5, <2>6, <2>7
      DEF ToolInv, CompressInv, DecompressInv
  <1> QED
    BY <1>2, <1>3 DEF Encode

(* ... and for lzip the footer.                                             *)
LEMMA EncodeFooterInv ==
    ASSUME ToolInv, EncodeFooter
    PROVE  ToolInv'
  <1>1. /\ pc = "encode_footer" /\ InOutput /\ Put(Footer(pos, size)) /\ pc' = "close"
        /\ UNCHANGED <<disk, status, job, before, opened, size, dictSize, header, pos, made, faults>>
    BY DEF EncodeFooter, InOutput, locals
  <1>2. /\ job.mode = "compress" /\ job.out # "text" /\ dictSize \in DictSizes
        /\ Coded /\ Len(Written) = pos + 2 /\ Written[pos + 2] = Mark /\ job.format = "lzip"
        /\ pos \in Nat /\ size \in Nat
        /\ faults = {} => size = Len(before) /\ pos = Len(before)
    BY <1>1 DEF ToolInv, JobOK, CompressInv
  <1>3. /\ FilesOK' /\ Written' \in Seq(Parts) /\ Len(Written') = pos + 3
        /\ \A i \in 1 .. pos + 2 : Written'[i] = Written[i]
        /\ Written'[pos + 3] = Footer(pos, size)
    <2>1. Footer(pos, size) \in Parts
      BY <1>2 DEF Footer, Footers, Parts
    <2> QED
      BY <1>1, <1>2, <2>1, PutInv
  <1>4. /\ Written'[1] = Header(job.format, dictSize, size)
        /\ \A i \in 1 .. pos : Written'[i + 1] = Code(before[i], Smaller(i - 1, dictSize))
        /\ Written'[pos + 2] = Mark
    BY <1>2, <1>3 DEF Coded
  <1>5. faults' = {} => Archives(Written', before)
    BY <1>1, <1>2, <1>3, <1>4, ArchiveComplete
  <1>6. JobOK' /\ InputIntact'
    BY <1>1, <1>2 DEF ToolInv, JobOK, InputIntact, InOutput
  <1> QED
    BY <1>1, <1>2, <1>3, <1>5, <1>6 DEF ToolInv, CompressInv, DecompressInv
-----------------------------------------------------------------------------
(* The end of both.                                                         *)
LEMMA FlushInv ==
    ASSUME ToolInv, InOutput, Flush, UNCHANGED <<job, before>>, pc' # "open"
    PROVE  /\ FilesOK'
           /\ disk'[job.in] = disk[job.in] /\ disk'[job.out] # Absent
           /\ faults' = {} => faults = {} /\ Written' = Written
           /\ "flush" \notin faults' => faults' = faults /\ disk'[job.out] = Written
           /\ \E n \in 0 .. Len(pending) :
                disk'[job.out] = disk[job.out] \o SubSeq(pending, 1, n)
  <1>1. PICK n \in 0 .. Len(pending) :
            /\ disk' = [disk EXCEPT ![job.out] = @ \o SubSeq(pending, 1, n)]
            /\ faults' = IF n < Len(pending) THEN faults \cup {"flush"} ELSE faults
    BY DEF Flush
  <1>2. pending' = << >> /\ Len(pending) \in Nat
    BY OpenRun DEF Flush
  <1>3. /\ FilesOK'
        /\ disk'[job.in] = disk[job.in] /\ disk'[job.out] # Absent
        /\ disk'[job.out] = disk[job.out] \o SubSeq(pending, 1, n)
        /\ n = Len(pending) => disk'[job.out] = Written /\ Written' = Written
    BY <1>1, <1>2, OutputWritten
  <1>4. "flush" \notin faults' => faults' = faults /\ n = Len(pending)
    <2>1. CASE n < Len(pending)
      BY <1>1, <2>1
    <2>2. CASE n = Len(pending)
      BY <1>1, <1>2, <2>2
    <2> QED
      BY <1>2, <2>1, <2>2
  <1> QED
    BY <1>3, <1>4

(* The output is closed with all of it on the disk, or a fault is noted.    *)
LEMMA CloseInv ==
    ASSUME ToolInv, Close
    PROVE  ToolInv'
  <1>1. /\ pc = "close" /\ InOutput /\ Flush /\ pc' = "delete"
        /\ UNCHANGED <<status, job, before, opened, size, dictSize, header, pos, made>>
    BY DEF Close, InOutput, locals
  <1>2. job.mode = "compress" /\ (faults = {} => Archives(Written, before))
    BY <1>1 DEF ToolInv, JobOK, CompressInv
  <1>3. FilesOK' /\ disk'[job.in] = disk[job.in] /\ (faults' = {} => faults = {} /\ Written' = Written)
    BY <1>1, FlushInv
  <1>4. JobOK' /\ InputIntact'
    BY <1>1, <1>2, <1>3 DEF ToolInv, JobOK, InputIntact, InOutput
  <1> QED
    BY <1>1, <1>2, <1>3, <1>4 DEF ToolInv, CompressInv, DecompressInv

(* The input is deleted only when the output holds its data.                *)
LEMMA DeleteInputInv ==
    ASSUME ToolInv, DeleteInput
    PROVE  ToolInv'
  <1>1. /\ pc = "delete" /\ InOutput /\ pc' = "exit"
        /\ disk' \in {disk, [disk EXCEPT ![job.in] = Absent]}
        /\ UNCHANGED <<status, job, before, opened, size, dictSize, header, pos, made, pending, faults>>
    BY DEF DeleteInput, InOutput, locals
  <1>2. disk'[job.out] = disk[job.out] /\ job.in \in Names /\ job.out # job.in
    BY <1>1, OpenRun
  <1>3. FilesOK'
    <2>1. disk' \in [Names -> Seq(Parts) \cup {Absent}]
      BY <1>1, <1>2 DEF ToolInv, FilesOK
    <2>2. disk'["text"] \in {disk["text"], Absent}
      <3>1. DOMAIN disk = Names /\ "text" \in Names
        BY <1>1, OpenRun DEF Names
      <3> QED
        BY <1>1, <1>2, <3>1
    <2> QED
      BY <1>1, <1>2, <2>1, <2>2 DEF ToolInv, FilesOK, InOutput
  <1>4. JobOK' /\ InputIntact' /\ CompressInv'
    BY <1>1, <1>2 DEF ToolInv, JobOK, InputIntact, InOutput, CompressInv, Written
  <1>5. DecompressInv'
    BY <1>1, <1>2 DEF ToolInv, DecompressInv, InputWhole, Written
  <1> QED
    BY <1>1, <1>3, <1>4, <1>5 DEF ToolInv

(* The process ends with its output on the disk, or a fault is noted.       *)
LEMMA EndInv ==
    ASSUME ToolInv, End
    PROVE  ToolInv'
  <1>1. /\ pc = "exit" /\ InOutput /\ Flush /\ pc' = "shell" /\ status' = "0"
        /\ UNCHANGED <<job, before, opened, size, pos, made>>
    BY DEF End, InOutput, Exit, locals
  <1>2. /\ job.mode \in {"compress", "decompress"} /\ opened
        /\ job.mode = "compress" /\ faults = {} => Archives(Written, before)
        /\ job.mode = "decompress" /\ InputWhole => Written = Content(before)
    BY <1>1 DEF ToolInv, JobOK, CompressInv, DecompressInv
  <1>3. /\ FilesOK' /\ (faults' = {} => faults = {} /\ Written' = Written)
        /\ disk'[job.out] # Absent
        /\ "flush" \notin faults' => faults' = faults /\ disk'[job.out] = Written
    BY <1>1, FlushInv
  <1>4. JobOK'
    BY <1>1, <1>2 DEF ToolInv, JobOK, InOutput
  <1>5. InputWhole' = InputWhole
    BY <1>1 DEF InputWhole
  <1>6. InputWhole /\ faults' = {} => Holds'
    BY <1>1, <1>2, <1>3 DEF Holds, Written
  <1>7. ExitTold'
    BY <1>1, <1>2, <1>3, <1>5 DEF ExitTold
  <1> QED
    BY <1>1, <1>3, <1>4, <1>5, <1>6, <1>7 DEF ToolInv, InputIntact, CompressInv, DecompressInv,
       InputNeverLost
-----------------------------------------------------------------------------
(* doDecompress.                                                            *)
LEMMA ReadHeaderInv ==
    ASSUME ToolInv, ReadHeader
    PROVE  ToolInv'
  <1>1. /\ pc = "header" /\ job.mode = "decompress" /\ before # << >> /\ InOutput
        /\ header' = before[1] /\ pos' = 1 /\ pc' = "decode"
        /\ UNCHANGED <<disk, status, job, before, opened, size, made, pending, faults>>
    BY DEF ReadHeader, InOutput
  <1>2. Written = << >> /\ made = 0 /\ before \in Seq(Parts)
    BY <1>1, OpenRun DEF ToolInv, DecompressInv
  <1>3. Len(before) >= 1 /\ Len(before) \in Nat
    BY <1>1, <1>2
  <1>4. FilesOK' /\ JobOK' /\ InputIntact'
    BY <1>1 DEF ToolInv, FilesOK, JobOK, InputIntact, InOutput
  <1>5. Written' = Written
    BY <1>1 DEF Written
  <1> QED
    BY <1>1, <1>2, <1>3, <1>4, <1>5 DEF ToolInv, CompressInv, DecompressInv

(* A code is a byte more of the content.                                    *)
LEMMA DecodeCodeInv ==
    ASSUME ToolInv, DecodeCode
    PROVE  ToolInv'
  <1> DEFINE next == before[pos + 1]
  <1>1. /\ pc = "decode" /\ pos < Len(before) /\ InOutput
        /\ next.kind = "code" /\ Put(Byte(next.val))
        /\ pos' = pos + 1 /\ made' = made + 1
        /\ \/ pc' = pc
           \/ header.kind = "lzma" /\ pc' = "verify"
        /\ UNCHANGED <<disk, status, job, before, opened, size, dictSize, header, footer, faults>>
    BY DEF DecodeCode, InOutput
  <1>2. /\ job.mode = "decompress" /\ job.out = "text" /\ header = before[1] /\ pos = made + 1
        /\ Len(Written) = made /\ made \in Nat
        /\ \A i \in 1 .. made : Written[i] = Byte(before[i + 1].val)
    BY <1>1 DEF ToolInv, JobOK, DecompressInv
  <1>3. Byte(next.val) \in Bytes /\ Byte(next.val) \in Parts
    <2>1. before \in Seq(Parts) /\ Len(before) \in Nat
      BY <1>1, OpenRun
    <2>2. pos + 1 \in 1 .. Len(before)
      BY <1>1, <1>2, <2>1
    <2>3. next \in Parts
      BY <2>1, <2>2, ElementOfSeq
    <2>4. next.val \in Nat
      BY <1>1, <2>3 DEF Parts, Bytes, Codes, Headers, Footers, Mark
    <2> QED
      BY <2>4 DEF Parts, Bytes, Byte
  <1>4. /\ FilesOK' /\ Len(Written') = made + 1
        /\ \A i \in 1 .. made : Written'[i] = Written[i]
        /\ Written'[made + 1] = Byte(next.val)
    BY <1>1, <1>2, <1>3, PutInv
  <1>5. ASSUME NEW i \in 1 .. made'
        PROVE  Written'[i] = Byte(before'[i + 1].val)
    <2>1. CASE i = made + 1
      BY <1>1, <1>2, <1>4, <2>1
    <2>2. CASE i # made + 1
      <3>1. i \in 1 .. made
        BY <1>1, <1>2, <2>2
      <3> QED
        BY <1>1, <1>2, <1>4, <3>1
    <2> QED
      BY <2>1, <2>2
  <1>6. Len(before) \in Nat
    BY <1>1, OpenRun
  <1>7. JobOK' /\ InputIntact'
    BY <1>1, <1>2 DEF ToolInv, JobOK, InputIntact, InOutput
  <1>8. /\ header' = before'[1] /\ pos' = made' + 1 /\ pos' <= Len(before') /\ Len(Written') = made'
        /\ pc' = "verify" => header'.kind = "lzma"
        /\ pc' \in {"decode", "verify"}
    BY <1>1, <1>2, <1>4, <1>6
  <1> HIDE DEF next
  <1> QED
    BY <1>1, <1>2, <1>4, <1>5, <1>7, <1>8 DEF ToolInv, CompressInv, DecompressInv

(* At the end mark all codes have been read.                                *)
LEMMA DecodeMarkInv ==
    ASSUME ToolInv, DecodeMark
    PROVE  ToolInv'
  <1>1. /\ pc = "decode" /\ pos < Len(before) /\ before[pos + 1] = Mark /\ InOutput
        /\ pc' = "verify"
        /\ UNCHANGED <<disk, status, job, before, opened, size, header, pos, made, pending, faults>>
    BY DEF DecodeMark, InOutput
  <1>2. FilesOK' /\ JobOK' /\ InputIntact'
    BY <1>1 DEF ToolInv, FilesOK, JobOK, InputIntact, InOutput
  <1>3. Written' = Written
    BY <1>1 DEF Written
  <1> QED
    BY <1>1, <1>2, <1>3 DEF ToolInv, JobOK, CompressInv, DecompressInv

(* What passes the comparison of an archive that was whole is all of it.    *)
LEMMA VerifiedMeansAll ==
    ASSUME ToolInv, pc = "verify", Verified, InputWhole
    PROVE  Written = Content(before)
  <1> DEFINE text == Content(before)
             n == Len(text)
  <1>1. /\ job.mode = "decompress" /\ InOutput /\ header = before[1] /\ pos = made + 1 /\ made \in Nat
        /\ pos <= Len(before) /\ Len(Written) = made
        /\ \A i \in 1 .. made : Written[i] = Byte(before[i + 1].val)
        /\ header.kind = "lzma" \/ (pos < Len(before) /\ before[pos + 1] = Mark)
    BY DEF ToolInv, JobOK, DecompressInv, InOutput
  <1>2. Archives(before, text) /\ before \in Seq(Parts) /\ Written \in Seq(Parts)
    BY <1>1, OpenRun DEF InputWhole
  <1>3. /\ before[1].kind \in {"lzma", "lzip"}
        /\ Len(before) = (n + 1) + TailLength(before)
        /\ \A i \in 1 .. n : before[i + 1].kind = "code"
        /\ before[n + 2] = Mark
        /\ IF before[1].kind = "lzip" THEN before[n + 3] = Footer(n, n) ELSE before[1].size = n
    BY <1>2 DEF Archives
  <1>4. /\ Len(before) \in Nat /\ TailLength(before) \in 1 .. 2
        /\ before[1].kind = "lzip" => TailLength(before) = 2
    BY <1>2, <1>3 DEF TailLength
  <1>5. text = [i \in 1 .. (Len(before) - 1) - TailLength(before) |-> Byte(before[i + 1].val)]
    BY DEF Content
  <1> DEFINE m == (Len(before) - 1) - TailLength(before)
  <1>6. n = m /\ m \in Nat
    <2>1. m \in Int
      BY <1>4
    <2>2. CASE m \in Nat
      <3>1. text = [i \in 1 .. m |-> Byte(before[i + 1].val)]
        BY <1>5
      <3> HIDE DEF m, text
      <3> QED
        BY <2>2, <3>1
    <2>3. CASE m < 0
      <3>1. 1 .. m = 1 .. 0
        BY <2>1, <2>3
      <3>2. text = [i \in 1 .. 0 |-> Byte(before[i + 1].val)]
        BY <1>5, <3>1
      <3>3. n = 0
        BY <3>2
      <3> QED
        BY <1>3, <1>4, <3>3, <2>3
    <2> QED
      BY <2>1, <2>2, <2>3
  <1>7. text = [i \in 1 .. n |-> Byte(before[i + 1].val)]
    BY <1>5, <1>6
  <1> HIDE DEF text, m
  <1>8. made = n
    <2>1. CASE before[1].kind = "lzma"
      BY <1>1, <1>3, <2>1 DEF Verified
    <2>2. CASE before[1].kind = "lzip"
      <3>1. pos < Len(before) /\ before[pos + 1].kind = "mark" /\ Len(before) = n + 3
        BY <1>1, <1>3, <1>4, <2>2 DEF Mark
      <3>2. ~ (made + 1 \in 1 .. n)
        BY <1>1, <1>3, <3>1
      <3>3. before[n + 3].kind = "footer"
        BY <1>3, <2>2 DEF Footer
      <3>4. made + 2 # n + 3
        BY <1>1, <3>1, <3>3
      <3> QED
        BY <1>1, <1>6, <3>1, <3>2, <3>4
    <2> QED
      BY <1>3, <2>1, <2>2
  <1>9. \A i \in 1 .. n : Byte(before[i + 1].val) = Written[i] /\ Byte(before[i + 1].val) \in Parts
    BY <1>1, <1>2, <1>8, ElementOfSeq
  <1>10. text \in Seq(Parts)
    BY <1>6, <1>7, <1>9, IsASeq
  <1>11. \A i \in 1 .. n : Written[i] = text[i]
    BY <1>7, <1>9
  <1>12. Written = text
    BY <1>1, <1>2, <1>8, <1>10, <1>11, SeqEqual
  <1> QED
    BY <1>12 DEF text

(* The comparison lets a whole output pass, or abandons the run.            *)
LEMMA VerifyInv ==
    ASSUME ToolInv, Verify
    PROVE  ToolInv'
  <1>1. pc = "verify" /\ InOutput /\ UNCHANGED <<job, before, opened, size, header, pos, made, faults>>
    BY DEF Verify, InOutput, locals
  <1>2. CASE Verified /\ pc' = "delete" /\ UNCHANGED <<disk, status, pending>>
    <2>1. FilesOK' /\ JobOK' /\ InputIntact'
      BY <1>1, <1>2 DEF ToolInv, FilesOK, JobOK, InputIntact, InOutput
    <2>2. Written' = Written /\ InputWhole' = InputWhole
      BY <1>1, <1>2 DEF Written, InputWhole
    <2>3. InputWhole => Written = Content(before)
      BY <1>1, <1>2, VerifiedMeansAll
    <2>4. job.mode = "decompress"
      BY <1>1 DEF ToolInv, JobOK
    <2> QED
      BY <1>1, <1>2, <2>1, <2>2, <2>3, <2>4 DEF ToolInv, CompressInv, DecompressInv
  <1>3. CASE Abandon
    <2>1. size' \in Nat
      BY <1>1 DEF ToolInv, JobOK
    <2> QED
      BY <1>1, <1>3, <2>1, AbandonInv
  <1> QED
    BY <1>2, <1>3 DEF Verify
-----------------------------------------------------------------------------
(* What happens between the steps of the tool.                              *)
LEMMA SpillInv ==
    ASSUME ToolInv, Spill
    PROVE  ToolInv'
  <1> DEFINE d == disk[job.out]
  <1>1. /\ pc # "shell" /\ pending # << >>
        /\ disk' = [disk EXCEPT ![job.out] = Append(d, pending[1])]
        /\ pending' = SubSeq(pending, 2, Len(pending))
        /\ UNCHANGED <<pc, status, job, before, opened, size, dictSize, header, pos, made, footer, faults>>
    BY DEF Spill, locals
  <1>2. InOutput
    BY <1>1 DEF ToolInv, FilesOK
  <1>3. /\ d \in Seq(Parts) /\ pending \in Seq(Parts) /\ DOMAIN disk = Names
        /\ job.out \in Names /\ job.in \in Names /\ job.in # job.out
    BY <1>2, OpenRun
  <1>4. job.out = "text" => d \in Seq(Bytes) /\ pending \in Seq(Bytes)
    BY <1>2 DEF ToolInv, FilesOK
  <1> HIDE DEF d
  <1>5. disk'[job.out] = Append(d, pending[1]) /\ disk'[job.in] = disk[job.in]
    BY <1>1, <1>3
  <1>6. /\ Append(d, pending[1]) \in Seq(Parts) /\ pending' \in Seq(Parts)
        /\ Append(d, pending[1]) \o pending' = d \o pending
    BY <1>1, <1>3, SpillPart, ZenonT(60)
  <1>7. job.out = "text" => Append(d, pending[1]) \in Seq(Bytes) /\ pending' \in Seq(Bytes)
    BY <1>1, <1>4, SpillPart
  <1>8. FilesOK'
    <2>1. disk' \in [Names -> Seq(Parts) \cup {Absent}]
      BY <1>1, <1>3, <1>6 DEF ToolInv, FilesOK
    <2>2. disk'["text"] \in Seq(Bytes) \cup {Absent}
      BY <1>1, <1>3, <1>5, <1>7 DEF ToolInv, FilesOK
    <2>3. disk'[job.out] # Absent
      BY <1>5, <1>6, AbsentIsNoFile
    <2> QED
      BY <1>1, <1>2, <1>6, <1>7, <2>1, <2>2, <2>3 DEF ToolInv, FilesOK, InOutput
  <1>9. Written' = Written
    BY <1>1, <1>5, <1>6 DEF Written, d
  <1>10. JobOK' /\ InputIntact'
    BY <1>1, <1>5 DEF ToolInv, JobOK, InputIntact, InOutput
  <1>11. CompressInv'
    BY <1>1, <1>9 DEF ToolInv, CompressInv, Coded
  <1>12. DecompressInv'
    BY <1>1, <1>9 DEF ToolInv, DecompressInv, InputWhole
  <1> QED
    BY <1>1, <1>8, <1>10, <1>11, <1>12 DEF ToolInv

(* A kill leaves what is on the disk.                                       *)
LEMMA KillInv ==
    ASSUME ToolInv, Kill
    PROVE  ToolInv'
  <1>1. /\ pc # "shell" /\ pc' = "shell" /\ status' = "killed" /\ pending' = << >>
        /\ faults' = IF pc = "exit" /\ pending # << >> THEN faults \cup {"killed"} ELSE faults
        /\ UNCHANGED <<disk, job, before, opened, size, pos, made>>
    BY DEF Kill, Exit, locals
  <1>2. FilesOK' /\ JobOK'
    BY <1>1, EmptySeq DEF ToolInv, FilesOK, JobOK, InOutput
  <1>3. InputNeverLost'
    <2> SUFFICES ASSUME InputWhole, faults' = {}, disk[job.in] # before
                 PROVE  Holds'
      BY <1>1 DEF InputNeverLost, InputWhole
    <2>1. pc = "exit" /\ InOutput /\ opened
      BY <1>1 DEF ToolInv, InputIntact, InOutput, JobOK
    <2>2. pending = << >> /\ faults = {}
      BY <1>1, <2>1
    <2>3. Written' = Written /\ disk[job.out] # Absent
      BY <1>1, <2>1, <2>2 DEF Written, ToolInv, FilesOK
    <2>4. /\ job.mode \in {"compress", "decompress"}
          /\ job.mode = "compress" => Archives(Written, before)
          /\ job.mode = "decompress" => Written = Content(before)
      BY <1>1, <2>1, <2>2 DEF ToolInv, JobOK, CompressInv, DecompressInv
    <2> QED
      BY <1>1, <2>1, <2>3, <2>4 DEF Holds, Written
  <1>4. ExitTold'
    BY <1>1 DEF ExitTold
  <1> QED
    BY <1>1, <1>2, <1>3, <1>4 DEF ToolInv, InputIntact, CompressInv, DecompressInv

(* Every step keeps the invariant.                                          *)
LEMMA StepInv == ToolInv /\ [Next]_vars => ToolInv'
  <1> SUFFICES ASSUME ToolInv, [Next]_vars PROVE ToolInv'
    OBVIOUS
  <1>1. CASE \E command \in Commands : Invoke(command)
    BY <1>1, InvokeInv
  <1>2. CASE Compressing
    BY <1>2, MeasureInputInv, WriteHeaderInv, EncodeInv, EncodeFooterInv, CloseInv DEF Compressing
  <1>3. CASE Decompressing
    BY <1>3, ReadHeaderInv, DecodeCodeInv, DecodeMarkInv, VerifyInv DEF Decompressing
  <1>4. CASE OpenFiles \/ LibraryFails \/ DeleteInput \/ End
    BY <1>4, OpenFilesInv, LibraryFailsInv, DeleteInputInv, EndInv
  <1>5. CASE Spill \/ Kill
    BY <1>5, SpillInv, KillInv
  <1>6. CASE UNCHANGED vars
    <2>1. /\ UNCHANGED <<disk, pc, status, job, before, opened, pending, faults>>
          /\ UNCHANGED <<size, dictSize, header, pos, made>>
      BY <1>6 DEF vars, locals
    <2>2. Written' = Written
      BY <2>1 DEF Written
    <2>3. FilesOK' /\ JobOK' /\ InputIntact'
      BY <2>1 DEF ToolInv, FilesOK, JobOK, InputIntact, InOutput
    <2>4. CompressInv' /\ DecompressInv'
      BY <2>1, <2>2 DEF ToolInv, CompressInv, DecompressInv, Coded, InputWhole
    <2>5. pc = "shell" => InputNeverLost' /\ ExitTold'
      BY <2>1 DEF ToolInv, InputNeverLost, ExitTold,
                  InputWhole, Holds
    <2> QED
      BY <2>1, <2>3, <2>4, <2>5 DEF ToolInv
  <1> QED
    BY <1>1, <1>2, <1>3, <1>4, <1>5, <1>6 DEF Next, Running

(* So it always holds.                                                      *)
LEMMA ToolIsSafe == Spec => []ToolInv
  BY InitInv, StepInv, PTL DEF Spec

(* While the tool runs, too, and so wherever it is killed, the data are in  *)
(* the input or in the output: doCompress and doDecompress delete the input *)
(* only when fwrite has taken all that it held.                             *)
THEOREM DataNeverLost == Spec => []InputNeverLost
  <1>1. ToolInv => InputNeverLost
    <2> SUFFICES ASSUME ToolInv, InputWhole, faults = {}, disk[job.in] # before, pc # "shell"
                 PROVE  Holds
      BY DEF ToolInv, InputNeverLost
    <2>1. pc = "exit" /\ InOutput
      BY DEF ToolInv, InputIntact, InOutput
    <2>2. /\ job.mode \in {"compress", "decompress"} /\ opened /\ disk[job.out] # Absent
          /\ job.mode = "compress" => Archives(Written, before)
          /\ job.mode = "decompress" => Written = Content(before)
      BY <2>1 DEF ToolInv, FilesOK, JobOK, CompressInv, DecompressInv
    <2> QED
      BY <2>2 DEF Holds, Written
  <1> QED
    BY <1>1, ToolIsSafe, PTL
-----------------------------------------------------------------------------
(* What an archive is made from.  Every part of it, wherever its writing    *)
(* stopped, says something of the text it was made from: the header of the  *)
(* .lzma format and the footer of .lzip its length, a code a byte.          *)
PartOf(part, i, text) ==
    /\ part.kind \in {"lzma", "footer"} => part.size = Len(text)
    /\ part.kind = "code" => i - 1 \in 1 .. Len(text) /\ Byte(part.val) = text[i - 1]

MadeFrom(a, text) ==
    Len(text) < SizeWord => \A i \in 1 .. Len(a) : PartOf(a[i], i, text)

ArchiveNames == Names \ {"text"}

OriginOK ==
    /\ origin \in [Names -> Seq(Parts)]
    /\ \A name \in ArchiveNames : MadeFrom(disk[name], origin[name])

CompressOrigin ==
    job.mode = "compress" /\ InOutput =>
        /\ origin[job.out] = before
        /\ MadeFrom(Written, before)
        /\ pc # "measure" /\ Len(before) < SizeWord => size = Len(before)

DecompressOrigin ==
    job.mode = "decompress" =>
        /\ job.format \in {"lzma", "lzip"}
        /\ pc \in {"decode", "verify"} => header.kind = job.format
        /\ pc # "shell" => MadeFrom(before, origin[job.in])
        /\ pc \in {"header", "decode"} => footer = NoFooter
        /\ pc \in {"decode", "verify"} => \A i \in 1 .. made : before[i + 1].kind = "code"
        /\ pc = "verify" => footer \in {NoFooter} \cup {before[i] : i \in 1 .. Len(before)}
        /\ pc \in {"delete", "exit"} /\ Len(origin[job.in]) < SizeWord =>
            Written \in {origin[job.in], << >>}

ExitWhole ==
    pc = "shell" /\ status = "0" /\ "flush" \notin faults /\ job.mode # "compress"
        /\ Len(origin[job.in]) < SizeWord =>
            disk[job.out] \in {origin[job.in], << >>}

OriginInv == OriginOK /\ CompressOrigin /\ DecompressOrigin /\ ExitWhole

(* A part of an archive is made from the same text.                         *)
LEMMA PrefixMade ==
    ASSUME NEW text, NEW d \in Seq(Parts), NEW w \in Seq(Parts), NEW n \in 0 .. Len(w),
           MadeFrom(d \o w, text)
    PROVE  MadeFrom(d \o SubSeq(w, 1, n), text)
  <1> DEFINE s == SubSeq(w, 1, n)
  <1>1. s \in Seq(Parts) /\ Len(s) = n /\ \A i \in 1 .. n : s[i] = w[i]
    BY SubSeqProperties
  <1> HIDE DEF s
  <1>2. /\ Len(d \o w) = Len(d) + Len(w)
        /\ \A i \in 1 .. Len(d) + Len(w) :
            (d \o w)[i] = IF i <= Len(d) THEN d[i] ELSE w[i - Len(d)]
    BY ConcatProperties
  <1>3. /\ Len(d \o s) = Len(d) + Len(s)
        /\ \A i \in 1 .. Len(d) + Len(s) :
            (d \o s)[i] = IF i <= Len(d) THEN d[i] ELSE s[i - Len(d)]
    BY <1>1, ConcatProperties
  <1>4. Len(d) \in Nat /\ Len(w) \in Nat /\ n <= Len(w) /\ n \in Nat
    OBVIOUS
  <1>5. \A i \in 1 .. Len(d \o s) : i \in 1 .. Len(d \o w) /\ (d \o s)[i] = (d \o w)[i]
    BY <1>1, <1>2, <1>3, <1>4
  <1>6. MadeFrom(d \o s, text)
    BY <1>5 DEF MadeFrom
  <1> QED
    BY <1>6 DEF s

(* An empty file is made from any text.                                     *)
LEMMA NothingMade == \A text : MadeFrom(<< >>, text)
  BY DEF MadeFrom

(* So is no file at all.                                                    *)
LEMMA AbsentMade == \A text : MadeFrom(Absent, text)
  <1>1. Len(Absent) = 1 /\ Absent[1].kind = "no such file"
    BY DEF Absent
  <1>2. \A i \in 1 .. Len(Absent) : i = 1
    <2> DEFINE n == Len(Absent)
    <2>1. n = 1
      BY <1>1
    <2> HIDE DEF n
    <2>2. \A i \in 1 .. n : i = 1
      BY <2>1
    <2> QED
      BY <2>2 DEF n
  <1>3. \A text : PartOf(Absent[1], 1, text)
    BY <1>1 DEF PartOf
  <1> SUFFICES ASSUME NEW text, NEW i \in 1 .. Len(Absent)
               PROVE  PartOf(Absent[i], i, text)
    BY DEF MadeFrom
  <1>4. i = 1
    BY <1>2
  <1> QED
    BY <1>3, <1>4

(* A part more, and the archive is still made from its text.                *)
LEMMA PutMade ==
    ASSUME ToolInv, InOutput, NEW part \in Parts, Put(part), UNCHANGED <<disk, job>>,
           NEW text, MadeFrom(Written, text), PartOf(part, Len(Written) + 1, text)
    PROVE  MadeFrom(Written', text)
  <1>1. disk[job.out] \in Seq(Parts) /\ pending \in Seq(Parts) /\ Written \in Seq(Parts)
    BY OpenRun
  <1> DEFINE d == disk[job.out]
  <1>2. Written = d \o pending /\ Written' = d \o Append(pending, part)
    BY DEF Written, Put
  <1>3. d \in Seq(Parts)
    BY <1>1
  <1> HIDE DEF d
  <1>4. /\ Len(Written') = Len(Written) + 1
        /\ \A i \in 1 .. Len(Written) : Written'[i] = Written[i]
        /\ Written'[Len(Written) + 1] = part
    BY <1>1, <1>2, <1>3, PutPart
  <1>5. Len(Written) \in Nat
    BY <1>1
  <1> QED
    BY <1>4, <1>5 DEF MadeFrom

(* What happens to the archives when what is pending is written, or not.    *)
LEMMA FlushOrigin ==
    ASSUME ToolInv, OriginInv, InOutput, origin' = origin, job' = job,
           job.mode = "compress" => MadeFrom(Written, before),
           NEW n \in 0 .. Len(pending),
           disk' = [disk EXCEPT ![job.out] = @ \o SubSeq(pending, 1, n)]
    PROVE  OriginOK' /\ (job.mode = "compress" => MadeFrom(disk'[job.out], before))
  <1>1. /\ disk[job.out] \in Seq(Parts) /\ pending \in Seq(Parts) /\ DOMAIN disk = Names
        /\ job.out \in Names /\ Written = disk[job.out] \o pending
    BY OpenRun DEF Written
  <1>2. disk'[job.out] = disk[job.out] \o SubSeq(pending, 1, n)
    BY <1>1
  <1>3. job.mode = "compress" => MadeFrom(disk'[job.out], before)
    <2>1. job.mode = "compress" => MadeFrom(disk[job.out] \o pending, before)
      BY <1>1
    <2> QED
      BY <1>1, <1>2, <2>1, PrefixMade
  <1>4. ASSUME NEW name \in ArchiveNames
        PROVE  MadeFrom(disk'[name], origin'[name])
    <2>1. CASE name # job.out
      BY <1>1, <2>1 DEF OriginInv, OriginOK, ArchiveNames
    <2>2. CASE name = job.out
      <3>1. job.mode = "compress"
        BY <2>2 DEF ArchiveNames, ToolInv, JobOK, InOutput
      <3> QED
        BY <1>3, <2>2, <3>1 DEF OriginInv, CompressOrigin
    <2> QED
      BY <2>1, <2>2
  <1> QED
    BY <1>3, <1>4 DEF OriginInv, OriginOK

(* At first no archive is there.                                            *)
LEMMA OriginInit == Init => OriginInv
  <1> SUFFICES ASSUME Init PROVE OriginInv
    OBVIOUS
  <1>1. PICK n \in Lengths :
            /\ disk = [name \in Names |-> IF name = "text" THEN Text(n) ELSE Absent]
            /\ origin = [name \in Names |-> Text(n)]
    BY DEF Init
  <1>2. n \in Nat
    BY ToolAssumption
  <1>3. Text(n) \in Seq(Parts)
    <2>1. \A i \in 1 .. n : Byte(i) \in Parts
      BY <1>2 DEF Byte, Bytes, Parts
    <2> QED
      BY <1>2, <2>1, IsASeq DEF Text
  <1>4. OriginOK
    BY <1>1, <1>3, AbsentMade DEF OriginOK, ArchiveNames
  <1> QED
    BY <1>4 DEF Init, NoJob, OriginInv, CompressOrigin, DecompressOrigin, ExitWhole, InOutput

(* A failure takes the output away or leaves a part of it.                  *)
LEMMA AbandonOrigin ==
    ASSUME ToolInv, OriginInv, InOutput, Abandon, UNCHANGED <<job, before, origin>>
    PROVE  OriginInv'
  <1>1. pc' = "shell" /\ status' = "1"
    BY DEF Abandon, Exit
  <1>2. OriginOK'
    <2>1. CASE disk' = [disk EXCEPT ![job.out] = Absent]
      <3>1. \A name \in Names : disk'[name] \in {disk[name], Absent}
        BY <2>1, OpenRun
      <3> QED
        BY <3>1, AbsentMade DEF OriginInv, OriginOK, ArchiveNames
    <2>2. CASE OutputStays
      <3>1. PICK n \in 0 .. Len(pending) :
              disk' = [disk EXCEPT ![job.out] = @ \o SubSeq(pending, 1, n)]
        BY <2>2 DEF OutputStays
      <3>2. job.mode = "compress" => MadeFrom(Written, before)
        BY DEF OriginInv, CompressOrigin
      <3> QED
        BY <3>1, <3>2, FlushOrigin
    <2> QED
      BY <2>1, <2>2 DEF Abandon
  <1> QED
    BY <1>1, <1>2 DEF OriginInv, CompressOrigin, DecompressOrigin, ExitWhole, InOutput

(* A command changes no file; what its input was made from is known.        *)
LEMMA InvokeOrigin ==
    ASSUME ToolInv, OriginInv, NEW command \in Commands, Invoke(command)
    PROVE  OriginInv'
  <1>1. /\ disk' = disk /\ origin' = origin /\ before' = disk[job'.in]
        /\ \/ pc' = "open" /\ status' = "none"
           \/ pc' = "shell" /\ status' = "1" /\ job' = NoJob
    BY DEF Invoke, Exit
  <1>2. job'.mode = "decompress" => job'.in \in ArchiveNames /\ job'.format \in {"lzma", "lzip"}
    <2> DEFINE argv == command.argv
               compress == Mode(command) = "compress" /\ ParsedArgs(argv, CompressFlags)
               decompress == /\ Mode(command) = "decompress"
                             /\ ParsedArgs(argv, DecompressFlags)
                             /\ argv[Len(argv)].arg # "text"
    <2>1. job' = IF compress THEN CompressJob(argv)
                 ELSE IF decompress THEN DecompressJob(argv) ELSE NoJob
      BY DEF Invoke
    <2>2. decompress => argv[Len(argv)].arg \in ArchiveNames
      BY DEF ParsedArgs, ArchiveNames
    <2> HIDE DEF compress, decompress
    <2> QED
      BY <2>1, <2>2 DEF CompressJob, DecompressJob, NoJob
  <1>3. OriginOK'
    BY <1>1 DEF OriginInv, OriginOK
  <1>4. CompressOrigin' /\ ExitWhole'
    BY <1>1 DEF CompressOrigin, ExitWhole, InOutput
  <1>5. DecompressOrigin'
    BY <1>1, <1>2 DEF OriginInv, OriginOK, DecompressOrigin
  <1> QED
    BY <1>3, <1>4, <1>5 DEF OriginInv

(* A new archive is made from the input, and begins with nothing of it.     *)
LEMMA OpenFilesOrigin ==
    ASSUME ToolInv, OriginInv, OpenFiles
    PROVE  OriginInv'
  <1>1. /\ pc = "open" /\ job.in # job.out /\ job.in \in Names /\ job.out \in Names
        /\ DOMAIN disk = Names /\ job' = job /\ before' = before /\ disk[job.in] = before
        /\ footer' = NoFooter /\ pending' = << >>
        /\ job.mode \in {"compress", "decompress"}
    BY DEF OpenFiles, ToolInv, FilesOK, JobOK, InputIntact
  <1>2. CASE Exit("1") /\ UNCHANGED <<disk, origin>>
    BY <1>1, <1>2 DEF OriginInv, OriginOK, CompressOrigin, DecompressOrigin, ExitWhole, InOutput, Exit
  <1>3. CASE /\ disk[job.in] # Absent
             /\ disk' = [disk EXCEPT ![job.out] = << >>]
             /\ origin' = IF job.mode = "compress" THEN [origin EXCEPT ![job.out] = before]
                          ELSE origin
             /\ pc' = IF job.mode = "compress" THEN "measure" ELSE "header"
    <2>1. before \in Seq(Parts)
      BY <1>1, <1>3 DEF ToolInv, FilesOK
    <2>2. origin' \in [Names -> Seq(Parts)]
      BY <1>1, <1>3, <2>1 DEF OriginInv, OriginOK
    <2>3. ASSUME NEW name \in ArchiveNames
          PROVE  MadeFrom(disk'[name], origin'[name])
      <3>1. CASE name = job.out
        BY <1>1, <1>3, <3>1, NothingMade
      <3>2. CASE name # job.out
        <4>1. disk'[name] = disk[name] /\ origin'[name] = origin[name]
          BY <1>1, <1>3, <3>2 DEF OriginInv, OriginOK, ArchiveNames
        <4> QED
          BY <4>1 DEF OriginInv, OriginOK
      <3> QED
        BY <3>1, <3>2
    <2>4. Written' = << >>
      <3>1. disk'[job.out] = << >>
        BY <1>1, <1>3
      <3>2. << >> \o << >> = << >>
        BY EmptySeq, ConcatEmptySeq
      <3> QED
        BY <1>1, <3>1, <3>2 DEF Written
    <2>5. CompressOrigin'
      <3>1. job.mode = "compress" => origin'[job.out] = before
        BY <1>1, <1>3 DEF OriginInv, OriginOK
      <3> QED
        BY <1>1, <1>3, <2>4, <3>1, NothingMade DEF CompressOrigin
    <2>6. DecompressOrigin'
      BY <1>1, <1>3 DEF OriginInv, DecompressOrigin
    <2> QED
      BY <1>3, <2>2, <2>3, <2>5, <2>6 DEF OriginInv, OriginOK, ExitWhole
  <1> QED
    BY <1>2, <1>3 DEF OpenFiles

(* What is put into an archive says something of its text.                  *)
LEMMA CompressingOrigin ==
    ASSUME ToolInv, OriginInv, MeasureInput \/ WriteHeader \/ Encode \/ EncodeFooter
    PROVE  OriginInv'
  <1>1. /\ InOutput /\ pc # "shell" /\ job.mode = "compress" /\ UNCHANGED <<job, before, origin>>
        /\ origin[job.out] = before /\ MadeFrom(Written, before)
        /\ before \in Seq(Parts) /\ Len(before) \in Nat
    <2>1. InOutput /\ pc # "shell" /\ job.mode = "compress" /\ UNCHANGED <<job, before, origin>>
      BY DEF MeasureInput, WriteHeader, Encode, EncodeFooter, InOutput, ToolInv, JobOK
    <2> QED
      BY <2>1, OpenRun DEF OriginInv, CompressOrigin
  <1>2. ASSUME disk' = disk, pc' \notin {"shell", "open", "measure"}, MadeFrom(Written', before),
               Len(before) < SizeWord => size' = Len(before)
        PROVE  OriginInv'
    BY <1>1, <1>2 DEF OriginInv, OriginOK, CompressOrigin, DecompressOrigin, ExitWhole, InOutput
  <1>3. CASE MeasureInput
    <2>1. CASE Abandon
      BY <1>1, <2>1, AbandonOrigin
    <2>2. CASE pc' = "header" /\ UNCHANGED <<disk, pending>>
      <3>1. size' = Len(before) % SizeWord
        BY <1>3 DEF MeasureInput, LengthRead
      <3>2. Len(before) < SizeWord => size' = Len(before)
        BY <1>1, <3>1, ToolAssumption
      <3>3. Written' = Written
        BY <1>1, <2>2 DEF Written
      <3> QED
        BY <1>1, <1>2, <2>2, <3>2, <3>3
    <2> QED
      BY <1>3, <2>1, <2>2 DEF MeasureInput
  <1>4. CASE WriteHeader
    <2>1. /\ pc = "header" /\ disk' = disk /\ pc' = "encode" /\ size' = size /\ Put(header')
          /\ header' = Header(job.format, dictSize, size)
      BY <1>4 DEF WriteHeader
    <2>2. /\ dictSize \in DictSizes /\ size \in Nat
          /\ Len(before) < SizeWord => size = Len(before)
      BY <1>1, <2>1 DEF ToolInv, JobOK, CompressInv, OriginInv, CompressOrigin
    <2>3. header' \in Headers /\ header' \in Parts
      BY <2>1, <2>2, HeaderReadsBack DEF Parts
    <2>4. header'.kind \in {"lzma", "lzip"} /\ (header'.kind = "lzma" => header'.size = size)
      BY <2>1, <2>2, HeaderReadsBack
    <2>5. Len(before) < SizeWord => PartOf(header', Len(Written) + 1, before)
      BY <2>2, <2>4 DEF PartOf
    <2>6. MadeFrom(Written', before)
      <3>1. CASE Len(before) < SizeWord
        BY <1>1, <2>1, <2>3, <2>5, <3>1, PutMade
      <3>2. CASE ~ (Len(before) < SizeWord)
        BY <3>2 DEF MadeFrom
      <3> QED
        BY <3>1, <3>2
    <2> QED
      BY <1>1, <1>2, <2>1, <2>2, <2>6
  <1>5. CASE Encode
    <2>1. /\ pc = "encode" /\ disk' = disk /\ size' = size
          /\ Len(before) < SizeWord => size = Len(before)
          /\ Len(Written) = pos + 1 /\ pos \in Nat /\ dictSize \in DictSizes
      BY <1>1, <1>5 DEF Encode, ToolInv, JobOK, CompressInv, OriginInv, CompressOrigin
    <2>2. CASE /\ pos < Len(before) /\ pos' = pos + 1
               /\ Put(Code(before[pos'], Smaller(pos, dictSize)))
               /\ pc' = pc
      <3> DEFINE part == Code(before[pos'], Smaller(pos, dictSize))
      <3>1. pos' \in 1 .. Len(before)
        BY <1>1, <2>1, <2>2
      <3>2. before[pos'] \in Bytes /\ before[pos'] = Byte(before[pos'].val)
        BY <1>1, <3>1, TextOfBytes
      <3>3. dictSize \in Nat
        BY <2>1, WindowHolds
      <3>4. part \in Parts
        BY <2>1, <3>2, <3>3 DEF Parts, Bytes, Codes, Code, Smaller
      <3>5. PartOf(part, Len(Written) + 1, before)
        <4>1. part.kind = "code" /\ Byte(part.val) = before[pos']
          BY <3>2 DEF Code
        <4>2. (Len(Written) + 1) - 1 = pos'
          BY <2>1, <2>2
        <4> HIDE DEF part
        <4> QED
          BY <3>1, <4>1, <4>2 DEF PartOf
      <3> HIDE DEF part
      <3>6. MadeFrom(Written', before)
        BY <1>1, <2>1, <2>2, <3>4, <3>5, PutMade DEF part
      <3> QED
        BY <1>1, <1>2, <2>1, <2>2, <3>6
    <2>3. CASE /\ Put(Mark)
               /\ pc' = IF job.format = "lzip" THEN "encode_footer" ELSE "close"
      <3>1. Mark \in Parts /\ PartOf(Mark, Len(Written) + 1, before)
        BY DEF Parts, Mark, PartOf
      <3>2. MadeFrom(Written', before)
        BY <1>1, <2>1, <2>3, <3>1, PutMade
      <3> QED
        BY <1>1, <1>2, <2>1, <2>3, <3>2
    <2> QED
      BY <1>5, <2>2, <2>3 DEF Encode
  <1>6. CASE EncodeFooter
    <2>1. /\ pc = "encode_footer" /\ disk' = disk /\ pc' = "close" /\ size' = size
          /\ Put(Footer(pos, size)) /\ pos \in Nat /\ size \in Nat
          /\ Len(before) < SizeWord => size = Len(before)
      BY <1>1, <1>6 DEF EncodeFooter, ToolInv, JobOK, OriginInv, CompressOrigin, locals
    <2>2. Footer(pos, size) \in Parts
      BY <2>1 DEF Footer, Footers, Parts
    <2>3. Len(before) < SizeWord => PartOf(Footer(pos, size), Len(Written) + 1, before)
      BY <2>1 DEF PartOf, Footer
    <2>4. MadeFrom(Written', before)
      <3>1. CASE Len(before) < SizeWord
        BY <1>1, <2>1, <2>2, <2>3, <3>1, PutMade
      <3>2. CASE ~ (Len(before) < SizeWord)
        BY <3>2 DEF MadeFrom
      <3> QED
        BY <3>1, <3>2
    <2> QED
      BY <1>1, <1>2, <2>1, <2>4
  <1> QED
    BY <1>3, <1>4, <1>5, <1>6

(* The input may be deleted, and what is pending may be lost in part.       *)
LEMMA EndingOrigin ==
    ASSUME ToolInv, OriginInv, Close \/ DeleteInput \/ End
    PROVE  OriginInv'
  <1>1. InOutput /\ UNCHANGED <<job, before, origin, size>>
    BY DEF Close, DeleteInput, End, InOutput, locals
  <1>2. /\ job.mode = "compress" => MadeFrom(Written, before) /\ origin[job.out] = before
        /\ job.mode \in {"compress", "decompress"}
    BY <1>1 DEF OriginInv, CompressOrigin, ToolInv, JobOK, InOutput
  <1>3. CASE Close
    <2>1. pc = "close" /\ pc' = "delete" /\ Flush /\ pending' = << >> /\ job.mode = "compress"
      BY <1>3 DEF Close, Flush, ToolInv, JobOK
    <2>2. PICK n \in 0 .. Len(pending) :
            disk' = [disk EXCEPT ![job.out] = @ \o SubSeq(pending, 1, n)]
      BY <2>1 DEF Flush
    <2>3. OriginOK' /\ MadeFrom(disk'[job.out], before)
      BY <1>1, <1>2, <2>1, <2>2, FlushOrigin
    <2>4. Written' = disk'[job.out]
      <3>1. disk'[job.out] \in Seq(Parts)
        BY <1>1, <2>1, <2>2, OutputWritten
      <3> QED
        BY <1>1, <2>1, <3>1, ConcatEmptySeq DEF Written
    <2>5. Len(before) < SizeWord => size' = Len(before)
      BY <1>1, <2>1 DEF OriginInv, CompressOrigin
    <2> QED
      BY <1>1, <1>2, <2>1, <2>3, <2>4, <2>5
      DEF OriginInv, CompressOrigin, DecompressOrigin, ExitWhole
  <1>4. CASE DeleteInput
    <2>1. /\ pc = "delete" /\ pc' = "exit" /\ pending' = pending
          /\ disk' \in {disk, [disk EXCEPT ![job.in] = Absent]}
      BY <1>4 DEF DeleteInput
    <2>2. Written' = Written
      BY <1>1, <2>1, OpenRun DEF Written
    <2>3. \A name \in Names : disk'[name] \in {disk[name], Absent}
      BY <1>1, <2>1, OpenRun
    <2>4. OriginOK'
      BY <1>1, <2>3, AbsentMade DEF OriginInv, OriginOK, ArchiveNames
    <2> QED
      BY <1>1, <1>2, <2>1, <2>2, <2>4
      DEF OriginInv, CompressOrigin, DecompressOrigin, ExitWhole, InOutput
  <1>5. CASE End
    <2>1. pc = "exit" /\ pc' = "shell" /\ Flush
      BY <1>5 DEF End, Exit
    <2>2. PICK n \in 0 .. Len(pending) :
            disk' = [disk EXCEPT ![job.out] = @ \o SubSeq(pending, 1, n)]
      BY <2>1 DEF Flush
    <2>3. OriginOK'
      BY <1>1, <1>2, <2>2, FlushOrigin
    <2>4. "flush" \notin faults' => disk'[job.out] = Written
      BY <1>1, <2>1, FlushInv
    <2>5. job.mode = "decompress" /\ Len(origin[job.in]) < SizeWord =>
            Written \in {origin[job.in], << >>}
      BY <2>1 DEF OriginInv, DecompressOrigin
    <2>6. ExitWhole'
      BY <1>1, <1>2, <2>4, <2>5 DEF ExitWhole
    <2>7. DecompressOrigin'
      BY <1>1, <2>1 DEF OriginInv, DecompressOrigin
    <2> QED
      BY <2>1, <2>3, <2>6, <2>7 DEF OriginInv, CompressOrigin, InOutput
  <1> QED
    BY <1>3, <1>4, <1>5

(* What passes the comparison is all of the text, or nothing.               *)
LEMMA VerifiedMeansText ==
    ASSUME ToolInv, OriginInv, pc = "verify", Verified, Len(origin[job.in]) < SizeWord
    PROVE  Written \in {origin[job.in], << >>}
  <1> DEFINE text == origin[job.in]
  <1>1. /\ job.mode = "decompress" /\ InOutput /\ header = before[1] /\ made \in Nat
        /\ made + 1 <= Len(before) /\ Len(Written) = made
        /\ \A i \in 1 .. made : Written[i] = Byte(before[i + 1].val)
    BY DEF ToolInv, JobOK, DecompressInv, InOutput
  <1>2. /\ before \in Seq(Parts) /\ Written \in Seq(Parts) /\ Len(before) \in Nat
        /\ job.in \in Names
    BY <1>1, OpenRun
  <1>3. text \in Seq(Parts) /\ Len(text) \in Nat
    BY <1>2 DEF OriginInv, OriginOK
  <1>4. /\ \A i \in 1 .. Len(before) : PartOf(before[i], i, text)
        /\ \A i \in 1 .. made : before[i + 1].kind = "code"
        /\ footer \in {NoFooter} \cup {before[i] : i \in 1 .. Len(before)}
    BY <1>1 DEF OriginInv, DecompressOrigin, MadeFrom
  <1>5. ASSUME NEW i \in 1 .. made
        PROVE  i \in 1 .. Len(text) /\ Written[i] = text[i]
    <2>1. i + 1 \in 1 .. Len(before) /\ (i + 1) - 1 = i
      BY <1>1, <1>2
    <2>2. PartOf(before[i + 1], i + 1, text) /\ before[i + 1].kind = "code"
      BY <1>4, <2>1
    <2> HIDE DEF text
    <2> QED
      BY <1>1, <2>1, <2>2 DEF PartOf
  <1>6. made = Len(text) \/ made = 0
    <2>1. CASE header.kind = "lzip"
      <3>1. footer = Footer(made, made)
        BY <2>1 DEF Verified
      <3>2. CASE footer = NoFooter
        BY <3>1, <3>2 DEF NoFooter, Footer
      <3>3. CASE footer # NoFooter
        <4>1. PICK i \in 1 .. Len(before) : footer = before[i]
          BY <1>4, <3>3
        <4>2. footer.kind = "footer" /\ footer.size = made
          BY <3>1 DEF Footer
        <4> HIDE DEF text
        <4> QED
          BY <1>4, <4>1, <4>2 DEF PartOf
      <3> QED
        BY <3>2, <3>3
    <2>2. CASE header.kind # "lzip"
      <3>1. made = header.size
        BY <2>2 DEF Verified
      <3>2. 1 \in 1 .. Len(before)
        BY <1>1, <1>2
      <3>3. header.kind = "lzma"
        BY <1>1, <2>2 DEF OriginInv, DecompressOrigin
      <3> HIDE DEF text
      <3> QED
        BY <1>1, <1>4, <3>1, <3>2, <3>3 DEF PartOf
    <2> QED
      BY <2>1, <2>2
  <1>7. CASE made = 0
    BY <1>1, <1>2, <1>7, EmptySeq
  <1>8. CASE made = Len(text)
    <2>1. Len(Written) = Len(text) /\ \A i \in 1 .. Len(Written) : Written[i] = text[i]
      BY <1>1, <1>5, <1>8
    <2> HIDE DEF text
    <2>2. Written = text
      BY <1>2, <1>3, <2>1, SeqEqual
    <2> QED
      BY <2>2 DEF text
  <1> QED
    BY <1>6, <1>7, <1>8

(* What is read of an archive is what was put there.                        *)
LEMMA DecompressingOrigin ==
    ASSUME ToolInv, OriginInv, Decompressing
    PROVE  OriginInv'
  <1>1. /\ InOutput /\ job.mode = "decompress" /\ UNCHANGED <<job, before, origin>>
        /\ job.in \in Names /\ job.out \in Names
    <2>1. InOutput /\ job.mode = "decompress" /\ UNCHANGED <<job, before, origin>>
      BY DEF Decompressing, ReadHeader, DecodeCode, DecodeMark, Verify, InOutput, ToolInv, JobOK
    <2> QED
      BY <2>1, OpenRun
  <1>2. ASSUME disk' = disk, pc' \in {"decode", "verify"}, header'.kind = job.format,
               \A i \in 1 .. made' : before[i + 1].kind = "code",
               pc' = "decode" => footer' = NoFooter,
               footer' \in {NoFooter} \cup {before[i] : i \in 1 .. Len(before)}
        PROVE  OriginInv'
    <2>1. OriginOK'
      BY <1>1, <1>2 DEF OriginInv, OriginOK
    <2>2. MadeFrom(before, origin[job.in])
      BY <1>1 DEF OriginInv, DecompressOrigin, InOutput
    <2> QED
      BY <1>1, <1>2, <2>1, <2>2
      DEF OriginInv, CompressOrigin, DecompressOrigin, ExitWhole
  <1>3. CASE ReadHeader
    <2>1. /\ pc = "header" /\ disk' = disk /\ pc' = "decode" /\ made' = made /\ footer' = footer
          /\ header' = before[1] /\ before[1].kind = job.format
      BY <1>3 DEF ReadHeader
    <2>2. footer = NoFooter /\ made = 0
      BY <1>1, <2>1 DEF OriginInv, DecompressOrigin, ToolInv, DecompressInv
    <2> QED
      BY <1>2, <2>1, <2>2
  <1>4. CASE DecodeCode
    <2>1. /\ pc = "decode" /\ disk' = disk /\ pc' \in {"decode", "verify"} /\ made' = made + 1
          /\ footer' = footer /\ header' = header /\ before[pos + 1].kind = "code"
      BY <1>4 DEF DecodeCode
    <2>2. /\ footer = NoFooter /\ header.kind = job.format /\ pos = made + 1 /\ made \in Nat
          /\ \A i \in 1 .. made : before[i + 1].kind = "code"
      BY <1>1, <2>1 DEF OriginInv, DecompressOrigin, ToolInv, JobOK, DecompressInv
    <2>3. \A i \in 1 .. made' : i \in 1 .. made \/ i + 1 = pos + 1
      BY <2>1, <2>2
    <2>4. \A i \in 1 .. made' : before[i + 1].kind = "code"
      BY <2>1, <2>2, <2>3
    <2> QED
      BY <1>2, <2>1, <2>2, <2>4
  <1>5. CASE DecodeMark
    <2>1. /\ pc = "decode" /\ disk' = disk /\ pc' = "verify" /\ made' = made /\ header' = header
          /\ footer' = footer \/ (pos + 2 <= Len(before) /\ footer' = before[pos + 2])
      BY <1>5 DEF DecodeMark
    <2>2. /\ footer = NoFooter /\ header.kind = job.format /\ pos \in Nat
          /\ \A i \in 1 .. made : before[i + 1].kind = "code"
      BY <1>1, <2>1 DEF OriginInv, DecompressOrigin, ToolInv, JobOK
    <2>3. Len(before) \in Nat
      BY <1>1, OpenRun
    <2>4. footer' \in {NoFooter} \cup {before[i] : i \in 1 .. Len(before)}
      <3>1. CASE footer' = footer
        BY <2>2, <3>1
      <3>2. CASE pos + 2 <= Len(before) /\ footer' = before[pos + 2]
        <4>1. pos + 2 \in 1 .. Len(before)
          BY <2>2, <2>3, <3>2
        <4> QED
          BY <3>2, <4>1
      <3> QED
        BY <2>1, <3>1, <3>2
    <2> QED
      BY <1>2, <2>1, <2>2, <2>4
  <1>6. CASE Verify
    <2>1. CASE Abandon
      BY <1>1, <2>1, AbandonOrigin
    <2>2. CASE pc = "verify" /\ Verified /\ pc' = "delete" /\ UNCHANGED <<disk, pending>>
      <3>1. Written' = Written
        BY <1>1, <2>2 DEF Written
      <3>2. Len(origin[job.in]) < SizeWord => Written \in {origin[job.in], << >>}
        BY <2>2, VerifiedMeansText
      <3>3. OriginOK'
        BY <1>1, <2>2 DEF OriginInv, OriginOK
      <3>4. MadeFrom(before, origin[job.in]) /\ job.format \in {"lzma", "lzip"}
        BY <1>1, <2>2 DEF OriginInv, DecompressOrigin
      <3> QED
        BY <1>1, <2>2, <3>1, <3>2, <3>3, <3>4
        DEF OriginInv, CompressOrigin, DecompressOrigin, ExitWhole
    <2> QED
      BY <1>6, <2>1, <2>2 DEF Verify
  <1> QED
    BY <1>3, <1>4, <1>5, <1>6 DEF Decompressing

(* What is pending may reach the disk at any time.                          *)
LEMMA SpillOrigin ==
    ASSUME ToolInv, OriginInv, Spill
    PROVE  OriginInv'
  <1>1. /\ pc # "shell" /\ pending # << >>
        /\ disk' = [disk EXCEPT ![job.out] = Append(@, pending[1])]
        /\ pending' = SubSeq(pending, 2, Len(pending))
        /\ UNCHANGED <<pc, status, job, before, size, header, made, footer, faults, origin>>
    BY DEF Spill, locals
  <1>2. InOutput
    BY <1>1 DEF ToolInv, FilesOK
  <1>3. /\ disk[job.out] \in Seq(Parts) /\ pending \in Seq(Parts) /\ DOMAIN disk = Names
        /\ job.out \in Names /\ Len(pending) \in Nat
    BY <1>2, OpenRun
  <1> DEFINE d == disk[job.out]
  <1>4. Written' = Written
    <2>1. Written' = Append(d, pending[1]) \o SubSeq(pending, 2, Len(pending)) /\ Written = d \o pending
      BY <1>1, <1>3 DEF Written
    <2>2. d \in Seq(Parts)
      BY <1>3
    <2> HIDE DEF d
    <2>3. Append(d, pending[1]) \o SubSeq(pending, 2, Len(pending)) = d \o pending
      BY <1>1, <1>3, <2>2, SpillPart
    <2> QED
      BY <2>1, <2>3
  <1>5. disk' = [disk EXCEPT ![job.out] = @ \o SubSeq(pending, 1, 1)] /\ 1 \in 0 .. Len(pending)
    <2>1. Len(pending) >= 1 /\ pending[1] \in Parts
      BY <1>1, <1>3
    <2>2. SubSeq(pending, 1, 1) = <<pending[1]>>
      <3> DEFINE one == SubSeq(pending, 1, 1)
      <3>1. \A i \in 1 .. 1 : pending[i] \in Parts
        BY <2>1
      <3>2. one \in Seq(Parts) /\ Len(one) = 1 /\ \A i \in 1 .. 1 : one[i] = pending[(1 + i) - 1]
        BY <3>1, SubSeqProperties
      <3> HIDE DEF one
      <3>3. one[1] = pending[1]
        BY <3>2
      <3>4. <<pending[1]>> \in Seq(Parts) /\ Len(<<pending[1]>>) = 1
        BY <2>1
      <3>5. one = <<pending[1]>>
        BY <3>2, <3>3, <3>4, SeqEqual
      <3> QED
        BY <3>5 DEF one
    <2>3. d \in Seq(Parts)
      BY <1>3
    <2>4. disk' = [disk EXCEPT ![job.out] = Append(d, pending[1])]
      BY <1>1
    <2>5. [disk EXCEPT ![job.out] = @ \o SubSeq(pending, 1, 1)]
            = [disk EXCEPT ![job.out] = d \o <<pending[1]>>]
      BY <2>2
    <2> HIDE DEF d
    <2>6. Append(d, pending[1]) = d \o <<pending[1]>>
      BY <2>1, <2>3, AppendIsConcat
    <2> QED
      BY <2>1, <2>4, <2>5, <2>6
  <1>6. job.mode = "compress" => MadeFrom(Written, before)
    BY <1>2 DEF OriginInv, CompressOrigin
  <1>7. OriginOK'
    BY <1>1, <1>2, <1>5, <1>6, FlushOrigin
  <1>8. CompressOrigin'
    BY <1>1, <1>4 DEF OriginInv, CompressOrigin, InOutput
  <1>9. DecompressOrigin'
    BY <1>1, <1>4 DEF OriginInv, DecompressOrigin
  <1> QED
    BY <1>1, <1>7, <1>8, <1>9 DEF OriginInv, ExitWhole

(* So what an archive says of its text stays true, whatever happens.        *)
LEMMA OriginStep == ToolInv /\ OriginInv /\ [Next]_vars => OriginInv'
  <1> SUFFICES ASSUME ToolInv, OriginInv, [Next]_vars PROVE OriginInv'
    OBVIOUS
  <1>1. CASE \E command \in Commands : Invoke(command)
    BY <1>1, InvokeOrigin
  <1>2. CASE OpenFiles \/ MeasureInput \/ WriteHeader \/ Encode \/ EncodeFooter
    BY <1>2, OpenFilesOrigin, CompressingOrigin
  <1>3. CASE Decompressing \/ Close \/ DeleteInput \/ End \/ Spill
    BY <1>3, DecompressingOrigin, EndingOrigin, SpillOrigin
  <1>4. CASE LibraryFails
    <2>1. InOutput /\ Abandon /\ UNCHANGED <<job, before, origin>>
      BY <1>4 DEF LibraryFails, InOutput
    <2> QED
      BY <2>1, AbandonOrigin
  <1>5. CASE Kill
    <2>1. pc' = "shell" /\ status' = "killed" /\ UNCHANGED <<disk, job, before, origin>>
      BY <1>5 DEF Kill, Exit
    <2> QED
      BY <2>1 DEF OriginInv, OriginOK, CompressOrigin, DecompressOrigin, ExitWhole, InOutput
  <1>6. CASE UNCHANGED vars
    <2>1. /\ UNCHANGED <<disk, pc, status, job, before, pending, faults, origin>>
          /\ UNCHANGED <<size, header, made, footer>>
      BY <1>6 DEF vars, locals
    <2>2. Written' = Written
      BY <2>1 DEF Written
    <2>3. OriginOK' /\ CompressOrigin'
      BY <2>1, <2>2 DEF OriginInv, OriginOK, CompressOrigin, InOutput
    <2>4. DecompressOrigin' /\ ExitWhole'
      BY <2>1, <2>2 DEF OriginInv, DecompressOrigin, ExitWhole
    <2> QED
      BY <2>3, <2>4 DEF OriginInv
  <1> QED
    BY <1>1, <1>2, <1>3, <1>4, <1>5, <1>6 DEF Next, Running, Compressing

(* Exit status 0 of a compression says that the archive is whole, unless    *)
(* the input was too long, fread failed or the end of the output could not  *)
(* be written.  Exit status 0 of a decompression whose own output could be  *)
(* written says that it is the text that the archive was made from, no      *)
(* matter how the run that made the archive ended: parts of an archive are  *)
(* never taken for all of it, but for a text of 2^32 bytes and more, and    *)
(* for an archive with no byte in it.                                       *)
THEOREM SuccessIsWhole == Spec => []SuccessMeansWhole
  <1>1. ToolInv /\ OriginInv => SuccessMeansWhole
    BY DEF ToolInv, ExitTold, OriginInv, ExitWhole, SuccessMeansWhole
  <1> QED
    BY <1>1, InitInv, StepInv, OriginInit, OriginStep, PTL DEF Spec
-----------------------------------------------------------------------------
(* As long as there was no mishap, every file between two runs is as the    *)
(* user wants it: absent, the text, or a whole archive of the text.         *)
KeptFile(name, f) ==
    \/ f = Absent
    \/ name = "text" /\ f = origin["text"]
    \/ name # "text" /\ Archives(f, origin["text"])

Recoverable ==
    \/ disk["text"] = origin["text"]
    \/ \E name \in Names \ {"text"} : Archives(disk[name], origin["text"])

KeptInv ==
    ~mishap /\ faults = {} =>
        /\ \A name \in Names : (InOutput /\ name = job.out) \/ KeptFile(name, disk[name])
        /\ InOutput => KeptFile(job.in, before)
        /\ pc \in {"shell", "open"} => Recoverable

TextKept == origin["text"] \in Seq(Bytes) /\ KeptInv

(* What is in an archive of a text is the text.                             *)
LEMMA ContentOfArchive ==
    ASSUME NEW a, NEW text \in Seq(Bytes), Archives(a, text), a \in Seq(Parts)
    PROVE  Content(a) = text
  <1> DEFINE n == Len(text)
  <1>1. n \in Nat /\ Len(a) = (n + 1) + TailLength(a) /\ TailLength(a) \in 1 .. 2
    BY DEF Archives, TailLength
  <1>2. \A i \in 1 .. n : Byte(a[i + 1].val) = text[i]
    BY DEF Archives
  <1>3. (Len(a) - 1) - TailLength(a) = n
    BY <1>1
  <1>4. Content(a) = [i \in 1 .. n |-> Byte(a[i + 1].val)]
    BY <1>3 DEF Content
  <1> HIDE DEF n
  <1>5. Content(a) = [i \in 1 .. n |-> text[i]]
    BY <1>2, <1>4
  <1>6. \A i \in 1 .. n : text[i] \in Bytes
    BY DEF n
  <1>7. Content(a) \in Seq(Bytes) /\ Len(Content(a)) = n
    BY <1>1, <1>5, <1>6, IsASeq
  <1>8. \A i \in 1 .. n : Content(a)[i] = text[i]
    BY <1>5
  <1>9. n = Len(text)
    BY DEF n
  <1> QED
    BY <1>7, <1>8, <1>9, SeqEqual

(* At first the text is there and nothing else.                             *)
LEMMA KeptInit == Init => TextKept
  <1> SUFFICES ASSUME Init PROVE TextKept
    OBVIOUS
  <1>1. PICK n \in Lengths :
            /\ disk = [name \in Names |-> IF name = "text" THEN Text(n) ELSE Absent]
            /\ origin = [name \in Names |-> Text(n)]
    BY DEF Init
  <1>2. n \in Nat
    BY ToolAssumption
  <1>3. Text(n) \in Seq(Bytes)
    <2>1. \A i \in 1 .. n : Byte(i) \in Bytes
      BY <1>2 DEF Byte, Bytes
    <2> QED
      BY <1>2, <2>1, IsASeq DEF Text
  <1>4. disk["text"] = origin["text"] /\ origin["text"] = Text(n)
    BY <1>1 DEF Names
  <1>5. \A name \in Names : KeptFile(name, disk[name])
    BY <1>1, <1>4 DEF KeptFile
  <1> QED
    BY <1>3, <1>4, <1>5 DEF Init, TextKept, KeptInv, Recoverable, InOutput

(* While a run goes on it touches its output alone, or deletes its input.   *)
LEMMA RunningKept ==
    ASSUME ToolInv, TextKept, InOutput, InOutput', UNCHANGED <<job, before, mishap, origin>>,
           faults' = {} => faults = {},
           \A name \in Names \ {job.out} : disk'[name] \in {disk[name], Absent}
    PROVE  TextKept'
  <1> SUFFICES ASSUME ~mishap', faults' = {}
               PROVE  /\ \A name \in Names : name = job.out \/ KeptFile(name, disk'[name])
                      /\ KeptFile(job.in, before)
    BY DEF TextKept, KeptInv, KeptFile, InOutput
  <1>1. /\ \A name \in Names : name = job.out \/ KeptFile(name, disk[name])
        /\ KeptFile(job.in, before)
    BY DEF TextKept, KeptInv
  <1> QED
    BY <1>1 DEF KeptFile

(* A run that fails and can delete its output leaves its input, which was   *)
(* kept.                                                                    *)
LEMMA AbandonKept ==
    ASSUME ToolInv, TextKept, InOutput, pc # "exit", Abandon, UNCHANGED <<job, before, origin>>,
           faults' = {} => faults = {}
    PROVE  TextKept'
  <1> SUFFICES ASSUME ~mishap', faults' = {}
               PROVE  /\ \A name \in Names : KeptFile(name, disk'[name])
                      /\ Recoverable'
    BY DEF TextKept, KeptInv, KeptFile, Abandon, Exit, InOutput
  <1>1. /\ ~mishap /\ disk' = [disk EXCEPT ![job.out] = Absent]
    BY DEF Abandon
  <1>2. /\ \A name \in Names : name = job.out \/ KeptFile(name, disk[name])
        /\ KeptFile(job.in, before)
    BY <1>1 DEF TextKept, KeptInv
  <1>3. /\ job.in \in Names /\ job.out \in Names /\ job.in # job.out /\ DOMAIN disk = Names
        /\ disk[job.in] = before /\ before # Absent
    BY OpenRun DEF ToolInv, FilesOK, InputIntact, InOutput
  <1>4. \A name \in Names : KeptFile(name, disk'[name])
    BY <1>1, <1>2, <1>3 DEF KeptFile
  <1>5. disk'[job.in] = before /\ KeptFile(job.in, disk'[job.in])
    BY <1>1, <1>3, <1>4
  <1>6. Recoverable'
    <2>1. \/ job.in = "text" /\ disk'["text"] = origin["text"]
          \/ job.in # "text" /\ Archives(disk'[job.in], origin["text"])
      BY <1>3, <1>5 DEF KeptFile
    <2> QED
      BY <1>3, <2>1 DEF Recoverable
  <1> QED
    BY <1>4, <1>6

(* A command changes no file.                                               *)
LEMMA InvokeKept ==
    ASSUME ToolInv, TextKept, NEW command \in Commands, Invoke(command)
    PROVE  TextKept'
  <1>1. /\ pc = "shell" /\ pc' \in {"open", "shell"} /\ UNCHANGED <<disk, origin>>
        /\ ~mishap' => ~mishap /\ faults = {}
    BY DEF Invoke, Exit
  <1> QED
    BY <1>1 DEF TextKept, KeptInv, KeptFile, Recoverable, InOutput

(* The output is emptied, and the input is a file that was kept.            *)
LEMMA OpenFilesKept ==
    ASSUME ToolInv, TextKept, OpenFiles
    PROVE  TextKept'
  <1>1. /\ pc = "open" /\ job.in # job.out /\ job.in \in Names /\ job.out \in Names
        /\ DOMAIN disk = Names /\ UNCHANGED <<job, before, faults, mishap>>
        /\ disk[job.in] = before
    BY DEF OpenFiles, ToolInv, FilesOK, JobOK, InputIntact
  <1>2. CASE Exit("1") /\ UNCHANGED <<disk, origin>>
    BY <1>1, <1>2 DEF TextKept, KeptInv, KeptFile, Recoverable, InOutput, Exit
  <1>3. CASE /\ disk' = [disk EXCEPT ![job.out] = << >>]
             /\ origin' = IF job.mode = "compress" THEN [origin EXCEPT ![job.out] = before]
                          ELSE origin
             /\ pc' \in {"measure", "header"}
    <2>1. job.mode = "compress" => job.out # "text"
      BY <1>1 DEF ToolInv, JobOK
    <2>2. origin'["text"] = origin["text"]
      BY <1>3, <2>1
    <2>3. \A name \in Names : name # job.out => disk'[name] = disk[name]
      BY <1>1, <1>3
    <2> SUFFICES ASSUME ~mishap', faults' = {}
                 PROVE  /\ \A name \in Names : name = job.out \/ KeptFile(name, disk[name])'
                        /\ KeptFile(job.in, before)'
      BY <1>1, <1>3, <2>2 DEF TextKept, KeptInv, InOutput
    <2>4. \A name \in Names : KeptFile(name, disk[name])
      BY <1>1 DEF TextKept, KeptInv, InOutput
    <2> QED
      BY <1>1, <2>2, <2>3, <2>4 DEF KeptFile
  <1> QED
    BY <1>2, <1>3 DEF OpenFiles

(* A run that ends well has replaced the text by an archive of it, or an    *)
(* archive of it by the text.                                               *)
LEMMA EndKept ==
    ASSUME ToolInv, TextKept, End
    PROVE  TextKept'
  <1>1. /\ pc = "exit" /\ InOutput /\ Flush /\ pc' = "shell" /\ status' = "0"
        /\ UNCHANGED <<job, before, mishap, origin>>
    BY DEF End, InOutput, Exit
  <1>2. /\ job.in \in Names /\ job.out \in Names /\ job.in # job.out /\ DOMAIN disk = Names
        /\ before \in Seq(Parts) /\ before # Absent
    BY <1>1, OpenRun, AbsentIsNoFile
  <1> SUFFICES ASSUME ~mishap', faults' = {}
               PROVE  /\ \A name \in Names : KeptFile(name, disk'[name])
                      /\ Recoverable'
    BY <1>1 DEF TextKept, KeptInv, KeptFile, InOutput
  <1>3. ~mishap /\ faults = {} /\ disk'[job.out] = Written /\ disk'[job.out] # Absent
    BY <1>1, FlushInv
  <1>4. /\ \A name \in Names : name = job.out \/ KeptFile(name, disk[name])
        /\ KeptFile(job.in, before)
    BY <1>1, <1>3 DEF TextKept, KeptInv
  <1>5. \A name \in Names : name # job.out => disk'[name] = disk[name]
    BY <1>1, <1>2 DEF Flush
  <1>6. KeptFile(job.out, disk'[job.out])
    <2>1. CASE job.mode = "compress"
      <3>1. job.in = "text" /\ Archives(Written, before)
        BY <1>1, <1>3, <2>1 DEF ToolInv, JobOK, CompressInv
      <3>2. before = origin["text"]
        BY <1>2, <1>4, <3>1 DEF KeptFile
      <3> QED
        BY <1>2, <1>3, <3>1, <3>2 DEF KeptFile
    <2>2. CASE job.mode = "decompress"
      <3>1. job.out = "text" /\ (InputWhole => Written = Content(before))
        BY <1>1, <2>2 DEF ToolInv, JobOK, DecompressInv
      <3>2. Archives(before, origin["text"])
        BY <1>2, <1>4, <3>1 DEF KeptFile
      <3>3. Content(before) = origin["text"]
        BY <1>2, <3>2, ContentOfArchive DEF TextKept
      <3>4. InputWhole
        BY <3>2, <3>3 DEF InputWhole
      <3> QED
        BY <1>3, <3>1, <3>3, <3>4 DEF KeptFile
    <2>3. job.mode \in {"compress", "decompress"}
      BY <1>1 DEF ToolInv, JobOK
    <2> QED
      BY <2>1, <2>2, <2>3
  <1>7. \A name \in Names : KeptFile(name, disk'[name])
    BY <1>4, <1>5, <1>6
  <1>8. Recoverable'
    <2>1. \/ job.out = "text" /\ disk'["text"] = origin["text"]
          \/ job.out # "text" /\ Archives(disk'[job.out], origin["text"])
      BY <1>3, <1>6 DEF KeptFile
    <2> QED
      BY <1>1, <1>2, <2>1 DEF Recoverable
  <1> QED
    BY <1>7, <1>8

(* So every file stays as the user wants it, until there is a mishap.       *)
LEMMA KeptStep == ToolInv /\ TextKept /\ [Next]_vars => TextKept'
  <1> SUFFICES ASSUME ToolInv, TextKept, [Next]_vars PROVE TextKept'
    OBVIOUS
  <1>1. CASE \E command \in Commands : Invoke(command)
    BY <1>1, InvokeKept
  <1>2. CASE OpenFiles \/ End
    BY <1>2, OpenFilesKept, EndKept
  <1>3. CASE Abandon /\ (LibraryFails \/ MeasureInput \/ Verify)
    <2>1. /\ InOutput /\ pc # "exit" /\ UNCHANGED <<job, before, origin>>
          /\ faults' = {} => faults = {}
      <3>1. CASE LibraryFails
        BY <3>1 DEF LibraryFails, InOutput
      <3>2. CASE MeasureInput
        <4>1. pc = "measure" /\ UNCHANGED <<job, before, origin>>
          BY <3>2 DEF MeasureInput
        <4>2. faults = {}
          <5>1. job.mode = "compress"
            BY <4>1 DEF ToolInv, JobOK
          <5> QED
            BY <4>1, <5>1 DEF ToolInv, CompressInv
        <4> QED
          BY <4>1, <4>2 DEF InOutput
      <3>3. CASE Verify
        BY <3>3 DEF Verify, InOutput
      <3> QED
        BY <1>3, <3>1, <3>2, <3>3
    <2> QED
      BY <1>3, <2>1, AbandonKept
  <1>4. CASE \/ MeasureInput /\ UNCHANGED <<disk, mishap>> /\ pc' = "header"
             \/ WriteHeader \/ Encode \/ EncodeFooter
             \/ ReadHeader \/ DecodeCode \/ DecodeMark
             \/ Verify /\ UNCHANGED <<disk, mishap>> /\ pc' = "delete"
    <2>1. /\ InOutput /\ InOutput' /\ UNCHANGED <<disk, job, before, mishap, origin>>
          /\ pc = "measure" \/ (faults' = {} => faults = {})
      BY <1>4 DEF MeasureInput, WriteHeader, Encode, EncodeFooter, ReadHeader, DecodeCode,
         DecodeMark, Verify, InOutput
    <2>2. pc = "measure" => faults = {}
      BY DEF ToolInv, JobOK, CompressInv
    <2> QED
      BY <2>1, <2>2, RunningKept
  <1>5. CASE Close \/ DeleteInput
    <2>1. InOutput /\ InOutput' /\ UNCHANGED <<job, before, mishap, origin>>
      BY <1>5 DEF Close, DeleteInput, InOutput
    <2>2. DOMAIN disk = Names /\ job.in \in Names /\ job.out \in Names
      BY <2>1, OpenRun
    <2>3. faults' = {} => faults = {}
      BY <1>5 DEF Close, DeleteInput, Flush
    <2>4. \A name \in Names \ {job.out} : disk'[name] \in {disk[name], Absent}
      BY <1>5, <2>2 DEF Close, DeleteInput, Flush
    <2> QED
      BY <2>1, <2>3, <2>4, RunningKept
  <1>6. CASE Spill
    <2>1. InOutput
      BY <1>6 DEF Spill, ToolInv, FilesOK
    <2>2. DOMAIN disk = Names /\ UNCHANGED <<pc, job, before, mishap, origin, faults>>
      BY <1>6, <2>1, OpenRun DEF Spill
    <2>3. \A name \in Names \ {job.out} : disk'[name] = disk[name]
      BY <1>6, <2>2 DEF Spill
    <2> QED
      BY <2>1, <2>2, <2>3, RunningKept DEF InOutput
  <1>7. CASE Kill
    <2>1. /\ pc # "shell" /\ pc' = "shell" /\ UNCHANGED <<disk, origin>>
          /\ ~mishap' => ~mishap /\ ~opened
          /\ faults' = {} => faults = {}
      BY <1>7 DEF Kill, Exit
    <2>2. ~mishap' => pc = "open"
      BY <2>1 DEF ToolInv, JobOK, InOutput
    <2> QED
      BY <2>1, <2>2 DEF TextKept, KeptInv, KeptFile, Recoverable, InOutput
  <1>8. CASE UNCHANGED vars
    BY <1>8 DEF vars, TextKept, KeptInv, KeptFile, Recoverable, InOutput
  <1>9. MeasureInput => \/ Abandon
                        \/ UNCHANGED <<disk, mishap>> /\ pc' = "header"
    BY DEF MeasureInput
  <1>10. Verify => \/ Abandon
                   \/ UNCHANGED <<disk, mishap>> /\ pc' = "delete"
    BY DEF Verify
  <1>11. LibraryFails => Abandon
    BY DEF LibraryFails
  <1> QED
    BY <1>1, <1>2, <1>3, <1>4, <1>5, <1>6, <1>7, <1>8, <1>9, <1>10, <1>11
    DEF Next, Running, Compressing, Decompressing

(* The text survives any number of runs of which some fail: as long as no   *)
(* run was killed, could not delete its unfinished output, or met what the  *)
(* code does not look at, it is in one of the files, whole.                 *)
THEOREM TextStaysRecoverable == Spec => []TextRecoverable
  <1>1. ToolInv /\ TextKept => TextRecoverable
    BY DEF TextKept, KeptInv, Recoverable, TextRecoverable
  <1> QED
    BY <1>1, InitInv, StepInv, KeptInit, KeptStep, PTL DEF Spec
-----------------------------------------------------------------------------
(* elzma_get_dict_size proposes nothing above the greatest power it allows, *)
(* for any number that an unsigned int holds.                               *)
LEMMA ProposedAtMost ==
    ASSUME NEW given \in 0 .. SizeWord - 1
    PROVE  GetDictSize(given) <= Power(MaxLog)
  <1> DEFINE s == IF given > Power(MaxLog) THEN given \div 2 ELSE given
             i == IF Bits(s) < MinLog THEN MinLog ELSE Bits(s)
  <1>1. MaxLog \in 0 .. 30 /\ MinLog \in 1 .. 30
    BY FormatsAssumption
  <1>2. given \in Nat /\ given \div 2 \in Nat /\ given \div 2 < Power(32)
    BY ToolAssumption DEF Power
  <1>3. Power(MaxLog) \in Nat /\ Power(MaxLog) < Power(32) /\ Power(32) \in Nat
    BY <1>1, PowersNatural, PowersOrdered
  <1>4. s \in Nat /\ s < Power(32)
    BY <1>2, <1>3
  <1>5. GetDictSize(given) =
          IF i > MaxLog THEN Power(MaxLog)
          ELSE IF Power(i - 1) <= s /\ Power(i) - s > s - Power(i - 1)
          THEN Power(i - 1) ELSE Power(i)
    BY DEF GetDictSize, Power
  <1> HIDE DEF s
  <1>6. i \in 1 .. 32
    BY <1>1, <1>4, BitsRange
  <1> HIDE DEF i
  <1>7. CASE i > MaxLog
    BY <1>3, <1>5, <1>7
  <1>8. CASE i <= MaxLog
    <2>1. Power(i - 1) < Power(MaxLog) /\ Power(i - 1) \in Nat
      BY <1>1, <1>6, <1>8, PowersOrdered, PowersNatural
    <2>2. Power(i) <= Power(MaxLog)
      <3>1. CASE i = MaxLog
        BY <1>3, <3>1
      <3>2. CASE i < MaxLog
        <4>1. Power(i) < Power(MaxLog) /\ Power(i) \in Nat
          BY <1>1, <1>6, <3>2, PowersOrdered, PowersNatural
        <4> QED
          BY <4>1, <1>3
      <3> QED
        BY <1>1, <1>6, <1>8, <3>1, <3>2
    <2> QED
      BY <1>1, <1>3, <1>5, <1>6, <1>8, <2>1, <2>2
  <1> QED
    BY <1>1, <1>6, <1>7, <1>8

(* The parts of TypeOK that a run of the tool changes one by one.           *)
SizesOK ==
    /\ size \in 0 .. SizeWord - 1 /\ dictSize \in 0 .. Power(MaxLog)
    /\ job.mode = "compress" /\ pc \notin {"shell", "open", "measure"} =>
        dictSize \in 1 .. job.maxDict
PlacesOK ==
    /\ pos \in Nat /\ made \in 0 .. pos
    /\ pc # "open" /\ opened => pos <= Len(before)

(* The tool starts with the disk the user gives it, idle.                   *)
LEMMA TypeInit ==
    ASSUME Init
    PROVE  TypeOK
  <1>1. /\ pc = "shell" /\ status = "none" /\ job = NoJob /\ opened = FALSE /\ size = 0
        /\ dictSize = 0 /\ pos = 0 /\ made = 0 /\ faults = {} /\ mishap = FALSE /\ runs = 0
        /\ DOMAIN disk = Names /\ DOMAIN origin = Names
    BY DEF Init
  <1>2. Power(MaxLog) \in Nat
    BY FormatsAssumption, PowersNatural
  <1>3. 0 \in 0 .. 2 ^ MaxLog
    BY <1>2 DEF Power
  <1>4. 0 \in 0 .. SizeWord - 1 /\ 0 \in 0 .. MaxRuns /\ 0 \in 0 .. 0
    BY ToolAssumption
  <1>5. job.in = "text" /\ job.out = "text.lzma"
    BY <1>1 DEF NoJob
  <1>6. job.in \in Names /\ job.out \in Names \ {job.in}
    BY <1>5 DEF Names
  <1>7. pos <= Len(before)
    <2>1. PICK n \in Lengths : before = Text(n)
      BY DEF Init
    <2>2. n \in Nat /\ Len(before) = n
      BY <2>1, ToolAssumption DEF Text
    <2> QED
      BY <1>1, <2>2
  <1> HIDE DEF Init
  <1> QED
    BY <1>1, <1>3, <1>4, <1>6, <1>7 DEF TypeOK

(* MeasureInput is the one step that gives the sizes a value: the length is *)
(* cut to an unsigned int, the dictionary is the one proposed for it or the *)
(* greatest allowed.                                                        *)
LEMMA SizesKept ==
    ASSUME ToolInv, SizesOK, [Next]_vars
    PROVE  SizesOK'
  <1> DEFINE Early == {"shell", "open", "measure"}
  <1>1. ASSUME UNCHANGED <<size, dictSize>>,
               pc' \in {"shell", "open"} \/ (pc \notin Early /\ job' = job)
                 \/ (job'.mode = "compress" => pc' = "measure")
        PROVE  SizesOK'
    BY <1>1 DEF SizesOK
  <1>2. CASE MeasureInput
    <2>1. /\ size' = LengthRead(Len(before)) /\ pc = "measure" /\ job' = job
          /\ dictSize' = Allowed(GetDictSize(size'), job.maxDict)
      BY <1>2 DEF MeasureInput
    <2>2. before \in Seq(Parts) /\ job.maxDict \in DictSizes
      BY <2>1, OpenRun DEF InOutput, ToolInv, JobOK
    <2>3. size' \in 0 .. SizeWord - 1
      BY <2>1, <2>2, ToolAssumption DEF LengthRead
    <2> DEFINE proposed == GetDictSize(size')
    <2>4. proposed \in DictSizes /\ proposed <= Power(MaxLog)
      BY <2>3, ProposedPower, ProposedAtMost
    <2>5. \A d \in DictSizes : d \in Nat \ {0}
      BY PowersNatural DEF DictSizes
    <2>6. Power(MaxLog) \in Nat
      BY FormatsAssumption, PowersNatural
    <2>7. dictSize' = IF proposed > job.maxDict THEN job.maxDict ELSE proposed
      BY <2>1 DEF Allowed
    <2>8. proposed \in Nat \ {0} /\ job.maxDict \in Nat \ {0}
      BY <2>2, <2>4, <2>5
    <2> HIDE DEF proposed
    <2>9. dictSize' \in 0 .. Power(MaxLog) /\ dictSize' \in 1 .. job.maxDict
      BY <2>4, <2>6, <2>7, <2>8
    <2>10. dictSize' \in 1 .. job'.maxDict
      BY <2>1, <2>9
    <2> QED
      BY <2>3, <2>9, <2>10 DEF SizesOK
  <1>3. CASE \E command \in Commands : Invoke(command)
    <2>1. UNCHANGED <<size, dictSize>> /\ pc' \in {"shell", "open"}
      BY <1>3 DEF Invoke, Exit, locals
    <2> QED
      BY <1>1, <2>1
  <1>4. CASE OpenFiles
    <2>1. /\ UNCHANGED <<size, dictSize, job>>
          /\ pc' = "shell" \/ (job.mode = "compress" => pc' = "measure")
      BY <1>4 DEF OpenFiles, Exit
    <2> QED
      BY <1>1, <2>1
  <1>5. CASE \/ WriteHeader \/ Encode \/ EncodeFooter \/ Close \/ DeleteInput \/ End
             \/ ReadHeader \/ DecodeCode \/ DecodeMark \/ Verify \/ LibraryFails
    <2>1. UNCHANGED <<size, dictSize, job>> /\ pc \notin Early
      BY <1>5 DEF WriteHeader, Encode, EncodeFooter, Close, DeleteInput, End, ReadHeader,
         DecodeCode, DecodeMark, Verify, LibraryFails, locals
    <2> QED
      BY <1>1, <2>1
  <1>6. CASE Kill
    <2>1. UNCHANGED <<size, dictSize>> /\ pc' = "shell"
      BY <1>6 DEF Kill, Exit, locals
    <2> QED
      BY <1>1, <2>1
  <1>7. CASE Spill \/ UNCHANGED vars
    <2>1. UNCHANGED <<size, dictSize, pc, job>>
      BY <1>7 DEF Spill, vars, locals
    <2> QED
      BY <2>1 DEF SizesOK
  <1> QED
    BY <1>2, <1>3, <1>4, <1>5, <1>6, <1>7 DEF Next, Running, Compressing, Decompressing

(* No step goes past the end of its input, or makes more than it has read.  *)
LEMMA PlacesKept ==
    ASSUME ToolInv, PlacesOK, [Next]_vars
    PROVE  PlacesOK'
  <1>1. CASE /\ UNCHANGED <<pos, made, before, opened>>
             /\ pc # "open" \/ ~opened
    BY <1>1 DEF PlacesOK
  <1>2. CASE \E command \in Commands : Invoke(command)
    <2>1. UNCHANGED <<pos, made>> /\ opened' = FALSE
      BY <1>2 DEF Invoke, locals
    <2> QED
      BY <2>1 DEF PlacesOK
  <1>3. CASE OpenFiles
    <2>1. pos' = 0 /\ made' = 0 /\ before' = before /\ before \in Seq(Parts) \cup {Absent}
      BY <1>3 DEF OpenFiles, ToolInv, FilesOK
    <2>2. Len(before) \in Nat
      <3>1. CASE before \in Seq(Parts)
        BY <3>1
      <3>2. CASE before = Absent
        <4>1. Len(Absent) = 1
          BY DEF Absent
        <4> QED
          BY <3>2, <4>1
      <3> QED
        BY <2>1, <3>1, <3>2
    <2> QED
      BY <2>1, <2>2 DEF PlacesOK
  <1>4. CASE Encode
    <2>1. pc = "encode" /\ UNCHANGED <<made, before, opened>>
      BY <1>4 DEF Encode
    <2>2. before \in Seq(Parts)
      BY <2>1, OpenRun DEF InOutput
    <2>3. \/ pos < Len(before) /\ pos' = pos + 1
          \/ pos' = pos
      BY <1>4 DEF Encode
    <2> QED
      BY <2>1, <2>2, <2>3 DEF PlacesOK
  <1>5. CASE ReadHeader
    <2>1. /\ pc = "header" /\ job.mode = "decompress" /\ before # << >> /\ pos' = 1
          /\ UNCHANGED <<made, before, opened>>
      BY <1>5 DEF ReadHeader
    <2>2. before \in Seq(Parts) /\ made = 0
      BY <2>1, OpenRun DEF InOutput, ToolInv, DecompressInv
    <2>3. 1 <= Len(before)
      BY <2>1, <2>2
    <2> QED
      BY <2>1, <2>2, <2>3 DEF PlacesOK
  <1>6. CASE DecodeCode
    <2>1. /\ pc = "decode" /\ pos < Len(before) /\ pos' = pos + 1 /\ made' = made + 1
          /\ UNCHANGED <<before, opened>>
      BY <1>6 DEF DecodeCode
    <2>2. before \in Seq(Parts)
      BY <2>1, OpenRun DEF InOutput
    <2> QED
      BY <2>1, <2>2 DEF PlacesOK
  <1>7. CASE \/ MeasureInput \/ WriteHeader \/ EncodeFooter \/ Close \/ DecodeMark \/ Verify
             \/ LibraryFails \/ DeleteInput \/ End
    <2>1. UNCHANGED <<pos, made, before, opened>> /\ pc # "open"
      BY <1>7 DEF MeasureInput, WriteHeader, EncodeFooter, Close, DecodeMark, Verify,
         LibraryFails, DeleteInput, End, locals
    <2> QED
      BY <1>1, <2>1
  <1>8. CASE Spill \/ Kill \/ UNCHANGED vars
    <2>1. UNCHANGED <<pos, made, before, opened>>
      BY <1>8 DEF Spill, Kill, vars, locals
    <2>2. pc = "open" => ~opened
      BY DEF ToolInv, JobOK
    <2> QED
      BY <1>1, <2>1, <2>2
  <1> QED
    BY <1>2, <1>3, <1>4, <1>5, <1>6, <1>7, <1>8 DEF Next, Running, Compressing, Decompressing

(* What is left of TypeOK.                                                  *)
ControlOK ==
    /\ pc \in {"shell", "open", "measure", "header", "encode", "encode_footer",
               "close", "decode", "verify", "delete", "exit"}
    /\ status \in {"none", "0", "1", "killed"}
    /\ opened \in BOOLEAN /\ mishap \in BOOLEAN
    /\ faults \subseteq {"long", "read", "flush", "killed"}
    /\ runs \in 0 .. MaxRuns

(* No step leaves the stages, the statuses or the bound on the runs.        *)
LEMMA ControlKept ==
    ASSUME ControlOK, [Next]_vars
    PROVE  ControlOK'
  <1>1. CASE \E command \in Commands : Invoke(command)
    <2>1. /\ runs < MaxRuns /\ runs' = runs + 1 /\ opened' = FALSE /\ faults' = {}
          /\ mishap' \in BOOLEAN
          /\ \/ pc' = "open" /\ status' = "none"
             \/ pc' = "shell" /\ status' = "1"
      BY <1>1 DEF Invoke, Exit
    <2>2. runs' \in 0 .. MaxRuns
      <3>1. MaxRuns \in Nat
        BY ToolAssumption
      <3> QED
        BY <2>1, <3>1 DEF ControlOK
    <2> QED
      BY <2>1, <2>2 DEF ControlOK
  <1>2. CASE OpenFiles \/ LibraryFails \/ DeleteInput \/ End
    BY <1>2 DEF ControlOK, OpenFiles, LibraryFails, DeleteInput, End, Flush, Abandon, Exit
  <1>3. CASE Compressing
    BY <1>3 DEF ControlOK, Compressing, MeasureInput, WriteHeader, Encode, EncodeFooter, Close,
       Flush, Abandon, Exit
  <1>4. CASE Decompressing
    BY <1>4 DEF ControlOK, Decompressing, ReadHeader, DecodeCode, DecodeMark, Verify, Abandon, Exit
  <1>5. CASE Spill \/ Kill \/ UNCHANGED vars
    BY <1>5 DEF ControlOK, Spill, Kill, Exit, vars
  <1> QED
    BY <1>1, <1>2, <1>3, <1>4, <1>5 DEF Next, Running

(* The state of the tool has its type: no run reads past the end of what    *)
(* its input held or makes more bytes than it has read codes, the length it *)
(* writes fits an unsigned int, and the dictionary it asks for is neither   *)
(* greater than the greatest that elzma_get_dict_size proposes nor than     *)
(* what the user allows, and not 0.                                         *)
THEOREM TypeCorrect == Spec => []TypeOK
  <1> DEFINE Inv == ToolInv /\ OriginOK /\ SizesOK /\ PlacesOK /\ ControlOK
  <1>1. Init => SizesOK /\ PlacesOK /\ ControlOK
    BY TypeInit DEF TypeOK, SizesOK, PlacesOK, ControlOK, Power
  <1>2. ToolInv /\ SizesOK /\ PlacesOK /\ ControlOK /\ [Next]_vars
          => SizesOK' /\ PlacesOK' /\ ControlOK'
    BY SizesKept, PlacesKept, ControlKept
  <1>3. Inv => TypeOK
    <2> SUFFICES ASSUME Inv PROVE TypeOK
      OBVIOUS
    <2>1. job.in \in Names /\ job.out \in Names \ {job.in} /\ DOMAIN disk = Names
      BY DEF ToolInv, JobOK, FilesOK
    <2>2. DOMAIN origin = Names
      BY DEF OriginOK
    <2> QED
      BY <2>1, <2>2 DEF TypeOK, SizesOK, PlacesOK, ControlOK, Power
  <1>4. OriginInv => OriginOK
    BY DEF OriginInv
  <1> QED
    BY <1>1, <1>2, <1>3, <1>4, InitInv, StepInv, OriginInit, OriginStep, PTL DEF Spec
=============================================================================
