-------------------------------- MODULE Tool --------------------------------
(***************************************************************************)
(* The command line tool (src/elzma/elzma.c) and the files it works on.    *)
(*                                                                         *)
(* The user runs the tool again and again.  A run may fail to open a file, *)
(* to allocate, to read, to write or to delete; what fwrite has taken stays*)
(* in the FILE's buffer until the C library writes it, and closing it can  *)
(* fail; and the process can be killed between any two steps, which loses  *)
(* the buffer.                                                             *)
(*                                                                         *)
(* A file is a sequence of parts.  The text is a sequence of bytes, all of *)
(* them different; an archive is a header, one code for each byte, the end *)
(* mark and, for lzip, a footer.  A code refers as far back as the         *)
(* encoder's dictionary allows.  A CRC of n bytes is abstracted to n.      *)
(* Compressing an archive is left out.                                     *)
(***************************************************************************)
EXTENDS Formats, Sequences

CONSTANTS
    Commands,     \* the command lines a user gives
    Lengths,      \* the lengths of the text
    SizeWord,     \* 2^32: the values of an unsigned int
    MaxRuns       \* bound on the runs of the tool

Names == {"text", "text.lzma", "text.lz"}
Flags == {"h", "k", "f", "v", "z", "d", "s", "lzma", "lzip", "unknown"}

(* A command is the name the program is called by and its arguments; those  *)
(* that are not names are flags, "s" with the number that follows it.       *)
CommandType ==
    [program : {"elzma", "unelzma", "other"},
     argv : Seq([arg : Names \cup Flags, val : 0 .. SizeWord - 1])]

ASSUME ToolAssumption ==
    /\ Commands \subseteq CommandType
    /\ Lengths \subseteq Nat
    /\ SizeWord \in Nat \ {0}
    /\ SizeWord \div 2 ^ 16 <= 2 ^ 16     \* 2^32 is beyond TLC's integers
    /\ MaxRuns \in Nat \ {0}

VARIABLES
    disk,       \* the files
    pc, status, \* the process, and how the last one ended
    job,        \* what it was asked to do
    before,     \* what its input held when it began
    opened,     \* it has created its output
    size, dictSize, header, pos, made, footer,
    pending,    \* what fwrite has taken and the disk has not
    faults,     \* what went wrong in this run and the code does not look at
    mishap,     \* a run had faults, was killed or could not delete its output
    origin,     \* what each archive was made from; of the text, what it was at first
    runs

locals == <<size, dictSize, header, pos, made, footer>>
vars == <<disk, pc, status, job, before, opened, locals, pending, faults, mishap,
          origin, runs>>

Absent == <<[kind |-> "no such file"]>>
Byte(i) == [kind |-> "byte", val |-> i]
Code(b, dist) == [kind |-> "code", val |-> b.val, dist |-> dist]
Mark == [kind |-> "mark"]
Footer(crc, length) == [kind |-> "footer", crc |-> crc, size |-> length]
NoFooter == Footer(0, 0)
Text(n) == [i \in 1 .. n |-> Byte(i)]

Smaller(a, b) == IF a < b THEN a ELSE b

(* What an archive holds, and whether a decoder can get all of it out.      *)
TailLength(a) == IF a[1].kind = "lzip" THEN 2 ELSE 1
Content(a) == [i \in 1 .. (Len(a) - 1) - TailLength(a) |-> Byte(a[i + 1].val)]

Archives(a, text) ==
    LET n == Len(text) IN
    /\ a \notin {Absent, << >>} /\ a[1].kind \in {"lzma", "lzip"}
    /\ Len(a) = (n + 1) + TailLength(a)
    /\ DecoderProps(a[1]) = Defaults
    /\ \A i \in 1 .. n :
        /\ a[i + 1].kind = "code"
        /\ Byte(a[i + 1].val) = text[i]
        /\ a[i + 1].dist <= Window(a[1])
    /\ a[n + 2] = Mark
    /\ IF a[1].kind = "lzip" THEN a[n + 3] = Footer(n, n) ELSE a[1].size = n
-----------------------------------------------------------------------------
(* parseCompressArgs and parseDecompressArgs: flags first, then one name.   *)
(* (An "s" with nothing after it is read through a null pointer, elzma.c:92;*)
(* no command is that, and here it would be an exit with the usage.)        *)
CompressFlags == {"k", "f", "v", "z", "d", "s", "lzma", "lzip"}
DecompressFlags == {"k", "f", "v", "z", "d"}

FlagsOf(argv) == SubSeq(argv, 1, Len(argv) - 1)
Has(argv, flag) == \E i \in DOMAIN argv : argv[i].arg = flag

ParsedArgs(argv, known) ==
    /\ argv # << >>
    /\ argv[Len(argv)].arg \in Names
    /\ \A i \in DOMAIN FlagsOf(argv) : argv[i].arg \in known

(* The value at the last of some flags.                                     *)
LastOf(argv, flags) ==
    LET at == {i \in DOMAIN argv : argv[i].arg \in flags}
    IN  argv[CHOOSE i \in at : \A j \in at : j <= i]

(* main: the mode is that of the first flag -d or -z, or of the name.       *)
Mode(command) ==
    LET argv == command.argv
        at == {i \in DOMAIN argv : argv[i].arg \in {"d", "z"}}
    IN  IF at # {}
        THEN IF argv[CHOOSE i \in at : \A j \in at : i <= j].arg = "d"
             THEN "decompress" ELSE "compress"
        ELSE IF command.program = "unelzma" THEN "decompress"
        ELSE IF command.program = "elzma" THEN "compress"
        ELSE "none"

(* The greatest dictionary allowed: `1 < 13' in the code is 1, where 8k was *)
(* meant, and anything else is made a power of two.                         *)
MaxDictAsGiven(argv) ==
    IF ~Has(argv, "s") THEN 2 ^ (MaxLog + 1) ELSE LastOf(argv, {"s"}).val

MaxDict(argv) ==
    IF ~Has(argv, "s") THEN 2 ^ (MaxLog + 1)
    ELSE LET given == LastOf(argv, {"s"}).val
         IN  IF given < 1 THEN 1 ELSE GetDictSize(given)

Format(argv) ==
    IF Has(argv, "lzma") \/ Has(argv, "lzip")
    THEN LastOf(argv, {"lzma", "lzip"}).arg ELSE "lzma"

CompressJob(argv) ==
    [mode |-> "compress", in |-> argv[Len(argv)].arg,
     out |-> IF Format(argv) = "lzip" THEN "text.lz" ELSE "text.lzma",
     format |-> Format(argv), keep |-> Has(argv, "k"), maxDict |-> MaxDict(argv)]

DecompressJob(argv) ==
    LET name == argv[Len(argv)].arg IN
    [mode |-> "decompress", in |-> name, out |-> "text",
     format |-> IF name = "text.lzma" THEN "lzma" ELSE "lzip",
     keep |-> Has(argv, "k"), maxDict |-> 0]

NoJob == [mode |-> "none", in |-> "text", out |-> "text.lzma", format |-> "lzma",
          keep |-> TRUE, maxDict |-> 0]

Init ==
    /\ \E n \in Lengths :
        /\ disk = [name \in Names |-> IF name = "text" THEN Text(n) ELSE Absent]
        /\ before = Text(n)
        /\ origin = [name \in Names |-> Text(n)]
    /\ pc = "shell" /\ status = "none" /\ job = NoJob
    /\ opened = FALSE
    /\ size = 0 /\ dictSize = 0 /\ header = Header("lzma", 1, 0)
    /\ pos = 0 /\ made = 0 /\ footer = NoFooter
    /\ pending = << >> /\ faults = {} /\ mishap = FALSE /\ runs = 0

Exit(code) == pc' = "shell" /\ status' = code

(* What follows the parsing of the arguments, or an exit with the usage.    *)
Invoke(command) ==
    LET argv == command.argv
        compress == Mode(command) = "compress" /\ ParsedArgs(argv, CompressFlags)
        decompress == /\ Mode(command) = "decompress"
                      /\ ParsedArgs(argv, DecompressFlags)
                      /\ argv[Len(argv)].arg # "text"
    IN
    /\ pc = "shell" /\ runs < MaxRuns
    /\ compress => argv[Len(argv)].arg = "text"
    /\ runs' = runs + 1
    /\ IF compress \/ decompress
       THEN /\ job' = IF compress THEN CompressJob(argv) ELSE DecompressJob(argv)
            /\ pc' = "open" /\ status' = "none"
       ELSE job' = NoJob /\ Exit("1")
    /\ before' = disk[job'.in]
    /\ opened' = FALSE /\ faults' = {}
    /\ mishap' = (mishap \/ faults # {})
    /\ UNCHANGED <<disk, locals, pending, origin>>

(* openFiles: an output that exists is emptied, whatever the flag -f.  (The *)
(* memory for its name, one byte short in doDecompress, is left out.)       *)
OpenFiles ==
    /\ pc = "open"
    /\ \/ /\ Exit("1")
          /\ UNCHANGED <<disk, opened, origin>>
       \/ /\ disk[job.in] # Absent
          /\ disk' = [disk EXCEPT ![job.out] = << >>]
          /\ opened' = TRUE
          /\ origin' = IF job.mode = "compress" THEN [origin EXCEPT ![job.out] = before]
                       ELSE origin
          /\ pc' = IF job.mode = "compress" THEN "measure" ELSE "header"
          /\ status' = status
    /\ pos' = 0 /\ made' = 0 /\ footer' = NoFooter
    /\ pending' = << >>
    /\ UNCHANGED <<job, before, size, dictSize, header, faults, mishap, runs>>

(* Every failure after that: the output is deleted and the exit status 1.   *)
(* Nobody looks whether deleteFile succeeds (on WIN32 it cannot: the tool   *)
(* has the file open).  Where it does not, the output stays, and the end of *)
(* the process adds what is pending, or a part of it.                       *)
OutputStays ==
    \E n \in 0 .. Len(pending) :
        disk' = [disk EXCEPT ![job.out] = @ \o SubSeq(pending, 1, n)]

AbandonKeepingOutput ==
    /\ Exit("1")
    /\ pending' = << >>
    /\ OutputStays /\ mishap' = mishap

Abandon ==
    /\ Exit("1")
    /\ pending' = << >>
    /\ \/ disk' = [disk EXCEPT ![job.out] = Absent] /\ mishap' = mishap
       \/ OutputStays /\ mishap' = TRUE

(* The library returns an error, because of an allocation, because its      *)
(* input ends too early or because fwrite took less than it was given.      *)
(* (Where the decoder's allocation fails it does not return at all, see     *)
(* module Decompress: here that is a process that takes no more steps.)     *)
LibraryFails ==
    /\ pc \in {"header", "encode", "encode_footer", "decode"}
    /\ Abandon
    /\ UNCHANGED <<job, before, opened, locals, faults, origin, runs>>

(* fwrite has taken a part.                                                 *)
Put(part) == pending' = Append(pending, part)

(* doCompress: the length of the input, as an unsigned int, and the         *)
(* dictionary, the one proposed for it or the greatest allowed.             *)
LengthRead(n) == n % SizeWord

AllowedReversed(proposed, greatest) ==
    IF proposed < greatest THEN greatest ELSE proposed

Allowed(proposed, greatest) ==
    IF proposed > greatest THEN greatest ELSE proposed

MeasureInput ==
    /\ pc = "measure"
    /\ size' = LengthRead(Len(before))
    /\ dictSize' = Allowed(GetDictSize(size'), job.maxDict)
    /\ faults' = IF Len(before) >= SizeWord THEN {"long"} ELSE {}
    /\ \/ Abandon                            \* fseek fails, or the length is 0
       \/ /\ size' # 0
          /\ pc' = "header"
          /\ UNCHANGED <<disk, status, pending, mishap>>
    /\ UNCHANGED <<job, before, opened, header, pos, made, footer, origin, runs>>

WriteHeader ==
    /\ pc = "header" /\ job.mode = "compress"
    /\ header' = Header(job.format, dictSize, size)
    /\ Put(header')
    /\ pc' = "encode"
    /\ UNCHANGED <<disk, status, job, before, opened, size, dictSize, pos, made,
                   footer, faults, mishap, origin, runs>>

(* The next byte is read and coded, or the input ends: elzmaReadFunc does   *)
(* not tell an error from the end.                                          *)
Encode ==
    /\ pc = "encode"
    /\ \/ /\ pos < Len(before)
          /\ pos' = pos + 1
          /\ Put(Code(before[pos'], Smaller(pos, dictSize)))
          /\ UNCHANGED <<pc, faults>>
       \/ /\ faults' = IF pos < Len(before) THEN faults \cup {"read"} ELSE faults
          /\ Put(Mark)
          /\ pc' = IF job.format = "lzip" THEN "encode_footer" ELSE "close"
          /\ UNCHANGED pos
    /\ UNCHANGED <<disk, status, job, before, opened, size, dictSize, header, made,
                   footer, mishap, origin, runs>>

EncodeFooter ==
    /\ pc = "encode_footer"
    /\ Put(Footer(pos, size))
    /\ pc' = "close"
    /\ UNCHANGED <<disk, status, job, before, opened, locals, faults, mishap, origin,
                   runs>>

(* The FILE's buffer is written, all of it or, on a full disk, a part.      *)
Flush ==
    /\ \E n \in 0 .. Len(pending) :
        /\ disk' = [disk EXCEPT ![job.out] = @ \o SubSeq(pending, 1, n)]
        /\ faults' = IF n < Len(pending) THEN faults \cup {"flush"} ELSE faults
    /\ pending' = << >>

(* fclose of the output, whose result is not looked at.                     *)
Close ==
    /\ pc = "close"
    /\ Flush
    /\ pc' = "delete"
    /\ UNCHANGED <<status, job, before, opened, locals, mishap, origin, runs>>

(* The library has said OK: the input is deleted, or cannot be.             *)
(* doDecompress has not closed its output yet; the end of the process does. *)
DeleteInput ==
    /\ pc = "delete"
    /\ \/ disk' = disk
       \/ ~job.keep /\ disk' = [disk EXCEPT ![job.in] = Absent]
    /\ pc' = "exit"
    /\ UNCHANGED <<status, job, before, opened, locals, pending, faults, mishap,
                   origin, runs>>

End ==
    /\ pc = "exit"
    /\ Flush
    /\ Exit("0")
    /\ UNCHANGED <<job, before, opened, locals, mishap, origin, runs>>

(* elzma_decompress_run on the input: header ...                            *)
ReadHeader ==
    /\ pc = "header" /\ job.mode = "decompress"
    /\ before # << >> /\ before[1].kind = job.format /\ Parsed(before[1])
    /\ header' = before[1]
    /\ pos' = 1
    /\ pc' = "decode"
    /\ UNCHANGED <<disk, status, job, before, opened, size, dictSize, made, footer,
                   pending, faults, mishap, origin, runs>>

(* ... each code, where the end of an input buffer ends a stream whose size *)
(* is known and reached ...                                                 *)
DecodeCode ==
    /\ pc = "decode" /\ pos < Len(before)
    /\ LET next == before[pos + 1] IN
        /\ next.kind = "code" /\ next.dist <= Window(header)
        /\ Put(Byte(next.val))
    /\ pos' = pos + 1 /\ made' = made + 1
    /\ \/ pc' = pc
       \/ header.kind = "lzma" /\ made' >= header.size /\ pc' = "verify"
    /\ UNCHANGED <<disk, status, job, before, opened, size, dictSize, header, footer,
                   faults, mishap, origin, runs>>

(* ... the end mark, with the footer if it is in the same input buffer ...  *)
DecodeMark ==
    /\ pc = "decode" /\ pos < Len(before) /\ before[pos + 1] = Mark
    /\ \/ UNCHANGED footer
       \/ pos + 2 <= Len(before) /\ footer' = before[pos + 2]
    /\ pc' = "verify"
    /\ UNCHANGED <<disk, status, job, before, opened, size, dictSize, header, pos,
                   made, pending, faults, mishap, origin, runs>>

(* ... and the comparison of lengths and CRC.                               *)
VerifiedByCrc == IF header.kind = "lzip" THEN footer.crc = made ELSE made = header.size

Verified == IF header.kind = "lzip" THEN footer = Footer(made, made)
            ELSE made = header.size

Verify ==
    /\ pc = "verify"
    /\ IF Verified THEN pc' = "delete" /\ UNCHANGED <<disk, status, pending, mishap>>
       ELSE Abandon
    /\ UNCHANGED <<job, before, opened, locals, faults, origin, runs>>

(* The C library writes a part of what it holds.                            *)
Spill ==
    /\ pc # "shell" /\ pending # << >>
    /\ disk' = [disk EXCEPT ![job.out] = Append(@, pending[1])]
    /\ pending' = SubSeq(pending, 2, Len(pending))
    /\ UNCHANGED <<pc, status, job, before, opened, locals, faults, mishap, origin,
                   runs>>

(* The process is killed; doDecompress can lose output it deleted its input *)
(* for.                                                                     *)
Kill ==
    /\ pc # "shell"
    /\ Exit("killed")
    /\ faults' = IF pc = "exit" /\ pending # << >> THEN faults \cup {"killed"}
                 ELSE faults
    /\ pending' = << >>
    /\ mishap' = (mishap \/ opened)
    /\ UNCHANGED <<disk, job, before, opened, locals, origin, runs>>

Compressing == MeasureInput \/ WriteHeader \/ Encode \/ EncodeFooter \/ Close
Decompressing == ReadHeader \/ DecodeCode \/ DecodeMark \/ Verify
Running == OpenFiles \/ Compressing \/ Decompressing \/ LibraryFails \/ DeleteInput \/ End

Next == (\E command \in Commands : Invoke(command)) \/ Running \/ Spill \/ Kill

Spec == Init /\ [][Next]_vars
-----------------------------------------------------------------------------
TypeOK ==
    /\ pc \in {"shell", "open", "measure", "header", "encode", "encode_footer",
               "close", "decode", "verify", "delete", "exit"}
    /\ status \in {"none", "0", "1", "killed"}
    /\ job.in \in Names /\ job.out \in Names \ {job.in}
    /\ DOMAIN disk = Names /\ DOMAIN origin = Names
    /\ opened \in BOOLEAN /\ mishap \in BOOLEAN
    /\ size \in 0 .. SizeWord - 1 /\ dictSize \in 0 .. 2 ^ MaxLog
    /\ job.mode = "compress" /\ pc \notin {"shell", "open", "measure"} =>
        dictSize \in 1 .. job.maxDict
    /\ pos \in Nat /\ made \in 0 .. pos
    /\ pc # "open" /\ opened => pos <= Len(before)
    /\ faults \subseteq {"long", "read", "flush", "killed"}
    /\ runs \in 0 .. MaxRuns

(* What fwrite has taken holds all that the input held.                     *)
Holds ==
    /\ opened /\ disk[job.out] # Absent
    /\ LET written == disk[job.out] \o pending IN
        IF job.mode = "compress" THEN Archives(written, before)
        ELSE written = Content(before)

(* The input was all there: a text, or an archive nothing is missing from.  *)
InputWhole == job.mode # "decompress" \/ Archives(before, Content(before))

(* At every moment, and so whenever the process is killed, the data are in  *)
(* the input or in the output, unless one of the four things happened that  *)
(* doCompress and doDecompress do not look at.                              *)
InputNeverLost ==
    InputWhole /\ faults = {} => disk[job.in] = before \/ Holds

(* What exit status 0 says.  Of doCompress: that the output is a whole      *)
(* archive, unless one of the faults happened.  Of doDecompress, unless the *)
(* end of its own output could not be written: that the output is the text  *)
(* the archive was made from, and no part of it, even when the run that     *)
(* made the archive was killed or met an error of fread, or when its close  *)
(* or the deletion of what it had written failed.  (Two exceptions: a text  *)
(* too long for an unsigned int; and where no byte was coded, the length    *)
(* and the CRC of nothing are zeros, as is a footer that was not read.)     *)
SuccessMeansWhole ==
    pc = "shell" /\ status = "0" /\ "flush" \notin faults =>
        IF job.mode = "compress"
        THEN faults = {} => Archives(disk[job.out], before)
        ELSE /\ InputWhole => disk[job.out] = Content(before)
             /\ Len(origin[job.in]) < SizeWord =>
                 disk[job.out] \in {origin[job.in], << >>}

(* From whatever runs the user makes, some of which may fail, the text can  *)
(* be got back: it is still there, or an archive of it is whole.  A failed  *)
(* run may leave no part of an output: the next would take it as its input, *)
(* and empty the good file, since openFiles does not heed -f.  So this ends *)
(* with the first run that was killed, could not delete its output, or met  *)
(* one of the faults.                                                       *)
TextRecoverable ==
    pc = "shell" /\ ~mishap /\ faults = {} =>
        \/ disk["text"] = origin["text"]
        \/ \E name \in Names \ {"text"} : Archives(disk[name], origin["text"])
=============================================================================
