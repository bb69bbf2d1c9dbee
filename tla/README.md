# easylzma: specifications, model checking and proofs

easylzma wraps the LZMA SDK (`src/src/pavlov/`) in two handles, one that compresses and one that decompresses, each
driven by callbacks of its client. This directory holds TLA+ modules of its core logic, TLC configurations that check
them on small instances, and theorems about them that TLAPS checks for all values of the constants.

Paths below are relative to the repository root, in `src/`. `PROJECT.json` maps every definition to the lines it
models and lists components, runs, mutants, findings, hazards and theorems.

| module | what it is | extends |
|---|---|---|
| `StreamDecoder` | what one call of `LzmaDec_DecodeToBuf` does, seen from its caller | |
| `Decompress` | `elzma_decompress_*`: handle, loops, footer, return codes | `StreamDecoder` |
| `DecompressMC` + 5 cfg | the files and buffer sizes TLC checks | `Decompress` |
| `DecompressProofs` | eight theorems about `Decompress` | `Decompress` |
| `MatchWindow` | the match finder's sliding window, `LzFind.c` | |
| `MatchWindowMC` + cfg | a block of nine bytes, streams of up to fourteen | `MatchWindow` |
| `MatchWindowProofs` | seven theorems about `MatchWindow` | `MatchWindow` |
| `Encoder` | `LzmaEnc_Encode`: blocks, errors, end, the range coder's output buffer | |
| `Compress` | `elzma_compress_*`: handle, header, encoder, footer, return codes | `Encoder` |
| `CompressMC` + 3 cfg | two runs over inputs of up to four bytes | `Compress` |
| `CompressProofs` | seven theorems about `Compress` and `Encoder` | `Compress` |
| `BitModel` | probabilities and the split of the range, shared by both coders | |
| `RangeCoder` | `RangeEnc_*`: `low`, `cache`, withheld bytes, carry | `BitModel` |
| `RangeCoderProofs` | four theorems about `RangeCoder`, among them that no carry is lost | `RangeCoder` |
| `SymbolCode` | how the encoder codes each symbol, and what it does to state and distances | |
| `SymbolWalk` | how the decoder reads a symbol, decision by decision | `SymbolCode` |
| `LzmaDecoder` | `LzmaDec_DecodeToBuf` and all it calls, on bytes | `SymbolWalk`, `BitModel` |
| `LzmaDecoderProofs` | four theorems about `LzmaDecoder`, whatever bytes it is given | `LzmaDecoder`, `RangeCoderProofs` |
| `DecoderContract` | one call of the decoder as one step: what `Decompress` relies on | `StreamDecoder` |
| `Transfer`, `TransferMC` + cfg | encoder, bytes on their way, decoder; implements `DecoderContract` | `RangeCoder`, `LzmaDecoder` |
| `TransferProofs` | what comes out is what the bytes mean, however they are cut | `Transfer`, `LzmaDecoderProofs` |
| `ContractProofs` | the decoder implements `DecoderContract` | `TransferProofs` |
| `MatchTree` | hash heads, binary trees and chains of `LzFind.c` | |
| `Optimum`, `OptimumMC` + cfg | `GetOptimum`, `GetOptimumFast` and the loop that takes their symbols | `SymbolCode`, `MatchTree` |
| `Formats` | headers, footer fields, dictionary sizes | |
| `Tool`, `ToolMC` + cfg | the command line tool and the files it works on | `Formats` |
| `ToolProofs` | no data are lost between the tool's files; a cut archive never passes for a whole one; when a properties byte reads back | `Tool` |

## 1. Inventory

### Decompression loop - `src/decompress.c`

* State: the handle's 256 KiB output and 64 KiB input buffers and allocator; in a run `h` (header), `dec` (decoder),
  `srcLen`, `dstLen`, `amt`, `bufOff`, `crc32`, `totalRead`, `f` (footer), `errorCode`.
* Operations: alloc, free, set allocation callbacks, run.
* Interaction: calls the client's read and write callbacks, the format handler's parsers, `LzmaDec_*` and the
  client's allocator.
* Hard: the inner loop reuses `amt` and `dstLen` both as limits and as results; the footer is looked for in what
  is left of one read; the input buffer outlives a run; many exits, each with its own cleanup.
* Correct when: every byte read is decoded once, every byte made is written once and counted in CRC and length; OK
  is only returned for a complete, agreeing file; an error code blames what happened; nothing leaks; it returns.

### LZMA decoder - `src/pavlov/LzmaDec.c`

* State: `dic`/`dicPos`, `range`/`code`, probabilities, `remainLen`, `tempBuf` (an incomplete symbol, up to 20
  bytes), `needFlush`/`needInitState`.
* Operations: Allocate, Init, DecodeToDic, DecodeToBuf, Free. Called by the loop above only.
* Hard: a symbol may arrive in pieces (tempBuf and `LzmaDec_TryDummy`); a match may be cut by the output limit
  (`remainLen`), even by the end of the dictionary; a symbol is decoded without looking at the input's end when enough
  bytes are left.
* Correct when: what it makes depends on the bytes it was given and not on how they were cut; it never takes input
  past the end mark; it never reads behind its input or a byte of the dictionary it has not written; it returns.

### File formats - `src/lzma_header.c`, `src/lzip_header.c`

* Stateless codecs: the 13 byte LZMA-alone header, the 6 byte lzip header, the 12 byte lzip footer.
* Correct when: parse after serialize gives back what went in, and the decoder's window is at least the encoder's.
* Hard: three modules agree on one properties byte; dictionary sizes are rounded by the tool, by lzip and by the decoder.

### Compression handle - `src/compress.c`

* State: `props`, `encHand`, `uncompressedSize`, `format`, `formatHandler`, allocator; in a run the three stream
  structures, among them the running CRC.
* Operations: alloc, free, config, set allocation callbacks, run, get_dict_size.
* Interaction: `LzmaEnc_Create/SetProps/Encode/Destroy`; the client's read callback is reached through the match
  finder, its write callback directly (header, footer) and through the range coder.
* Hard: a handle may be configured and run repeatedly; every allocation, read and write may fail, anywhere in the
  encoder, and is noticed later.
* Correct when: OK means that the whole input was coded and the whole output taken; the header and footer are those
  of the configured format; nothing leaks; it returns.

### LZMA encoder - `src/pavlov/LzmaEnc.c`

* Block coding (`LzmaEnc_Encode`, `CodeOneBlock`, `CheckErrors`, `Flush`): `nowPos64`, `finished`, `result`.
* Range coder (`RangeEnc_*`): `low`, `range`, `cache`, `cacheSize`, a 64 KiB buffer, sticky `res`.
* Optimal parser (`GetOptimum`, `GetOptimumFast`, `Backward`): `opt[kNumOpts]`, `reps`, `additionalOffset`.
* Price tables and probability models.
* Hard: carry propagation; the lag between the parser's cursor and what is coded; errors seen only at block ends.
* Correct when: decoding gives back the input; the buffer is never overrun; an error is never lost.

### Match finder - `src/pavlov/LzFind.c`

* Window: one block of memory, `buffer`, `pos`, `streamPos`, `posLimit`, `lenLimit`, `cyclicBufferPos`,
  `streamEndWasReached`, `result`.
* Search structures: hash heads for 2, 3 and 4 bytes, and per position a chain link (Hc4) or two tree links
  (Bt2/3/4).
* Operations: Create, Init, GetNumAvailableBytes, GetIndexByte, GetMatches, Skip.
* Hard: moves of the block, turns of the cyclic buffer, renormalisation of 32 bit positions, slow readers.
* Correct when: history and look ahead stay in the block, references stay exact, reported matches are matches and
  the longest of their distance.

### Command line tool - `elzma/elzma.c`

* State: the process's files (an input, an output with the C library's buffer), the options, and the files themselves,
  which outlive it.
* Operations: one invocation parses its arguments, opens, measures, compresses or decompresses, checks, closes and
  deletes.
* Hard: whatever fails or is killed, and between whichever two steps; the order of close and delete.
* Correct when: the input is only deleted when the output is complete; a part of an archive is never taken for all of
  it; what failed runs leave does not cost the user the text.

### The rest

Allocation adapter (`common_internal.c`), CRC (`7zCrc.c`), `Alloc.c`; SDK code that is compiled in and called by
nothing in the library (branch filters, `7zStream.c`, `7zFile.c`, `7zBuf*.c`, `LzmaLib.c`); tests (`test/`), which
round-trip buffers through `simple.c`.

There are no threads: `COMPRESS_MF_MT` is not defined. What interleaves with the library's code is its client: every
callback may do anything its contract allows, and the library's public calls may come in any legal order.

## 2. What is modelled, and how it corresponds to the code

### StreamDecoder and Decompress

`StreamDecoder` abstracts a compressed stream to its symbols: how many input bytes each is known at (`need`), how much
output exists after each (`give`), and what follows the last (`end`, `endAt`). `DecodeToBuf(s, d, amt, dst)` is the
outcome of one `LzmaDec_DecodeToBuf` call: with a working decoder either the output limit is met first or the input's
end is; without buffers (`LzmaDec_Allocate` failed) it takes the five bytes that start the range decoder and nothing
more. The caller distinguishes `LZMA_STATUS_FINISHED_WITH_MARK` and nothing else, so `NOT_FINISHED` also stands
for `MAYBE_FINISHED_WITHOUT_MARK`.

`Decompress` has one action per stage of `elzma_decompress_run`:

| action | code (`src/decompress.c`) |
|---|---|
| `Alloc`, `Free` | `elzma_decompress_alloc` 31-39, `elzma_decompress_free` 54-59 |
| `Start` | entry, format selection, header buffer 75-99 |
| `ReadHeader` | one read, `parse_header` 101-113 |
| `AllocateDecoder` | header bytes for the decoder, `LzmaDec_Allocate`, `LzmaDec_Init` 115-136 |
| `ReadInput` | top of the outer loop 139-164 |
| `Decode` | the decoder call, CRC and length 166-186 |
| `Write` | output, `bufOff`, `amt`, the inner loop's condition 188-205 |
| `CheckStatus` | end mark, footer, known length reached 207-225 |
| `Finish` | comparison of CRC and lengths 227-247 |

Every return goes through `Return`, which frees the decoder (`decompressEnd`, 250-253).

Data: the CRC of the first n bytes of output is n; a byte of input is the part of a footer it is, or "body". The
input buffer is modelled byte by byte, because it outlives a run. Bytes behind its end (they are `outbuf`'s, by the
layout of the handle) may look like any footer. Not modelled: a header block that could not be allocated, which the
code uses unchecked.

### MatchWindow

The block is modelled byte by byte, each byte being its offset in the stream, so that "the right byte at the right
place" is an equation. `MatchFinder_Init`, `Insert` (`GetMatches` or one round of `Skip` with enough bytes ahead: the
position is entered in the tables) and `PassOver` (too few bytes ahead) are the actions; each runs `MovePos`, and with
it, when the limit is reached, the whole of `CheckLimits`: normalisation, move of the block, reads, turn of the cyclic
buffer, `SetLimits`. `ReadBlock` is the set of all outcomes of the client's reads. `at` and `headAt` are history
variables. The sizes are constants, with the relations between them that `MatchFinder_Create` establishes.

### Encoder and Compress

`Encoder` keeps of the input and of the output their lengths. `estep` says where `LzmaEnc_Encode` is: `"block"` (entry
of `CodeOneBlock`), `"stretch"` (about to call the parser with `additionalOffset` 0), `"emit"` (bytes leave the range
coder one at a time, `Emit`, with `FlushStream` when its buffer is full), `"flush"` and `"drain"` (end mark, last bytes),
`"returned"`. `CheckErrors` runs where it does in the code and nowhere else. Of the match finder it uses what
`MatchWindow` proves (`LookaheadKept`): more than `KeepSizeAfter` bytes are ahead of the parser's cursor until the
input ends or fails (`Ready`).

`Compress` adds the handle: `Alloc`, `Free`, `Config` (valid and invalid properties, all formats), `Start` (encoder
created, properties set, format checked), `WriteHeader`, `StartEncoder` (`LzmaEnc_Alloc`, which may fail at any block
and keeps what it got), `EncoderStep`, `Encoded`, `WriteFooter`. `live` is the set of blocks obtained from the client's
allocator, by the run that obtained them. `asked` records the configuration a run began with; no action reads it.

The abstractions are the CRC of n bytes, which is n; a client that takes less than it is given in place of one that
returns nonsense; an input of at most `InputMax` bytes. `BlockCodeAssumption` states the one fact about coding the
properties rest on: the bytes that leave the range coder during one block (at most 2^15 - 1 + 4096 + 272 bytes of
input) fit its buffer of 2^16.

### BitModel, RangeCoder, SymbolCode and SymbolWalk

`RangeCoder` is the coder on integers of a base and a width given by constants (`Base` 256 and `kTopValue` 2^24 in
the code). `EncodeBit`, `EncodeDirectBit` and `FlushData` are a call, or one round of a loop, each; `ShiftLow` is
`RangeEnc_ShiftLow` with its test on a 32 bit `low` and its carry. Two history variables go with it: `exact` is the sum
of everything that was ever added to `low`, an integer of any size, and `shifts` counts the shifts up to `MaxShifts`,
after which `exact` stands still. No action reads them.

`SymbolCode` gives the decisions of `LzmaEnc_CodeOneBlock` for a symbol (context and bit of each, in order), and the
state and last distances after it. `SymbolWalk` is the other direction, written from `LzmaDec_DecodeReal`: which context
the next bit is read in, given the bits so far. They share the names of the contexts and nothing of how they are
reached, so that their agreement is something to be checked. The numbers of bits in lengths, slots and align bits are
constants, with the relations between them as in the code.

### LzmaDecoder, DecoderContract and Transfer

`LzmaDecoder` has one step per round of each of the nested loops, and `pc` says of which: `"toBuf"`
(`LzmaDec_DecodeToBuf` 848-889), `"toDic"` (`LzmaDec_DecodeToDic` 727-846), `"real"` (`LzmaDec_DecodeReal`, a symbol a
step), `"stored"` (the end of a round of `LzmaDec_DecodeReal2`), `"leave"`. Range, code, probabilities, `tempBuf` and
the cyclic dictionary are there as in the code; a cell of `dic` that was never written holds `Unwritten`. `TryDummy` is
`LzmaDec_TryDummy`: it walks the symbol without changing anything and says whether the input suffices. (The code has
this walk twice, `LzmaDec.c:137-434` and 495-683. The model has it once, `SymbolWalks`, and the normalizations behind it
apart: that the two copies agree was read, not checked; that they count enough bytes is checked and proved.) The choice
between the guarded path (`LZMA_REQUIRED_INPUT_MAX` bytes are not there) and the fast one is the code's. A symbol is
three ideas: what it stands for (`Whole`, and of it the `Part` that fits under the limit), what it leaves of the decoder
(`After`) and of the dictionary (`Written`); the tests that refuse it come before (`Refused`).

That `LZMA_REQUIRED_INPUT_MAX` bytes are enough for any symbol is a fact about the constants, which the code asserts in a
comment (`LzmaDec.h:41-44`). `Narrowest` computes it: the input a symbol takes when each of its decisions leaves as
little of the interval as an adaptive or a direct bit can. `RequiredInputAssumption` says that the longest symbol then
stays within the bound. With the constants of the code (22 adaptive and 26 direct bits for a distant match, 31/2048 as
the least probability) the worst case is exactly 20; with those of `TransferMC` it is exactly 10.

`DecoderSpec` is the decoder by itself: any bytes of the alphabet arrive at any time (`Receive`), and its caller hands
over any amount of them and asks for any amount of output (`Call`). The theorems are about it. In `Transfer` the same
variables are part of a larger system: its `Deliver` is a `Receive`, its `Ask` a `Call`, its `Decode` is `Decoding`, and
its other actions leave the decoder's variables alone.

`DecoderContract` is what `Decompress` sees: one step per call, with the outcome `StreamDecoder!DecodeToBuf` allows.
`Transfer` codes a message with `RangeCoder`, delivers the bytes whole, cut or changed, and runs `LzmaDecoder` on them
in pieces and with room of any sizes. `Meaning(b)` reads bytes b at once, with all the text at hand: the reference the
decoder is compared with, and the stream that `DecoderContract` is given. It is a function over numbers of symbols:
`Beginning` is the reading of the first bytes, `ReadSymbol` one symbol more, with its copies taken from the text and not
from a dictionary, and `Readings` stops where the bytes end, are refused or say so (`MostSymbols` bounds it: a symbol
takes of the interval or of the bytes). `ImplementsContract` is the refinement; it ties `LzmaDecoder` to `Decompress`.

A symbol is coded when it `Fits` the text, that is, when what it copies is there, as the parser's symbols do.
`TransferAssumption` says that the direct bits of the end mark's distance alone take a byte, so that it is met with a
byte of its own; in the code they are 26 bits and a byte is 8.

### MatchTree and Optimum

`MatchTree` keeps `hash` (2, 3 and 4 byte heads), `son` and the cursor of bt2, bt3, bt4 and hc4. `Descend` is
`GetMatchesSpec1` and, when nothing can be longer than it looks, `SkipMatchesSpec`; `Follow` is `Hc_GetMatchesSpec`. The
hash functions are the code's, with a CRC and a table scaled to a few letters so that collisions happen. Positions
count from `cyclicBufferSize` as in the code; normalisation is the business of `MatchWindow`.

`Optimum` is a state machine over the stages of the parser:

| `pc` | code (`src/pavlov/LzmaEnc.c`) |
|---|---|
| `block` | the first byte, `LzmaEnc_CodeOneBlock` 1765-1778 |
| `call` | `GetOptimum` or `GetOptimumFast` is called: what is left of the last way, or the matches at the cursor |
| `first` | `GetOptimum` up to its loop |
| `next`, `relax` | the loop: on to the next byte, or `Backward`; the ways on from it |
| `fast`, `peek`, `compare` | `GetOptimumFast`: the choice, the look at the next byte, the comparison |
| `move` | `MovePos`, then the symbol is taken by `LzmaEnc_CodeOneBlock` |
| `coded` | everything is |

`opt` has the fields of `COptimal` that are read after they were written. What a symbol costs is `Price(prices, symbol,
place)`, any function: the code's tables are one of them at each moment, and no property depends on which.

### Formats and Tool

`Formats` holds the codecs as operators on fields; the properties byte is computed as in the three places of the code
that compose or take it apart. `Tool` is one process after another on a directory of three files. A file is a sequence
of parts: bytes, all different, or a header, codes, an end mark and a footer. A code names the byte it stands for and
the greatest distance it may use, so that a window too small loses it. `pending` is what `fwrite` took and the C
library holds (`Spill`, `Flush`), and it is lost when the process is killed (`Kill`, between any two steps).
`LibraryFails` is any error the library returns, including a refused allocation and a refused write. The six places
where the code deletes its output and returns 1 are `Abandon`. None of them looks at what `deleteFile` returns, and it
may fail: `unlink` of a file that is still open always does on WIN32, and elsewhere it does for an existing output in
a directory the user cannot write. Then the output stays, with as much of `pending` as the end of the process writes
(`OutputStays`); so may the input in `DeleteInput`.

Three history variables say what the files should be. `faults` notes what went wrong in this run that the code does
not look at:

* `"long"`: the input has 2^32 bytes or more and its length is taken as an `unsigned int` (`elzma.c:219`, 250);
* `"read"`: an error while reading is taken for the end of the input (`elzma.c:174`);
* `"flush"`: the last buffer cannot be written when the output is closed or the process exits (`elzma.c:312`, 456);
* `"killed"`: `doDecompress` deletes its input before its output is closed, and is killed in between (`elzma.c:456`).

Each of the four is needed: without any one of them TLC finds `InputNeverLost` violated. `mishap` is set when a run
met a fault, was killed with its output open, or could not delete it. `origin` is the text each archive was made from,
across all runs since, and of the text what it was at first. No action reads them.

Left out: an `-s` with nothing after it, for which the code calls `strlen` on a null pointer (`elzma.c:92`; no command
of the model is one), and the memory for the output's name, one byte short in `doDecompress` (`elzma.c:428`).

## 3. What the runs show

| run | cfg | states | checks |
|---|---|---|---|
| `decompress` | `DecompressMC.cfg` | 237,353 | 6 invariants, 1 liveness property |
| `matchwindow` | `MatchWindowMC.cfg` | 10,280 | 6 invariants |
| `compress` | `CompressMC.cfg` | 497,947 | 5 invariants, 1 action property, 1 liveness property |
| `transfer` | `TransferMC.cfg` | 49,126 | 9 invariants, 1 refinement, 1 liveness property |
| `parser` | `OptimumMC.cfg` | 894,790 | 4 invariants, 1 action property |
| `tool` | `ToolMC.cfg` | 1,340,942 | 4 invariants |
| `footer_split`, `stale_footer`, `pending_output`, `alloc_failure` | `Decompress*.cfg` | - | one violated claim each |
| `stale_format`, `unknown_length` | `Compress*.cfg` | - | one violated claim each |

Every property of a passing run has a mutant (in `PROJECT.json`): an operator beside the original, named for the bug,
under which TLC finds the property violated.

**decompress.** `AccountsAgree`: read = fed + waiting, made = written + waiting, CRC and length cover what was made.
`CallsHaveRoom`: each decoder call has the whole output buffer and some input, although `dstLen` is set once per read.
`OkMeansComplete`, `ErrorsHaveCauses`, `NothingLeaked`, and `WorkingRunsReturn`: a run whose decoder was allocated
returns. Bounds: an input buffer of 5, an output buffer of 2, a footer of 2 and files of up to 7 bytes, so that a
file takes one read or many, the footer is in the same read as the end mark, in the next, or cut; a match of 3 bytes
is cut by the output limit; two runs on a handle suffice for one to leave bytes to the next. The 20 files are
good, cut at each interesting place, wrong in CRC, length, data or header, with and without mark or length; one is
nothing but a header that promises no bytes, for which the code answers that input is missing (`read = 0` in
`ErrorsHaveCauses`): it looks for the length being reached only after it has read something.

**matchwindow.** `HistoryRetained`, `LookaheadInBlock`, `LookaheadKept`, `LenLimitExact`, `ReferencesExact`. Bounds: a
dictionary of 2 and a block of 9 with a reserve of 2, streams of up to 14 bytes and any number of streams: the block
moves, the cyclic buffer turns and positions are normalised several times. Two hash entries: one that is entered
and one that is not. No symmetry is used.

**compress.** `BufferNotOverrun`: after a refused write `RangeEnc_FlushStream` no longer empties the buffer, and it
depends on `CheckErrors` at the end of the block that it is not written past. `OkMeansComplete`: no error is lost
between the point where it happens and the return. `SilentAfterRefusal`: nothing more is given to a client that
refused. `FreedAfterOneRun`, `ErrorsHaveCauses`, `RunsReturn`. Bounds: blocks of 2, stretches of up to 2, a buffer of 3
and up to 3 bytes of code per block, inputs of up to 4: up to two blocks, a buffer that fills within a block
or across blocks, two runs on one handle or two.

**transfer.** `SumIsExact`: output, withheld bytes and `low` are the exact sum, through any carry. `CarryHasRoom`: a
byte put out never has to change. `SymbolsReadBack`: after every prefix of a message, every symbol the parser could
choose is read back from the contexts and bits it would be coded with. `MeaningIsText`: the bytes stand for the text
coded and end with their last byte. `OutputIsMeaning`, `ImplementsContract`: what comes out, and what each call takes,
makes and answers, does not depend on the pieces. `NeverOverreads`: the path without tests reads no byte behind the
input. `OnlyWrittenIsRead`: no damaged stream makes the decoder read a cell of the dictionary it never wrote.
`CallsReturn`. Bounds: base 4 and `kTopValue` 64, so that a message of eight symbols carries through three withheld
bytes; a dictionary of 5, which wraps; pieces of 1, 3, 7 bytes or all, room of 1 or 7; four messages with literals,
matches, all four repetitions, short repetitions and lengths of every range; cut, with a first byte that is not 0, with
a code out of range, or with one byte changed. `LZMA_REQUIRED_INPUT_MAX` is 10, the worst case of this width. Seen to
happen: several symbols in one stretch of the fast path, a symbol completed in `tempBuf` that gives bytes back, a match
cut by the limit. Never seen, because the dictionary is exactly as large as the properties say and the distances are
checked: a limit of `DecodeReal2` below that of `DecodeToDic`, its second round, and `remainLen` above
`kMatchSpecLenStart`.

**parser.** `MatchesAreReal` and `MatchesAreLongest`: whatever was searched or skipped before, in whatever order, the
pairs read are matches, grow in length and distance, and (if `cutValue` does not end the search) none is missed.
`SymbolsMakeText`: the symbols taken stand for the text up to `nowPos32`, the finder being `additionalOffset` ahead.
`PathsAreCoded`: each way in `opt`, with its double and triple steps, costs what its symbols cost and makes the text
that is there, and the parser's state and distances at `cur` are those that coding this way leads to.
`EveryStepAdvances`: each step codes, moves the finder or goes on to a later stage, and with the absence of deadlock
(checked; `Finished` is the only step at the end) every block is coded to its end. An index outside `opt` would be an
error of the evaluation. Bounds: all texts of 13 bytes over two letters up to their renaming (the first is 0), a
dictionary of 8 bytes (the window wraps), `kNumOpts` 9 (the table's end is reached), `numFastBytes` 5, matches up to 7,
seven settings of finder, cut value, parser and prices. Seen to happen: literal and repetition after a match as one
step, in the table's middle and at its end; the cap at `kNumOpts`; the loop ended by a match of `numFastBytes`, whose
length is kept; repetitions of the third and fourth distance; three pairs and more; in the fast parser the comparison
with the next byte, a shortened and a too distant pair. The library's handle only uses bt4 and `GetOptimum`
(`compress.c:27-58`); the others are a change of its settings away.

**tool.** `InputNeverLost`: at each moment, and so whenever the process is killed, the data are in the input or in
the output, unless one of the four faults happened in this run. `SuccessMeansWhole`: exit status 0 of a compression
without faults means a whole archive. A compression *with* faults may exit 0 and leave a cut one, its input deleted
(`fread`'s error taken for the end, `elzma.c:174`; the close unchecked, 312), and so may a killed or abandoned one. What the
property says of these is what a later run makes of what they left: exit status 0 of a decompression that could write
its last buffer means that the output is the text the archive was made from, never a part of it. The comparison of
lengths and CRC decides this: with the CRC alone an archive cut by a read error passes, since its CRC is that of what was
read. Two exceptions are in the property, and both are reached: a text of 2^32 bytes or more, whose length is cut, and an
archive in which no byte was coded, since the zeros of a footer that was not read are the length and the CRC of
nothing: such an lzip file is accepted, as an empty one, without its footer. `TextRecoverable`: after runs that
failed in any number and order, the text is there or an archive of it is whole. It is not obvious, since each run
empties its output first (`openFiles` does not heed `-f`) and the next may take the leftover for its input; the deletion in
`Abandon` is what prevents it. It ends with the first `mishap`: a killed run leaves a part of an archive
beside the text, decompressing that empties the text before it fails, and TLC finds the text lost. Bounds: three runs, so
that an archive is made, decompressed and made again, whole or cut; seven command lines with every flag; integers of 8
values and texts of 0, 2, 6, 8 and 9 bytes (8 reads as 0 and 9 as 1); proposed dictionaries of 4 to 16.

**Fairness.** `Transfer!Spec` has `WF_vars(Decode)`: the decoder is sequential code and runs on once called.
`FairSpec` of both handles is `WF_vars(Running)`: a run that can go on does, because it is sequential
code, provided the client's callbacks return. Nothing is assumed of `Start`, `Config` or `Free`, which are the
client's. Input is finite by the bound on it; a client that never ends its input is never answered.

**Deadlock** is checked except where the system really stops: in `transfer` a decoder that refused its input is not
called again, and in `tool` the user stops after `MaxRuns` runs. A handle can always be freed and allocated again.

### Disagreements between code and documentation

Six runs end in a violation. Each was reproduced with the library itself.

* `footer_split`: an intact lzip file whose last bytes come in a separate read is refused with
  `ELZMA_E_CRC32_MISMATCH`: the footer is parsed only if it lies in the buffer with the end mark (`decompress.c:211`).
* `stale_footer`: a file cut before its footer is accepted on a handle that decompressed the whole file before:
  `amt` is not what is left when the inner loop ends at line 198, and the footer is parsed from old bytes.
* `pending_output`: a complete `.lzma` file without end mark is called cut when its last input byte is taken while
  output is still owed: the loop reads again rather than call the decoder.
* `alloc_failure`: when the decoder's memory is refused the inner loop never ends (`decompress.c:131` ignores the
  result).
* `stale_format`: `elzma_compress_config` for lzip and then for lzma leaves the lzip handler; the output is lzip.
* `unknown_length`: an lzip file compressed without a configured length carries 0 in its footer, and the library's
  own decompressor answers `ELZMA_E_SIZE_MISMATCH`.

Met while reading, and not runs of their own: a second `elzma_compress_run` overwrites `encHand`, so that
`elzma_compress_free` frees the last encoder only (hence the condition in `FreedAfterOneRun`), and `elzma_compress_free`
never frees the handle's own block; the tool ignores `-f` and always overwrites (`elzma.c:30` says so, its usage does
not), so that a killed run and a decompression of what it left lose the text; no result of `deleteFile` or of the last
`fclose` is looked at; an lzip file with no coded byte is accepted without its footer; `1 < 13` in `elzma.c:102` makes the least
dictionary 1 byte where 8 KiB was meant, and `compress.c:293` speaks of
16 KiB where the code allows less; `lzma_header.c:113` composes the properties byte with the factors of lp and pb
confused (harmless while lp is 0, which the tool never changes); `lzma_header.c:35` accepts 225, which
`LzmaProps_Decode` then refuses; `lzip_header.c:41` rounds a dictionary down to a power of two, which the tool's sizes
are and a client's need not be.

## 4. What is proved

All theorems hold for all values of the constants that satisfy the assumptions of the modules, which TLC evaluates in
every run. They are about `Spec`, except those of `RangeCoderProofs` and `LzmaDecoderProofs`, which are about these
parts by themselves (`RangeSpec`, `DecoderSpec`), in any surroundings.

**DecompressProofs**: `TypeCorrect`, `AccountsAlwaysAgree`, `CallsAlwaysHaveRoom`, `OkAlwaysMeansComplete`,
`NothingIsLeaked`, `ErrorsAlwaysHaveCauses`, for all buffer sizes and all sets of well-formed files. The inductive
invariant is `TypeOK`, `LiveInv` (what is allocated at each stage), `RoomInv` (a call that leaves input behind met the
end mark or filled the output buffer, so `dstLen` is full at the next call), `AccountsInv`, `MarkInv` (the mark is only
met with everything made) and `OkMeansComplete` itself. The lemmas on `DecodeToBuf` (`DecodeBounds`,
`DecodeLeavesInput`, `DecodeMark`) are the contract of the decoder the loop needs; that `LzmaDecoder` keeps it is
proved in `ContractProofs`. For the return codes `CauseInv` is added to it (`CausesAreKept`): bad data are met no later than
where they end (`EndInv`), what is left of a read lies behind the end mark (`BufferInv`), the footer compared is the
file's if it was whole in the buffer (`FooterInv`), and the loop goes on only while the length in the header is not
reached (`LengthInv`). The proof made two things plain that the run alone had not: that the mark of a well-formed stream
comes *after* the byte that completes the last symbol before it (`WellFormed`), and the case of a header promising no
bytes named in section 3.

**MatchWindowProofs**: `TypeCorrect`, `HistoryIsRetained`, `LookaheadIsInBlock`, `LookaheadIsKept`, `LenLimitIsExact`,
`ReferencesAreExact`, for all sizes, any limit of positions and any stream. The inductive invariant ties `posLimit` to
the look ahead: before the limit `CheckLimits` need not run, and at it the look ahead is exactly `KeepSizeAfter`, so
that the test for equality in the code is never jumped over. `NormalizeAssumption` (`MaxVal` exceeds the dictionary and
the step) is what makes normalisation leave room.

**CompressProofs**: `TypeCorrect`, `BufferIsNotOverrun`, `OkAlwaysMeansComplete`, `ErrorsAlwaysHaveCauses`,
`OneRunIsFreed`, `SilenceAfterRefusal` (an action property). `InputInv` says that input has not run out unnoticed.
`BufferInv` is why the buffer is safe: after a refusal it holds fewer bytes than have left the range coder in this
block, since at least one was in the refused buffer, and at the entry of a block nothing has been refused. `StageInv`
ties `refused` to the range coder's sticky result, `LiveInv` what is allocated to the run of `encHand`. `EncodeInv`
proves the encoder's part for every step of `Encode` and is used as one fact by the handle's. `CauseInv` is what error
codes need: a read error is only reported when the input failed, a write error only when the range coder keeps one,
which `StageInv` makes a refusal of this run.

**RangeCoderProofs**: `TypeCorrect` (no integer leaves its width), `CarryFits`, `FirstByte`, for any base, width,
probabilities and sequence of decisions. The inductive invariant is `RangeTypeOK`, `Room` and `FirstByteIsZero`. `Room` is
the reason: while coding, `low + range` is at most 2 words, and at most one word where a carry would have no room (the
cache is the largest byte, or nothing is out yet); `low` is below a word once flushing has begun.

`CarriesAreNeverLost` (`SumIsExact`) is about the same constants and a history of any length. `Number` is a recursive
function over the bytes; `NumberOfAppend` says that a byte more is a digit more, by induction over the beginnings of the
sequence. `CarryAddsOne`, by induction over the withheld 0xFF bytes, is the heart: a carry that turns them into 0x00 and
adds 1 to `cache` adds exactly 1 to the number, which `Room` permits only where `cache` is not the largest byte.
`ShiftIsExact` then says that `RangeEnc_ShiftLow` multiplies by the base and loses nothing. The module opens with what all
proofs about the coders need of numbers: induction over the naturals stated for a set (the library's form takes an operator
as a parameter, which the provers cannot instantiate) and the powers of two up to 2^32, which `ToolProofs` has too.

**LzmaDecoderProofs**: `InputIsNotOverread` (`NeverOverreads`), `WrittenBeforeRead` (`OnlyWrittenIsRead`) and
`DecoderTypeCorrect`, of `DecoderSpec`: for any bytes whatever, in pieces of any sizes, with room of any size, any
dictionary and any numbers of bits. The inductive invariant `LzmaInv` (`LzmaInvariant`) has four parts.

* `KeptInv`, of what the handle keeps between calls, after an error too. `Filled`: until `checkDicSize` is set, exactly the
  first `processedPos` cells of the dictionary are written and `dicPos` is `processedPos`; afterwards all are.
  `DistancesOK`: every last distance leads at most as far back as what was written, except before the first symbol, where
  the state does not let a distance be used. `KeptOK`: `checkDicSize` is set before `dicPos` can wrap, which is why
  `LzmaDec_DecodeReal2` shortens its limit (`RealLimit`).
* `InputInv`, of the input: what `tempBuf` holds was taken, and never exceeds its 20 bytes, nor 5 before the start.
* `CallInv`, of the call: limits lie in the dictionary, and a call that failed does not go on.
* `LocalsInv`, of the locals of `LzmaDec_DecodeReal`. Its `RoomForSymbol` is why the path without tests is safe: at each
  symbol either enough bytes for any symbol are there (and one more when the interval is yet to be normalized), or
  `TryDummy` was asked and nothing has been read since.

Two chains of lemmas carry it. The first is about one symbol: `LeadsOn` to `TookLeads` say that each decision moves the
walk one place on through `SymbolWalk`'s graph, with direct bits nowhere but after the slot; `AdaptiveShrinks` and
`DirectShrinks` that a decision leaves at least the share `Narrowed` computes; `NarrowestDown` that less of the interval
never takes less input. Together (`WalkEnds`): every walk ends, within the bytes `Narrowest` allows, hence within
`LZMA_REQUIRED_INPUT_MAX`. The probabilities are bounded for this (`ProbabilityKept`), by what `Moved` can reach. The
second is about the dictionary: `CopiedWrites` and `RemWritten` that copying writes what it passes over and reads only
what was written, whether or not source and target overlap or wrap; `RepsKept`, `MatchReps` and `SymbolWritten` that a
symbol which is not refused keeps all of it. Assumed of the constants are `BitModelAssumption`, `SymbolAssumption` (the
numbers of bits, each as the code's are related), `DecoderAssumption` and `RequiredInputAssumption`. Nothing is assumed
of the bytes, of the encoder or of the caller, but that it hands over bytes that are there and does not call a decoder
again that refused its input, as the loop of `decompress.c` does not.

**TransferProofs**: `OutputIsRight` (`OutputIsMeaning`): whatever bytes arrive, in whatever pieces, with whatever room for
the output and whatever dictionary, the decoder gives out an initial part of what the bytes stand for. `LzmaInv` is carried
over to `Transfer!Spec` first (`TransferKeepsLzma`): what the coder's half does leaves the decoder alone. The inductive
invariant is `OutputInv` (`OutputInvariant`): the decoder either waits for the five bytes that start the range decoder
(`Waits`), or *follows* a reading `m` of the bytes, a step on the way to their meaning (`Follows`), or has given up with a
part of the meaning given out (`GivesUp`). To follow is two things. `SameText`: state and distances are the reading's, the
dictionary holds the text as far as it is written, and the rest of a match cut off by a limit repeats what lies before it.
`SamePlace`: the range decoder is where the reading's is, or behind an end mark that comes next. Four chains of lemmas carry
it:

* `TogetherOn`, `PieceWalk`: a symbol is read from a piece of the input as from the whole, or the piece does not hold it;
  walks over both are compared step by step (`SideBySide`).
* `SymbolTakes`, `ReadingsEnd`: each symbol takes a byte or some of the interval (`Spent` grows), so the reading ends
  within `MostSymbols`, and `MeaningIs` is more than a name.
* `SensibleText` to `EnlargedOK`: a symbol that makes sense lengthens the text by letters of its own or by letters that lie
  within the dictionary's reach, and keeps the reading in order (`OpenOK`).
* `HoldsCopy`, `RemAgrees`, `SymbolAgrees`, `UnfitIs`: the cyclic dictionary, the limit and `LzmaDec_WriteRem` do the same
  to the output as the reading does to the text, and what `LzmaDec_DecodeReal` refuses is what leads nowhere.

Nothing about the encoder is used: the bytes may be its own, a part of them, or damaged. The assumption that this adds
(`TransferAssumption`) is that the direct bits of an end mark take a byte of their own, as 26 bits do.

`SymbolsAgree` (`SymbolsReadBack`) is about both coders: wherever the encoder is, whatever symbol the parser chooses is read
back from the contexts and bits it would be coded with, and afterwards both have the same state and the same last
distances. Since the encoder never looks at the decoder's tables, this is where a disagreement about a context, a tree or a
class of lengths would be. The inductive invariant is `EncoderOK`, what the encoder knows: its text is made of letters, it
has four last distances and a state of the twelve, and the byte at the last distance exists whenever the next literal would
be coded against it. From it `SymbolReads` is proved for each kind of symbol and for every size of tree: flags
(`FlagReads`), literals, on their own or against a matched byte (`LiteralReads`), lengths in each of their three classes
(`LengthReads`), distances by slot, footer, direct and align bits (`DistanceReads`), and the last distances in any order.
`Reads` and its composition carry the four together: from a place of the walk, decisions lead to another place, each in
the context the decoder looks it up in. A tree is read back level by level: after k bits both sides are at the node
that the first k bits name (`TreeReads`, and `BackTreeReads` for the trees that start with the lowest bit).

**ContractProofs**: `RefinesContract` (`ImplementsContract`): seen from its caller, the decoder is `DecoderContract`. The
mapping is the identity on what both know (`taken`, `asked`, `ret`, and `Len(output)` for what was made); a call begins
and returns in one step each, and every other step of `LzmaDecoder` stutters (`ContractStep`). Two things must hold.

First, that the stream the contract is given is one: `MeaningIsStream` says that whatever bytes stand for is `WellFormed`,
with needs and gives in order and the end mark strictly behind the last symbol. The mark is what makes this hard. Its
distance is out of reach of any slot but the last (`Reach`, `MarkIsFar`), so that it is read with all the direct bits there
are; each halves the interval, and so many of them use it up (`Narrow`, `MarkTakesAByte`).

Second, that each return is an outcome of `StreamDecoder!DecodeToBuf` (`ReturnIsAllowed`). The inductive invariant is
`ServesInv` (`ServesInvariant`) on top of `LzmaInv` and `OutputInv`: `Accounts` (what was taken and what is left of the
input add up to what the call was given, and so for the room) with, for a decoder that follows a reading, what it still
owes (`Served`): it has begun with the reading's last symbol (`LastGive`), so that it did not take more than it had to; what
waits in `tempBuf` is less than the next symbol; an end mark is only looked for while there is room; and it leaves with
a status that has its reason (`Answers`). One that waits for its first five bytes has all there were (`Starting`), and
one that gives up has met what is bad within its input and with room left (`BrokenOff`). `Decompress` is checked and proved
over `StreamDecoder`, so with this theorem what it says of the loop holds over the real decoder.

**ToolProofs**: `DataNeverLost`, `SuccessIsWhole`, `TextStaysRecoverable`, `TypeCorrect`, for texts of any length, any
command lines, any number of runs and kills between any two steps. `ToolInv` follows the file *with* what `fwrite` still
holds (`Written`), since a flush or a spill only moves parts between the two: `CompressInv` says how much of the archive
is out at each step, with each distance inside the dictionary of the header; `DecompressInv` that byte `i` out is code
`i + 1` in; `InputIntact` that only `DeleteInput` touches the input. That the decoder's window is as large as the
encoder's dictionary (`WindowHolds`) rests on `elzma_get_dict_size` giving powers of two, which the lzip header keeps
exactly. That a whole archive which passes the comparison of lengths is read to its end (`VerifiedMeansAll`) uses that the
end mark can only be where the codes end.

`SuccessIsWhole` needs what outlives a run. `OriginInv` says that whatever is in an archive, wherever its writing stopped
and for whatever reason, says something of the text it was made from (`MadeFrom`): the header and the footer its length, the
i-th code its i-th byte. A prefix of such a file is such a file (`PrefixMade`), so the invariant survives every fault, kill
and failed deletion, and what passes the comparison is all of the text or nothing of it (`VerifiedMeansText`).
`TextStaysRecoverable` rests on `KeptInv`: without a mishap each file between two runs is absent, the text, or a whole
archive of the text (`KeptFile`); during a run this is true of all but the output, and of what the input held.
Assumed of the constants: `MaxLog < 31` (the code has 23) and `SizeWord` at most about
2^32, so that every size has at most 32 bits. `PropertiesReadBack` is about `Formats` alone: the byte
`serializeLzmaHeader` composes is taken apart into what it was made from exactly when `lp` is 0.

Only model-checked:

* liveness (`WorkingRunsReturn`, `RunsReturn`, `CallsReturn`), which needs fairness and `ENABLED`, out of the prover's reach;
* `MeaningIsText`, that what the encoder has written stands for the text it coded, to the last byte. That each symbol is
  read back is proved, and that the bytes are the sum of what was coded (`CarriesAreNeverLost`, for the coder alone, and
  `SumIsExact`, `CarryHasRoom` checked in `Transfer` too); what joins them, that a decoder stays in the interval of the
  encoder whatever follows, is checked. Without an end mark its last word ("and nothing follows") holds of the instances
  and not of every one: an interval which the last symbols hardly narrow may have room for one symbol more in the bytes
  written. The code settles this with the size in the header, not in the coder;
* `MatchTree` and `Optimum` (`MatchesAreReal`, `MatchesAreLongest`, `SymbolsMakeText`, `PathsAreCoded`,
  `EveryStepAdvances`), which are built on recursive definitions.

## 5. What is not modelled, and the plan

In order of what it adds:

1. `Window`, the abstract promise of the match finder (a cursor over a stream with bounded history), implemented by
   `MatchWindow`; and `Stream`, the promise of both handles (input consumed in order, output a prefix of the correct
   one, one answer), implemented by `Decompress` and `Compress`.
2. `MatchTree` and `Optimum` with recursive functions in place of recursive operators, and then a proof that every
   step of the parser advances and that every pair of the match finder is a match.
3. The price tables and when they are refreshed: bounded counters, no property of the output.

Left out for good: code that nothing in the library calls (`Bt3Zip` and `Hc3Zip`, the limits of `LzmaEnc_CodeOneBlock`
and `LzmaEnc_MemEncode`, `LzmaDecode` and `LZMA_FINISH_END`, the branch filters, `7z*.c`, `LzmaLib.c`); the CRC table and
`malloc` wrappers, which have no state; the allocation adapter, which passes on pointers; wording and progress output.
