---------------------------- MODULE MatchWindow ----------------------------
(***************************************************************************)
(* The sliding window of the match finder (src/src/pavlov/LzFind.c).       *)
(*                                                                         *)
(* The compressor reads the client's stream into one buffer of BlockSize   *)
(* bytes.  `buffer' is the cursor in it, `pos' the same cursor counted in  *)
(* a 32-bit position that is renormalised before it overflows, and         *)
(* `streamPos' the position of the end of what has been read.  The hash    *)
(* and son tables hold positions; a reference is followed only when it is  *)
(* less than CyclicBufferSize behind `pos'.                                *)
(*                                                                         *)
(* Data is abstracted to stream offsets: mem[i] is the offset in the       *)
(* stream of the byte that lies at bufferBase[i].  `at' and `headAt' are   *)
(* history variables: the stream offset of the cursor, and the offset at   *)
(* which each hash entry was last written.  Only differences of streamPos  *)
(* and pos are used by the code, so streamPos is kept unwrapped.           *)
(***************************************************************************)
EXTENDS Integers

CONSTANTS
    HistorySize,     \* dictionary size
    KeepAddBefore,   \* keepAddBufferBefore: kNumOpts in LzmaEnc.c
    MatchMaxLen,     \* matchMaxLen: numFastBytes in LzmaEnc.c
    KeepAddAfter,    \* keepAddBufferAfter: LZMA_MATCH_LEN_MAX in LzmaEnc.c
    Reserve,         \* sizeReserv
    MinLen,          \* numHashBytes
    MaxVal,          \* kMaxValForNormalize
    NormalizeStep,   \* kNormalizeStepMin
    Hashes,          \* entries of the hash tables
    StreamMax        \* bound on the bytes the client's stream can deliver

ASSUME SizesAssumption ==
    /\ HistorySize \in Nat
    /\ KeepAddBefore \in Nat
    /\ MatchMaxLen \in Nat
    /\ KeepAddAfter \in Nat
    /\ Reserve \in Nat \ {0}
    /\ MinLen \in Nat \ {0}
    /\ StreamMax \in Nat

ASSUME NormalizeAssumption ==
    /\ NormalizeStep \in Nat \ {0}
    /\ MaxVal \in Nat
    /\ MaxVal > HistorySize + 1 + NormalizeStep

VARIABLES
    open,                \* MatchFinder_Init has run
    buffer,              \* buffer - bufferBase
    pos, streamPos, posLimit, lenLimit, cyclicBufferPos,
    streamEndWasReached,
    result,              \* p->result = SZ_OK
    mem,                 \* what each byte of the buffer holds
    hash,                \* hash value -> position, kEmptyHashValue when none
    at, headAt           \* history variables

vars == <<open, buffer, pos, streamPos, posLimit, lenLimit, cyclicBufferPos,
          streamEndWasReached, result, mem, hash, at, headAt>>

KeepSizeBefore   == HistorySize + KeepAddBefore + 1
KeepSizeAfter    == MatchMaxLen + KeepAddAfter
BlockSize        == KeepSizeBefore + KeepSizeAfter + Reserve
CyclicBufferSize == HistorySize + 1
kEmptyHashValue  == 0
None             == -1   \* no stream byte, no insertion

Least(a, b) == IF a < b THEN a ELSE b

Available == streamPos - pos
-----------------------------------------------------------------------------
(* The state after MatchFinder_Create: a block of memory and nothing read. *)
Init ==
    /\ open = FALSE
    /\ buffer = 0
    /\ pos = CyclicBufferSize
    /\ streamPos = CyclicBufferSize
    /\ posLimit = 0
    /\ lenLimit = 0
    /\ cyclicBufferPos = 0
    /\ streamEndWasReached = FALSE
    /\ result = TRUE
    /\ mem = [i \in 0 .. BlockSize - 1 |-> None]
    /\ hash = [h \in Hashes |-> kEmptyHashValue]
    /\ at = 0
    /\ headAt = [h \in Hashes |-> None]

(* MatchFinder_ReadBlock on a cursor b with avail bytes ahead of it, got    *)
(* bytes of the stream read so far.  It calls the client's Read until more  *)
(* than KeepSizeAfter bytes are ahead, the block is full, the stream ends   *)
(* or Read fails; n counts the bytes that all its calls delivered.          *)
ReadBlockEager(b, avail, got) ==
    LET space == BlockSize - (b + avail) IN
    { r \in [n : 0 .. space, end : BOOLEAN, fail : BOOLEAN] :
        /\ got + r.n <= StreamMax
        /\ ~(r.end /\ r.fail)
        /\ r.n = 0 => r.end \/ r.fail \/ space = 0
        /\ (r.end \/ r.fail) => r.n < space }

ReadBlock(b, avail, got) ==
    LET space == BlockSize - (b + avail) IN
    { r \in [n : 0 .. space, end : BOOLEAN, fail : BOOLEAN] :
        /\ got + r.n <= StreamMax
        /\ ~(r.end /\ r.fail)
        /\ \/ /\ ~r.end /\ ~r.fail
              /\ \/ r.n > 0 /\ avail + r.n > KeepSizeAfter
                 \/ r.n = space
           \/ /\ r.end \/ r.fail
              /\ r.n < space
              /\ r.n = 0 \/ avail + r.n <= KeepSizeAfter }

(* The bytes Read delivers land behind those already ahead of the cursor.   *)
Filled(m, b, avail, got, n) ==
    [i \in 0 .. BlockSize - 1 |->
        IF b + avail <= i /\ i < b + avail + n THEN got + i - (b + avail)
        ELSE m[i]]

NeedMove(b) == BlockSize - b <= KeepSizeAfter

(* memmove of KeepSizeBefore bytes behind the cursor and all those ahead.   *)
MovedOffByOne(m, b, avail) ==
    [i \in 0 .. BlockSize - 1 |->
        IF 0 < i /\ i < KeepSizeBefore + avail THEN m[b - KeepSizeBefore + i] ELSE m[i]]

MovedShort(m, b, avail) ==
    [i \in 0 .. BlockSize - 1 |->
        IF i < KeepSizeBefore THEN m[b - KeepSizeBefore + i] ELSE m[i]]

Moved(m, b, avail) ==
    [i \in 0 .. BlockSize - 1 |->
        IF i < KeepSizeBefore + avail THEN m[b - KeepSizeBefore + i] ELSE m[i]]

(* How many positions may be passed before CheckLimits must run again.      *)
LimitIgnoringTail(p, sp, c) ==
    LET ahead == IF sp - p <= KeepSizeAfter THEN sp - p
                 ELSE sp - p - KeepSizeAfter
    IN  Least(Least(MaxVal - p, CyclicBufferSize - c), ahead)

Limit(p, sp, c) ==
    LET ahead == IF sp - p <= KeepSizeAfter THEN Least(sp - p, 1)
                 ELSE sp - p - KeepSizeAfter
    IN  Least(Least(MaxVal - p, CyclicBufferSize - c), ahead)

SetLimits(p, sp, c) ==
    /\ lenLimit' = Least(sp - p, MatchMaxLen)
    /\ posLimit' = p + Limit(p, sp, c)

(* MatchFinder_Init, also called again for the next stream of an encoder.   *)
MatchFinder_Init ==
    \E r \in ReadBlock(0, 0, 0) :
        /\ open' = TRUE
        /\ buffer' = 0
        /\ cyclicBufferPos' = 0
        /\ pos' = CyclicBufferSize
        /\ streamPos' = CyclicBufferSize + r.n
        /\ streamEndWasReached' = r.end
        /\ result' = ~r.fail
        /\ mem' = Filled(mem, 0, 0, 0, r.n)
        /\ hash' = [h \in Hashes |-> kEmptyHashValue]
        /\ SetLimits(CyclicBufferSize, CyclicBufferSize + r.n, 0)
        /\ at' = 0
        /\ headAt' = [h \in Hashes |-> None]

(* (pos - historySize - 1) & kNormalizeMask: the largest multiple of the    *)
(* step that leaves historySize + 1 positions.                              *)
SubValueTooLarge(p) == p - HistorySize

SubValue(p) == (p - HistorySize - 1) - ((p - HistorySize - 1) % NormalizeStep)

(* MatchFinder_Normalize3 on every reference.                               *)
NormalizedKeepingOld(refs, sub) ==
    [h \in Hashes |-> IF refs[h] <= sub THEN refs[h] ELSE refs[h] - sub]

Normalized(refs, sub) ==
    [h \in Hashes |-> IF refs[h] <= sub THEN kEmptyHashValue ELSE refs[h] - sub]

(* MatchFinder_CheckLimits, run with the cursor already advanced to buffer  *)
(* b, position p and cyclic position c, with the table refs.                *)
CheckLimits(b, p, c, refs) ==
    LET sub   == IF p = MaxVal THEN SubValue(p) ELSE 0
        ahead == streamPos - p
        check == ~streamEndWasReached /\ KeepSizeAfter = ahead
        moved == check /\ NeedMove(b)
        b2    == IF moved THEN KeepSizeBefore ELSE b
        mem2  == IF moved THEN Moved(mem, b, ahead) ELSE mem
        got   == at + Available
        c2    == IF c = CyclicBufferSize THEN 0 ELSE c
        reads == IF check /\ result THEN ReadBlock(b2, ahead, got)
                 ELSE {[n |-> 0, end |-> streamEndWasReached, fail |-> ~result]}
    IN  \E r \in reads :
            /\ buffer' = b2
            /\ pos' = p - sub
            /\ streamPos' = streamPos - sub + r.n
            /\ streamEndWasReached' = r.end
            /\ result' = ~r.fail
            /\ mem' = Filled(mem2, b2, ahead, got, r.n)
            /\ hash' = IF p = MaxVal THEN Normalized(refs, sub) ELSE refs
            /\ cyclicBufferPos' = c2
            /\ SetLimits(p - sub, streamPos - sub + r.n, c2)

(* MOVE_POS with the table refs: one byte further, and the checks when the  *)
(* limit is reached.                                                        *)
MovePos(refs) ==
    /\ open /\ Available > 0
    /\ at' = at + 1
    /\ open' = open
    /\ IF pos + 1 = posLimit
       THEN CheckLimits(buffer + 1, pos + 1, cyclicBufferPos + 1, refs)
       ELSE /\ buffer' = buffer + 1
            /\ pos' = pos + 1
            /\ cyclicBufferPos' = cyclicBufferPos + 1
            /\ hash' = refs
            /\ UNCHANGED <<streamPos, posLimit, lenLimit, streamEndWasReached,
                           result, mem>>

(* The position v is entered in the entries hs of a table.                  *)
Entered(table, hs, v) == [h \in Hashes |-> IF h \in hs THEN v ELSE table[h]]

(* GetMatches or one round of Skip with MinLen bytes to compare: the        *)
(* position is entered under the hashes of the bytes at the cursor, which   *)
(* are one for Bt2 and three, of 2, 3 and 4 bytes, for Bt4 and Hc4.         *)
Insert(hs) ==
    /\ lenLimit >= MinLen
    /\ headAt' = Entered(headAt, hs, at)
    /\ MovePos(Entered(hash, hs, pos))

(* GetMatches or Skip too near the end of the stream.                       *)
PassOver ==
    /\ lenLimit < MinLen
    /\ MovePos(hash)
    /\ UNCHANGED headAt

Next ==
    \/ MatchFinder_Init
    \/ \E hs \in SUBSET Hashes \ {{}} : Insert(hs)
    \/ PassOver

Spec == Init /\ [][Next]_vars
-----------------------------------------------------------------------------
TypeOK ==
    /\ open \in BOOLEAN
    /\ buffer \in 0 .. BlockSize
    /\ pos \in CyclicBufferSize .. MaxVal - 1
    /\ streamPos \in Nat
    /\ posLimit \in Nat
    /\ lenLimit \in 0 .. MatchMaxLen
    /\ cyclicBufferPos \in 0 .. CyclicBufferSize - 1
    /\ streamEndWasReached \in BOOLEAN
    /\ result \in BOOLEAN
    /\ mem \in [0 .. BlockSize - 1 -> Int]
    /\ hash \in [Hashes -> 0 .. MaxVal - 1]
    /\ at \in Nat
    /\ headAt \in [Hashes -> Nat \cup {None}]

(* Everything the encoder may look back at -- the dictionary and the        *)
(* KeepAddBefore positions its optimal parser lags behind the cursor -- is  *)
(* still in the buffer, at its place, after any number of block moves       *)
(* (MatchFinder_MoveBlock, MatchFinder_NeedMove).                           *)
HistoryRetained ==
    \A d \in 1 .. KeepSizeBefore :
        d <= at => d <= buffer /\ mem[buffer - d] = at - d

(* Everything announced as available ahead of the cursor lies inside the    *)
(* block and is the stream's next bytes in order: no read overruns the      *)
(* block, no byte is lost or read twice (MatchFinder_ReadBlock).            *)
LookaheadInBlock ==
    /\ 0 <= Available
    /\ buffer + Available <= BlockSize
    /\ \A i \in buffer .. buffer + Available - 1 : mem[i] = at + (i - buffer)

(* Until the stream ends or its Read fails, more than KeepSizeAfter bytes   *)
(* are ahead of every position the encoder asks about, so no match is cut   *)
(* short by a slow reader (MatchFinder_CheckLimits' test for equality is    *)
(* never jumped over).                                                      *)
LookaheadKept ==
    open /\ ~streamEndWasReached /\ result => Available > KeepSizeAfter

(* lenLimit, which SetLimits computes once per stretch of positions, is at  *)
(* every position of the stretch the exact number of bytes a match may be   *)
(* compared over: never past the data, never less than there is.            *)
LenLimitExact ==
    open => lenLimit = Least(Available, MatchMaxLen)

(* A table entry passes the matcher's test (delta < cyclicBufferSize)       *)
(* exactly when its position was entered at most HistorySize bytes ago, and *)
(* then delta is the true distance: normalisation of the 32-bit positions   *)
(* neither loses a usable reference nor revives a dead one.                 *)
ReferencesExact ==
    \A h \in Hashes :
        LET delta == pos - hash[h]
            true  == headAt[h] # None /\ at - headAt[h] <= HistorySize
        IN  /\ (delta < CyclicBufferSize) <=> true
            /\ true => delta = at - headAt[h]
=============================================================================
