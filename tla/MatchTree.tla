----------------------------- MODULE MatchTree ------------------------------
(***************************************************************************)
(* The match finder's hash tables, hash chains and binary trees            *)
(* (src/src/pavlov/LzFind.c).                                              *)
(*                                                                         *)
(* For the text at the cursor the finder returns pairs of a length and a   *)
(* distance (counted from 0), longer and farther from pair to pair.  It    *)
(* keeps for each hash value the last position that had it, and in `son'   *)
(* for each position of the window either the one before with the same     *)
(* hash (a chain, hc4) or two subtrees of earlier positions, one sorted    *)
(* before it and one after it (bt2, bt3, bt4).                             *)
(*                                                                         *)
(* The window itself is module MatchWindow's: here the whole text is at    *)
(* hand, `at' is the offset of the cursor, and pos and cyclicBufferPos     *)
(* follow from it.  The hash functions are scaled: a sum for the exclusive *)
(* or.  What the code relies on is kept (equal first bytes and equal hash  *)
(* of the first two or three make these bytes equal), and so is that texts *)
(* with other first bytes may collide.                                     *)
(***************************************************************************)
EXTENDS Integers, Sequences, FiniteSets

CONSTANTS
    Texts,          \* the texts to be coded, functions on 0 .. n - 1
    Letters,        \* the values of a byte: 0 .. Letters - 1
    HashSize,       \* entries of a hash table, at least Letters ^ 2
    HistorySize,    \* historySize, the dictionary size
    numFastBytes    \* matchMaxLen

VARIABLES
    text,
    mf,        \* [btMode, numHashBytes, cutValue]
    at,        \* p->buffer: offset of the cursor
    hash,      \* hash[n] is the table for the first n bytes
    son,       \* [slot, side]: side 0 is pair[0] or the chain, side 1 is pair[1]
    matches    \* what the last GetMatches returned: <<[len, dist], ...>>

mfVars == <<text, mf, at, hash, son, matches>>

cyclicBufferSize == HistorySize + 1
kEmptyHashValue == 0

Least(a, b) == IF a < b THEN a ELSE b
Most(a, b) == IF a < b THEN b ELSE a

TextLength(t) == Cardinality(DOMAIN t)
Available == TextLength(text) - at           \* streamPos - pos
pos == at + cyclicBufferSize
lenLimit == Least(Available, numFastBytes)
Slot(delta) == (at - delta) % cyclicBufferSize

(* The loops that compare: the first n, from a given one on, at which the   *)
(* text at i and the text delta before it differ or that reaches the limit. *)
Agree(i, delta, from, limit) ==
    CHOOSE n \in from .. Most(from, limit) :
        /\ n >= limit \/ text[i + n] # text[i + n - delta]
        /\ \A k \in from .. n - 1 : text[i + k] = text[i + k - delta]

(* crc[b0] ^ b1, and on with b2 and b3: HASH2_CALC, HASH3_CALC, HASH4_CALC. *)
Crc(byte) == (Letters - 1) * byte

HashOf(n) ==
    LET b(k) == text[at + k]
        hash2 == Crc(b(0)) + b(1)
        hash3 == hash2 + Letters * b(2)
    IN  CASE mf.numHashBytes = 2 -> b(0) + Letters * b(1)
          [] mf.numHashBytes > 2 /\ n = 2 -> hash2 % HashSize
          [] mf.numHashBytes > 2 /\ n = 3 -> hash3 % HashSize
          [] mf.numHashBytes > 2 /\ n = 4 -> (hash3 + Crc(b(3)) * 3) % HashSize

MatchFinderInit ==
    /\ text \in Texts
    /\ at = 0
    /\ hash = [n \in 2 .. mf.numHashBytes |-> [h \in 0 .. HashSize - 1 |-> kEmptyHashValue]]
    /\ son = [x \in (0 .. cyclicBufferSize - 1) \X {0, 1} |-> kEmptyHashValue]
    /\ matches = << >>
-----------------------------------------------------------------------------
(* A reference is followed only if it is less than a window back.           *)
OutOfWindow(delta) == delta >= cyclicBufferSize

Delta(n) == pos - hash[n][HashOf(n)]
NearUnchecked(delta) == ~OutOfWindow(delta)
Near(delta) == ~OutOfWindow(delta) /\ text[at - delta] = text[at]
Pair(len, delta) == [len |-> len, dist |-> delta - 1]

(* The heads of Bt3, Bt4 and Hc4: a match of two and a farther one of three *)
(* bytes straight from the hash tables, the last of them as long as it is.  *)
HeadMatches ==
    LET two == IF mf.numHashBytes > 2 /\ Near(Delta(2)) THEN <<Pair(2, Delta(2))>>
               ELSE << >>
        three == IF mf.numHashBytes > 3 /\ Delta(2) # Delta(3) /\ Near(Delta(3))
                 THEN <<Pair(3, Delta(3))>> ELSE << >>
        both == two \o three
        n == Len(both)
    IN  IF n = 0 THEN both
        ELSE [both EXCEPT ![n].len = Agree(at, both[n].dist + 1, both[n].len, lenLimit)]

(* A node equal up to lenLimit leaves the tree: the new one takes over both *)
(* its subtrees.                                                            *)
InheritedSwapped(sons, ptr0, ptr1, slot) ==
    [sons EXCEPT ![ptr1] = sons[<<slot, 1>>], ![ptr0] = sons[<<slot, 0>>]]

Inherited(sons, ptr0, ptr1, slot) ==
    [sons EXCEPT ![ptr1] = sons[<<slot, 0>>], ![ptr0] = sons[<<slot, 1>>]]

(* GetMatchesSpec1, and SkipMatchesSpec, which does the same to the tree    *)
(* and reports nothing: down from the last position with the same hash,     *)
(* dividing what is there into the texts before (ptr1) and after (ptr0) the *)
(* one at the cursor.                                                       *)
RECURSIVE Descend(_)
Descend(w) ==
    LET delta == pos - w.curMatch
        slot == Slot(delta)
        len == Agree(at, delta, Least(w.len0, w.len1), lenLimit)
        seen == IF len > w.maxLen
                THEN [w EXCEPT !.maxLen = len, !.found = Append(@, Pair(len, delta))]
                ELSE w
    IN  IF w.cut = 0 \/ OutOfWindow(delta)
        THEN [w EXCEPT !.son = [@ EXCEPT ![w.ptr0] = kEmptyHashValue,
                                         ![w.ptr1] = kEmptyHashValue]]
        ELSE IF len = lenLimit
        THEN [seen EXCEPT !.son = Inherited(@, w.ptr0, w.ptr1, slot)]
        ELSE IF text[at - delta + len] < text[at + len]
        THEN Descend([seen EXCEPT !.son[w.ptr1] = w.curMatch, !.ptr1 = <<slot, 1>>,
                                  !.curMatch = w.son[<<slot, 1>>],
                                  !.len1 = len, !.cut = @ - 1])
        ELSE Descend([seen EXCEPT !.son[w.ptr0] = w.curMatch, !.ptr0 = <<slot, 0>>,
                                  !.curMatch = w.son[<<slot, 0>>],
                                  !.len0 = len, !.cut = @ - 1])

(* Hc_GetMatchesSpec: along the chain, looking closer only at a text whose  *)
(* first byte agrees and the one after the longest match so far.            *)
RECURSIVE Follow(_)
Follow(w) ==
    LET delta == pos - w.curMatch
        promising == /\ text[at + w.maxLen] = text[at + w.maxLen - delta]
                     /\ text[at] = text[at - delta]
        len == Agree(at, delta, 1, lenLimit)
        seen == IF promising /\ len > w.maxLen
                THEN [w EXCEPT !.maxLen = len, !.found = Append(@, Pair(len, delta))]
                ELSE w
    IN  IF w.cut = 0 \/ OutOfWindow(delta) \/ w.maxLen = lenLimit THEN w
        ELSE Follow([seen EXCEPT !.curMatch = w.son[<<Slot(delta), 0>>], !.cut = @ - 1])

(* The walk from the main hash table with a length to beat; with lenLimit   *)
(* there is nothing to beat, as in Skip.                                    *)
Walked(maxLen) ==
    LET start == [son |-> son, curMatch |-> hash[mf.numHashBytes][HashOf(mf.numHashBytes)],
                  cut |-> mf.cutValue, maxLen |-> maxLen, found |-> << >>,
                  ptr0 |-> <<Slot(0), 1>>, ptr1 |-> <<Slot(0), 0>>, len0 |-> 0, len1 |-> 0]
    IN  IF mf.btMode THEN Descend(start)
        ELSE Follow([start EXCEPT !.son[<<Slot(0), 0>>] = start.curMatch])

Entered(tables) == [n \in 2 .. mf.numHashBytes |-> [tables[n] EXCEPT ![HashOf(n)] = pos]]

(* Bt2_, Bt3_, Bt4_ and Hc4_MatchFinder_GetMatches.  What is too short for  *)
(* the hash is passed over.                                                 *)
Searched ==
    LET head == HeadMatches
        longest == IF head = << >> THEN 0 ELSE head[Len(head)].len
        walk == Walked(Most(longest, mf.numHashBytes - 1))
    IN  [matches |-> head \o walk.found, son |-> walk.son]

GetMatches ==
    /\ IF lenLimit < mf.numHashBytes
       THEN matches' = << >> /\ UNCHANGED <<hash, son>>
       ELSE /\ matches' = Searched.matches
            /\ hash' = Entered(hash)
            /\ son' = Searched.son
    /\ at' = at + 1
    /\ UNCHANGED <<text, mf>>

(* One round of Bt2_, Bt3_, Bt4_ and Hc4_MatchFinder_Skip.                  *)
Skip ==
    /\ IF lenLimit < mf.numHashBytes THEN UNCHANGED <<hash, son>>
       ELSE /\ hash' = Entered(hash)
            /\ son' = Walked(lenLimit).son
    /\ at' = at + 1
    /\ UNCHANGED <<text, mf, matches>>
-----------------------------------------------------------------------------
(* The matches are those of the position before the cursor, while nothing   *)
(* has been skipped since.                                                  *)
LimitAt(i) == Least(TextLength(text) - i, numFastBytes)
CommonLength(i, delta) == Agree(i, delta, 0, LimitAt(i))
Window(i) == 1 .. Least(i, HistorySize)

(* Whatever the trees, chains and hash collisions, what GetMatches returns  *)
(* is there: within the dictionary, and the same bytes over the whole       *)
(* length.  Lengths and distances grow, which the parser takes for granted  *)
(* when it looks for the first pair that is long enough.                    *)
MatchesAreRealAt(i) ==
    /\ \A k \in DOMAIN matches :
        /\ matches[k].dist + 1 \in Window(i)
        /\ matches[k].len >= 2
        /\ matches[k].len <= CommonLength(i, matches[k].dist + 1)
    /\ \A k \in 1 .. Len(matches) - 1 :
        /\ matches[k].len < matches[k + 1].len
        /\ matches[k].dist < matches[k + 1].dist

(* If cutValue does not end the walk, no match of numHashBytes or more is   *)
(* missed: for every such length that occurs in the dictionary, the first   *)
(* pair that is long enough has the nearest occurrence.                     *)
MatchesAreLongestAt(i) ==
    mf.cutValue >= cyclicBufferSize =>
        \A len \in mf.numHashBytes .. LimitAt(i) :
            LET there == {d \in Window(i) : CommonLength(i, d) >= len}
                long == {k \in DOMAIN matches : matches[k].len >= len}
            IN  there # {} =>
                    /\ long # {}
                    /\ LET first == CHOOSE k \in long : \A j \in long : k <= j
                       IN  \A d \in there : matches[first].dist + 1 <= d
=============================================================================
