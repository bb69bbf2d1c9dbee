------------------------------ MODULE Optimum -------------------------------
(***************************************************************************)
(* The parser of the encoder: GetOptimum and GetOptimumFast                *)
(* (src/src/pavlov/LzmaEnc.c), on the match finder of module MatchTree,    *)
(* and the loop of LzmaEnc_CodeOneBlock that takes its symbols one by one. *)
(*                                                                         *)
(* GetOptimum looks for the cheapest way through a stretch of the text.    *)
(* opt[k] is the cheapest known way to k bytes from its start: the symbol  *)
(* that ends there (backPrev) and where it begins (posPrev).  With         *)
(* prev1IsChar that symbol is a repetition of the last distance, a literal *)
(* comes before it, and with prev2 another symbol before that one.         *)
(*                                                                         *)
(* What a symbol costs depends on the probabilities; here it is any of the *)
(* functions Price(prices, symbol, place).  A symbol is as in SymbolCode.  *)
(***************************************************************************)
EXTENDS SymbolCode, MatchTree

LOCAL INSTANCE TLC

CONSTANTS
    Settings,                     \* of [mf, fast, prices]
    Price(_, _, _),
    kNumOpts,
    LZMA_MATCH_LEN_MAX,
    kPairFactor,                  \* ChangePair's 1 << 7
    FarForTwo, FarByOne, FarByTwo \* GetOptimumFast's 0x80, 1 << 9, 1 << 15

VARIABLES
    fast, prices,                 \* fastMode; the price tables
    pc,
    nowPos32, additionalOffset,
    reps, state,                  \* p->reps, p->state
    mainLen,                      \* what the last ReadMatchDistances returned
    longestMatchLength,
    opt, cur, lenEnd, optimumCurrentIndex, optimumEndIndex,
    back, len,                    \* *backRes and the result
    rounds,                       \* of Skip still to do
    coded                         \* the text the symbols coded so far stand for

coding == <<nowPos32, reps, state, coded>>
table == <<opt, cur, lenEnd, optimumCurrentIndex, optimumEndIndex>>
result == <<back, len, rounds>>
vars == <<mfVars, fast, prices, pc, coding, additionalOffset, mainLen, longestMatchLength,
          table, result>>

kInfinityPrice == 1000
Char == -1       \* backPrev of a literal

NumAvail == Available + 1          \* at the position whose matches were read
data == at - 1
Ahead == Least(NumAvail, LZMA_MATCH_LEN_MAX)
Sym(b, n) == [pos |-> b, len |-> n]
PriceOf(b, n, place) == Price(prices, Sym(b, n), place)

(* An entry of opt.  Fields that its flags make meaningless are written in  *)
(* the code only when they mean something; state and backs only at cur.     *)
Node(price, j, b, prev1IsChar, prev2, before, b2) ==
    [price |-> price, posPrev |-> j, backPrev |-> b, prev1IsChar |-> prev1IsChar,
     prev2 |-> prev2, posPrev2 |-> before, backPrev2 |-> b2,
     state |-> 0, backs |-> <<0, 0, 0, 0>>]
NoWay == Node(kInfinityPrice, 0, Char, FALSE, FALSE, 0, Char)

(* How far the text at the cursor repeats at one of the last distances.     *)
RepLen(rep, limit) ==
    IF Agree(data, rep + 1, 0, 2) < 2 THEN 0 ELSE Agree(data, rep + 1, 2, limit)

(* ReadMatchDistances: a match as long as the finder looks may be longer.   *)
LengthRead(found, i) ==
    LET last == found[Len(found)]
    IN  IF found = << >> THEN 0
        ELSE IF last.len # numFastBytes THEN last.len
        ELSE Agree(i, last.dist + 1, last.len, Least(TextLength(text) - i, LZMA_MATCH_LEN_MAX))

ReadMatchDistances ==
    /\ GetMatches
    /\ mainLen' = LengthRead(matches', at)
    /\ additionalOffset' = additionalOffset + 1

(* The distance for a length: of the first pair that is long enough.        *)
DistanceFor(found, n) ==
    found[CHOOSE k \in DOMAIN found :
            n <= found[k].len /\ \A j \in 1 .. k - 1 : found[j].len < n].dist

(* A symbol is chosen; MovePos leaves the bytes behind it to Skip.          *)
Choose(b, n, moves) ==
    /\ back' = b /\ len' = n /\ rounds' = moves
    /\ pc' = "move"
-----------------------------------------------------------------------------
(* LzmaEnc_CodeOneBlock up to its loop: the first byte is a literal.        *)
FirstByte ==
    /\ pc = "block"
    /\ GetMatches
    /\ coded' = <<text[at]>>
    /\ state' = AfterLiteral(state)
    /\ nowPos32' = 1
    /\ pc' = IF TextLength(text) = 1 THEN "coded" ELSE "call"
    /\ UNCHANGED <<fast, prices, reps, additionalOffset, mainLen, longestMatchLength,
                   table, result>>

(* The rest of the way found last time.                                     *)
TakePending ==
    /\ pc = "call" /\ ~fast
    /\ optimumEndIndex # optimumCurrentIndex
    /\ Choose(opt[optimumCurrentIndex].backPrev,
              opt[optimumCurrentIndex].posPrev - optimumCurrentIndex, 0)
    /\ optimumCurrentIndex' = opt[optimumCurrentIndex].posPrev
    /\ UNCHANGED <<mfVars, fast, prices, coding, additionalOffset, mainLen,
                   longestMatchLength, opt, cur, lenEnd, optimumEndIndex>>

(* The matches at the cursor, unless they were read already.                *)
KeptMatches ==
    /\ mainLen' = longestMatchLength
    /\ UNCHANGED <<mfVars, additionalOffset>>

Look ==
    /\ pc = "call"
    /\ fast \/ optimumEndIndex = optimumCurrentIndex
    /\ IF fast THEN UNCHANGED <<optimumCurrentIndex, optimumEndIndex>>
       ELSE optimumCurrentIndex' = 0 /\ optimumEndIndex' = 0
    /\ IF additionalOffset = 0 THEN ReadMatchDistances ELSE KeptMatches
    /\ pc' = IF fast THEN "fast" ELSE "first"
    /\ UNCHANGED <<fast, prices, coding, longestMatchLength, opt, cur, lenEnd, result>>
-----------------------------------------------------------------------------
(* Ways to k bytes: one symbol after j bytes, or a repetition of rep0 with  *)
(* a literal before it, or these two after another symbol.                  *)
One(k, price, j, b) ==
    [to |-> k, node |-> Node(price, j, b, FALSE, FALSE, 0, Char)]
LiteralRep0(k, price, j) ==
    [to |-> k, node |-> Node(price, j, 0, TRUE, FALSE, 0, Char)]
SymbolLiteralRep0(k, price, j, before, b) ==
    [to |-> k, node |-> Node(price, j, 0, TRUE, TRUE, before, b)]

(* The table grows to where the way leads, and keeps the cheaper one.       *)
Tried(t, way) ==
    LET grown == [k \in t.lenEnd + 1 .. way.to |-> NoWay] @@ t.opt
    IN  [opt |-> IF way.node.price < grown[way.to].price
                 THEN [grown EXCEPT ![way.to] = way.node] ELSE grown,
         lenEnd |-> Most(t.lenEnd, way.to)]

RECURSIVE TriedAll(_, _)
TriedAll(t, ways) ==
    IF ways = << >> THEN t ELSE TriedAll(Tried(t, Head(ways)), Tail(ways))

(* All lengths of a repetition, the longest first; of a match, from a least *)
(* length on.                                                               *)
RepWays(from, base, i, longest) ==
    [k \in 1 .. Most(longest - 1, 0) |->
        One(from + longest - k + 1, base + PriceOf(i, longest - k + 1, data), from, i)]

MatchWay(from, base, found, n) ==
    LET b == DistanceFor(found, n) + LZMA_NUM_REPS
    IN  One(from + n, base + PriceOf(b, n, data), from, b)

(* GetOptimum from the matches to the first ways.  A literal or a single    *)
(* repeated byte chosen at once leaves in opt only what is overwritten      *)
(* before it is read again.                                                 *)
RepLens == <<RepLen(reps[1], Ahead), RepLen(reps[2], Ahead),
             RepLen(reps[3], Ahead), RepLen(reps[4], Ahead)>>

BestRep(lens) ==
    CHOOSE i \in 1 .. LZMA_NUM_REPS :
        /\ \A j \in 1 .. LZMA_NUM_REPS : lens[j] <= lens[i]
        /\ \A j \in 1 .. i - 1 : lens[j] < lens[i]

FirstByteWay ==
    LET literal == PriceOf(Char, 1, data)
        short == PriceOf(0, 1, data)
    IN  IF text[data] = text[data - (reps[1] + 1)] /\ short < literal
        THEN One(1, short, 0, 0) ELSE One(1, literal, 0, Char)

FirstWays ==
    LET lens == RepLens
        from == IF lens[1] >= 2 THEN lens[1] + 1 ELSE 2
        start == [opt EXCEPT ![0].state = state, ![0].backs = reps]
    IN  TriedAll([opt |-> start, lenEnd |-> 0],
            <<FirstByteWay>>
            \o RepWays(0, 0, 0, lens[1]) \o RepWays(0, 0, 1, lens[2])
            \o RepWays(0, 0, 2, lens[3]) \o RepWays(0, 0, 3, lens[4])
            \o [k \in 1 .. Most(mainLen - from + 1, 0) |-> MatchWay(0, 0, matches, from + k - 1)])

First ==
    LET best == BestRep(RepLens)
        longest == RepLens[best]
    IN  /\ pc = "first"
        /\ IF NumAvail < 2
           THEN Choose(Char, 1, 0) /\ UNCHANGED table
           ELSE IF longest >= numFastBytes
           THEN Choose(best - 1, longest, longest - 1) /\ UNCHANGED table
           ELSE IF mainLen >= numFastBytes
           THEN /\ Choose(matches[Len(matches)].dist + LZMA_NUM_REPS, mainLen, mainLen - 1)
                /\ UNCHANGED table
           ELSE IF mainLen < 2 /\ longest < 2
           THEN Choose(FirstByteWay.node.backPrev, 1, 0) /\ UNCHANGED table
           ELSE /\ opt' = FirstWays.opt
                /\ lenEnd' = FirstWays.lenEnd
                /\ cur' = 0
                /\ pc' = "next"
                /\ UNCHANGED <<result, optimumCurrentIndex, optimumEndIndex>>
        /\ UNCHANGED <<mfVars, fast, prices, coding, additionalOffset, mainLen,
                       longestMatchLength>>
-----------------------------------------------------------------------------
(* Backward turns the links from the end of the way to its start around,    *)
(* putting in the literals and symbols that the double steps stand for.     *)
LiteralPut(o, k, posMem) ==
    IF o[k].prev1IsChar
    THEN [o EXCEPT ![posMem].backPrev = Char, ![posMem].prev1IsChar = FALSE,
                   ![posMem].posPrev = posMem - 1]
    ELSE o

StepsPut(o, k, posMem) ==
    IF o[k].prev1IsChar /\ o[k].prev2
    THEN [LiteralPut(o, k, posMem) EXCEPT
            ![posMem - 1].prev1IsChar = FALSE, ![posMem - 1].posPrev = o[k].posPrev2,
            ![posMem - 1].backPrev = o[k].backPrev2]
    ELSE LiteralPut(o, k, posMem)

LinkedBackOnly(node, k, b) == [node EXCEPT !.backPrev = b]
Linked(node, k, b) == [node EXCEPT !.backPrev = b, !.posPrev = k]

RECURSIVE Turned(_, _, _, _)
Turned(o, k, posMem, backMem) ==
    LET put == StepsPut(o, k, posMem)
        turned == [put EXCEPT ![posMem] = Linked(@, k, backMem)]
    IN  IF posMem = 0 THEN turned
        ELSE Turned(turned, posMem, put[posMem].posPrev, put[posMem].backPrev)

TurnedFrom(k) == Turned(opt, k, opt[k].posPrev, opt[k].backPrev)

Backward(k) ==
    /\ opt' = TurnedFrom(k)
    /\ optimumEndIndex' = k
    /\ optimumCurrentIndex' = TurnedFrom(k)[0].posPrev
    /\ Choose(TurnedFrom(k)[0].backPrev, TurnedFrom(k)[0].posPrev, 0)

(* The loop: on to the next byte, if the ways lead farther.                 *)
NextByte ==
    /\ pc = "next"
    /\ cur' = cur + 1
    /\ IF cur + 1 = lenEnd
       THEN Backward(cur + 1) /\ UNCHANGED <<mfVars, additionalOffset, mainLen>>
       ELSE /\ ReadMatchDistances
            /\ pc' = "relax"
            /\ UNCHANGED <<opt, optimumCurrentIndex, optimumEndIndex, result>>
    /\ UNCHANGED <<fast, prices, coding, longestMatchLength, lenEnd>>

(* State and distances after the cheapest way to cur, from those where its  *)
(* last symbols begin.                                                      *)
AfterBackOffByOne(s, b) == IF b <= LZMA_NUM_REPS THEN AfterRep(s) ELSE AfterMatch(s)
AfterBack(s, b) == IF b < LZMA_NUM_REPS THEN AfterRep(s) ELSE AfterMatch(s)

Settled ==
    LET c == opt[cur]
        double == c.prev1IsChar /\ c.prev2
        from == IF double THEN c.posPrev2
                ELSE IF c.prev1IsChar THEN c.posPrev - 1 ELSE c.posPrev
        s0 == opt[from].state
        s1 == IF double THEN AfterLiteral(AfterBack(s0, c.backPrev2))
              ELSE IF c.prev1IsChar THEN AfterLiteral(s0) ELSE s0
        single == c.posPrev = cur - 1 /\ ~c.prev1IsChar
        used == IF double THEN c.backPrev2 ELSE c.backPrev
    IN  IF single
        THEN [state |-> IF c.backPrev = 0 THEN AfterShortRep(s1) ELSE AfterLiteral(s1),
              backs |-> opt[cur - 1].backs]
        ELSE [state |-> IF double THEN AfterRep(s1) ELSE AfterBack(s1, c.backPrev),
              backs |-> RepsAfter(opt[from].backs, [pos |-> used])]

(* Longer ways from cur: the text at the cursor repeats for n bytes at a    *)
(* distance, and after one byte more for at least two.                      *)
AfterOneMore(delta, n, limit) == Agree(data, delta, n + 1, Least(n + 1 + numFastBytes, limit)) - (n + 1)

Longer(b, n, price, delta, limit) ==
    LET more == AfterOneMore(delta, n, limit)
    IN  IF more < 2 THEN << >>
        ELSE <<SymbolLiteralRep0(cur + n + 1 + more,
                   price + PriceOf(Char, 1, data + n) + PriceOf(0, more, data + n + 1),
                   cur + n + 1, cur, b)>>

Relaxed ==
    LET full == Least(NumAvail, kNumOpts - 1 - cur)
        limit == Least(full, numFastBytes)
        now == Settled
        settled == [opt EXCEPT ![cur].state = now.state, ![cur].backs = now.backs]
        base == opt[cur].price
        matchByte == text[data - (now.backs[1] + 1)]
        same == matchByte = text[data]
        literal == base + PriceOf(Char, 1, data)
        withLiteral == Tried([opt |-> settled, lenEnd |-> lenEnd], One(cur + 1, literal, cur, Char))
        there == withLiteral.opt[cur + 1]
        shortPrice == base + PriceOf(0, 1, data)
        short == /\ same
                 /\ ~(there.posPrev < cur /\ there.backPrev = 0)
                 /\ shortPrice <= there.price
        ones == IF short
                THEN [withLiteral EXCEPT !.opt[cur + 1] =
                        One(cur + 1, shortPrice, cur, 0).node]
                ELSE withLiteral
        nextIsChar == short \/ literal < opt[cur + 1].price
        delta0 == now.backs[1] + 1
        afterLiteral == AfterOneMore(delta0, 0, full)
        literalRep0 == IF nextIsChar \/ same \/ afterLiteral < 2 THEN << >>
                       ELSE <<LiteralRep0(cur + 1 + afterLiteral,
                                  literal + PriceOf(0, afterLiteral, data + 1), cur + 1)>>
        repLen(i) == RepLen(now.backs[i + 1], limit)
        repWays(i) ==
            IF repLen(i) < 2 THEN << >>
            ELSE RepWays(cur, base, i, repLen(i))
                 \o Longer(i, repLen(i), base + PriceOf(i, repLen(i), data),
                           now.backs[i + 1] + 1, full)
        startLen == IF repLen(0) < 2 THEN 2 ELSE repLen(0) + 1
        newLen == Least(mainLen, limit)
        found == IF mainLen <= limit THEN matches
                 ELSE Append(SelectSeq(matches, LAMBDA m : m.len < newLen),
                             [len |-> newLen, dist |-> DistanceFor(matches, newLen)])
        matchWays(n) ==
            LET way == MatchWay(cur, base, found, n)
            IN  IF \E k \in DOMAIN found : found[k].len = n
                THEN <<way>> \o Longer(way.node.backPrev, n, way.node.price,
                                       way.node.backPrev - LZMA_NUM_REPS + 1, full)
                ELSE <<way>>
        allMatchWays[n \in 0 .. newLen] ==
            IF n < startLen THEN << >> ELSE allMatchWays[n - 1] \o matchWays(n)
    IN  IF full < 2 THEN ones
        ELSE TriedAll(ones, literalRep0 \o repWays(0) \o repWays(1) \o repWays(2)
                            \o repWays(3) \o allMatchWays[newLen])

Relax ==
    /\ pc = "relax"
    /\ IF mainLen >= numFastBytes
       THEN /\ longestMatchLength' = mainLen
            /\ Backward(cur)
            /\ UNCHANGED <<cur, lenEnd>>
       ELSE /\ opt' = Relaxed.opt
            /\ lenEnd' = Relaxed.lenEnd
            /\ pc' = "next"
            /\ UNCHANGED <<longestMatchLength, result, cur, optimumCurrentIndex,
                           optimumEndIndex>>
    /\ UNCHANGED <<mfVars, fast, prices, coding, additionalOffset, mainLen>>
-----------------------------------------------------------------------------
(* GetOptimumFast: the longest match, unless a repetition is nearly as good *)
(* or the next byte begins a better one.                                    *)
ChangePair(small, big) == big \div kPairFactor > small

RECURSIVE Shortened(_)
Shortened(k) ==
    IF /\ k > 1
       /\ matches[k].len = matches[k - 1].len + 1
       /\ ChangePair(matches[k - 1].dist, matches[k].dist)
    THEN Shortened(k - 1) ELSE k

Fast ==
    LET repLens == RepLens
        best == BestRep(repLens)
        enough == {i \in 1 .. LZMA_NUM_REPS : repLens[i] >= numFastBytes}
        first == CHOOSE i \in enough : \A j \in enough : i <= j
        last == matches[Len(matches)]
        kept == matches[Shortened(Len(matches))]
        dist == IF mainLen < 2 THEN 0 ELSE kept.dist
        tooFar == kept.len = 2 /\ dist >= FarForTwo
        main == IF mainLen < 2 \/ tooFar THEN 1 ELSE kept.len
        rep == repLens[best]
    IN  /\ pc = "fast"
        /\ IF NumAvail < 2
           THEN Choose(Char, 1, 0)
           ELSE IF enough # {}
           THEN Choose(first - 1, repLens[first], repLens[first] - 1)
           ELSE IF mainLen >= numFastBytes
           THEN Choose(last.dist + LZMA_NUM_REPS, mainLen, mainLen - 1)
           ELSE IF rep >= 2 /\ \/ rep + 1 >= main
                               \/ rep + 2 >= main /\ dist >= FarByOne
                               \/ rep + 3 >= main /\ dist >= FarByTwo
           THEN Choose(best - 1, rep, rep - 1)
           ELSE IF main < 2 \/ Ahead <= 2
           THEN Choose(Char, 1, 0)
           ELSE back' = dist + LZMA_NUM_REPS /\ len' = main /\ pc' = "peek" /\ UNCHANGED rounds
        /\ UNCHANGED <<mfVars, fast, prices, coding, additionalOffset, mainLen,
                       longestMatchLength, table>>

Peek ==
    /\ pc = "peek"
    /\ ReadMatchDistances
    /\ longestMatchLength' = mainLen'
    /\ pc' = "compare"
    /\ UNCHANGED <<fast, prices, coding, table, result>>

Compare ==
    LET mainDist == back - LZMA_NUM_REPS
        newDist == matches[Len(matches)].dist
        better == longestMatchLength >= 2 /\
            \/ longestMatchLength >= len /\ newDist < mainDist
            \/ longestMatchLength = len + 1 /\ ~ChangePair(mainDist, newDist)
            \/ longestMatchLength > len + 1
            \/ longestMatchLength + 1 >= len /\ len >= 3 /\ ChangePair(newDist, mainDist)
        repeats == \E i \in 1 .. LZMA_NUM_REPS : RepLen(reps[i], len - 1) >= Most(len - 1, 2)
    IN  /\ pc = "compare"
        /\ IF better \/ repeats THEN Choose(Char, 1, 0) ELSE Choose(back, len, len - 2)
        /\ UNCHANGED <<mfVars, fast, prices, coding, additionalOffset, mainLen,
                       longestMatchLength, table>>
-----------------------------------------------------------------------------
(* MovePos.                                                                 *)
MovePos ==
    /\ pc = "move" /\ rounds > 0
    /\ Skip
    /\ rounds' = rounds - 1
    /\ additionalOffset' = additionalOffset + 1
    /\ UNCHANGED <<fast, prices, pc, coding, mainLen, longestMatchLength, table, back, len>>

(* The symbol is coded, by LzmaEnc_CodeOneBlock.                            *)
CodeSymbol ==
    LET sym == [pos |-> IF len = 1 /\ back = Char THEN -1 ELSE back, len |-> len,
                byte |-> text[at - additionalOffset]]
        offset == additionalOffset - len
    IN  /\ pc = "move" /\ rounds = 0
        /\ state' = StateAfter(state, sym)
        /\ reps' = RepsAfter(reps, sym)
        /\ coded' = TextAfter(coded, RepsAfter(reps, sym)[1], sym)
        /\ additionalOffset' = offset
        /\ nowPos32' = nowPos32 + len
        /\ pc' = IF offset = 0 /\ Available = 0 THEN "coded" ELSE "call"
        /\ UNCHANGED <<mfVars, fast, prices, mainLen, longestMatchLength, table, result>>

Init ==
    /\ \E s \in Settings : mf = s.mf /\ fast = s.fast /\ prices = s.prices
    /\ MatchFinderInit
    /\ pc = "block"
    /\ nowPos32 = 0 /\ reps = <<0, 0, 0, 0>> /\ state = 0 /\ coded = << >>
    /\ additionalOffset = 0 /\ mainLen = 0 /\ longestMatchLength = 0
    /\ opt = [k \in 0 .. kNumOpts - 1 |-> NoWay]
    /\ cur = 0 /\ lenEnd = 0 /\ optimumCurrentIndex = 0 /\ optimumEndIndex = 0
    /\ back = Char /\ len = 0 /\ rounds = 0

Finished == pc = "coded" /\ UNCHANGED vars

Next == \/ FirstByte \/ TakePending \/ Look \/ First \/ NextByte \/ Relax
        \/ Fast \/ Peek \/ Compare \/ MovePos \/ CodeSymbol \/ Finished

Spec == Init /\ [][Next]_vars
-----------------------------------------------------------------------------
(* The matches are those of the byte before the match finder's cursor.      *)
JustRead == pc \in {"first", "relax", "fast", "compare"}

(* Whatever GetMatches and Skip did before, in whatever order the parser    *)
(* called them, the pairs it reads are real (LzFind.c).                     *)
MatchesAreReal == JustRead => MatchesAreRealAt(at - 1)
(* And no long match is missed: the trees stay sorted when nodes leave them *)
(* or fall out of the window.                                               *)
MatchesAreLongest == JustRead => MatchesAreLongestAt(at - 1)

(* The symbols coded so far stand for the text so far, however far the      *)
(* parser looked ahead for them: additionalOffset is by how much.  And each *)
(* symbol is one that LzmaEnc_CodeOneBlock can code.                        *)
SymbolsMakeText ==
    /\ coded = [k \in 1 .. nowPos32 |-> text[k - 1]]
    /\ at = nowPos32 + additionalOffset
    /\ pc = "move" =>
        /\ len \in 1 .. LZMA_MATCH_LEN_MAX
        /\ len = 1 => back \in {Char, 0}
        /\ len > 1 => back >= 0

(* The symbols on the cheapest way to k bytes.                              *)
RECURSIVE PathTo(_)
PathTo(k) ==
    LET n == opt[k]
        symbol(b, m, to) == [pos |-> b, len |-> m, byte |-> text[nowPos32 + to - 1]]
    IN  IF k = 0 THEN << >>
        ELSE IF ~n.prev1IsChar
        THEN Append(PathTo(n.posPrev), symbol(n.backPrev, k - n.posPrev, k))
        ELSE (IF n.prev2
              THEN Append(PathTo(n.posPrev2),
                          symbol(n.backPrev2, n.posPrev - 1 - n.posPrev2, n.posPrev - 1))
              ELSE PathTo(n.posPrev - 1))
             \o <<symbol(Char, 1, n.posPrev), symbol(0, k - n.posPrev, k)>>

(* What coding a path does, from here.                                      *)
RECURSIVE Walk(_, _)
Walk(w, path) ==
    IF path = << >> THEN w
    ELSE LET sym == Head(path)
             rs == RepsAfter(w.reps, sym)
         IN  Walk([text |-> TextAfter(w.text, rs[1], sym), reps |-> rs,
                   state |-> StateAfter(w.state, sym),
                   price |-> w.price + PriceOf(sym.pos, sym.len, Len(w.text))], Tail(path))

WalkTo(k) == Walk([text |-> coded, reps |-> reps, state |-> state, price |-> 0], PathTo(k))

(* Every way in the table, the double steps too, costs what its symbols     *)
(* cost and makes the text that is there; and GetOptimum's own idea of the  *)
(* state and the last distances after the cheapest way to cur is what       *)
(* coding that way symbol by symbol arrives at.                             *)
PathsAreCoded ==
    pc = "next" =>
        /\ \A k \in 1 .. lenEnd :
            opt[k].price # kInfinityPrice =>
                LET w == WalkTo(k)
                IN  /\ w.price = opt[k].price
                    /\ w.text = [i \in 1 .. nowPos32 + k |-> text[i - 1]]
        /\ LET w == WalkTo(cur)
           IN  w.state = opt[cur].state /\ w.reps = opt[cur].backs

(* GetOptimum and the loop around it come to an end: every step codes bytes,*)
(* or moves the match finder on, or goes on to a later stage at this byte;  *)
(* and none but the last, with all bytes coded, has no successor.           *)
Stage == [block |-> 0, call |-> 1, first |-> 2, fast |-> 2, relax |-> 2, compare |-> 2,
          next |-> 3, peek |-> 3, move |-> 4, coded |-> 5]

StepAdvances ==
    \/ nowPos32' > nowPos32
    \/ nowPos32' = nowPos32 /\ at' > at
    \/ nowPos32' = nowPos32 /\ at' = at /\ Stage[pc'] > Stage[pc]

EveryStepAdvances == [][StepAdvances]_vars
=============================================================================
