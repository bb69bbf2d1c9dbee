--------------------------- MODULE ContractProofs ---------------------------
(***************************************************************************)
(* Transfer implements DecoderContract, for every size of the integers and *)
(* of the buffers, every byte and every division of the input and of the   *)
(* room: a caller of LzmaDec_DecodeToBuf that relies on the contract, as   *)
(* Decompress does, relies on what LzmaDecoder does.                       *)
(***************************************************************************)
EXTENDS TransferProofs

(* What a call has been asked for, and how much of it is still to be done.  *)
Accounts ==
    pc # "idle" =>
        /\ asked.amt \in Nat \ {0} /\ asked.dst \in Nat \ {0}
        /\ asked.fed \in Nat /\ asked.made \in Nat
        /\ taken + io.inSize = asked.fed + asked.amt
        /\ Len(output) + io.outSize = asked.made + asked.dst
        /\ asked.made <= Len(output) /\ io.outSize > 0
        /\ pc # "toBuf" => /\ io.dicLimit = AtMost(DicBufSize, io.dicPos + io.outSize)
                           /\ io.dicPos < DicBufSize

(* A call opens its account, ...                                            *)
LEMMA CallAccounts ==
    ASSUME LzmaInv, NEW amt \in Nat \ {0}, NEW dst \in Nat \ {0}, Call(amt, dst)
    PROVE  Accounts'
  <1>1. /\ taken \in Nat /\ Len(output) \in Nat
        /\ io \in [inSize : Nat, outSize : Nat, dicPos : 0 .. DicBufSize,
                   dicLimit : 0 .. DicBufSize]
    BY FollowsTypes
  <1>2. /\ io' = [io EXCEPT !.inSize = amt, !.outSize = dst] /\ pc' = "toBuf"
        /\ asked' = [fed |-> taken, made |-> Len(output), amt |-> amt, dst |-> dst]
        /\ taken' = taken /\ output' = output
    BY DEF Call
  <1>3. io'.inSize = amt /\ io'.outSize = dst
    BY <1>1, <1>2
  <1>4. /\ asked'.fed = taken /\ asked'.made = Len(output) /\ asked'.amt = amt
        /\ asked'.dst = dst
    BY <1>2
  <1> QED
    BY <1>1, <1>2, <1>3, <1>4 DEF Accounts

(* ... each round of LzmaDec_DecodeToBuf books what it has made, ...        *)
LEMMA LeaveAccounts ==
    ASSUME LzmaInv, Accounts, LeaveDecodeToDic
    PROVE  Accounts'
  <1> DEFINE made == p.dicPos - io.dicPos
  <1>1. /\ Len(output) \in Nat /\ p.dicPos \in 0 .. DicBufSize /\ DicBufSize \in Nat
        /\ io \in [inSize : Nat, outSize : Nat, dicPos : 0 .. DicBufSize,
                   dicLimit : 0 .. DicBufSize]
        /\ output \in Seq(Letters) /\ pc = "leave" => io.dicPos <= p.dicPos
    BY FollowsTypes
  <1>2. /\ pc = "leave" /\ output' = output \o [i \in 1 .. made |-> dic[io.dicPos + i - 1]]
        /\ io' = IF Again(made) THEN [io EXCEPT !.outSize = @ - made] ELSE NoCall
        /\ pc' = IF Again(made) THEN "toBuf" ELSE "idle"
        /\ UNCHANGED <<asked, taken>>
    BY DEF LeaveDecodeToDic
  <1>3. CASE ~Again(made)
    BY <1>2, <1>3 DEF Accounts
  <1>4. CASE Again(made)
    <2>1. made \in Nat /\ io.outSize > made /\ pc' = "toBuf"
      BY <1>1, <1>2, <1>4 DEF Again
    <2>2. /\ taken + io.inSize = asked.fed + asked.amt
          /\ Len(output) + io.outSize = asked.made + asked.dst /\ asked.made <= Len(output)
          /\ asked.amt \in Nat \ {0} /\ asked.dst \in Nat \ {0}
          /\ asked.fed \in Nat /\ asked.made \in Nat
      BY <1>2 DEF Accounts
    <2>3. io'.inSize = io.inSize /\ io'.outSize = io.outSize - made
      BY <1>1, <1>2, <1>4
    <2>4. Len(output') = Len(output) + made
      BY OutputGrows
    <2>5. made <= io.outSize - 0 /\ io'.outSize > 0
      BY <1>1, <2>1, <2>3
    <2>6. Len(output') + io'.outSize = Len(output) + io.outSize
      BY <1>1, <2>1, <2>3, <2>4
    <2>7. asked.made <= Len(output')
      <3>1. \A a, n, k \in Nat : a <= n => a <= n + k
        OBVIOUS
      <3> HIDE DEF made
      <3> QED
        BY <1>1, <2>1, <2>2, <2>4, <3>1
    <2> QED
      BY <1>2, <2>1, <2>2, <2>3, <2>5, <2>6, <2>7 DEF Accounts
  <1> QED
    BY <1>3, <1>4

(* ... and in between nothing of it is lost: input moves from the caller to *)
(* the decoder, and nothing else changes.                                   *)
Moves ==
    /\ pc \notin {"idle", "toBuf"} /\ asked' = asked /\ output' = output
    /\ taken' + io'.inSize = taken + io.inSize
    /\ io'.outSize = io.outSize /\ io'.dicPos = io.dicPos /\ io'.dicLimit = io.dicLimit

(* A step that only moves input from the caller to the decoder keeps the    *)
(* accounts, ...                                                            *)
LEMMA MovesAccount ==
    ASSUME Accounts, Moves
    PROVE  Accounts'
  BY DEF Accounts, Moves

(* ... so does the step that sets the limit of a round, ...                 *)
LEMMA EnterAccounts ==
    ASSUME LzmaInv, Accounts, EnterDecodeToDic
    PROVE  Accounts'
  <1> DEFINE pos == IF p.dicPos = DicBufSize THEN 0 ELSE p.dicPos
             limit == AtMost(DicBufSize, pos + io.outSize)
  <1>1. /\ p.dicPos \in 0 .. DicBufSize /\ DicBufSize \in Nat \ {0}
        /\ io \in [inSize : Nat, outSize : Nat, dicPos : 0 .. DicBufSize,
                   dicLimit : 0 .. DicBufSize]
    BY FollowsTypes
  <1>2. /\ pc = "toBuf" /\ pc' = "toDic" /\ UNCHANGED <<asked, taken, output>>
        /\ io' = [io EXCEPT !.dicPos = pos, !.dicLimit = limit]
    BY DEF EnterDecodeToDic
  <1>3. pos < DicBufSize
    BY <1>1
  <1>4. /\ io'.inSize = io.inSize /\ io'.outSize = io.outSize
        /\ io'.dicPos = pos /\ io'.dicLimit = limit
    BY <1>1, <1>2
  <1> HIDE DEF pos, limit
  <1>5. limit = AtMost(DicBufSize, pos + io.outSize)
    BY DEF limit
  <1> QED
    BY <1>2, <1>3, <1>4, <1>5 DEF Accounts

(* ... and every other step of LzmaDec_DecodeToDic only moves input.        *)
LEMMA DecodingMoves ==
    ASSUME LzmaInv, Decoding, ~EnterDecodeToDic, ~LeaveDecodeToDic
    PROVE  Moves
  <1>1. /\ taken \in Nat /\ Len(tempBuf) \in Nat
        /\ io \in [inSize : Nat, outSize : Nat, dicPos : 0 .. DicBufSize,
                   dicLimit : 0 .. DicBufSize]
        /\ r \in Locals /\ r.buf \in Nat
    BY FollowsTypes
  <1>2. \A n \in Int : LET i == [io EXCEPT !.inSize = @ - n]
                   IN  /\ i.inSize = io.inSize - n /\ i.outSize = io.outSize
                       /\ i.dicPos = io.dicPos /\ i.dicLimit = io.dicLimit
    BY <1>1
  <1>3. CASE MarkMet \/ LimitMet \/ DecodeSymbol
    BY <1>3 DEF Moves, MarkMet, LimitMet, DecodeSymbol
  <1>4. CASE StartRangeDecoder
    <2>1. PICK n \in {AtMost(io.inSize, RcInitSize - Len(tempBuf))} :
              /\ taken' = taken + n /\ io' = [io EXCEPT !.inSize = @ - n]
      BY <1>4 DEF StartRangeDecoder
    <2>2. n \in Int
      BY <1>1, DecoderAssumption DEF AtMost
    <2> QED
      BY <1>1, <1>2, <1>4, <2>1, <2>2 DEF Moves, StartRangeDecoder
  <1>5. CASE DecodeFromSource
    <2>1. \/ taken' = taken /\ io' = io
          \/ taken' = taken + io.inSize /\ io' = [io EXCEPT !.inSize = 0]
      BY <1>5 DEF DecodeFromSource
    <2>2. pc = "toDic" /\ asked' = asked /\ output' = output
      BY <1>5 DEF DecodeFromSource, Ready
    <2> QED
      BY <1>1, <2>1, <2>2 DEF Moves
  <1>6. CASE DecodeFromTemp
    <2>1. PICK n \in {AtMost(io.inSize, LZMA_REQUIRED_INPUT_MAX - Len(tempBuf))} :
              /\ taken' = taken + n /\ io' = [io EXCEPT !.inSize = @ - n]
      BY <1>6 DEF DecodeFromTemp
    <2>2. n \in Int
      BY <1>1, DecoderAssumption DEF AtMost
    <2>3. pc = "toDic" /\ asked' = asked /\ output' = output
      BY <1>6 DEF DecodeFromTemp, Ready
    <2> QED
      BY <1>1, <1>2, <2>1, <2>2, <2>3 DEF Moves
  <1>7. CASE StoreReal
    <2>1. PICK n \in {IF r.fromTemp THEN 0 - UnreadOfTemp(r.buf) ELSE r.buf, 0} :
              /\ taken' = taken + n /\ io'.inSize = io.inSize - n
              /\ io'.outSize = io.outSize /\ io'.dicPos = io.dicPos
              /\ io'.dicLimit = io.dicLimit
      <3>1. \/ taken' = taken /\ io' = io
            \/ /\ taken' = IF r.fromTemp THEN taken - UnreadOfTemp(r.buf) ELSE taken + r.buf
               /\ io' = [io EXCEPT !.inSize = IF r.fromTemp THEN @ + UnreadOfTemp(r.buf)
                                              ELSE @ - r.buf]
        BY <1>7 DEF StoreReal
      <3>2. UnreadOfTemp(r.buf) \in Int
        BY <1>1 DEF UnreadOfTemp
      <3> QED
        BY <1>1, <3>1, <3>2
    <2>2. n \in Int
      BY <1>1 DEF UnreadOfTemp
    <2>3. pc = "stored" /\ asked' = asked /\ output' = output
      BY <1>7 DEF StoreReal
    <2> QED
      BY <1>1, <2>1, <2>2, <2>3 DEF Moves
  <1> QED
    BY <1>3, <1>4, <1>5, <1>6, <1>7 DEF Decoding

(* So the accounts always balance.                                          *)
LEMMA AccountsStep ==
    ASSUME LzmaInv, Accounts, Decoding \/ \E amt, dst \in Nat \ {0} : Call(amt, dst)
    PROVE  Accounts'
  <1>1. CASE EnterDecodeToDic
    BY <1>1, EnterAccounts
  <1>2. CASE LeaveDecodeToDic
    BY <1>2, LeaveAccounts
  <1>3. CASE Decoding /\ ~EnterDecodeToDic /\ ~LeaveDecodeToDic
    BY <1>3, DecodingMoves, MovesAccount
  <1>4. CASE \E amt, dst \in Nat \ {0} : Call(amt, dst)
    BY <1>4, CallAccounts
  <1> QED
    BY <1>1, <1>2, <1>3, <1>4

(* The stream that DecoderContract is given.                                *)
StreamOf(x) == [need |-> x.need, give |-> x.give, end |-> x.end, endAt |-> x.endAt]

(* What of a meaning is in order.                                           *)
Ordered(x) ==
    /\ x.need \in Seq(Nat) /\ x.give \in Seq(Nat) /\ x.text \in Seq(Letters)
    /\ x.endAt \in Nat /\ x.end \in {"none", "bad", "mark"}
    /\ Len(x.give) = Len(x.need)
    /\ \A i \in 1 .. Len(x.need) :
        /\ RcInitSize <= x.need[i] /\ 0 < x.give[i] /\ x.give[i] <= Len(x.text)
        /\ i > 1 => x.need[i - 1] <= x.need[i] /\ x.give[i - 1] < x.give[i]
        /\ x.end # "none" => x.need[i] <= x.endAt
    /\ Len(x.need) = 0 => x.text = << >>
    /\ Len(x.need) # 0 => x.give[Len(x.need)] = Len(x.text)
    /\ x.end # "none" => RcInitSize <= x.endAt

(* What bytes stand for is in order.                                        *)
LEMMA MeaningOrdered ==
    ASSUME NEW b, b \in Seq(Bytes)
    PROVE  Ordered(Meaning(b))
  <1>1. RcInitSize \in Nat
    BY DecoderAssumption
  <1>2. CASE Meaning(b) = Beginning(b)
    <2>1. Beginning(b) \in Readable /\ Beginning(b).end # "open"
      BY <1>2, MeaningIs
    <2> HIDE DEF Beginning
    <2> DEFINE x == Beginning(b)
    <2>2. /\ x \in Readable /\ x.end # "open" /\ x.text = << >> /\ x.need = << >>
          /\ x.give = << >> /\ x.endAt = RcInitSize
      BY <2>1, BeginningOK
    <2> HIDE DEF x
    <2>3. Ordered(x)
      BY <1>1, <2>2 DEF Ordered, Readable
    <2> QED
      BY <1>2, <2>3 DEF x
  <1>3. CASE \E m \in Read(b) : m.end = "open" /\ ~Sensible(b, m)
                               /\ Meaning(b) = ReadSymbol(b, m)
    <2>1. PICK m \in Read(b) : /\ m.end = "open" /\ ~Sensible(b, m)
                               /\ Meaning(b) = ReadSymbol(b, m)
      BY <1>3
    <2>2. OpenOK(m, b)
      BY <2>1, ReadIs
    <2> DEFINE e == ReadSymbol(b, m)
    <2>3. /\ e \in Readable /\ e.text = m.text /\ e.need = m.need /\ e.give = m.give
          /\ e.end # "open"
          /\ e.end # "none" => e.endAt = NextCoder(b, m).buf
      BY <2>1, <2>2, ReadingEnds
    <2>4. m.coder.buf <= NextCoder(b, m).buf
      BY <2>2, NextIs
    <2> HIDE DEF e
    <2>5. /\ m \in Readable /\ TotalsOK(m) /\ RcInitSize <= m.coder.buf
      BY <2>2 DEF OpenOK
    <2>6. m.coder.buf \in Nat /\ NextCoder(b, m).buf \in Nat
      BY <2>2, NextIs DEF OpenOK, Readable, Coders
    <2>7. /\ e.need \in Seq(Nat) /\ e.give \in Seq(Nat) /\ e.text \in Seq(Letters)
          /\ e.endAt \in Nat /\ e.end \in {"none", "bad", "mark"}
      BY <2>3 DEF Readable
    <2>8. Len(e.need) \in Nat /\ \A i \in 1 .. Len(e.need) : e.need[i] \in Nat
      BY <2>7, LenProperties
    <2>9. /\ Len(e.give) = Len(e.need)
          /\ \A i \in 1 .. Len(e.need) :
                /\ RcInitSize <= e.need[i] /\ 0 < e.give[i] /\ e.give[i] <= Len(e.text)
                /\ i > 1 => e.need[i - 1] <= e.need[i] /\ e.give[i - 1] < e.give[i]
                /\ e.need[i] <= m.coder.buf
          /\ Len(e.need) = 0 => e.text = << >>
          /\ Len(e.need) # 0 => e.give[Len(e.need)] = Len(e.text)
      BY <2>3, <2>5 DEF TotalsOK
    <2>10. e.end # "none" => /\ RcInitSize <= e.endAt
                             /\ \A i \in 1 .. Len(e.need) : e.need[i] <= e.endAt
      BY <1>1, <2>3, <2>4, <2>5, <2>6, <2>8, <2>9
    <2>11. Ordered(e)
      BY <2>7, <2>9, <2>10 DEF Ordered
    <2> QED
      BY <2>1, <2>11 DEF e
  <1> QED
    BY <1>2, <1>3, MeaningIs

(* Ascending sequences.                                                     *)
LEMMA Ascending ==
    ASSUME NEW s, s \in Seq(Nat), \A i \in 1 .. Len(s) : i > 1 => s[i - 1] <= s[i]
    PROVE  \A i, j \in 1 .. Len(s) : i <= j => s[i] <= s[j]
  <1> DEFINE S == {n \in Nat : \A i \in 1 .. Len(s) : i + n <= Len(s) => s[i] <= s[i + n]}
  <1>1. Len(s) \in Nat /\ \A i \in 1 .. Len(s) : s[i] \in Nat
    BY LenProperties
  <1>2. 0 \in S
    BY <1>1
  <1>3. ASSUME NEW n \in S \cap Nat PROVE n + 1 \in S
    <2>1. ASSUME NEW i \in 1 .. Len(s), i + (n + 1) <= Len(s)
          PROVE s[i] <= s[i + (n + 1)]
      <3> DEFINE k == i + n + 1
      <3>1. /\ k \in 1 .. Len(s) /\ k - 1 \in 1 .. Len(s) /\ k > 1 /\ k - 1 = i + n
            /\ k = i + (n + 1) /\ i + n <= Len(s)
        BY <1>1, <2>1
      <3>2. s[i] <= s[i + n]
        BY <2>1, <3>1
      <3> HIDE DEF k
      <3>3. s[k - 1] <= s[k]
        BY <3>1
      <3>4. s[i] \in Nat /\ s[k] \in Nat /\ s[k - 1] \in Nat
        BY <1>1, <3>1
      <3>5. s[i] <= s[k]
        BY <3>1, <3>2, <3>3, <3>4
      <3> QED
        BY <3>1, <3>5
    <2> QED
      BY <2>1
  <1> HIDE DEF S
  <1>4. Nat \subseteq S
    BY <1>2, <1>3, NaturalInduction
  <1> USE DEF S
  <1>5. ASSUME NEW i \in 1 .. Len(s), NEW j \in 1 .. Len(s), i <= j
        PROVE s[i] <= s[j]
    <2>1. j - i \in Nat /\ i + (j - i) = j
      BY <1>1, <1>5
    <2>2. j - i \in S
      BY <1>4, <2>1
    <2> QED
      BY <1>1, <2>1, <2>2
  <1> QED
    BY <1>5

(* In a meaning what is needed and what is made ascend.                     *)
LEMMA OrderedAscends ==
    ASSUME NEW x, Ordered(x)
    PROVE  /\ Len(x.need) \in Nat
           /\ \A i \in 1 .. Len(x.need) : x.need[i] \in Nat /\ x.give[i] \in Nat
           /\ \A i, j \in 1 .. Len(x.need) :
                /\ i <= j => x.need[i] <= x.need[j] /\ x.give[i] <= x.give[j]
                /\ x.give[i] < x.give[j] => i < j
  <1>1. /\ x.need \in Seq(Nat) /\ x.give \in Seq(Nat) /\ Len(x.give) = Len(x.need)
        /\ Len(x.need) \in Nat
        /\ \A i \in 1 .. Len(x.need) : x.need[i] \in Nat /\ x.give[i] \in Nat
    BY LenProperties DEF Ordered
  <1>2. \A i, j \in 1 .. Len(x.need) : i <= j => x.need[i] <= x.need[j]
    BY <1>1, Ascending DEF Ordered
  <1>3. \A i \in 1 .. Len(x.give) : i > 1 => x.give[i - 1] <= x.give[i]
    <2>1. ASSUME NEW i \in 1 .. Len(x.give), i > 1 PROVE x.give[i - 1] <= x.give[i]
      <3>1. x.give[i - 1] < x.give[i]
        BY <1>1, <2>1 DEF Ordered
      <3>2. i - 1 \in 1 .. Len(x.need) /\ i \in 1 .. Len(x.need)
        BY <1>1, <2>1
      <3>3. x.give[i - 1] \in Nat /\ x.give[i] \in Nat
        BY <1>1, <3>2
      <3> QED
        BY <3>1, <3>3
    <2> QED
      BY <2>1
  <1>4. \A i, j \in 1 .. Len(x.need) : i <= j => x.give[i] <= x.give[j]
    BY <1>1, <1>3, Ascending
  <1>5. ASSUME NEW i \in 1 .. Len(x.need), NEW j \in 1 .. Len(x.need), x.give[i] < x.give[j]
        PROVE i < j
    <2>1. x.give[i] \in Nat /\ x.give[j] \in Nat
      BY <1>1
    <2>2. ~(x.give[j] <= x.give[i])
      BY <1>5, <2>1
    <2>3. ~(j <= i)
      BY <1>4, <2>2
    <2> QED
      BY <2>3
  <1> QED
    BY <1>1, <1>2, <1>4, <1>5

(* The first k of the symbols are as many.                                  *)
LEMMA FirstOnes ==
    ASSUME NEW k, k \in Nat
    PROVE  IsFiniteSet(1 .. k) /\ Cardinality(1 .. k) = k
  <1>1. 1 \in Int /\ k \in Int
    OBVIOUS
  <1>2. /\ IsFiniteSet(1 .. k) /\ Cardinality(1 .. k) = IF 1 > k THEN 0 ELSE k - 1 + 1
    BY <1>1, FS_Interval
  <1> QED
    BY <1>2

(* The contract counts as this module does.                                 *)
LEMMA GivenCounts ==
    ASSUME NEW x, NEW n
    PROVE  /\ Contract!Given(StreamOf(x), n) =
                LET whole == Cardinality({i \in DOMAIN x.need : x.need[i] <= n})
                IN  IF whole = 0 THEN 0 ELSE x.give[whole]
           /\ Contract!Cost(StreamOf(x), n) =
                IF n = 0 THEN RcInitSize
                ELSE x.need[1 + Cardinality({i \in DOMAIN x.give : x.give[i] < n})]
  <1>1. \A S : Contract!Cardinality(S) = Cardinality(S)
    BY DEF Contract!Cardinality, Cardinality
  <1> QED
    BY <1>1 DEF Contract!Given, Contract!Cost, StreamOf

(* What n bytes give, if they hold k symbols.                               *)
LEMMA GivenIs ==
    ASSUME NEW x, Ordered(x), NEW n, n \in Nat, NEW k, k \in 0 .. Len(x.need),
           k > 0 => x.need[k] <= n, k < Len(x.need) => n < x.need[k + 1]
    PROVE  Contract!Given(StreamOf(x), n) = IF k = 0 THEN 0 ELSE x.give[k]
  <1>1. /\ Len(x.need) \in Nat
        /\ \A i \in 1 .. Len(x.need) : x.need[i] \in Nat
        /\ \A i, j \in 1 .. Len(x.need) : i <= j => x.need[i] <= x.need[j]
        /\ DOMAIN x.need = 1 .. Len(x.need)
    BY OrderedAscends, LenProperties DEF Ordered
  <1>2. {i \in DOMAIN x.need : x.need[i] <= n} = 1 .. k
    <2>1. ASSUME NEW i \in 1 .. Len(x.need) PROVE x.need[i] <= n <=> i <= k
      <3>1. CASE i <= k
        <4>1. k \in 1 .. Len(x.need) /\ x.need[i] <= x.need[k]
          BY <1>1, <3>1
        <4> QED
          BY <1>1, <3>1, <4>1
      <3>2. CASE ~(i <= k)
        <4>1. k + 1 \in 1 .. Len(x.need) /\ k + 1 <= i /\ k < Len(x.need)
          BY <1>1, <3>2
        <4>2. x.need[k + 1] <= x.need[i]
          BY <1>1, <4>1
        <4> QED
          BY <1>1, <3>2, <4>1, <4>2
      <3> QED
        BY <3>1, <3>2
    <2> QED
      BY <1>1, <2>1
  <1>3. Cardinality({i \in DOMAIN x.need : x.need[i] <= n}) = k
    <2>1. k \in Nat
      BY <1>1
    <2> QED
      BY <1>2, <2>1, FirstOnes
  <1> QED
    BY <1>3, GivenCounts

(* It is no less than any symbol gives that n bytes hold.                   *)
LEMMA GivenLeast ==
    ASSUME NEW x, Ordered(x), NEW n, n \in Nat, NEW k, k \in 1 .. Len(x.need),
           x.need[k] <= n
    PROVE  x.give[k] <= Contract!Given(StreamOf(x), n)
  <1> DEFINE whole == {i \in DOMAIN x.need : x.need[i] <= n}
             count == Cardinality(whole)
  <1>1. /\ Len(x.need) \in Nat
        /\ \A i \in 1 .. Len(x.need) : x.need[i] \in Nat /\ x.give[i] \in Nat
        /\ \A i, j \in 1 .. Len(x.need) :
                i <= j => x.need[i] <= x.need[j] /\ x.give[i] <= x.give[j]
        /\ DOMAIN x.need = 1 .. Len(x.need)
    BY OrderedAscends, LenProperties DEF Ordered
  <1>2. 1 .. k \subseteq whole /\ whole \subseteq 1 .. Len(x.need)
    <2>1. ASSUME NEW i \in 1 .. k PROVE i \in whole
      <3>1. i \in 1 .. Len(x.need) /\ x.need[i] <= x.need[k]
        BY <1>1
      <3> QED
        BY <1>1, <3>1
    <2> QED
      BY <1>1, <2>1
  <1> HIDE DEF whole
  <1>3. /\ IsFiniteSet(whole) /\ Cardinality(whole) <= Cardinality(1 .. Len(x.need))
    BY <1>1, <1>2, FirstOnes, FS_Subset
  <1>4. /\ Cardinality(1 .. k) <= Cardinality(whole) /\ count \in Nat
    BY <1>2, <1>3, FS_Subset, FS_CardinalityType
  <1>5. count \in 1 .. Len(x.need) /\ k <= count
    BY <1>1, <1>3, <1>4, FirstOnes
  <1>6. Contract!Given(StreamOf(x), n) = x.give[count]
    <2>1. count # 0
      BY <1>5
    <2>2. Contract!Given(StreamOf(x), n) = IF count = 0 THEN 0 ELSE x.give[count]
      BY GivenCounts DEF whole
    <2> QED
      BY <2>1, <2>2
  <1> QED
    BY <1>1, <1>5, <1>6

(* What byte n of the output costs, if symbol k makes it.                   *)
LEMMA CostIs ==
    ASSUME NEW x, Ordered(x), NEW n, n \in Nat \ {0}, NEW k, k \in 1 .. Len(x.need),
           n <= x.give[k], k > 1 => x.give[k - 1] < n
    PROVE  Contract!Cost(StreamOf(x), n) = x.need[k]
  <1>1. /\ Len(x.need) \in Nat
        /\ \A i \in 1 .. Len(x.need) : x.give[i] \in Nat
        /\ \A i, j \in 1 .. Len(x.need) : i <= j => x.give[i] <= x.give[j]
        /\ DOMAIN x.give = 1 .. Len(x.need)
    BY OrderedAscends, LenProperties DEF Ordered
  <1>2. {i \in DOMAIN x.give : x.give[i] < n} = 1 .. k - 1
    <2>1. ASSUME NEW i \in 1 .. Len(x.need) PROVE x.give[i] < n <=> i <= k - 1
      <3>1. CASE i <= k - 1
        <4>1. k - 1 \in 1 .. Len(x.need) /\ k > 1
          BY <1>1, <3>1
        <4>2. x.give[i] <= x.give[k - 1] /\ x.give[k - 1] < n
          BY <1>1, <3>1, <4>1
        <4> QED
          BY <1>1, <3>1, <4>1, <4>2
      <3>2. CASE ~(i <= k - 1)
        <4>1. x.give[k] <= x.give[i]
          BY <1>1, <3>2
        <4> QED
          BY <1>1, <3>2, <4>1
      <3> QED
        BY <3>1, <3>2
    <2> QED
      BY <1>1, <2>1
  <1>3. Cardinality({i \in DOMAIN x.give : x.give[i] < n}) = k - 1
    <2>1. k - 1 \in Nat
      BY <1>1
    <2> QED
      BY <1>2, <2>1, FirstOnes
  <1>4. Contract!Cost(StreamOf(x), n) =
            x.need[1 + Cardinality({i \in DOMAIN x.give : x.give[i] < n})]
    <2>1. n # 0
      OBVIOUS
    <2> QED
      BY <2>1, GivenCounts
  <1>5. 1 + (k - 1) = k
    BY <1>1
  <1> QED
    BY <1>3, <1>4, <1>5

(* The state of the contract in which a call begins.                        *)
Called(fed0, made0) == [alloc |-> TRUE, fed |-> fed0, made |-> made0]

(* The outcome of a call in the contract, if the room is filled ...         *)
LEMMA FillsRoom ==
    ASSUME NEW s, NEW fed0, fed0 \in Nat, NEW made0, made0 \in Nat, NEW amt, amt \in Nat,
           NEW dst, dst \in Nat, NEW at, at \in Nat, fed0 <= at, at <= fed0 + amt,
           Contract!Cost(s, made0 + dst) = at, RcInitSize <= fed0 + amt,
           made0 + dst <= Contract!Given(s, fed0 + amt)
    PROVE  [fed |-> at, made |-> made0 + dst, stat |-> "NOT_FINISHED", ok |-> TRUE]
              \in Contract!DecodeToBuf(s, Called(fed0, made0), amt, dst)
  <1> DEFINE d == Called(fed0, made0)
             o == [fed |-> at, made |-> made0 + dst, stat |-> "NOT_FINISHED", ok |-> TRUE]
  <1>1. d.alloc = TRUE /\ d.fed = fed0 /\ d.made = made0
    BY DEF Called
  <1>2. o.fed = at /\ o.made = made0 + dst /\ o.stat = "NOT_FINISHED" /\ o.ok = TRUE
    OBVIOUS
  <1>3. o \in [fed : d.fed .. d.fed + amt, made : d.made .. d.made + dst,
               stat : Contract!Statuses, ok : BOOLEAN]
    BY <1>1 DEF Contract!Statuses
  <1>4. Contract!Larger(fed0, at) = at
    BY DEF Contract!Larger
  <1> HIDE DEF d, o
  <1>5. Contract!DecodeToLimit(s, d, dst, o)
    BY <1>1, <1>2, <1>4 DEF Contract!DecodeToLimit
  <1>6. o \in Contract!DecodeToBuf(s, d, amt, dst)
    BY <1>1, <1>3, <1>5 DEF Contract!DecodeToBuf
  <1> QED
    BY <1>6 DEF d, o

(* ... and if it is not.                                                    *)
LEMMA RunsOut ==
    ASSUME NEW s, NEW fed0, fed0 \in Nat, NEW made0, made0 \in Nat, NEW amt, amt \in Nat,
           NEW dst, dst \in Nat, NEW at, at \in Nat, fed0 <= at, at <= fed0 + amt,
           NEW given, given \in Nat, given = Contract!Given(s, fed0 + amt),
           made0 <= given, given < made0 + dst,
           NEW met, met \in BOOLEAN, met <=> s.end = "mark" /\ s.endAt <= fed0 + amt,
           at = IF met THEN Contract!Larger(fed0, s.endAt) ELSE fed0 + amt,
           NEW fine, fine \in BOOLEAN, fine <=> ~(s.end = "bad" /\ s.endAt <= fed0 + amt)
    PROVE  [fed |-> at, made |-> given,
            stat |-> IF met THEN "FINISHED_WITH_MARK" ELSE "NEEDS_MORE_INPUT", ok |-> fine]
              \in Contract!DecodeToBuf(s, Called(fed0, made0), amt, dst)
  <1> DEFINE d == Called(fed0, made0)
             status == IF met THEN "FINISHED_WITH_MARK" ELSE "NEEDS_MORE_INPUT"
             o == [fed |-> at, made |-> given, stat |-> status, ok |-> fine]
  <1>1. d.alloc = TRUE /\ d.fed = fed0 /\ d.made = made0
    BY DEF Called
  <1>2. o.fed = at /\ o.made = given /\ o.stat = status /\ o.ok = fine
    OBVIOUS
  <1>3. o \in [fed : d.fed .. d.fed + amt, made : d.made .. d.made + dst,
               stat : Contract!Statuses, ok : BOOLEAN]
    BY <1>1 DEF Contract!Statuses
  <1> HIDE DEF d, o
  <1>4. Contract!DecodeToInputEnd(s, d, amt, o)
    BY <1>1, <1>2 DEF Contract!DecodeToInputEnd
  <1>5. ~(made0 + dst <= Contract!Given(s, fed0 + amt))
    OBVIOUS
  <1>6. o \in Contract!DecodeToBuf(s, d, amt, dst)
    BY <1>1, <1>3, <1>4, <1>5 DEF Contract!DecodeToBuf
  <1> QED
    BY <1>6 DEF d, o

(* The direct bits of a slot, and how many of them a walk has behind it.    *)
DirectsOf(posSlot) == FooterBits(posSlot) - kNumAlignBits

DirectsDone(w) ==
    IF w.posSlot < kEndPosModelIndex THEN 0
    ELSE IF w.at = "direct" THEN DirectsOf(w.posSlot) - w.left
    ELSE DirectsOf(w.posSlot)

(* In a reverse tree of so many levels the bits to come are the high ones.  *)
Below(w, levels) ==
    w.distance + Power(levels) < Power(2 + FooterBits(w.posSlot)) + Power(levels - w.left)

(* How far a distance can lead, by its slot.                                *)
Reach(w) ==
    /\ w.posSlot < Power(kNumPosSlotBits)
    /\ w.at = "direct" => /\ w.left \in 1 .. DirectsOf(w.posSlot)
                          /\ w.distance < Power((2 + DirectsOf(w.posSlot)) - w.left)
    /\ w.at = "Align" => Below(w, kNumAlignBits)
    /\ w.at = "SpecPos" => Below(w, FooterBits(w.posSlot))
    /\ w.at = "done" /\ w.kind = "match" =>
        IF w.posSlot < kStartPosModelIndex THEN w.distance < 4
        ELSE w.distance < Power(2 + FooterBits(w.posSlot))

(* A decision before the slot.                                              *)
Plain(v, w) ==
    /\ v.posSlot = w.posSlot /\ v.at \notin {"SpecPos", "direct", "Align"}
    /\ v.at = "done" => v.kind # "match"

(* The flags at the beginning of a symbol are such decisions, ...           *)
LEMMA FlagsPlain ==
    ASSUME NEW d, NEW w, WalkOK(w), w.at \in FlagLabels \cup {"choice", "choice2"},
           NEW bit \in {0, 1}
    PROVE  Plain(Took(d, w, bit), w)
  <1>1. w \in WalkTypes
    BY DEF WalkOK
  <1>2. CASE w.at = "IsMatch"
    <2>1. \/ Took(d, w, bit) = [w EXCEPT !.at = "IsRep"]
          \/ \E offs : Took(d, w, bit) = [[w EXCEPT !.offs = offs] EXCEPT
                            !.at = "literal", !.i = 1, !.left = NumLitBits]
      BY <1>2 DEF Took, Into
    <2> QED
      BY <1>1, <2>1 DEF Plain, WalkTypes
  <1>3. CASE w.at = "IsRep"
    <2>1. \/ Took(d, w, bit) = [[w EXCEPT !.at = "choice"] EXCEPT !.kind = "match"]
          \/ Took(d, w, bit) = [w EXCEPT !.at = "IsRepG0"]
      BY <1>3 DEF Took
    <2> QED
      BY <1>1, <2>1 DEF Plain, WalkTypes
  <1>4. CASE w.at \in {"IsRepG0", "IsRepG1", "IsRepG2", "IsRep0Long"}
    <2>1. \/ \E at \in {"IsRep0Long", "IsRepG1", "IsRepG2"} :
                Took(d, w, bit) = [w EXCEPT !.at = at]
          \/ Took(d, w, bit) = [[w EXCEPT !.at = "done"] EXCEPT !.kind = "short"]
          \/ \E rep : Took(d, w, bit) = [w EXCEPT !.at = "choice", !.kind = "rep",
                                                  !.coder = "RepLen", !.rep = rep]
      BY <1>4 DEF Took, RepLength
    <2> QED
      BY <1>1, <2>1 DEF Plain, WalkTypes
  <1>5. CASE w.at \in {"choice", "choice2"}
    <2>1. \/ Took(d, w, bit) = [w EXCEPT !.at = "choice2"]
          \/ \E at \in {"low", "mid", "high"} : \E left :
                Took(d, w, bit) = [w EXCEPT !.at = at, !.i = 1, !.left = left]
      BY <1>5 DEF Took, Into
    <2> QED
      BY <1>1, <2>1 DEF Plain, WalkTypes
  <1> QED
    BY <1>2, <1>3, <1>4, <1>5 DEF FlagLabels

(* ... and so are the trees of a literal and of a length.                   *)
LEMMA TreesPlain ==
    ASSUME NEW d, NEW w, WalkOK(w), w.at \in {"literal", "low", "mid", "high"},
           NEW bit \in {0, 1}
    PROVE  Plain(Took(d, w, bit), w)
  <1>1. w \in WalkTypes
    BY DEF WalkOK
  <1>2. CASE w.at = "literal"
    <2>1. w.kind = "literal"
      BY <1>2 DEF WalkOK
    <2>2. PICK offs : LET v == [[w EXCEPT !.i = 2 * @ + bit, !.left = @ - 1]
                                    EXCEPT !.offs = offs]
                      IN  Took(d, w, bit) = v \/ Took(d, w, bit) = [v EXCEPT !.at = "done"]
      BY <1>2 DEF Took, Deeper, Then
    <2> QED
      BY <1>1, <1>2, <2>1, <2>2 DEF Plain, WalkTypes
  <1>3. CASE w.at \in {"low", "mid", "high"}
    <2>1. w.kind = IF w.coder = "Len" THEN "match" ELSE "rep"
      BY <1>3 DEF WalkOK, LengthLabels
    <2>2. \/ Took(d, w, bit) = Deeper(w, bit)
          \/ \E len : Took(d, w, bit) = LengthEnds(w, len)
      BY <1>3 DEF Took, Then
    <2>3. Plain(Deeper(w, bit), w)
      BY <1>1, <1>3 DEF Plain, WalkTypes, Deeper
    <2>4. ASSUME NEW len PROVE Plain(LengthEnds(w, len), w)
      <3>1. CASE w.coder = "Len"
        <4>1. LengthEnds(w, len) = [[w EXCEPT !.len = len] EXCEPT
                                        !.at = "PosSlot", !.i = 1, !.left = kNumPosSlotBits]
          BY <1>1, <3>1 DEF LengthEnds, Into, WalkTypes
        <4> QED
          BY <1>1, <4>1 DEF Plain, WalkTypes
      <3>2. CASE w.coder # "Len"
        <4>1. LengthEnds(w, len) = [[w EXCEPT !.len = len] EXCEPT !.at = "done"]
          BY <1>1, <3>2 DEF LengthEnds, WalkTypes
        <4> QED
          BY <1>1, <2>1, <3>2, <4>1 DEF Plain, WalkTypes
      <3> QED
        BY <3>1, <3>2
    <2> QED
      BY <2>2, <2>3, <2>4
  <1> QED
    BY <1>2, <1>3

(* The sizes of the powers in Reach.                                        *)
LEMMA ReachSizes ==
    /\ \A k \in 0 .. 32 : Power(k) \in Nat \ {0}
    /\ Power(0) = 1 /\ Power(1) = 2 /\ Power(2) = 4
    /\ kNumPosSlotBits \in 3 .. 6 /\ Power(kNumPosSlotBits) \in Nat
    /\ kEndPosModelIndex \in Nat /\ kStartPosModelIndex = 4
    /\ kStartPosModelIndex < kEndPosModelIndex
    /\ MostDirects \in 1 .. 30 /\ kNumAlignBits \in 1 .. 30
    /\ MostDirects + kNumAlignBits <= 30
    /\ \A s \in kStartPosModelIndex .. Power(kNumPosSlotBits) - 1 :
        /\ FooterBits(s) \in 1 .. MostDirects + kNumAlignBits
        /\ s >= kEndPosModelIndex => DirectsOf(s) \in 1 .. MostDirects
        /\ s < kEndPosModelIndex => FooterBits(s) < MostDirects + kNumAlignBits
        /\ FooterBits(s) = DirectsOf(s) + kNumAlignBits
  <1>1. \A k \in 0 .. 32 : Power(k) \in Nat \ {0}
    BY PowersNatural
  <1>2. Power(0) = 1 /\ Power(1) = 2 /\ Power(2) = 4
    BY DEF Power
  <1>3. /\ kNumPosSlotBits \in 3 .. 6 /\ Power(kNumPosSlotBits) \in Nat
        /\ kEndPosModelIndex \in Nat /\ kStartPosModelIndex = 4
        /\ kStartPosModelIndex < kEndPosModelIndex
        /\ MostDirects \in 1 .. 30 /\ kNumAlignBits \in 1 .. 30
        /\ MostDirects + kNumAlignBits <= 30
    BY DecisionCounts, Footers DEF kStartPosModelIndex
  <1>4. FooterBits(kEndPosModelIndex - 1) < MostDirects + kNumAlignBits
    <2>1. /\ FooterBits(Power(kNumPosSlotBits) - 1) = MostDirects + kNumAlignBits
          /\ kEndPosModelIndex % 2 = 0 /\ kEndPosModelIndex < Power(kNumPosSlotBits)
          /\ kEndPosModelIndex > 4
      BY <1>3, DecisionCounts, SymbolSizes DEF Power
    <2>2. Power(kNumPosSlotBits) \in {8, 16, 32, 64}
      <3>1. Power(3) = 8 /\ Power(4) = 16 /\ Power(5) = 32 /\ Power(6) = 64
        BY DEF Power
      <3>2. kNumPosSlotBits \in {3, 4, 5, 6}
        BY <1>3
      <3> QED
        BY <3>1, <3>2
    <2>3. \A e \in Nat, q \in {8, 16, 32, 64} : e % 2 = 0 /\ e < q /\ e > 4 =>
              (e - 1) \div 2 - 1 < (q - 1) \div 2 - 1
      OBVIOUS
    <2>4. (kEndPosModelIndex - 1) \div 2 - 1 < (Power(kNumPosSlotBits) - 1) \div 2 - 1
      BY <1>3, <2>1, <2>2, <2>3
    <2> QED
      BY <2>1, <2>4 DEF FooterBits
  <1>5. ASSUME NEW s \in kStartPosModelIndex .. Power(kNumPosSlotBits) - 1
        PROVE  /\ FooterBits(s) \in 1 .. MostDirects + kNumAlignBits
               /\ s >= kEndPosModelIndex => DirectsOf(s) \in 1 .. MostDirects
               /\ s < kEndPosModelIndex => FooterBits(s) < MostDirects + kNumAlignBits
               /\ FooterBits(s) = DirectsOf(s) + kNumAlignBits
    <2>1. /\ FooterBits(s) \in 1 .. MostDirects + kNumAlignBits
          /\ s < kEndPosModelIndex => FooterBits(s) <= FooterBits(kEndPosModelIndex - 1)
          /\ s >= kEndPosModelIndex => FooterBits(s) - kNumAlignBits \in 1 .. MostDirects
      BY Footers
    <2>2. FooterBits(kEndPosModelIndex - 1) \in Int
      BY DecisionCounts
    <2> QED
      BY <1>3, <1>4, <2>1, <2>2 DEF DirectsOf
  <1> QED
    BY <1>1, <1>2, <1>3, <1>5

(* The tree of the slot sets how far a distance can reach, ...              *)
LEMMA SlotReaches ==
    ASSUME NEW d, NEW w, WalkOK(w), w.at = "PosSlot", Reach(w), NEW bit \in {0, 1}
    PROVE  Reach(Took(d, w, bit)) /\ DirectsDone(Took(d, w, bit)) = 0
  <1> DEFINE u == Deeper(w, bit)
             v == Took(d, w, bit)
  <1>1. v = IF u.left = 0 THEN SlotEnds(u) ELSE u
    BY DEF Took, Then
  <1> HIDE DEF v
  <1>2. /\ w \in WalkTypes /\ Treed(w, kNumPosSlotBits) /\ ~(w.posSlot >= kEndPosModelIndex)
        /\ w.kind = "match" /\ kNumPosSlotBits \in 1 .. 31
    BY ReachSizes DEF WalkOK
  <1>3. /\ u \in WalkTypes /\ Same(u, w)
        /\ u.left = 0 => u.i \in Power(kNumPosSlotBits) .. Power(kNumPosSlotBits + 1) - 1
    BY <1>2, DeeperLeads
  <1> HIDE DEF u
  <1>4. CASE u.left # 0
    <2>1. v = u /\ v.at = "PosSlot" /\ v.posSlot = w.posSlot
      BY <1>1, <1>3, <1>4 DEF Same
    <2>2. w.posSlot \in Nat
      BY <1>2 DEF WalkTypes
    <2>3. Reach(v) /\ DirectsDone(v) = 0
      BY <1>2, <2>1, <2>2, ReachSizes DEF Reach, DirectsDone
    <2> QED
      BY <2>3 DEF v
  <1>5. CASE u.left = 0
    <2> DEFINE posSlot == u.i - Power(kNumPosSlotBits)
               x == [u EXCEPT !.posSlot = posSlot, !.distance = posSlot]
    <2>1. /\ posSlot \in 0 .. Power(kNumPosSlotBits) - 1 /\ posSlot \in Nat
          /\ Power(kNumPosSlotBits) \in Nat /\ kEndPosModelIndex \in Nat
      <3>1. Power(kNumPosSlotBits + 1) = 2 * Power(kNumPosSlotBits)
        BY <1>2, PowersGrow
      <3>2. Power(kNumPosSlotBits) \in Nat
        BY ReachSizes
      <3>3. u.i \in Power(kNumPosSlotBits) .. 2 * Power(kNumPosSlotBits) - 1
        BY <1>3, <1>5, <3>1
      <3> QED
        BY <3>2, <3>3, ReachSizes
    <2>2. v = IF posSlot < kStartPosModelIndex THEN [x EXCEPT !.at = "done"]
              ELSE IF posSlot < kEndPosModelIndex
              THEN Into([x EXCEPT !.distance = SlotBase(posSlot)], "SpecPos", FooterBits(posSlot))
              ELSE Into([x EXCEPT !.distance = 2 + (posSlot % 2)], "direct",
                        FooterBits(posSlot) - kNumAlignBits)
      BY <1>1, <1>5 DEF SlotEnds, Power
    <2> HIDE DEF posSlot
    <2>3. /\ x \in WalkTypes /\ x.kind = "match" /\ x.posSlot = posSlot
          /\ x.distance = posSlot
      BY <1>2, <1>3, <2>1 DEF WalkTypes, Same
    <2> HIDE DEF x
    <2>4. CASE posSlot < kStartPosModelIndex
      <3>1. v = [x EXCEPT !.at = "done"]
        BY <2>2, <2>4
      <3>2. v.at = "done" /\ v.posSlot = posSlot /\ v.distance = posSlot
        BY <2>3, <3>1 DEF WalkTypes
      <3>3. Reach(v) /\ DirectsDone(v) = 0
        BY <2>1, <2>4, <3>2, ReachSizes DEF Reach, DirectsDone
      <3> QED
        BY <3>3 DEF v
    <2>5. CASE ~(posSlot < kStartPosModelIndex) /\ posSlot < kEndPosModelIndex
      <3> DEFINE n == FooterBits(posSlot)
      <3>1. v = [[x EXCEPT !.distance = SlotBase(posSlot)]
                    EXCEPT !.at = "SpecPos", !.i = 1, !.left = n]
        BY <2>2, <2>5 DEF Into
      <3>2. n \in 1 .. 30
        <4>1. posSlot \in kStartPosModelIndex .. Power(kNumPosSlotBits) - 1
          BY <2>1, <2>5, ReachSizes
        <4> QED
          BY <4>1, ReachSizes
      <3>3. /\ v.at = "SpecPos" /\ v.posSlot = posSlot /\ v.left = n
            /\ v.distance = SlotBase(posSlot)
        BY <2>3, <3>1 DEF WalkTypes
      <3>4. SlotBase(posSlot) = (2 + (posSlot % 2)) * Power(n) /\ posSlot % 2 \in {0, 1}
        BY <2>1 DEF SlotBase, Power
      <3> HIDE DEF n
      <3>5. Power(2 + n) = 4 * Power(n) /\ Power(n) \in Nat \ {0} /\ Power(n - n) = 1
        <4>1. n \in 0 .. 31 /\ n + 1 \in 0 .. 31 /\ (n + 1) + 1 = 2 + n /\ n - n = 0
          BY <3>2
        <4>2. Power(n + 1) = 2 * Power(n) /\ Power((n + 1) + 1) = 2 * Power(n + 1)
              /\ Power(n) \in Nat \ {0}
          BY <4>1, PowersGrow
        <4> QED
          BY <4>1, <4>2, ReachSizes
      <3>6. SlotBase(posSlot) + Power(n) < Power(2 + n) + Power(n - n)
        <4>1. CASE posSlot % 2 = 0
          BY <3>4, <3>5, <4>1
        <4>2. CASE posSlot % 2 = 1
          BY <3>4, <3>5, <4>2
        <4> QED
          BY <3>4, <4>1, <4>2
      <3>7. Below(v, n) /\ n = FooterBits(v.posSlot)
        BY <3>3, <3>6 DEF Below, n
      <3>8. Reach(v) /\ DirectsDone(v) = 0
        BY <2>1, <2>5, <3>3, <3>7 DEF Reach, DirectsDone
      <3> QED
        BY <3>8 DEF v
    <2>6. CASE ~(posSlot < kEndPosModelIndex)
      <3> DEFINE n == DirectsOf(posSlot)
      <3>1. v = [[x EXCEPT !.distance = 2 + (posSlot % 2)]
                    EXCEPT !.at = "direct", !.i = 1, !.left = n]
        BY <2>1, <2>2, <2>6, ReachSizes DEF Into, DirectsOf
      <3>2. n \in 1 .. 30
        <4>1. posSlot \in kStartPosModelIndex .. Power(kNumPosSlotBits) - 1
          BY <2>1, <2>6, ReachSizes
        <4>2. posSlot >= kEndPosModelIndex
          BY <2>1, <2>6
        <4>3. n \in 1 .. MostDirects
          BY <4>1, <4>2, ReachSizes
        <4>4. MostDirects \in 1 .. 30
          BY ReachSizes
        <4> QED
          BY ONLY <4>3, <4>4
      <3>3. /\ v.at = "direct" /\ v.posSlot = posSlot /\ v.left = n
            /\ v.distance = 2 + (posSlot % 2)
        BY <2>3, <3>1 DEF WalkTypes
      <3>4. 2 + (posSlot % 2) < 4
        BY <2>1
      <3> HIDE DEF n
      <3>5. (2 + n) - n = 2 /\ n - n = 0
        BY <3>2
      <3>6. v.distance < Power((2 + n) - n)
        BY <3>3, <3>4, <3>5, ReachSizes
      <3>7. Reach(v) /\ DirectsDone(v) = 0
        BY <2>1, <2>6, <3>2, <3>3, <3>5, <3>6 DEF Reach, DirectsDone, n
      <3> QED
        BY <3>7 DEF v
    <2> QED
      BY <2>4, <2>5, <2>6
  <1> QED
    BY <1>4, <1>5

(* ... each direct bit adds one to it and counts, ...                       *)
LEMMA DirectReaches ==
    ASSUME NEW d, NEW w, WalkOK(w), w.at = "direct", Reach(w), NEW bit \in {0, 1}
    PROVE  /\ Reach(Took(d, w, bit))
           /\ DirectsDone(Took(d, w, bit)) = DirectsDone(w) + 1
  <1> DEFINE u == [w EXCEPT !.distance = 2 * @ + bit, !.left = @ - 1]
             v == Took(d, w, bit)
             D == DirectsOf(w.posSlot)
             n == (2 + D) - w.left
  <1>1. v = IF u.left = 0
            THEN Into([u EXCEPT !.distance = @ * 2 ^ kNumAlignBits], "Align", kNumAlignBits)
            ELSE u
    BY DEF Took, Then
  <1> HIDE DEF v
  <1>2. /\ w \in WalkTypes /\ w.posSlot >= kEndPosModelIndex /\ w.posSlot \in Nat
        /\ w.left \in 1 .. D /\ w.distance < Power(n) /\ w.distance \in Nat
        /\ w.posSlot < Power(kNumPosSlotBits)
    BY DEF WalkOK, Reach, WalkTypes
  <1>3. /\ D \in 1 .. MostDirects /\ FooterBits(w.posSlot) = D + kNumAlignBits
    <2>1. w.posSlot \in kStartPosModelIndex .. Power(kNumPosSlotBits) - 1
      BY <1>2, ReachSizes
    <2> QED
      BY <1>2, <2>1, ReachSizes
  <1>4. /\ u.at = "direct" /\ u.posSlot = w.posSlot /\ u.left = w.left - 1
        /\ u.distance = 2 * w.distance + bit
    BY <1>2 DEF WalkTypes
  <1> HIDE DEF D
  <1>5. n \in 0 .. 31 /\ n + 1 = (2 + D) - (w.left - 1) /\ D - (w.left - 1) = (D - w.left) + 1
    <2>1. w.left \in 1 .. D /\ D \in 1 .. MostDirects /\ MostDirects \in 1 .. 30
      BY <1>2, <1>3, ReachSizes
    <2> QED
      BY ONLY <2>1
  <1> HIDE DEF n
  <1>6. u.distance < Power(n + 1) /\ u.distance \in Nat
    <2>1. Power(n + 1) = 2 * Power(n) /\ Power(n) \in Nat
      BY <1>5, PowersGrow
    <2> QED
      BY <1>2, <1>4, <2>1
  <1>7. DirectsDone(w) = D - w.left
    BY <1>2, ReachSizes DEF DirectsDone, D
  <1>8. CASE u.left # 0
    <2>1. v = u
      BY <1>1, <1>8
    <2>2. v.left \in 1 .. D
      BY <1>2, <1>3, <1>4, <1>8, <2>1
    <2>3. v.distance < Power((2 + D) - v.left)
      BY <1>4, <1>5, <1>6, <2>1
    <2>4. Reach(v)
      BY <1>2, <1>4, <2>1, <2>2, <2>3 DEF Reach, D
    <2>5. DirectsDone(v) = D - (w.left - 1)
      BY <1>2, <1>4, <2>1, ReachSizes DEF DirectsDone, D
    <2> QED
      BY <1>5, <1>7, <2>4, <2>5 DEF v
  <1>9. CASE u.left = 0
    <2> DEFINE far == u.distance * Power(kNumAlignBits)
    <2>1. v = [[u EXCEPT !.distance = far] EXCEPT !.at = "Align", !.i = 1, !.left = kNumAlignBits]
      BY <1>1, <1>9 DEF Into, Power
    <2>2. /\ v.at = "Align" /\ v.posSlot = w.posSlot /\ v.left = kNumAlignBits
          /\ v.distance = far
      BY <1>2, <2>1 DEF WalkTypes
    <2>3. n + 1 = 2 + D /\ w.left = 1
      BY <1>2, <1>3, <1>4, <1>5, <1>9
    <2>4. Power(2 + FooterBits(w.posSlot)) = Power(2 + D) * Power(kNumAlignBits)
      <3>1. /\ 2 + D \in 0 .. 32 /\ kNumAlignBits \in 0 .. 32 /\ (2 + D) + kNumAlignBits <= 32
            /\ 2 + FooterBits(w.posSlot) = (2 + D) + kNumAlignBits
        BY <1>3, ReachSizes
      <3> QED
        BY <3>1, PowerOfSum
    <2>5. /\ Power(kNumAlignBits) \in Nat \ {0} /\ Power(2 + D) \in Nat
          /\ Power(kNumAlignBits - kNumAlignBits) = 1
      <3>1. kNumAlignBits \in 0 .. 32 /\ 2 + D \in 0 .. 32 /\ kNumAlignBits - kNumAlignBits = 0
        BY <1>3, ReachSizes
      <3> QED
        BY <3>1, ReachSizes
    <2>6. far + Power(kNumAlignBits) <= Power(2 + D) * Power(kNumAlignBits)
      <3>1. \A a, b \in Nat, q \in Nat : a < b => a * q + q <= b * q
        <4>1. \A a, b \in Nat, q \in Nat : a + 1 <= b => (a + 1) * q <= b * q
          OBVIOUS
        <4>2. \A a, q \in Nat : (a + 1) * q = a * q + q
          OBVIOUS
        <4> QED
          BY <4>1, <4>2
      <3>2. u.distance < Power(2 + D)
        BY <1>6, <2>3
      <3> QED
        BY <1>6, <2>5, <3>1, <3>2
    <2>7. far \in Nat
      BY <1>6, <2>5
    <2> HIDE DEF far
    <2>8. Below(v, kNumAlignBits)
      <3>1. Power(2 + D) * Power(kNumAlignBits) \in Nat
        BY <2>5
      <3>2. far + Power(kNumAlignBits) < Power(2 + FooterBits(w.posSlot)) + 1
        BY <2>4, <2>5, <2>6, <2>7, <3>1
      <3> QED
        BY <2>2, <2>5, <3>2 DEF Below
    <2>9. Reach(v)
      BY <1>2, <2>2, <2>8 DEF Reach
    <2>10. DirectsDone(v) = D
      BY <1>2, <2>2, ReachSizes DEF DirectsDone, D
    <2>11. DirectsDone(v) = DirectsDone(w) + 1
      BY <1>3, <1>7, <2>3, <2>10
    <2> QED
      BY <2>9, <2>11 DEF v
  <1> QED
    BY <1>8, <1>9

(* ... and the low bits, which come in reverse, stay within it.             *)
LEMMA ReverseReaches ==
    ASSUME NEW d, NEW w, WalkOK(w), w.at \in {"SpecPos", "Align"}, Reach(w),
           NEW bit \in {0, 1}
    PROVE  /\ Reach(Took(d, w, bit))
           /\ DirectsDone(Took(d, w, bit)) = DirectsDone(w)
  <1> DEFINE levels == IF w.at = "SpecPos" THEN FooterBits(w.posSlot) ELSE kNumAlignBits
             F == FooterBits(w.posSlot)
             n == CHOOSE k \in 0 .. FooterBits(2 ^ kNumPosSlotBits - 1) :
                    2 ^ k <= w.i /\ w.i < 2 ^ (k + 1)
             x == [w EXCEPT !.distance = @ + bit * 2 ^ n]
             u == Deeper(x, bit)
             v == Took(d, w, bit)
             k == levels - w.left
  <1>1. v = IF u.left = 0 THEN [u EXCEPT !.at = "done"] ELSE u
    BY DEF Took, ReverseBit, Then
  <1> HIDE DEF v
  <1>2. /\ w \in WalkTypes /\ w.kind = "match" /\ Treed(w, levels) /\ Below(w, levels)
        /\ w.posSlot \in kStartPosModelIndex .. Power(kNumPosSlotBits) - 1
        /\ w.distance \in Nat /\ w.i \in Nat
        /\ w.at = "SpecPos" => w.posSlot < kEndPosModelIndex
        /\ w.at = "Align" => ~(w.posSlot < kEndPosModelIndex)
    <2>1. /\ w \in WalkTypes /\ w.kind = "match" /\ w.distance \in Nat /\ w.i \in Nat
          /\ Treed(w, levels) /\ Below(w, levels) /\ w.posSlot < Power(kNumPosSlotBits)
      BY DEF WalkOK, WalkTypes, Reach
    <2>2. /\ kStartPosModelIndex < kEndPosModelIndex /\ kEndPosModelIndex \in Nat
          /\ kStartPosModelIndex \in Nat /\ Power(kNumPosSlotBits) \in Nat
      BY ReachSizes
    <2>3. w.posSlot \in Nat
      BY <2>1 DEF WalkTypes
    <2>4. CASE w.at = "SpecPos"
      <3>1. w.posSlot \in kStartPosModelIndex .. kEndPosModelIndex - 1
        BY <2>4 DEF WalkOK
      <3> HIDE DEF levels
      <3> QED
        BY <2>1, <2>2, <2>3, <2>4, <3>1
    <2>5. CASE w.at = "Align"
      <3>1. w.posSlot >= kEndPosModelIndex
        BY <2>5 DEF WalkOK
      <3> HIDE DEF levels
      <3> QED
        BY <2>1, <2>2, <2>3, <2>5, <3>1
    <2> QED
      BY <2>4, <2>5
  <1>3. /\ levels \in 1 .. 30 /\ F \in 1 .. 30
        /\ levels \in 1 .. MostDirects + kNumAlignBits /\ MostDirects + kNumAlignBits \in Nat
        /\ MostDirects + kNumAlignBits <= 30
    <2>1. F \in 1 .. MostDirects + kNumAlignBits
      BY <1>2, ReachSizes
    <2>2. /\ MostDirects \in 1 .. 30 /\ kNumAlignBits \in 1 .. 30
          /\ MostDirects + kNumAlignBits <= 30
      BY ReachSizes
    <2> HIDE DEF F
    <2>3. levels = F \/ levels = kNumAlignBits
      BY DEF F
    <2> HIDE DEF levels
    <2> QED
      BY ONLY <2>1, <2>2, <2>3
  <1> HIDE DEF levels, F
  <1>4. /\ w.left \in 1 .. levels /\ k \in 0 .. 29 /\ k + 1 = levels - (w.left - 1)
        /\ w.i \in Power(k) .. Power(k + 1) - 1
    BY <1>2, <1>3 DEF Treed
  <1> HIDE DEF k
  <1>5. Power(k) \in Nat \ {0} /\ Power(k + 1) = 2 * Power(k)
    <2>1. k \in 0 .. 31
      BY <1>4
    <2> QED
      BY <2>1, PowersGrow
  <1>6. n = k
    <2>1. FooterBits(2 ^ kNumPosSlotBits - 1) = MostDirects + kNumAlignBits
      BY DecisionCounts
    <2>2. k \in 0 .. FooterBits(2 ^ kNumPosSlotBits - 1)
      BY <1>3, <1>4, <2>1
    <2>3. 2 ^ k <= w.i /\ w.i < 2 ^ (k + 1)
      BY <1>2, <1>4, <1>5 DEF Power
    <2>4. /\ n \in 0 .. FooterBits(2 ^ kNumPosSlotBits - 1)
          /\ 2 ^ n <= w.i /\ w.i < 2 ^ (n + 1)
      BY <2>2, <2>3
    <2> HIDE DEF n
    <2>5. Power(n) <= w.i /\ w.i < Power(n + 1) /\ n \in 0 .. 30
      BY <1>3, <2>1, <2>4 DEF Power
    <2>6. Power(n) \in Nat /\ Power(n + 1) \in Nat
      <3>1. n \in 0 .. 31
        BY <2>5
      <3>2. Power(n) \in Nat /\ Power(n + 1) = 2 * Power(n)
        BY <3>1, PowersGrow
      <3> QED
        BY <3>2
    <2>7. CASE n < k
      <3>1. n + 1 \in 0 .. 32 /\ k \in 0 .. 32 /\ n + 1 <= k
        BY <1>4, <2>5, <2>7
      <3>2. Power(n + 1) <= Power(k)
        BY <3>1, PowersMonotone
      <3> QED
        BY <1>2, <1>4, <1>5, <2>5, <2>6, <3>2
    <2>8. CASE k < n
      <3>1. k + 1 \in 0 .. 32 /\ n \in 0 .. 32 /\ k + 1 <= n
        BY <1>4, <2>5, <2>8
      <3>2. Power(k + 1) <= Power(n)
        BY <3>1, PowersMonotone
      <3> QED
        BY <1>2, <1>4, <1>5, <2>5, <2>6, <3>2
    <2> QED
      BY <1>4, <2>5, <2>7, <2>8
  <1> DEFINE more == bit * 2 ^ n
  <1>7. more \in Nat /\ more <= Power(k)
    <2>1. more = bit * Power(k)
      BY <1>6 DEF Power
    <2> HIDE DEF more
    <2>2. bit * Power(k) \in {0, Power(k)}
      BY <1>5
    <2> QED
      BY <1>5, <2>1, <2>2
  <1> HIDE DEF more
  <1>8. x = [w EXCEPT !.distance = @ + more]
    BY DEF more
  <1> HIDE DEF x, n
  <1>9. /\ x.at = w.at /\ x.posSlot = w.posSlot /\ x.left = w.left /\ x.kind = w.kind
        /\ x.distance = w.distance + more /\ x \in WalkTypes
    BY <1>2, <1>7, <1>8 DEF WalkTypes
  <1>10. /\ u.at = w.at /\ u.posSlot = w.posSlot /\ u.left = w.left - 1 /\ u.kind = w.kind
         /\ u.distance = w.distance + more
    BY <1>9 DEF Deeper, WalkTypes
  <1>11. u.left = 0 => v = [u EXCEPT !.at = "done"]
    BY <1>1
  <1>12. /\ v.at = (IF u.left = 0 THEN "done" ELSE w.at)
         /\ v.posSlot = w.posSlot /\ v.left = w.left - 1 /\ v.kind = "match"
         /\ v.distance = w.distance + more
    BY <1>1, <1>2, <1>9, <1>10 DEF Deeper, WalkTypes
  <1> HIDE DEF u, x
  <1>13. v.distance + Power(levels) < Power(2 + F) + Power(levels - v.left)
    <2>1. w.distance + Power(levels) < Power(2 + F) + Power(k)
      BY <1>2 DEF Below, F, k
    <2>2. Power(levels) \in Nat /\ Power(2 + F) \in Nat
      <3>1. levels \in 0 .. 32 /\ 2 + F \in 0 .. 32
        BY <1>3
      <3> QED
        BY <3>1, PowersNatural
    <2>3. Power(levels - v.left) = 2 * Power(k)
      BY <1>4, <1>5, <1>12
    <2>4. w.distance \in Nat /\ Power(k) \in Nat
      BY <1>2, <1>5
    <2>5. (w.distance + more) + Power(levels) < Power(2 + F) + 2 * Power(k)
      BY ONLY <1>7, <2>1, <2>2, <2>4
    <2> QED
      BY <1>12, <2>3, <2>5
  <1>14. DirectsDone(v) = DirectsDone(w)
    BY <1>2, <1>12 DEF DirectsDone
  <1>15. CASE u.left = 0
    <2>1. v.left = 0 /\ levels - v.left = levels
      <3>1. v.left = u.left
        BY ONLY <1>10, <1>12
      <3>2. v.left = 0
        BY ONLY <1>15, <3>1
      <3>3. levels - 0 = levels
        BY ONLY <1>3
      <3> QED
        BY ONLY <3>2, <3>3
    <2>2. v.distance \in Nat /\ Power(levels) \in Nat /\ Power(2 + F) \in Nat
      <3>1. levels \in 0 .. 32 /\ 2 + F \in 0 .. 32
        BY <1>3
      <3> QED
        BY <1>2, <1>7, <1>12, <3>1, PowersNatural
    <2>3. v.distance < Power(2 + F)
      BY <1>13, <2>1, <2>2
    <2>4. ~(v.posSlot < kStartPosModelIndex) /\ v.posSlot < Power(kNumPosSlotBits)
      BY <1>2, <1>12, ReachSizes
    <2>5. Reach(v)
      BY <1>12, <1>15, <2>3, <2>4 DEF Reach, F
    <2> QED
      BY <1>14, <2>5 DEF v
  <1>16. CASE u.left # 0
    <2>1. v.at = w.at
      BY <1>12, <1>16
    <2>2. Below(v, levels)
      BY <1>12, <1>13 DEF Below, F
    <2>3. v.posSlot < Power(kNumPosSlotBits)
      BY <1>2, <1>12, ReachSizes
    <2>4. Reach(v)
      BY <1>12, <2>1, <2>2, <2>3 DEF Reach, levels
    <2> QED
      BY <1>14, <2>4 DEF v
  <1> QED
    BY <1>15, <1>16

(* Whether a decision is a direct bit.                                      *)
OneIf(is) == IF is THEN 1 ELSE 0

(* Decisions before the slot change neither what can be reached nor the     *)
(* direct bits done.                                                        *)
LEMMA PlainReaches ==
    ASSUME NEW w, WalkOK(w), w.at \notin {"SpecPos", "direct", "Align", "done"}, Reach(w),
           NEW v, WalkOK(v), Plain(v, w)
    PROVE  Reach(v) /\ DirectsDone(v) = 0 /\ DirectsDone(w) = 0
  <1>1. w.posSlot \in Nat /\ kEndPosModelIndex \in Nat
    BY ReachSizes DEF WalkOK, WalkTypes
  <1>2. w.posSlot < kEndPosModelIndex
    BY <1>1 DEF WalkOK
  <1> QED
    BY <1>2 DEF Reach, Plain, DirectsDone

(* Every decision keeps the distance within reach and counts direct bits.   *)
LEMMA TookReaches ==
    ASSUME NEW d, KnownOK(d), NEW w, WalkOK(w), ~Done(w), Reach(w), NEW bit \in {0, 1}
    PROVE  /\ Reach(Took(d, w, bit))
           /\ DirectsDone(Took(d, w, bit)) = DirectsDone(w) + OneIf(w.at = "direct")
           /\ DirectsDone(w) \in 0 .. 30
  <1> DEFINE v == Took(d, w, bit)
  <1>1. WalkOK(v)
    BY TookLeads DEF LeadsTo
  <1>2. DirectsDone(w) \in 0 .. 30
    <2>1. /\ w.posSlot \in Nat /\ kEndPosModelIndex \in Nat /\ MostDirects \in 1 .. 30
          /\ kStartPosModelIndex < kEndPosModelIndex /\ kStartPosModelIndex \in Nat
          /\ Power(kNumPosSlotBits) \in Nat
      BY ReachSizes DEF WalkOK, WalkTypes
    <2>2. CASE w.posSlot < kEndPosModelIndex
      BY <2>2 DEF DirectsDone
    <2>3. CASE ~(w.posSlot < kEndPosModelIndex)
      <3>1. w.posSlot < Power(kNumPosSlotBits)
        BY DEF Reach
      <3>2. w.posSlot \in kStartPosModelIndex .. Power(kNumPosSlotBits) - 1
        BY <2>1, <2>3, <3>1
      <3>3. w.posSlot >= kEndPosModelIndex
        BY <2>1, <2>3
      <3>4. DirectsOf(w.posSlot) \in 1 .. MostDirects
        BY <3>2, <3>3, ReachSizes
      <3>5. w.at = "direct" => w.left \in 1 .. DirectsOf(w.posSlot)
        BY DEF Reach
      <3> DEFINE n == DirectsOf(w.posSlot)
      <3>6. DirectsDone(w) = IF w.at = "direct" THEN n - w.left ELSE n
        BY <2>3 DEF DirectsDone
      <3> HIDE DEF n
      <3>7. n \in 1 .. MostDirects /\ (w.at = "direct" => w.left \in 1 .. n)
        BY <3>4, <3>5 DEF n
      <3> QED
        BY <2>1, <3>6, <3>7
    <2> QED
      BY <2>2, <2>3
  <1>3. CASE w.at \in FlagLabels \cup {"choice", "choice2", "literal", "low", "mid", "high"}
    <2>1. Plain(v, w)
      BY <1>3, FlagsPlain, TreesPlain
    <2>2. w.at \notin {"SpecPos", "direct", "Align", "done"}
      BY <1>3 DEF FlagLabels
    <2> HIDE DEF v
    <2>3. Reach(v) /\ DirectsDone(v) = 0 /\ DirectsDone(w) = 0
      BY <1>1, <2>1, <2>2, PlainReaches
    <2> QED
      BY <2>2, <2>3 DEF OneIf, v
  <1>4. CASE w.at = "PosSlot"
    <2>1. Reach(v) /\ DirectsDone(v) = 0
      BY <1>4, SlotReaches
    <2>2. DirectsDone(w) = 0
      <3>1. w.posSlot \in Nat /\ kEndPosModelIndex \in Nat
        BY ReachSizes DEF WalkOK, WalkTypes
      <3>2. w.posSlot < kEndPosModelIndex
        BY <1>4, <3>1 DEF WalkOK
      <3> QED
        BY <3>2 DEF DirectsDone
    <2> HIDE DEF v
    <2> QED
      BY <1>4, <2>1, <2>2 DEF OneIf, v
  <1>5. CASE w.at = "direct"
    <2>1. Reach(v) /\ DirectsDone(v) = DirectsDone(w) + 1
      BY <1>5, DirectReaches
    <2> HIDE DEF v
    <2> QED
      BY <1>2, <1>5, <2>1 DEF OneIf, v
  <1>6. CASE w.at \in {"SpecPos", "Align"}
    <2>1. Reach(v) /\ DirectsDone(v) = DirectsDone(w)
      BY <1>6, ReverseReaches
    <2> HIDE DEF v
    <2> QED
      BY <1>2, <1>6, <2>1 DEF OneIf, v
  <1>7. w.at \in FlagLabels \cup {"choice", "choice2", "literal", "low", "mid", "high",
                                  "PosSlot", "direct", "SpecPos", "Align"}
    BY DEF WalkOK, WalkTypes, Done, FlagLabels
  <1> HIDE DEF v
  <1>8. Reach(v) /\ DirectsDone(v) = DirectsDone(w) + OneIf(w.at = "direct")
    BY <1>3, <1>4, <1>5, <1>6, <1>7 DEF v
  <1> QED
    BY <1>2, <1>8 DEF v

(* A coder counts in naturals.                                              *)
LEMMA CoderCounts ==
    ASSUME NEW c \in Coders
    PROVE  c.range \in Nat /\ c.buf \in Nat /\ c.range < Word
  <1>1. c.range \in Base * Base .. Word - 1 /\ c.buf \in Nat
    BY DEF Coders
  <1>2. Base * Base \in Nat /\ Word \in Nat
    BY Sizes
  <1> QED
    BY <1>1, <1>2

(* Products keep the order.                                                 *)
LEMMA ProductsOrdered ==
    \A q, s, t \in Nat : q <= s => q * t <= s * t /\ q * t \in Nat /\ s * t \in Nat
  OBVIOUS

(* Since coder c no byte has been taken, and each direct bit has halved the *)
(* interval; or a byte has been taken.                                      *)
Narrow(at, c) ==
    /\ c.buf <= at.coder.buf
    /\ c.buf < at.coder.buf \/ at.coder.range * Power(DirectsDone(at.w)) < Word

(* A decision keeps that.                                                   *)
LEMMA DecidedNarrows ==
    ASSUME NEW d, KnownOK(d), NEW at \in Walkings, ~Done(at.w), Reach(at.w),
           NEW b \in Seq(Bytes), NEW c, c.buf \in Nat, Narrow(at, c)
    PROVE  Reach(Decided(d, at, b).w) /\ Narrow(Decided(d, at, b), c)
  <1> DEFINE n == Normalized(at.coder, b)
             context == ContextOf(d, at.w)
             step == IF context = << >> THEN DirectBit(n) ELSE AdaptiveBit(n, context)
             v == Took(d, at.w, step.bit)
             u == Decided(d, at, b)
  <1>1. u = [w |-> v, coder |-> step.coder]
    BY DEF Decided
  <1>2. WalkOK(at.w) /\ at.coder \in Coders
    BY DEF Walkings
  <1>3. /\ n \in Coders /\ n.range \in Intervals
        /\ n.range = IF at.coder.range >= kTopValue THEN at.coder.range
                     ELSE at.coder.range * Base
        /\ n.buf = IF at.coder.range >= kTopValue THEN at.coder.buf ELSE at.coder.buf + 1
    BY <1>2, NormalizedIs DEF Bytes
  <1> HIDE DEF n
  <1>4. step.bit \in {0, 1}
    <2>1. CASE at.w.at = "direct"
      <3>1. context = << >>
        BY <1>2, <2>1, ContextIs
      <3>2. step = DirectBit(n)
        BY <3>1
      <3> HIDE DEF step
      <3> QED
        BY <1>3, <3>2, DirectShrinks
    <2>2. CASE at.w.at # "direct"
      <3>1. context \in AllContexts /\ context # << >>
        BY <1>2, <2>2, ContextIs
      <3>2. step = AdaptiveBit(n, context)
        BY <3>1
      <3> HIDE DEF step, context
      <3> QED
        BY <1>3, <3>1, <3>2, AdaptiveShrinks
    <2> QED
      BY <2>1, <2>2
  <1>5. at.w.at = "direct" => step.coder.range = n.range \div 2
    <2> SUFFICES ASSUME at.w.at = "direct" PROVE step.coder.range = n.range \div 2
      OBVIOUS
    <2>1. context = << >>
      BY <1>2, ContextIs
    <2>2. step = DirectBit(n)
      BY <2>1
    <2> HIDE DEF step
    <2> QED
      BY <1>3, <2>2 DEF DirectBit, Coders
  <1>6. /\ u.coder.buf = n.buf /\ u.coder.range < n.range /\ u.coder \in Coders
    BY DecidedIs DEF Walkings, n
  <1> HIDE DEF step
  <1>7. /\ Reach(v) /\ DirectsDone(v) = DirectsDone(at.w) + OneIf(at.w.at = "direct")
        /\ DirectsDone(at.w) \in 0 .. 30
    BY <1>2, <1>4, TookReaches
  <1>8. u.w = v /\ (at.w.at = "direct" => u.coder.range = n.range \div 2)
    BY <1>1, <1>5
  <1> HIDE DEF u, v
  <1>9. /\ n.range \in Nat /\ n.buf \in Nat /\ u.coder.range \in Nat /\ at.coder.buf \in Nat
        /\ Word \in Nat
    BY <1>2, <1>3, <1>6, CoderCounts, Sizes
  <1>10. CASE n.buf # at.coder.buf
    <2>1. c.buf < u.coder.buf
      BY <1>3, <1>6, <1>9, <1>10 DEF Narrow
    <2> QED
      BY <1>7, <1>8, <2>1, <1>9, <1>6 DEF Narrow, u
  <1>11. CASE n.buf = at.coder.buf
    <2>1. n.range = at.coder.range
      BY <1>3, <1>9, <1>11
    <2>2. CASE c.buf < at.coder.buf
      BY <1>6, <1>7, <1>8, <1>9, <1>11, <2>2 DEF Narrow, u
    <2>3. CASE n.range * Power(DirectsDone(at.w)) < Word
      <3> DEFINE k == DirectsDone(at.w)
                 P == Power(k)
                 R == u.coder.range
      <3>1. P \in Nat /\ Power(k + 1) = 2 * P
        <4>1. k \in 0 .. 31
          BY <1>7
        <4> QED
          BY <4>1, PowersGrow
      <3>2. DirectsDone(v) = k + OneIf(at.w.at = "direct") /\ k \in Nat
        <4>1. k \in 0 .. 30
          BY <1>7
        <4>2. k \in Nat
          <5>1. \A n0 \in 0 .. 30 : n0 \in Nat
            OBVIOUS
          <5> QED
            BY <4>1, <5>1, Zenon
        <4>3. DirectsDone(v) = DirectsDone(at.w) + OneIf(at.w.at = "direct")
          BY ONLY <1>7
        <4> QED
          BY <4>2, <4>3
      <3>3. n.range * P < Word /\ R \in Nat /\ R < n.range
        BY <1>6, <1>9, <2>3
      <3>4. at.w.at = "direct" => R = n.range \div 2
        BY <1>8
      <3> HIDE DEF P, k, R
      <3>5. R * Power(DirectsDone(v)) < Word
        <4>1. CASE at.w.at = "direct"
          <5>1. Power(DirectsDone(v)) = 2 * P /\ R = n.range \div 2
            BY <3>1, <3>2, <3>4, <4>1 DEF OneIf, P
          <5>2. 2 * R <= n.range
            BY <1>9, <5>1
          <5>3. (2 * R) * P <= n.range * P
            <6>1. 2 * R \in Nat /\ n.range \in Nat /\ P \in Nat
              BY <1>9, <3>1, <3>3
            <6> QED
              BY <5>2, <6>1, ProductsOrdered
          <5>4. R * (2 * P) = (2 * R) * P
            BY <3>1, <3>3
          <5>5. (2 * R) * P \in Nat /\ n.range * P \in Nat
            BY <1>9, <3>1, <3>3
          <5> QED
            BY <1>9, <3>3, <5>1, <5>3, <5>4, <5>5
        <4>2. CASE at.w.at # "direct"
          <5>1. Power(DirectsDone(v)) = P
            BY <3>2, <4>2 DEF OneIf, P
          <5>2. R * P <= n.range * P
            <6>1. R \in Nat /\ n.range \in Nat /\ P \in Nat /\ R <= n.range
              BY <1>9, <3>1, <3>3
            <6> QED
              BY <6>1, ProductsOrdered
          <5>3. R * P \in Nat /\ n.range * P \in Nat
            BY <1>9, <3>1, <3>3
          <5> QED
            BY <1>9, <3>3, <5>1, <5>2, <5>3
        <4> QED
          BY <4>1, <4>2
      <3>6. c.buf <= u.coder.buf
        BY <1>6, <1>11 DEF Narrow
      <3> QED
        BY <1>7, <1>8, <3>5, <3>6 DEF Narrow, u, R
    <2> QED
      BY <2>1, <2>2, <2>3 DEF Narrow
  <1> QED
    BY <1>10, <1>11

(* So the end of the symbol is within reach, and has narrowed the interval. *)
LEMMA SymbolNarrows ==
    ASSUME NEW d, KnownOK(d), NEW c \in Coders, NEW b \in Seq(Bytes),
           NEW y, SymbolWalks(d, c, b) = {y}
    PROVE  Reach(y.w) /\ Narrow(y, c) /\ y \in Walkings /\ Done(y.w)
  <1> DEFINE start == [w |-> WalkStart, coder |-> c]
             T == {at \in Walkings \X Walkings : Reach(at[1].w) /\ Narrow(at[1], c)}
  <1>1. start \in Walkings
    BY StartIsWalking
  <1>2. Reach(start.w) /\ Narrow(start, c)
    <2>1. /\ start.w = WalkStart /\ start.coder = c /\ WalkStart.posSlot = 0
          /\ WalkStart.at = "IsMatch"
      BY DEF WalkStart
    <2>2. /\ Power(kNumPosSlotBits) \in Nat \ {0} /\ Power(0) = 1
          /\ kEndPosModelIndex \in Nat /\ 0 < kEndPosModelIndex
      <3>1. kNumPosSlotBits \in 0 .. 32 /\ 0 < kEndPosModelIndex
        BY ReachSizes
      <3> QED
        BY <3>1, ReachSizes
    <2>3. DirectsDone(WalkStart) = 0
      BY <2>1, <2>2 DEF DirectsDone
    <2>4. c.range \in Nat /\ c.range < Word /\ c.buf \in Nat
      BY Sizes DEF Coders
    <2> HIDE DEF start
    <2>5. Reach(start.w)
      BY <2>1, <2>2 DEF Reach
    <2>6. Narrow(start, c)
      BY <2>1, <2>2, <2>3, <2>4 DEF Narrow
    <2> QED
      BY <2>5, <2>6
  <1> HIDE DEF start
  <1>3. T \subseteq Walkings \X Walkings /\ <<start, start>> \in T
    BY <1>1, <1>2
  <1>4. \A at \in T : <<Stepped(d, at[1], b), Stepped(d, at[2], b)>> \in T
    <2> SUFFICES ASSUME NEW u \in Walkings, NEW v \in Walkings, Reach(u.w), Narrow(u, c)
                 PROVE  <<Stepped(d, u, b), Stepped(d, v, b)>> \in T
      OBVIOUS
    <2>1. Stepped(d, u, b) \in Walkings /\ Stepped(d, v, b) \in Walkings
      BY BufferGrows
    <2>2. c.buf \in Nat
      BY DEF Coders
    <2>3. Reach(Stepped(d, u, b).w) /\ Narrow(Stepped(d, u, b), c)
      <3>1. CASE Done(u.w)
        BY <3>1 DEF Stepped
      <3>2. CASE ~Done(u.w)
        <4>1. Stepped(d, u, b) = Decided(d, u, b)
          BY <3>2 DEF Stepped
        <4> QED
          BY <2>2, <3>2, <4>1, DecidedNarrows
      <3> QED
        BY <3>1, <3>2
    <2>4. \A p1 \in Walkings, p2 \in Walkings :
              Reach(p1.w) /\ Narrow(p1, c) => <<p1, p2>> \in T
      OBVIOUS
    <2> QED
      BY <2>1, <2>3, <2>4
  <1> HIDE DEF T
  <1>5. <<[w |-> WalkStart, coder |-> c], [w |-> WalkStart, coder |-> c]>> \in T
    BY <1>3 DEF start
  <1>6. EndIn(T, d, c, c, b, b)
    <2>1. KeptOn(T, d, c, c, b, b)
      BY <1>3, <1>4, <1>5 DEF KeptOn
    <2> QED
      BY <2>1, SideBySide
  <1>7. PICK u, v : SymbolWalks(d, c, b) = {u} /\ Ends(u, c, b) /\ <<u, v>> \in T
    BY <1>6 DEF EndIn
  <1>8. u = y
    BY <1>7
  <1> QED
    BY <1>7, <1>8 DEF T, Ends

(* Only the last slot leads as far as the end mark.                         *)
LEMMA MarkIsFar ==
    ASSUME NEW w, WalkOK(w), Done(w), Reach(w), Mark(w)
    PROVE  DirectsDone(w) = MostDirects
  <1> DEFINE most == MostDirects + kNumAlignBits
             F == FooterBits(w.posSlot)
  <1>1. w.at = "done" /\ w.kind = "match" /\ w.distance = EndDistance /\ w.posSlot \in Nat
    BY DEF Done, Mark, WalkOK, WalkTypes
  <1>2. /\ most \in 2 .. 30 /\ kStartPosModelIndex = 4 /\ kEndPosModelIndex \in Nat
        /\ Power(kNumPosSlotBits) \in Nat /\ MostDirects \in Nat /\ kNumAlignBits \in Nat
    <2>1. /\ MostDirects \in 1 .. 30 /\ kNumAlignBits \in 1 .. 30
          /\ MostDirects + kNumAlignBits <= 30
      BY ReachSizes
    <2> QED
      BY <2>1, ReachSizes
  <1>3. EndDistance = Power(2 + most) - 1
    <2>1. FooterBits(Power(kNumPosSlotBits) - 1) = most
      BY DecisionCounts DEF Power
    <2>2. Power(kNumPosSlotBits - 1) = 2 + most
      <3>1. kNumPosSlotBits \in {3, 4, 5, 6}
        BY ReachSizes
      <3>2. /\ Power(2) = 4 /\ Power(3) = 8 /\ Power(4) = 16 /\ Power(5) = 32 /\ Power(6) = 64
        BY DEF Power
      <3>3. FooterBits(7) = 2 /\ FooterBits(15) = 6 /\ FooterBits(31) = 14
            /\ FooterBits(63) = 30
        BY DEF FooterBits
      <3> HIDE DEF most
      <3> QED
        BY <2>1, <3>1, <3>2, <3>3
    <2> QED
      BY <2>2 DEF EndDistance, Power
  <1> HIDE DEF most
  <1>4. Power(2 + most) = 2 * Power(1 + most) /\ Power(1 + most) >= 8
        /\ Power(1 + most) \in Nat
    <2>1. 1 + most \in 0 .. 31 /\ (1 + most) + 1 = 2 + most /\ 3 \in 0 .. 32
          /\ 1 + most \in 0 .. 32 /\ 3 <= 1 + most
      BY <1>2
    <2>2. Power(3) <= Power(1 + most)
      BY <2>1, PowersMonotone
    <2>3. Power(3) = 8
      BY DEF Power
    <2>4. Power(1 + most) \in Nat /\ Power((1 + most) + 1) = 2 * Power(1 + most)
      BY <2>1, PowersGrow
    <2> QED
      BY <2>1, <2>2, <2>3, <2>4
  <1>5. IF w.posSlot < kStartPosModelIndex THEN w.distance < 4
        ELSE w.distance < Power(2 + F)
    BY <1>1 DEF Reach
  <1>6. ~(w.posSlot < kStartPosModelIndex) /\ w.distance < Power(2 + F)
    BY <1>1, <1>3, <1>4, <1>5
  <1>7. w.posSlot \in kStartPosModelIndex .. Power(kNumPosSlotBits) - 1
    BY <1>1, <1>2, <1>6 DEF Reach
  <1>8. /\ F \in 1 .. most
        /\ w.posSlot < kEndPosModelIndex => F < most
        /\ F = DirectsOf(w.posSlot) + kNumAlignBits
        /\ w.posSlot >= kEndPosModelIndex => DirectsOf(w.posSlot) \in 1 .. MostDirects
    BY <1>7, ReachSizes DEF most
  <1> HIDE DEF F
  <1>9. F = most
    <2> SUFFICES ASSUME F # most PROVE FALSE
      OBVIOUS
    <2>1. 2 + F <= 1 + most /\ 2 + F \in 0 .. 32 /\ 1 + most \in 0 .. 32
      BY <1>2, <1>8
    <2>2. Power(2 + F) <= Power(1 + most)
      BY <2>1, PowersMonotone
    <2>3. Power(2 + F) \in Nat
      BY <2>1, PowersNatural
    <2> QED
      BY <1>1, <1>3, <1>4, <1>6, <2>2, <2>3
  <1>10. w.posSlot >= kEndPosModelIndex /\ ~(w.posSlot < kEndPosModelIndex)
    BY <1>1, <1>2, <1>8, <1>9
  <1>11. DirectsDone(w) = DirectsOf(w.posSlot)
    BY <1>1, <1>10 DEF DirectsDone
  <1> QED
    BY <1>2, <1>8, <1>9, <1>10, <1>11 DEF most

(* The end mark takes a byte of its own.                                    *)
LEMMA MarkTakesAByte ==
    ASSUME NEW b \in Seq(Bytes), NEW m, OpenOK(m, b), Mark(NextWalk(b, m).w)
    PROVE  m.coder.buf < NextCoder(b, m).buf
  <1> DEFINE y == NextWalk(b, m)
             k == Normalized(y.coder, b)
             P == Power(MostDirects)
  <1>1. /\ SymbolWalks(KnownAfter(m), m.coder, b) = {y} /\ Done(y.w) /\ WalkOK(y.w)
        /\ y.coder \in Coders /\ NextCoder(b, m) = k
    BY NextIs DEF NextCoder
  <1>2. m.coder \in Coders /\ KnownOK(KnownAfter(m))
    BY OpenKnows DEF OpenOK, Readable
  <1> HIDE DEF y
  <1>3. Reach(y.w) /\ Narrow(y, m.coder)
    BY <1>1, <1>2, SymbolNarrows
  <1>4. DirectsDone(y.w) = MostDirects
    BY <1>1, <1>3, MarkIsFar DEF y
  <1>5. k.buf = IF y.coder.range >= kTopValue THEN y.coder.buf ELSE y.coder.buf + 1
    BY <1>1, NormalizedIs DEF Bytes
  <1>6. /\ y.coder.range \in Nat /\ y.coder.buf \in Nat /\ m.coder.buf \in Nat
        /\ Word = kTopValue * Base /\ kTopValue \in Nat /\ Base \in Nat
    BY <1>1, <1>2, CoderCounts, Sizes
  <1>7. P \in Nat /\ P >= Base
    <2>1. MostDirects \in 0 .. 32
      BY ReachSizes
    <2>2. 2 ^ MostDirects >= Base
      BY TransferAssumption
    <2> QED
      BY <2>1, <2>2, PowersNatural DEF Power
  <1> HIDE DEF P, k
  <1>8. /\ m.coder.buf <= y.coder.buf
        /\ m.coder.buf < y.coder.buf \/ y.coder.range * P < Word
    BY <1>3, <1>4 DEF Narrow, P
  <1>9. y.coder.range * P < Word => ~(y.coder.range >= kTopValue)
    <2> SUFFICES ASSUME y.coder.range >= kTopValue PROVE kTopValue * Base <= y.coder.range * P
      <3>1. y.coder.range * P \in Nat /\ kTopValue * Base \in Nat
        BY <1>6, <1>7
      <3> QED
        BY <1>6, <3>1
    <2>1. \A q, s, t, u \in Nat : q <= s /\ t <= u =>
              /\ q * t <= s * t /\ s * t <= s * u
              /\ q * t \in Nat /\ s * t \in Nat /\ s * u \in Nat
      OBVIOUS
    <2>2. kTopValue <= y.coder.range /\ Base <= P
      BY <1>6, <1>7
    <2>3. /\ kTopValue * Base <= y.coder.range * Base
          /\ y.coder.range * Base <= y.coder.range * P
          /\ kTopValue * Base \in Nat /\ y.coder.range * Base \in Nat
          /\ y.coder.range * P \in Nat
      BY <1>6, <1>7, <2>1, <2>2
    <2> QED
      BY <2>3
  <1>10. m.coder.buf < k.buf
    BY <1>5, <1>6, <1>8, <1>9
  <1> QED
    BY <1>1, <1>10

(* The end mark comes behind all symbols.                                   *)
LEMMA MarkIsLast ==
    ASSUME NEW b, b \in Seq(Bytes), Meaning(b).end = "mark"
    PROVE  \A i \in 1 .. Len(Meaning(b).need) : Meaning(b).need[i] < Meaning(b).endAt
  <1>1. CASE Meaning(b) = Beginning(b)
    <2> DEFINE x == Beginning(b)
    <2>1. x.end \in {"open", "none", "bad"}
      BY BeginningOK
    <2> HIDE DEF x
    <2>2. x.end = "mark"
      BY <1>1 DEF x
    <2> QED
      BY <2>1, <2>2
  <1>2. CASE \E m \in Read(b) : m.end = "open" /\ ~Sensible(b, m)
                               /\ Meaning(b) = ReadSymbol(b, m)
    <2>1. PICK m \in Read(b) : /\ m.end = "open" /\ ~Sensible(b, m)
                               /\ Meaning(b) = ReadSymbol(b, m)
      BY <1>2
    <2>2. OpenOK(m, b)
      BY <2>1, ReadIs
    <2> DEFINE e == ReadSymbol(b, m)
    <2>3. /\ e \in Readable /\ e.need = m.need /\ e.end = EndOf(b, m)
          /\ e.end # "none" => e.endAt = NextCoder(b, m).buf
      BY <2>1, <2>2, ReadingEnds
    <2> HIDE DEF e
    <2>4. e.end = "mark"
      BY <2>1 DEF e
    <2>5. Mark(NextWalk(b, m).w) /\ e.endAt = NextCoder(b, m).buf
      BY <2>3, <2>4 DEF EndOf
    <2>6. m.coder.buf < NextCoder(b, m).buf
      BY <2>2, <2>5, MarkTakesAByte
    <2>7. m.coder.buf \in Nat /\ NextCoder(b, m).buf \in Nat
      BY <2>2, NextIs DEF OpenOK, Readable, Coders
    <2>8. \A i \in 1 .. Len(e.need) : e.need[i] \in Nat /\ e.need[i] <= m.coder.buf
      <3>1. /\ m.need \in Seq(Nat)
            /\ \A i \in 1 .. Len(m.need) : m.need[i] <= m.coder.buf
        BY <2>2 DEF OpenOK, Readable, TotalsOK
      <3> QED
        BY <2>3, <3>1, LenProperties
    <2>9. \A i \in 1 .. Len(e.need) : e.need[i] < e.endAt
      BY <2>5, <2>6, <2>7, <2>8
    <2> QED
      BY <2>1, <2>9 DEF e
  <1> QED
    BY <1>1, <1>2, MeaningIs

(* So what bytes stand for is a stream as DecoderContract knows them.       *)
LEMMA MeaningIsStream ==
    ASSUME NEW b, b \in Seq(Bytes)
    PROVE  /\ StreamOf(Meaning(b)) \in Contract!Streams
           /\ Contract!WellFormed(StreamOf(Meaning(b)))
  <1> DEFINE x == Meaning(b)
             s == StreamOf(x)
  <1>1. Ordered(x)
    BY MeaningOrdered
  <1>2. x.end = "mark" => \A i \in 1 .. Len(x.need) : x.need[i] < x.endAt
    BY MarkIsLast
  <1> HIDE DEF x
  <1>3. s = [need |-> x.need, give |-> x.give, end |-> x.end, endAt |-> x.endAt]
    BY DEF StreamOf
  <1>4. s \in Contract!Streams
    BY <1>1, <1>3 DEF Contract!Streams, Ordered
  <1>5. s.need = x.need /\ s.give = x.give /\ s.end = x.end /\ s.endAt = x.endAt
    BY <1>3
  <1> HIDE DEF s
  <1>6. Contract!WellFormed(s)
    BY <1>1, <1>2, <1>5 DEF Contract!WellFormed, Ordered
  <1> QED
    BY <1>4, <1>6 DEF s, x

(* What a decoder that follows reading m owes its caller: it has begun with *)
(* the last symbol of m (so what it has taken, it had to take), ...         *)
LastGive(m) == IF Len(m.need) < 2 THEN 0 ELSE m.give[Len(m.need) - 1]

(* ... it returns for a reason, ...                                         *)
Answers(m) ==
    /\ ret.status # "NOT_SPECIFIED"
    /\ ret.status = "NOT_FINISHED" =>
        /\ p.dicPos = io.dicLimit /\ ~Marked(p) /\ tempBuf = << >>
    /\ ret.status = "NEEDS_MORE_INPUT" =>
        /\ io.inSize = 0 /\ p.dicPos < io.dicLimit /\ p.remainLen = 0
        /\ NextCoder(bytes, m).buf > taken
    /\ ret.status = "FINISHED_WITH_MARK" => Marked(p) /\ p.code = 0 /\ tempBuf = << >>

(* ... what waits in tempBuf is not all of the next symbol, an end mark is  *)
(* looked for only while there is room, and no input is given back that an  *)
(* earlier call has taken.                                                  *)
HasRoom(m) == Len(m.text) < asked.made + asked.dst

Outside(m) ==
    /\ m.need # << >> => LastGive(m) < p.processedPos
    /\ pc # "idle" /\ Marked(p) => HasRoom(m)
    /\ tempBuf # << >> => /\ p.remainLen = 0 /\ NextCoder(bytes, m).buf > taken
                          /\ pc = "toDic" => p.dicPos = io.dicPos
    /\ pc # "idle" => asked.fed <= taken
    /\ pc = "leave" => Answers(m)

Inside(m) ==
    /\ m.need # << >> => LastGive(m) < r.dec.processedPos
    /\ Marked(r.dec) => HasRoom(m)
    /\ asked.fed <= IF pc = "stored" THEN Offset + r.buf ELSE NextCoder(bytes, m).buf

Serves(m) == IF InReal THEN Inside(m) ELSE Outside(m)

(* One that waits for the bytes that start the range decoder asks for more, *)
Starting ==
    /\ pc # "idle" => asked.fed <= taken
    /\ pc = "leave" => ret.status = "NEEDS_MORE_INPUT" /\ io.inSize = 0 /\ taken < RcInitSize

(* and one that gives up has met what is bad in x, within its input and     *)
(* with room left.                                                          *)
BrokenOff(x) ==
    pc = "leave" => /\ x.end = "bad" /\ x.endAt <= asked.fed + asked.amt
                    /\ Len(x.text) < asked.made + asked.dst /\ asked.made <= Len(x.text)

(* Where a reading is that the decoder follows.                             *)
LEMMA Placed ==
    ASSUME LzmaInv, NEW m, Follows(m)
    PROVE  /\ bytes \in Seq(Bytes) /\ Len(bytes) \in Nat /\ OpenOK(m, bytes) /\ m \in Read(bytes)
           /\ m \in Readable /\ ret.ok
           /\ Prefix(output, m.text) /\ Len(m.text) \in Nat /\ Len(output) <= Len(m.text)
           /\ Cur \in Decoders /\ Cur.processedPos \in Nat /\ Cur.remainLen \in Nat
           /\ Cur.processedPos = Len(output) + Fresh /\ SameText(Cur, dic, m)
           /\ Marked(Cur) => Len(m.text) = Cur.processedPos
           /\ Marked(Cur) => MarkNext(bytes, m, CurAt, Cur.code)
           /\ ~Marked(Cur) => Len(m.text) = Cur.processedPos + Cur.remainLen
           /\ ~Marked(Cur) => m.coder = Normalized(CoderAt(Cur, CurProbs, CurAt), bytes)
           /\ ~Marked(Cur) => CurAt <= m.coder.buf
           /\ NextCoder(bytes, m).buf \in Nat /\ m.coder.buf \in Nat /\ CurAt \in Nat
           /\ m.coder.buf <= NextCoder(bytes, m).buf /\ Len(m.need) \in Nat
  <1>1. /\ bytes \in Seq(Bytes) /\ m \in Read(bytes) /\ m.end = "open" /\ Prefix(output, m.text)
        /\ SameText(Cur, dic, m) /\ SamePlace(Cur, CurProbs, CurAt, m, bytes) /\ ret.ok
        /\ Cur.processedPos = Len(output) + Fresh
    BY FollowsTypes DEF Follows, Agrees, AtHand
  <1>2. OpenOK(m, bytes) /\ m \in Readable
    BY <1>1, ReadIs
  <1>3. Len(m.text) \in Nat /\ Len(m.need) \in Nat /\ Len(bytes) \in Nat
    BY <1>1, <1>2, LenProperties DEF Readable
  <1>4. /\ NextCoder(bytes, m) \in Coders /\ m.coder \in Coders
        /\ m.coder.buf <= NextCoder(bytes, m).buf
    BY <1>1, <1>2, NextIs DEF Readable
  <1>5. NextCoder(bytes, m).buf \in Nat /\ m.coder.buf \in Nat
    BY <1>4, CoderCounts
  <1>6. Cur \in Decoders
    BY FollowsTypes DEF Cur
  <1>7. CurAt \in Nat
    BY FollowsTypes DEF CurAt
  <1>8. /\ Marked(Cur) => Len(m.text) = Cur.processedPos /\ MarkNext(bytes, m, CurAt, Cur.code)
        /\ ~Marked(Cur) => /\ Len(m.text) = Cur.processedPos + Cur.remainLen
                           /\ m.coder = Normalized(CoderAt(Cur, CurProbs, CurAt), bytes)
    BY <1>1 DEF SamePlace
  <1>9. ~Marked(Cur) => CurAt <= m.coder.buf
    <2> DEFINE c == CoderAt(Cur, CurProbs, CurAt)
    <2>1. c.buf = CurAt
      BY DEF CoderAt
    <2> HIDE DEF c
    <2>2. c = [c EXCEPT !.buf = @] => Normalized(c, bytes).buf \in {c.buf, c.buf + 1}
      BY DEF Normalized
    <2>3. c = [c EXCEPT !.buf = @]
      BY DEF c, CoderAt
    <2>4. Normalized(c, bytes).buf \in {CurAt, CurAt + 1}
      <3>1. CASE c.range >= kTopValue
        BY <2>1, <3>1 DEF Normalized
      <3>2. CASE ~(c.range >= kTopValue)
        BY <2>1, <3>2 DEF Normalized, c, CoderAt
      <3> QED
        BY <3>1, <3>2
    <2> QED
      BY <1>7, <1>8, <2>4 DEF c
  <1>10. Len(output) <= Len(m.text)
    BY <1>1 DEF Prefix
  <1>11. Cur.processedPos \in Nat /\ Cur.remainLen \in Nat
    BY <1>6 DEF Decoders
  <1> QED
    BY <1>1, <1>2, <1>3, <1>4, <1>5, <1>6, <1>7, <1>8, <1>9, <1>10, <1>11

(* The same, outside LzmaDec_DecodeReal.                                    *)
LEMMA PlacedOutside ==
    ASSUME LzmaInv, NEW m, Follows(m), ~InReal
    PROVE  /\ Cur = StateReady /\ CurAt = Offset /\ Marked(Cur) = Marked(p)
           /\ p.processedPos = Len(output) + Fresh
           /\ p.remainLen <= kMatchSpecLenStart /\ kMatchSpecLenStart \in Nat \ {0}
           /\ Marked(p) <=> p.remainLen = kMatchSpecLenStart
           /\ Marked(p) => Len(m.text) = p.processedPos
           /\ Marked(p) => MarkNext(bytes, m, Offset, p.code)
           /\ ~Marked(p) => Len(m.text) = p.processedPos + p.remainLen
           /\ ~Marked(p) => m.coder = Normalized(CoderAt(StateReady, ProbsReady, Offset), bytes)
           /\ pc = "toDic" => p.dicPos = io.dicLimit \/ p.remainLen = 0 \/ Marked(p)
  <1>1. Cur = StateReady /\ CurAt = Offset /\ CurProbs = ProbsReady
    BY DEF Cur, CurAt, CurProbs
  <1>2. /\ StateReady.processedPos = p.processedPos /\ StateReady.remainLen = p.remainLen
        /\ StateReady.code = p.code /\ Marked(StateReady) = Marked(p) /\ p.remainLen \in Nat
    BY FollowsTypes
  <1>3. p.remainLen <= kMatchSpecLenStart /\ kMatchSpecLenStart \in Nat \ {0}
    BY MarkLength DEF LzmaInv, KeptInv, KeptOK
  <1>4. Marked(p) <=> p.remainLen = kMatchSpecLenStart
    BY <1>2, <1>3 DEF Marked
  <1>5. pc = "toDic" => p.dicPos = io.dicLimit \/ p.remainLen = 0 \/ Marked(p)
    BY DEF Follows, AtHand
  <1>6. /\ Cur.processedPos = Len(output) + Fresh
        /\ Marked(Cur) => Len(m.text) = Cur.processedPos
        /\ Marked(Cur) => MarkNext(bytes, m, CurAt, Cur.code)
        /\ ~Marked(Cur) => Len(m.text) = Cur.processedPos + Cur.remainLen
        /\ ~Marked(Cur) => m.coder = Normalized(CoderAt(Cur, CurProbs, CurAt), bytes)
    BY Placed
  <1> QED
    BY <1>1, <1>2, <1>3, <1>4, <1>5, <1>6

(* A reading that the decoder follows and whose next symbol makes no sense  *)
(* is the last.                                                             *)
LEMMA EndsHere ==
    ASSUME LzmaInv, NEW m, Follows(m), ~Sensible(bytes, m)
    PROVE  LET x == Meaning(bytes)
           IN  /\ x.text = m.text /\ x.need = m.need /\ x.give = m.give
               /\ x.end = EndOf(bytes, m)
               /\ x.end # "none" => x.endAt = NextCoder(bytes, m).buf
  <1>1. bytes \in Seq(Bytes) /\ OpenOK(m, bytes) /\ m \in Read(bytes) /\ m.end = "open"
    BY Placed DEF OpenOK
  <1>2. ReadSymbol(bytes, m) \in Read(bytes)
    BY <1>1, ReadIs
  <1> DEFINE e == ReadSymbol(bytes, m)
  <1>3. /\ e.text = m.text /\ e.need = m.need /\ e.give = m.give
        /\ e.end = EndOf(bytes, m) /\ e.end # "open"
        /\ e.end # "none" => e.endAt = NextCoder(bytes, m).buf
    BY <1>1, ReadingEnds
  <1> HIDE DEF e
  <1>4. e = Meaning(bytes)
    BY <1>1, <1>2, <1>3, MeaningIs DEF e
  <1> QED
    BY <1>3, <1>4

(* One whose next symbol does make sense goes on with it.                   *)
LEMMA GoesFurther ==
    ASSUME LzmaInv, NEW m, Follows(m), Sensible(bytes, m)
    PROVE  LET x == Meaning(bytes)
           IN  /\ Len(x.need) > Len(m.need) /\ Len(x.need) \in Nat
               /\ x.need[Len(m.need) + 1] = NextCoder(bytes, m).buf
  <1>1. bytes \in Seq(Bytes) /\ OpenOK(m, bytes) /\ m \in Read(bytes) /\ m.end = "open"
        /\ Len(m.need) \in Nat /\ m \in Readable
    BY Placed DEF OpenOK
  <1>2. ReadSymbol(bytes, m) \in Read(bytes)
    BY <1>1, ReadIs
  <1> DEFINE e == Enlarged(bytes, m)
             x == Meaning(bytes)
  <1>3. /\ ReadSymbol(bytes, m) = e /\ e.need = Append(m.need, NextCoder(bytes, m).buf)
        /\ Len(e.need) = Len(m.need) + 1
    BY <1>1, EnlargedOK
  <1>4. Grows(e, x) /\ x \in Readable
    BY <1>1, <1>2, <1>3, MeaningIs
  <1> HIDE DEF e, x
  <1>5. Len(x.need) \in Nat
    BY <1>4, LenProperties DEF Readable
  <1>6. e.need[Len(m.need) + 1] = NextCoder(bytes, m).buf
    BY <1>1, <1>3 DEF Readable
  <1>7. Len(e.need) <= Len(x.need) /\ \A i \in 1 .. Len(e.need) : x.need[i] = e.need[i]
    BY <1>4 DEF Grows, Prefix
  <1>8. Len(m.need) + 1 \in 1 .. Len(e.need)
    BY <1>1, <1>3
  <1> QED
    BY <1>1, <1>3, <1>5, <1>6, <1>7, <1>8 DEF x

(* What a decoder outside LzmaDec_DecodeReal owes depends on little.        *)
LEMMA OwesTheSame ==
    ASSUME NEW m, Outside(m), UNCHANGED <<bytes, taken, p, tempBuf>>, ~InReal',
           pc' # "idle" => (asked' = asked /\ pc # "idle") \/ (Marked(p) => HasRoom(m)'),
           pc' # "idle" => (asked' = asked /\ pc # "idle") \/ asked'.fed <= taken,
           pc' = "toDic" => tempBuf = << >>,
           pc' = "leave" => Answers(m)'
    PROVE  Serves(m)'
  <1>1. NextCoder(bytes, m)' = NextCoder(bytes', m)
    OBVIOUS
  <1>2. Outside(m)'
    BY DEF Outside, HasRoom, Marked
  <1> QED
    BY <1>2 DEF Serves

(* A call opens its account with nothing owed, ...                          *)
LEMMA CallServes ==
    ASSUME LzmaInv, NEW m, Follows(m), Serves(m), NEW amt, NEW dst, dst \in Nat \ {0},
           Call(amt, dst)
    PROVE  Serves(m)'
  <1>1. /\ pc = "idle" /\ pc' = "toBuf" /\ UNCHANGED <<bytes, taken, p, tempBuf>>
        /\ asked' = [fed |-> taken, made |-> Len(output), amt |-> amt, dst |-> dst]
    BY DEF Call
  <1>2. ~InReal /\ ~InReal' /\ Fresh = 0
    BY <1>1 DEF InReal, Fresh
  <1>3. Len(output) \in Nat /\ taken \in Nat
    BY FollowsTypes
  <1>4. Marked(p) => Len(m.text) = p.processedPos
    BY <1>2, PlacedOutside
  <1>5. p.processedPos = Len(output)
    <2>1. p.processedPos = Len(output) + Fresh
      BY <1>2, PlacedOutside
    <2> QED
      BY <1>2, <1>3, <2>1
  <1>6. asked'.fed = taken /\ asked'.made = Len(output) /\ asked'.dst = dst
    BY <1>1
  <1>7. Marked(p) => HasRoom(m)'
    <2>1. Len(output) < Len(output) + dst
      BY <1>3
    <2> QED
      BY <1>4, <1>5, <1>6, <2>1 DEF HasRoom
  <1>8. asked'.fed <= taken
    BY <1>3, <1>6
  <1> QED
    BY <1>1, <1>2, <1>7, <1>8, OwesTheSame DEF Serves

(* ... a round that ends leaves the decoder where it is, ...                *)
LEMMA LeaveServes ==
    ASSUME LzmaInv, NEW m, Follows(m), Serves(m), LeaveDecodeToDic
    PROVE  Serves(m)'
  <1>1. /\ pc = "leave" /\ pc' \in {"toBuf", "idle"}
        /\ UNCHANGED <<asked, bytes, taken, p, tempBuf>>
    BY DEF LeaveDecodeToDic
  <1>2. ~InReal /\ ~InReal'
    BY <1>1 DEF InReal
  <1> QED
    BY <1>1, <1>2, OwesTheSame DEF Serves

(* ... and one that begins copies the rest of a match, which belongs to the *)
(* symbol that is already counted.                                          *)
LEMMA EnterServes ==
    ASSUME LzmaInv, NEW m, Follows(m), Serves(m), EnterDecodeToDic
    PROVE  Serves(m)'
  <1>1. PICK pos, limit : EnterAt(pos, limit)
    BY EnterIsAt
  <1> DEFINE at == [p EXCEPT !.dicPos = pos]
  <1>2. /\ pc = "toBuf" /\ pc' = "toDic" /\ io'.dicPos = pos
        /\ pos \in 0 .. DicBufSize /\ limit \in 0 .. DicBufSize /\ pos <= limit
        /\ UNCHANGED <<bytes, taken, tempBuf>> /\ p' = WriteRem(at, limit)
    BY <1>1 DEF EnterAt
  <1>3. asked' = asked
    BY DEF EnterDecodeToDic
  <1>4. ~InReal /\ ~InReal' /\ p \in Decoders /\ p.processedPos \in Nat /\ taken \in Nat
        /\ p.remainLen \in Nat
    BY <1>2, FollowsTypes DEF InReal
  <1>5. at \in Decoders /\ at.dicPos = pos /\ at.processedPos = p.processedPos
        /\ at.remainLen = p.remainLen
    BY <1>2, <1>4 DEF Decoders
  <1> HIDE DEF at
  <1> DEFINE len == RemLen(at, limit)
  <1>6. /\ len \in Nat /\ p'.dicPos = pos + len /\ p'.processedPos = p.processedPos + len
        /\ p'.remainLen = p.remainLen - len /\ Marked(p') = Marked(at)
        /\ len # 0 => len <= p.remainLen
    BY <1>2, <1>5, RemFields
  <1> HIDE DEF len
  <1>7. Marked(p') = Marked(p)
    BY <1>5, <1>6 DEF Marked
  <1>8. p.remainLen = 0 => p'.remainLen = 0 /\ p'.dicPos = pos
    BY <1>2, <1>4, <1>6
  <1>9. Outside(m)
    BY <1>4 DEF Serves
  <1>10. /\ m.need # << >> => LastGive(m) < p.processedPos
         /\ Marked(p) => HasRoom(m)
         /\ tempBuf # << >> => p.remainLen = 0 /\ NextCoder(bytes, m).buf > taken
         /\ asked.fed <= taken
    BY <1>2, <1>9 DEF Outside
  <1>11. m.need # << >> => LastGive(m) < p'.processedPos
    <2>1. LastGive(m) \in Nat
      <3>1. m.give \in Seq(Nat) /\ Len(m.give) = Len(m.need) /\ Len(m.need) \in Nat
        BY Placed DEF OpenOK, TotalsOK, Readable
      <3>2. ~(Len(m.need) < 2) => Len(m.need) - 1 \in 1 .. Len(m.give)
        BY <3>1
      <3> QED
        BY <3>1, <3>2 DEF LastGive
    <2> QED
      BY <1>4, <1>6, <1>10, <2>1
  <1>12. Outside(m)'
    BY <1>2, <1>3, <1>7, <1>8, <1>10, <1>11 DEF Outside, HasRoom, LastGive
  <1> QED
    BY <1>4, <1>12 DEF Serves

(* LzmaDec_DecodeToDic returns with room filled, ...                        *)
LEMMA LimitServes ==
    ASSUME LzmaInv, Accounts, NEW m, Follows(m), Serves(m), LimitMet
    PROVE  Serves(m)'
  <1>1. /\ pc = "toDic" /\ pc' = "leave" /\ p.remainLen # kMatchSpecLenStart
        /\ p.dicPos >= io.dicLimit /\ ret' = [status |-> "NOT_FINISHED", ok |-> TRUE]
        /\ UNCHANGED <<asked, bytes, taken, p, tempBuf, io>>
    BY DEF LimitMet, Leave
  <1>2. ~InReal /\ ~InReal'
    BY <1>1 DEF InReal
  <1>3. ~Marked(p)
    BY <1>1, <1>2, PlacedOutside
  <1>4. p.dicPos = io.dicLimit
    <2>1. p.dicPos <= io.dicLimit
      BY <1>1 DEF LzmaInv, CallInv
    <2>2. p.dicPos \in Nat /\ io.dicLimit \in Nat
      BY FollowsTypes
    <2> QED
      BY <1>1, <2>1, <2>2
  <1>5. io.dicPos < io.dicLimit
    <2>1. io.dicLimit = AtMost(DicBufSize, io.dicPos + io.outSize) /\ io.dicPos < DicBufSize
          /\ io.outSize > 0
      BY <1>1 DEF Accounts
    <2>2. io.dicPos \in Nat /\ DicBufSize \in Nat /\ io.outSize \in Nat
      BY FollowsTypes
    <2> QED
      BY <2>1, <2>2 DEF AtMost
  <1>6. tempBuf = << >>
    <2>1. tempBuf # << >> => p.dicPos = io.dicPos
      BY <1>1, <1>2 DEF Serves, Outside
    <2>2. io.dicPos \in Nat /\ io.dicLimit \in Nat
      BY FollowsTypes
    <2> QED
      BY <1>4, <1>5, <2>1, <2>2
  <1>7. ret'.status = "NOT_FINISHED"
    BY <1>1
  <1>8. Answers(m)'
    BY <1>1, <1>3, <1>4, <1>6, <1>7 DEF Answers, Marked
  <1> QED
    BY <1>1, <1>2, <1>8, OwesTheSame DEF Serves

(* ... or at an end mark, ...                                               *)
LEMMA MarkServes ==
    ASSUME LzmaInv, Accounts, NEW m, Follows(m), Serves(m), MarkMet
    PROVE  \/ Serves(m)'
           \/ ~ret'.ok /\ BrokenOff(Meaning(bytes))'
  <1>1. /\ pc = "toDic" /\ pc' = "leave" /\ p.remainLen = kMatchSpecLenStart
        /\ UNCHANGED <<asked, bytes, taken, p, tempBuf, io, output>>
        /\ ret' = IF p.code = 0 THEN [status |-> "FINISHED_WITH_MARK", ok |-> TRUE]
                  ELSE [status |-> "NOT_SPECIFIED", ok |-> FALSE]
    BY DEF MarkMet, Leave
  <1>2. ~InReal /\ ~InReal'
    BY <1>1 DEF InReal
  <1>3. Marked(p) /\ p.remainLen # 0 /\ Len(m.text) = p.processedPos
        /\ MarkNext(bytes, m, Offset, p.code)
    BY <1>1, <1>2, PlacedOutside
  <1>4. tempBuf = << >> /\ HasRoom(m)
    BY <1>1, <1>2, <1>3 DEF Serves, Outside
  <1>5. CASE p.code = 0
    <2>1. ret'.status = "FINISHED_WITH_MARK"
      BY <1>1, <1>5
    <2>2. Answers(m)'
      BY <1>1, <1>3, <1>4, <1>5, <2>1 DEF Answers, Marked
    <2> QED
      BY <1>1, <1>2, <2>2, OwesTheSame DEF Serves
  <1>6. CASE p.code # 0
    <2> DEFINE x == Meaning(bytes)
    <2>1. /\ Mark(NextWalk(bytes, m).w) /\ NextCoder(bytes, m).buf = Offset
          /\ Offset <= Len(bytes) /\ NextCoder(bytes, m).code # 0
      BY <1>3, <1>6 DEF MarkNext
    <2>2. ~Sensible(bytes, m)
      BY <2>1 DEF Sensible
    <2>3. ~(NextCoder(bytes, m).buf > Len(bytes))
      <3>1. Offset \in Nat /\ Len(bytes) \in Nat
        BY FollowsTypes
      <3> QED
        BY <2>1, <3>1
    <2>4. EndOf(bytes, m) = "bad"
      BY <2>1, <2>3 DEF EndOf
    <2>5. x.text = m.text /\ x.end = "bad" /\ x.endAt = Offset
      BY <2>1, <2>2, <2>4, EndsHere
    <2>6. ~ret'.ok
      BY <1>1, <1>6
    <2>7. /\ asked.fed + asked.amt = taken + io.inSize /\ asked.made <= Len(output)
          /\ asked.made \in Nat
      BY <1>1 DEF Accounts
    <2>8. taken \in Nat /\ io.inSize \in Nat /\ Len(tempBuf) \in Nat /\ Len(output) \in Nat
      BY FollowsTypes
    <2>9. Offset <= asked.fed + asked.amt
      BY <2>7, <2>8 DEF Offset
    <2>10. asked.made <= Len(m.text)
      <3>1. Len(output) <= Len(m.text) /\ Len(m.text) \in Nat
        BY Placed
      <3> QED
        BY <2>7, <2>8, <3>1
    <2>11. x' = x
      BY <1>1
    <2> HIDE DEF x
    <2>12. BrokenOff(x)'
      BY <1>1, <1>4, <2>5, <2>9, <2>10, <2>11 DEF BrokenOff, HasRoom
    <2> QED
      BY <2>6, <2>12 DEF x
  <1> QED
    BY <1>5, <1>6

(* Where LzmaDec_DecodeToDic goes on to a symbol no match is left over.     *)
LEMMA NoRest ==
    ASSUME LzmaInv, NEW m, Follows(m), Ready
    PROVE  /\ ~InReal /\ p.remainLen = 0 /\ ~Marked(p) /\ StateReady.remainLen = 0
           /\ p.dicPos < io.dicLimit /\ Len(m.text) = StateReady.processedPos
           /\ StateReady.processedPos = p.processedPos
           /\ m.coder = Normalized(CoderAt(StateReady, ProbsReady, Offset), bytes)
           /\ Offset <= m.coder.buf
  <1>1. ~InReal /\ pc = "toDic" /\ p.remainLen # kMatchSpecLenStart /\ p.dicPos < io.dicLimit
    BY DEF Ready, InReal
  <1>2. ~Marked(p) /\ (p.dicPos = io.dicLimit \/ p.remainLen = 0)
    BY <1>1, PlacedOutside
  <1>t. /\ p.dicPos \in Nat /\ io.dicLimit \in Nat /\ p.processedPos \in Nat
        /\ StateReady.processedPos = p.processedPos /\ StateReady.remainLen = p.remainLen
    BY FollowsTypes
  <1>3. p.remainLen = 0
    BY <1>1, <1>2, <1>t
  <1>4. /\ Len(m.text) = p.processedPos + p.remainLen
        /\ m.coder = Normalized(CoderAt(StateReady, ProbsReady, Offset), bytes)
        /\ Marked(Cur) = Marked(p) /\ CurAt = Offset
    BY <1>1, <1>2, PlacedOutside
  <1>5. Offset <= m.coder.buf
    BY <1>2, <1>4, Placed
  <1>6. Len(m.text) = p.processedPos
    BY <1>3, <1>4, <1>t
  <1> QED
    BY <1>1, <1>2, <1>3, <1>4, <1>5, <1>6, <1>t

(* What LzmaDec_TryDummy does not find in the input at hand ends behind it. *)
LEMMA NotAllThere ==
    ASSUME LzmaInv, NEW m, Follows(m), Ready, NEW x, x \in Seq(Bytes),
           PieceOf(x, bytes, Offset), ~TryDummy(StateReady, dic, ProbsReady, x)
    PROVE  NextCoder(bytes, m).buf > Offset + Len(x)
  <1> DEFINE c == CoderAt(StateReady, ProbsReady, 0)
             e == m.coder
             d == Known(StateReady, dic)
  <1>1. /\ DecoderOK(StateReady, dic) /\ StateReady.range = p.range
        /\ ProbsReady \in [AllContexts -> Probabilities] /\ p.range >= kTopValue
    BY ReadyState DEF Ready, LzmaInv, KeptInv, KeptOK
  <1>2. /\ bytes \in Seq(Bytes) /\ OpenOK(m, bytes) /\ Len(m.text) = StateReady.processedPos
        /\ SameText(StateReady, dic, m)
        /\ e = Normalized(CoderAt(StateReady, ProbsReady, Offset), bytes)
        /\ Offset \in Nat /\ Len(x) \in Nat
    <2>1. ~InReal
      BY NoRest
    <2>2. Cur = StateReady
      BY <2>1, PlacedOutside
    <2> QED
      BY <2>2, Placed, NoRest, FollowsTypes, LenProperties
  <1>3. d = KnownAfter(m) /\ KnownOK(d) /\ e \in Coders
    BY <1>1, <1>2, KnownAgrees, OpenKnows DEF OpenOK, Readable
  <1>4. c \in Coders
    <2>1. StateReady \in Decoders
      BY FollowsTypes
    <2>2. StateReady.range \in 0 .. Word - 1 /\ StateReady.code \in 0 .. Word - 1
      BY <2>1 DEF Decoders
    <2>3. kTopValue \in Nat /\ Word \in Nat /\ Base * Base \in Nat /\ Base * Base <= kTopValue
      BY Sizes
    <2>4. StateReady.range \in Base * Base .. Word - 1
      <3> DEFINE least == Base * Base
      <3> HIDE DEF least
      <3>1. StateReady.range \in least .. Word - 1
        BY <1>1, <2>2, <2>3 DEF least
      <3> QED
        BY <3>1 DEF least
    <2> QED
      BY <1>1, <2>2, <2>4 DEF CoderAt, Coders
  <1>5. CoderAt(StateReady, ProbsReady, Offset) = Shifted(c, Offset)
    BY <1>2 DEF CoderAt, Shifted
  <1>c. c = [range |-> StateReady.range, code |-> StateReady.code, buf |-> 0,
             probs |-> ProbsReady]
    BY DEF CoderAt
  <1> HIDE DEF c, e, d
  <1>6. Normalized(e, bytes) = Normalized(Shifted(c, Offset), bytes)
    <2>1. Shifted(c, Offset) \in Coders
      BY <1>2, <1>4, ShiftedCoder
    <2> QED
      BY <1>2, <1>5, <2>1, NormalizedOnce
  <1>7. PICK y, z : /\ SymbolWalks(d, c, x) = {y} /\ Ends(y, c, x)
                    /\ SymbolWalks(d, e, bytes) = {z} /\ Ends(z, e, bytes)
                    /\ Together(y, z, x, bytes, Offset) \/ Apart(y, z, x, bytes, Offset)
    BY <1>2, <1>3, <1>4, <1>6, PieceWalk
  <1>8. NextWalk(bytes, m) = z
    BY <1>3, <1>7 DEF NextWalk, e
  <1>9. ~(Normalized(y.coder, x).buf <= Len(x))
    BY <1>7, <1>c DEF TryDummy, d
  <1>10. Normalized(z.coder, bytes).buf > Offset + Len(x)
    BY <1>7, <1>9 DEF Together, Apart
  <1> QED
    BY <1>8, <1>10 DEF NextCoder

(* What is owed where LzmaDec_DecodeToDic asks for more input, ...          *)
LEMMA AsksForMore ==
    ASSUME LzmaInv, Accounts, NEW m, Follows(m), Serves(m), Ready, NEW x, x \in Seq(Bytes),
           PieceOf(x, bytes, Offset), ~TryDummy(StateReady, dic, ProbsReady, x),
           tempBuf' = x, taken' = Offset + Len(x), taken <= taken', io'.inSize = 0,
           io'.dicLimit = io.dicLimit, p' = StateReady, Leave("NEEDS_MORE_INPUT", TRUE),
           UNCHANGED <<bytes, asked>>
    PROVE  Serves(m)'
  <1>1. NextCoder(bytes, m).buf > taken'
    BY NotAllThere
  <1>2. /\ ~InReal /\ p'.remainLen = 0 /\ p'.dicPos < io'.dicLimit
        /\ p'.processedPos = p.processedPos
    BY NoRest, FollowsTypes
  <1>3. pc' = "leave" /\ ret'.status = "NEEDS_MORE_INPUT"
    BY DEF Leave
  <1>4. /\ m.need # << >> => LastGive(m) < p.processedPos
        /\ asked.fed <= taken
    BY <1>2 DEF Serves, Outside, Ready
  <1>5. ~Marked(p')
    BY <1>2, MarkLength DEF Marked
  <1>6. Answers(m)'
    BY <1>1, <1>2, <1>3 DEF Answers
  <1>7. asked'.fed <= taken'
    <2>1. pc' = "leave" /\ pc = "toDic"
      BY <1>3 DEF Ready
    <2>2. taken \in Nat /\ Offset \in Nat /\ Len(x) \in Nat
      BY FollowsTypes, LenProperties
    <2>3. asked.fed \in Nat
      BY <2>1 DEF Accounts
    <2> QED
      BY <1>4, <2>2, <2>3
  <1>8. ~InReal'
    BY <1>3 DEF InReal
  <1>9. Outside(m)'
    BY <1>1, <1>2, <1>3, <1>4, <1>5, <1>6, <1>7 DEF Outside, LastGive, Marked
  <1> QED
    BY <1>8, <1>9 DEF Serves

(* ... and where it goes on to LzmaDec_DecodeReal.                          *)
LEMMA GoesToReal ==
    ASSUME LzmaInv, Accounts, NEW m, Follows(m), Serves(m), Ready, pc' = "real",
           r'.dec = StateReady, UNCHANGED <<bytes, asked>>
    PROVE  Serves(m)'
  <1>1. /\ ~InReal /\ StateReady.remainLen = 0 /\ StateReady.processedPos = p.processedPos
        /\ Offset <= m.coder.buf /\ pc = "toDic"
    BY NoRest DEF Ready
  <1>2. /\ m.need # << >> => LastGive(m) < p.processedPos
        /\ tempBuf # << >> => NextCoder(bytes, m).buf > taken
        /\ asked.fed <= taken
    BY <1>1 DEF Serves, Outside
  <1>3. ~Marked(r'.dec)
    BY <1>1, MarkLength DEF Marked
  <1>4. asked.fed <= NextCoder(bytes, m).buf
    <2>1. /\ NextCoder(bytes, m).buf \in Nat /\ m.coder.buf \in Nat
          /\ m.coder.buf <= NextCoder(bytes, m).buf
      BY Placed
    <2>2. taken \in Nat /\ asked.fed \in Nat
      BY <1>1, FollowsTypes DEF Accounts
    <2>3. CASE tempBuf = << >>
      <3>1. Offset = taken
        BY <2>2, <2>3 DEF Offset
      <3> QED
        BY <1>1, <1>2, <2>1, <2>2, <3>1
    <2>4. CASE tempBuf # << >>
      BY <1>2, <2>1, <2>2, <2>4
    <2> QED
      BY <2>3, <2>4
  <1>5. InReal' /\ pc' # "stored"
    BY DEF InReal
  <1>6. Inside(m)'
    BY <1>1, <1>2, <1>3, <1>4, <1>5 DEF Inside, LastGive, Marked
  <1> QED
    BY <1>5, <1>6 DEF Serves

(* Input from the caller, ...                                               *)
LEMMA SourceServes ==
    ASSUME LzmaInv, Accounts, NEW m, Follows(m), Serves(m), DecodeFromSource
    PROVE  Serves(m)'
  <1>1. /\ Ready /\ tempBuf = << >> /\ p' = StateReady /\ UNCHANGED <<bytes, asked>>
    BY DEF DecodeFromSource
  <1>t. /\ taken \in Nat /\ bytes \in Seq(Bytes) /\ io.inSize \in Nat /\ Offset \in Nat
        /\ taken + io.inSize <= Len(bytes) /\ Len(bytes) \in Nat
        /\ io \in [inSize : Nat, outSize : Nat, dicPos : 0 .. DicBufSize,
                   dicLimit : 0 .. DicBufSize]
    BY FollowsTypes
  <1>2. Offset = taken
    BY <1>1, <1>t DEF Offset
  <1>3. CASE /\ ~TryDummy(StateReady, dic, ProbsReady, Source)
             /\ tempBuf' = Source /\ taken' = taken + io.inSize
             /\ io' = [io EXCEPT !.inSize = 0] /\ Leave("NEEDS_MORE_INPUT", TRUE)
    <2>1. Source \in Seq(Bytes) /\ Len(Source) = io.inSize /\ PieceOf(Source, bytes, taken)
      BY <1>t, SourceIs, PieceIs DEF Source
    <2>2. io'.inSize = 0 /\ io'.dicLimit = io.dicLimit
      BY <1>3, <1>t
    <2>3. taken' = Offset + Len(Source) /\ taken <= taken'
      BY <1>2, <1>3, <1>t, <2>1
    <2> QED
      BY <1>1, <1>2, <1>3, <2>1, <2>2, <2>3, AsksForMore
  <1>4. ASSUME NEW bufLimit, EnterReal(StateReady, bufLimit, FALSE)
        PROVE  Serves(m)'
    <2>1. pc' = "real" /\ r'.dec = StateReady
      BY <1>4 DEF EnterReal
    <2> QED
      BY <1>1, <2>1, GoesToReal
  <1> QED
    BY <1>3, <1>4 DEF DecodeFromSource

(* ... or after what is left of an earlier call's.                          *)
LEMMA TempServes ==
    ASSUME LzmaInv, Accounts, NEW m, Follows(m), Serves(m), DecodeFromTemp
    PROVE  Serves(m)'
  <1> DEFINE n == AtMost(io.inSize, LZMA_REQUIRED_INPUT_MAX - Len(tempBuf))
             piece == SubSeq(bytes, taken + 1, taken + n)
             filled == tempBuf \o piece
  <1>1. /\ Ready /\ p' = StateReady /\ UNCHANGED <<bytes, asked>>
        /\ tempBuf' = filled /\ taken' = taken + n /\ io' = [io EXCEPT !.inSize = @ - n]
        /\ \/ /\ Len(filled) < LZMA_REQUIRED_INPUT_MAX
              /\ ~TryDummy(StateReady, dic, ProbsReady, filled)
              /\ Leave("NEEDS_MORE_INPUT", TRUE)
           \/ EnterReal(StateReady, 0, TRUE)
    BY DEF DecodeFromTemp
  <1>2. PieceOf(tempBuf, bytes, Offset)
    BY DEF Follows, AtHand
  <1>t. /\ taken \in Nat /\ bytes \in Seq(Bytes) /\ io.inSize \in Nat /\ Offset \in Nat
        /\ taken + io.inSize <= Len(bytes) /\ Len(bytes) \in Nat
        /\ io \in [inSize : Nat, outSize : Nat, dicPos : 0 .. DicBufSize,
                   dicLimit : 0 .. DicBufSize]
        /\ tempBuf \in Seq(Bytes) /\ Len(tempBuf) \in Nat
        /\ Len(tempBuf) <= LZMA_REQUIRED_INPUT_MAX /\ LZMA_REQUIRED_INPUT_MAX \in Nat
    BY FollowsTypes, DecoderAssumption DEF LzmaInv, InputInv
  <1>3. /\ n \in Nat /\ n <= io.inSize
        /\ n = io.inSize \/ Len(tempBuf) + n = LZMA_REQUIRED_INPUT_MAX
    BY <1>t DEF AtMost
  <1> HIDE DEF n
  <1>4. piece \in Seq(Bytes) /\ Len(piece) = n /\ PieceOf(piece, bytes, taken)
    <2>1. taken + n <= Len(bytes)
      BY <1>t, <1>3
    <2>2. piece \in Seq(Bytes) /\ Len(piece) = n
      BY <1>t, <1>3, <2>1, Pieces
    <2>3. PieceOf(piece, bytes, taken)
      BY <1>t, <1>3, <2>1, PieceIs
    <2> QED
      BY <2>2, <2>3
  <1> HIDE DEF piece
  <1>5. Offset + Len(tempBuf) = taken
    BY <1>t DEF Offset
  <1>6. Len(filled) = Len(tempBuf) + n /\ PieceOf(filled, bytes, Offset) /\ filled \in Seq(Bytes)
    <2>1. Len(filled) = Len(tempBuf) + n /\ PieceOf(filled, bytes, Offset)
      BY <1>t, <1>2, <1>4, <1>5, PiecesJoin
    <2>2. filled \in Seq(Bytes)
      BY <1>t, <1>4
    <2> QED
      BY <2>1, <2>2
  <1> HIDE DEF filled
  <1>7. io'.inSize = io.inSize - n /\ io'.dicLimit = io.dicLimit
    BY <1>1, <1>t
  <1>8. CASE /\ Len(filled) < LZMA_REQUIRED_INPUT_MAX
             /\ ~TryDummy(StateReady, dic, ProbsReady, filled)
             /\ Leave("NEEDS_MORE_INPUT", TRUE)
    <2>1. n = io.inSize
      BY <1>3, <1>6, <1>8, <1>t
    <2>2. io'.inSize = 0
      BY <1>7, <1>t, <2>1
    <2>3. taken' = Offset + Len(filled) /\ taken <= taken'
      <3>1. taken' = taken + n /\ Len(filled) = Len(tempBuf) + n
        BY <1>1, <1>6
      <3>2. /\ taken \in Nat /\ n \in Nat /\ Len(tempBuf) \in Nat /\ Offset \in Nat
            /\ Offset + Len(tempBuf) = taken
        BY <1>3, <1>5, <1>t
      <3> QED
        BY ONLY <3>1, <3>2
    <2> QED
      BY <1>1, <1>6, <1>7, <1>8, <2>2, <2>3, AsksForMore
  <1>9. CASE EnterReal(StateReady, 0, TRUE)
    <2>1. pc' = "real" /\ r'.dec = StateReady
      BY <1>9 DEF EnterReal
    <2> QED
      BY <1>1, <2>1, GoesToReal
  <1> QED
    BY <1>1, <1>8, <1>9

(* A symbol begins with room for some of it.                                *)
LEMMA RoomInside ==
    ASSUME LzmaInv, Accounts, NEW m, Follows(m), pc = "real"
    PROVE  /\ HasRoom(m) /\ Len(m.text) = r.dec.processedPos
           /\ asked.made <= Len(m.text) /\ asked.fed + asked.amt = taken + io.inSize
  <1>1. /\ Len(m.text) = r.dec.processedPos /\ r.dec.dicPos < r.limit
        /\ r.dec.processedPos = Len(output) + (r.dec.dicPos - io.dicPos)
    BY IsAtSymbol DEF AtSymbol
  <1>2. r.limit <= io.dicLimit /\ io.dicPos <= r.dec.dicPos
    BY DEF LzmaInv, LocalsInv
  <1>3. /\ taken + io.inSize = asked.fed + asked.amt
        /\ Len(output) + io.outSize = asked.made + asked.dst
        /\ io.dicLimit = AtMost(DicBufSize, io.dicPos + io.outSize)
        /\ asked.made \in Nat /\ asked.dst \in Nat /\ asked.made <= Len(output)
    BY DEF Accounts
  <1>4. /\ r.dec.dicPos \in Nat /\ r.limit \in Nat /\ io.dicPos \in Nat /\ io.outSize \in Nat
        /\ Len(output) \in Nat /\ DicBufSize \in Nat
    BY FollowsTypes DEF Decoders, Locals
  <1>5. io.dicLimit <= io.dicPos + io.outSize /\ io.dicLimit \in Nat
    BY <1>3, <1>4 DEF AtMost
  <1>6. Len(m.text) < asked.made + asked.dst /\ asked.made <= Len(m.text)
    <2> DEFINE n == r.dec.processedPos
               pos == r.dec.dicPos
    <2>1. /\ n = Len(output) + (pos - io.dicPos) /\ pos < io.dicPos + io.outSize
          /\ io.dicPos <= pos
      BY <1>1, <1>2, <1>4, <1>5
    <2>2. pos \in Nat /\ io.dicPos \in Nat /\ io.outSize \in Nat /\ Len(output) \in Nat
      BY <1>4
    <2> HIDE DEF n, pos
    <2>3. n < Len(output) + io.outSize /\ Len(output) <= n
      BY ONLY <2>1, <2>2
    <2>4. n < asked.made + asked.dst
      BY <1>3, <2>3
    <2>5. n \in Int
      BY ONLY <2>1, <2>2
    <2>6. asked.made <= n
      <3>1. asked.made \in Nat /\ asked.made <= Len(output)
        BY <1>3
      <3> QED
        BY ONLY <2>2, <2>3, <2>5, <3>1
    <2>7. Len(m.text) = n
      BY <1>1 DEF n
    <2> QED
      BY <2>4, <2>6, <2>7
  <1> QED
    BY <1>1, <1>3, <1>6 DEF HasRoom

(* Where its range decoder is when a symbol has been taken.                 *)
LEMMA TakenAt ==
    ASSUME LzmaInv, LzmaInv', NEW m, Follows(m), pc = "real", NEW k, k \in Coders,
           Normalized(Shifted(k, Offset), bytes) = NextCoder(bytes, m),
           Taken(NextWalk(bytes, m).w, k), pc' = "stored"
    PROVE  Offset' + r'.buf = NextCoder(bytes, m).buf
  <1>1. /\ r'.dec = After(r.dec, NextWalk(bytes, m).w, k, r.limit) /\ r'.buf = k.buf
        /\ taken' = taken /\ tempBuf' = tempBuf
    BY DEF Taken
  <1>2. r'.dec.range = k.range
    BY <1>1 DEF After, LzmaInv, LocalsInv, DecoderOK, Decoders
  <1>3. r'.dec.range >= kTopValue
    BY DEF LzmaInv, LocalsInv
  <1>4. Offset \in Nat
    BY FollowsTypes
  <1>5. Shifted(k, Offset).range = k.range /\ Shifted(k, Offset).buf = Offset + k.buf
    BY <1>4, ShiftedCoder
  <1>6. Normalized(Shifted(k, Offset), bytes) = Shifted(k, Offset)
    BY <1>2, <1>3, <1>5 DEF Normalized
  <1>7. Offset' = Offset
    BY <1>1 DEF Offset
  <1> QED
    BY <1>1, <1>5, <1>6, <1>7

(* A symbol that makes sense, ...                                           *)
LEMMA TakenServes ==
    ASSUME LzmaInv, LzmaInv', Accounts, NEW m, Follows(m), Serves(m), pc = "real",
           Sensible(bytes, m), NEW k, k \in Coders,
           Normalized(Shifted(k, Offset), bytes) = NextCoder(bytes, m),
           Taken(NextWalk(bytes, m).w, k), asked' = asked
    PROVE  Serves(Enlarged(bytes, m))'
  <1> DEFINE x == Enlarged(bytes, m)
             w == NextWalk(bytes, m).w
             part == Part(r.dec, w, r.limit)
  <1>1. /\ r'.dec = After(r.dec, w, k, r.limit)
        /\ UNCHANGED <<bytes, taken, tempBuf>> /\ pc' \in {"real", "stored"}
    BY DEF Taken
  <1>2. bytes \in Seq(Bytes) /\ OpenOK(m, bytes) /\ Len(m.need) \in Nat /\ m \in Readable
    BY Placed
  <1>3. /\ x.coder = NextCoder(bytes, m) /\ OpenOK(x, bytes)
        /\ x.give = Append(m.give, Len(x.text)) /\ Len(x.need) = Len(m.need) + 1
    BY <1>2, EnlargedOK
  <1>4. x.coder.buf <= NextCoder(bytes, x).buf /\ NextCoder(bytes, x).buf \in Nat
        /\ x.coder.buf \in Nat
    BY <1>2, <1>3, NextIs, CoderCounts DEF OpenOK, Readable
  <1>5. x' = x
    BY <1>1
  <1> HIDE DEF x
  <1>6. asked.fed <= x.coder.buf
    <2>1. InReal /\ pc # "stored"
      BY DEF InReal
    <2> QED
      BY <1>3, <2>1 DEF Serves, Inside
  <1>7. /\ WalkOK(w) /\ ~Mark(w) /\ Whole(w) \in Nat \ {0}
    BY <1>2, NextIs, SensibleText DEF Sensible
  <1>8. /\ r.dec \in Decoders /\ r.limit \in Nat /\ r.dec.dicPos < r.limit
        /\ r.dec.dicPos \in Nat /\ r.dec.processedPos \in Nat
    BY FollowsTypes DEF LzmaInv, LocalsInv, Locals, Decoders
  <1>9. /\ part \in Nat /\ part # 0 /\ r'.dec.processedPos = r.dec.processedPos + part
        /\ ~Marked(r'.dec)
    <2>1. /\ part \in Nat /\ (part = Whole(w) \/ r.dec.dicPos + part = r.limit)
          /\ r'.dec.processedPos = r.dec.processedPos + part /\ ~Marked(r'.dec)
      BY <1>1, <1>7, <1>8, AfterIs
    <2> HIDE DEF part
    <2> QED
      BY <1>7, <1>8, <2>1
  <1>10. LastGive(x) <= r.dec.processedPos
    <2>1. Len(m.text) = r.dec.processedPos
      BY RoomInside
    <2>2. TotalsOK(m) /\ m.give \in Seq(Nat)
      BY <1>2 DEF OpenOK, Readable
    <2>3. CASE Len(m.need) = 0
      <3>1. LastGive(x) = 0
        BY <1>3, <2>3 DEF LastGive
      <3> QED
        BY <1>8, <3>1
    <2>4. CASE Len(m.need) # 0
      <3>1. Len(m.give) = Len(m.need) /\ m.give[Len(m.need)] = Len(m.text)
        BY <2>2, <2>4 DEF TotalsOK
      <3>2. LastGive(x) = x.give[Len(m.need)]
        <4>1. ~(Len(x.need) < 2) /\ Len(x.need) - 1 = Len(m.need)
          BY <1>2, <1>3, <2>4
        <4> QED
          BY <4>1 DEF LastGive
      <3>3. x.give[Len(m.need)] = m.give[Len(m.need)]
        BY <1>2, <1>3, <2>2, <2>4, <3>1
      <3> QED
        BY <1>8, <2>1, <3>1, <3>2, <3>3
    <2> QED
      BY <2>3, <2>4
  <1>11. LastGive(x) < r'.dec.processedPos
    <2>1. LastGive(x) \in Nat
      <3>1. x.give \in Seq(Nat) /\ Len(x.give) = Len(x.need) /\ Len(x.need) \in Nat
        BY <1>2, <1>3 DEF OpenOK, TotalsOK, Readable
      <3>2. ~(Len(x.need) < 2) => Len(x.need) - 1 \in 1 .. Len(x.give)
        BY <3>1
      <3> QED
        BY <3>1, <3>2 DEF LastGive
    <2>2. \A a, n, j \in Nat : a <= n /\ j # 0 => a < n + j
      OBVIOUS
    <2> HIDE DEF part
    <2> QED
      BY <1>8, <1>9, <1>10, <2>1, <2>2
  <1>12. asked.fed <= IF pc' = "stored" THEN Offset' + r'.buf ELSE NextCoder(bytes, x).buf
    <2>1. pc' = "stored" => Offset' + r'.buf = x.coder.buf
      BY <1>3, TakenAt
    <2>2. asked.fed \in Nat
      BY DEF Accounts
    <2> QED
      BY <1>4, <1>6, <2>1, <2>2
  <1>13. InReal'
    BY <1>1 DEF InReal
  <1>14. Inside(x)'
    BY <1>1, <1>5, <1>9, <1>11, <1>12 DEF Inside, LastGive, Marked
  <1> QED
    BY <1>13, <1>14 DEF Serves, x

(* ... an end mark, ...                                                     *)
LEMMA MarkTakenServes ==
    ASSUME LzmaInv, LzmaInv', Accounts, NEW m, Follows(m), Serves(m), pc = "real",
           Mark(NextWalk(bytes, m).w), NEW k, k \in Coders,
           Shifted(k, Offset) = NextCoder(bytes, m), Taken(NextWalk(bytes, m).w, k),
           asked' = asked
    PROVE  Serves(m)'
  <1> DEFINE w == NextWalk(bytes, m).w
  <1>1. /\ r'.dec = After(r.dec, w, k, r.limit) /\ r'.buf = k.buf
        /\ UNCHANGED <<bytes, taken, tempBuf>> /\ pc' = "stored"
    BY DEF Taken
  <1>2. bytes \in Seq(Bytes) /\ OpenOK(m, bytes)
    BY Placed
  <1>3. WalkOK(w)
    BY <1>2, NextIs
  <1>4. /\ r.dec \in Decoders /\ r.limit \in Nat /\ r.dec.dicPos < r.limit
        /\ r.dec.processedPos \in Nat
    BY FollowsTypes DEF LzmaInv, LocalsInv, Locals, Decoders
  <1>5. r'.dec.processedPos = r.dec.processedPos
    <2>1. r'.dec.processedPos = r.dec.processedPos + 0
      BY <1>1, <1>3, <1>4, AfterIs
    <2> QED
      BY <1>4, <2>1
  <1>6. Inside(m) /\ pc # "stored"
    <2>1. InReal
      BY DEF InReal
    <2> QED
      BY <2>1 DEF Serves
  <1>7. asked.fed <= NextCoder(bytes, m).buf
    BY <1>6 DEF Inside
  <1>8. Offset' + r'.buf = NextCoder(bytes, m).buf
    <2>1. Offset \in Nat /\ Offset' = Offset
      BY <1>1, FollowsTypes DEF Offset
    <2> QED
      BY <1>1, <2>1, ShiftedCoder
  <1>9. HasRoom(m)' /\ InReal'
    BY <1>1, RoomInside DEF HasRoom, InReal
  <1>10. Inside(m)'
    BY <1>1, <1>5, <1>6, <1>7, <1>8, <1>9 DEF Inside, LastGive
  <1> QED
    BY <1>9, <1>10 DEF Serves

(* The decoder follows a reading and owes what this reading lets it owe.    *)
Served(m) == Follows(m) /\ Serves(m)

(* One symbol of LzmaDec_DecodeReal: it makes sense and is owed, or it is   *)
(* an end mark, or the decoder refuses it and has met what is bad.          *)
LEMMA SymbolServes ==
    ASSUME LzmaInv, LzmaInv', Accounts, NEW m, Follows(m), Serves(m), DecodeSymbol
    PROVE  \/ \E e : Served(e)'
           \/ ~ret'.ok /\ BrokenOff(Meaning(bytes))'
  <1>1. /\ pc = "real" /\ UNCHANGED <<bytes, asked, taken, output, p, tempBuf, io>>
        /\ NextCoder(bytes, m).buf <= Len(bytes)
        /\ NextCoder(bytes, m).buf <= taken + io.inSize
    BY SymbolIs
  <1>2. CASE /\ ~Mark(NextWalk(bytes, m).w)
             /\ LeadsNowhere(Len(m.text), NextWalk(bytes, m).w)
             /\ Leave("NOT_SPECIFIED", FALSE)
    <2> DEFINE x == Meaning(bytes)
    <2>1. ~Sensible(bytes, m)
      BY <1>2 DEF Sensible
    <2>2. ~(NextCoder(bytes, m).buf > Len(bytes))
      <3>1. NextCoder(bytes, m).buf \in Nat /\ Len(bytes) \in Nat
        BY Placed
      <3> QED
        BY <1>1, <3>1
    <2>3. EndOf(bytes, m) = "bad"
      BY <1>2, <2>2 DEF EndOf
    <2>4. x.text = m.text /\ x.end = "bad" /\ x.endAt = NextCoder(bytes, m).buf
      BY <2>1, <2>3, EndsHere
    <2>5. ret'.ok = FALSE
      BY <1>2 DEF Leave
    <2>6. /\ HasRoom(m) /\ asked.made <= Len(m.text)
          /\ asked.fed + asked.amt = taken + io.inSize
      BY <1>1, RoomInside
    <2>7. x' = x
      BY <1>1
    <2> HIDE DEF x
    <2>8. BrokenOff(x)'
      BY <1>1, <2>4, <2>6, <2>7 DEF BrokenOff, HasRoom
    <2> QED
      BY <2>5, <2>8 DEF x
  <1>3. CASE /\ Mark(NextWalk(bytes, m).w)
             /\ \E k \in Coders : /\ Shifted(k, Offset) = NextCoder(bytes, m)
                                  /\ Taken(NextWalk(bytes, m).w, k)
    <2>1. Follows(m)' /\ Serves(m)'
      BY <1>1, <1>3, MarkTaken, MarkTakenServes
    <2> QED
      BY <2>1 DEF Served
  <1>4. CASE /\ Sensible(bytes, m)
             /\ \E k \in Coders :
                    /\ Normalized(Shifted(k, Offset), bytes) = NextCoder(bytes, m)
                    /\ Taken(NextWalk(bytes, m).w, k)
    <2>1. Follows(Enlarged(bytes, m))'
      BY <1>1, <1>4, TakenFollows
    <2>2. Serves(Enlarged(bytes, m))'
      BY <1>1, <1>4, TakenServes
    <2>3. Served(Enlarged(bytes, m))'
      BY <2>1, <2>2 DEF Served
    <2> QED
      BY <2>3
  <1> QED
    BY <1>2, <1>3, <1>4, SymbolIs

(* LzmaDec_DecodeReal stores its locals.                                    *)
LEMMA StoreServes ==
    ASSUME LzmaInv, Accounts, NEW m, Follows(m), Serves(m), StoreReal
    PROVE  Serves(m)'
  <1> DEFINE full == FullDictionary(r.dec)
             len == RemLen(full, io.dicLimit)
             d == WriteRem(full, io.dicLimit)
             more == d.dicPos < io.dicLimit /\ r.buf < r.bufLimit
                        /\ d.remainLen < kMatchSpecLenStart
  <1>1. /\ pc = "stored" /\ UNCHANGED <<bytes, asked>>
        /\ more => /\ pc' = "real" /\ r' = [r EXCEPT !.limit = RealLimit(d), !.dec = d]
        /\ ~more => /\ p' = [d EXCEPT !.remainLen = AtMost(@, kMatchSpecLenStart)]
                    /\ pc' = "toDic" /\ tempBuf' = << >>
                    /\ taken' = IF r.fromTemp THEN taken - UnreadOfTemp(r.buf)
                                ELSE taken + r.buf
    BY DEF StoreReal
  <1>2. InReal /\ Cur = r.dec /\ CurAt = Offset + r.buf
    BY <1>1 DEF InReal, Cur, CurAt
  <1>3. /\ m.need # << >> => LastGive(m) < r.dec.processedPos
        /\ Marked(r.dec) => HasRoom(m)
        /\ asked.fed <= Offset + r.buf
    BY <1>1, <1>2 DEF Serves, Inside
  <1>t. /\ r \in Locals /\ r.dec \in Decoders /\ r.buf \in Nat /\ taken \in Nat
        /\ Len(tempBuf) \in Nat /\ Offset \in Nat /\ r.dec.processedPos \in Nat
        /\ io.dicLimit \in 0 .. DicBufSize /\ asked.fed \in Nat
    BY <1>1, FollowsTypes DEF Decoders, Accounts
  <1>4. /\ DecoderOK(r.dec, dic) /\ ~r.dec.needInitState /\ r.dec.dicPos <= io.dicLimit
    <2>1. /\ DecoderOK(r.dec, dic) /\ ~r.dec.needInitState
          /\ r.dec.dicPos <= r.limit /\ r.limit <= io.dicLimit
      BY <1>1 DEF LzmaInv, LocalsInv
    <2>2. r.dec.dicPos \in 0 .. DicBufSize /\ r.limit \in Nat
      BY <1>t DEF Decoders, Locals
    <2> QED
      BY <1>t, <2>1, <2>2
  <1>5. /\ full \in Decoders /\ full.dicPos = r.dec.dicPos
        /\ full.processedPos = r.dec.processedPos /\ full.remainLen = r.dec.remainLen
    <2>1. DecoderOK(full, dic)
      BY <1>4, FullIsWritten
    <2> QED
      BY <1>t, <2>1 DEF FullDictionary, DecoderOK, Decoders
  <1> HIDE DEF full
  <1>6. /\ len \in Nat /\ d.processedPos = r.dec.processedPos + len
        /\ d.remainLen = r.dec.remainLen - len /\ (len # 0 => len <= r.dec.remainLen)
        /\ Marked(d) = Marked(full)
    BY <1>4, <1>5, <1>t, RemFields
  <1>7. Marked(d) = Marked(r.dec)
    BY <1>5, <1>6 DEF Marked
  <1>8. LastGive(m) \in Nat
    <2>1. m.give \in Seq(Nat) /\ Len(m.give) = Len(m.need) /\ Len(m.need) \in Nat
      BY Placed DEF OpenOK, TotalsOK, Readable
    <2>2. ~(Len(m.need) < 2) => Len(m.need) - 1 \in 1 .. Len(m.give)
      BY <2>1
    <2> QED
      BY <2>1, <2>2 DEF LastGive
  <1>9. d.remainLen \in Nat /\ kMatchSpecLenStart \in Nat
    <2>1. r.dec.remainLen \in Nat
      BY <1>t DEF Decoders
    <2> QED
      BY <1>6, <2>1, MarkLength
  <1>d. d = [d EXCEPT !.dicPos = @]
    BY <1>5 DEF WriteRem, Decoders
  <1> HIDE DEF d, len
  <1>10. m.need # << >> => LastGive(m) < d.processedPos
    BY <1>3, <1>6, <1>8, <1>t
  <1>11. CASE more
    <2>1. pc' = "real" /\ r'.dec = d
      BY <1>1, <1>11, <1>t DEF Locals
    <2>2. ~Marked(d) /\ ~Marked(r.dec)
      BY <1>7, <1>9, <1>11 DEF Marked
    <2>3. asked.fed <= NextCoder(bytes, m).buf
      <3>1. /\ CurAt <= m.coder.buf /\ m.coder.buf <= NextCoder(bytes, m).buf
            /\ NextCoder(bytes, m).buf \in Nat /\ m.coder.buf \in Nat /\ CurAt \in Nat
        BY <1>2, <2>2, Placed
      <3> QED
        BY <1>2, <1>3, <1>t, <3>1
    <2>4. InReal'
      BY <2>1 DEF InReal
    <2>5. Inside(m)'
      BY <1>1, <1>10, <2>1, <2>2, <2>3 DEF Inside, LastGive, Marked
    <2> QED
      BY <2>4, <2>5 DEF Serves
  <1>12. CASE ~more
    <2>1. /\ p' = [d EXCEPT !.remainLen = AtMost(@, kMatchSpecLenStart)] /\ pc' = "toDic"
          /\ tempBuf' = << >> /\ ~InReal'
          /\ taken' = IF r.fromTemp THEN taken - UnreadOfTemp(r.buf) ELSE taken + r.buf
      BY <1>1, <1>12 DEF InReal
    <2>2. taken' = Offset + r.buf
      <3>1. CASE r.fromTemp
        BY <1>t, <2>1, <3>1 DEF Offset, UnreadOfTemp
      <3>2. CASE ~r.fromTemp
        <4>1. Len(tempBuf) = 0
          BY <1>2, <3>2 DEF Follows, AtHand
        <4> QED
          BY <1>t, <2>1, <3>2, <4>1 DEF Offset
      <3> QED
        BY <3>1, <3>2
    <2>3. p'.processedPos = d.processedPos /\ Marked(p') = Marked(d)
      <3>1. p' = Cut(d) /\ d \in Decoders
        <4>1. full.checkDicSize = 0 => full.processedPos < DicBufSize
          BY <1>4, FullIsWritten DEF full
        <4>2. DecoderOK(full, dic)
          BY <1>4, FullIsWritten DEF full
        <4>3. full.dicPos <= io.dicLimit
          BY <1>4, <1>5
        <4>4. d \in Decoders
          BY <1>t, <4>1, <4>2, <4>3, RemWritten DEF DecoderOK, d
        <4> QED
          BY <2>1, <4>4 DEF Cut
      <3>2. p'.processedPos = d.processedPos
            /\ p'.remainLen = AtMost(d.remainLen, kMatchSpecLenStart)
        BY <3>1 DEF Cut, Decoders
      <3> QED
        BY <1>9, <3>2 DEF Marked, AtMost
    <2>4. Outside(m)'
      BY <1>1, <1>3, <1>7, <1>10, <2>1, <2>2, <2>3 DEF Outside, LastGive, Marked, HasRoom
    <2> QED
      BY <2>1, <2>4 DEF Serves
  <1> QED
    BY <1>11, <1>12

(* What PlacedOutside says of a decoder before an end mark, as one formula. *)
LEMMA MadeAndLeft ==
    LzmaInv => \A m : Follows(m) /\ ~InReal /\ ~Marked(p) =>
                OpenOK(m, bytes) /\ Len(m.text) = p.processedPos + p.remainLen
  BY Placed, PlacedOutside

(* The bytes that start the range decoder.                                  *)
LEMMA StartServes ==
    ASSUME LzmaInv, LzmaInv', Accounts, Waits, Starting, StartRangeDecoder
    PROVE  \/ ret'.ok /\ p'.needFlush /\ Starting'
           \/ ~p'.needFlush /\ \E e : Served(e)'
           \/ ~ret'.ok /\ BrokenOff(Meaning(bytes))'
  <1> DEFINE n == AtMost(io.inSize, RcInitSize - Len(tempBuf))
             piece == SubSeq(bytes, taken + 1, taken + n)
             start == tempBuf \o piece
  <1>1. /\ pc = "toDic" /\ taken' = taken + n /\ io' = [io EXCEPT !.inSize = @ - n]
        /\ \/ /\ Len(start) < RcInitSize /\ p' = p
              /\ Leave("NEEDS_MORE_INPUT", TRUE)
           \/ /\ Len(start) = RcInitSize /\ start[1] # 0
              /\ p' = p /\ Leave("NOT_SPECIFIED", FALSE)
           \/ /\ Len(start) = RcInitSize /\ start[1] = 0
              /\ tempBuf' = << >> /\ p' = [p EXCEPT !.needFlush = FALSE, !.range = Word - 1,
                                !.code = ((start[2] * Base + start[3]) * Base
                                          + start[4]) * Base + start[5]]
              /\ UNCHANGED <<pc, ret>>
        /\ UNCHANGED <<bytes, asked, output, dic, dprobs, r>>
    BY DEF StartRangeDecoder
  <1>2. /\ ret.ok /\ p.needFlush
        /\ PieceOf(tempBuf, bytes, 0) /\ taken = Len(tempBuf) /\ output = << >>
        /\ p.processedPos = 0 /\ p.remainLen = 0
    <2>1. WaitsAt
      BY WaitsIs
    <2> QED
      BY <1>1, <2>1 DEF WaitsAt
  <1>t. /\ taken \in Nat /\ bytes \in Seq(Bytes) /\ io.inSize \in Nat
        /\ taken + io.inSize <= Len(bytes) /\ Len(bytes) \in Nat
        /\ io \in [inSize : Nat, outSize : Nat, dicPos : 0 .. DicBufSize,
                   dicLimit : 0 .. DicBufSize]
        /\ tempBuf \in Seq(Bytes) /\ Len(tempBuf) \in Nat
        /\ Len(tempBuf) < RcInitSize /\ RcInitSize = 5 /\ p \in Decoders
    <2>1. /\ Len(tempBuf) < RcInitSize /\ RcInitSize = 5
      BY <1>2, DecoderAssumption DEF LzmaInv, InputInv
    <2> QED
      BY <1>2, <2>1, FollowsTypes
  <1>a. /\ asked.fed \in Nat /\ asked.made = 0 /\ asked.dst \in Nat \ {0}
        /\ taken + io.inSize = asked.fed + asked.amt /\ asked.fed <= taken
        /\ asked.amt \in Nat
    <2>1. /\ asked.fed \in Nat /\ asked.made \in Nat /\ asked.dst \in Nat \ {0}
          /\ asked.amt \in Nat
          /\ taken + io.inSize = asked.fed + asked.amt /\ asked.made <= Len(output)
          /\ asked.fed <= taken
      BY <1>1 DEF Accounts, Starting
    <2>2. Len(output) = 0
      BY <1>2
    <2> QED
      BY <2>1, <2>2
  <1>3. /\ n \in Nat /\ n <= io.inSize /\ taken + n <= Len(bytes)
        /\ n = io.inSize \/ Len(tempBuf) + n = RcInitSize
    <2>1. n \in Nat /\ n <= io.inSize /\ (n = io.inSize \/ Len(tempBuf) + n = RcInitSize)
      BY <1>t DEF AtMost
    <2> HIDE DEF n
    <2> QED
      BY <1>t, <2>1
  <1> HIDE DEF n
  <1>4. piece \in Seq(Bytes) /\ Len(piece) = n /\ PieceOf(piece, bytes, taken)
    <2>1. piece \in Seq(Bytes) /\ Len(piece) = n
      BY <1>t, <1>3, Pieces
    <2>2. PieceOf(piece, bytes, taken)
      BY <1>t, <1>3, PieceIs
    <2> QED
      BY <2>1, <2>2
  <1> HIDE DEF piece
  <1>5. Len(start) = Len(tempBuf) + n /\ PieceOf(start, bytes, 0)
    <2>1. 0 + Len(tempBuf) = taken /\ 0 \in Nat
      BY <1>2, <1>t
    <2>2. PieceOf(piece, bytes, 0 + Len(tempBuf))
      BY <1>4, <2>1
    <2>3. PieceOf(start, bytes, 0) /\ Len(start) = Len(tempBuf) + Len(piece)
      BY <1>t, <1>2, <1>4, <2>1, <2>2, PiecesJoin
    <2> QED
      BY <1>4, <2>3
  <1> HIDE DEF start
  <1>6. taken' = Len(start) /\ asked'.fed <= taken' /\ asked' = asked
    <2>1. taken' = taken + n /\ asked' = asked
      BY <1>1
    <2> QED
      BY <1>a, <1>2, <1>3, <1>5, <1>t, <2>1
  <1>7. io'.inSize = io.inSize - n
    BY <1>1, <1>t
  <1>8. CASE Len(start) < RcInitSize /\ p' = p /\ Leave("NEEDS_MORE_INPUT", TRUE)
    <2>1. ret'.ok = TRUE /\ ret'.status = "NEEDS_MORE_INPUT" /\ p'.needFlush
      BY <1>2, <1>8 DEF Leave
    <2>2. n = io.inSize
      BY <1>3, <1>5, <1>8, <1>t
    <2>3. io'.inSize = 0 /\ taken' < RcInitSize
      BY <1>6, <1>7, <1>8, <1>t, <2>2
    <2> QED
      BY <1>6, <2>1, <2>3 DEF Starting
  <1>9. CASE Len(start) = RcInitSize /\ start[1] # 0 /\ Leave("NOT_SPECIFIED", FALSE)
    <2> DEFINE x == Meaning(bytes)
               b0 == Beginning(bytes)
    <2>1. RcInitSize <= Len(bytes) /\ bytes[1] # 0
      <3>0. 1 \in 1 .. Len(start)
        BY <1>9, <1>t
      <3>1. start[1] = bytes[0 + 1] /\ 0 + RcInitSize <= Len(bytes)
        BY <1>5, <1>9, <3>0 DEF PieceOf
      <3>2. 0 + 1 = 1 /\ 0 + RcInitSize = RcInitSize
        BY <1>t
      <3> QED
        BY <1>9, <3>1, <3>2
    <2>2. b0.end = "bad"
      <3>1. ~(Len(bytes) < RcInitSize)
        BY <1>t, <2>1
      <3> QED
        BY <2>1, <3>1 DEF Beginning
    <2>3. b0.text = << >> /\ b0.endAt = RcInitSize
      BY <1>t, BeginningOK
    <2>4. b0 \in Read(bytes)
      BY <1>t, ReadIs
    <2> HIDE DEF b0
    <2>5. x = b0
      BY <1>t, <2>2, <2>4, MeaningIs
    <2>6. ret'.ok = FALSE /\ bytes' = bytes
      BY <1>1, <1>9 DEF Leave
    <2>7. x' = x
      BY <2>6
    <2>8. taken' <= asked.fed + asked.amt
      <3>1. taken' = taken + n
        BY <1>1
      <3> QED
        BY <1>a, <1>3, <1>t, <3>1
    <2>9. Len(x.text) = 0
      BY <2>3, <2>5
    <2> HIDE DEF x
    <2>10. x.end = "bad" /\ x.endAt = taken'
      BY <1>6, <1>9, <2>2, <2>3, <2>5
    <2>11. BrokenOff(x)'
      BY <1>a, <1>6, <2>7, <2>8, <2>9, <2>10 DEF BrokenOff
    <2> QED
      BY <2>6, <2>11 DEF x
  <1>10. CASE /\ tempBuf' = << >> /\ UNCHANGED <<pc, ret>>
              /\ p' = [p EXCEPT !.needFlush = FALSE, !.range = Word - 1,
                                !.code = ((start[2] * Base + start[3]) * Base
                                          + start[4]) * Base + start[5]]
    <2>1. ~p'.needFlush /\ p'.remainLen = 0 /\ p'.processedPos = 0
      BY <1>2, <1>10, <1>t DEF Decoders
    <2>2. ret'.ok /\ pc' = "toDic"
      BY <1>1, <1>2, <1>10
    <2>3. \E e : Follows(e)'
      BY <2>1, <2>2, StartsReading DEF Waits, GivesUp
    <2>4. PICK e : Follows(e)'
      BY <2>3
    <2>5. e.need = << >>
      <3>1. ~InReal'
        BY <2>2 DEF InReal
      <3>2. ~Marked(p')
        BY <2>1, MarkLength DEF Marked
      <3>3. (LzmaInv => \A m : Follows(m) /\ ~InReal /\ ~Marked(p) =>
                OpenOK(m, bytes) /\ Len(m.text) = p.processedPos + p.remainLen)'
        BY MadeAndLeft, PTL
      <3>4. OpenOK(e, bytes') /\ Len(e.text) = 0
        BY <2>1, <2>4, <3>1, <3>2, <3>3
      <3>5. TotalsOK(e) /\ e.need \in Seq(Nat)
        BY <3>4 DEF OpenOK, Readable
      <3>6. Len(e.need) = 0
        <4>1. Len(e.need) \in Nat
          BY <3>5, LenProperties
        <4>2. Len(e.need) # 0 => /\ Len(e.need) \in 1 .. Len(e.need)
                                 /\ e.give[Len(e.need)] = Len(e.text)
                                 /\ 0 < e.give[Len(e.need)]
          BY <3>5, <4>1 DEF TotalsOK
        <4> QED
          BY <3>4, <4>2
      <3> QED
        BY <3>5, <3>6, EmptySeq
    <2>6. Serves(e)'
      <3>1. ~InReal'
        BY <2>2 DEF InReal
      <3>2. ~Marked(p')
        BY <2>1, MarkLength DEF Marked
      <3>3. Outside(e)'
        BY <1>6, <1>10, <2>2, <2>5, <3>2 DEF Outside, Marked
      <3> QED
        BY <3>1, <3>3 DEF Serves
    <2>7. Served(e)'
      BY <2>4, <2>6 DEF Served
    <2> QED
      BY <2>1, <2>7
  <1> QED
    BY <1>1, <1>8, <1>9, <1>10 DEF start, piece, n

(* What DecoderContract has the caller count on, while the bytes are being  *)
(* decoded.                                                                 *)
ServesInv ==
    meaning # NotDelivered =>
        /\ Accounts
        /\ \/ Waits /\ Starting
           \/ \E m : Served(m)
           \/ GivesUp(meaning.text) /\ BrokenOff(meaning)

(* The step of a decoder that follows a reading, ...                        *)
LEMMA FollowingServes ==
    ASSUME LzmaInv, LzmaInv', Accounts, NEW m, Follows(m), Serves(m),
           Decoding \/ \E amt, dst \in Nat \ {0} : Call(amt, dst)
    PROVE  \/ \E e : Served(e)'
           \/ GivesUp(Meaning(bytes).text)' /\ BrokenOff(Meaning(bytes))'
  <1>1. CASE EnterDecodeToDic
    BY <1>1, EnterFollows, EnterServes DEF Served
  <1>2. CASE MarkMet
    <2>1. CASE Serves(m)' /\ Follows(m)'
      BY <2>1 DEF Served
    <2>2. CASE ~ret'.ok /\ BrokenOff(Meaning(bytes))'
      <3>1. ~Follows(m)'
        BY <2>2 DEF Follows
      <3> QED
        BY <1>2, <2>2, <3>1, MarkFollows
    <2>3. CASE Serves(m)' /\ ~Follows(m)'
      <3>1. p.code # 0
        BY <1>2, <2>3, LeavingFollows DEF MarkMet
      <3>2. ~ret'.ok
        BY <1>2, <3>1 DEF MarkMet, Leave
      <3>3. BrokenOff(Meaning(bytes))' \/ (pc' = "leave" /\ Answers(m)')
        <4>1. pc' = "leave" /\ ~InReal'
          BY <1>2, <3>1 DEF MarkMet, Leave, InReal
        <4> QED
          BY <2>3, <4>1 DEF Serves, Outside
      <3>4. ret'.status = "NOT_SPECIFIED"
        BY <1>2, <3>1 DEF MarkMet, Leave
      <3>5. ~Answers(m)'
        BY <3>4 DEF Answers
      <3> QED
        BY <1>2, <2>3, <3>3, <3>5, MarkFollows
    <2> QED
      BY <1>2, <2>1, <2>2, <2>3, MarkServes
  <1>3. CASE StartRangeDecoder
    BY <1>3 DEF StartRangeDecoder, Follows
  <1>4. CASE LimitMet
    BY <1>4, LimitFollows, LimitServes DEF Served
  <1>5. CASE DecodeFromSource
    BY <1>5, SourceFollows, SourceServes DEF Served
  <1>6. CASE DecodeFromTemp
    BY <1>6, TempFollows, TempServes DEF Served
  <1>7. CASE DecodeSymbol
    <2>1. CASE ~ret'.ok /\ BrokenOff(Meaning(bytes))'
      <3>1. ~(\E e : Follows(e)')
        BY <2>1 DEF Follows
      <3> QED
        BY <1>7, <2>1, <3>1, SymbolFollows
    <2> QED
      BY <1>7, <2>1, SymbolServes
  <1>8. CASE StoreReal
    BY <1>8, StoreFollows, StoreServes DEF Served
  <1>9. CASE LeaveDecodeToDic
    BY <1>9, LeaveFollows, LeaveServes DEF Served
  <1>10. CASE \E amt, dst \in Nat \ {0} : Call(amt, dst)
    <2>1. PICK amt \in Nat \ {0}, dst \in Nat \ {0} : Call(amt, dst)
      BY <1>10
    <2> QED
      BY <2>1, CallFollows, CallServes DEF Served
  <1> QED
    BY <1>1, <1>2, <1>3, <1>4, <1>5, <1>6, <1>7, <1>8, <1>9, <1>10 DEF Decoding

(* ... of one that waits, ...                                               *)
LEMMA WaitingServes ==
    ASSUME LzmaInv, LzmaInv', Accounts, Waits, Starting, bytes' = bytes,
           Decoding \/ \E amt, dst \in Nat \ {0} : Call(amt, dst)
    PROVE  \/ Waits' /\ Starting'
           \/ \E e : Served(e)'
           \/ GivesUp(Meaning(bytes).text)' /\ BrokenOff(Meaning(bytes))'
  <1>1. CASE StartRangeDecoder
    <2>1. CASE ret'.ok /\ p'.needFlush /\ Starting'
      <3>1. ~(\E e : Follows(e)') /\ ~GivesUp(Meaning(bytes).text)'
        BY <2>1 DEF Follows, GivesUp
      <3> QED
        BY <1>1, <2>1, <3>1, StartsReading
    <2>2. CASE ~ret'.ok /\ BrokenOff(Meaning(bytes))'
      <3>1. ~(\E e : Follows(e)') /\ ~Waits'
        BY <2>2 DEF Follows, Waits
      <3> QED
        BY <1>1, <2>2, <3>1, StartsReading
    <2> QED
      BY <1>1, <2>1, <2>2, StartServes
  <1>2. CASE EnterDecodeToDic
    <2>1. asked' = asked /\ taken' = taken /\ pc = "toBuf" /\ pc' = "toDic"
      BY <1>2 DEF EnterDecodeToDic
    <2> QED
      BY <1>2, <2>1, WaitingGoesOn DEF Starting
  <1>3. CASE LeaveDecodeToDic
    <2>1. asked' = asked /\ taken' = taken /\ pc = "leave" /\ pc' \in {"toBuf", "idle"}
      BY <1>3 DEF LeaveDecodeToDic
    <2> QED
      BY <1>3, <2>1, WaitingGoesOn DEF Starting
  <1>4. CASE \E amt, dst \in Nat \ {0} : Call(amt, dst)
    <2>1. PICK amt \in Nat \ {0}, dst \in Nat \ {0} : Call(amt, dst)
      BY <1>4
    <2>2. asked'.fed = taken /\ taken' = taken /\ pc' = "toBuf"
      BY <2>1 DEF Call
    <2>3. taken \in Nat
      BY FollowsTypes
    <2> QED
      BY <2>1, <2>2, <2>3, WaitingGoesOn DEF Starting
  <1> QED
    BY <1>1, <1>2, <1>3, <1>4, WaitingSteps

(* ... and of one that has given up.                                        *)
LEMMA GivenUpServes ==
    ASSUME LzmaInv, NEW x, Len(x.text) \in Nat, GivesUp(x.text),
           Decoding \/ \E amt, dst : Call(amt, dst)
    PROVE  GivesUp(x.text)' /\ BrokenOff(x)'
  <1>1. ~ret.ok /\ pc \in {"idle", "leave"}
    BY DEF GivesUp
  <1>2. LeaveDecodeToDic
    BY <1>1 DEF Decoding, EnterDecodeToDic, MarkMet, StartRangeDecoder, LimitMet, Ready,
                DecodeFromSource, DecodeFromTemp, DecodeSymbol, StoreReal, Call
  <1>3. pc' = "idle"
    BY <1>1, <1>2 DEF LeaveDecodeToDic, Again
  <1> QED
    BY <1>3, GivenUpStays DEF BrokenOff

(* What the decoder and its caller do, they do with bytes that are there,   *)
(* and none of it changes what these stand for.                             *)
LEMMA ServiceSteps ==
    ASSUME LzmaInv, OutputInv, Ask \/ Decode
    PROVE  /\ meaning # NotDelivered /\ meaning = Meaning(bytes)
           /\ meaning' = meaning /\ bytes' = bytes
           /\ Decoding \/ \E amt, dst \in Nat \ {0} : Call(amt, dst)
  <1>1. CASE Ask
    <2>1. PICK amt \in Amounts \cup {Len(bytes) - taken}, dst \in Rooms :
            amt > 0 /\ Call(amt, dst)
      BY <1>1 DEF Ask
    <2>2. taken \in Nat /\ Len(bytes) \in Nat /\ taken <= Len(bytes)
      <3>1. taken \in Nat /\ Len(bytes) \in Nat /\ taken + io.inSize <= Len(bytes)
            /\ io.inSize \in Nat
        BY FollowsTypes
      <3> QED
        BY <3>1
    <2>3. amt \in Nat \ {0} /\ dst \in Nat \ {0}
      BY <2>1, <2>2, TransferAssumption
    <2>4. meaning # NotDelivered /\ meaning' = meaning
      BY <1>1 DEF Ask
    <2>5. bytes' = bytes
      BY <2>1 DEF Call
    <2> QED
      BY <2>1, <2>3, <2>4, <2>5 DEF OutputInv
  <1>2. CASE Decode
    <2>1. Decoding /\ meaning' = meaning
      BY <1>2 DEF Decode
    <2>2. bytes' = bytes /\ pc # "idle"
      BY <2>1 DEF Decoding, EnterDecodeToDic, MarkMet, StartRangeDecoder, LimitMet, Ready,
                  DecodeFromSource, DecodeFromTemp, DecodeSymbol, StoreReal, LeaveDecodeToDic
    <2>3. meaning # NotDelivered
      BY <2>2 DEF OutputInv, DecoderInit
    <2> QED
      BY <2>1, <2>2, <2>3 DEF OutputInv
  <1> QED
    BY <1>1, <1>2

(* When the bytes have arrived, the decoder waits for the first call.       *)
LEMMA DeliverServes ==
    ASSUME LzmaInv, LzmaInv', OutputInv, OutputInv', Deliver
    PROVE  /\ ServesInv'
           /\ meaning = NotDelivered /\ DecoderInit(<< >>) /\ meaning' # NotDelivered
           /\ meaning' = Meaning(bytes')
           /\ UNCHANGED <<taken, output, p, pc, asked, ret>> /\ pc = "idle"
  <1>1. DecoderInit(<< >>) /\ meaning = NotDelivered
    BY DEF OutputInv, Deliver
  <1>2. PICK b : b \in Seq(0 .. Base - 1) /\ Receive(b)
    BY DEF Deliver
  <1>3. /\ UNCHANGED <<taken, output, p, pc, asked, ret>> /\ pc = "idle" /\ pc' = "idle"
        /\ meaning' = Meaning(bytes')
    BY <1>1, <1>2 DEF Receive, Deliver
  <1>4. p'.needFlush /\ ret'.ok
    BY <1>1, <1>3 DEF DecoderInit, InitialDec
  <1>5. bytes' \in Seq(Bytes)
    BY DEF LzmaInv, InputInv
  <1>6. meaning' # NotDelivered
    <2>1. meaning' \in Readable
      BY <1>3, <1>5, MeaningIs
    <2>2. "text" \in DOMAIN meaning'
      BY <2>1 DEF Readable
    <2>3. "text" \notin DOMAIN NotDelivered
      BY DEF NotDelivered
    <2> QED
      BY <2>2, <2>3
  <1>7. Waits'
    <2>1. ~(\E m : Follows(m)') /\ ~GivesUp(meaning.text)'
      BY <1>4 DEF Follows, GivesUp
    <2> QED
      BY <1>6, <2>1 DEF OutputInv
  <1>8. Accounts' /\ Starting'
    BY <1>3 DEF Accounts, Starting
  <1>9. ServesInv'
    BY <1>7, <1>8 DEF ServesInv
  <1> QED
    BY <1>1, <1>3, <1>6, <1>9

(* The decoder keeps its accounts and owes what it can serve.               *)
LEMMA ServesStep ==
    ASSUME LzmaInv, LzmaInv', OutputInv, OutputInv', ServesInv, [Next]_vars
    PROVE  ServesInv'
  <1>1. CASE CodeNext \/ Flush \/ CodeDecision \/ FlushRange \/ UNCHANGED vars
    <2>1. UNCHANGED <<dvars, meaning>>
      BY <1>1 DEF CodeNext, Flush, CodeDecision, FlushRange, vars
    <2>2. UNCHANGED <<bytes, taken, output, p, dic, dprobs, tempBuf, pc, io, asked, r, ret,
                      meaning>>
      BY <2>1 DEF dvars
    <2>3. Waits' = Waits
      BY <2>2 DEF Waits, AtHand, InReal, Offset, Cur, Fresh, StateReady
    <2>4. \A m : Follows(m)' = Follows(m)
      BY <2>2 DEF Follows, AtHand, InReal, Offset, Cur, CurProbs, CurAt, Fresh, StateReady,
                  ProbsReady
    <2>5. GivesUp(meaning.text)' = GivesUp(meaning.text)
      BY <2>2 DEF GivesUp, Pending
    <2>6. \A m : Serves(m)' = Serves(m)
      BY <2>2 DEF Serves, Inside, Outside, InReal, Offset, HasRoom, Answers
    <2>7. Accounts' = Accounts /\ Starting' = Starting
      BY <2>2 DEF Accounts, Starting
    <2>8. BrokenOff(meaning)' = BrokenOff(meaning)
      BY <2>2 DEF BrokenOff
    <2>9. \A m : Served(m)' = Served(m)
      BY <2>4, <2>6 DEF Served
    <2> QED
      BY <2>2, <2>3, <2>5, <2>7, <2>8, <2>9 DEF ServesInv
  <1>2. CASE Deliver
    BY <1>2, DeliverServes
  <1>3. CASE Ask \/ Decode
    <2>1. /\ meaning # NotDelivered /\ meaning = Meaning(bytes)
          /\ meaning' = meaning /\ bytes' = bytes
          /\ Decoding \/ \E amt, dst \in Nat \ {0} : Call(amt, dst)
      BY <1>3, ServiceSteps
    <2>2. /\ Accounts
          /\ \/ Waits /\ Starting
             \/ \E m : Served(m)
             \/ GivesUp(meaning.text) /\ BrokenOff(meaning)
      BY <2>1 DEF ServesInv
    <2>3. Accounts'
      BY <2>1, <2>2, AccountsStep
    <2>4. meaning' = Meaning(bytes) /\ meaning' = Meaning(bytes')
      BY <2>1
    <2>5. CASE Waits /\ Starting
      BY <2>1, <2>2, <2>3, <2>5, WaitingServes DEF ServesInv
    <2>6. CASE \E m : Served(m)
      <3>1. PICK m : Follows(m) /\ Serves(m)
        BY <2>6 DEF Served
      <3>2. \/ \E e : Served(e)'
            \/ GivesUp(Meaning(bytes).text)' /\ BrokenOff(Meaning(bytes))'
        BY <2>1, <2>2, <3>1, FollowingServes
      <3>3. GivesUp(Meaning(bytes).text)' => GivesUp(meaning.text)'
        BY <2>4 DEF GivesUp, Pending
      <3>4. BrokenOff(Meaning(bytes))' => BrokenOff(meaning)'
        BY <2>4 DEF BrokenOff
      <3> QED
        BY <2>3, <3>2, <3>3, <3>4 DEF ServesInv
    <2>7. CASE GivesUp(meaning.text) /\ BrokenOff(meaning)
      <3>1. PICK x : x = meaning
        OBVIOUS
      <3>2. Len(x.text) \in Nat
        <4>1. bytes \in Seq(Bytes)
          BY FollowsTypes
        <4>2. x.text \in Seq(Letters)
          BY <2>1, <3>1, <4>1, MeaningIs DEF Readable
        <4> QED
          BY <4>2, LenProperties
      <3>3. Decoding \/ \E amt, dst : Call(amt, dst)
        BY <2>1
      <3>4. GivesUp(x.text)' /\ BrokenOff(x)'
        BY <2>7, <3>1, <3>2, <3>3, GivenUpServes
      <3>5. x = meaning'
        BY <2>1, <3>1
      <3>6. GivesUp(meaning.text)' /\ BrokenOff(meaning)'
        BY <3>4, <3>5 DEF GivesUp, Pending, BrokenOff, Prefix
      <3> QED
        BY <2>3, <3>6 DEF ServesInv
    <2> QED
      BY <2>2, <2>5, <2>6, <2>7
  <1> QED
    BY <1>1, <1>2, <1>3 DEF Next

(* What a call is asked for is accounted for throughout, and the decoder    *)
(* returns only when it owes nothing more.                                  *)
THEOREM ServesInvariant == Spec => []ServesInv
  <1>1. Init => ServesInv
    BY DEF Init, ServesInv
  <1>2. LzmaInv /\ LzmaInv' /\ OutputInv /\ OutputInv' /\ ServesInv /\ [Next]_vars
            => ServesInv'
    BY ServesStep
  <1> QED
    BY <1>1, <1>2, TransferKeepsLzma, OutputInvariant, PTL DEF Spec

(* A reading that the decoder follows within what the bytes stand for.      *)
LEMMA ReadSoFar ==
    ASSUME LzmaInv, NEW m, Follows(m)
    PROVE  LET x == Meaning(bytes)
               k == Len(m.need)
           IN  /\ Ordered(x) /\ k \in 0 .. Len(x.need) /\ k \in Nat /\ Len(x.need) \in Nat
               /\ k = 0 => Len(m.text) = 0
               /\ k > 0 => x.need[k] = m.coder.buf /\ x.give[k] = Len(m.text)
               /\ k > 1 => x.give[k - 1] = LastGive(m)
               /\ k > 0 <=> m.need # << >>
               /\ RcInitSize <= m.coder.buf
  <1> DEFINE x == Meaning(bytes)
             k == Len(m.need)
  <1>1. bytes \in Seq(Bytes) /\ OpenOK(m, bytes) /\ m \in Read(bytes) /\ k \in Nat
        /\ m \in Readable
    BY Placed
  <1>2. Ordered(x) /\ Len(x.need) \in Nat
    BY <1>1, MeaningOrdered, OrderedAscends
  <1>3. Prefix(m.need, x.need) /\ Prefix(m.give, x.give)
    BY <1>1, MeaningIs DEF Grows
  <1>4. TotalsOK(m) /\ RcInitSize <= m.coder.buf
    BY <1>1 DEF OpenOK
  <1> HIDE DEF x
  <1>5. k <= Len(x.need) /\ \A i \in 1 .. k : x.need[i] = m.need[i]
    BY <1>3 DEF Prefix
  <1>6. Len(m.give) = k
    BY <1>4 DEF TotalsOK
  <1>7. \A i \in 1 .. k : x.give[i] = m.give[i]
    BY <1>3, <1>6 DEF Prefix
  <1>8. k = 0 => Len(m.text) = 0
    BY <1>4 DEF TotalsOK
  <1>9. k > 0 => x.need[k] = m.coder.buf /\ x.give[k] = Len(m.text)
    <2> SUFFICES ASSUME k > 0 PROVE x.need[k] = m.coder.buf /\ x.give[k] = Len(m.text)
      OBVIOUS
    <2>1. k \in 1 .. k /\ k # 0
      BY <1>1
    <2>2. m.need[k] = m.coder.buf /\ m.give[k] = Len(m.text)
      BY <1>4, <2>1 DEF TotalsOK
    <2> QED
      BY <1>5, <1>7, <2>1, <2>2
  <1>10. k > 1 => x.give[k - 1] = LastGive(m)
    BY <1>1, <1>7 DEF LastGive
  <1>11. k > 0 <=> m.need # << >>
    <2>1. m.need \in Seq(Nat)
      BY <1>1 DEF Readable
    <2> QED
      BY <2>1, EmptySeq
  <1> QED
    BY <1>1, <1>2, <1>4, <1>5, <1>8, <1>9, <1>10, <1>11 DEF x

(* What comes after it takes more than the n bytes that the next symbol is  *)
(* not complete with.                                                       *)
LEMMA NotReached ==
    ASSUME LzmaInv, NEW m, Follows(m), NEW n, n \in Nat, NextCoder(bytes, m).buf > n
    PROVE  LET x == Meaning(bytes)
               k == Len(m.need)
           IN  /\ k < Len(x.need) => n < x.need[k + 1]
               /\ x.end # "none" => n < x.endAt
  <1> DEFINE x == Meaning(bytes)
             k == Len(m.need)
             next == NextCoder(bytes, m).buf
  <1>1. Ordered(x) /\ k \in Nat /\ Len(x.need) \in Nat
    BY ReadSoFar
  <1>2. next \in Nat
    BY Placed
  <1>3. CASE Sensible(bytes, m)
    <2>1. Len(x.need) > k /\ x.need[k + 1] = next
      BY <1>3, GoesFurther
    <2> HIDE DEF x, next, k
    <2>2. x.end # "none" => x.need[k + 1] <= x.endAt
      <3>1. k + 1 \in 1 .. Len(x.need)
        BY <1>1, <2>1
      <3> QED
        BY <1>1, <3>1 DEF Ordered
    <2>3. x.endAt \in Nat
      BY <1>1 DEF Ordered
    <2>4. next > n
      BY DEF next
    <2>5. n < x.need[k + 1] /\ (x.end # "none" => n < x.endAt)
      BY <1>2, <2>1, <2>2, <2>3, <2>4
    <2> QED
      BY <2>5 DEF x, k
  <1>4. CASE ~Sensible(bytes, m)
    <2>1. x.need = m.need /\ (x.end # "none" => x.endAt = next)
      BY <1>4, EndsHere
    <2> QED
      BY <1>1, <2>1
  <1> QED
    BY <1>3, <1>4

(* The last round of a call.                                                *)
Returns == LeaveDecodeToDic /\ ~Again(p.dicPos - io.dicPos)

(* What a decoder that follows a reading has made when the call returns.    *)
LEMMA Accounted ==
    ASSUME LzmaInv, Accounts, Returns, NEW m, Follows(m), Serves(m)
    PROVE  /\ Len(output') = p.processedPos /\ p.processedPos \in Nat /\ taken \in Nat
           /\ asked.fed \in Nat /\ asked.made \in Nat
           /\ asked.amt \in Nat \ {0} /\ asked.dst \in Nat \ {0}
           /\ asked.fed <= taken /\ taken <= asked.fed + asked.amt
           /\ io.inSize = 0 => taken = asked.fed + asked.amt
           /\ asked.made <= p.processedPos
           /\ p.dicPos = io.dicLimit => p.processedPos = asked.made + asked.dst
           /\ p.dicPos < io.dicLimit => p.processedPos < asked.made + asked.dst
           /\ m.need # << >> => LastGive(m) < p.processedPos
           /\ Answers(m) /\ ret.status \in Statuses /\ ret.ok
           /\ Marked(p) => HasRoom(m)
           /\ ~InReal /\ ~p.needFlush
           /\ tempBuf # << >> => p.remainLen = 0
           /\ tempBuf = << >> => Offset = taken
           /\ Offset <= taken /\ Offset \in Nat
  <1>1. pc = "leave" /\ ~InReal /\ ret.ok /\ ~p.needFlush
    BY DEF Returns, LeaveDecodeToDic, InReal, Follows
  <1>2. /\ taken \in Nat /\ Len(output) \in Nat /\ Len(tempBuf) \in Nat /\ Offset \in Nat
        /\ io \in [inSize : Nat, outSize : Nat, dicPos : 0 .. DicBufSize,
                   dicLimit : 0 .. DicBufSize]
        /\ p.dicPos \in 0 .. DicBufSize /\ DicBufSize \in Nat /\ p.processedPos \in Nat
        /\ ret \in [status : Statuses, ok : BOOLEAN] /\ io.dicPos <= p.dicPos
        /\ StateReady.dicPos = p.dicPos
    BY <1>1, FollowsTypes
  <1>3. p.processedPos = Len(output) + (p.dicPos - io.dicPos)
    <2>1. p.processedPos = Len(output) + Fresh /\ Cur = StateReady
      BY <1>1, PlacedOutside
    <2> QED
      BY <1>1, <1>2, <2>1 DEF Fresh
  <1> DEFINE made == p.dicPos - io.dicPos
  <1>4. Len(output') = Len(output) + made /\ made \in Nat
    BY OutputGrows DEF Returns
  <1>5. /\ asked.amt \in Nat \ {0} /\ asked.dst \in Nat \ {0}
        /\ asked.fed \in Nat /\ asked.made \in Nat
        /\ taken + io.inSize = asked.fed + asked.amt
        /\ Len(output) + io.outSize = asked.made + asked.dst
        /\ asked.made <= Len(output) /\ io.outSize > 0
        /\ io.dicLimit = AtMost(DicBufSize, io.dicPos + io.outSize)
        /\ io.dicPos < DicBufSize
    BY <1>1 DEF Accounts
  <1>6. made = 0 \/ io.outSize <= made
    <2>1. ~Again(made)
      BY DEF Returns
    <2> HIDE DEF made
    <2> QED
      BY <1>1, <1>2, <1>4, <2>1 DEF Again
  <1>7. /\ p.dicPos = io.dicLimit => made = io.outSize
        /\ p.dicPos < io.dicLimit => made < io.outSize
    <2>1. /\ io.dicPos \in Nat /\ p.dicPos \in Nat /\ io.outSize \in Nat /\ DicBufSize \in Nat
          /\ io.dicPos < DicBufSize /\ io.dicPos <= p.dicPos /\ io.outSize > 0
          /\ io.dicLimit = AtMost(DicBufSize, io.dicPos + io.outSize)
      BY <1>2, <1>5
    <2> QED
      BY ONLY <1>6, <2>1 DEF AtMost
  <1>9. /\ m.need # << >> => LastGive(m) < p.processedPos
        /\ Marked(p) => HasRoom(m)
        /\ tempBuf # << >> => p.remainLen = 0
        /\ asked.fed <= taken /\ Answers(m)
    BY <1>1 DEF Serves, Outside
  <1>10. Offset <= taken /\ (tempBuf = << >> => Offset = taken)
    BY <1>2 DEF Offset
  <1>11. taken <= asked.fed + asked.amt /\ (io.inSize = 0 => taken = asked.fed + asked.amt)
    <2>1. \A a, b, c, d \in Nat : a + b = c + d => a <= c + d /\ (b = 0 => a = c + d)
      OBVIOUS
    <2>2. /\ taken \in Nat /\ io.inSize \in Nat /\ asked.fed \in Nat /\ asked.amt \in Nat
          /\ taken + io.inSize = asked.fed + asked.amt
      BY <1>2, <1>5
    <2> QED
      BY ONLY <2>1, <2>2
  <1>12. ret.status \in Statuses
    BY <1>2
  <1>13. /\ asked.made <= p.processedPos
         /\ p.dicPos = io.dicLimit => p.processedPos = asked.made + asked.dst
         /\ p.dicPos < io.dicLimit => p.processedPos < asked.made + asked.dst
    <2>1. \A a, b, c, d, e, f \in Nat : /\ a <= b => a <= b + c
                                        /\ c = d /\ b + d = e + f => b + c = e + f
                                        /\ c < d /\ b + d = e + f => b + c < e + f
      OBVIOUS
    <2>2. p.processedPos = Len(output) + made
      BY <1>3
    <2>3. io.outSize \in Nat
      BY <1>2
    <2>4. asked.dst \in Nat
      BY <1>5
    <2> HIDE DEF made
    <2>5. asked.made <= Len(output) + made
      BY <1>2, <1>4, <1>5, <2>1
    <2>6. made = io.outSize => Len(output) + made = asked.made + asked.dst
      BY <1>2, <1>4, <1>5, <2>1, <2>3, <2>4
    <2>7. made < io.outSize => Len(output) + made < asked.made + asked.dst
      BY <1>2, <1>4, <1>5, <2>1, <2>3, <2>4
    <2> QED
      BY <1>7, <2>2, <2>5, <2>6, <2>7
  <1> QED
    BY <1>1, <1>2, <1>3, <1>4, <1>5, <1>9, <1>10, <1>11, <1>12, <1>13

(* Between symbols the reading is where the decoder is.                     *)
LEMMA AtOffset ==
    ASSUME LzmaInv, NEW m, Follows(m), ~InReal, ~Marked(p)
    PROVE  m.coder.buf = Offset
  <1>1. p.range >= kTopValue /\ StateReady.range = p.range
    <2>1. ~p.needFlush
      BY DEF Follows
    <2> QED
      BY <2>1, FollowsTypes DEF LzmaInv, KeptInv, KeptOK
  <1>2. m.coder = Normalized(CoderAt(StateReady, ProbsReady, Offset), bytes)
    BY PlacedOutside
  <1> DEFINE c == CoderAt(StateReady, ProbsReady, Offset)
  <1>3. c.range = p.range /\ c.buf = Offset
    BY <1>1 DEF CoderAt
  <1> HIDE DEF c
  <1>4. Normalized(c, bytes) = c
    BY <1>1, <1>3 DEF Normalized
  <1> QED
    BY <1>2, <1>3, <1>4 DEF c

(* What the input determines is a number.                                   *)
LEMMA GivenNumber ==
    ASSUME NEW x, Ordered(x), NEW n, n \in Nat
    PROVE  Contract!Given(StreamOf(x), n) \in Nat
  <1> DEFINE whole == {i \in DOMAIN x.need : x.need[i] <= n}
             count == Cardinality(whole)
  <1>1. /\ Len(x.need) \in Nat
        /\ \A i \in 1 .. Len(x.need) : x.give[i] \in Nat
        /\ DOMAIN x.need = 1 .. Len(x.need)
    BY OrderedAscends, LenProperties DEF Ordered
  <1>2. whole \subseteq 1 .. Len(x.need)
    BY <1>1
  <1> HIDE DEF whole
  <1>3. IsFiniteSet(whole) /\ Cardinality(whole) <= Cardinality(1 .. Len(x.need))
    BY <1>1, <1>2, FirstOnes, FS_Subset
  <1>4. count \in 0 .. Len(x.need)
    BY <1>1, <1>3, FirstOnes, FS_CardinalityType
  <1>5. Contract!Given(StreamOf(x), n) = IF count = 0 THEN 0 ELSE x.give[count]
    BY GivenCounts DEF whole
  <1> QED
    BY <1>1, <1>4, <1>5

(* What the contract lets the current call return.                          *)
Outcomes ==
    Contract!DecodeToBuf(StreamOf(Meaning(bytes)), Called(asked.fed, asked.made),
                         asked.amt, asked.dst)

Outcome(made, stat) == [fed |-> taken, made |-> made, stat |-> stat, ok |-> TRUE]

(* A call that returns because the room is filled.                          *)
LEMMA FilledAnswer ==
    ASSUME LzmaInv, Accounts, Returns, NEW m, Follows(m), Serves(m),
           ret.status = "NOT_FINISHED"
    PROVE  Outcome(p.processedPos, "NOT_FINISHED") \in Outcomes
  <1> DEFINE x == Meaning(bytes)
             k == Len(m.need)
             s == StreamOf(x)
  <1>1. /\ p.processedPos \in Nat /\ taken \in Nat
        /\ asked.fed \in Nat /\ asked.made \in Nat
        /\ asked.amt \in Nat \ {0} /\ asked.dst \in Nat \ {0}
        /\ asked.fed <= taken /\ taken <= asked.fed + asked.amt
        /\ p.dicPos = io.dicLimit => p.processedPos = asked.made + asked.dst
        /\ m.need # << >> => LastGive(m) < p.processedPos
        /\ Answers(m) /\ ~InReal
        /\ tempBuf = << >> => Offset = taken
    BY Accounted
  <1>2. p.dicPos = io.dicLimit /\ ~Marked(p) /\ tempBuf = << >>
    BY <1>1 DEF Answers
  <1>3. p.processedPos = asked.made + asked.dst /\ Offset = taken
    BY <1>1, <1>2
  <1>4. p.processedPos # 0
    <2>1. \A a \in Nat, b \in Nat \ {0} : a + b # 0
      OBVIOUS
    <2> QED
      BY <1>1, <1>3, <2>1
  <1>5. m.coder.buf = taken
    BY <1>1, <1>2, <1>3, AtOffset
  <1>6. Len(m.text) = p.processedPos + p.remainLen /\ p.remainLen \in Nat
        /\ Len(m.text) \in Nat
    BY <1>1, <1>2, PlacedOutside, Placed, FollowsTypes
  <1>7. p.processedPos <= Len(m.text) /\ Len(m.text) # 0
    BY <1>1, <1>4, <1>6
  <1>8. /\ Ordered(x) /\ k \in 0 .. Len(x.need) /\ k \in Nat /\ Len(x.need) \in Nat
        /\ k = 0 => Len(m.text) = 0
        /\ k > 0 => x.need[k] = m.coder.buf /\ x.give[k] = Len(m.text)
        /\ k > 1 => x.give[k - 1] = LastGive(m)
        /\ k > 0 <=> m.need # << >>
        /\ RcInitSize <= m.coder.buf
    BY ReadSoFar
  <1> HIDE DEF x, k
  <1>9. k > 0 /\ k \in 1 .. Len(x.need)
    BY <1>7, <1>8
  <1>10. Contract!Cost(s, p.processedPos) = taken
    <2>1. p.processedPos \in Nat \ {0} /\ p.processedPos <= x.give[k]
      BY <1>1, <1>4, <1>7, <1>8, <1>9
    <2>2. k > 1 => x.give[k - 1] < p.processedPos
      BY <1>1, <1>8, <1>9
    <2>3. Contract!Cost(s, p.processedPos) = x.need[k]
      BY <1>8, <1>9, <2>1, <2>2, CostIs
    <2> QED
      BY <1>5, <1>8, <1>9, <2>3
  <1>11. p.processedPos <= Contract!Given(s, asked.fed + asked.amt)
    <2>1. x.need[k] <= asked.fed + asked.amt /\ asked.fed + asked.amt \in Nat
      BY <1>1, <1>5, <1>8, <1>9
    <2>2. Len(m.text) <= Contract!Given(s, asked.fed + asked.amt)
      <3>1. x.give[k] <= Contract!Given(StreamOf(x), asked.fed + asked.amt)
        BY <1>8, <1>9, <2>1, GivenLeast
      <3> QED
        BY <1>8, <1>9, <3>1
    <2> DEFINE g == Contract!Given(s, asked.fed + asked.amt)
    <2>3. g \in Nat
      BY <1>8, <2>1, GivenNumber
    <2> HIDE DEF g
    <2> QED
      BY <1>1, <1>6, <1>7, <2>2, <2>3 DEF g
  <1>12. RcInitSize <= asked.fed + asked.amt
    <2>1. RcInitSize \in Nat /\ asked.fed + asked.amt \in Nat
      BY <1>1, DecoderAssumption
    <2> QED
      BY <1>1, <1>5, <1>8, <2>1
  <1> HIDE DEF s
  <1>13. [fed |-> taken, made |-> asked.made + asked.dst, stat |-> "NOT_FINISHED",
          ok |-> TRUE] \in Contract!DecodeToBuf(s, Called(asked.fed, asked.made),
                                                asked.amt, asked.dst)
    <2>1. asked.amt \in Nat /\ asked.dst \in Nat
      BY <1>1
    <2>2. Contract!Cost(s, asked.made + asked.dst) = taken
      BY <1>3, <1>10
    <2>3. asked.made + asked.dst <= Contract!Given(s, asked.fed + asked.amt)
      BY <1>3, <1>11
    <2> QED
      BY <1>1, <1>12, <2>1, <2>2, <2>3, FillsRoom
  <1> QED
    BY <1>3, <1>13 DEF Outcome, Outcomes, s, x

(* A call that returns because all its input is used up.                    *)
LEMMA HungryAnswer ==
    ASSUME LzmaInv, Accounts, Returns, NEW m, Follows(m), Serves(m),
           ret.status = "NEEDS_MORE_INPUT"
    PROVE  Outcome(p.processedPos, "NEEDS_MORE_INPUT") \in Outcomes
  <1> DEFINE x == Meaning(bytes)
             k == Len(m.need)
             s == StreamOf(x)
             n == asked.fed + asked.amt
  <1>1. /\ p.processedPos \in Nat /\ taken \in Nat
        /\ asked.fed \in Nat /\ asked.made \in Nat
        /\ asked.amt \in Nat \ {0} /\ asked.dst \in Nat \ {0}
        /\ asked.fed <= taken
        /\ io.inSize = 0 => taken = asked.fed + asked.amt
        /\ asked.made <= p.processedPos
        /\ p.dicPos < io.dicLimit => p.processedPos < asked.made + asked.dst
        /\ Answers(m) /\ ~InReal
        /\ Offset <= taken /\ Offset \in Nat
    BY Accounted
  <1>2. io.inSize = 0 /\ p.dicPos < io.dicLimit /\ p.remainLen = 0
        /\ NextCoder(bytes, m).buf > taken
    BY <1>1 DEF Answers
  <1>3. taken = n /\ p.processedPos < asked.made + asked.dst
    BY <1>1, <1>2
  <1>4. ~Marked(p)
    <2>1. kMatchSpecLenStart \in Nat \ {0} /\ (Marked(p) <=> p.remainLen = kMatchSpecLenStart)
      BY <1>1, PlacedOutside
    <2> QED
      BY <1>2, <2>1
  <1>5. Len(m.text) = p.processedPos
    <2>1. Len(m.text) = p.processedPos + p.remainLen
      BY <1>1, <1>4, PlacedOutside
    <2> QED
      BY <1>1, <1>2, <2>1
  <1>6. m.coder.buf = Offset
    BY <1>1, <1>4, AtOffset
  <1>7. /\ Ordered(x) /\ k \in 0 .. Len(x.need) /\ k \in Nat /\ Len(x.need) \in Nat
        /\ k = 0 => Len(m.text) = 0
        /\ k > 0 => x.need[k] = m.coder.buf /\ x.give[k] = Len(m.text)
    BY ReadSoFar
  <1>8. /\ k < Len(x.need) => taken < x.need[k + 1]
        /\ x.end # "none" => taken < x.endAt
    BY <1>1, <1>2, NotReached
  <1> HIDE DEF x, k
  <1>9. Contract!Given(s, taken) = p.processedPos
    <2>1. k > 0 => x.need[k] <= taken
      BY <1>1, <1>6, <1>7
    <2>2. Contract!Given(s, taken) = IF k = 0 THEN 0 ELSE x.give[k]
      BY <1>1, <1>7, <1>8, <2>1, GivenIs
    <2>3. k # 0 => k > 0
      BY <1>7
    <2> QED
      BY <1>5, <1>7, <2>2, <2>3
  <1>10. s.end = x.end /\ s.endAt = x.endAt
    BY DEF StreamOf
  <1>11. /\ ~(s.end = "mark" /\ s.endAt <= n) /\ ~(s.end = "bad" /\ s.endAt <= n)
    <2>1. x.endAt \in Nat
      BY <1>7 DEF Ordered
    <2>2. x.end # "none" => ~(x.endAt <= taken)
      BY <1>1, <1>8, <2>1
    <2> QED
      BY <1>3, <1>10, <2>2
  <1> HIDE DEF s
  <1>12. [fed |-> taken, made |-> p.processedPos, stat |-> "NEEDS_MORE_INPUT", ok |-> TRUE]
            \in Contract!DecodeToBuf(s, Called(asked.fed, asked.made), asked.amt, asked.dst)
    <2>1. asked.amt \in Nat /\ asked.dst \in Nat /\ taken <= n
      BY <1>1, <1>3
    <2>2. p.processedPos = Contract!Given(s, n)
      BY <1>3, <1>9
    <2> DEFINE met == FALSE
               fine == TRUE
    <2>3. met <=> s.end = "mark" /\ s.endAt <= n
      BY <1>11
    <2>4. fine <=> ~(s.end = "bad" /\ s.endAt <= n)
      BY <1>11
    <2>5. taken = IF met THEN Contract!Larger(asked.fed, s.endAt) ELSE n
      BY <1>3
    <2>6. met \in BOOLEAN /\ fine \in BOOLEAN
      OBVIOUS
    <2> HIDE DEF met, fine
    <2>7. [fed |-> taken, made |-> p.processedPos,
           stat |-> IF met THEN "FINISHED_WITH_MARK" ELSE "NEEDS_MORE_INPUT", ok |-> fine]
             \in Contract!DecodeToBuf(s, Called(asked.fed, asked.made), asked.amt, asked.dst)
      BY <1>1, <1>3, <2>1, <2>2, <2>3, <2>4, <2>5, <2>6, RunsOut
    <2> QED
      BY <2>7 DEF met, fine
  <1> QED
    BY <1>12 DEF Outcome, Outcomes, s, x

(* A call that returns because the end mark has come.                       *)
LEMMA MarkedAnswer ==
    ASSUME LzmaInv, Accounts, Returns, NEW m, Follows(m), Serves(m),
           ret.status = "FINISHED_WITH_MARK"
    PROVE  Outcome(p.processedPos, "FINISHED_WITH_MARK") \in Outcomes
  <1> DEFINE x == Meaning(bytes)
             k == Len(m.need)
             s == StreamOf(x)
             n == asked.fed + asked.amt
  <1>1. /\ p.processedPos \in Nat /\ taken \in Nat
        /\ asked.fed \in Nat /\ asked.made \in Nat
        /\ asked.amt \in Nat \ {0} /\ asked.dst \in Nat \ {0}
        /\ asked.fed <= taken /\ taken <= n
        /\ asked.made <= p.processedPos
        /\ Answers(m) /\ ~InReal
        /\ Marked(p) => HasRoom(m)
        /\ tempBuf = << >> => Offset = taken
    BY Accounted
  <1>2. Marked(p) /\ p.code = 0 /\ Offset = taken
    BY <1>1 DEF Answers
  <1>3. Len(m.text) = p.processedPos /\ MarkNext(bytes, m, taken, 0)
    BY <1>1, <1>2, PlacedOutside
  <1>4. /\ NextCoder(bytes, m).buf = taken /\ taken <= Len(bytes)
        /\ Mark(NextWalk(bytes, m).w) /\ NextCoder(bytes, m).code = 0
    BY <1>3 DEF MarkNext
  <1>5. p.processedPos < asked.made + asked.dst
    BY <1>1, <1>2, <1>3 DEF HasRoom
  <1>6. /\ x.need = m.need /\ x.give = m.give /\ x.end = "mark" /\ x.endAt = taken
    <2>1. ~Sensible(bytes, m)
      BY <1>4 DEF Sensible
    <2>2. Len(bytes) \in Nat
      BY FollowsTypes
    <2>3. EndOf(bytes, m) = "mark"
      BY <1>1, <1>4, <2>2 DEF EndOf
    <2> QED
      BY <1>4, <2>1, <2>3, EndsHere
  <1>7. /\ Ordered(x) /\ k \in 0 .. Len(x.need) /\ k \in Nat /\ Len(x.need) \in Nat
        /\ k = 0 => Len(m.text) = 0
        /\ k > 0 => x.need[k] = m.coder.buf /\ x.give[k] = Len(m.text)
    BY ReadSoFar
  <1>8. m.coder.buf <= taken /\ m.coder.buf \in Nat
    BY <1>4, Placed
  <1>9. Len(x.need) = k
    BY <1>6
  <1> HIDE DEF x, k
  <1>10. Contract!Given(s, n) = p.processedPos
    <2>1. n \in Nat
      BY <1>1
    <2>2. k > 0 => x.need[k] <= n
      BY <1>1, <1>7, <1>8, <2>1
    <2>3. ~(k < Len(x.need))
      BY <1>7, <1>9
    <2> HIDE DEF n
    <2>4. Contract!Given(s, n) = IF k = 0 THEN 0 ELSE x.give[k]
      BY <1>7, <2>1, <2>2, <2>3, GivenIs
    <2>5. k # 0 => k > 0
      BY <1>7
    <2> QED
      BY <1>3, <1>7, <2>4, <2>5
  <1>11. s.end = "mark" /\ s.endAt = taken
    BY <1>6 DEF StreamOf
  <1> HIDE DEF s
  <1>12. [fed |-> taken, made |-> p.processedPos, stat |-> "FINISHED_WITH_MARK", ok |-> TRUE]
            \in Contract!DecodeToBuf(s, Called(asked.fed, asked.made), asked.amt, asked.dst)
    <2>1. asked.amt \in Nat /\ asked.dst \in Nat
      BY <1>1
    <2>2. p.processedPos = Contract!Given(s, n)
      BY <1>10
    <2> DEFINE met == TRUE
    <2>3. met <=> s.end = "mark" /\ s.endAt <= n
      BY <1>1, <1>11
    <2>4. met <=> ~(s.end = "bad" /\ s.endAt <= n)
      BY <1>11
    <2>5. taken = IF met THEN Contract!Larger(asked.fed, s.endAt) ELSE n
      BY <1>1, <1>11 DEF Contract!Larger
    <2>6. met \in BOOLEAN
      OBVIOUS
    <2> HIDE DEF met
    <2>7. [fed |-> taken, made |-> p.processedPos,
           stat |-> IF met THEN "FINISHED_WITH_MARK" ELSE "NEEDS_MORE_INPUT", ok |-> met]
             \in Contract!DecodeToBuf(s, Called(asked.fed, asked.made), asked.amt, asked.dst)
      BY <1>1, <1>5, <2>1, <2>2, <2>3, <2>4, <2>5, <2>6, RunsOut
    <2> QED
      BY <2>7 DEF met
  <1> QED
    BY <1>12 DEF Outcome, Outcomes, s, x

(* A call that has not brought the bytes that start the range decoder.      *)
LEMMA StartingAnswer ==
    ASSUME LzmaInv, Accounts, Returns, Waits, Starting
    PROVE  /\ Len(output') = 0 /\ ret.ok /\ ret.status = "NEEDS_MORE_INPUT"
           /\ Outcome(0, "NEEDS_MORE_INPUT") \in Outcomes
  <1> DEFINE x == Meaning(bytes)
             s == StreamOf(x)
             n == asked.fed + asked.amt
  <1>1. pc = "leave"
    BY DEF Returns, LeaveDecodeToDic
  <1>2. /\ ret.ok /\ output = << >> /\ p.dicPos = 0 /\ io.dicPos = 0
    BY <1>1, WaitsIs DEF WaitsAt
  <1>3. ret.status = "NEEDS_MORE_INPUT" /\ io.inSize = 0 /\ taken < RcInitSize
        /\ asked.fed <= taken
    BY <1>1 DEF Starting
  <1>4. Len(output') = 0
    <2>1. Len(output') = Len(output) + (p.dicPos - io.dicPos) /\ Len(output) = 0
      BY <1>2, OutputGrows DEF Returns
    <2> QED
      BY <1>2, <2>1
  <1>5. /\ asked.fed \in Nat /\ asked.made \in Nat /\ asked.amt \in Nat /\ asked.dst \in Nat
        /\ asked.made = 0 /\ 0 < asked.dst /\ taken = n /\ taken \in Nat
    <2>1. /\ asked.fed \in Nat /\ asked.made \in Nat
          /\ asked.amt \in Nat \ {0} /\ asked.dst \in Nat \ {0}
          /\ taken + io.inSize = n /\ asked.made <= Len(output)
      BY <1>1 DEF Accounts
    <2>2. taken \in Nat /\ Len(output) = 0
      BY <1>2, FollowsTypes
    <2> QED
      BY <1>3, <2>1, <2>2
  <1>6. bytes \in Seq(Bytes)
    BY FollowsTypes
  <1>7. Ordered(x)
    BY <1>6, MeaningOrdered
  <1> HIDE DEF x
  <1>8. Len(x.need) \in Nat /\ RcInitSize \in Nat
        /\ \A i \in 1 .. Len(x.need) : x.need[i] \in Nat
    BY <1>7, OrderedAscends, DecoderAssumption
  <1>9. Contract!Given(s, taken) = 0
    <2>1. 0 < Len(x.need) => taken < x.need[0 + 1]
      <3> SUFFICES ASSUME 0 < Len(x.need) PROVE taken < x.need[1]
        OBVIOUS
      <3>1. 1 \in 1 .. Len(x.need)
        BY <1>8
      <3>2. RcInitSize <= x.need[1]
        BY <1>7, <3>1 DEF Ordered
      <3> QED
        BY <1>3, <1>5, <1>8, <3>1, <3>2
    <2>2. 0 \in 0 .. Len(x.need)
      BY <1>8
    <2> QED
      BY <1>5, <1>7, <2>1, <2>2, GivenIs
  <1>10. ~(s.end = "mark" /\ s.endAt <= n) /\ ~(s.end = "bad" /\ s.endAt <= n)
    <2>1. s.end = x.end /\ s.endAt = x.endAt
      BY DEF StreamOf
    <2>2. x.endAt \in Nat /\ (x.end # "none" => RcInitSize <= x.endAt)
      BY <1>7 DEF Ordered
    <2>3. x.end # "none" => ~(x.endAt <= taken)
      BY <1>3, <1>5, <1>8, <2>2
    <2> QED
      BY <1>5, <2>1, <2>3
  <1> HIDE DEF s
  <1>11. [fed |-> taken, made |-> 0, stat |-> "NEEDS_MORE_INPUT", ok |-> TRUE]
            \in Contract!DecodeToBuf(s, Called(asked.fed, asked.made), asked.amt, asked.dst)
    <2>1. taken <= n
      BY <1>5
    <2>2. 0 = Contract!Given(s, n)
      BY <1>5, <1>9
    <2> DEFINE met == FALSE
               fine == TRUE
    <2>3. met <=> s.end = "mark" /\ s.endAt <= n
      BY <1>10
    <2>4. fine <=> ~(s.end = "bad" /\ s.endAt <= n)
      BY <1>10
    <2>5. taken = IF met THEN Contract!Larger(asked.fed, s.endAt) ELSE n
      BY <1>5
    <2>6. met \in BOOLEAN /\ fine \in BOOLEAN /\ 0 \in Nat /\ asked.made <= 0
          /\ 0 < asked.made + asked.dst
      BY <1>5
    <2> HIDE DEF met, fine
    <2>7. [fed |-> taken, made |-> 0,
           stat |-> IF met THEN "FINISHED_WITH_MARK" ELSE "NEEDS_MORE_INPUT", ok |-> fine]
             \in Contract!DecodeToBuf(s, Called(asked.fed, asked.made), asked.amt, asked.dst)
      BY <1>3, <1>5, <2>1, <2>2, <2>3, <2>4, <2>5, <2>6, RunsOut
    <2> QED
      BY <2>7 DEF met, fine
  <1> QED
    BY <1>2, <1>3, <1>4, <1>11 DEF Outcome, Outcomes, s, x

(* A call that refuses what it has met.                                     *)
LEMMA BrokenAnswer ==
    ASSUME LzmaInv, Accounts, Returns, BrokenOff(Meaning(bytes))
    PROVE  \E o \in Outcomes : ~o.ok
  <1> DEFINE x == Meaning(bytes)
             k == Len(x.need)
             s == StreamOf(x)
             n == asked.fed + asked.amt
             given == Len(x.text)
  <1>1. pc = "leave"
    BY DEF Returns, LeaveDecodeToDic
  <1>2. /\ x.end = "bad" /\ x.endAt <= n
        /\ given < asked.made + asked.dst /\ asked.made <= given
    BY <1>1 DEF BrokenOff
  <1>3. /\ asked.fed \in Nat /\ asked.made \in Nat /\ asked.amt \in Nat /\ asked.dst \in Nat
    BY <1>1 DEF Accounts
  <1>4. bytes \in Seq(Bytes)
    BY FollowsTypes
  <1>5. Ordered(x)
    BY <1>4, MeaningOrdered
  <1> HIDE DEF x
  <1>6. /\ x.text \in Seq(Letters) /\ x.endAt \in Nat
        /\ \A i \in 1 .. k : x.end # "none" => x.need[i] <= x.endAt
        /\ k = 0 => x.text = << >>
        /\ k # 0 => x.give[k] = given
    BY <1>5 DEF Ordered
  <1>7. k \in Nat /\ (\A i \in 1 .. k : x.need[i] \in Nat) /\ given \in Nat /\ n \in Nat
        /\ Len(<< >>) = 0
    BY <1>3, <1>5, <1>6, OrderedAscends, LenProperties
  <1>8. Contract!Given(s, n) = given
    <2>1. k > 0 => x.need[k] <= n
      <3> SUFFICES ASSUME k > 0 PROVE x.need[k] <= n
        OBVIOUS
      <3>1. k \in 1 .. k
        BY <1>7
      <3>2. x.need[k] <= x.endAt /\ x.need[k] \in Nat
        BY <1>2, <1>6, <1>7, <3>1
      <3> HIDE DEF n, k
      <3> QED
        BY <1>2, <1>6, <1>7, <3>2
    <2>2. k \in 0 .. Len(x.need) /\ ~(k < Len(x.need))
      BY <1>7
    <2> HIDE DEF n
    <2>3. Contract!Given(s, n) = IF k = 0 THEN 0 ELSE x.give[k]
      BY <1>5, <1>7, <2>1, <2>2, GivenIs
    <2>4. k = 0 => given = 0
      BY <1>6, <1>7
    <2> QED
      BY <1>6, <2>3, <2>4
  <1>9. s.end = "bad" /\ s.endAt <= n
    BY <1>2 DEF StreamOf
  <1> HIDE DEF s, given
  <1> DEFINE met == FALSE
  <1>10. [fed |-> n, made |-> given,
          stat |-> IF met THEN "FINISHED_WITH_MARK" ELSE "NEEDS_MORE_INPUT", ok |-> met]
            \in Contract!DecodeToBuf(s, Called(asked.fed, asked.made), asked.amt, asked.dst)
    <2>1. n \in Nat /\ asked.fed <= n /\ n <= n
      BY <1>3
    <2>2. given = Contract!Given(s, n)
      BY <1>8
    <2>3. met <=> s.end = "mark" /\ s.endAt <= n
      BY <1>9
    <2>4. met <=> ~(s.end = "bad" /\ s.endAt <= n)
      BY <1>9
    <2>5. n = IF met THEN Contract!Larger(asked.fed, s.endAt) ELSE n
      OBVIOUS
    <2>6. met \in BOOLEAN
      OBVIOUS
    <2> HIDE DEF met
    <2> QED
      BY <1>2, <1>3, <1>7, <2>1, <2>2, <2>3, <2>4, <2>5, <2>6, RunsOut
  <1> QED
    BY <1>10 DEF Outcomes, s, x

(* The answer of a decoder that follows a reading.                          *)
LEMMA FollowingAnswer ==
    ASSUME LzmaInv, Accounts, Returns, NEW m, Follows(m), Serves(m)
    PROVE  ret.ok /\ Outcome(Len(output'), ret.status) \in Outcomes
  <1>1. /\ Len(output') = p.processedPos /\ Answers(m) /\ ret.status \in Statuses /\ ret.ok
    BY Accounted
  <1>2. ret.status \in {"NOT_FINISHED", "NEEDS_MORE_INPUT", "FINISHED_WITH_MARK"}
    BY <1>1 DEF Answers, Statuses
  <1>3. Outcome(p.processedPos, ret.status) \in Outcomes
    BY <1>2, FilledAnswer, HungryAnswer, MarkedAnswer
  <1> QED
    BY <1>1, <1>3

(* Every return is one that the contract allows.                            *)
LEMMA ReturnIsAllowed ==
    ASSUME LzmaInv, OutputInv, ServesInv, meaning # NotDelivered, Returns
    PROVE  \/ ret.ok /\ Outcome(Len(output'), ret.status) \in Outcomes
           \/ ~ret.ok /\ \E o \in Outcomes : ~o.ok
  <1>1. /\ meaning = Meaning(bytes) /\ Accounts
        /\ \/ Waits /\ Starting
           \/ \E m : Served(m)
           \/ GivesUp(meaning.text) /\ BrokenOff(meaning)
    BY DEF OutputInv, ServesInv
  <1>2. CASE Waits /\ Starting
    BY <1>1, <1>2, StartingAnswer
  <1>3. CASE \E m : Served(m)
    BY <1>1, <1>3, FollowingAnswer DEF Served
  <1>4. CASE GivesUp(meaning.text) /\ BrokenOff(meaning)
    <2>1. ~ret.ok
      BY <1>4 DEF GivesUp
    <2>2. BrokenOff(Meaning(bytes))
      BY <1>1, <1>4 DEF BrokenOff
    <2> QED
      BY <1>1, <2>1, <2>2, BrokenAnswer
  <1> QED
    BY <1>1, <1>2, <1>3, <1>4

(* The contract's steps: the bytes arrive, ...                              *)
LEMMA ArriveMaps ==
    ASSUME LzmaInv, LzmaInv', OutputInv, OutputInv', Deliver
    PROVE  Contract!Arrive
  <1>1. /\ meaning = NotDelivered /\ meaning' # NotDelivered /\ meaning' = Meaning(bytes')
        /\ UNCHANGED <<taken, output, p, pc, asked, ret>>
    BY DeliverServes
  <1>2. bytes' \in Seq(Bytes)
    BY DEF LzmaInv, InputInv
  <1>3. StreamOf(meaning') \in Contract!Streams /\ Contract!WellFormed(StreamOf(meaning'))
    BY <1>1, <1>2, MeaningIsStream
  <1> QED
    BY <1>1, <1>3 DEF Contract!Arrive, StreamOf

(* ... a call begins, ...                                                   *)
LEMMA AskMaps ==
    ASSUME LzmaInv, OutputInv, Ask
    PROVE  Contract!Ask
  <1>1. meaning # NotDelivered /\ meaning = Meaning(bytes) /\ meaning' = meaning
    BY ServiceSteps
  <1>2. PICK amt \in Nat \ {0}, dst \in Nat \ {0} : Call(amt, dst)
    <2>1. Decoding \/ \E amt, dst \in Nat \ {0} : Call(amt, dst)
      BY ServiceSteps
    <2>2. pc = "idle"
      BY DEF Ask, Call
    <2>3. ~Decoding
      BY <2>2 DEF Decoding, EnterDecodeToDic, MarkMet, StartRangeDecoder, LimitMet, Ready,
                  DecodeFromSource, DecodeFromTemp, DecodeSymbol, StoreReal, LeaveDecodeToDic
    <2> QED
      BY <2>1, <2>3
  <1>3. /\ pc = "idle" /\ ret.ok /\ pc' = "toBuf" /\ UNCHANGED <<taken, output, ret>>
        /\ asked' = [fed |-> taken, made |-> Len(output), amt |-> amt, dst |-> dst]
    BY <1>2 DEF Call
  <1>4. asked'.fed = taken /\ asked'.made = Len(output) /\ asked'.amt = amt
        /\ asked'.dst = dst
    BY <1>3
  <1>5. meaning.end # "unknown"
    <2>1. bytes \in Seq(Bytes)
      BY FollowsTypes
    <2>2. Ordered(meaning)
      BY <1>1, <2>1, MeaningOrdered
    <2> QED
      BY <2>2 DEF Ordered
  <1> QED
    BY <1>1, <1>3, <1>4, <1>5 DEF Contract!Ask

(* ... and it returns, ...                                                  *)
LEMMA AnswerMaps ==
    ASSUME LzmaInv, OutputInv, ServesInv, meaning # NotDelivered, meaning' = meaning, Returns
    PROVE  Contract!Answer
  <1>1. /\ pc = "leave" /\ pc' = "idle" /\ UNCHANGED <<asked, taken, ret>>
    BY DEF Returns, LeaveDecodeToDic
  <1>2. meaning = Meaning(bytes)
    BY DEF OutputInv
  <1>3. Outcomes = Contract!DecodeToBuf(StreamOf(meaning),
                        [alloc |-> TRUE, fed |-> asked.fed, made |-> asked.made],
                        asked.amt, asked.dst)
    BY <1>2 DEF Outcomes, Called
  <1>4. \/ ret.ok /\ [fed |-> taken, made |-> Len(output'), stat |-> ret.status, ok |-> TRUE]
                        \in Outcomes
        \/ ~ret.ok /\ \E o \in Outcomes : ~o.ok
    BY ReturnIsAllowed DEF Outcome
  <1> HIDE DEF Outcomes
  <1> QED
    BY <1>1, <1>3, <1>4 DEF Contract!Answer, StreamOf

(* ... while all that lies in between is hidden from the caller.            *)
LEMMA ContractStep ==
    ASSUME LzmaInv, LzmaInv', OutputInv, OutputInv', ServesInv, [Next]_vars
    PROVE  [Contract!Next]_(Contract!cvars)
  <1>1. CASE CodeNext \/ Flush \/ CodeDecision \/ FlushRange \/ UNCHANGED vars
    <2>1. UNCHANGED <<taken, output, pc, asked, ret, meaning>>
      BY <1>1 DEF CodeNext, Flush, CodeDecision, FlushRange, vars, dvars
    <2> QED
      BY <2>1 DEF Contract!cvars
  <1>2. CASE Deliver
    BY <1>2, ArriveMaps DEF Contract!Next
  <1>3. CASE Ask
    BY <1>3, AskMaps DEF Contract!Next
  <1>4. CASE Decode /\ Returns
    <2>1. meaning # NotDelivered /\ meaning' = meaning
      BY <1>4, ServiceSteps
    <2> QED
      BY <1>4, <2>1, AnswerMaps DEF Contract!Next
  <1>5. CASE Decode /\ ~Returns
    <2>1. Decoding /\ meaning' = meaning
      BY <1>5 DEF Decode
    <2>2. pc # "idle" /\ pc' # "idle" /\ asked' = asked
      BY <1>5, <2>1 DEF Decoding, EnterDecodeToDic, MarkMet, StartRangeDecoder, LimitMet, Ready,
                  DecodeFromSource, DecodeFromTemp, DecodeSymbol, StoreReal, LeaveDecodeToDic,
                  Leave, EnterReal, SymbolDecoded, Returns
    <2> QED
      BY <2>1, <2>2 DEF Contract!cvars
  <1> QED
    BY <1>1, <1>2, <1>3, <1>4, <1>5 DEF Next

(* Seen from its caller, LzmaDec_DecodeToBuf does in one step what          *)
(* StreamDecoder says of it: what it takes, what it makes and the status it *)
(* leaves depend on the stream and on how much has been taken and made, not *)
(* on the pieces the stream came in, nor on tempBuf, remainLen or where the *)
(* dictionary has its end.                                                  *)
THEOREM RefinesContract == Spec => ImplementsContract
  <1>1. Init => Contract!Init
    BY DEF Init, DecoderInit, NoAsk, NotDelivered, Contract!Init
  <1>2. LzmaInv /\ LzmaInv' /\ OutputInv /\ OutputInv' /\ ServesInv /\ [Next]_vars
            => [Contract!Next]_(Contract!cvars)
    BY ContractStep
  <1> QED
    BY <1>1, <1>2, TransferKeepsLzma, OutputInvariant, ServesInvariant, PTL
        DEF Spec, ImplementsContract, Contract!Spec
=============================================================================
