----------------------------- MODULE TransferMC -----------------------------
(***************************************************************************)
(* Messages small enough to follow byte by byte and varied enough to use   *)
(* every kind of symbol, wrap the dictionary and carry through the bytes   *)
(* the range encoder holds back.                                           *)
(***************************************************************************)
EXTENDS Transfer

Literal(b) == [pos |-> -1, len |-> 1, byte |-> b]
Match(distance, len) == [pos |-> distance + 3, len |-> len, byte |-> 0]
Rep(i, len) == [pos |-> i, len |-> len, byte |-> 0]

MCMessages ==
    { << >>,
      <<Literal(0), Literal(0), Literal(1), Literal(1), Literal(1), Match(1, 2), Literal(0)>>,
      <<Literal(1), Match(1, 3), Literal(2), Match(4, 2), Rep(1, 4), Rep(0, 1), Literal(0)>>,
      <<Literal(2), Literal(0), Literal(3), Match(3, 2), Match(4, 2), Match(2, 2),
        Rep(3, 2), Rep(2, 6)>> }

MCAmounts == {1, 3, 7}
MCRooms == {1, 7}

(* The stream is cut, or some of it is something else.                      *)
MCDamaged(b) ==
    LET last == Base - 1 IN
    {SubSeq(b, 1, Len(b) - 3),
     [b EXCEPT ![1] = 1],
     [i \in DOMAIN b |-> IF i \in 2 .. RcInitSize THEN last ELSE b[i]]}
    \cup {[b EXCEPT ![i] = (@ + 1) % Base] : i \in {2, 7, 9} \cap DOMAIN b}
=============================================================================
