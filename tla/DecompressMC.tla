---------------------------- MODULE DecompressMC ----------------------------
(* Files of at most seven bytes after the header: a literal, a match of three
   bytes that the output limit cuts, an end mark of two, a footer of two; and
   the ways a file can be short, wrong or without end mark.                  *)
EXTENDS Decompress

Symbols(end) ==
    [need |-> <<2, 3>>, give |-> <<1, 4>>, end |-> end, endAt |-> 5]

Lzip(len, fcrc, fsize) ==
    [stream |-> Symbols("mark"), format |-> "lzip", header |-> "good",
     streamed |-> TRUE, size |-> 0, len |-> len, fcrc |-> fcrc, fsize |-> fsize]

Lzma(end, len, streamed, size) ==
    [stream |-> Symbols(end), format |-> "lzma", header |-> "good",
     streamed |-> streamed, size |-> size, len |-> len, fcrc |-> 0, fsize |-> 0]

GoodLzip  == Lzip(7, 4, 4)
CutFooter == Lzip(5, 4, 4)
EmptyLzip ==
    [Lzip(5, 0, 0) EXCEPT
        !.stream = [need |-> <<>>, give |-> <<>>, end |-> "mark", endAt |-> 3]]
Marked    == Lzma("mark", 5, TRUE, 0)
Unmarked  == Lzma("none", 3, FALSE, 4)

LzipFiles ==
    {GoodLzip, CutFooter, EmptyLzip, Lzip(4, 4, 4), Lzip(6, 4, 4),
     Lzip(7, 7, 4), Lzip(7, 4, 7),
     [GoodLzip EXCEPT !.stream = Symbols("bad")],
     [GoodLzip EXCEPT !.header = "corrupt"]}

LzmaFiles ==
    {Marked, Unmarked, Lzma("mark", 3, TRUE, 0), Lzma("none", 2, FALSE, 4),
     Lzma("none", 3, FALSE, 3), Lzma("none", 0, FALSE, 0), Lzma("mark", 5, FALSE, 4),
     Lzma("mark", 5, FALSE, 9), Lzma("bad", 5, TRUE, 0),
     [Marked EXCEPT !.header = "cut"], [Marked EXCEPT !.format = "other"]}

AllFiles == LzipFiles \cup LzmaFiles
OneGoodLzip == {GoodLzip}
CutAfterGood == {GoodLzip, CutFooter}
OneUnmarked == {Unmarked}
OneMarked == {Marked}
=============================================================================
