----------------------------- MODULE OptimumMC ------------------------------
(***************************************************************************)
(* All texts of two letters up to a length, and some longer ones, through  *)
(* every match finder and both parsers.                                    *)
(***************************************************************************)
EXTENDS Optimum

CONSTANT Length

MCTexts == {t \in [0 .. Length - 1 -> 0 .. 1] : t[0] = 0}

Finder(bt, bytes, cut) == [btMode |-> bt, numHashBytes |-> bytes, cutValue |-> cut]

MCSettings ==
    {[mf |-> Finder(TRUE, 4, 9), fast |-> FALSE, prices |-> 1],
     [mf |-> Finder(TRUE, 4, 1), fast |-> FALSE, prices |-> 2],
     [mf |-> Finder(TRUE, 3, 9), fast |-> FALSE, prices |-> 3],
     [mf |-> Finder(TRUE, 2, 9), fast |-> FALSE, prices |-> 1],
     [mf |-> Finder(FALSE, 4, 9), fast |-> FALSE, prices |-> 2],
     [mf |-> Finder(FALSE, 4, 9), fast |-> TRUE, prices |-> 1],
     [mf |-> Finder(TRUE, 2, 9), fast |-> TRUE, prices |-> 1]}

(* Literals are dear, repetitions cheap, and all of it depends on the place.*)
MCPrice(kind, sym, place) ==
    LET noise == (kind * (place + 1) * (sym.len + 2) + sym.pos) % 3
    IN  noise + (IF sym.pos = -1 THEN 3 + kind
                 ELSE IF sym.pos < 4 THEN (IF sym.len = 1 THEN 6 ELSE 2 + sym.pos + kind)
                 ELSE 2 + (sym.pos \div 3) + 2 * (3 - kind))
=============================================================================
