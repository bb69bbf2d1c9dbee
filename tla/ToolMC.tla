------------------------------- MODULE ToolMC -------------------------------
(***************************************************************************)
(* A small instance of module Tool: integers of 8 values, and texts of the *)
(* lengths 0, 2, 6, 8 (read as 0) and 9 (read as 1).                       *)
(***************************************************************************)
EXTENDS Tool

A(arg) == [arg |-> arg, val |-> 0]
Dict(n) == [arg |-> "s", val |-> n]
Run(program, argv) == [program |-> program, argv |-> argv]

MCCommands == {
    Run("elzma", <<A("text")>>),
    Run("elzma", <<Dict(3), A("lzip"), A("text")>>),
    Run("elzma", <<Dict(0), A("k"), A("lzip"), A("lzma"), A("text")>>),
    Run("unelzma", <<A("text.lzma")>>),
    Run("elzma", <<A("d"), A("z"), A("k"), A("text.lz")>>),
    Run("unelzma", <<A("lzip"), A("text.lz")>>),
    Run("elzma", <<A("text"), A("k")>>) }
=============================================================================
