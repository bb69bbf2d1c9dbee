----------------------------- MODULE CompressMC -----------------------------
(* Inputs of up to four bytes in blocks of two or more: up to two blocks and
   two runs, and a range coder buffer of three that fills within a block.    *)
EXTENDS Compress

MCSizes == {0, 3}
=============================================================================
