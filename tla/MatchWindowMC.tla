-------------------------- MODULE MatchWindowMC ---------------------------
(* A window whose block holds Reserve = 2 bytes more than it must keep, over
   streams of up to 14 bytes: several block moves, several turns of the cyclic
   buffer and several normalisations happen.                                *)
EXTENDS MatchWindow

CONSTANTS h1, h2
MCHashes == {h1, h2}
=============================================================================
