----------------------------- MODULE MCKMalloc -----------------------------
(* The last three orders of the table sizes[], and a few pages. *)
EXTENDS KMalloc

CONSTANTS g1, g2, g3

Blocksize3 == <<1020, 2040, 4080>>
Nblocks3 == <<4, 2, 1>>
=============================================================================
