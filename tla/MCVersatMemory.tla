--------------------------- MODULE MCVersatMemory ---------------------------
(* Three or four pages of 8 bytes.  A maxBlockSize of a page and one of two *)
(* pages: memory runs out, and the halving succeeds or fails depending on   *)
(* what the other process holds and what failed mappings have lost.         *)
EXTENDS VersatMemory

CONSTANTS p1, p2
=============================================================================
