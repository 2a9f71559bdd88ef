------------------------- MODULE MCVersatMcEliece -------------------------
(* Four rows of five columns, made of six different rows in all ways.      *)
EXTENDS VersatMcEliece

SomeRows == {{0, 4}, {0, 1, 2}, {1, 3, 4}, {2, 3}, {0, 3},
             {1, 2, 3, 4}}
All  == [0 .. 3 -> SomeRows]
Next2 ==
  {[r \in 0 .. 3 |-> {r, 4}], [r \in 0 .. 3 |-> IF r = 3 THEN {0, 3} ELSE {r, r + 1}],
   [r \in 0 .. 3 |-> {3 - r}]}
=============================================================================
