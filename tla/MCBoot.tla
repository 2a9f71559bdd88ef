------------------------------- MODULE MCBoot -------------------------------
(* Subsectors of four bytes and ints of two; files of up to two subsectors, *)
(* with and without a last word that is not full.  A list may be the        *)
(* beginning of another, or load its files from the highest address down.   *)
EXTENDS Boot, TLC

A == <<"f", "w">>
B == <<"r">>
Entry(name, digits) == [name |-> name, digits |-> digits]

SomeLists ==
  {<<Entry(A, <<"0">>)>>,
   <<Entry(A, <<"0">>), Entry(B, <<"A">>)>>,
   <<Entry(A, <<"1", "2">>), Entry(B, <<"c">>)>>}
SomeSizes == {(A :> 3 @@ B :> 5), (A :> 5 @@ B :> 2), (A :> 4 @@ B :> 0)}
=============================================================================
