--------------------------- MODULE MCMcElieceKem ---------------------------
(* A code of length 12 over a field of 16 elements that corrects 2 errors.  *)
(* The numbers of the permutation are 5 bits wide and sorted in integers of *)
(* 10, as the code sorts 32 bits in 64.                                     *)
EXTENDS McElieceKem

Bits(n) == {i \in 0 .. 3 : HasBit(n, 2 ^ i)}
ChainOf4 == <<<<1, 0>>, <<1, 0>>>>
Alpha3 == {3}
Linear == {1}

Seeds == 0 .. 39
Table == [n \in Seeds |->
  [s    |-> {i \in 0 .. 11 : HasBit(n * 77, 2 ^ i)},
   f    |-> [i \in 0 .. 1 |-> Bits((n * (5 - 2 * i) + 3 * i) % 16)],
   perm |-> [i \in 0 .. 15 |-> ((i * (n + 3)) + n) % (IF n % 5 = 0 THEN 15 ELSE 31)],
   next |-> (n + 1) % 40]]
First == {0, 15, 20}

AllDraws == {<<a, b, a2, b2>> : a \in 0 .. 15, b \in 0 .. 15, a2 \in {3, 14}, b2 \in {3, 5}}
All == SUBSET (0 .. 7)

(* The field of the code itself: every element of one or two bits times its *)
(* inverse is 1, and gf_sq squares.                                         *)
ChainOf12 == <<<<1, 0>>, <<2, 1>>, <<4, 2>>, <<2, 1>>, <<1, 0>>>>
Gf12 == INSTANCE Gf WITH GFBITS <- 12, Tap <- 3, InvChain <- ChainOf12,
                         SYS_T <- 64, ExtTaps <- {1, 3}, ExtConst <- {1}
ASSUME FieldOfTheCode ==
  \A i, j \in 0 .. 11 :
    /\ Gf12!gf_mul({i, j}, Gf12!gf_inv({i, j})) = Gf12!One
    /\ Gf12!gf_mul({i, j}, {i, j}) = Gf12!gf_sq({i, j})
=============================================================================
