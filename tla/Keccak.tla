-------------------------------- MODULE Keccak --------------------------------
(***************************************************************************)
(* The permutation of SHA-3, KeccakF1600_StatePermute of                   *)
(* crypto/McEliece/common/fips202.c: 24 rounds, written out two at a time, *)
(* beside the rounds as the standard defines them.                         *)
(***************************************************************************)
EXTENDS Words

CONSTANTS
  Lanes           \* the states the permutation is applied to

VARIABLES
  lanes,          \* the state of the code: a tuple of 25 sets of bit numbers
  standard,       \* the state of the standard
  round           \* the rounds that are done

permuteVars == << lanes, standard, round >>

-------------------------------------------------------------------------------
(* KeccakF1600_StatePermute: a lane is the set of its bits; the state has   *)
(* lane 5 * y + x at position 5 * y + x + 1.                                *)

ROL(a, offset) == { (i + offset) % 64 : i \in a }

KeccakF_RoundConstants ==
  << {0}, {1, 7, 15}, {1, 3, 7, 15, 63}, {15, 31, 63}, {0, 1, 3, 7, 15}, {0, 31},
     {0, 7, 15, 31, 63}, {0, 3, 15, 63}, {1, 3, 7}, {3, 7}, {0, 3, 15, 31}, {1, 3, 31},
     {0, 1, 3, 7, 15, 31}, {0, 1, 3, 7, 63}, {0, 3, 7, 15, 63}, {0, 1, 15, 63},
     {1, 15, 63}, {7, 63}, {1, 3, 15}, {1, 3, 31, 63}, {0, 7, 15, 31, 63}, {7, 15, 63},
     {0, 31}, {3, 15, 31, 63} >>

\* The lane that each line of a round reads and by how much it is rotated.
Lines ==
  << << << 0, 0>>, << 6, 44>>, <<12, 43>>, <<18, 21>>, <<24, 14>> >>,
     << << 3, 28>>, << 9, 20>>, <<10, 3>>, <<16, 45>>, <<22, 61>> >>,
     << << 1, 1>>, << 7, 6>>, <<13, 25>>, <<19, 8>>, <<20, 18>> >>,
     << << 4, 27>>, << 5, 36>>, <<11, 10>>, <<17, 15>>, <<23, 56>> >>,
     << << 2, 62>>, << 8, 55>>, <<14, 39>>, <<15, 41>>, <<21, 2>> >> >>

Tuple25(f) == SubSeq([ i \in 1 .. 25 |-> f[i - 1] ], 1, 25)

\* One round, written out for A into E and for E into A.
HalfRound(A, rc) ==
  LET BC == SubSeq([ x \in 1 .. 5 |->
              Xor(Xor3(A[x], A[x + 5], A[x + 10]), Xor(A[x + 15], A[x + 20])) ], 1, 5)
      D == SubSeq([ x \in 1 .. 5 |->
              Xor(BC[((x + 3) % 5) + 1], ROL(BC[(x % 5) + 1], 1)) ], 1, 5)
      BCrow(y) == SubSeq([ x \in 1 .. 5 |->
                    LET line == Lines[y + 1][x]
                    IN ROL(Xor(A[line[1] + 1], D[(line[1] % 5) + 1]), line[2]) ], 1, 5)
      rows == << BCrow(0), BCrow(1), BCrow(2), BCrow(3), BCrow(4) >>
      E(i) == LET y == i \div 5
                  x == i % 5
                  B == rows[y + 1]
              IN Xor(B[x + 1], B[((x + 2) % 5) + 1] \ B[((x + 1) % 5) + 1])
  IN Tuple25([ i \in 0 .. 24 |-> IF i = 0 THEN Xor(E(0), rc) ELSE E(i) ])

\* The loop's body: two rounds.
KeccakF1600_StatePermute ==
  /\ round < 24
  /\ lanes' = HalfRound(HalfRound(lanes, KeccakF_RoundConstants[round + 1]),
                        KeccakF_RoundConstants[round + 2])

(* The standard's round (FIPS 202): theta, rho, pi, chi, iota, with the     *)
(* offsets and the constants computed as the standard defines them.         *)
At(A, x, y) == A[(5 * (y % 5)) + (x % 5) + 1]
EachLane(Op(_, _)) == SubSeq([ i \in 1 .. 25 |-> Op((i - 1) % 5, (i - 1) \div 5) ], 1, 25)

Offsets ==
  LET walk[t \in 0 .. 23] ==
        IF t = 0 THEN << 1, 0 >>
        ELSE LET p == walk[t - 1] IN << p[2], ((2 * p[1]) + (3 * p[2])) % 5 >>
  IN [ x \in 0 .. 4, y \in 0 .. 4 |->
        IF x = 0 /\ y = 0 THEN 0
        ELSE LET t == CHOOSE n \in 0 .. 23 : walk[n] = << x, y >>
             IN (((t + 1) * (t + 2)) \div 2) % 64 ]

theta(A) ==
  LET column(x) == Xor(Xor3(At(A, x, 0), At(A, x, 1), At(A, x, 2)),
                       Xor(At(A, x, 3), At(A, x, 4)))
      effect == [ x \in 0 .. 4 |-> Xor(column(x + 4), ROL(column(x + 1), 1)) ]
      lane(x, y) == Xor(At(A, x, y), effect[x])
  IN EachLane(lane)

rho(A) == LET lane(x, y) == ROL(At(A, x, y), Offsets[x, y]) IN EachLane(lane)

pi(A) == LET lane(x, y) == At(A, x + (3 * y), x) IN EachLane(lane)

chi(A) == LET lane(x, y) == Xor(At(A, x, y), At(A, x + 2, y) \ At(A, x + 1, y))
          IN EachLane(lane)

\* The bits of the shift register whose output the round constants are.
Register ==
  LET Next(R) == LET shifted == { b + 1 : b \in R }
                 IN IF 8 \in shifted THEN Xor(shifted \ {8}, {0, 4, 5, 6}) ELSE shifted
      after[R \in SUBSET (0 .. 7), n \in 0 .. 168] ==
        CASE n = 0 -> R
          [] n = 1 -> Next(R)
          [] OTHER -> after[after[R, n \div 2], n - (n \div 2)]
  IN { t \in 0 .. 167 : 0 \in after[{0}, t] }

iota(A, n) ==
  [ A EXCEPT ![1] = Xor(@, { (2^j) - 1 : j \in { k \in 0 .. 5 : k + (7 * n) \in Register } }
                           \cup IF 6 + (7 * n) \in Register THEN {63} ELSE {}) ]

StandardRound(A, n) == iota(chi(pi(rho(theta(A)))), n)

PermuteInit == lanes \in Lanes /\ standard = lanes /\ round = 0

TwoRounds ==
  /\ KeccakF1600_StatePermute
  /\ standard' = StandardRound(StandardRound(standard, round), round + 1)
  /\ round' = round + 2

PermuteNext == TwoRounds

\* After every pair of rounds the state is the one the standard's rounds give.
PermutationAgrees == lanes = standard
===============================================================================
