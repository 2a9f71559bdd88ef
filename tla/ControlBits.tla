---------------------------- MODULE ControlBits ----------------------------
(***************************************************************************)
(* Permutations in the McEliece code: the sorting network that turns       *)
(* random numbers into a permutation (uint64_sort.h), the control bits     *)
(* that describe it (controlbits.c), and the Benes network that applies    *)
(* them, bit-sliced (benes.c, transpose.c).  The control bits are the set  *)
(* of the positions that hold a 1.                                         *)
(***************************************************************************)
EXTENDS Integers, SequencesExt, FiniteSets, TLC

CONSTANTS
  HalfBits,    (* 6: a word has 2^HalfBits bits, a permutation their square *)
  NarrowBits,  (* 10: permutations of so many bits pack three to an integer *)
  Word,        (* 64: bits of the integers that are sorted                  *)
  IndexShift   (* 31: bits below the random number in them                  *)

ASSUME PermutationAssumption ==
  /\ HalfBits \in Nat \ {0} /\ NarrowBits \in Nat
  /\ Word \in Nat /\ IndexShift \in Nat /\ 2 * HalfBits <= IndexShift

Size == 2 ^ (2 * HalfBits)     (* 1 << GFBITS *)
-----------------------------------------------------------------------------
(* uint64_sort.                                                             *)

(* uint64_MINMAX looks at the sign of a difference modulo 2^64.             *)
MinMax(x, a, b) ==
  LET swap == (x[b] - x[a]) % 2 ^ Word >= 2 ^ (Word - 1)
  IN  IF swap THEN [x EXCEPT ![a] = x[b], ![b] = x[a]] ELSE x

Powers(n) == {2 ^ k : k \in {j \in 0 .. n : 2 ^ j < n}}
HasBit(i, p) == (i \div p) % 2 = 1

(* The comparators of one p, in their order: first those at distance p,     *)
(* then for every i a chain that starts at the largest q that still fits.   *)
Chain(n, p, i) ==
  LET qs == {q \in Powers(n) : p < q /\ i < n - q}
  IN  [k \in 1 .. Cardinality(qs) |-> <<i + p, i + p * 2 ^ (Cardinality(qs) + 1 - k)>>]
Without(n, p) == SelectSeq([i \in 1 .. n - p |-> i - 1], LAMBDA i : ~HasBit(i, p))
Comparators(n, p) ==
  [k \in DOMAIN Without(n, p) |-> <<Without(n, p)[k], Without(n, p)[k] + p>>]
    \o FlattenSeq([k \in DOMAIN Without(n, p) |-> Chain(n, p, Without(n, p)[k])])

uint64_sort(x) ==
  LET n == Cardinality(DOMAIN x)
      exponents == Cardinality(Powers(n))
      network == FlattenSeq([k \in 1 .. exponents |-> Comparators(n, 2 ^ (exponents - k))])
      sorted[y \in [DOMAIN x -> Int], k \in 0 .. Len(network)] ==
        IF k = Len(network) THEN y
        ELSE sorted[MinMax(y, network[k + 1][1], network[k + 1][2]), k + 1]
  IN  sorted[x, 0]

(* The keys pk_gen sorts, and the permutation it reads from them, or        *)
(* NoPermutation if two random numbers are equal.                           *)
NoPermutation == <<>>
KeysShifted(perm) == [i \in 0 .. Size - 1 |-> perm[i] * 2 ^ (IndexShift + 1) + i]
Keys(perm) == [i \in 0 .. Size - 1 |-> perm[i] * 2 ^ IndexShift + i]

PermutationOf(perm) ==
  LET buf == uint64_sort(Keys(perm)) IN
  IF \E i \in 1 .. Size - 1 : buf[i - 1] \div 2 ^ IndexShift = buf[i] \div 2 ^ IndexShift
  THEN NoPermutation
  ELSE [i \in 0 .. Size - 1 |-> buf[i] % Size]
-----------------------------------------------------------------------------
(* controlbitsfrompermutation.                                              *)

(* int32_sort of key << 16 | value, where the keys are 0 .. n - 1 in some   *)
(* order: the values in the order of the keys.                              *)
Sorted(keys, values) ==
  LET packed == [x \in 1 .. Cardinality(DOMAIN keys) |-> <<keys[x - 1], values[x - 1]>>]
      sorted == SortSeq(packed, LAMBDA a, b : a[1] < b[1])
  IN  [x \in DOMAIN keys |-> sorted[x + 1][2]]

Least(a, b) == IF a < b THEN a ELSE b
Partner(x) == IF x % 2 = 0 THEN x + 1 ELSE x - 1
Identity(pi) == [x \in DOMAIN pi |-> x]
LeastOf(c, d) == [x \in DOMAIN c |-> Least(c[x], d[x])]

(* The first of each cycle of pibar^2 that the doubling has reached, for    *)
(* every element.  Permutations of more than NarrowBits bits are squared    *)
(* only when another round follows.                                         *)
CycleLeaders(pi, w) ==
  LET pibar == Sorted([x \in DOMAIN pi |-> Partner(pi[x])], [x \in DOMAIN pi |-> pi[Partner(x)]])
      inverse == Sorted(pibar, Identity(pi))
      round[i \in 0 .. w - 2] ==
        IF i = 0 THEN [p |-> Sorted(inverse, pibar), c |-> LeastOf(pibar, Identity(pi))]
        ELSE LET before == round[i - 1]
                 p == before.p
                 c == before.c
                 pInverse == Sorted(p, Identity(p))
             IN  [p |-> IF w <= NarrowBits \/ i < w - 2 THEN Sorted(pInverse, p) ELSE p,
                  c |-> LeastOf(c, Sorted(pInverse, c))]
  IN  round[w - 2].c

(* cbrecursion(pos, step, pi, w): the control bits of pi, a permutation of  *)
(* 2^w numbers, at pos, pos + step, ...  A call sets those of its first and *)
(* its last layer, and calls itself for the layers between.                 *)
Call(pos, step, pi) == [pos |-> pos, step |-> step, pi |-> pi]

FirstLayer(pi, w) ==
  LET c == CycleLeaders(pi, w)
  IN  [x \in DOMAIN pi |-> IF c[2 * (x \div 2)] % 2 = 1 THEN Partner(x) ELSE x]
Between(pi, F) == Sorted(Sorted(pi, Identity(pi)), F)
LastLayer(Fpi) ==
  [y \in DOMAIN Fpi |-> IF Fpi[2 * (y \div 2)] % 2 = 1 THEN Partner(y) ELSE y]

OwnBits(call, w) ==
  LET half == 2 ^ (w - 1)
      F    == FirstLayer(call.pi, w)
      L    == LastLayer(Between(call.pi, F))
      last == call.pos + (2 * w - 2) * call.step * half
      exchanged(X) == {j \in 0 .. half - 1 : X[2 * j] # 2 * j}
  IN  IF w = 1 THEN IF call.pi[0] = 1 THEN {call.pos} ELSE {}
      ELSE {call.pos + j * call.step : j \in exchanged(F)} \cup {last + j * call.step : j \in exchanged(L)}

InnerCalls(call, w) ==
  LET half == 2 ^ (w - 1)
      Fpi  == Between(call.pi, FirstLayer(call.pi, w))
      M    == Sorted(LastLayer(Fpi), Fpi)
      q(b) == [j \in 0 .. half - 1 |-> M[2 * j + b] \div 2]
  IN  {Call(call.pos + (half + b) * call.step, 2 * call.step, q(b)) : b \in {0, 1}}

(* The bits that are set, and the calls that are left, after those for more *)
(* than 2^v numbers.                                                        *)
cbrecursion(pos, step, pi, w) ==
  LET after[v \in 0 .. w] ==
        IF v = w THEN [bits |-> {}, calls |-> {Call(pos, step, pi)}]
        ELSE LET before == after[v + 1]
             IN  [bits  |-> before.bits \cup UNION {OwnBits(c, v + 1) : c \in before.calls},
                  calls |-> IF v = 0 THEN {}
                            ELSE UNION {InnerCalls(c, v + 1) : c \in before.calls}]
  IN  after[0].bits

(* layer of controlbits.c: elements at distance 2^s are exchanged if their  *)
(* control bit, counted from the layer's first, is set.                     *)
PairIndex(x, s) == (2 ^ s * (x \div 2 ^ (s + 1))) + (x % 2 ^ s)
Across(x, s) == IF HasBit(x, 2 ^ s) THEN x - 2 ^ s ELSE x + 2 ^ s
Exchange(p, bits, first, s) ==
  [x \in DOMAIN p |-> p[IF first + PairIndex(x, s) \in bits THEN Across(x, s) ELSE x]]

(* The distances of the layers: 2^0, ..., 2^(w - 1), ..., 2^0.              *)
LayerBits(w) == [l \in 1 .. 2 * w - 1 |-> IF l <= w THEN l - 1 ELSE 2 * w - 1 - l]

(* What controlbitsfrompermutation computes to check its result, and        *)
(* computes again for ever if it is wrong.                                  *)
Applied(bits, w) ==
  FoldLeft(LAMBDA p, l : Exchange(p, bits, (l - 1) * 2 ^ (w - 1), LayerBits(w)[l]),
           [i \in 0 .. 2 ^ w - 1 |-> i], [l \in 1 .. 2 * w - 1 |-> l])

controlbits(pi) == cbrecursion(0, 1, pi, 2 * HalfBits)
-----------------------------------------------------------------------------
(* benes.c.  Data and condition bits are matrices of words: the set of the  *)
(* pairs of a word and a bit of it that is 1.                               *)
WordBits == 2 ^ HalfBits

transpose(m) == {<<b[2], b[1]>> : b \in m}

layer(data, cond, lgs) ==
  {<<IF <<PairIndex(b[1], lgs), b[2]>> \in cond THEN Across(b[1], lgs) ELSE b[1], b[2]>> :
     b \in data}

(* The condition bits of layer l: words (load8), or half words, transposed  *)
(* (load4).                                                                 *)
Cut(bits, l, n) ==
  LET of == {k \in 0 .. Size \div 2 - 1 : (l * Size) \div 2 + k \in bits}
  IN  {<<k \div n, k % n>> : k \in of}
ConditionAsWords(bits, l) == Cut(bits, l, WordBits)
Condition(bits, l) ==
  IF l \in HalfBits .. 3 * HalfBits - 2 THEN Cut(bits, l, WordBits)
  ELSE transpose(Cut(bits, l, WordBits \div 2))

(* The first and the last HalfBits layers work on the transposed data,      *)
(* those between on the data itself.                                        *)
apply_benes(r, bits) ==
  LET h == HalfBits
      pass(data, from, to) ==
        FoldLeft(LAMBDA d, l : layer(d, Condition(bits, l), LayerBits(2 * h)[l + 1] % h),
                 data, [k \in 1 .. to - from + 1 |-> from + k - 1])
  IN  transpose(pass(transpose(pass(transpose(pass(transpose(r), 0, h - 1)), h, 3 * h - 2)),
                     3 * h - 1, 4 * h - 2))
=============================================================================
