------------------------------- MODULE Goppa -------------------------------
(***************************************************************************)
(* The code of McEliece: secret and public key from random data            *)
(* (sk_gen.c, pk_gen.c), syndrome, error locator and decryption (encrypt.c,*)
(* synd.c, bm.c, decrypt.c).  A bit vector is the set of its positions     *)
(* that hold a 1, a matrix a function from row numbers to such sets.       *)
(***************************************************************************)
EXTENDS Gf, ControlBits, Systematic

(* SYS_N is 3488, PK_NROWS 768 (params.h).                                  *)
ASSUME CodeAssumption ==
  /\ GFBITS = 2 * HalfBits /\ SYS_N <= Size
  /\ PK_NROWS = SYS_T * GFBITS

bitrev(a) == {i \in 0 .. GFBITS - 1 : HasBit(a, 2 ^ (GFBITS - 1 - i))}
-----------------------------------------------------------------------------
(* genpoly_gen: the minimal polynomial of f, or NoPolynomial.  mat[c] is    *)
(* the c-th power of f; columns are combined until the first SYS_T powers   *)
(* are the unit vectors, and the last one is what it is in their terms.     *)
NoPolynomial == <<>>

PowersOf(f) ==
  LET mat[c \in 0 .. SYS_T] ==
        IF c = 0 THEN [i \in 0 .. SYS_T - 1 |-> IF i = 0 THEN One ELSE Zero]
        ELSE IF c = 1 THEN f ELSE GF_mul(mat[c - 1], f)
  IN  mat

(* While the diagonal entry is zero, the next column is added.              *)
WithPivot(mat, j) ==
  LET added[k \in j .. SYS_T - 1] ==
        IF k = j THEN mat
        ELSE LET m == added[k - 1] IN
             IF m[j][j] # Zero THEN m
             ELSE [c \in 0 .. SYS_T |->
                     IF c < j THEN m[c] ELSE [m[c] EXCEPT ![j] = gf_add(m[c][j], m[c][k])]]
  IN  added[SYS_T - 1]

Eliminated(mat, j) ==
  LET inv == gf_inv(mat[j][j])
      scaled(c) == gf_mul(mat[c][j], inv)
  IN  [c \in 0 .. SYS_T |->
         IF c < j THEN mat[c]
         ELSE [k \in 0 .. SYS_T - 1 |->
                 IF k = j THEN scaled(c)
                 ELSE gf_add(mat[c][k], gf_mul(scaled(c), mat[j][k]))]]

genpoly_gen(f) ==
  LET after[j \in 0 .. SYS_T] ==
        IF j = 0 THEN PowersOf(f)
        ELSE LET before == after[j - 1] IN
             IF before = NoPolynomial THEN NoPolynomial
             ELSE LET mat == WithPivot(before, j - 1)
                  IN  IF mat[j - 1][j - 1] = Zero THEN NoPolynomial ELSE Eliminated(mat, j - 1)
      mat == after[SYS_T]
  IN  IF mat = NoPolynomial THEN NoPolynomial ELSE mat[SYS_T]

Monic(irr) == [i \in 0 .. SYS_T |-> IF i = SYS_T THEN One ELSE irr[i]]
-----------------------------------------------------------------------------
(* pk_gen: the matrix it fills, and what it returns of the reduced one.     *)
Support(pi) == [i \in 0 .. SYS_N - 1 |-> bitrev(pi[i])]

(* Row i GFBITS + k holds bit k of L^i / g(L).                              *)
ParityCheck(irr, pi) ==
  LET g == Monic(irr)
      L == Support(pi)
      over[i \in 0 .. SYS_T - 1] ==
        IF i = 0 THEN [j \in 0 .. SYS_N - 1 |-> gf_inv(eval(g, L[j]))]
        ELSE LET before == over[i - 1] IN [j \in 0 .. SYS_N - 1 |-> gf_mul(before[j], L[j])]
  IN  [row \in 0 .. PK_NROWS - 1 |->
         LET inv == over[row \div GFBITS]
         IN  {j \in 0 .. SYS_N - 1 : row % GFBITS \in inv[j]}]

NoMatrix == <<>>
PublicPart(mat) == [row \in 0 .. PK_NROWS - 1 |-> mat[row] \cap (PK_NROWS .. SYS_N - 1)]
-----------------------------------------------------------------------------
(* encrypt.c: the public key holds only what follows the identity matrix.   *)
syndrome(pk, e) == {i \in 0 .. PK_NROWS - 1 : Odd((pk[i] \cup {i}) \cap e)}

synd(f, L, r) ==
  LET first == [i \in r |-> LET e == eval(f, L[i]) IN gf_inv(gf_mul(e, e))]
      out[e_inv \in [r -> GF], j \in 0 .. 2 * SYS_T - 1] ==
        IF j = 0 THEN GfSum(e_inv) ELSE out[[i \in r |-> gf_mul(e_inv[i], L[i])], j - 1]
  IN  [j \in 0 .. 2 * SYS_T - 1 |-> out[first, j]]

(* What bm keeps between two discrepancies.                                 *)
Connections == [C : [0 .. SYS_T -> GF], B : [0 .. SYS_T -> GF], L : Nat, b : GF]

(* bm: Berlekamp-Massey.  A discrepancy d changes the connection polynomial *)
(* C; if C was short, its old value and d are what later changes use.       *)
bmShortOnly(s) ==
  LET Start == [C |-> [i \in 0 .. SYS_T |-> IF i = 0 THEN One ELSE Zero],
                B |-> [i \in 0 .. SYS_T |-> IF i = 1 THEN One ELSE Zero],
                L |-> 0, b |-> One]
      Step(st, N) ==
        LET d   == GfSum([i \in 0 .. Least(N, SYS_T) |-> gf_mul(st.C[i], s[N - i])])
            mne == d # Zero
            mle == mne /\ N > 2 * st.L
            f   == gf_frac(st.b, d)
            kept == IF mle THEN st.C ELSE st.B
        IN  [C |-> IF mne THEN [i \in 0 .. SYS_T |-> gf_add(st.C[i], gf_mul(f, st.B[i]))]
                   ELSE st.C,
             B |-> [i \in 0 .. SYS_T |-> IF i = 0 THEN Zero ELSE kept[i - 1]],
             L |-> IF mle THEN N + 1 - st.L ELSE st.L,
             b |-> IF mle THEN d ELSE st.b]
      loop[st \in Connections, N \in 0 .. 2 * SYS_T] ==
        IF N = 2 * SYS_T THEN st.C ELSE loop[Step(st, N), N + 1]
      C == loop[Start, 0]
  IN  [i \in 0 .. SYS_T |-> C[SYS_T - i]]

bm(s) ==
  LET Start == [C |-> [i \in 0 .. SYS_T |-> IF i = 0 THEN One ELSE Zero],
                B |-> [i \in 0 .. SYS_T |-> IF i = 1 THEN One ELSE Zero],
                L |-> 0, b |-> One]
      Step(st, N) ==
        LET d   == GfSum([i \in 0 .. Least(N, SYS_T) |-> gf_mul(st.C[i], s[N - i])])
            mne == d # Zero
            mle == mne /\ N >= 2 * st.L
            f   == gf_frac(st.b, d)
            kept == IF mle THEN st.C ELSE st.B
        IN  [C |-> IF mne THEN [i \in 0 .. SYS_T |-> gf_add(st.C[i], gf_mul(f, st.B[i]))]
                   ELSE st.C,
             B |-> [i \in 0 .. SYS_T |-> IF i = 0 THEN Zero ELSE kept[i - 1]],
             L |-> IF mle THEN N + 1 - st.L ELSE st.L,
             b |-> IF mle THEN d ELSE st.b]
      loop[st \in Connections, N \in 0 .. 2 * SYS_T] ==
        IF N = 2 * SYS_T THEN st.C ELSE loop[Step(st, N), N + 1]
      C == loop[Start, 0]
  IN  [i \in 0 .. SYS_T |-> C[SYS_T - i]]

(* support_gen: every bit of the field's elements, in the order bitrev, goes*)
(* through the network.                                                     *)
support_gen(bits) ==
  LET word(i) == <<i \div WordBits, i % WordBits>>
      L == [j \in 0 .. GFBITS - 1 |->
              apply_benes({word(i) : i \in {i \in 0 .. Size - 1 : j \in bitrev(i)}}, bits)]
  IN  [i \in 0 .. SYS_N - 1 |-> {j \in 0 .. GFBITS - 1 : word(i) \in L[j]}]

(* decrypt: what was received, filled up with zeros, is a word with the     *)
(* syndrome; the roots of its locator are the errors, if there are SYS_T of *)
(* them and they have that syndrome.                                        *)
decrypt(irr, bits, c) ==
  LET g == Monic(irr)
      opened[L \in [0 .. SYS_N - 1 -> GF]] ==
        LET s == synd(g, L, c)
            images == root(bm(s), L)
            e == {i \in 0 .. SYS_N - 1 : images[i] = Zero}
        IN  [ok |-> Cardinality(e) = SYS_T /\ synd(g, L, e) = s, e |-> e]
  IN  opened[support_gen(bits)]
=============================================================================
