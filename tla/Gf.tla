--------------------------------- MODULE Gf ---------------------------------
(***************************************************************************)
(* The field arithmetic of the McEliece code (crypto/McEliece/gf.c,        *)
(* root.c).  A field element is the set of the bits that are 1, so that    *)
(* addition is the symmetric difference; an element of the extension field *)
(* and a polynomial are functions from 0, 1, ... to field elements.        *)
(***************************************************************************)
EXTENDS Integers, Sequences, FiniteSets

CONSTANTS
  GFBITS,      (* 12: bits of a field element                               *)
  Tap,         (* 3: x^GFBITS = x^Tap + 1                                   *)
  InvChain,    (* the steps of gf_inv: <<n, k>> squares n times, then       *)
               (* multiplies with the result of step k, 0 being the input   *)
  SYS_T,       (* 64: the degree of the extension                           *)
  ExtTaps,     (* {3, 1} and ...                                            *)
  ExtConst     (* ... {1}: y^SYS_T = y^3 + y + 2                            *)

ASSUME FieldAssumption ==
  /\ GFBITS \in Nat /\ Tap \in Nat \ {0} /\ 2 * Tap <= GFBITS /\ SYS_T \in Nat \ {0}
  /\ \A i \in 1 .. Len(InvChain) : InvChain[i][1] \in Nat /\ InvChain[i][2] \in 0 .. i - 1
  /\ ExtTaps \subseteq 1 .. SYS_T - 1 /\ ExtConst \subseteq 0 .. GFBITS - 1

GF   == SUBSET (0 .. GFBITS - 1)
Zero == {}
One  == {0}

Odd(S) == Cardinality(S) % 2 = 1
gf_add(in0, in1) == (in0 \ in1) \cup (in1 \ in0)
GfSum(f) ==
  LET terms == {<<x, f[x]>> : x \in DOMAIN f}
  IN  {i \in 0 .. GFBITS - 1 : Odd({t \in terms : i \in t[2]})}
ShiftRight(x, n) == {i - n : i \in {k \in x : n <= k}}

(* gf_mul and gf_sq reduce the bits above the field in two steps, because   *)
(* the first brings some of them back to the lowest Tap - 1.                *)
Folded(x, from, to) ==
  LET t == x \cap (from .. to)
  IN  gf_add(gf_add(x, ShiftRight(t, GFBITS - Tap)), ShiftRight(t, GFBITS))
ReducedElement(x) ==
  Folded(Folded(x, GFBITS + Tap - 1, 2 * GFBITS - 2), GFBITS, GFBITS + Tap - 2)
    \cap (0 .. GFBITS - 1)

gf_mul(in0, in1) ==
  ReducedElement({n \in 0 .. 2 * GFBITS - 2 :
                    Odd({i \in in0 : n - i \in in1})})

gf_sq(in) == ReducedElement({2 * i : i \in in})

Squared(in, n) ==
  LET sq[x \in GF, i \in 0 .. n] == IF i = 0 THEN x ELSE sq[gf_sq(x), i - 1] IN sq[in, n]

(* The results of the steps are listed after the input.                     *)
gf_inv(in) ==
  LET steps == Len(InvChain)
      last[out \in Seq(GF), i \in 1 .. steps + 1] ==
        IF i > steps THEN out[i]
        ELSE last[Append(out, gf_mul(Squared(out[i], InvChain[i][1]), out[InvChain[i][2] + 1])),
                  i + 1]
  IN  gf_sq(last[<<in>>, 1])

gf_frac(den, num) == gf_mul(gf_inv(den), num)
-----------------------------------------------------------------------------
(* A product of extension field elements: the powers from 2 SYS_T - 2 down  *)
(* to SYS_T are replaced one after the other.                               *)
GF_mul(in0, in1) ==
  LET prod == [k \in 0 .. 2 * SYS_T - 2 |->
                 GfSum([i \in {i \in 0 .. SYS_T - 1 : k - i \in 0 .. SYS_T - 1} |->
                          gf_mul(in0[i], in1[k - i])])]
      below[i \in SYS_T .. 2 * SYS_T - 1] ==
        IF i = 2 * SYS_T - 1 THEN prod
        ELSE LET p == below[i + 1] IN
             [k \in DOMAIN prod |->
                IF k = i - SYS_T THEN gf_add(p[k], gf_mul(p[i], ExtConst))
                ELSE IF k - (i - SYS_T) \in ExtTaps THEN gf_add(p[k], p[i])
                ELSE p[k]]
  IN  [k \in 0 .. SYS_T - 1 |-> below[SYS_T][k]]

(* The value of a polynomial of degree SYS_T, by Horner's rule.             *)
eval(f, a) ==
  LET value[r \in GF, i \in 0 .. SYS_T] ==
        IF i = 0 THEN r ELSE value[gf_add(gf_mul(r, a), f[i - 1]), i - 1]
  IN  value[f[SYS_T], SYS_T]

root(f, L) == [i \in DOMAIN L |-> eval(f, L[i])]
=============================================================================
