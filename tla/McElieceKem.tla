---------------------------- MODULE McElieceKem ----------------------------
(***************************************************************************)
(* The McEliece KEM (crypto/McEliece/operations.c, gen_e of encrypt.c):    *)
(* a key pair is made from a seed that is expanded again and again until   *)
(* it gives a key; one party encapsulates with the public key, the other   *)
(* decapsulates what it receives, which need not be what was sent.         *)
(*                                                                         *)
(* External: shake256 and randombytes.  The expansion of a seed is a       *)
(* table, the hash of the session key a record of what is hashed, and the  *)
(* random numbers of gen_e are any of a set.                               *)
(*                                                                         *)
(* No name here is one of VersatMcEliece, so that a module may extend both.*)
(***************************************************************************)
EXTENDS Goppa, FiniteSetsExt

CONSTANTS
  Expansion,   (* for each seed: the string s, the random numbers of the    *)
               (* permutation, the coefficients f, and the next seed        *)
  FirstSeeds,  (* what randombytes may return to crypto_kem_keypair         *)
  Draws,       (* ... and to gen_e: 2 SYS_T numbers of GFBITS bits          *)
  Received     (* ciphertexts that may arrive without having been sent      *)

ASSUME KemAssumption ==
  /\ FirstSeeds \subseteq DOMAIN Expansion
  /\ \A n \in DOMAIN Expansion :
       /\ Expansion[n].next \in DOMAIN Expansion
       /\ Expansion[n].f \in [0 .. SYS_T - 1 -> GF]
       /\ Expansion[n].perm \in [0 .. Size - 1 -> 0 .. 2 ^ (Word - IndexShift - 1) - 1]
       /\ Expansion[n].s \subseteq 0 .. SYS_N - 1
  /\ \A nums \in Draws : nums \in [1 .. 2 * SYS_T -> 0 .. Size - 1]
  /\ Received \subseteq SUBSET (0 .. PK_NROWS - 1)

VARIABLES
  stage,       (* what this round of crypto_kem_keypair does next, or what  *)
               (* is done with its key                                      *)
  seed,        (* the seed that is expanded next                            *)
  expanded,    (* what the last one was expanded to (r)                     *)
  sk, pk,      (* the key pair, or what failed attempts left in sk          *)
  pi,          (* pk_gen: the permutation, ...                              *)
  mat,         (* ... the matrix, and how many rows of it                   *)
  eliminated,
  sent,        (* crypto_kem_enc: error vector, ciphertext, session key     *)
  received     (* crypto_kem_dec: error vector, ciphertext, session key     *)

kemVars == <<stage, seed, expanded, sk, pk, pi, mat, eliminated, sent, received>>

Hash(one, vector, ct) == [one |-> one, vector |-> vector, c |-> ct]
Nothing  == [e |-> {}, c |-> {}, key |-> Hash(0, {}, {})]
NoSecret == [seed |-> 0, irr |-> NoPolynomial, bits |-> {}, s |-> {}, pivots |-> {}]

KemInit ==
  /\ stage = "keypair"
  /\ seed \in FirstSeeds /\ expanded = <<>>
  /\ sk = NoSecret /\ pk = NoMatrix /\ pi = NoPermutation /\ mat = NoMatrix /\ eliminated = 0
  /\ sent = Nothing /\ received = Nothing
-----------------------------------------------------------------------------
(* crypto_kem_keypair: each round of its loop expands the seed.  The seed   *)
(* goes into the secret key, the last bytes of the expansion are the next.  *)
ExpandStoresNext ==
  /\ stage = "keypair"
  /\ expanded' = Expansion[seed]
  /\ sk' = [sk EXCEPT !.seed = expanded'.next]
  /\ seed' = expanded'.next
  /\ stage' = "polynomial"
  /\ UNCHANGED <<pk, pi, mat, eliminated, sent, received>>
Expand ==
  /\ stage = "keypair"
  /\ expanded' = Expansion[seed]
  /\ sk' = [sk EXCEPT !.seed = seed]
  /\ seed' = expanded'.next
  /\ stage' = "polynomial"
  /\ UNCHANGED <<pk, pi, mat, eliminated, sent, received>>

(* genpoly_gen fails: the next round begins.                                *)
NoIrreducible ==
  /\ stage = "polynomial"
  /\ genpoly_gen(expanded.f) = NoPolynomial
  /\ stage' = "keypair"
  /\ UNCHANGED <<seed, expanded, sk, pk, pi, mat, eliminated, sent, received>>

Irreducible ==
  /\ stage = "polynomial"
  /\ genpoly_gen(expanded.f) # NoPolynomial
  /\ sk' = [sk EXCEPT !.irr = genpoly_gen(expanded.f)]
  /\ stage' = "permutation"
  /\ UNCHANGED <<seed, expanded, pk, pi, mat, eliminated, sent, received>>

(* pk_gen: two of the random numbers are equal, ...                         *)
NotAPermutation ==
  /\ stage = "permutation"
  /\ PermutationOf(expanded.perm) = NoPermutation
  /\ stage' = "keypair"
  /\ UNCHANGED <<seed, expanded, sk, pk, pi, mat, eliminated, sent, received>>

APermutation ==
  /\ stage = "permutation"
  /\ PermutationOf(expanded.perm) # NoPermutation
  /\ pi' = PermutationOf(expanded.perm)
  /\ stage' = "matrix"
  /\ UNCHANGED <<seed, expanded, sk, pk, mat, eliminated, sent, received>>

FillMatrix ==
  /\ stage = "matrix"
  /\ mat' = ParityCheck(sk.irr, pi)
  /\ eliminated' = 0
  /\ stage' = "eliminate"
  /\ UNCHANGED <<seed, expanded, sk, pk, pi, sent, received>>

(* ... or a row has no pivot, and the matrix no systematic form.            *)
Eliminate ==
  /\ stage = "eliminate" /\ eliminated < PK_NROWS
  /\ LET pivot == Pivot(mat, eliminated) IN
     IF eliminated \in pivot
     THEN /\ mat' = Clear(mat, eliminated, pivot)
          /\ eliminated' = eliminated + 1
          /\ UNCHANGED stage
     ELSE /\ stage' = "keypair"
          /\ UNCHANGED <<mat, eliminated>>
  /\ UNCHANGED <<seed, expanded, sk, pk, pi, sent, received>>

(* The key pair is complete.                                                *)
Accept ==
  /\ stage = "eliminate" /\ eliminated = PK_NROWS
  /\ pk' = PublicPart(mat)
  /\ sk' = [sk EXCEPT !.bits = controlbits(pi), !.s = expanded.s, !.pivots = 0 .. 31]
  /\ stage' = "enc"
  /\ UNCHANGED <<seed, expanded, pi, mat, eliminated, sent, received>>
-----------------------------------------------------------------------------
(* gen_e: the first SYS_T numbers below SYS_N are the positions, if there   *)
(* are so many and none is repeated.  Otherwise all are drawn again.        *)
InRange(nums)   == SelectSeq(nums, LAMBDA n : n < SYS_N)
Positions(nums) == {InRange(nums)[i] : i \in 1 .. Least(SYS_T, Len(InRange(nums)))}
Usable(nums)    == SYS_T <= Len(InRange(nums)) /\ Cardinality(Positions(nums)) = SYS_T

DrawAgain(nums) ==
  /\ stage = "enc"
  /\ ~Usable(nums)
  /\ UNCHANGED kemVars

crypto_kem_enc(nums) ==
  LET e == Positions(nums)
      c == syndrome(pk, e)
  IN
  /\ stage = "enc"
  /\ Usable(nums)
  /\ sent' = [e |-> e, c |-> c, key |-> Hash(1, e, c)]
  /\ stage' = "sent"
  /\ UNCHANGED <<seed, expanded, sk, pk, pi, mat, eliminated, received>>

OpenedUnchecked(c) ==
  LET plain == decrypt(sk.irr, sk.bits, c)
  IN  [e |-> plain.e, c |-> c, key |-> Hash(1, plain.e, c)]
Opened(c) ==
  LET plain == decrypt(sk.irr, sk.bits, c)
  IN  [e |-> plain.e, c |-> c,
       key |-> IF plain.ok THEN Hash(1, plain.e, c) ELSE Hash(0, sk.s, c)]

crypto_kem_dec(c) ==
  /\ stage \in {"enc", "sent"}
  /\ received' = Opened(c)
  /\ stage' = "done"
  /\ UNCHANGED <<seed, expanded, sk, pk, pi, mat, eliminated, sent>>

KemNext ==
  \/ Expand \/ NoIrreducible \/ Irreducible \/ NotAPermutation \/ APermutation
  \/ FillMatrix \/ Eliminate \/ Accept
  \/ \E nums \in Draws : DrawAgain(nums) \/ crypto_kem_enc(nums)
  \/ \E c \in IF stage = "sent" THEN {sent.c} ELSE Received : crypto_kem_dec(c)

KemSpec == KemInit /\ [][KemNext]_kemVars
-----------------------------------------------------------------------------
HasKey == stage \in {"enc", "sent", "done"}

(* Both parties have the same session key if what arrived is what was sent  *)
(* (operations.c:20-74): the decoder finds the error vector that gen_e      *)
(* drew, whatever key the loop accepted.                                    *)
KeysAgree == (stage = "done" /\ sent # Nothing) => received = sent

(* What no error vector of weight SYS_T is encrypted to is rejected: its    *)
(* session key is made of the secret string s (operations.c:56-69), and     *)
(* every other ciphertext is opened to the one vector it encrypts.          *)
RejectsInvalid ==
  stage = "done" =>
    LET valid == {x \in kSubset(SYS_T, 0 .. SYS_N - 1) : syndrome(pk, x) = received.c}
    IN  IF valid = {} THEN received.key = Hash(0, sk.s, received.c)
        ELSE \A x \in valid : received.key = Hash(1, x, received.c)

(* The control bits in the secret key are those of the permutation that the *)
(* public key was made with: applied one by one, which controlbits.c checks *)
(* and would otherwise try for ever (231-262), and by the bit-sliced        *)
(* network, with which decryption computes the support (benes.c:111-141).   *)
SupportRestored ==
  stage = "enc" =>
    /\ Applied(sk.bits, GFBITS) = pi
    /\ support_gen(sk.bits) = Support(pi)

(* The seed kept in the secret key (operations.c:99) gives the whole key    *)
(* again in one round, in which no test fails, although earlier rounds      *)
(* failed and each replaced it: the secret polynomial, string and control   *)
(* bits, and the public matrix, which is reduced row by row from a matrix   *)
(* that is made of these alone.                                             *)
KeyOfSeed ==
  LET again  == Expansion[sk.seed]
      irr    == genpoly_gen(again.f)
      perm   == PermutationOf(again.perm)
      matrix == Reduced(ParityCheck(irr, perm))[PK_NROWS]
  IN
  /\ irr # NoPolynomial /\ perm # NoPermutation /\ matrix # NotSystematic
  /\ sk = [seed |-> sk.seed, irr |-> irr, bits |-> controlbits(perm), s |-> again.s,
           pivots |-> 0 .. 31]
  /\ pk = PublicPart(matrix)

SeedRegenerates == stage = "enc" => KeyOfSeed

(* The polynomial that was accepted is irreducible, and so has no root in   *)
(* the support; the permutation orders the random numbers (pk_gen.c:67-84). *)
KeyMaterialSound ==
  stage = "enc" =>
    /\ \A a \in GF : eval(Monic(sk.irr), a) # Zero
    /\ \A i \in 1 .. Size - 1 : expanded.perm[pi[i - 1]] < expanded.perm[pi[i]]
=============================================================================
