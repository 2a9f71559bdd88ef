------------------------------- MODULE Software -------------------------------
(***************************************************************************)
(* The cryptography that runs without the library's sessions: McEliece's   *)
(* SHA-2, SHA-3 and SHAKE, the AES of tiny-AES and the bitsliced one, the  *)
(* random bytes, and the bare-metal programs that drive the SHA and the    *)
(* AES accelerator.  They share no state: an execution is one of them, and *)
(* the variables of the others are Unused.                                   *)
(***************************************************************************)
EXTENDS VersatSha, Keccak, Sponge, BitslicedAes, VersatAes, Drbg

VARIABLES
  program       \* the program that runs

vars == << program, shaVars, versatShaVars, permuteVars, spongeVars, tinyVars,
           slicedVars, aesUnitVars, drbgVars >>

Unused == "idle"

NoSha == context = Unused /\ clone = Unused /\ fed = Unused /\ digests = Unused

NoVersatSha ==
  /\ todo = Unused /\ calling = Unused /\ initVersat = Unused /\ reading = Unused
  /\ fetched = Unused /\ clock = Unused /\ F = Unused /\ M = Unused
  /\ held = Unused /\ State = Unused /\ hashes = Unused

NoPermutation == lanes = Unused /\ standard = Unused /\ round = Unused

NoSponges == sponge = Unused /\ other = Unused

NoTiny == ctx = Unused /\ stream = Unused /\ block = Unused

NoSliced == sk_exp = Unused /\ keyed = Unused /\ answer = Unused

NoAesUnit ==
  /\ config = Unused /\ running = Unused /\ unit = Unused /\ left = Unused
  /\ call = Unused /\ memory = Unused

NoDrbg ==
  /\ DRBG_ctx = Unused /\ asked = Unused /\ given = Unused /\ installed = Unused
  /\ xof = Unused /\ expanded = Unused /\ encrypted = Unused

Init ==
  /\ program \in { "sha2", "accelerated sha", "permutation", "sponge", "tiny aes",
                   "bitsliced aes", "accelerated aes", "random bytes" }
  /\ IF program = "sha2" THEN ShaInit ELSE NoSha
  /\ IF program = "accelerated sha" THEN VersatShaInit ELSE NoVersatSha
  /\ IF program = "permutation" THEN PermuteInit ELSE NoPermutation
  /\ IF program = "sponge" THEN SpongeInit ELSE NoSponges
  /\ IF program = "tiny aes" THEN TinyInit ELSE NoTiny
  /\ IF program = "bitsliced aes" THEN SlicedInit ELSE NoSliced
  /\ IF program = "accelerated aes" THEN VersatAesInit ELSE NoAesUnit
  /\ IF program = "random bytes" THEN DrbgInit ELSE NoDrbg

Hashing ==
  \/ program = "sha2" /\ ShaNext /\ UNCHANGED << versatShaVars, permuteVars, spongeVars >>
  \/ program = "accelerated sha" /\ VersatShaNext /\ UNCHANGED << shaVars, permuteVars, spongeVars >>
  \/ program = "permutation" /\ PermuteNext /\ UNCHANGED << shaVars, versatShaVars, spongeVars >>
  \/ program = "sponge" /\ SpongeNext /\ UNCHANGED << shaVars, versatShaVars, permuteVars >>

Encrypting ==
  \/ program = "tiny aes" /\ TinyNext /\ UNCHANGED << slicedVars, aesUnitVars, drbgVars >>
  \/ program = "bitsliced aes" /\ SlicedNext /\ UNCHANGED << tinyVars, aesUnitVars, drbgVars >>
  \/ program = "accelerated aes" /\ VersatAesNext /\ UNCHANGED << tinyVars, slicedVars, drbgVars >>
  \/ program = "random bytes" /\ DrbgNext /\ UNCHANGED << tinyVars, slicedVars, aesUnitVars >>

Next ==
  /\ UNCHANGED program
  /\ \/ Hashing /\ UNCHANGED << tinyVars, slicedVars, aesUnitVars, drbgVars >>
     \/ Encrypting /\ UNCHANGED << shaVars, versatShaVars, permuteVars, spongeVars >>

Spec == Init /\ [][Next]_vars

-------------------------------------------------------------------------------

\* Whatever pieces a sponge absorbs and squeezes, by whichever interface, before and
\* after its context is cloned, it gives out the bytes the standards have for the
\* whole message (fips202.c, sp800-185.c).
StreamsAgree == program = "sponge" => SpongeAgrees

\* A message gives one SHA-2 digest, the standard's: in whatever calls sha2.c is fed,
\* and by the accelerator (versat_crypto.c), though a run loads the units with the
\* next block while it computes the last one, and whether the message before left
\* the units at the first or at a later block.
DigestsUnaffected ==
  /\ program = "sha2" => ShaAgrees
  /\ program = "accelerated sha" => DigestsRight

\* The block functions written out for speed compute the standard's: the unrolled
\* Keccak leaves every two rounds the state that 24 steps of five maps leave;
\* tiny-AES, byte by byte, in the ECB, CBC and counter modes over streams that go on
\* from call to call, and the bitsliced AES on four blocks at once, whatever its
\* unused blocks hold, compute the cipher of FIPS 197.
PrimitivesAgree ==
  /\ program = "permutation" => PermutationAgrees
  /\ program = "tiny aes" => TinyAesAgrees
  /\ program = "bitsliced aes" => SlicedAgrees

\* The AES accelerator, block by block and mode after mode, returns what the
\* standard's cipher returns, whatever the rounds before it left in its registers,
\* tables and configuration.
UnitAgrees == program = "accelerated aes" => VersatAesAgrees

\* The generator and the expander never have a counter encrypted twice, never give
\* a byte out twice or one that the next key was made of.
RandomOnce == program = "random bytes" => NoBlockTwice
===============================================================================
