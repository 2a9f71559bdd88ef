--------------------------------- MODULE Sha2 ---------------------------------
(***************************************************************************)
(* SHA-256 in software, crypto/McEliece/common/sha2.c: the block function  *)
(* with its message words expanded in place, and the incremental interface *)
(* (init, blocks, clone, finalize) that hash a message fed in pieces.      *)
(* SHA256 is the definition of the standard it is compared with.           *)
(***************************************************************************)
EXTENDS Words

CONSTANTS
  Feeds,          \* the numbers of blocks one call may feed
  Rests,          \* the numbers of bytes the last call may feed
  MaxFed          \* bound on the blocks fed before the last call

ASSUME ShaAssumption == Feeds \subseteq Nat /\ Rests \subseteq Nat

VARIABLES
  context,        \* the context: [state, bytes], or << >> when there is none
  clone,          \* a copy of it, or << >>
  fed,            \* fed[1], fed[2]: the bytes either was given (history)
  digests         \* the pairs of a message and its digest

shaVars == << context, clone, fed, digests >>

-------------------------------------------------------------------------------
Ch(x, y, z) == Xor(x \cap y, z \ x)
Maj(x, y, z) == Xor3(x \cap y, x \cap z, y \cap z)
Sigma0_32(x) == Xor3(Rotr(x, 2), Rotr(x, 13), Rotr(x, 22))
Sigma1_32(x) == Xor3(Rotr(x, 6), Rotr(x, 11), Rotr(x, 25))
sigma0_32(x) == Xor3(Rotr(x, 7), Rotr(x, 18), Shr(x, 3))
sigma1_32(x) == Xor3(Rotr(x, 17), Rotr(x, 19), Shr(x, 10))

K ==
  << Hex(\h428a, \h2f98), Hex(\h7137, \h4491), Hex(\hb5c0, \hfbcf),
     Hex(\he9b5, \hdba5), Hex(\h3956, \hc25b), Hex(\h59f1, \h11f1),
     Hex(\h923f, \h82a4), Hex(\hab1c, \h5ed5), Hex(\hd807, \haa98),
     Hex(\h1283, \h5b01), Hex(\h2431, \h85be), Hex(\h550c, \h7dc3),
     Hex(\h72be, \h5d74), Hex(\h80de, \hb1fe), Hex(\h9bdc, \h06a7),
     Hex(\hc19b, \hf174), Hex(\he49b, \h69c1), Hex(\hefbe, \h4786),
     Hex(\h0fc1, \h9dc6), Hex(\h240c, \ha1cc), Hex(\h2de9, \h2c6f),
     Hex(\h4a74, \h84aa), Hex(\h5cb0, \ha9dc), Hex(\h76f9, \h88da),
     Hex(\h983e, \h5152), Hex(\ha831, \hc66d), Hex(\hb003, \h27c8),
     Hex(\hbf59, \h7fc7), Hex(\hc6e0, \h0bf3), Hex(\hd5a7, \h9147),
     Hex(\h06ca, \h6351), Hex(\h1429, \h2967), Hex(\h27b7, \h0a85),
     Hex(\h2e1b, \h2138), Hex(\h4d2c, \h6dfc), Hex(\h5338, \h0d13),
     Hex(\h650a, \h7354), Hex(\h766a, \h0abb), Hex(\h81c2, \hc92e),
     Hex(\h9272, \h2c85), Hex(\ha2bf, \he8a1), Hex(\ha81a, \h664b),
     Hex(\hc24b, \h8b70), Hex(\hc76c, \h51a3), Hex(\hd192, \he819),
     Hex(\hd699, \h0624), Hex(\hf40e, \h3585), Hex(\h106a, \ha070),
     Hex(\h19a4, \hc116), Hex(\h1e37, \h6c08), Hex(\h2748, \h774c),
     Hex(\h34b0, \hbcb5), Hex(\h391c, \h0cb3), Hex(\h4ed8, \haa4a),
     Hex(\h5b9c, \hca4f), Hex(\h682e, \h6ff3), Hex(\h748f, \h82ee),
     Hex(\h78a5, \h636f), Hex(\h84c8, \h7814), Hex(\h8cc7, \h0208),
     Hex(\h90be, \hfffa), Hex(\ha450, \h6ceb), Hex(\hbef9, \ha3f7),
     Hex(\hc671, \h78f2) >>

iv_256 ==
  << Hex(\h6a09, \he667), Hex(\hbb67, \hae85), Hex(\h3c6e, \hf372),
     Hex(\ha54f, \hf53a), Hex(\h510e, \h527f), Hex(\h9b05, \h688c),
     Hex(\h1f83, \hd9ab), Hex(\h5be0, \hcd19) >>

\* One round: the eight words shift down, the first and fifth are new.
F_32(s, k, w) ==
  LET T1 == Plus(Plus(Plus(Plus(s[8], Sigma1_32(s[5])), Ch(s[5], s[6], s[7])), k), w)
      T2 == Plus(Sigma0_32(s[1]), Maj(s[1], s[2], s[3]))
  IN [ << s[8], s[1], s[2], s[3], s[4], s[5], s[6], s[7] >> EXCEPT
         ![1] = Plus(T1, T2), ![5] = Plus(@, T1) ]

M_32(w0, w14, w9, w1) == Plus(Plus(Plus(sigma1_32(w14), w9), sigma0_32(w1)), w0)

\* Word i of v is replaced, from the words 2, 7, 15 and 16 before it.
InPlace(v, i) ==
  LET at(j) == ((j - 1) % 16) + 1
  IN [ v EXCEPT ![i] = M_32(v[i], v[at(i + 14)], v[at(i + 9)], v[at(i + 1)]) ]

\* The sixteen words that replace w, one after the other in place.
EXPAND_32(w) ==
  LET v[i \in 0 .. 16] == IF i = 0 THEN w ELSE InPlace(v[i - 1], i)
  IN v[16]

\* Sixteen rounds with the constants of the quarter q.
Sixteen(s, w, q) ==
  LET v[i \in 0 .. 16] == IF i = 0 THEN s ELSE F_32(v[i - 1], K[(16 * q) + i], w[i])
  IN v[16]

\* A block's sixteen words.
Loaded(block) ==
  SubSeq([ i \in 1 .. 16 |-> load_bigendian_32(SubSeq(block, (4 * i) - 3, 4 * i)) ], 1, 16)

\* The words of two states added, one by one.
Sums(s, u) == << Plus(s[1], u[1]), Plus(s[2], u[2]), Plus(s[3], u[3]), Plus(s[4], u[4]),
                 Plus(s[5], u[5]), Plus(s[6], u[6]), Plus(s[7], u[7]), Plus(s[8], u[8]) >>

\* The state after a block: each quarter has its words, and the state it ends in.
Compress(state, block) ==
  LET v[q \in 0 .. 3] ==
        IF q = 0
          THEN LET w == Loaded(block)
               IN [ words |-> w, state |-> Sixteen(state, w, 0) ]
          ELSE LET before == v[q - 1]
                   w == EXPAND_32(before.words)
               IN Then(before, [ words |-> w, state |-> Sixteen(before.state, w, q) ])
  IN Sums(state, v[3].state)

\* The whole blocks of in; what is left over is not hashed.
BlockOf(in, n) == SubSeq(in, (64 * (n - 1)) + 1, 64 * n)

crypto_hashblocks_sha256(state, in) ==
  LET v[n \in 0 .. Len(in) \div 64] ==
        IF n = 0 THEN state ELSE Compress(v[n - 1], BlockOf(in, n))
  IN v[Len(in) \div 64]

Zeros(n) == [ i \in 1 .. n |-> 0 ]

\* The last eight bytes of the padding: the length in bits.
LengthBytes(bytes) ==
  LET low == bytes \div (32 * 256 * 256)
      high == low \div 256
  IN << (high \div (256 * 256 * 256)) % 256, (high \div (256 * 256)) % 256,
        (high \div 256) % 256, high % 256, low % 256,
        (bytes \div (32 * 256)) % 256, (bytes \div 32) % 256, (bytes * 8) % 256 >>

\* What finalize hashes after the whole blocks: one block or two.
Padded(rest, bytes) ==
  LET length == IF Len(rest) < 56 THEN 56 ELSE 120
  IN rest \o << 128 >> \o Zeros(length - Len(rest) - 1) \o LengthBytes(bytes)

Finalized(ctx, in) ==
  LET rest == SubSeq(in, (64 * (Len(in) \div 64)) + 1, Len(in))
      state == crypto_hashblocks_sha256(ctx.state, in)
      final == crypto_hashblocks_sha256(state, Padded(rest, ctx.bytes + Len(in)))
  IN [ i \in 1 .. 8 |-> store_bigendian_32(final[i]) ]

-------------------------------------------------------------------------------
\* The byte at position i of every message that is hashed.
Text(i) == ((37 * i) + 5) % 256

\* The n bytes of the message after those in said.
Following(said, n) == [ i \in 1 .. n |-> Text(Len(said) + i) ]

ShaInit == context = << >> /\ clone = << >> /\ fed = << << >>, << >> >> /\ digests = {}

sha256_inc_init ==
  /\ context = << >> /\ digests = {}
  /\ context' = [ state |-> iv_256, bytes |-> 0 ]
  /\ UNCHANGED << clone, fed, digests >>

sha256_inc_blocks(inblocks) ==
  LET in == Following(fed[1], 64 * inblocks)
  IN /\ context # << >>
     /\ Len(fed[1]) + (64 * inblocks) <= 64 * MaxFed
     /\ context' = [ state |-> crypto_hashblocks_sha256(context.state, in),
                     bytes |-> context.bytes + (64 * inblocks) ]
     /\ fed' = [ fed EXCEPT ![1] = @ \o in ]
     /\ UNCHANGED << clone, digests >>

sha256_inc_ctx_clone ==
  /\ context # << >> /\ clone = << >> /\ digests = {}
  /\ clone' = context
  /\ fed' = [ fed EXCEPT ![2] = fed[1] ]
  /\ UNCHANGED << context, digests >>

\* Finalize releases the context; the copy then takes its place.
sha256_inc_finalize(inlen) ==
  LET in == Following(fed[1], inlen)
  IN /\ context # << >>
     /\ digests' = digests \cup { [ message |-> fed[1] \o in, digest |-> Finalized(context, in) ] }
     /\ context' = clone /\ clone' = << >>
     /\ fed' = << fed[2], << >> >>

ShaNext ==
  \/ sha256_inc_init
  \/ \E n \in Feeds : sha256_inc_blocks(n)
  \/ sha256_inc_ctx_clone
  \/ \E n \in Rests : sha256_inc_finalize(n)

-------------------------------------------------------------------------------
(* The standard (FIPS 180-4): the message is padded as a whole, each block *)
(* has its 64 words before the 64 rounds begin.                             *)
Schedule(block) ==
  LET W[n \in 0 .. 48] ==
        IF n = 0 THEN Loaded(block)
        ELSE LET w == W[n - 1]
             IN Append(w, Plus(Plus(Plus(sigma1_32(w[n + 14]), w[n + 9]), sigma0_32(w[n + 1])),
                               w[n]))
  IN W[48]

\* The rounds after `from`, up to `last`; and all of them, sixteen by sixteen.
RoundsAfter(H, W, from, last) ==
  LET v[t \in from .. last] == IF t = from THEN H ELSE F_32(v[t - 1], K[t], W[t])
  IN v[last]

SixtyFour(H, block) ==
  LET W == Schedule(block)
      v[q \in 0 .. 4] ==
        IF q = 0 THEN H
        ELSE LET before == v[q - 1]
             IN Then(before, RoundsAfter(before, W, 16 * (q - 1), 16 * q))
  IN Then(W, v[4])

SHA256(message) ==
  LET bits == 8 * Len(message)
      low == bits \div (256 * 256 * 256)
      high == low \div 256
      zeros == (119 - (Len(message) % 64)) % 64
      padded == message \o << 128 >> \o Zeros(zeros)
                  \o << (high \div (256 * 256 * 256)) % 256, (high \div (256 * 256)) % 256,
                        (high \div 256) % 256, high % 256, low % 256,
                        (bits \div (256 * 256)) % 256, (bits \div 256) % 256, bits % 256 >>
      H[n \in 0 .. Len(padded) \div 64] ==
        IF n = 0 THEN iv_256
        ELSE LET before == H[n - 1]
             IN Sums(before, SixtyFour(before, BlockOf(padded, n)))
      final == H[Len(padded) \div 64]
  IN [ i \in 1 .. 8 |-> store_bigendian_32(final[i]) ]

\* However a message is cut into calls, and whether the context that hashes
\* it was cloned, its digest is the one of the standard.
ShaAgrees == \A d \in digests : d.digest = SHA256(d.message)
===============================================================================
