-------------------------------- MODULE Sponge --------------------------------
(***************************************************************************)
(* The sponge of SHA-3 around its permutation: fips202.c and sp800-185.c   *)
(* of crypto/McEliece/common, the functions that take a message at once    *)
(* and the incremental ones that take it and give the output in pieces.    *)
(* The permutation is symbolic: what was exclusive-ored into the state     *)
(* since the last one is a set of marks, and a permuted state is known by  *)
(* the marks of all permutations before it.                                *)
(***************************************************************************)
EXTENDS Words

CONSTANTS
  LaneBytes,      \* the bytes of a lane (8)
  Rate,           \* the rate of every function, a multiple of LaneBytes
  Domain,         \* and its domain separation byte
  Digest,         \* and the size of its digest, 0 for the ones of any length
  Names,          \* pairs: the sizes of a cSHAKE name and customization
  Lengths,        \* the numbers of bytes one call takes or gives
  MaxBytes        \* bound on the bytes absorbed, and on those squeezed

\* The functions: each Shake and Sha3 one is incremental and in one call, each
\* CShake one starts with what sp800-185.c absorbs; they differ in the Rate, the
\* Domain and the Digest alone.
Shake == { "shake128", "shake256" }
Sha3 == { "sha3_256", "sha3_384", "sha3_512" }
CShake == { "cshake128", "cshake256" }

\* The rates are positive, the domain bytes are not 0 and leave the last bit of a
\* byte to the end of the padding (fips202.c:538, :773, sp800-185.c:47), a digest is in
\* one block.  A cSHAKE has a name or a customization: with neither, SP 800-185
\* defines it to be SHAKE, a case that sp800-185.c (22-40) does not have.
ASSUME SpongeAssumption ==
  /\ LaneBytes \in Nat \ {0} /\ MaxBytes \in Nat /\ Lengths \subseteq Nat
  /\ Names \subseteq (Nat \X Nat) \ {<<0, 0>>}
  /\ \A f \in DOMAIN Rate : /\ Rate[f] \in Nat \ {0} /\ Domain[f] \in 1 .. 127
                           /\ Digest[f] \in 0 .. Rate[f]

VARIABLES
  sponge,         \* the function in use: its name, phase, context, what it was given and gave
  other           \* a clone of it that is used afterwards

spongeVars == << sponge, other >>

-------------------------------------------------------------------------------
(* The sponge.  A byte of data is <<"m", its number>>, a byte of a known    *)
(* value <<"b", its value>>; a byte 0 changes nothing.                      *)

Placed(pos, byte) == << pos \div LaneBytes, pos % LaneBytes, byte >>

Into(s, at, m) ==
  [ s EXCEPT !.marks =
      Xor(@, { Placed(at + (i - 1), m[i]) : i \in { j \in 1 .. Len(m) : m[j] # <<"b", 0>> } }) ]

ByteAt(s, pos) ==
  << s.past, pos, { mark \in s.marks : mark[1] = pos \div LaneBytes
                                    /\ mark[2] = pos % LaneBytes } >>

Permuted(s) == [ past |-> Append(s.past, s.marks), marks |-> {} ]

Zeroed == [ past |-> << >>, marks |-> {} ]

Smaller(a, b) == IF a < b THEN a ELSE b
From(m, n) == SubSeq(m, n + 1, Len(m))

\* While m fills a block, it is absorbed.
Absorbed(r, m) ==
  LET s[k \in 0 .. Len(m) \div r] ==
        IF k = 0 THEN Zeroed
        ELSE Permuted(Into(s[k - 1], 0, SubSeq(m, ((k - 1) * r) + 1, k * r)))
  IN  s[Len(m) \div r]

\* The last block is put together in t, where 128 is or-ed into the last
\* byte: p or a zero, never data.
keccak_absorb(r, m, p) ==
  LET t == Append(From(m, (Len(m) \div r) * r), <<"b", p>>)
  IN  Into(Into(Absorbed(r, m), 0, t), r - 1, << <<"b", 128>> >>)

\* The first n bytes of a state.
FirstBytes(s, n) == [ i \in 1 .. n |-> ByteAt(s, i - 1) ]

keccak_squeezeblocks(nblocks, s, r) ==
  LET after[k \in 0 .. nblocks] ==
        IF k = 0 THEN [ h |-> << >>, s |-> s ]
        ELSE LET now == Permuted(after[k - 1].s)
             IN  [ h |-> after[k - 1].h \o FirstBytes(now, r), s |-> now ]
  IN  after[nblocks]

\* The incremental context: n is its 26th number, the bytes absorbed and not
\* permuted, later the bytes squeezed and not given out.
keccak_inc_init == [ s |-> Zeroed, n |-> 0 ]

\* Behind the n bytes of a context, m fills a block up so many times, and k
\* times take so many bytes of it.
Fillings(ctx, r, m) == (Len(m) + ctx.n) \div r
Consumed(n, r, k) == IF k = 0 THEN 0 ELSE (k * r) - n

\* While m fills the block up, as much of it is absorbed.
FilledUp(ctx, r, m, times) ==
  LET after[k \in 0 .. times] ==
        IF k = 0 THEN ctx
        ELSE LET part == SubSeq(m, Consumed(ctx.n, r, k - 1) + 1, Consumed(ctx.n, r, k))
             IN  [ s |-> Permuted(Into(after[k - 1].s, after[k - 1].n, part)), n |-> 0 ]
  IN  after[times]

Rest(ctx, r, m) == From(m, Consumed(ctx.n, r, Fillings(ctx, r, m)))
Ended(ctx, rest) == [ s |-> Into(ctx.s, ctx.n, rest), n |-> ctx.n + Len(rest) ]

keccak_inc_absorb(ctx, r, m) ==
  Ended(FilledUp(ctx, r, m, Fillings(ctx, r, m)), Rest(ctx, r, m))

keccak_inc_finalize(ctx, r, p) ==
  [ s |-> Into(Into(ctx.s, ctx.n, << <<"b", p>> >>), r - 1, << <<"b", 128>> >>), n |-> 0 ]

\* While bytes are missing, the next block is made and its first ones given out.
Squeezed(ctx, outlen, r) ==
  LET times == (outlen + r - 1) \div r
      after[k \in 0 .. times] ==
        IF k = 0 THEN [ h |-> << >>, ctx |-> ctx ]
        ELSE LET s == Permuted(after[k - 1].ctx.s)
                 i == Smaller(outlen - ((k - 1) * r), r)
             IN  [ h |-> after[k - 1].h \o FirstBytes(s, i), ctx |-> [ s |-> s, n |-> r - i ] ]
  IN  after[times]

\* (Mutant: what is left of the last block is read from its first byte again.)
SqueezedAgain(ctx, outlen, r) ==
  LET i == Smaller(outlen, ctx.n)
      left == FirstBytes(ctx.s, i)
      rest == Squeezed([ ctx EXCEPT !.n = @ - i ], outlen - i, r)
  IN [ h |-> left \o rest.h, ctx |-> rest.ctx ]

keccak_inc_squeeze(ctx, outlen, r) ==
  LET i == Smaller(outlen, ctx.n)
      left == [ b \in 1 .. i |-> ByteAt(ctx.s, (r - ctx.n) + (b - 1)) ]
      rest == Squeezed([ ctx EXCEPT !.n = @ - i ], outlen - i, r)
  IN [ h |-> left \o rest.h, ctx |-> rest.ctx ]

\* sp800-185.c: a number with its size in front, most significant byte first.
SizeOf(value) == IF value < 256 THEN 1 ELSE IF value < 65536 THEN 2 ELSE 3

left_encode(value) ==
  LET n == SizeOf(value)
  IN << <<"b", n>> >> \o [ i \in 1 .. n |-> <<"b", (value \div 256^(n - i)) % 256>> ]

Bytes(kind, size) == [ i \in 1 .. size |-> <<kind, i>> ]

\* A prefix that does not end with a block is ended by absorbing one zero
\* byte as the last of the block.
cshake_inc_init(r, sizes) ==
  LET c1 == keccak_inc_absorb(keccak_inc_init, r, left_encode(r))
      c2 == keccak_inc_absorb(c1, r, left_encode(sizes[1] * 8))
      c3 == keccak_inc_absorb(c2, r, Bytes("name", sizes[1]))
      c4 == keccak_inc_absorb(c3, r, left_encode(sizes[2] * 8))
      c5 == keccak_inc_absorb(c4, r, Bytes("cstm", sizes[2]))
  IN IF c5.n # 0 THEN keccak_inc_absorb([ c5 EXCEPT !.n = r - 1 ], r, << <<"b", 0>> >>)
     ELSE c5

-------------------------------------------------------------------------------
(* What a client calls.  A sponge's phase is "none", "absorb", "squeeze",   *)
(* "blocks" (a context that is not incremental) or "released".              *)

NoSponge == [ f |-> "shake128", phase |-> "none", ctx |-> keccak_inc_init,
              sizes |-> <<0, 0>>, given |-> 0, got |-> << >> ]

SpongeInit == sponge = NoSponge /\ other = NoSponge

Given(n) == SubSeq(Bytes("m", sponge.given + n), sponge.given + 1, sponge.given + n)

inc_init(f) ==
  /\ sponge.phase = "none" /\ f \in Shake \cup Sha3
  /\ sponge' = [ NoSponge EXCEPT !.f = f, !.phase = "absorb" ]
  /\ UNCHANGED other

cshake_init(f, sizes) ==
  /\ sponge.phase = "none" /\ f \in CShake
  /\ sponge' = [ NoSponge EXCEPT !.f = f, !.phase = "absorb", !.sizes = sizes,
                                 !.ctx = cshake_inc_init(Rate[f], sizes) ]
  /\ UNCHANGED other

inc_absorb(n) ==
  /\ sponge.phase = "absorb" /\ sponge.given + n <= MaxBytes
  /\ sponge' = [ sponge EXCEPT !.ctx = keccak_inc_absorb(@, Rate[sponge.f], Given(n)),
                               !.given = @ + n ]
  /\ UNCHANGED other

inc_finalize ==
  /\ sponge.phase = "absorb" /\ sponge.f \in Shake \cup CShake
  /\ sponge' = [ sponge EXCEPT
       !.ctx = keccak_inc_finalize(@, Rate[sponge.f], Domain[sponge.f]), !.phase = "squeeze" ]
  /\ UNCHANGED other

\* The SHA-3 functions squeeze one block, keep the digest and release.
sha3_inc_finalize ==
  /\ sponge.phase = "absorb" /\ sponge.f \in Sha3
  /\ LET ctx == keccak_inc_finalize(sponge.ctx, Rate[sponge.f], Domain[sponge.f])
         block == keccak_squeezeblocks(1, ctx.s, Rate[sponge.f]).h
     IN sponge' = [ sponge EXCEPT !.got = SubSeq(block, 1, Digest[sponge.f]),
                                  !.phase = "released" ]
  /\ UNCHANGED other

inc_squeeze(n) ==
  /\ sponge.phase = "squeeze" /\ Len(sponge.got) + n <= MaxBytes
  /\ LET out == keccak_inc_squeeze(sponge.ctx, n, Rate[sponge.f])
     IN sponge' = [ sponge EXCEPT !.ctx = out.ctx, !.got = @ \o out.h ]
  /\ UNCHANGED other

inc_ctx_clone ==
  /\ sponge.phase \in {"absorb", "squeeze", "blocks"}
  /\ other.phase = "none"
  /\ other' = sponge
  /\ UNCHANGED sponge

\* The context is released, or was by its finalize, and the clone is used.
inc_ctx_release ==
  /\ sponge.phase \in {"squeeze", "blocks", "released"} /\ other.phase \notin {"none", "used"}
  /\ sponge' = other
  /\ other' = [ NoSponge EXCEPT !.phase = "used" ]

\* shake128_absorb, shake256_absorb, and the squeezing of whole blocks.
shake_absorb(f, n) ==
  /\ sponge.phase = "none" /\ f \in Shake
  /\ sponge' = [ NoSponge EXCEPT !.f = f, !.phase = "blocks", !.given = n,
       !.ctx = [ s |-> keccak_absorb(Rate[f], Bytes("m", n), Domain[f]), n |-> 0 ] ]
  /\ UNCHANGED other

shake_squeezeblocks(nblocks) ==
  /\ sponge.phase = "blocks"
  /\ Len(sponge.got) + (nblocks * Rate[sponge.f]) <= MaxBytes
  /\ LET out == keccak_squeezeblocks(nblocks, sponge.ctx.s, Rate[sponge.f])
     IN sponge' = [ sponge EXCEPT !.ctx.s = out.s, !.got = @ \o out.h ]
  /\ UNCHANGED other

\* shake128, shake256: whole blocks, then a part of one more.
shake(f, outlen, n) ==
  LET r == Rate[f]
      whole == keccak_squeezeblocks(outlen \div r, keccak_absorb(r, Bytes("m", n), Domain[f]), r)
      last == keccak_squeezeblocks(1, whole.s, r).h
  IN /\ sponge.phase = "none" /\ f \in Shake
     /\ sponge' = [ NoSponge EXCEPT !.f = f, !.phase = "released", !.given = n,
                                    !.got = whole.h \o SubSeq(last, 1, outlen % r) ]
     /\ UNCHANGED other

\* sha3_256, sha3_384, sha3_512.
sha3(f, n) ==
  LET r == Rate[f]
      t == keccak_squeezeblocks(1, keccak_absorb(r, Bytes("m", n), Domain[f]), r).h
  IN /\ sponge.phase = "none" /\ f \in Sha3
     /\ sponge' = [ NoSponge EXCEPT !.f = f, !.phase = "released", !.given = n,
                                    !.got = SubSeq(t, 1, Digest[f]) ]
     /\ UNCHANGED other

\* cshake128, cshake256.
cshake(f, outlen, sizes, n) ==
  LET r == Rate[f]
      ctx == keccak_inc_absorb(cshake_inc_init(r, sizes), r, Bytes("m", n))
  IN /\ sponge.phase = "none" /\ f \in CShake
     /\ sponge' = [ NoSponge EXCEPT
          !.f = f, !.phase = "released", !.given = n, !.sizes = sizes,
          !.got = keccak_inc_squeeze(keccak_inc_finalize(ctx, r, Domain[f]), outlen, r).h ]
     /\ UNCHANGED other

SpongeNext ==
  \/ \E f \in DOMAIN Rate, n \in 0 .. MaxBytes :
       \/ shake_absorb(f, n)
       \/ sha3(f, n)
       \/ \E outlen \in 0 .. MaxBytes :
            \/ shake(f, outlen, n)
            \/ \E sizes \in Names : cshake(f, outlen, sizes, n)
  \/ \E f \in DOMAIN Rate : inc_init(f) \/ \E sizes \in Names : cshake_init(f, sizes)
  \/ \E n \in Lengths : inc_absorb(n) \/ inc_squeeze(n)
  \/ inc_finalize \/ sha3_inc_finalize
  \/ inc_ctx_clone \/ inc_ctx_release
  \/ \E nblocks \in 0 .. 2 : shake_squeezeblocks(nblocks)

-------------------------------------------------------------------------------
(* The standards (FIPS 202, SP 800-185): the message is padded as a whole,  *)
(* cut into blocks, and every permutation after them gives a block.         *)

\* A cSHAKE message begins with its names, of which at least one is not empty,
\* filled up to whole blocks.
Prefix(f, sizes) ==
  LET bytes == left_encode(Rate[f]) \o left_encode(8 * sizes[1]) \o Bytes("name", sizes[1])
                 \o left_encode(8 * sizes[2]) \o Bytes("cstm", sizes[2])
      r == Rate[f]
  IN IF f \in CShake
     THEN bytes \o [ i \in 1 .. ((r - (Len(bytes) % r)) % r) |-> <<"b", 0>> ]
     ELSE << >>

\* The marks of block k: its bytes, and after the message's last byte the
\* domain byte and in the last position the bit that ends the padding.
BlockMarks(message, r, p, k) ==
  LET end == Len(message)
      last == (((end \div r) + 1) * r) - 1
      inBlock(i) == i \div r = k
  IN { Placed(i % r, message[i + 1]) :
         i \in { j \in 0 .. (end - 1) : inBlock(j) /\ message[j + 1] # <<"b", 0>> } }
     \cup { Placed(i % r, <<"b", p>>) : i \in { j \in {end} : inBlock(j) } }
     \cup { Placed(i % r, <<"b", 128>>) : i \in { j \in {last} : inBlock(j) } }

Output(f, sizes, given, n) ==
  LET r == Rate[f]
      message == Prefix(f, sizes) \o Bytes("m", given)
      blocks == (Len(message) \div r) + 1
      Past(j) == [ k \in 1 .. (blocks + (j \div r)) |->
                     IF k <= blocks THEN BlockMarks(message, r, Domain[f], k - 1) ELSE {} ]
  IN [ j \in 1 .. n |-> << Past(j - 1), (j - 1) % r, {} >> ]

\* However a message is cut and its output asked for, by whichever interface,
\* and whether the context was cloned in between, the output is the standard's.
SpongeAgrees ==
  sponge.got = Output(sponge.f, sponge.sizes, sponge.given, Len(sponge.got))
===============================================================================
