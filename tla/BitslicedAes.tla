---------------------------- MODULE BitslicedAes ----------------------------
(***************************************************************************)
(* The constant-time AES of crypto/McEliece/common/aes.c: four blocks are  *)
(* encrypted together, bit i of each of their bytes in word i, the         *)
(* substitution as a circuit of gates.  A 64-bit word is the set of the    *)
(* numbers of its bits that are 1.                                         *)
(***************************************************************************)
EXTENDS Fips197, TLC

CONSTANTS
  SlicedKeys,     \* the keys: each the tuple of its words of four bytes
  Batches,        \* the numbers of blocks of the calls to the ECB functions
  StreamLengths,  \* the lengths in bytes of the calls to the counter functions
  Leftovers       \* what is in the part of `blocks` that a short batch leaves

VARIABLES
  sk_exp,         \* the expanded key of the context, << >> when it is released
  keyed,          \* the key it was made of
  answer          \* the last call and what it wrote

slicedVars == << sk_exp, keyed, answer >>

-------------------------------------------------------------------------------
(* Words.                                                                   *)

Bit == 0 .. 63

\* The words q[] of the bitsliced state: eight of them.
Slices == Seq(SUBSET Bit)

a (+) b == { i \in Bit : (i \in a) # (i \in b) }

NOT(x) == Bit \ x

Left(x, n) == { i + n : i \in x } \cap Bit

br_dec32le(b) == UNION { { k + (8 * (i - 1)) : k \in BitsOf16(b[i]) } : i \in 1 .. 4 }

br_swap32(x) == { (8 * (3 - (i \div 8))) + (i % 8) : i \in x }

br_enc32le(x) ==
  SubSeq([ i \in 1 .. 4 |-> NumberOf({ k - (8 * (i - 1)) :
                                k \in x \cap ((8 * (i - 1)) .. ((8 * i) - 1)) }) ], 1, 4)

br_range_dec32le(num, bytes) ==
  SubSeq([ i \in 1 .. num |-> br_dec32le(SubSeq(bytes, (4 * i) - 3, 4 * i)) ], 1, num)

-------------------------------------------------------------------------------
(* The circuit of the substitution, for the 64 bytes at once.               *)

\* The gates in the order of the code, after the inputs x0 .. x7: the wire that
\* is assigned, and what it is assigned.  A linear layer of 23 gates, an inversion
\* of 44, 18 products and a linear layer of 30, each computed before the next.
Gates ==
  << <<"y14", "x3", "^", "x5">>, <<"y13", "x0", "^", "x6">>, <<"y9", "x0", "^", "x3">>,
     <<"y8", "x0", "^", "x5">>, <<"t0", "x1", "^", "x2">>, <<"y1", "t0", "^", "x7">>,
     <<"y4", "y1", "^", "x3">>, <<"y12", "y13", "^", "y14">>, <<"y2", "y1", "^", "x0">>,
     <<"y5", "y1", "^", "x6">>, <<"y3", "y5", "^", "y8">>, <<"t1", "x4", "^", "y12">>,
     <<"y15", "t1", "^", "x5">>, <<"y20", "t1", "^", "x1">>, <<"y6", "y15", "^", "x7">>,
     <<"y10", "y15", "^", "t0">>, <<"y11", "y20", "^", "y9">>, <<"y7", "x7", "^", "y11">>,
     <<"y17", "y10", "^", "y11">>, <<"y19", "y10", "^", "y8">>,
     <<"y16", "t0", "^", "y11">>, <<"y21", "y13", "^", "y16">>,
     <<"y18", "x0", "^", "y16">>, <<"t2", "y12", "&", "y15">>, <<"t3", "y3", "&", "y6">>,
     <<"t4", "t3", "^", "t2">>, <<"t5", "y4", "&", "x7">>, <<"t6", "t5", "^", "t2">>,
     <<"t7", "y13", "&", "y16">>, <<"t8", "y5", "&", "y1">>, <<"t9", "t8", "^", "t7">>,
     <<"t10", "y2", "&", "y7">>, <<"t11", "t10", "^", "t7">>, <<"t12", "y9", "&", "y11">>,
     <<"t13", "y14", "&", "y17">>, <<"t14", "t13", "^", "t12">>,
     <<"t15", "y8", "&", "y10">>, <<"t16", "t15", "^", "t12">>,
     <<"t17", "t4", "^", "t14">>, <<"t18", "t6", "^", "t16">>,
     <<"t19", "t9", "^", "t14">>, <<"t20", "t11", "^", "t16">>,
     <<"t21", "t17", "^", "y20">>, <<"t22", "t18", "^", "y19">>,
     <<"t23", "t19", "^", "y21">>, <<"t24", "t20", "^", "y18">>,
     <<"t25", "t21", "^", "t22">>, <<"t26", "t21", "&", "t23">>,
     <<"t27", "t24", "^", "t26">>, <<"t28", "t25", "&", "t27">>,
     <<"t29", "t28", "^", "t22">>, <<"t30", "t23", "^", "t24">>,
     <<"t31", "t22", "^", "t26">>, <<"t32", "t31", "&", "t30">>,
     <<"t33", "t32", "^", "t24">>, <<"t34", "t23", "^", "t33">>,
     <<"t35", "t27", "^", "t33">>, <<"t36", "t24", "&", "t35">>,
     <<"t37", "t36", "^", "t34">>, <<"t38", "t27", "^", "t36">>,
     <<"t39", "t29", "&", "t38">>, <<"t40", "t25", "^", "t39">>,
     <<"t41", "t40", "^", "t37">>, <<"t42", "t29", "^", "t33">>,
     <<"t43", "t29", "^", "t40">>, <<"t44", "t33", "^", "t37">>,
     <<"t45", "t42", "^", "t41">>, <<"z0", "t44", "&", "y15">>,
     <<"z1", "t37", "&", "y6">>, <<"z2", "t33", "&", "x7">>, <<"z3", "t43", "&", "y16">>,
     <<"z4", "t40", "&", "y1">>, <<"z5", "t29", "&", "y7">>, <<"z6", "t42", "&", "y11">>,
     <<"z7", "t45", "&", "y17">>, <<"z8", "t41", "&", "y10">>,
     <<"z9", "t44", "&", "y12">>, <<"z10", "t37", "&", "y3">>,
     <<"z11", "t33", "&", "y4">>, <<"z12", "t43", "&", "y13">>,
     <<"z13", "t40", "&", "y5">>, <<"z14", "t29", "&", "y2">>,
     <<"z15", "t42", "&", "y9">>, <<"z16", "t45", "&", "y14">>,
     <<"z17", "t41", "&", "y8">>, <<"t46", "z15", "^", "z16">>,
     <<"t47", "z10", "^", "z11">>, <<"t48", "z5", "^", "z13">>,
     <<"t49", "z9", "^", "z10">>, <<"t50", "z2", "^", "z12">>, <<"t51", "z2", "^", "z5">>,
     <<"t52", "z7", "^", "z8">>, <<"t53", "z0", "^", "z3">>, <<"t54", "z6", "^", "z7">>,
     <<"t55", "z16", "^", "z17">>, <<"t56", "z12", "^", "t48">>,
     <<"t57", "t50", "^", "t53">>, <<"t58", "z4", "^", "t46">>,
     <<"t59", "z3", "^", "t54">>, <<"t60", "t46", "^", "t57">>,
     <<"t61", "z14", "^", "t57">>, <<"t62", "t52", "^", "t58">>,
     <<"t63", "t49", "^", "t58">>, <<"t64", "z4", "^", "t59">>,
     <<"t65", "t61", "^", "t62">>, <<"t66", "z1", "^", "t63">>,
     <<"s0", "t59", "^", "t63">>, <<"s6", "t56", "^~", "t62">>,
     <<"s7", "t48", "^~", "t60">>, <<"t67", "t64", "^", "t65">>,
     <<"s3", "t53", "^", "t66">>, <<"s4", "t51", "^", "t66">>,
     <<"s5", "t47", "^", "t65">>, <<"s1", "t64", "^~", "s3">>,
     <<"s2", "t55", "^~", "t67">> >>

br_aes_ct64_bitslice_Sbox(q) ==
  LET inputs == [ x0 |-> q[8], x1 |-> q[7], x2 |-> q[6], x3 |-> q[5],
                  x4 |-> q[4], x5 |-> q[3], x6 |-> q[2], x7 |-> q[1] ]
      Gate(in0, op, in1) ==
        CASE op = "^" -> in0 (+) in1
          [] op = "&" -> in0 \cap in1
          [] op = "^~" -> in0 (+) NOT(in1)
      layers == << 0, 23, 67, 85, 115 >>
      after[k \in 1 .. 5] ==
        IF k = 1 THEN inputs
        ELSE LET before == after[k - 1]
                 wires[n \in layers[k - 1] .. layers[k]] ==
                   IF n = layers[k - 1] THEN before
                   ELSE LET w == wires[n - 1]
                            g == Gates[n]
                        IN w @@ (g[1] :> Gate(w[g[2]], g[3], w[g[4]]))
             IN Then(before, wires[layers[k]])
      outputs == << "s7", "s6", "s5", "s4", "s3", "s2", "s1", "s0" >>
      last == after[5]
  IN SubSeq([ i \in 1 .. 8 |-> last[outputs[i]] ], 1, 8)

\* SWAPN exchanges the high bits of x with the low bits of y, by groups of s.
SWAPN(q, s, x, y) ==
  LET cl == { i \in Bit : (i \div s) % 2 = 0 }
  IN [ q EXCEPT ![x] = (q[x] \cap cl) \cup Left(q[y] \cap cl, s),
                ![y] = Shr(q[x] \ cl, s) \cup (q[y] \ cl) ]

\* The 8 x 8 transposition between bytes and words, its own inverse.
br_aes_ct64_ortho(q) ==
  LET swaps == << <<1, 1, 2>>, <<1, 3, 4>>, <<1, 5, 6>>, <<1, 7, 8>>,
                  <<2, 1, 3>>, <<2, 2, 4>>, <<2, 5, 7>>, <<2, 6, 8>>,
                  <<4, 1, 5>>, <<4, 2, 6>>, <<4, 3, 7>>, <<4, 4, 8>> >>
      loop[r \in Slices, i \in 1 .. 13] ==
        IF i = 13 THEN r
        ELSE loop[SWAPN(r, swaps[i][1], swaps[i][2], swaps[i][3]), i + 1]
  IN loop[q, 1]

\* The bits of the 16-bit, and of the 8-bit, groups with an even number.
Low16 == { i \in Bit : (i \div 16) % 2 = 0 }

Low8 == { i \in Bit : (i \div 8) % 2 = 0 }

\* The words 0 and 2 of a block in the first result, 1 and 3 in the second.
br_aes_ct64_interleave_in(w) ==
  LET spread(x) == LET y == (x \cup Left(x, 16)) \cap Low16 IN (y \cup Left(y, 8)) \cap Low8
  IN << spread(w[1]) \cup Left(spread(w[3]), 8), spread(w[2]) \cup Left(spread(w[4]), 8) >>

br_aes_ct64_interleave_out(q0, q1) ==
  LET gather(x) == LET y == (x \cup Shr(x, 8)) \cap Low16 IN (y \cup Shr(y, 16)) \cap (0 .. 31)
  IN << gather(q0 \cap Low8), gather(q1 \cap Low8),
        gather(Shr(q0, 8) \cap Low8), gather(Shr(q1, 8) \cap Low8) >>

-------------------------------------------------------------------------------
(* The key.                                                                 *)

RconSliced == << 1, 2, 4, 8, 16, 32, 64, 128, 27, 54 >>

sub_word(x) ==
  br_aes_ct64_ortho(br_aes_ct64_bitslice_Sbox(
    br_aes_ct64_ortho(<< x, {}, {}, {}, {}, {}, {}, {} >>)))[1] \cap (0 .. 31)

\* The words of the round keys: skey, `tmp` being the last of them.
ScheduleWords(key) ==
  LET nk == Len(key)
      new(skey, i) ==
        LET tmp == skey[i]
            j == i % nk
        IN CASE j = 0 -> sub_word(Rotr(tmp, 8)) (+) BitsOf16(RconSliced[i \div nk])
             [] nk > 6 /\ j = 4 -> sub_word(tmp)
             [] OTHER -> tmp
      loop[skey \in Seq(SUBSET (0 .. 31)), i \in 4 .. 60] ==
        IF i = 4 * (nk + 7) THEN skey
        ELSE loop[Append(skey, new(skey, i) (+) skey[i + 1 - nk]), i + 1]
  IN loop[SubSeq([ i \in 1 .. nk |-> br_dec32le(key[i]) ], 1, nk), nk]

\* The bits of a word whose number is k modulo 4.
Every4(k) == { i \in Bit : i % 4 = k }

\* Four words of a round key in two: one bit in four of each of the eight.
br_aes_ct64_keysched(key) ==
  LET packed[q \in Slices] ==
        << UNION { q[k + 1] \cap Every4(k) : k \in 0 .. 3 },
           UNION { q[k + 5] \cap Every4(k) : k \in 0 .. 3 } >>
      roundKey[in \in Slices] ==
        packed[br_aes_ct64_ortho(<< in[1], in[1], in[1], in[1], in[2], in[2], in[2], in[2] >>)]
      all[skey \in Slices] ==
        SubSeq([ i \in 1 .. Len(key) + 7 |->
          roundKey[br_aes_ct64_interleave_in(SubSeq(skey, (4 * i) - 3, 4 * i))] ], 1, Len(key) + 7)
  IN all[ScheduleWords(key)]

\* The eight words of each round key, every bit of the packed one four times.
br_aes_ct64_skey_expand(comp) ==
  LET spread(x, k) == UNION { (i - k) .. (i - k + 3) : i \in x \cap Every4(k) }
      expanded(c) == << spread(c[1], 0), spread(c[1], 1), spread(c[1], 2), spread(c[1], 3),
                        spread(c[2], 0), spread(c[2], 1), spread(c[2], 2), spread(c[2], 3) >>
  IN SubSeq([ i \in 1 .. Len(comp) |-> expanded(comp[i]) ], 1, Len(comp))

-------------------------------------------------------------------------------
(* The rounds.                                                              *)

EachWord(q, Op(_)) ==
  << Op(q[1]), Op(q[2]), Op(q[3]), Op(q[4]), Op(q[5]), Op(q[6]), Op(q[7]), Op(q[8]) >>

add_round_key(q, sk) ==
  << q[1] (+) sk[1], q[2] (+) sk[2], q[3] (+) sk[3], q[4] (+) sk[4],
     q[5] (+) sk[5], q[6] (+) sk[6], q[7] (+) sk[7], q[8] (+) sk[8] >>

shift_rows(q) ==
  LET part(x, first, last) == x \cap (first .. last)
      moved(x) == part(x, 0, 15) \cup Shr(part(x, 20, 31), 4) \cup Left(part(x, 16, 19), 12)
                    \cup Shr(part(x, 40, 47), 8) \cup Left(part(x, 32, 39), 8)
                    \cup Shr(part(x, 60, 63), 12) \cup Left(part(x, 48, 59), 4)
  IN EachWord(q, moved)

rotr32(x) == { (i + 32) % 64 : i \in x }

mix_columns(q) ==
  LET turned(x) == Shr(x, 16) \cup Left(x, 48)
      r == EachWord(q, turned)
      top == q[8] (+) r[8]
      line(n, with) == q[n - 1] (+) r[n - 1] (+) with (+) r[n] (+) rotr32(q[n] (+) r[n])
  IN << top (+) r[1] (+) rotr32(q[1] (+) r[1]), line(2, top), line(3, {}), line(4, top),
        line(5, top), line(6, {}), line(7, {}), line(8, {}) >>

\* Four blocks, of four words each, encrypted together.
aes_ecb4x(w, sk, nrounds) ==
  LET interleaved[v \in Slices] ==
        SubSeq([ i \in 1 .. 4 |->
          br_aes_ct64_interleave_in(SubSeq(v, (4 * i) - 3, 4 * i)) ], 1, 4)
      gathered[in \in Seq(Slices)] ==
        << in[1][1], in[2][1], in[3][1], in[4][1], in[1][2], in[2][2], in[3][2], in[4][2] >>
      substituted[q \in Slices] == br_aes_ct64_bitslice_Sbox(q)
      shifted[q \in Slices] == shift_rows(q)
      mixed[q \in Slices] == mix_columns(q)
      added[q \in Slices, i \in 0 .. nrounds] == add_round_key(q, sk[i + 1])
      rounds[q \in Slices, i \in 1 .. nrounds] ==
        IF i = nrounds THEN added[shifted[substituted[q]], nrounds]
        ELSE rounds[added[mixed[shifted[substituted[q]]], i], i + 1]
      bytes[v \in Slices] ==
        br_enc32le(v[1]) \o br_enc32le(v[2]) \o br_enc32le(v[3]) \o br_enc32le(v[4])
      out[q \in Slices, i \in 1 .. 4] == bytes[br_aes_ct64_interleave_out(q[i], q[i + 4])]
      blocks[q \in Slices] == out[q, 1] \o out[q, 2] \o out[q, 3] \o out[q, 4]
      start == added[br_aes_ct64_ortho(gathered[interleaved[w]]), 0]
  IN blocks[br_aes_ct64_ortho(rounds[start, 1])]

-------------------------------------------------------------------------------
(* The two modes, four blocks at a time.                                    *)

\* A batch may be short: the rest of `blocks` is what it was.
aes_ecb(in, sk, nrounds, left) ==
  LET encrypted[blocks \in Slices] == aes_ecb4x(blocks, sk, nrounds)
      loop[out \in Seq(Byte), i \in Nat, blocks \in Slices] ==
        LET n == (Len(in) - i) \div 16
            size == IF n > 4 THEN 4 ELSE n
            new == br_range_dec32le(4 * size, SubSeq(in, i + 1, Len(in)))
            batch == new \o SubSeq(blocks, Len(new) + 1, 16)
        IN IF n = 0 THEN out
           ELSE loop[out \o SubSeq(encrypted[batch], 1, 16 * size), i + (16 * size), batch]
  IN loop[<< >>, 0, left]

inc4_be(x) == br_swap32(Plus(br_swap32(x), {2}))

\* The counters of four blocks after the vector's three words.
FourCounters(ivw, cc) ==
  LET block(n) == ivw \o << br_swap32(BitsOf16(cc + n)) >>
  IN block(0) \o block(1) \o block(2) \o block(3)

\* Four counters are encrypted, and four added to each.
aes_ctr4x(ivw, sk, nrounds) ==
  [ out |-> aes_ecb4x(ivw, sk, nrounds),
    ivw |-> [ ivw EXCEPT ![4] = inc4_be(@), ![8] = inc4_be(@),
                         ![12] = inc4_be(@), ![16] = inc4_be(@) ] ]

\* Of the last four blocks only what was asked for is written.
aes_ctr(outlen, iv, sk, nrounds) ==
  LET four[ivw \in Slices] == aes_ctr4x(ivw, sk, nrounds)
      loop[out \in Seq(Byte), ivw \in Slices] ==
        LET left == outlen - Len(out)
            batch == four[ivw]
        IN IF left = 0 THEN out
           ELSE loop[out \o SubSeq(batch.out, 1, IF left > 64 THEN 64 ELSE left), batch.ivw]
  IN loop[<< >>, FourCounters(br_range_dec32le(3, iv), 0)]

-------------------------------------------------------------------------------
(* The functions of the three key sizes, which differ in the length of the  *)
(* key and the number of rounds.                                            *)

Rounds(key) == Len(key) + 6

SlicedIn(n) == SubSeq([ i \in 1 .. 16 * n |-> (i * 5) % 256 ], 1, 16 * n)

SlicedIv == SubSeq([ i \in 1 .. 12 |-> 240 + i ], 1, 12)

NoAnswer == [ call |-> "none", n |-> 0, out |-> << >> ]

SlicedInit == sk_exp = << >> /\ keyed = << >> /\ answer = NoAnswer

\* aes128_ecb_keyexp, aes192_ecb_keyexp, aes256_ecb_keyexp, and the same for CTR.
ecb_keyexp(key) ==
  /\ sk_exp = << >>
  /\ sk_exp' = br_aes_ct64_skey_expand(br_aes_ct64_keysched(key))
  /\ keyed' = key
  /\ answer' = NoAnswer

ecb(n, left) ==
  /\ sk_exp # << >>
  /\ answer' = [ call |-> "ecb", n |-> n, out |-> aes_ecb(SlicedIn(n), sk_exp, Rounds(keyed), left) ]
  /\ UNCHANGED << sk_exp, keyed >>

ctr(outlen) ==
  /\ sk_exp # << >>
  /\ answer' = [ call |-> "ctr", n |-> outlen,
                 out |-> aes_ctr(outlen, SlicedIv, sk_exp, Rounds(keyed)) ]
  /\ UNCHANGED << sk_exp, keyed >>

ctx_release ==
  /\ sk_exp # << >>
  /\ sk_exp' = << >> /\ keyed' = << >> /\ answer' = NoAnswer

SlicedNext ==
  \/ \E key \in SlicedKeys : ecb_keyexp(key)
  \/ \E n \in Batches, left \in Leftovers : answer = NoAnswer /\ ecb(n, left)
  \/ \E outlen \in StreamLengths : answer = NoAnswer /\ ctr(outlen)
  \/ ctx_release

-------------------------------------------------------------------------------
\* For each of the key sizes, block i of what the functions write is block i of
\* the input, or the counter i after the vector, encrypted as the standard says:
\* how the blocks are put four in a batch, what the unused part of a batch holds
\* and the carries of the counters change none of it (aes_ecb, aes_ctr).
SlicedAgrees ==
  LET w == KeySchedule(keyed)
      Input(i) ==
        IF answer.call = "ecb" THEN SubSeq(SlicedIn(answer.n), (16 * i) + 1, (16 * i) + 16)
        ELSE SlicedIv \o << 0, 0, i \div 256, i % 256 >>
      bytes == IF answer.call = "ecb" THEN 16 * answer.n ELSE answer.n
      rest == bytes % 16
  IN answer # NoAnswer =>
       /\ Len(answer.out) = bytes
       /\ \A i \in 0 .. (bytes \div 16) - 1 :
            SubSeq(answer.out, (16 * i) + 1, (16 * i) + 16) = Encrypted(w, Input(i))
       /\ rest # 0 =>
            SubSeq(answer.out, bytes - rest + 1, bytes)
              = SubSeq(Encrypted(w, Input(bytes \div 16)), 1, rest)
==============================================================================
