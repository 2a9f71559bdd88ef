------------------------------- MODULE Fips197 -------------------------------
(***************************************************************************)
(* The block cipher as its standard defines it (FIPS 197): what each of    *)
(* the three implementations of the repository, tiny-AES, the bitsliced    *)
(* one and the accelerator's, is compared with.  A byte is a number, a     *)
(* block the tuple of its 16 bytes, a key the tuple of its words of four   *)
(* bytes.  Nothing here is a part of the program.                          *)
(***************************************************************************)
EXTENDS Words

\* Exclusive or of two bytes, as a table; of two words and of two blocks.
ByteXor ==
  LET xor[a \in Byte, b \in Byte] ==
        IF a = 0 THEN b ELSE ((a + b) % 2) + (2 * xor[a \div 2, b \div 2])
  IN SubSeq([ a \in 1 .. 256 |->
       SubSeq([ b \in 1 .. 256 |-> xor[a - 1, b - 1] ], 1, 256) ], 1, 256)

XorByte(a, b) == ByteXor[a + 1][b + 1]

XorWord(v, w) ==
  SubSeq([ i \in 1 .. 4 |-> XorByte(v[i], w[i]) ], 1, 4)

XorBlock(b, c) == SubSeq([ i \in 1 .. 16 |-> XorByte(b[i], c[i]) ], 1, 16)

AesWord == Seq(Byte)

AesBlock(first, step) == SubSeq([ i \in 1 .. 16 |-> (first + (step * (i - 1))) % 256 ], 1, 16)

Twice(b) == IF b < 128 THEN 2 * b ELSE XorByte((2 * b) - 256, 27)

\* The powers of 3, which generates the field's multiplicative group.
PowersOf3 ==
  LET times[b \in Byte, n \in 0 .. 254] ==
        CASE n = 0 -> b
          [] n = 1 -> XorByte(Twice(b), b)
          [] OTHER -> times[times[b, n \div 2], n - (n \div 2)]
  IN SubSeq([ i \in 1 .. 255 |-> times[1, i - 1] ], 1, 255)

MultiplicativeInverse(b) ==
  IF b = 0 THEN 0
  ELSE LET i == CHOOSE n \in 1 .. 255 : PowersOf3[n] = b
       IN PowersOf3[((256 - i) % 255) + 1]

\* The substitution: the inverse, then the affine map.
S_box ==
  LET affine[b \in SUBSET (0 .. 7)] ==
        LET turned(k) == { (i + k) % 8 : i \in b }
        IN NumberOf(Xor3(Xor3(b, turned(1), turned(2)), Xor(turned(3), turned(4)),
                         {0, 1, 5, 6}))
  IN SubSeq([ n \in 1 .. 256 |-> affine[BitsOf16(MultiplicativeInverse(n - 1))] ], 1, 256)

SubWord(w) == SubSeq([ i \in 1 .. 4 |-> S_box[w[i] + 1] ], 1, 4)

RotWord(w) == << w[2], w[3], w[4], w[1] >>

\* The constant of the key schedule's n-th group of words.
RoundConstant(n) == << << 1, 2, 4, 8, 16, 32, 64, 128, 27, 54 >>[n], 0, 0, 0 >>

\* The key's words, then words up to round 6 + the number of the key's words.
KeySchedule(key) ==
  LET substituted[w \in AesWord] == SubWord(w)
      next[w \in AesWord, i \in Nat, Words \in {4, 6, 8}] ==
        IF i % Words = 0
          THEN XorWord(substituted[RotWord(w)], RoundConstant(i \div Words))
        ELSE IF Words > 6 /\ i % Words = 4 THEN substituted[w]
        ELSE w
      expanded[w \in Seq(AesWord), i \in 4 .. 60, Words \in {4, 6, 8}] ==
        IF i = 4 * (Words + 7) THEN w
        ELSE expanded[Append(w, XorWord(w[i + 1 - Words], next[w[i], i, Words])), i + 1, Words]
      all[w \in Seq(AesWord)] == expanded[w, Len(w), Len(w)]
  IN all[key]

RoundKeyBlock(w, n) == w[(4 * n) + 1] \o w[(4 * n) + 2] \o w[(4 * n) + 3] \o w[(4 * n) + 4]

\* The bytes substituted, row r moved r columns to the left.
RowsMoved(block) ==
  SubSeq([ i \in 1 .. 16 |->
    LET r == (i - 1) % 4
        c == (i - 1) \div 4
    IN S_box[block[(4 * ((c + r) % 4)) + r + 1] + 1] ], 1, 16)

\* The columns multiplied by the polynomial {03}x^3 + {01}x^2 + {01}x + {02}.
ColumnsMixed(block) ==
  SubSeq([ i \in 1 .. 16 |->
    LET c == 4 * ((i - 1) \div 4)
        x(r) == block[c + ((i + r - 1) % 4) + 1]
    IN XorByte(XorByte(Twice(x(0)), XorByte(Twice(x(1)), x(1))), XorByte(x(2), x(3))) ], 1, 16)

\* The block encrypted under the words that KeySchedule gives.
Encrypted(words, plain) ==
  LET moved[b \in Seq(Byte)] == RowsMoved(b)
      mixed[b \in Seq(Byte)] == ColumnsMixed(b)
      added[b \in Seq(Byte), w \in Seq(AesWord), n \in 0 .. 14] == XorBlock(b, RoundKeyBlock(w, n))
      after[b \in Seq(Byte), w \in Seq(AesWord), n \in 1 .. 14] ==
        IF n = (Len(w) \div 4) - 1 THEN added[moved[b], w, n]
        ELSE after[added[mixed[moved[b]], w, n], w, n + 1]
      all[b \in Seq(Byte), w \in Seq(AesWord)] == after[added[b, w, 0], w, 1]
  IN all[plain, words]

\* The block with a number added to it, most significant byte first.
CounterPlus(block, n) ==
  LET sum[b \in Seq(Byte), i \in 0 .. 16, carry \in 0 .. 256] ==
        IF i = 0 \/ carry = 0 THEN b
        ELSE sum[[ b EXCEPT ![i] = (@ + carry) % 256 ], i - 1, (b[i] + carry) \div 256]
  IN sum[block, 16, n]
==============================================================================
