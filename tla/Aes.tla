--------------------------------- MODULE Aes ---------------------------------
(***************************************************************************)
(* The software AES of the board's programs (crypto/aes.c, built for       *)
(* 256-bit keys): the key expansion, the cipher and its inverse, and the   *)
(* three modes, whose context carries the initialization vector from one   *)
(* call to the next.                                                       *)
(***************************************************************************)
EXTENDS Fips197

CONSTANTS
  TinyKeys,       \* the keys: each the tuple of its eight words
  TinyIvs,        \* the initialization vectors and first counters: blocks
  CallBytes,      \* the lengths of the buffers a call is given
  MaxTinyBytes,   \* the bytes that are given under one vector, at most
  MaxStreams      \* the vectors that are set, at most

VARIABLES
  ctx,            \* AES_ctx: the round keys and the vector
  stream,         \* what was given since the vector was set, and what came back
  block           \* the last block given to the two functions of the ECB mode

tinyVars == << ctx, stream, block >>

ASSUME TinyAssumption ==
  /\ \A key \in TinyKeys : Len(key) = 8
  /\ \A iv \in TinyIvs : Len(iv) = 16
  /\ MaxTinyBytes \in Nat /\ MaxStreams \in Nat

-------------------------------------------------------------------------------
(* The tables, the key expansion and the rounds.  The 16 bytes of the state *)
(* are read column by column: byte j of column i is at 4 * i + j + 1.       *)

Nk == 8

Nr == 14

sbox ==
  <<  99, 124, 119, 123, 242, 107, 111, 197,  48,   1, 103,  43, 254, 215, 171, 118,
     202, 130, 201, 125, 250,  89,  71, 240, 173, 212, 162, 175, 156, 164, 114, 192,
     183, 253, 147,  38,  54,  63, 247, 204,  52, 165, 229, 241, 113, 216,  49,  21,
       4, 199,  35, 195,  24, 150,   5, 154,   7,  18, 128, 226, 235,  39, 178, 117,
       9, 131,  44,  26,  27, 110,  90, 160,  82,  59, 214, 179,  41, 227,  47, 132,
      83, 209,   0, 237,  32, 252, 177,  91, 106, 203, 190,  57,  74,  76,  88, 207,
     208, 239, 170, 251,  67,  77,  51, 133,  69, 249,   2, 127,  80,  60, 159, 168,
      81, 163,  64, 143, 146, 157,  56, 245, 188, 182, 218,  33,  16, 255, 243, 210,
     205,  12,  19, 236,  95, 151,  68,  23, 196, 167, 126,  61, 100,  93,  25, 115,
      96, 129,  79, 220,  34,  42, 144, 136,  70, 238, 184,  20, 222,  94,  11, 219,
     224,  50,  58,  10,  73,   6,  36,  92, 194, 211, 172,  98, 145, 149, 228, 121,
     231, 200,  55, 109, 141, 213,  78, 169, 108,  86, 244, 234, 101, 122, 174,   8,
     186, 120,  37,  46,  28, 166, 180, 198, 232, 221, 116,  31,  75, 189, 139, 138,
     112,  62, 181, 102,  72,   3, 246,  14,  97,  53,  87, 185, 134, 193,  29, 158,
     225, 248, 152,  17, 105, 217, 142, 148, 155,  30, 135, 233, 206,  85,  40, 223,
     140, 161, 137,  13, 191, 230,  66, 104,  65, 153,  45,  15, 176,  84, 187,  22 >>

rsbox ==
  <<  82,   9, 106, 213,  48,  54, 165,  56, 191,  64, 163, 158, 129, 243, 215, 251,
     124, 227,  57, 130, 155,  47, 255, 135,  52, 142,  67,  68, 196, 222, 233, 203,
      84, 123, 148,  50, 166, 194,  35,  61, 238,  76, 149,  11,  66, 250, 195,  78,
       8,  46, 161, 102,  40, 217,  36, 178, 118,  91, 162,  73, 109, 139, 209,  37,
     114, 248, 246, 100, 134, 104, 152,  22, 212, 164,  92, 204,  93, 101, 182, 146,
     108, 112,  72,  80, 253, 237, 185, 218,  94,  21,  70,  87, 167, 141, 157, 132,
     144, 216, 171,   0, 140, 188, 211,  10, 247, 228,  88,   5, 184, 179,  69,   6,
     208,  44,  30, 143, 202,  63,  15,   2, 193, 175, 189,   3,   1,  19, 138, 107,
      58, 145,  17,  65,  79, 103, 220, 234, 151, 242, 207, 206, 240, 180, 230, 115,
     150, 172, 116,  34, 231, 173,  53, 133, 226, 249,  55, 232,  28, 117, 223, 110,
      71, 241,  26, 113,  29,  41, 197, 137, 111, 183,  98,  14, 170,  24, 190,  27,
     252,  86,  62,  75, 198, 210, 121,  32, 154, 219, 192, 254, 120, 205,  90, 244,
      31, 221, 168,  51, 136,   7, 199,  49, 177,  18,  16,  89,  39, 128, 236,  95,
      96,  81, 127, 169,  25, 181,  74,  13,  45, 229, 122, 159, 147, 201, 156, 239,
     160, 224,  59,  77, 174,  42, 245, 176, 200, 235, 187,  60, 131,  83, 153,  97,
      23,  43,   4, 126, 186, 119, 214,  38, 225, 105,  20,  99,  85,  33,  12, 125 >>

Rcon == << 141, 1, 2, 4, 8, 16, 32, 64, 128, 27, 54 >>

\* Four bytes, or sixteen, looked up in a table.
LookedUp(table, bytes) ==
  SubSeq([ i \in 1 .. Len(bytes) |-> table[bytes[i] + 1] ], 1, Len(bytes))

\* The expansion of a key: the 60 words of the round keys.
KeyExpansion(Key) ==
  LET tempa(RoundKey, i) ==
        CASE i % Nk = 0 -> LET w == LookedUp(sbox, RotWord(RoundKey[i]))
                           IN [ w EXCEPT ![1] = XorByte(@, Rcon[(i \div Nk) + 1]) ]
          [] i % Nk = 4 -> LookedUp(sbox, RoundKey[i])
          [] OTHER -> RoundKey[i]
      loop[RoundKey \in Seq(AesWord), i \in Nk .. 60] ==
        IF i = 4 * (Nr + 1) THEN RoundKey
        ELSE loop[Append(RoundKey, XorWord(RoundKey[i + 1 - Nk], tempa(RoundKey, i))), i + 1]
  IN loop[Key, Nk]

AddRoundKey(n, state, RoundKey) ==
  SubSeq([ i \in 1 .. 16 |->
    XorByte(state[i], RoundKey[(n * 4) + ((i - 1) \div 4) + 1][((i - 1) % 4) + 1]) ], 1, 16)

SubBytes(state) == LookedUp(sbox, state)

InvSubBytes(state) == LookedUp(rsbox, state)

\* The assignments of ShiftRows and of its inverse: what each byte is read from.
ShiftRows(s) ==
  << s[1], s[6], s[11], s[16], s[5], s[10], s[15], s[4],
     s[9], s[14], s[3], s[8], s[13], s[2], s[7], s[12] >>

InvShiftRows(s) ==
  << s[1], s[14], s[11], s[8], s[5], s[2], s[15], s[12],
     s[9], s[6], s[3], s[16], s[13], s[10], s[7], s[4] >>

xtime(x) == XorByte((2 * x) % 256, ((x \div 128) % 2) * 27)

EachColumn(Mixed(_, _, _, _), s) ==
  Mixed(s[1], s[2], s[3], s[4]) \o Mixed(s[5], s[6], s[7], s[8])
    \o Mixed(s[9], s[10], s[11], s[12]) \o Mixed(s[13], s[14], s[15], s[16])

MixColumns(state) ==
  LET column(a, b, c, d) ==
        LET Tmp == XorByte(XorByte(a, b), XorByte(c, d))
            new(x, y) == XorByte(x, XorByte(xtime(XorByte(x, y)), Tmp))
        IN << new(a, b), new(b, c), new(c, d), new(d, a) >>
  IN EachColumn(column, state)

\* The product of x by a number below 32.
Multiply(x, y) ==
  LET times(bit, p) == ((y \div bit) % 2) * p
      x2 == xtime(x)
      x4 == xtime(x2)
      x8 == xtime(x4)
  IN XorByte(XorByte(times(1, x), times(2, x2)),
             XorByte(XorByte(times(4, x4), times(8, x8)), times(16, xtime(x8))))

InvMixColumns(state) ==
  LET sum(a, b, c, d) ==
        XorByte(XorByte(Multiply(a, 14), Multiply(b, 11)),
                XorByte(Multiply(c, 13), Multiply(d, 9)))
      column(a, b, c, d) == << sum(a, b, c, d), sum(b, c, d, a), sum(c, d, a, b), sum(d, a, b, c) >>
  IN EachColumn(column, state)

Cipher(state, RoundKey) ==
  LET rounds[s \in Seq(Byte), n \in 1 .. Nr] ==
        LET shifted == ShiftRows(SubBytes(s))
        IN IF n = Nr THEN AddRoundKey(Nr, shifted, RoundKey)
           ELSE rounds[AddRoundKey(n, MixColumns(shifted), RoundKey), n + 1]
  IN rounds[AddRoundKey(0, state, RoundKey), 1]

InvCipher(state, RoundKey) ==
  LET rounds[s \in Seq(Byte), n \in 0 .. Nr] ==
        LET added == AddRoundKey(n, InvSubBytes(InvShiftRows(s)), RoundKey)
        IN IF n = 0 THEN added ELSE rounds[InvMixColumns(added), n - 1]
  IN rounds[AddRoundKey(Nr, state, RoundKey), Nr - 1]

-------------------------------------------------------------------------------
(* The modes.  A buffer is a sequence of bytes; each function returns the   *)
(* context it leaves and the buffer it writes.                              *)

BlockAt(buf, i) == SubSeq(buf, i + 1, i + 16)

XorWithIv(buf, Iv) == XorBlock(buf, Iv)

AES_CBC_encrypt_buffer(c, buf) ==
  LET loop[out \in Seq(Byte), Iv \in Seq(Byte), i \in Nat] ==
        IF i >= Len(buf) THEN [ out |-> out, ctx |-> [ c EXCEPT !.Iv = Iv ] ]
        ELSE LET b == Cipher(XorWithIv(BlockAt(buf, i), Iv), c.RoundKey)
             IN loop[out \o b, b, i + 16]
  IN loop[<< >>, c.Iv, 0]

AES_CBC_decrypt_buffer(c, buf) ==
  LET loop[out \in Seq(Byte), Iv \in Seq(Byte), i \in Nat] ==
        IF i >= Len(buf) THEN [ out |-> out, ctx |-> [ c EXCEPT !.Iv = Iv ] ]
        ELSE LET storeNextIv == BlockAt(buf, i)
             IN loop[out \o XorWithIv(InvCipher(storeNextIv, c.RoundKey), Iv), storeNextIv, i + 16]
  IN loop[<< >>, c.Iv, 0]

\* (Mutant: the overflow of the last byte is not carried.)
IncrementedByte(Iv) == [ Iv EXCEPT ![16] = (@ + 1) % 256 ]

\* The loop that adds one to the counter: byte bi, and the next one on overflow.
Incremented(Iv) ==
  LET loop[v \in Seq(Byte), bi \in 0 .. 16] ==
        IF bi = 0 THEN v
        ELSE IF v[bi] = 255 THEN loop[[ v EXCEPT ![bi] = 0 ], bi - 1]
        ELSE [ v EXCEPT ![bi] = @ + 1 ]
  IN loop[Iv, 16]

\* A new block of the key stream at the start of the call and after every 16
\* bytes; what is left of the last one is lost at the end of the call.
AES_CTR_xcrypt_buffer(c, buf) ==
  LET loop[out \in Seq(Byte), Iv \in Seq(Byte), buffer \in Seq(Byte), i \in Nat] ==
        IF i = Len(buf) THEN [ out |-> out, ctx |-> [ c EXCEPT !.Iv = Iv ] ]
        ELSE IF i % 16 = 0 /\ Len(buffer) < i + 16
          THEN loop[out, Incremented(Iv), buffer \o Cipher(Iv, c.RoundKey), i]
        ELSE loop[Append(out, XorByte(buf[i + 1], buffer[i + 1])), Iv, buffer, i + 1]
  IN loop[<< >>, c.Iv, << >>, 0]

-------------------------------------------------------------------------------
(* A program that uses one context: it sets the vector and gives one mode   *)
(* the bytes of a text, call after call.                                    *)

TinyModes == { "CBC encrypt", "CBC decrypt", "CTR" }

\* The bytes of the text, and those a call is given after the first `from`.
TextByte(i) == ((7 * i) + (3 * (i \div 16))) % 256

TextBytes(from, n) == SubSeq([ i \in 1 .. n |-> TextByte(from + i) ], 1, n)

Started(number, mode, key, iv) ==
  [ number |-> number, mode |-> mode, key |-> key, iv |-> iv, calls |-> << >>, out |-> << >> ]

\* Another text is started, once something of the last one was given.
Restarted(mode, key, iv) ==
  /\ stream.number < MaxStreams /\ stream.calls # << >>
  /\ stream' = Started(stream.number + 1, mode, key, iv)

NoBlock == [ given |-> << >>, encrypted |-> << >>, decrypted |-> << >> ]

TinyInit ==
  /\ \E key \in TinyKeys, iv \in TinyIvs, mode \in TinyModes :
       /\ ctx = [ RoundKey |-> KeyExpansion(key), Iv |-> iv ]
       /\ stream = Started(1, mode, key, iv)
  /\ block = NoBlock

AES_init_ctx_iv(key, iv, mode) ==
  /\ ctx' = [ RoundKey |-> KeyExpansion(key), Iv |-> iv ]
  /\ Restarted(mode, key, iv)
  /\ block' = NoBlock

\* The key is changed and the vector kept: what follows is a new text under the
\* vector that the last call left.
AES_init_ctx(key) ==
  /\ ctx' = [ ctx EXCEPT !.RoundKey = KeyExpansion(key) ]
  /\ Restarted(stream.mode, key, ctx.Iv)
  /\ block' = NoBlock

AES_ctx_set_iv(iv, mode) ==
  /\ ctx' = [ ctx EXCEPT !.Iv = iv ]
  /\ Restarted(mode, stream.key, iv)
  /\ block' = NoBlock

Sum(lengths) ==
  LET f[i \in 0 .. Len(lengths)] == IF i = 0 THEN 0 ELSE f[i - 1] + lengths[i] IN f[Len(lengths)]

\* One call of the mode's function: the CBC mode takes whole blocks.
Crypt(n) ==
  LET from == Sum(stream.calls)
      buf == TextBytes(from, n)
      result == CASE stream.mode = "CBC encrypt" -> AES_CBC_encrypt_buffer(ctx, buf)
                  [] stream.mode = "CBC decrypt" -> AES_CBC_decrypt_buffer(ctx, buf)
                  [] stream.mode = "CTR" -> AES_CTR_xcrypt_buffer(ctx, buf)
  IN /\ stream.mode # "CTR" => n % 16 = 0
     /\ from + n <= MaxTinyBytes
     /\ ctx' = result.ctx
     /\ stream' = [ stream EXCEPT !.calls = Append(@, n), !.out = @ \o result.out ]
     /\ UNCHANGED block

\* A block encrypted in place; the same block decrypted again.
AES_ECB_encrypt(buf) ==
  /\ block.given = << >>
  /\ block' = [ given |-> buf, encrypted |-> Cipher(buf, ctx.RoundKey), decrypted |-> << >> ]
  /\ UNCHANGED << ctx, stream >>

AES_ECB_decrypt ==
  /\ block.given # << >> /\ block.decrypted = << >>
  /\ block' = [ block EXCEPT !.decrypted = InvCipher(block.encrypted, ctx.RoundKey) ]
  /\ UNCHANGED << ctx, stream >>

TinyNext ==
  \/ \E key \in TinyKeys, iv \in TinyIvs, mode \in TinyModes :
       AES_init_ctx_iv(key, iv, mode)
  \/ \E key \in TinyKeys : AES_init_ctx(key)
  \/ \E iv \in TinyIvs, mode \in TinyModes : AES_ctx_set_iv(iv, mode)
  \/ \E n \in CallBytes : Crypt(n)
  \/ AES_ECB_encrypt(TextBytes(0, 16))
  \/ AES_ECB_decrypt

-------------------------------------------------------------------------------
(* The modes as SP 800-38A defines them, over the whole of what was given.  *)

\* The block of the key stream, or of the chain, that byte i of the text uses.
CounterOf(calls, i) ==
  LET before[j \in 0 .. Len(calls)] == IF j = 0 THEN 0 ELSE before[j - 1] + calls[j]
      blocks[j \in 0 .. Len(calls)] ==
        IF j = 0 THEN 0 ELSE blocks[j - 1] + ((calls[j] + 15) \div 16)
      call == CHOOSE j \in 1 .. Len(calls) : before[j - 1] < i /\ i <= before[j]
      byte == i - before[call - 1] - 1
  IN << blocks[call - 1] + (byte \div 16), (byte % 16) + 1 >>

ModeAgrees ==
  LET w == KeySchedule(stream.key)
      n == Len(stream.out)
      OutBlock(i) == BlockAt(stream.out, 16 * (i - 1))
      InBlock(i) == TextBytes(16 * (i - 1), 16)
      Linked(cipher(_), plain(_)) ==
        \A i \in 1 .. n \div 16 :
          cipher(i) = Encrypted(w, XorBlock(plain(i), IF i = 1 THEN stream.iv ELSE cipher(i - 1)))
  IN CASE stream.mode = "CBC encrypt" -> Linked(OutBlock, InBlock)
       [] stream.mode = "CBC decrypt" -> Linked(InBlock, OutBlock)
       [] stream.mode = "CTR" ->
            LET keyStream == SubSeq([ b \in 1 .. MaxTinyBytes |->
                               IF b <= Len(stream.calls) * 2 THEN
                                 Encrypted(w, CounterPlus(stream.iv, b - 1)) ELSE << >> ],
                               1, MaxTinyBytes)
            IN \A i \in 1 .. n :
                 LET at == CounterOf(stream.calls, i)
                 IN stream.out[i] = XorByte(TextByte(i), keyStream[at[1] + 1][at[2]])

\* Whatever the calls the text was cut into, what comes back is what the modes
\* of SP 800-38A define for the whole text, a key stream starting a new block
\* with each call; and a block that is encrypted comes back when it is decrypted
\* (AES_CBC_encrypt_buffer, AES_CBC_decrypt_buffer, AES_CTR_xcrypt_buffer).
TinyAesAgrees ==
  /\ Len(stream.out) = Sum(stream.calls)
  /\ ModeAgrees
  /\ block.given # << >> =>
       block.encrypted = Encrypted(KeySchedule(stream.key), block.given)
  /\ block.decrypted # << >> => block.decrypted = block.given
==============================================================================
