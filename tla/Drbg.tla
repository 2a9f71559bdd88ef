--------------------------------- MODULE Drbg ---------------------------------
(***************************************************************************)
(* The random bytes of McEliece: the counter-mode generator nistkatrng.c   *)
(* and the seed expander nistseedexpander.c.  Both encrypt counters, and   *)
(* give parts of the encrypted blocks out.  The cipher is a function: what *)
(* it returns is named by what it was asked, << key, counter >>.  A byte   *)
(* of a counter has Radix values, so that carries happen, a block has      *)
(* BlockBytes bytes, and the cipher's outputs that become the generator's  *)
(* next key and counter are a key that was never used and any counter.     *)
(***************************************************************************)
EXTENDS Naturals, Sequences

CONSTANTS
  Radix,          \* the values of a byte of a counter
  Width,          \* the bytes of a counter, and of the length an expander is made for
  BlockBytes,     \* the bytes of a block of the cipher
  Requests,       \* the numbers of bytes that are asked for
  Starts,         \* the counters an update may leave
  MaxUpdates,     \* the updates of the generator, at most
  MaxLengths      \* the lengths an expander may be made for

VARIABLES
  DRBG_ctx,       \* the generator's Key, by its serial number, and V
  asked,          \* what the generator asked the cipher, in order
  given,          \* the bytes it gave out: << query, position in the block >>
  installed,      \* the queries its keys and counters were made of
  xof,            \* the seed expander
  expanded,       \* the bytes it gave out: << query, position in the block >>
  encrypted       \* what the expanders made under one seed asked the cipher: << length, counter >>

drbgVars == << DRBG_ctx, asked, given, installed, xof, expanded, encrypted >>

\* What one in the byte that k others follow counts, Radix to the power k.
Place ==
  LET place[k \in 0 .. Width] == IF k = 0 THEN 1 ELSE Radix * place[k - 1]
  IN  place

Counters == [ 1 .. Width -> 0 .. Radix - 1 ]

\* The blocks that n bytes begin.
BlocksOf(n) == (n + BlockBytes - 1) \div BlockBytes

\* No request comes near the number of all counters (2^128 of them, for a size_t
\* of bytes), and lengths fit their bytes (nistseedexpander.c 17: less than 2^32).
ASSUME DrbgAssumption ==
  /\ Radix \in Nat \ {0, 1} /\ Width \in Nat \ {0} /\ BlockBytes \in Nat \ {0}
  /\ Requests \subseteq Nat /\ 3 <= Place[Width]
  /\ \A n \in Requests : BlocksOf(n) + 3 <= Place[Width]
  /\ MaxLengths \subseteq 0 .. Place[Width] - 1
  /\ MaxUpdates \in Nat /\ Starts \subseteq Counters

NoCounter == [ j \in 1 .. Width |-> 0 ]

\* (Mutant: the last byte wraps without a carry.)
IncrementLast(ctr) == [ ctr EXCEPT ![Width] = (@ + 1) % Radix ]

\* One is added to a counter: its last byte is the least significant one, and the
\* loop reaches a byte when all behind it have wrapped.
Increment(ctr) ==
  [ j \in 1 .. Width |->
      IF \A i \in j + 1 .. Width : ctr[i] = Radix - 1 THEN (ctr[j] + 1) % Radix ELSE ctr[j] ]

\* V after n increments.
After(V, n) ==
  LET v[k \in 0 .. n] == IF k = 0 THEN V ELSE Increment(v[k - 1])
  IN  v[n]

-------------------------------------------------------------------------------
(* nistkatrng.c.                                                            *)

\* Three more counters are encrypted: the blocks are the next key, and the counter.
AES256_CTR_DRBG_Update(Key, V, before) ==
  LET temp == [ i \in 1 .. 3 |-> << Key, After(V, i) >> ]
  IN /\ \E start \in Starts : DRBG_ctx' = [ Key |-> Key + 1, V |-> start ]
     /\ asked' = asked \o before \o temp
     /\ installed' = installed \cup { temp[i] : i \in 1 .. 3 }

\* The key and the counter are zero, and then updated with the seed.
nist_kat_init ==
  /\ DRBG_ctx.Key = 0
  /\ AES256_CTR_DRBG_Update(0, NoCounter, << >>)
  /\ UNCHANGED given

\* n bytes: for each block the counter is incremented and encrypted, of the last
\* one a part may be given out; then the key is updated.
randombytes(n) ==
  LET blocks == BlocksOf(n)
      block(k) == << DRBG_ctx.Key, After(DRBG_ctx.V, k) >>
      byte(i) == << block(1 + ((i - 1) \div BlockBytes)), (i - 1) % BlockBytes >>
  IN /\ DRBG_ctx.Key \in 1 .. MaxUpdates - 1
     /\ given' = given \o [ i \in 1 .. n |-> byte(i) ]
     /\ AES256_CTR_DRBG_Update(DRBG_ctx.Key, After(DRBG_ctx.V, blocks),
                               [ k \in 1 .. blocks |-> block(k) ])

-------------------------------------------------------------------------------
(* nistseedexpander.c.                                                      *)

\* A number as the Width bytes of a big-endian one.
Digits(number) == [ j \in 1 .. Width |-> (number \div Place[Width - j]) % Radix ]

NoXof == [ maxlen |-> 0, length_remaining |-> 0, prefix |-> Digits(0), ctr |-> NoCounter,
           buffer |-> << >>, buffer_pos |-> BlockBytes ]

\* The counter starts with the diversifier and the length and ends with zeros; the
\* buffer is read to its end.
seedexpander_init(maxlen) ==
  /\ \A i \in 1 .. Len(encrypted) : encrypted[i][1] # Digits(maxlen)
  /\ maxlen # xof.maxlen
  /\ xof' = [ NoXof EXCEPT !.maxlen = maxlen, !.length_remaining = maxlen,
                           !.prefix = Digits(maxlen) ]
  /\ expanded' = << >>
  /\ UNCHANGED encrypted

\* One round of the loop: what the buffer still has, if that is enough; if not, all
\* of it, and then the next block.  XLEN bytes are wanted, OUT are there.
Taken(x, n) == [ i \in 1 .. n |-> << x.buffer, x.buffer_pos + i - 1 >> ]

Round(s) ==
  LET left == BlockBytes - s.x.buffer_pos
      block == << s.x.prefix, s.x.ctr >>
  IN IF s.xlen <= left
     THEN [ s EXCEPT !.x.buffer_pos = @ + s.xlen, !.out = @ \o Taken(s.x, s.xlen), !.xlen = 0 ]
     ELSE [ x |-> [ s.x EXCEPT !.buffer = block, !.buffer_pos = 0, !.ctr = Increment(@) ],
            out |-> s.out \o Taken(s.x, left), queries |-> Append(s.queries, block),
            xlen |-> s.xlen - left ]

\* No byte is missing after as many rounds as bytes and one.
Expand(x, xlen) ==
  LET after[k \in 0 .. xlen + 1] ==
        IF k = 0 THEN [ x |-> x, out |-> << >>, queries |-> << >>, xlen |-> xlen ]
        ELSE IF after[k - 1].xlen = 0 THEN after[k - 1] ELSE Round(after[k - 1])
  IN  after[xlen + 1]

\* A request for all that remains, or for more, is refused.
seedexpander(xlen) ==
  LET answer == Expand([ xof EXCEPT !.length_remaining = @ - xlen ], xlen)
  IN /\ xlen < xof.length_remaining
     /\ xof' = answer.x
     /\ expanded' = expanded \o answer.out
     /\ encrypted' = encrypted \o answer.queries

-------------------------------------------------------------------------------

DrbgInit ==
  /\ DRBG_ctx = [ Key |-> 0, V |-> NoCounter ]
  /\ asked = << >> /\ given = << >> /\ installed = { }
  /\ xof = NoXof /\ expanded = << >> /\ encrypted = << >>

DrbgNext ==
  \/ /\ nist_kat_init \/ \E n \in Requests : randombytes(n)
     /\ UNCHANGED << xof, expanded, encrypted >>
  \/ /\ \/ \E maxlen \in MaxLengths : seedexpander_init(maxlen)
        \/ \E xlen \in Requests \ {0} : seedexpander(xlen)
     /\ UNCHANGED << DRBG_ctx, asked, given, installed >>

-------------------------------------------------------------------------------

Distinct(s) == \A i, j \in 1 .. Len(s) : s[i] = s[j] => i = j

\* No counter is encrypted twice under a key, by the generator or by expanders of
\* one seed made for different lengths, whatever carries the requests lead to; no
\* byte is given out twice, and none of a block the next key was made of; and the
\* bytes of an expander are those of the consecutive blocks, in whatever pieces they
\* are asked for.
NoBlockTwice ==
  /\ Distinct(asked) /\ Distinct(given) /\ Distinct(encrypted)
  /\ \A i \in 1 .. Len(given) : given[i][1] \notin installed
  /\ \A i \in 1 .. Len(expanded) :
       expanded[i] = << << Digits(xof.maxlen), Digits((i - 1) \div BlockBytes) >>,
                        (i - 1) % BlockBytes >>
===============================================================================
