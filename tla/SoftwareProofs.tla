---------------------------- MODULE SoftwareProofs ----------------------------
(***************************************************************************)
(* Three of the programs of Software, for every value of the constants.    *)
(*                                                                         *)
(* The sponges give out what FIPS 202 and SP 800-185 have for the whole    *)
(* message (SpongesAreStandard), for every rate, domain byte, digest and   *)
(* size of a call.  A context that absorbs holds the permutations of the   *)
(* blocks the message fills and the marks of the rest of it (Absorbing);   *)
(* absorbing more of it in any pieces keeps that (the loop's rounds are    *)
(* FilledUp's), finalizing it makes the padded last block, and a context   *)
(* that squeezes is a number of blocks into the output with a number of    *)
(* bytes of the last one left (Squeezing, of the states Stage).  Faithful  *)
(* says so of a client's context in each of its phases, and that what it   *)
(* has got is a prefix of the output; a clone is as faithful.              *)
(*                                                                         *)
(* McEliece's random bytes, for every size of a byte, a counter and a      *)
(* block: neither nistkatrng.c nor nistseedexpander.c has a counter        *)
(* encrypted twice, or gives a byte out twice.                             *)
(*                                                                         *)
(* A counter is the number its bytes write (Digits), incrementing it adds  *)
(* one (IncrementAdds), and numbers that are less than all counters apart  *)
(* are different counters (CountersDiffer).  What the generator asks under *)
(* one key are therefore the numbers that follow one another, which no     *)
(* request exhausts (RequestKeeps), and other keys are other queries.      *)
(* What the expander has read is a prefix of the blocks of the numbers     *)
(* from 0 on, and its buffer is the last of them (XofInv); its loop is     *)
(* followed round by round (LoopInv), and ends within a round per byte and *)
(* one (Wants).                                                            *)
(*                                                                         *)
(* SHA-256: the digests of the contexts and of VersatSHA are the standard's *)
(* (DigestsAreStandard); ShaProofs has the argument, and here its steps are *)
(* those of two of the programs.                                           *)
(***************************************************************************)
EXTENDS Software, ShaProofs

-----------------------------------------------------------------------------
(* Marks.                                                                   *)
ZeroByte == <<"b", 0>>
Sponged(ps, mk) == [ past |-> ps, marks |-> mk ]
Laid(at, m) == { Placed(at + (i - 1), m[i]) : i \in { j \in 1 .. Len(m) : m[j] # ZeroByte } }

LEMMA IntoIs ==
  ASSUME NEW ps, NEW mk, NEW at, NEW m
  PROVE  Into(Sponged(ps, mk), at, m) = Sponged(ps, Xor(mk, Laid(at, m)))
  BY DEF Into, Sponged, Laid, ZeroByte

LEMMA PermutedIs ==
  ASSUME NEW ps, NEW mk
  PROVE  Permuted(Sponged(ps, mk)) = Sponged(Append(ps, mk), {})
  BY DEF Permuted, Sponged

LEMMA ByteOfPermuted ==
  ASSUME NEW ps, NEW pos
  PROVE  ByteAt(Sponged(ps, {}), pos) = << ps, pos, {} >>
  BY DEF ByteAt, Sponged

LEMMA ZeroedIs == Zeroed = Sponged(<< >>, {})
  BY DEF Zeroed, Sponged

LEMMA SpongedFields ==
  ASSUME NEW ps, NEW mk
  PROVE  Sponged(ps, mk).past = ps /\ Sponged(ps, mk).marks = mk
  BY DEF Sponged

LEMMA LaneIs == LaneBytes \in Nat \ {0}
  BY SpongeAssumption

LEMMA PlacedApart ==
  ASSUME NEW a \in Nat, NEW b \in Nat, NEW x, NEW y, Placed(a, x) = Placed(b, y)
  PROVE  a = b /\ x = y
<1>1. a \div LaneBytes = b \div LaneBytes /\ a % LaneBytes = b % LaneBytes /\ x = y
  BY DEF Placed
<1>2. PICK l \in Nat \ {0} : l = LaneBytes
  BY LaneIs
<1>3. PICK q \in Nat, u \in 0 .. l - 1 : q = a \div l /\ u = a % l /\ a = l * q + u
  BY Quotients
<1>4. PICK w \in Nat, v \in 0 .. l - 1 : w = b \div l /\ v = b % l /\ b = l * w + v
  BY Quotients
<1>5. q = w /\ u = v
  BY <1>1, <1>2, <1>3, <1>4
<1>6. QED
  BY <1>1, <1>3, <1>4, <1>5

LEMMA AllApart ==
  \A a, b \in Nat : \A x, y : Placed(a, x) = Placed(b, y) => a = b /\ x = y
  BY PlacedApart

\* Marks at different positions: none cancels another.
LEMMA XorApart ==
  ASSUME NEW A, NEW B, \A x \in A : x \notin B
  PROVE  Xor(A, B) = A \cup B
  BY DEF Xor

LEMMA XorNone == \A A : Xor(A, {}) = A
  BY DEF Xor

(* The marks of the r bytes of m that b bytes precede.                      *)
Filled(m, r, b) ==
  { Placed(u, m[b + u + 1]) : u \in { v \in 0 .. r - 1 : b + v < Len(m) /\ m[b + v + 1] # ZeroByte } }

\* What is laid behind n bytes of a block that begins after b bytes.
LEMMA LaidBehind ==
  ASSUME NEW S, NEW m \in Seq(S), NEW d \in Seq(S), NEW r \in Nat \ {0}, NEW b \in Nat,
         NEW n \in Nat, NEW l \in Nat, n + l <= r, HasLength(m, b + n), HasLength(d, l)
  PROVE  Xor(Filled(m, r, b), Laid(n, d)) = Filled(m \o d, r, b)
<1> DEFINE e == m \o d
<1>1. PICK lm \in Nat, ld \in Nat : lm = Len(m) /\ ld = Len(d) /\ lm = b + n /\ n + ld <= r
  BY DEF HasLength
<1>2. /\ Len(e) = lm + ld /\ \A i \in 1 .. lm : e[i] = m[i]
      /\ \A k \in 1 .. ld : e[lm + k] = d[k]
  <2>1. lm = Len(m) /\ ld = Len(d)
    BY <1>1
  <2>2. QED
    BY <2>1, Concatenated
<1> HIDE DEF e
<1> DEFINE A == Filled(m, r, b)
           B == Laid(n, d)
           C == Filled(e, r, b)
<1>3. ASSUME NEW x \in A
      PROVE  \E u \in 0 .. n - 1 : x = Placed(u, m[b + u + 1]) /\ m[b + u + 1] # ZeroByte
  <2>1. PICK u \in 0 .. r - 1 : b + u < lm /\ m[b + u + 1] # ZeroByte /\ x = Placed(u, m[b + u + 1])
    BY <1>1, <1>3 DEF Filled
  <2>2. u \in 0 .. n - 1
    BY <1>1, <2>1
  <2>3. QED
    BY <2>1, <2>2
<1>4. ASSUME NEW x \in B
      PROVE  \E i \in 1 .. ld : x = Placed(n + (i - 1), d[i]) /\ d[i] # ZeroByte
  BY <1>1, <1>4 DEF Laid
<1>5. ASSUME NEW x \in A, x \in B PROVE FALSE
  <2>1. PICK u \in 0 .. n - 1 : x = Placed(u, m[b + u + 1])
    BY <1>3
  <2>2. PICK i \in 1 .. ld : x = Placed(n + (i - 1), d[i])
    BY <1>4, <1>5
  <2>3. PICK j \in Nat : j = n + (i - 1) /\ u \in Nat /\ u # j
    OBVIOUS
  <2>4. x = Placed(j, d[i]) /\ x = Placed(u, m[b + u + 1])
    BY <2>1, <2>2, <2>3
  <2>5. PICK y, z : Placed(u, y) = Placed(j, z)
    BY <2>4
  <2>6. QED
    BY <2>3, <2>5, AllApart
<1>6. A \cup B = C
  <2>1. ASSUME NEW x \in A PROVE x \in C
    <3>1. PICK u \in 0 .. n - 1 : x = Placed(u, m[b + u + 1]) /\ m[b + u + 1] # ZeroByte
      BY <1>3
    <3>2. b + u + 1 \in 1 .. lm /\ u \in 0 .. r - 1 /\ b + u < lm + ld
      BY <1>1
    <3>3. e[b + u + 1] = m[b + u + 1]
      BY <1>2, <3>2
    <3>4. QED
      BY <1>2, <3>1, <3>2, <3>3 DEF Filled
  <2>2. ASSUME NEW x \in B PROVE x \in C
    <3>1. PICK i \in 1 .. ld : x = Placed(n + (i - 1), d[i]) /\ d[i] # ZeroByte
      BY <1>4, <2>2
    <3>2. PICK u \in 0 .. r - 1 : u = n + (i - 1) /\ b + u + 1 = lm + i /\ b + u < lm + ld
      BY <1>1
    <3>3. e[b + u + 1] = d[i]
      BY <1>2, <3>2
    <3>4. QED
      BY <1>2, <3>1, <3>2, <3>3 DEF Filled
  <2>3. ASSUME NEW x \in C PROVE x \in A \cup B
    <3>1. PICK u \in 0 .. r - 1 : b + u < lm + ld /\ e[b + u + 1] # ZeroByte
                                  /\ x = Placed(u, e[b + u + 1])
      BY <1>2, <2>3 DEF Filled
    <3>2. CASE u < n
      <4>1. b + u + 1 \in 1 .. lm /\ b + u < lm
        BY <1>1, <3>2
      <4>2. e[b + u + 1] = m[b + u + 1]
        BY <1>2, <4>1
      <4>3. QED
        BY <1>1, <3>1, <4>1, <4>2 DEF Filled
    <3>3. CASE u >= n
      <4>1. PICK i \in 1 .. ld : i = u - n + 1
        BY <1>1, <3>1, <3>3
      <4>2. b + u + 1 = lm + i /\ u = n + (i - 1)
        BY <1>1, <4>1
      <4>3. e[b + u + 1] = d[i]
        BY <1>2, <4>2
      <4>4. QED
        BY <1>1, <3>1, <4>2, <4>3 DEF Laid
    <3>4. QED
      BY <3>2, <3>3
  <2>4. QED
    BY <2>1, <2>2, <2>3
<1>7. QED
  <2> HIDE DEF A, B, C
  <2>1. Xor(A, B) = C
    BY <1>5, <1>6, XorApart
  <2>2. QED
    BY <2>1 DEF A, B, C, e

LEMMA FilledEarlier ==
  ASSUME NEW S, NEW m \in Seq(S), NEW d \in Seq(S), NEW r \in Nat, NEW b \in Nat,
         NEW n \in Nat, HasLength(m, n), b + r <= n
  PROVE  Filled(m \o d, r, b) = Filled(m, r, b)
<1>1. PICK e : e = m \o d
  OBVIOUS
<1>2. PICK l \in Nat : l = n /\ Len(m) = l
  BY DEF HasLength
<1>3. PICK k \in Nat : Len(e) = l + k
  <2>1. Len(e) = Len(m) + Len(d) /\ Len(d) \in Nat
    BY <1>1, Concatenated
  <2>2. QED
    BY <1>2, <2>1
<1>4. \A i \in 1 .. l : e[i] = m[i]
  BY <1>1, <1>2, Concatenated
<1>5. \A v \in 0 .. r - 1 : b + v < l /\ b + v < l + k /\ e[b + v + 1] = m[b + v + 1]
  <2>1. \A v \in 0 .. r - 1 : b + v < l /\ b + v < l + k /\ b + v + 1 \in 1 .. l
    BY <1>2
  <2>2. QED
    BY <1>4, <2>1
<1>6. Filled(e, r, b) = Filled(m, r, b)
  BY <1>2, <1>3, <1>5 DEF Filled
<1>7. QED
  BY <1>1, <1>6

LEMMA FilledNone ==
  ASSUME NEW m, NEW r \in Nat, NEW b \in Nat, NEW n \in Nat, HasLength(m, n), n <= b
  PROVE  Filled(m, r, b) = {}
<1>1. PICK l \in Nat : l = n /\ Len(m) = l
  BY DEF HasLength
<1>2. QED
  BY <1>1 DEF Filled

(* A sponge that absorbed m, which has q blocks and less than one more.     *)
Absorption(m, r, q) ==
  Sponged([ k \in 1 .. q |-> Filled(m, r, r * (k - 1)) ], Filled(m, r, r * q))

LEMMA LengthsAdd ==
  ASSUME NEW S, NEW m \in Seq(S), NEW d \in Seq(S), NEW n, NEW l, HasLength(m, n), HasLength(d, l)
  PROVE  m \o d \in Seq(S) /\ HasLength(m \o d, n + l)
<1>1. Len(m \o d) = Len(m) + Len(d) /\ m \o d \in Seq(S)
  BY Concatenated
<1>2. QED
  BY <1>1, Zenon DEF HasLength

LEMMA Unfilled ==
  ASSUME NEW S, NEW m \in Seq(S), NEW d \in Seq(S), NEW r \in Nat \ {0}, NEW q \in Nat,
         NEW n \in Nat, NEW l \in Nat, n + l <= r, HasLength(m, r * q + n), HasLength(d, l)
  PROVE  Into(Absorption(m, r, q), n, d) = Absorption(m \o d, r, q)
<1>1. PICK b \in Nat : b = r * q
  OBVIOUS
<1>2. HasLength(m, b + n)
  BY <1>1
<1>3. Xor(Filled(m, r, b), Laid(n, d)) = Filled(m \o d, r, b)
  BY <1>2, LaidBehind
<1>4. ASSUME NEW k \in 1 .. q PROVE Filled(m \o d, r, r * (k - 1)) = Filled(m, r, r * (k - 1))
  <2>1. k - 1 \in Nat /\ k \in Nat /\ k <= q /\ r * k = r * (k - 1) + r
    OBVIOUS
  <2>2. r * k \in Nat /\ r * k <= r * q
    BY <2>1, Products
  <2>3. PICK a \in Nat : a = r * (k - 1) /\ a + r <= b
    <3>1. r * (k - 1) \in Nat
      BY <2>1
    <3>2. QED
      BY <1>1, <2>1, <2>2, <3>1
  <2>4. b + n \in Nat /\ a + r <= b + n
    BY <2>3
  <2>5. PICK w \in Nat : w = b + n /\ a + r <= w /\ HasLength(m, w)
    BY <1>2, <2>4
  <2>6. Filled(m \o d, r, a) = Filled(m, r, a)
    BY <2>5, FilledEarlier
  <2>7. QED
    BY <2>3, <2>6
<1>5. [ k \in 1 .. q |-> Filled(m \o d, r, r * (k - 1)) ] = [ k \in 1 .. q |-> Filled(m, r, r * (k - 1)) ]
  BY <1>4
<1>6. PICK ps, qs : /\ ps = [ k \in 1 .. q |-> Filled(m, r, r * (k - 1)) ]
                    /\ qs = [ k \in 1 .. q |-> Filled(m \o d, r, r * (k - 1)) ]
  OBVIOUS
<1>7. Absorption(m, r, q) = Sponged(ps, Filled(m, r, b))
  BY <1>1, <1>6 DEF Absorption
<1>8. Absorption(m \o d, r, q) = Sponged(qs, Filled(m \o d, r, b))
  BY <1>1, <1>6 DEF Absorption
<1>9. Into(Sponged(ps, Filled(m, r, b)), n, d) = Sponged(ps, Xor(Filled(m, r, b), Laid(n, d)))
  BY IntoIs
<1>10. ps = qs
  BY <1>5, <1>6
<1>11. QED
  BY <1>3, <1>7, <1>8, <1>9, <1>10

LEMMA BlockEnds ==
  ASSUME NEW S, NEW m \in Seq(S), NEW r \in Nat \ {0}, NEW q \in Nat,
         HasLength(m, r * (q + 1))
  PROVE  Permuted(Absorption(m, r, q)) = Absorption(m, r, q + 1)
<1> DEFINE E == [ k \in Nat |-> Filled(m, r, r * (k - 1)) ]
           ps == [ k \in 1 .. q |-> Filled(m, r, r * (k - 1)) ]
           qs == [ k \in 1 .. q + 1 |-> Filled(m, r, r * (k - 1)) ]
<1>1. ps = [ k \in 1 .. q |-> E[k] ] /\ qs = [ k \in 1 .. q + 1 |-> E[k] ]
  OBVIOUS
<1>2. E[q + 1] = Filled(m, r, r * q)
  <2>1. q + 1 \in Nat /\ (q + 1) - 1 = q
    OBVIOUS
  <2>2. QED
    BY <2>1
<1> HIDE DEF E
<1>3. Append(ps, Filled(m, r, r * q)) = qs
  <2> HIDE DEF ps, qs
  <2>1. Append([ k \in 1 .. q |-> E[k] ], E[q + 1]) = [ k \in 1 .. q + 1 |-> E[k] ]
    BY Longer
  <2>2. QED
    BY <1>1, <1>2, <2>1
<1>4. Filled(m, r, r * (q + 1)) = {}
  <2>1. PICK b \in Nat : b = r * (q + 1)
    OBVIOUS
  <2>2. b <= b /\ HasLength(m, b)
    BY <2>1
  <2>3. Filled(m, r, b) = {}
    BY <2>2, FilledNone
  <2>4. QED
    BY <2>1, <2>3
<1>5. Absorption(m, r, q) = Sponged(ps, Filled(m, r, r * q))
      /\ Absorption(m, r, q + 1) = Sponged(qs, Filled(m, r, r * (q + 1)))
  BY DEF Absorption
<1> HIDE DEF ps, qs
<1>6. Permuted(Sponged(ps, Filled(m, r, r * q))) = Sponged(Append(ps, Filled(m, r, r * q)), {})
  BY PermutedIs
<1>7. QED
  BY <1>3, <1>4, <1>5, <1>6

LEMMA OneBlock ==
  ASSUME NEW S, NEW m \in Seq(S), NEW d \in Seq(S), NEW r \in Nat \ {0}, NEW q \in Nat,
         NEW n \in 0 .. r, HasLength(m, r * q + n), HasLength(d, r - n)
  PROVE  /\ Permuted(Into(Absorption(m, r, q), n, d)) = Absorption(m \o d, r, q + 1)
         /\ HasLength(m \o d, r * (q + 1)) /\ m \o d \in Seq(S)
<1>1. PICK l \in Nat : l = r - n /\ n + l <= r /\ n \in Nat
  OBVIOUS
<1>2. HasLength(d, l)
  BY <1>1
<1>3. Into(Absorption(m, r, q), n, d) = Absorption(m \o d, r, q)
  BY <1>1, <1>2, Unfilled
<1>4. HasLength(m \o d, (r * q + n) + l) /\ m \o d \in Seq(S)
  <2>1. PICK a : a = r * q + n
    OBVIOUS
  <2>2. HasLength(m, a)
    BY <2>1
  <2>3. m \o d \in Seq(S) /\ HasLength(m \o d, a + l)
    BY <1>2, <2>2, LengthsAdd
  <2>4. QED
    BY <2>1, <2>3
<1>5. (r * q + n) + l = r * (q + 1)
  <2>1. r * (q + 1) = r * q + r /\ r * q \in Nat
    OBVIOUS
  <2>2. QED
    BY <1>1, <2>1
<1>6. HasLength(m \o d, r * (q + 1)) /\ m \o d \in Seq(S)
  BY <1>4, <1>5
<1>7. PICK e : e = m \o d
  OBVIOUS
<1>8. Permuted(Absorption(e, r, q)) = Absorption(e, r, q + 1)
  BY <1>6, <1>7, BlockEnds
<1>9. QED
  BY <1>3, <1>6, <1>7, <1>8
-----------------------------------------------------------------------------
(* The incremental absorbing.                                               *)

(* The state with the number behind it.                                     *)
Context(s, n) == [ s |-> s, n |-> n ]

LEMMA ContextFields ==
  ASSUME NEW s, NEW n
  PROVE  Context(s, n).s = s /\ Context(s, n).n = n
  BY DEF Context

AbsorbedTo(x, n, r, m, k) ==
  Context(Permuted(Into(x.s, x.n, SubSeq(m, Consumed(n, r, k - 1) + 1, Consumed(n, r, k)))), 0)

Absorbs(f, c, r, m, t) ==
  f = [ k \in 0 .. t |-> IF k = 0 THEN c ELSE AbsorbedTo(f[k - 1], c.n, r, m, k) ]

LEMMA AbsorbChosen ==
  ASSUME NEW c, NEW r, NEW m, NEW t
  PROVE  FilledUp(c, r, m, t) = (CHOOSE f : Absorbs(f, c, r, m, t))[t]
  BY Zenon DEF FilledUp, Absorbs, AbsorbedTo, Context

LEMMA EndedIs ==
  ASSUME NEW x, NEW d
  PROVE  Ended(x, d) = Context(Into(x.s, x.n, d), x.n + Len(d))
  BY Zenon DEF Ended, Context

LEMMA AbsorbEnds ==
  ASSUME NEW c, NEW r, NEW m
  PROVE  keccak_inc_absorb(c, r, m)
           = Ended(FilledUp(c, r, m, Fillings(c, r, m)), Rest(c, r, m))
  BY DEF keccak_inc_absorb

\* g is a function of the numbers up to t.
Listed(g, t) == \E T : g \in [ 0 .. t -> T ]

Together(g, h, t) == h[0] = g[0] /\ \A k \in 1 .. t : h[k - 1] = g[k - 1] => h[k] = g[k]

LEMMA SameEnd ==
  ASSUME NEW t \in Nat, NEW g, NEW h, Together(g, h, t)
  PROVE  h[t] = g[t]
<1>1. h[0] = g[0] /\ \A k \in 1 .. t : h[k - 1] = g[k - 1] => h[k] = g[k]
  BY DEF Together
<1> DEFINE T == { k \in 0 .. t : h[k] = g[k] }
<1>2. 0 \in T
  BY <1>1
<1>3. ASSUME NEW n \in T, n < t PROVE n + 1 \in T
  <2>1. PICK k \in 1 .. t : k = n + 1 /\ n = k - 1
    BY <1>3
  <2>2. h[k - 1] = g[k - 1] => h[k] = g[k]
    BY <1>1
  <2>3. QED
    BY <1>3, <2>1, <2>2
<1>4. T = 0 .. t
  <2>1. T \subseteq 0 .. t
    OBVIOUS
  <2> HIDE DEF T
  <2>2. QED
    BY <1>2, <1>3, <2>1, UpTo
<1>5. t \in T
  BY <1>4
<1>6. QED
  BY <1>5

\* g[k] is the context after k fillings.
Goes(g, c, r, m, t) ==
  Listed(g, t) /\ g[0] = c /\ \A k \in 1 .. t : g[k] = AbsorbedTo(g[k - 1], c.n, r, m, k)

LEMMA AbsorbRounds ==
  ASSUME NEW c, NEW r, NEW m, NEW t \in Nat, NEW g, Goes(g, c, r, m, t)
  PROVE  FilledUp(c, r, m, t) = g[t]
<1>0. Listed(g, t) /\ g[0] = c /\ \A k \in 1 .. t : g[k] = AbsorbedTo(g[k - 1], c.n, r, m, k)
  BY DEF Goes
<1>1. Absorbs(g, c, r, m, t)
  <2>1. \A k \in 0 .. t : k # 0 => k \in 1 .. t
    OBVIOUS
  <2>2. \A k \in 0 .. t : g[k] = IF k = 0 THEN c ELSE AbsorbedTo(g[k - 1], c.n, r, m, k)
    BY <1>0, <2>1
  <2>3. PICK T : g \in [ 0 .. t -> T ]
    BY <1>0 DEF Listed
  <2>4. g = [ k \in 0 .. t |-> IF k = 0 THEN c ELSE AbsorbedTo(g[k - 1], c.n, r, m, k) ]
    BY <2>2, <2>3
  <2>5. QED
    BY <2>4, Zenon DEF Absorbs
<1>2. PICK h : h = CHOOSE f : Absorbs(f, c, r, m, t)
  OBVIOUS
<1>3. Absorbs(h, c, r, m, t)
  BY <1>1, <1>2
<1>4. h[0] = c /\ \A k \in 1 .. t : h[k] = AbsorbedTo(h[k - 1], c.n, r, m, k)
  <2>1. 0 \in 0 .. t /\ \A k \in 1 .. t : k \in 0 .. t /\ k # 0
    OBVIOUS
  <2>2. \A k \in 0 .. t : h[k] = IF k = 0 THEN c ELSE AbsorbedTo(h[k - 1], c.n, r, m, k)
    BY <1>3 DEF Absorbs
  <2>3. QED
    BY <2>1, <2>2
<1>5. h[0] = g[0]
  BY <1>0, <1>4
<1>6. \A k \in 1 .. t : h[k - 1] = g[k - 1] => h[k] = g[k]
  BY <1>0, <1>4
<1>7. Together(g, h, t)
  BY <1>5, <1>6 DEF Together
<1>8. h[t] = g[t]
  BY <1>7, SameEnd
<1>9. QED
  BY <1>2, <1>8, AbsorbChosen

Ahead(n, k) == IF k = 0 THEN n ELSE 0

\* Behind n bytes, l more make t blocks and u bytes.
Makes(n, l, r, t, u) == l + n = r * t + u

Advances(n, l, r, t, u) ==
  /\ Consumed(n, r, 0) = 0 /\ Ahead(n, 0) = n
  /\ \A k \in 0 .. t : /\ Consumed(n, r, k) \in Nat /\ Consumed(n, r, k) <= l
                      /\ Ahead(n, k) \in 0 .. r - 1
  /\ \A k \in 1 .. t : /\ Consumed(n, r, k - 1) <= Consumed(n, r, k)
                      /\ Consumed(n, r, k) - Consumed(n, r, k - 1) = r - Ahead(n, k - 1)
                      /\ Ahead(n, k) = 0
  /\ (l - Consumed(n, r, t)) + Ahead(n, t) = u

LEMMA ConsumedIs ==
  ASSUME NEW r \in Nat \ {0}, NEW n \in 0 .. r - 1, NEW l \in Nat,
         NEW t \in Nat, NEW u \in 0 .. r - 1, Makes(n, l, r, t, u)
  PROVE  Advances(n, l, r, t, u)
<1>a. l + n = r * t + u
  BY DEF Makes
<1>1. Consumed(n, r, 0) = 0 /\ Ahead(n, 0) = n
  BY DEF Consumed, Ahead
<1>2. \A k \in 0 .. t : k # 0 => Consumed(n, r, k) = k * r - n /\ Ahead(n, k) = 0
  BY DEF Consumed, Ahead
<1>3. ASSUME NEW k \in 0 .. t, k # 0
      PROVE  k * r \in Nat /\ k * r >= r /\ k * r <= l + n /\ (k - 1) * r = k * r - r
  <2>1. PICK j \in Nat : j = k - 1 /\ k = j + 1 /\ k \in Nat /\ k <= t
    BY <1>3
  <2>2. k * r = j * r + r /\ j * r \in Nat /\ k * r \in Nat
    BY <2>1
  <2>3. r * k <= r * t /\ r * k = k * r /\ r * t \in Nat
    BY <2>1, Products
  <2>4. QED
    BY <1>a, <2>1, <2>2, <2>3
<1>4. \A k \in 0 .. t : /\ Consumed(n, r, k) \in Nat /\ Consumed(n, r, k) <= l
                        /\ Ahead(n, k) \in 0 .. r - 1
  <2>1. ASSUME NEW k \in 0 .. t
        PROVE  /\ Consumed(n, r, k) \in Nat /\ Consumed(n, r, k) <= l
               /\ Ahead(n, k) \in 0 .. r - 1
    <3>1. CASE k = 0
      BY <1>1, <3>1
    <3>2. CASE k # 0
      <4>1. PICK w \in Nat : w = k * r /\ w >= r /\ w <= l + n
        BY <1>3, <3>2
      <4>2. Consumed(n, r, k) = w - n /\ Ahead(n, k) = 0
        BY <1>2, <3>2, <4>1
      <4>3. QED
        BY <4>1, <4>2
    <3>3. QED
      BY <3>1, <3>2
  <2>2. QED
    BY <2>1
<1>5. ASSUME NEW k \in 1 .. t
      PROVE  /\ Consumed(n, r, k - 1) <= Consumed(n, r, k)
             /\ Consumed(n, r, k) - Consumed(n, r, k - 1) = r - Ahead(n, k - 1)
             /\ Ahead(n, k) = 0
  <2>1. k \in 0 .. t /\ k # 0 /\ k - 1 \in 0 .. t
    OBVIOUS
  <2>2. PICK w \in Nat : w = k * r /\ w >= r /\ w <= l + n /\ (k - 1) * r = w - r
    BY <1>3, <2>1
  <2>3. Consumed(n, r, k) = w - n /\ Ahead(n, k) = 0
    BY <1>2, <2>1, <2>2
  <2>4. CASE k = 1
    <3>1. w = r /\ k - 1 = 0
      BY <2>2, <2>4
    <3>2. QED
      BY <1>1, <2>3, <3>1
  <2>5. CASE k # 1
    <3>1. PICK j \in 0 .. t : j = k - 1 /\ j # 0
      BY <2>1, <2>5
    <3>2. Consumed(n, r, j) = (w - r) - n /\ Ahead(n, j) = 0
      BY <1>2, <2>2, <3>1
    <3>3. QED
      BY <2>2, <2>3, <3>1, <3>2
  <2>6. QED
    BY <2>4, <2>5
<1>6. (l - Consumed(n, r, t)) + Ahead(n, t) = u
  <2>1. CASE t = 0
    BY <1>a, <1>1, <2>1
  <2>2. CASE t # 0
    <3>1. PICK w \in Nat : w = t * r /\ w = r * t
      BY <1>3, <2>2
    <3>2. Consumed(n, r, t) = w - n /\ Ahead(n, t) = 0
      BY <1>2, <2>2, <3>1
    <3>3. QED
      BY <1>a, <3>1, <3>2
  <2>3. QED
    BY <2>1, <2>2
<1>7. QED
  BY <1>1, <1>4, <1>5, <1>6 DEF Advances

(* One sequence behind another, a piece of one, one of q blocks and n bytes. *)
Blocked(m, r, q, n) == Len(m) = r * q + n

\* d behind n bytes of m ends the block.
EndsBlock(m, d, r, q, n, w) ==
  /\ Permuted(Into(Absorption(m, r, q), n, d)) = Absorption(Cat(m, d), r, w)
  /\ Blocked(Cat(m, d), r, w, 0)

LEMMA CatBlock ==
  ASSUME NEW S, NEW m \in Seq(S), NEW d \in Seq(S), NEW r \in Nat \ {0}, NEW q \in Nat,
         NEW n \in 0 .. r, Blocked(m, r, q, n), NEW l \in Nat, HasLength(d, l), l = r - n
  PROVE  EndsBlock(m, d, r, q, n, q + 1)
<1>1. HasLength(m, r * q + n)
  BY DEF HasLength, Blocked
<1>2. HasLength(d, r - n)
  OBVIOUS
<1>3. /\ Permuted(Into(Absorption(m, r, q), n, d)) = Absorption(m \o d, r, q + 1)
      /\ HasLength(m \o d, r * (q + 1))
  BY <1>1, <1>2, OneBlock
<1>4. PICK w \in Nat : w = r * (q + 1) /\ w = r * (q + 1) + 0
  OBVIOUS
<1>5. Blocked(Cat(m, d), r, q + 1, 0)
  <2>1. HasLength(Cat(m, d), w)
    BY <1>3, <1>4 DEF Cat
  <2>2. QED
    BY <1>4, <2>1 DEF HasLength, Blocked
<1>6. QED
  BY <1>3, <1>5 DEF Cat, EndsBlock

LEMMA CatSlice ==
  ASSUME NEW S, NEW m \in Seq(S), NEW d \in Seq(S), NEW r \in Nat \ {0}, NEW q \in Nat,
         NEW n \in Nat, Blocked(m, r, q, n), NEW l \in Nat, HasLength(d, l), n + l <= r
  PROVE  /\ Into(Absorption(m, r, q), n, d) = Absorption(Cat(m, d), r, q)
         /\ Blocked(Cat(m, d), r, q, n + l)
<1>1. PICK w \in Nat : w = r * q
  OBVIOUS
<1>2. HasLength(m, r * q + n)
  BY DEF HasLength, Blocked
<1>3. Into(Absorption(m, r, q), n, d) = Absorption(m \o d, r, q)
  BY <1>2, Unfilled
<1>4. HasLength(m \o d, (w + n) + l)
  <2>1. PICK k : k = w + n /\ HasLength(m, k)
    BY <1>1, <1>2
  <2>2. HasLength(m \o d, k + l)
    BY <2>1, LengthsAdd
  <2>3. QED
    BY <2>1, <2>2
<1>5. QED
  BY <1>1, <1>3, <1>4 DEF HasLength, Blocked, Cat

Fills(m, d, r, q, a, b, o) ==
  /\ Permuted(Into(Absorption(Cat(m, Slice(d, 0, a)), r, q), o, Slice(d, a, b)))
       = Absorption(Cat(m, Slice(d, 0, b)), r, q + 1)
  /\ Blocked(Cat(m, Slice(d, 0, b)), r, q + 1, 0)

\* From one number of bytes taken to the next, a block is filled up.
LEMMA OneFilling ==
  ASSUME NEW S, NEW m \in Seq(S), NEW d \in Seq(S), NEW r \in Nat \ {0}, NEW q \in Nat,
         NEW l \in Nat, HasLength(d, l),
         NEW a \in Nat, NEW b \in Nat, a <= b, b <= l, NEW o \in 0 .. r - 1, b - a = r - o,
         Blocked(Cat(m, Slice(d, 0, a)), r, q, o)
  PROVE  Fills(m, d, r, q, a, b, o)
<1>1. PICK x \in Seq(S) : x = Slice(d, 0, a)
  <2>1. 0 \in Nat /\ 0 <= a /\ a <= l /\ a = a - 0
    OBVIOUS
  <2>2. QED
    BY <2>1, SliceIs
<1>2. PICK k \in Nat : k = b - a
  OBVIOUS
<1>3. PICK y \in Seq(S) : y = Slice(d, a, b) /\ HasLength(y, k)
  <2>1. Slice(d, a, b) \in Seq(S) /\ HasLength(Slice(d, a, b), k)
    BY <1>2, SliceIs
  <2>2. QED
    BY <2>1
<1>4. Cat(x, y) = Slice(d, 0, b)
  BY <1>1, <1>3, SlicesJoin
<1>5. PICK p \in Seq(S) : p = Cat(m, x)
  BY CatIs
<1>6. Cat(p, y) = Cat(m, Slice(d, 0, b))
  BY <1>4, <1>5, CatAgain
<1>7. Blocked(p, r, q, o) /\ k = r - o /\ o \in 0 .. r
  BY <1>1, <1>2, <1>5
<1>8. EndsBlock(p, y, r, q, o, q + 1)
  BY <1>2, <1>3, <1>7, CatBlock
<1>9. QED
  BY <1>1, <1>3, <1>5, <1>6, <1>8 DEF EndsBlock, Fills

\* The message after k fillings, and the context.
Fed(m, d, r, n, k) == Cat(m, Slice(d, 0, Consumed(n, r, k)))
Between(m, d, r, q, n, k) == Context(Absorption(Fed(m, d, r, n, k), r, q + k), Ahead(n, k))

LEMMA FirstFed ==
  ASSUME NEW S, NEW m \in Seq(S), NEW d \in Seq(S), NEW r \in Nat \ {0}, NEW q \in Nat,
         NEW n \in Nat
  PROVE  Fed(m, d, r, n, 0) = m
         /\ Between(m, d, r, q, n, 0) = Context(Absorption(m, r, q), n)
<1>1. Consumed(n, r, 0) = 0 /\ Ahead(n, 0) = n /\ q + 0 = q
  BY DEF Consumed, Ahead
<1>2. Cat(m, Slice(d, 0, 0)) = m
  <2>1. SubSeq(d, 0 + 1, 0) = << >> /\ m \o << >> = m
    BY NothingMore
  <2>2. QED
    BY <2>1 DEF Cat, Slice
<1>3. QED
  BY <1>1, <1>2 DEF Fed, Between

LEMMA NextFed ==
  ASSUME NEW S, NEW m \in Seq(S), NEW d \in Seq(S), NEW r \in Nat \ {0}, NEW q \in Nat,
         NEW n \in 0 .. r - 1, NEW l \in Nat, HasLength(d, l), NEW t \in Nat,
         NEW u \in 0 .. r - 1, Makes(n, l, r, t, u), NEW k \in 1 .. t,
         Blocked(Fed(m, d, r, n, k - 1), r, q + (k - 1), Ahead(n, k - 1))
  PROVE  /\ Between(m, d, r, q, n, k) = AbsorbedTo(Between(m, d, r, q, n, k - 1), n, r, d, k)
         /\ Blocked(Fed(m, d, r, n, k), r, q + k, Ahead(n, k))
<1>1. PICK j \in 0 .. t : j = k - 1 /\ k = j + 1 /\ k \in 0 .. t
  OBVIOUS
<1>2. PICK a \in Nat, b \in Nat, o \in 0 .. r - 1 :
        /\ a = Consumed(n, r, j) /\ b = Consumed(n, r, k) /\ o = Ahead(n, j)
        /\ a <= b /\ b <= l /\ b - a = r - o /\ Ahead(n, k) = 0
  <2>1. /\ \A i \in 0 .. t : Consumed(n, r, i) \in Nat /\ Consumed(n, r, i) <= l
                           /\ Ahead(n, i) \in 0 .. r - 1
        /\ \A i \in 1 .. t : /\ Consumed(n, r, i - 1) <= Consumed(n, r, i)
                           /\ Consumed(n, r, i) - Consumed(n, r, i - 1) = r - Ahead(n, i - 1)
                           /\ Ahead(n, i) = 0
    <3>1. Advances(n, l, r, t, u)
      BY ConsumedIs
    <3>2. QED
      BY <3>1 DEF Advances
  <2>2. QED
    BY <1>1, <2>1
<1>3. PICK w \in Nat : w = q + j /\ w + 1 = q + k /\ w = q + (k - 1)
  BY <1>1
<1>4. Blocked(Cat(m, Slice(d, 0, a)), r, w, o)
  BY <1>1, <1>2, <1>3 DEF Fed
<1>5. /\ Permuted(Into(Absorption(Cat(m, Slice(d, 0, a)), r, w), o, Slice(d, a, b)))
            = Absorption(Cat(m, Slice(d, 0, b)), r, w + 1)
      /\ Blocked(Cat(m, Slice(d, 0, b)), r, w + 1, 0)
  <2>1. Fills(m, d, r, w, a, b, o)
    BY <1>2, <1>4, OneFilling
  <2>2. QED
    BY <2>1 DEF Fills
<1>6. PICK A, B : /\ A = Absorption(Cat(m, Slice(d, 0, a)), r, w)
                  /\ B = Absorption(Cat(m, Slice(d, 0, b)), r, w + 1)
  OBVIOUS
<1>7. Between(m, d, r, q, n, k - 1) = Context(A, o)
  BY <1>1, <1>2, <1>3, <1>6 DEF Between, Fed
<1>8. Between(m, d, r, q, n, k) = Context(B, 0)
  BY <1>2, <1>3, <1>6 DEF Between, Fed
<1>9. AbsorbedTo(Context(A, o), n, r, d, k) = Context(Permuted(Into(A, o, Slice(d, a, b))), 0)
  <2>1. Context(A, o).s = A /\ Context(A, o).n = o
    BY ContextFields
  <2>2. SubSeq(d, Consumed(n, r, k - 1) + 1, Consumed(n, r, k)) = Slice(d, a, b)
    BY <1>1, <1>2 DEF Slice
  <2>3. QED
    BY <2>1, <2>2 DEF AbsorbedTo
<1>10. QED
  <2>1. Permuted(Into(A, o, Slice(d, a, b))) = B
    BY <1>5, <1>6
  <2>2. Blocked(Fed(m, d, r, n, k), r, q + k, Ahead(n, k))
    BY <1>2, <1>3, <1>5 DEF Fed
  <2>3. QED
    BY <1>7, <1>8, <1>9, <2>1, <2>2

\* An absorbing context c: it has absorbed m.
Absorbing(c, m, r) ==
  \E q \in Nat, n \in 0 .. r - 1 : Blocked(m, r, q, n) /\ c = Context(Absorption(m, r, q), n)

LEMMA AllFed ==
  ASSUME NEW S, NEW m \in Seq(S), NEW d \in Seq(S), NEW r \in Nat \ {0}, NEW q \in Nat,
         NEW n \in 0 .. r - 1, Blocked(m, r, q, n), NEW l \in Nat, HasLength(d, l),
         NEW t \in Nat, NEW u \in 0 .. r - 1, Makes(n, l, r, t, u)
  PROVE  \A k \in 0 .. t : Blocked(Fed(m, d, r, n, k), r, q + k, Ahead(n, k))
<1> DEFINE P(k) == Blocked(Fed(m, d, r, n, k), r, q + k, Ahead(n, k))
           T == { k \in 0 .. t : P(k) }
<1>1. 0 \in T
  <2>1. Fed(m, d, r, n, 0) = m
    BY FirstFed
  <2>2. q + 0 = q /\ Ahead(n, 0) = n /\ 0 \in 0 .. t
    BY DEF Ahead
  <2>3. QED
    BY <2>1, <2>2
<1>2. ASSUME NEW j \in T, j < t PROVE j + 1 \in T
  <2>1. PICK k \in 1 .. t : k = j + 1 /\ j = k - 1
    BY <1>2
  <2>2. Blocked(Fed(m, d, r, n, k - 1), r, q + (k - 1), Ahead(n, k - 1))
    BY <2>1
  <2>3. Blocked(Fed(m, d, r, n, k), r, q + k, Ahead(n, k))
    BY <2>2, NextFed
  <2>4. QED
    BY <2>1, <2>3
<1> HIDE DEF P
<1>3. T = 0 .. t
  BY <1>1, <1>2, UpTo
<1>4. \A k \in 0 .. t : P(k)
  BY <1>3
<1>5. QED
  BY <1>4 DEF P

LEMMA Filling ==
  ASSUME NEW S, NEW m \in Seq(S), NEW d \in Seq(S), NEW r \in Nat \ {0}, NEW q \in Nat,
         NEW n \in 0 .. r - 1, Blocked(m, r, q, n), NEW l \in Nat, HasLength(d, l),
         NEW t \in Nat, NEW u \in 0 .. r - 1, Makes(n, l, r, t, u),
         NEW c, c = Context(Absorption(m, r, q), n)
  PROVE  FilledUp(c, r, d, t) = Between(m, d, r, q, n, t)
<1> DEFINE T == { Between(m, d, r, q, n, k) : k \in 0 .. t }
<1>1. PICK g : g = [ k \in 0 .. t |-> Between(m, d, r, q, n, k) ]
  OBVIOUS
<1>2. g \in [ 0 .. t -> T ] /\ \A k \in 0 .. t : g[k] = Between(m, d, r, q, n, k)
  BY <1>1
<1>3. Listed(g, t)
  BY <1>2 DEF Listed
<1>4. g[0] = c
  <2>1. Between(m, d, r, q, n, 0) = c
    BY FirstFed
  <2>2. 0 \in 0 .. t
    OBVIOUS
  <2>3. QED
    BY <1>2, <2>1, <2>2
<1>5. c.n = n
  BY ContextFields
<1>6. ASSUME NEW k \in 1 .. t PROVE g[k] = AbsorbedTo(g[k - 1], c.n, r, d, k)
  <2>1. k \in 0 .. t /\ k - 1 \in 0 .. t
    OBVIOUS
  <2>2. Blocked(Fed(m, d, r, n, k - 1), r, q + (k - 1), Ahead(n, k - 1))
    BY <2>1, AllFed
  <2>3. Between(m, d, r, q, n, k) = AbsorbedTo(Between(m, d, r, q, n, k - 1), n, r, d, k)
    BY <2>2, NextFed
  <2>4. QED
    BY <1>2, <1>5, <2>1, <2>3
<1> HIDE DEF T
<1>7. FilledUp(c, r, d, t) = g[t]
  <2>1. Goes(g, c, r, d, t)
    BY <1>3, <1>4, <1>6 DEF Goes
  <2>2. QED
    BY <2>1, AbsorbRounds
<1>8. QED
  BY <1>2, <1>7

\* What absorbs m and then d absorbed m with d behind it.
LEMMA AbsorbMore ==
  ASSUME NEW S, NEW m \in Seq(S), NEW d \in Seq(S), NEW r \in Nat \ {0}, NEW c,
         Absorbing(c, m, r)
  PROVE  Absorbing(keccak_inc_absorb(c, r, d), Cat(m, d), r)
<1>1. PICK q \in Nat, n \in 0 .. r - 1 :
        Blocked(m, r, q, n) /\ c = Context(Absorption(m, r, q), n)
  BY DEF Absorbing
<1>2. PICK l \in Nat : HasLength(d, l) /\ l = Len(d)
  BY SequenceIs DEF HasLength
<1>3. PICK h \in Nat : h = l + n
  OBVIOUS
<1>4. PICK t \in Nat, u \in 0 .. r - 1 : t = h \div r /\ h = r * t + u
  BY Quotients
<1>5. Makes(n, l, r, t, u)
  BY <1>3, <1>4 DEF Makes
<1>6. c.n = n
  BY <1>1, ContextFields
<1>7. Fillings(c, r, d) = t
  BY <1>2, <1>3, <1>4, <1>6 DEF Fillings
<1>8. FilledUp(c, r, d, t) = Between(m, d, r, q, n, t)
  BY <1>1, <1>2, <1>5, Filling
<1>9. Blocked(Fed(m, d, r, n, t), r, q + t, Ahead(n, t))
  <2>1. \A k \in 0 .. t : Blocked(Fed(m, d, r, n, k), r, q + k, Ahead(n, k))
    BY <1>1, <1>2, <1>5, AllFed
  <2>2. QED
    BY <2>1
<1>10. PICK a \in Nat, o \in 0 .. r - 1, e \in Nat :
         a = Consumed(n, r, t) /\ o = Ahead(n, t) /\ a <= l /\ e = l - a /\ o + e = u
  <2>1. Advances(n, l, r, t, u)
    BY <1>5, ConsumedIs
  <2>2. /\ Consumed(n, r, t) \in Nat /\ Consumed(n, r, t) <= l /\ Ahead(n, t) \in 0 .. r - 1
        /\ (l - Consumed(n, r, t)) + Ahead(n, t) = u
    BY <2>1 DEF Advances
  <2>3. PICK a \in Nat, o \in 0 .. r - 1 : a = Consumed(n, r, t) /\ o = Ahead(n, t)
    BY <2>2
  <2>4. PICK e \in Nat : e = l - a
    BY <2>2, <2>3
  <2>5. o + e = u /\ a <= l
    BY <2>2, <2>3, <2>4
  <2>6. QED
    BY <2>3, <2>4, <2>5
<1>11. PICK p \in Seq(S), x \in Seq(S), y \in Seq(S) :
         /\ x = Slice(d, 0, a) /\ y = Slice(d, a, l) /\ p = Cat(m, x) /\ HasLength(y, e)
  <2>1. a - 0 = a /\ 0 <= a /\ 0 \in Nat /\ l <= l
    BY <1>10
  <2>2. Slice(d, 0, a) \in Seq(S)
    BY <1>2, <1>10, <2>1, SliceIs
  <2>3. Slice(d, a, l) \in Seq(S) /\ HasLength(Slice(d, a, l), e)
    BY <1>2, <1>10, <2>1, SliceIs
  <2>4. Cat(m, Slice(d, 0, a)) \in Seq(S)
    BY <2>2, CatIs
  <2>5. QED
    BY <2>2, <2>3, <2>4
<1>12. Rest(c, r, d) = y
  BY <1>2, <1>6, <1>7, <1>10, <1>11 DEF Rest, From, Slice
<1>13. Cat(p, y) = Cat(m, d)
  <2>1. l <= l
    OBVIOUS
  <2>2. Cat(Slice(d, 0, a), Slice(d, a, l)) = Slice(d, 0, l)
    <3>1. PICK b \in Nat : b = l /\ a <= b /\ b <= l
      BY <1>10
    <3>2. HasLength(d, l)
      BY <1>2
    <3>3. Cat(Slice(d, 0, a), Slice(d, a, b)) = Slice(d, 0, b)
      BY <3>1, <3>2, SlicesJoin
    <3>4. QED
      BY <3>1, <3>3
  <2>3. Slice(d, 0, l) = d
    BY <1>2, CatNothing
  <2>4. Cat(Cat(m, x), y) = Cat(m, Cat(x, y))
    BY CatAgain
  <2>5. QED
    BY <1>11, <2>2, <2>3, <2>4
<1>14. PICK w \in Nat : w = q + t
  OBVIOUS
<1>15. Fed(m, d, r, n, t) = p
  BY <1>10, <1>11 DEF Fed
<1>16. Into(Absorption(p, r, w), o, y) = Absorption(Cat(p, y), r, w)
       /\ Blocked(Cat(p, y), r, w, o + e)
  <2>1. Blocked(p, r, w, o) /\ o + e <= r
    BY <1>9, <1>10, <1>14, <1>15
  <2>2. QED
    BY <1>11, <2>1, CatSlice
<1>17. keccak_inc_absorb(c, r, d) = Ended(Context(Absorption(p, r, w), o), y)
  <2>1. FilledUp(c, r, d, t) = Context(Absorption(p, r, w), o)
    BY <1>8, <1>10, <1>14, <1>15 DEF Between
  <2>2. QED
    BY <1>7, <1>12, <2>1, AbsorbEnds
<1>18. Ended(Context(Absorption(p, r, w), o), y) = Context(Absorption(Cat(m, d), r, w), u)
  <2>1. PICK A : A = Absorption(p, r, w)
    OBVIOUS
  <2>2. Ended(Context(A, o), y) = Context(Into(A, o, y), o + Len(y))
    BY EndedIs, ContextFields
  <2>3. Len(y) = e /\ o + e = u
    BY <1>10, <1>11 DEF HasLength
  <2>4. Into(A, o, y) = Absorption(Cat(m, d), r, w)
    BY <1>13, <1>16, <2>1
  <2>5. QED
    BY <2>1, <2>2, <2>3, <2>4
<1>19. Blocked(Cat(m, d), r, w, u)
  BY <1>10, <1>13, <1>16
<1>20. QED
  BY <1>17, <1>18, <1>19 DEF Absorbing
-----------------------------------------------------------------------------
(* The padding.                                                             *)
KnownByte(v) == <<"b", v>>

LEMMA KnownApart ==
  ASSUME NEW v, NEW w, KnownByte(v) = KnownByte(w)
  PROVE  v = w
  BY DEF KnownByte

LEMMA ZeroIsKnown == ZeroByte = KnownByte(0)
  BY DEF ZeroByte, KnownByte

\* The marks of a block, as the standards have them.
DataMarks(m, r, k) ==
  { Placed(i % r, m[i + 1]) : i \in { j \in 0 .. (Len(m) - 1) : j \div r = k /\ m[j + 1] # ZeroByte } }
MarkAt(i, r, k, v) == { Placed(j % r, KnownByte(v)) : j \in { l \in {i} : l \div r = k } }

LEMMA BlockMarksAre ==
  ASSUME NEW m, NEW r, NEW p, NEW k
  PROVE  BlockMarks(m, r, p, k)
           = (DataMarks(m, r, k) \cup MarkAt(Len(m), r, k, p))
               \cup MarkAt((((Len(m) \div r) + 1) * r) - 1, r, k, 128)
  BY Zenon DEF BlockMarks, DataMarks, MarkAt, KnownByte, ZeroByte

LEMMA MarkThere ==
  ASSUME NEW i, NEW r, NEW k, NEW v, NEW u, i \div r = k, i % r = u
  PROVE  MarkAt(i, r, k, v) = { Placed(u, KnownByte(v)) }
  BY DEF MarkAt

LEMMA MarkElsewhere ==
  ASSUME NEW i, NEW r, NEW k, NEW v, i \div r # k
  PROVE  MarkAt(i, r, k, v) = {}
  BY DEF MarkAt

\* One byte behind the message.
Continues(e, m, l, x) ==
  HasLength(e, l + 1) /\ (\A i \in 1 .. l : e[i] = m[i]) /\ e[l + 1] = x

LEMMA OneBehind ==
  ASSUME NEW S, NEW m \in Seq(S), NEW x \in S, NEW l \in Nat, HasLength(m, l), NEW e, e = Cat(m, One(x))
  PROVE  e \in Seq(S) /\ Continues(e, m, l, x)
<1>1. PICK y \in Seq(S) : y = One(x) /\ Len(y) = 1 /\ y[1] = x
  <2>1. << x >> \in Seq(S) /\ Len(<< x >>) = 1 /\ << x >>[1] = x
    OBVIOUS
  <2>2. PICK z : z = << x >>
    OBVIOUS
  <2>3. z \in Seq(S) /\ Len(z) = 1 /\ z[1] = x /\ z = One(x)
    BY <2>1, <2>2 DEF One
  <2>4. QED
    BY <2>3
<1>2. Len(m) = l /\ e = m \o y
  BY <1>1 DEF HasLength, Cat
<1>3. /\ m \o y \in Seq(S) /\ Len(m \o y) = Len(m) + Len(y)
      /\ \A i \in 1 .. Len(m) : (m \o y)[i] = m[i]
      /\ \A k \in 1 .. Len(y) : (m \o y)[Len(m) + k] = y[k]
  <2>1. m \in Seq(S) /\ y \in Seq(S)
    BY <1>1
  <2>2. QED
    BY <2>1, Concatenated
<1>4. 1 \in 1 .. 1
  OBVIOUS
<1>5. QED
  BY <1>1, <1>2, <1>3, <1>4 DEF HasLength, Continues

LEMMA DataIn ==
  ASSUME NEW S, NEW m \in Seq(S), NEW r \in Nat \ {0}, NEW k \in Nat, NEW b \in Nat, b = r * k
  PROVE  DataMarks(m, r, k) = Filled(m, r, b)
<1>1. PICK l \in Nat : l = Len(m)
  BY SequenceIs
<1>2. ASSUME NEW x \in DataMarks(m, r, k) PROVE x \in Filled(m, r, b)
  <2>1. PICK i \in 0 .. l - 1 : i \div r = k /\ m[i + 1] # ZeroByte /\ x = Placed(i % r, m[i + 1])
    BY <1>1, <1>2 DEF DataMarks
  <2>2. i \in Nat
    OBVIOUS
  <2>3. PICK w \in Nat, v \in 0 .. r - 1 : w = i \div r /\ v = i % r /\ i = r * w + v
    BY <2>2, Quotients
  <2>4. i = b + v /\ i < l
    <3>1. w = k
      BY <2>1, <2>3
    <3>2. r * w = b
      BY <3>1
    <3>3. PICK a : a = r * w /\ a = b
      BY <3>2
    <3>4. i = a + v
      BY <2>3, <3>3
    <3>5. QED
      BY <3>3, <3>4
  <2>5. b + v < l /\ m[b + v + 1] # ZeroByte /\ x = Placed(v, m[b + v + 1])
    BY <2>1, <2>3, <2>4
  <2>6. QED
    BY <1>1, <2>5 DEF Filled
<1>3. ASSUME NEW x \in Filled(m, r, b) PROVE x \in DataMarks(m, r, k)
  <2>1. PICK v \in 0 .. r - 1 : b + v < l /\ m[b + v + 1] # ZeroByte /\ x = Placed(v, m[b + v + 1])
    BY <1>1, <1>3 DEF Filled
  <2>2. PICK i \in Nat : i = b + v /\ i \in 0 .. l - 1 /\ i = r * k + v
    BY <2>1
  <2>3. i \div r = k /\ i % r = v
    <3>1. Splits(i, r, k, v)
      BY <2>2 DEF Splits
    <3>2. QED
      BY <3>1, Split
  <2>4. m[i + 1] # ZeroByte /\ x = Placed(i % r, m[i + 1])
    BY <2>1, <2>2, <2>3
  <2>5. QED
    BY <1>1, <2>2, <2>3, <2>4 DEF DataMarks
<1>4. QED
  BY <1>2, <1>3

\* The domain byte behind the message, and the end of the block it is in.
Ends(m, p) == Cat(m, One(KnownByte(p)))
LastMark(r) == { Placed(r - 1, KnownByte(128)) }

EndIn(m, p, r, b, n) ==
  /\ Filled(Ends(m, p), r, b) = Filled(m, r, b) \cup { Placed(n, KnownByte(p)) }
  /\ Placed(r - 1, KnownByte(128)) \notin Filled(Ends(m, p), r, b)

LEMMA EndFilled ==
  ASSUME NEW S, NEW m \in Seq(S), NEW r \in Nat \ {0}, NEW b \in Nat, NEW n \in 0 .. r - 1,
         NEW l \in Nat, l = b + n, HasLength(m, l), NEW p \in 1 .. 127, KnownByte(p) \in S
  PROVE  EndIn(m, p, r, b, n)
<1>1. PICK x \in S : x = KnownByte(p)
  OBVIOUS
<1>2. PICK e \in Seq(S) : /\ e = Ends(m, p) /\ HasLength(e, l + 1)
                          /\ \A i \in 1 .. l : e[i] = m[i]
                          /\ e[l + 1] = x
  <2>1. PICK e : e = Cat(m, One(x))
    OBVIOUS
  <2>2. e \in Seq(S) /\ Continues(e, m, l, x)
    BY <2>1, OneBehind
  <2>3. QED
    BY <1>1, <2>1, <2>2 DEF Ends, Continues
<1>3. Len(m) = l /\ Len(e) = l + 1
  BY <1>2 DEF HasLength
<1>4. x # ZeroByte /\ x # KnownByte(128)
  <2>1. p # 0 /\ p # 128
    OBVIOUS
  <2>2. QED
    BY <1>1, <2>1, KnownApart, ZeroIsKnown
<1>5. ASSUME NEW y \in Filled(e, r, b)
      PROVE  y \in Filled(m, r, b) \/ y = Placed(n, x)
  <2>1. PICK v \in 0 .. r - 1 : b + v < l + 1 /\ e[b + v + 1] # ZeroByte /\ y = Placed(v, e[b + v + 1])
    BY <1>3, <1>5 DEF Filled
  <2>2. CASE v < n
    <3>1. b + v + 1 \in 1 .. l /\ b + v < l
      BY <2>2
    <3>2. e[b + v + 1] = m[b + v + 1]
      BY <1>2, <3>1
    <3>3. QED
      BY <1>3, <2>1, <3>1, <3>2 DEF Filled
  <2>3. CASE v >= n
    <3>1. v = n /\ b + v + 1 = l + 1
      BY <2>1, <2>3
    <3>2. QED
      BY <1>2, <2>1, <3>1
  <2>4. QED
    BY <2>2, <2>3
<1>6. ASSUME NEW y \in Filled(m, r, b)
      PROVE  y \in Filled(e, r, b)
  <2>1. PICK v \in 0 .. r - 1 : b + v < l /\ m[b + v + 1] # ZeroByte /\ y = Placed(v, m[b + v + 1])
    BY <1>3, <1>6 DEF Filled
  <2>2. b + v + 1 \in 1 .. l /\ b + v < l + 1
    BY <2>1
  <2>3. e[b + v + 1] = m[b + v + 1]
    BY <1>2, <2>2
  <2>4. QED
    BY <1>3, <2>1, <2>2, <2>3 DEF Filled
<1>7. Placed(n, x) \in Filled(e, r, b)
  <2>1. b + n < l + 1 /\ b + n + 1 = l + 1
    OBVIOUS
  <2>2. e[b + n + 1] = x
    BY <1>2, <2>1
  <2>3. QED
    BY <1>3, <1>4, <2>1, <2>2 DEF Filled
<1>8. Placed(r - 1, KnownByte(128)) \notin Filled(e, r, b)
  <2>1. SUFFICES ASSUME Placed(r - 1, KnownByte(128)) \in Filled(e, r, b) PROVE FALSE
    OBVIOUS
  <2>2. PICK v \in 0 .. r - 1 : b + v < l + 1 /\ Placed(r - 1, KnownByte(128)) = Placed(v, e[b + v + 1])
    BY <1>3, <2>1 DEF Filled
  <2>3. r - 1 \in Nat /\ v \in Nat
    OBVIOUS
  <2>4. r - 1 = v /\ KnownByte(128) = e[b + v + 1]
    BY <2>2, <2>3, AllApart
  <2>5. b + v + 1 = l + 1
    BY <2>2, <2>4
  <2>6. QED
    BY <1>2, <1>4, <2>4, <2>5
<1>9. QED
  BY <1>1, <1>2, <1>5, <1>6, <1>7, <1>8 DEF EndIn

BlockIs(m, r, p, q, k, b) ==
  BlockMarks(m, r, p, k) = Filled(Ends(m, p), r, b) \cup (IF k = q THEN LastMark(r) ELSE {})

LEMMA LastBlock ==
  ASSUME NEW S, NEW m \in Seq(S), NEW r \in Nat \ {0}, NEW q \in Nat, NEW n \in 0 .. r - 1,
         Blocked(m, r, q, n), NEW p \in 1 .. 127, KnownByte(p) \in S, NEW k \in 0 .. q,
         NEW b \in Nat, b = r * k
  PROVE  BlockIs(m, r, p, q, k, b)
<1>1. PICK c \in Nat, l \in Nat : c = r * q /\ l = c + n /\ l = r * q + n /\ HasLength(m, l) /\ l = Len(m)
  <2>1. PICK c \in Nat : c = r * q
    OBVIOUS
  <2>2. PICK l \in Nat : l = c + n
    OBVIOUS
  <2>3. QED
    BY <2>1, <2>2 DEF Blocked, HasLength
<1>2. l \div r = q /\ l % r = n
  <2>1. Splits(l, r, q, n)
    BY <1>1 DEF Splits
  <2>2. QED
    BY <2>1, Split
<1>3. PICK h \in Nat : h = ((q + 1) * r) - 1 /\ h \div r = q /\ h % r = r - 1
  <2>1. (q + 1) * r = r * q + r
    OBVIOUS
  <2>2. PICK h \in Nat : h = c + (r - 1)
    OBVIOUS
  <2>3. h = ((q + 1) * r) - 1
    BY <1>1, <2>1, <2>2
  <2>4. PICK v \in 0 .. r - 1 : v = r - 1
    OBVIOUS
  <2>5. Splits(h, r, q, v)
    BY <1>1, <2>2, <2>4 DEF Splits
  <2>6. h \div r = q /\ h % r = v
    BY <2>5, Split
  <2>7. QED
    BY <2>3, <2>4, <2>6
<1>4. BlockMarks(m, r, p, k) = (DataMarks(m, r, k) \cup MarkAt(l, r, k, p)) \cup MarkAt(h, r, k, 128)
  BY <1>1, <1>2, <1>3, BlockMarksAre
<1>5. DataMarks(m, r, k) = Filled(m, r, b)
  BY DataIn
<1>6. CASE k = q
  <2>1. b = c
    BY <1>1, <1>6
  <2>2. MarkAt(l, r, k, p) = { Placed(n, KnownByte(p)) } /\ MarkAt(h, r, k, 128) = LastMark(r)
    <3>1. l \div r = k /\ h \div r = k
      BY <1>2, <1>3, <1>6
    <3>2. MarkAt(l, r, k, p) = { Placed(n, KnownByte(p)) }
      BY <1>2, <3>1, Zenon DEF MarkAt
    <3>3. MarkAt(h, r, k, 128) = { Placed(r - 1, KnownByte(128)) }
      BY <1>3, <3>1, Zenon DEF MarkAt
    <3>4. QED
      BY <3>2, <3>3 DEF LastMark
  <2>3. Filled(Ends(m, p), r, b) = Filled(m, r, b) \cup { Placed(n, KnownByte(p)) }
    <3>1. EndIn(m, p, r, b, n)
      BY <1>1, <2>1, EndFilled
    <3>2. QED
      BY <3>1 DEF EndIn
  <2>4. QED
    BY <1>4, <1>5, <1>6, <2>2, <2>3 DEF BlockIs
<1>7. CASE k # q
  <2>1. MarkAt(l, r, k, p) = {} /\ MarkAt(h, r, k, 128) = {}
    BY <1>2, <1>3, <1>7, MarkElsewhere
  <2>2. Filled(Ends(m, p), r, b) = Filled(m, r, b)
    <3>1. k + 1 \in Nat /\ k \in Nat /\ k + 1 <= q
      BY <1>7
    <3>2. r * (k + 1) \in Nat /\ r * (k + 1) <= r * q
      BY <3>1, Products
    <3>3. r * (k + 1) = b + r
      BY <3>1
    <3>4. b + r <= l
      BY <1>1, <3>2, <3>3
    <3>5. PICK d \in Seq(S) : d = One(KnownByte(p))
      <4>1. PICK x \in S : x = KnownByte(p)
        OBVIOUS
      <4>2. << x >> \in Seq(S)
        OBVIOUS
      <4>3. QED
        BY <4>1, <4>2 DEF One
    <3>6. Filled(m \o d, r, b) = Filled(m, r, b)
      BY <1>1, <3>4, FilledEarlier
    <3>7. QED
      BY <3>5, <3>6 DEF Ends, Cat
  <2>3. QED
    BY <1>4, <1>5, <1>7, <2>1, <2>2 DEF BlockIs
<1>8. QED
  BY <1>6, <1>7

\* What goes into the permutation k, and the state before the one after c.
Entry(m, r, p, q, k) == IF k <= q + 1 THEN BlockMarks(m, r, p, k - 1) ELSE {}
History(m, r, p, q, c) == [ k \in 1 .. c |-> Entry(m, r, p, q, k) ]
Stage(m, r, p, q, c) == Sponged(History(m, r, p, q, c), Entry(m, r, p, q, c + 1))

StageEnds(m, r, p, q, c) ==
  /\ Permuted(Stage(m, r, p, q, c)) = Stage(m, r, p, q, c + 1)
  /\ Entry(m, r, p, q, (c + 1) + 1) = {}

LEMMA NextStage ==
  ASSUME NEW m, NEW r, NEW p, NEW q \in Nat, NEW c \in Nat, q <= c
  PROVE  StageEnds(m, r, p, q, c)
<1> DEFINE E == [ k \in Nat |-> Entry(m, r, p, q, k) ]
<1>1. \A k \in 1 .. c + 1 : E[k] = Entry(m, r, p, q, k)
  OBVIOUS
<1>2. c + 1 \in 1 .. c + 1 /\ \A k \in 1 .. c : k \in 1 .. c + 1
  OBVIOUS
<1>3. E[c + 1] = Entry(m, r, p, q, c + 1)
  BY <1>1, <1>2
<1> HIDE DEF E
<1>4. [ k \in 1 .. c |-> E[k] ] = History(m, r, p, q, c)
  BY <1>1, <1>2 DEF History
<1>5. [ k \in 1 .. c + 1 |-> E[k] ] = History(m, r, p, q, c + 1)
  BY <1>1 DEF History
<1>6. Append(History(m, r, p, q, c), Entry(m, r, p, q, c + 1)) = History(m, r, p, q, c + 1)
  <2>1. Append([ k \in 1 .. c |-> E[k] ], E[c + 1]) = [ k \in 1 .. c + 1 |-> E[k] ]
    BY Longer
  <2>2. QED
    BY <1>3, <1>4, <1>5, <2>1
<1>7. Entry(m, r, p, q, (c + 1) + 1) = {}
  <2>1. ~ ((c + 1) + 1 <= q + 1)
    OBVIOUS
  <2>2. QED
    BY <2>1 DEF Entry
<1>8. QED
  BY <1>6, <1>7, PermutedIs DEF Stage, StageEnds

LEMMA LaidLast ==
  ASSUME NEW r \in Nat \ {0}
  PROVE  Laid(r - 1, One(KnownByte(128))) = LastMark(r)
<1>1. PICK x : x = KnownByte(128)
  OBVIOUS
<1>2. x # ZeroByte
  BY <1>1, KnownApart, ZeroIsKnown
<1>3. (r - 1) + (1 - 1) = r - 1
  OBVIOUS
<1>4. Len(<< x >>) = 1 /\ << x >>[1] = x
  OBVIOUS
<1>5. PICK y : y = One(x) /\ Len(y) = 1 /\ y[1] = x
  BY <1>4 DEF One
<1>6. Laid(r - 1, y) = { Placed((r - 1) + (1 - 1), x) }
  <2>1. { j \in 1 .. Len(y) : y[j] # ZeroByte } = {1}
    BY <1>2, <1>5
  <2>2. QED
    BY <1>5, <2>1 DEF Laid
<1>7. QED
  BY <1>1, <1>3, <1>5, <1>6 DEF LastMark

IsPadded(m, r, p, q) ==
  Into(Absorption(Ends(m, p), r, q), r - 1, One(KnownByte(128))) = Stage(m, r, p, q, q)

LEMMA PaddedStage ==
  ASSUME NEW S, NEW m \in Seq(S), NEW r \in Nat \ {0}, NEW q \in Nat, NEW n \in 0 .. r - 1,
         Blocked(m, r, q, n), NEW p \in 1 .. 127, KnownByte(p) \in S
  PROVE  IsPadded(m, r, p, q)
<1>1. PICK ps, mk : /\ ps = [ k \in 1 .. q |-> Filled(Ends(m, p), r, r * (k - 1)) ]
                    /\ mk = Filled(Ends(m, p), r, r * q)
  OBVIOUS
<1>2. Absorption(Ends(m, p), r, q) = Sponged(ps, mk)
  BY <1>1 DEF Absorption
<1>3. Into(Sponged(ps, mk), r - 1, One(KnownByte(128))) = Sponged(ps, Xor(mk, LastMark(r)))
  BY IntoIs, LaidLast
<1>4. PICK b \in Nat, l \in Nat : b = r * q /\ l = b + n /\ HasLength(m, l)
  <2>1. PICK b \in Nat : b = r * q
    OBVIOUS
  <2>2. PICK l \in Nat : l = b + n
    OBVIOUS
  <2>3. QED
    BY <2>1, <2>2 DEF Blocked, HasLength
<1>5. Xor(mk, LastMark(r)) = mk \cup LastMark(r)
  <2>1. EndIn(m, p, r, b, n)
    BY <1>4, EndFilled
  <2>2. Placed(r - 1, KnownByte(128)) \notin mk
    BY <1>1, <1>4, <2>1 DEF EndIn
  <2>3. \A x \in mk : x \notin LastMark(r)
    BY <2>2 DEF LastMark
  <2>4. QED
    BY <2>3, XorApart
<1>6. Entry(m, r, p, q, q + 1) = mk \cup LastMark(r)
  <2>1. q \in 0 .. q /\ (q + 1) - 1 = q /\ q + 1 <= q + 1
    OBVIOUS
  <2>2. BlockIs(m, r, p, q, q, b)
    BY <1>4, <2>1, LastBlock
  <2>3. QED
    BY <1>1, <1>4, <2>1, <2>2 DEF Entry, BlockIs
<1>7. ASSUME NEW k \in 1 .. q
      PROVE  Entry(m, r, p, q, k) = Filled(Ends(m, p), r, r * (k - 1))
  <2>1. PICK j \in 0 .. q : j = k - 1 /\ j # q /\ k <= q + 1
    OBVIOUS
  <2>2. PICK a \in Nat : a = r * j
    OBVIOUS
  <2>3. BlockIs(m, r, p, q, j, a)
    BY <2>2, LastBlock
  <2>4. QED
    BY <2>1, <2>2, <2>3 DEF Entry, BlockIs
<1>8. ps = History(m, r, p, q, q)
  BY <1>1, <1>7 DEF History
<1>9. QED
  BY <1>2, <1>3, <1>5, <1>6, <1>8 DEF Stage, IsPadded

FinalIs(c, m, r, p, q) == keccak_inc_finalize(c, r, p) = Context(Stage(m, r, p, q, q), 0)

LEMMA FinalizedStage ==
  ASSUME NEW S, NEW m \in Seq(S), NEW r \in Nat \ {0}, NEW q \in Nat, NEW n \in 0 .. r - 1,
         Blocked(m, r, q, n), NEW p \in 1 .. 127, KnownByte(p) \in S,
         NEW c, c = Context(Absorption(m, r, q), n)
  PROVE  FinalIs(c, m, r, p, q)
<1>1. keccak_inc_finalize(c, r, p)
        = Context(Into(Into(c.s, c.n, One(KnownByte(p))), r - 1, One(KnownByte(128))), 0)
  BY Zenon DEF keccak_inc_finalize, Context, One, KnownByte
<1>2. PICK A : A = Absorption(m, r, q) /\ c.s = A /\ c.n = n
  BY ContextFields
<1>3. PICK d \in Seq(S) : d = One(KnownByte(p)) /\ HasLength(d, 1)
  <2>1. PICK x \in S : x = KnownByte(p)
    OBVIOUS
  <2>2. << x >> \in Seq(S) /\ Len(<< x >>) = 1
    OBVIOUS
  <2>3. QED
    BY <2>1, <2>2 DEF One, HasLength
<1>4. Into(A, n, d) = Absorption(Cat(m, d), r, q)
  <2>1. PICK i \in Nat : i = 1 /\ n + i <= r /\ n \in Nat
    OBVIOUS
  <2>2. HasLength(d, i)
    BY <1>3, <2>1
  <2>3. QED
    BY <1>2, <2>1, <2>2, CatSlice
<1>5. QED
  <2>1. Into(Absorption(Ends(m, p), r, q), r - 1, One(KnownByte(128))) = Stage(m, r, p, q, q)
    <3>1. IsPadded(m, r, p, q)
      BY PaddedStage
    <3>2. QED
      BY <3>1 DEF IsPadded
  <2>2. Cat(m, d) = Ends(m, p)
    BY <1>3 DEF Ends
  <2>3. QED
    BY <1>1, <1>2, <1>3, <1>4, <2>1, <2>2 DEF FinalIs
-----------------------------------------------------------------------------
(* The squeezing.                                                           *)
OutByte(m, r, p, q, j) == << History(m, r, p, q, (q + 1) + ((j - 1) \div r)), (j - 1) % r, {} >>
Outs(m, r, p, q, g, a) == [ i \in 1 .. a |-> OutByte(m, r, p, q, g + i) ]

StageGives(m, r, p, q, w, x, j) ==
  ByteAt(Stage(m, r, p, q, q + (w + 1)), x) = OutByte(m, r, p, q, j + 1)

\* A byte of the state after w permutations of the squeezing.
LEMMA StageByte ==
  ASSUME NEW m, NEW r \in Nat \ {0}, NEW p, NEW q \in Nat, NEW w \in Nat, NEW x \in 0 .. r - 1,
         NEW j \in Nat, Splits(j, r, w, x)
  PROVE  StageGives(m, r, p, q, w, x, j)
<1>1. j \div r = w /\ j % r = x
  BY Split
<1>2. PICK c \in Nat : c = q + w /\ q <= c /\ c + 1 = q + (w + 1) /\ c + 1 = (q + 1) + w
  OBVIOUS
<1>3. Entry(m, r, p, q, (c + 1) + 1) = {}
  <2>1. StageEnds(m, r, p, q, c)
    BY <1>2, NextStage
  <2>2. QED
    BY <2>1 DEF StageEnds
<1>4. Stage(m, r, p, q, c + 1) = Sponged(History(m, r, p, q, c + 1), {})
  BY <1>3 DEF Stage
<1>5. PICK ps : ps = History(m, r, p, q, c + 1)
  OBVIOUS
<1>6. ByteAt(Stage(m, r, p, q, c + 1), x) = << ps, x, {} >>
  BY <1>4, <1>5, ByteOfPermuted
<1>7. (j + 1) - 1 = j
  OBVIOUS
<1>8. OutByte(m, r, p, q, j + 1) = << ps, x, {} >>
  BY <1>1, <1>2, <1>5, <1>7 DEF OutByte
<1>9. QED
  BY <1>2, <1>6, <1>8 DEF StageGives

LEMMA OneList ==
  ASSUME NEW E, NEW a \in Nat, NEW b \in Nat
  PROVE  [ k \in 1 .. a |-> E[k] ] \o [ k \in 1 .. b |-> E[a + k] ] = [ k \in 1 .. a + b |-> E[k] ]
<1> DEFINE S == { E[k] : k \in 1 .. a + b }
           s == [ k \in 1 .. a |-> E[k] ]
           t == [ k \in 1 .. b |-> E[a + k] ]
           u == [ k \in 1 .. a + b |-> E[k] ]
<1>1. /\ \A k \in 1 .. a : k \in 1 .. a + b
      /\ \A k \in 1 .. b : a + k \in 1 .. a + b
      /\ a + b \in Nat
  OBVIOUS
<1>2. s \in [ 1 .. a -> S ] /\ t \in [ 1 .. b -> S ] /\ u \in [ 1 .. a + b -> S ]
  BY <1>1
<1>3. /\ \A k \in 1 .. a : s[k] = E[k]
      /\ \A k \in 1 .. b : t[k] = E[a + k]
      /\ \A k \in 1 .. a + b : u[k] = E[k]
  OBVIOUS
<1> HIDE DEF s, t, u, S
<1>4. s \in Seq(S) /\ Len(s) = a /\ t \in Seq(S) /\ Len(t) = b
  BY <1>2, FunctionIsSeq
<1>5. PICK n \in Nat : n = a + b
  OBVIOUS
<1>6. u \in Seq(S) /\ Len(u) = n
  BY <1>2, <1>5, FunctionIsSeq
<1>7. PICK v : v = s \o t
  OBVIOUS
<1>8. /\ v \in Seq(S) /\ Len(v) = a + b
      /\ \A i \in 1 .. a : v[i] = s[i]
      /\ \A k \in 1 .. b : v[a + k] = t[k]
      /\ \A i \in 1 .. a + b : i \in 1 .. a \/ \E k \in 1 .. b : i = a + k
  <2>0. s \in Seq(S) /\ t \in Seq(S)
    BY <1>4
  <2>1. /\ v \in Seq(S) /\ Len(v) = Len(s) + Len(t)
        /\ \A i \in 1 .. Len(s) : v[i] = s[i]
        /\ \A k \in 1 .. Len(t) : v[Len(s) + k] = t[k]
    BY <1>7, <2>0, Concatenated
  <2>2. \A i \in 1 .. a + b : i \in 1 .. a \/ \E k \in 1 .. b : i = a + k
    <3>1. ASSUME NEW i \in 1 .. a + b, i \notin 1 .. a PROVE \E k \in 1 .. b : i = a + k
      <4>1. i - a \in 1 .. b /\ i = a + (i - a)
        BY <3>1
      <4>2. QED
        BY <4>1
    <3>2. QED
      BY <3>1
  <2>3. QED
    BY <1>4, <2>1, <2>2
<1>9. \A i \in 1 .. n : v[i] = u[i]
  <2>1. ASSUME NEW i \in 1 .. a + b PROVE v[i] = u[i]
    <3>1. CASE i \in 1 .. a
      BY <1>3, <1>8, <3>1
    <3>2. CASE \E k \in 1 .. b : i = a + k
      <4>1. PICK k \in 1 .. b : i = a + k
        BY <3>2
      <4>2. v[i] = E[a + k]
        BY <1>3, <1>8, <4>1
      <4>3. u[i] = E[a + k]
        BY <1>3, <4>1
      <4>4. QED
        BY <4>2, <4>3
    <3>3. QED
      BY <1>8, <3>1, <3>2
  <2>2. QED
    BY <1>5, <2>1
<1>10. v = u
  BY <1>5, <1>6, <1>8, <1>9, SameSequence
<1>11. QED
  BY <1>7, <1>10 DEF s, t, u

OutsJoin(m, r, p, q, g, a, h, b, c) ==
  Cat(Outs(m, r, p, q, g, a), Outs(m, r, p, q, h, b)) = Outs(m, r, p, q, g, c)

LEMMA OutsMore ==
  ASSUME NEW m, NEW r, NEW p, NEW q, NEW g \in Nat, NEW a \in Nat, NEW b \in Nat,
         NEW h, h = g + a, NEW c, c = a + b
  PROVE  OutsJoin(m, r, p, q, g, a, h, b, c)
<1> DEFINE E == [ k \in Nat |-> OutByte(m, r, p, q, g + k) ]
<1>1. \A k \in 1 .. a : E[k] = OutByte(m, r, p, q, g + k)
  OBVIOUS
<1>2. \A k \in 1 .. c : E[k] = OutByte(m, r, p, q, g + k)
  OBVIOUS
<1>3. \A k \in 1 .. b : E[a + k] = OutByte(m, r, p, q, h + k)
  <2>1. \A k \in 1 .. b : a + k \in Nat /\ g + (a + k) = h + k
    OBVIOUS
  <2>2. QED
    BY <2>1
<1> HIDE DEF E
<1>4. /\ Outs(m, r, p, q, g, a) = [ k \in 1 .. a |-> E[k] ]
      /\ Outs(m, r, p, q, h, b) = [ k \in 1 .. b |-> E[a + k] ]
      /\ Outs(m, r, p, q, g, c) = [ k \in 1 .. c |-> E[k] ]
  BY <1>1, <1>2, <1>3 DEF Outs
<1>5. [ k \in 1 .. a |-> E[k] ] \o [ k \in 1 .. b |-> E[a + k] ] = [ k \in 1 .. a + b |-> E[k] ]
  BY OneList
<1>6. QED
  BY <1>4, <1>5 DEF Cat, OutsJoin

BlockGives(m, r, p, q, w, a, g) ==
  FirstBytes(Stage(m, r, p, q, q + (w + 1)), a) = Outs(m, r, p, q, g, a)

LEMMA BlockOuts ==
  ASSUME NEW m, NEW r \in Nat \ {0}, NEW p, NEW q \in Nat, NEW w \in Nat, NEW a \in 0 .. r,
         NEW g \in Nat, g = r * w
  PROVE  BlockGives(m, r, p, q, w, a, g)
<1>1. PICK A : A = Stage(m, r, p, q, q + (w + 1))
  OBVIOUS
<1>2. ASSUME NEW i \in 1 .. a PROVE ByteAt(A, i - 1) = OutByte(m, r, p, q, g + i)
  <2>1. PICK x \in 0 .. r - 1, j \in Nat : x = i - 1 /\ j = g + x /\ j + 1 = g + i
    <3>1. i - 1 \in 0 .. r - 1 /\ g + (i - 1) \in Nat /\ (g + (i - 1)) + 1 = g + i
      OBVIOUS
    <3>2. QED
      BY <3>1
  <2>2. Splits(j, r, w, x)
    BY <2>1 DEF Splits
  <2>3. StageGives(m, r, p, q, w, x, j)
    BY <2>2, StageByte
  <2>4. QED
    BY <1>1, <2>1, <2>3 DEF StageGives
<1>3. QED
  BY <1>1, <1>2 DEF FirstBytes, Outs, BlockGives

LeftGives(m, r, p, q, w, n, a, g) ==
  [ b \in 1 .. a |-> ByteAt(Stage(m, r, p, q, q + w), (r - n) + (b - 1)) ] = Outs(m, r, p, q, g, a)

\* The n bytes left of the last block.
LEMMA LeftOuts ==
  ASSUME NEW m, NEW r \in Nat \ {0}, NEW p, NEW q \in Nat, NEW w \in Nat, NEW n \in 0 .. r - 1,
         NEW g \in Nat, NEW d \in Nat, d = r * w, g + n = d, NEW a \in 0 .. n
  PROVE  LeftGives(m, r, p, q, w, n, a, g)
<1>1. PICK A : A = Stage(m, r, p, q, q + w)
  OBVIOUS
<1>2. ASSUME NEW i \in 1 .. a PROVE ByteAt(A, (r - n) + (i - 1)) = OutByte(m, r, p, q, g + i)
  <2>1. w # 0
    <3>1. d # 0
      BY <1>2
    <3>2. r * 0 = 0
      OBVIOUS
    <3>3. QED
      BY <3>1, <3>2
  <2>2. PICK v \in Nat : w = v + 1
    <3>1. w - 1 \in Nat /\ w = (w - 1) + 1
      BY <2>1
    <3>2. QED
      BY <3>1
  <2>3. PICK c \in Nat : c = r * v /\ d = c + r
    <3>1. r * v \in Nat /\ r * (v + 1) = r * v + r
      OBVIOUS
    <3>2. QED
      BY <2>2, <3>1
  <2>4. PICK x \in 0 .. r - 1, j \in Nat : x = (r - n) + (i - 1) /\ j = c + x /\ j + 1 = g + i
    <3>1. (r - n) + (i - 1) \in 0 .. r - 1 /\ c + ((r - n) + (i - 1)) \in Nat
          /\ (c + ((r - n) + (i - 1))) + 1 = g + i
      BY <2>3
    <3>2. QED
      BY <3>1
  <2>5. Splits(j, r, v, x)
    BY <2>3, <2>4 DEF Splits
  <2>6. StageGives(m, r, p, q, v, x, j)
    BY <2>5, StageByte
  <2>7. QED
    BY <1>1, <2>2, <2>4, <2>6 DEF StageGives
<1>3. QED
  BY <1>1, <1>2 DEF Outs, LeftGives

\* The bytes given out and the context they leave.
Giving(h, c) == [ h |-> h, ctx |-> c ]

LEMMA GivingFields ==
  ASSUME NEW h, NEW c
  PROVE  Giving(h, c).h = h /\ Giving(h, c).ctx = c
  BY DEF Giving

\* How many bytes of n the first k blocks give.
GivenBefore(n, r, k) == Smaller(n, k * r)
SqueezedTo(x, n, r, k) ==
  Giving(x.h \o FirstBytes(Permuted(x.ctx.s), Smaller(n - ((k - 1) * r), r)),
         Context(Permuted(x.ctx.s), r - Smaller(n - ((k - 1) * r), r)))
Squeezes(f, c, n, r, t) ==
  f = [ k \in 0 .. t |-> IF k = 0 THEN Giving(<< >>, c) ELSE SqueezedTo(f[k - 1], n, r, k) ]
SqueezeTimes(n, r) == (n + r - 1) \div r

LEMMA SqueezeChosen ==
  ASSUME NEW c, NEW n, NEW r
  PROVE  Squeezed(c, n, r) = (CHOOSE f : Squeezes(f, c, n, r, SqueezeTimes(n, r)))[SqueezeTimes(n, r)]
  BY Zenon DEF Squeezed, Squeezes, SqueezedTo, SqueezeTimes, Giving, Context

Gives(g, c, n, r, t) ==
  Listed(g, t) /\ g[0] = Giving(<< >>, c) /\ \A k \in 1 .. t : g[k] = SqueezedTo(g[k - 1], n, r, k)

LEMMA SqueezeRounds ==
  ASSUME NEW c, NEW r, NEW n, NEW t \in Nat, t = SqueezeTimes(n, r), NEW g, Gives(g, c, n, r, t)
  PROVE  Squeezed(c, n, r) = g[t]
<1>0. Listed(g, t) /\ g[0] = Giving(<< >>, c) /\ \A k \in 1 .. t : g[k] = SqueezedTo(g[k - 1], n, r, k)
  BY DEF Gives
<1>1. Squeezes(g, c, n, r, t)
  <2>1. \A k \in 0 .. t : k # 0 => k \in 1 .. t
    OBVIOUS
  <2>2. \A k \in 0 .. t : g[k] = IF k = 0 THEN Giving(<< >>, c) ELSE SqueezedTo(g[k - 1], n, r, k)
    BY <1>0, <2>1
  <2>3. PICK T : g \in [ 0 .. t -> T ]
    BY <1>0 DEF Listed
  <2>4. g = [ k \in 0 .. t |-> IF k = 0 THEN Giving(<< >>, c) ELSE SqueezedTo(g[k - 1], n, r, k) ]
    BY <2>2, <2>3
  <2>5. QED
    BY <2>4, Zenon DEF Squeezes
<1>2. PICK h : h = CHOOSE f : Squeezes(f, c, n, r, t)
  OBVIOUS
<1>3. Squeezes(h, c, n, r, t)
  BY <1>1, <1>2
<1>4. h[0] = Giving(<< >>, c) /\ \A k \in 1 .. t : h[k] = SqueezedTo(h[k - 1], n, r, k)
  <2>1. 0 \in 0 .. t /\ \A k \in 1 .. t : k \in 0 .. t /\ k # 0
    OBVIOUS
  <2>2. \A k \in 0 .. t : h[k] = IF k = 0 THEN Giving(<< >>, c) ELSE SqueezedTo(h[k - 1], n, r, k)
    BY <1>3 DEF Squeezes
  <2>3. QED
    BY <2>1, <2>2
<1>5. h[0] = g[0]
  BY <1>0, <1>4
<1>6. \A k \in 1 .. t : h[k - 1] = g[k - 1] => h[k] = g[k]
  BY <1>0, <1>4
<1>7. Together(g, h, t)
  BY <1>5, <1>6 DEF Together
<1>8. h[t] = g[t]
  BY <1>7, SameEnd
<1>9. QED
  BY <1>2, <1>8, SqueezeChosen

\* The blocks of n bytes: all but the last are given out whole.
Portions(n, r, t) ==
  /\ \A k \in 1 .. t : \E a \in Nat, i \in 1 .. r, d \in Nat :
       /\ a = (k - 1) * r /\ i = Smaller(n - ((k - 1) * r), r) /\ a = GivenBefore(n, r, k - 1)
       /\ GivenBefore(n, r, k) = a + i /\ d = r - i /\ k * r - GivenBefore(n, r, k) = d
  /\ t # 0 => GivenBefore(n, r, t) = n /\ t * r - n \in 0 .. r - 1
  /\ t = 0 => n = 0

LEMMA PortionsAre ==
  ASSUME NEW r \in Nat \ {0}, NEW n \in Nat, NEW t \in Nat, t = SqueezeTimes(n, r)
  PROVE  Portions(n, r, t)
<1>1. PICK h \in Nat : h = n + r - 1
  OBVIOUS
<1>2. PICK u \in 0 .. r - 1, b \in Nat : b = r * t /\ b = t * r /\ n + r - 1 = b + u
  <2>1. PICK w \in Nat, v \in 0 .. r - 1 : w = h \div r /\ h = r * w + v
    BY Quotients
  <2>2. w = t
    BY <1>1, <2>1 DEF SqueezeTimes
  <2>3. PICK b \in Nat : b = r * w
    OBVIOUS
  <2>4. b = w * r /\ h = b + v
    BY <2>1, <2>3
  <2>5. QED
    BY <1>1, <2>2, <2>3, <2>4
<1>3. ASSUME NEW k \in 1 .. t
      PROVE  \E a \in Nat, i \in 1 .. r, d \in Nat :
               /\ a = (k - 1) * r /\ i = Smaller(n - ((k - 1) * r), r) /\ a = GivenBefore(n, r, k - 1)
               /\ GivenBefore(n, r, k) = a + i /\ d = r - i /\ k * r - GivenBefore(n, r, k) = d
  <2>1. PICK j \in Nat : j = k - 1 /\ k = j + 1 /\ k \in Nat /\ k <= t
    OBVIOUS
  <2>2. PICK a \in Nat, c \in Nat : a = j * r /\ a = (k - 1) * r /\ c = k * r /\ c = a + r
    <3>1. j * r \in Nat /\ (j + 1) * r = j * r + r
      OBVIOUS
    <3>2. QED
      BY <2>1, <3>1
  <2>3. c <= b
    <3>1. r * k <= r * t /\ r * k = k * r
      BY <2>1, Products
    <3>2. QED
      BY <1>2, <2>2, <3>1
  <2>4. a < n
    BY <1>2, <2>2, <2>3
  <2>5. PICK i \in 1 .. r : i = Smaller(n - a, r) /\ (i = r \/ a + i = n) /\ i <= n - a
    <3>1. CASE n - a < r
      BY <2>4, <3>1 DEF Smaller
    <3>2. CASE ~ (n - a < r)
      BY <2>4, <3>2 DEF Smaller
    <3>3. QED
      BY <3>1, <3>2
  <2>6. GivenBefore(n, r, k - 1) = a
    BY <2>2, <2>4 DEF GivenBefore, Smaller
  <2>7. GivenBefore(n, r, k) = a + i
    <3>1. GivenBefore(n, r, k) = Smaller(n, c)
      BY <2>2 DEF GivenBefore
    <3>2. CASE i = r
      BY <2>2, <2>5, <3>1, <3>2 DEF Smaller
    <3>3. CASE a + i = n
      BY <2>2, <2>5, <3>1, <3>3 DEF Smaller
    <3>4. QED
      BY <2>5, <3>2, <3>3
  <2>8. PICK d \in Nat : d = r - i /\ c - (a + i) = d
    BY <2>2
  <2>9. QED
    BY <2>2, <2>5, <2>6, <2>7, <2>8
<1>4. t # 0 => GivenBefore(n, r, t) = n /\ t * r - n \in 0 .. r - 1
  <2>1. n <= b /\ b - n \in 0 .. r - 1
    BY <1>2
  <2>2. GivenBefore(n, r, t) = Smaller(n, b)
    BY <1>2 DEF GivenBefore
  <2>3. Smaller(n, b) = n
    BY <1>2, <2>1 DEF Smaller
  <2>4. QED
    BY <1>2, <2>1, <2>2, <2>3
<1>5. t = 0 => n = 0
  <2>1. t = 0 => b = 0
    BY <1>2
  <2>2. b = 0 => n = 0
    BY <1>2
  <2>3. QED
    BY <2>1, <2>2
<1>6. QED
  BY <1>3, <1>4, <1>5 DEF Portions

\* A squeezing context: g bytes of the output are given out.
Squeezing(c, g, m, r, p, q) ==
  \E w \in Nat, n \in 0 .. r - 1, d \in Nat :
    d = r * w /\ g + n = d /\ c = Context(Stage(m, r, p, q, q + w), n)

\* The output and the context after k of its blocks.
Handed(m, r, p, q, w, c, g, n, k) ==
  Giving(Outs(m, r, p, q, g, GivenBefore(n, r, k)),
         IF k = 0 THEN c ELSE Context(Stage(m, r, p, q, q + (w + k)), k * r - GivenBefore(n, r, k)))

LEMMA FirstHanded ==
  ASSUME NEW m, NEW r \in Nat \ {0}, NEW p, NEW q, NEW w, NEW c, NEW g, NEW n \in Nat
  PROVE  Handed(m, r, p, q, w, c, g, n, 0) = Giving(<< >>, c)
<1>1. GivenBefore(n, r, 0) = 0
  <2>1. 0 * r = 0 /\ Smaller(n, 0) = 0
    BY DEF Smaller
  <2>2. QED
    BY <2>1 DEF GivenBefore
<1>2. Outs(m, r, p, q, g, 0) = << >>
  <2>1. 1 .. 0 = {}
    OBVIOUS
  <2>2. Outs(m, r, p, q, g, 0) = [ i \in {} |-> OutByte(m, r, p, q, g + i) ]
    BY <2>1 DEF Outs
  <2>3. << >> = [ i \in {} |-> OutByte(m, r, p, q, g + i) ]
    OBVIOUS
  <2>4. QED
    BY <2>2, <2>3
<1>3. QED
  BY <1>1, <1>2 DEF Handed

StageContext(c, m, r, p, q, w, e) == c = Context(Stage(m, r, p, q, q + w), e)

Whole(g, r, w) == g = r * w
HandsOn(m, r, p, q, w, c, g, n, k) ==
  Handed(m, r, p, q, w, c, g, n, k) = SqueezedTo(Handed(m, r, p, q, w, c, g, n, k - 1), n, r, k)

LEMMA NextHanded ==
  ASSUME NEW m, NEW r \in Nat \ {0}, NEW p, NEW q \in Nat, NEW w \in Nat, NEW e,
         NEW c, StageContext(c, m, r, p, q, w, e),
         NEW g \in Nat, Whole(g, r, w), NEW n \in Nat, NEW t \in Nat, Portions(n, r, t), NEW k \in 1 .. t
  PROVE  HandsOn(m, r, p, q, w, c, g, n, k)
<1>1. PICK a \in Nat, i \in 1 .. r, d \in Nat :
        /\ a = (k - 1) * r /\ i = Smaller(n - ((k - 1) * r), r) /\ a = GivenBefore(n, r, k - 1)
        /\ GivenBefore(n, r, k) = a + i /\ d = r - i /\ k * r - GivenBefore(n, r, k) = d
  BY DEF Portions
<1>2. PICK v \in Nat : v = w + (k - 1) /\ v + 1 = w + k
  <2>1. w + (k - 1) \in Nat /\ (w + (k - 1)) + 1 = w + k
    OBVIOUS
  <2>2. QED
    BY <2>1
<1>3. PICK h \in Nat : h = g + a /\ h = r * v
  <2>1. PICK j \in Nat : j = k - 1
    OBVIOUS
  <2>2. r * (w + j) = r * w + r * j /\ r * j = j * r
    BY <2>1
  <2>3. r * v = g + a
    BY <1>1, <1>2, <2>1, <2>2 DEF Whole
  <2>4. QED
    BY <2>3
<1>4. PICK x : x = Handed(m, r, p, q, w, c, g, n, k - 1)
  OBVIOUS
<1>5. x.h = Outs(m, r, p, q, g, a) /\ x.ctx.s = Stage(m, r, p, q, q + v)
  <2>1. CASE k = 1
    <3>1. k - 1 = 0 /\ v = w
      BY <1>2, <2>1
    <3>2. x = Giving(Outs(m, r, p, q, g, a), c)
      BY <1>1, <1>4, <3>1 DEF Handed
    <3>3. c.s = Stage(m, r, p, q, q + w)
      BY ContextFields DEF StageContext
    <3>4. QED
      BY <3>1, <3>2, <3>3, GivingFields
  <2>2. CASE k # 1
    <3>1. k - 1 # 0
      BY <2>2
    <3>2. PICK f : f = (k - 1) * r - GivenBefore(n, r, k - 1)
      OBVIOUS
    <3>3. x = Giving(Outs(m, r, p, q, g, a), Context(Stage(m, r, p, q, q + v), f))
      BY <1>1, <1>2, <1>4, <3>1, <3>2 DEF Handed
    <3>4. QED
      BY <3>3, GivingFields, ContextFields
  <2>3. QED
    BY <2>1, <2>2
<1>6. PICK A : A = Stage(m, r, p, q, q + (v + 1)) /\ Permuted(Stage(m, r, p, q, q + v)) = A
  <2>1. PICK b \in Nat : b = q + v /\ q <= b /\ b + 1 = q + (v + 1)
    OBVIOUS
  <2>2. StageEnds(m, r, p, q, b)
    BY <2>1, NextStage
  <2>3. QED
    BY <2>1, <2>2 DEF StageEnds
<1>7. FirstBytes(A, i) = Outs(m, r, p, q, h, i)
  <2>1. i \in 0 .. r
    OBVIOUS
  <2>2. BlockGives(m, r, p, q, v, i, h)
    BY <1>3, <2>1, BlockOuts
  <2>3. QED
    BY <1>6, <2>2 DEF BlockGives
<1>8. PICK b \in Nat : b = a + i
  OBVIOUS
<1>9. Cat(Outs(m, r, p, q, g, a), Outs(m, r, p, q, h, i)) = Outs(m, r, p, q, g, b)
  <2>1. i \in Nat
    OBVIOUS
  <2>2. OutsJoin(m, r, p, q, g, a, h, i, b)
    BY <1>3, <1>8, <2>1, OutsMore
  <2>3. QED
    BY <2>2 DEF OutsJoin
<1>10. SqueezedTo(x, n, r, k) = Giving(Cat(x.h, FirstBytes(Permuted(x.ctx.s), i)), Context(Permuted(x.ctx.s), d))
  BY <1>1, Zenon DEF SqueezedTo, Cat
<1>11. SqueezedTo(x, n, r, k) = Giving(Outs(m, r, p, q, g, b), Context(A, d))
  BY <1>5, <1>6, <1>7, <1>9, <1>10
<1>12. Handed(m, r, p, q, w, c, g, n, k) = Giving(Outs(m, r, p, q, g, b), Context(A, d))
  <2>1. k # 0
    OBVIOUS
  <2>2. QED
    BY <1>1, <1>2, <1>6, <1>8, <2>1 DEF Handed
<1>13. QED
  BY <1>4, <1>11, <1>12 DEF HandsOn

LEMMA SqueezedIs ==
  ASSUME NEW m, NEW r \in Nat \ {0}, NEW p, NEW q \in Nat, NEW w \in Nat, NEW e,
         NEW c, StageContext(c, m, r, p, q, w, e),
         NEW g \in Nat, Whole(g, r, w), NEW n \in Nat, NEW t \in Nat, t = SqueezeTimes(n, r)
  PROVE  Squeezed(c, n, r) = Handed(m, r, p, q, w, c, g, n, t)
<1> DEFINE T == { Handed(m, r, p, q, w, c, g, n, k) : k \in 0 .. t }
<1>1. PICK f : f = [ k \in 0 .. t |-> Handed(m, r, p, q, w, c, g, n, k) ]
  OBVIOUS
<1>2. f \in [ 0 .. t -> T ] /\ \A k \in 0 .. t : f[k] = Handed(m, r, p, q, w, c, g, n, k)
  BY <1>1
<1>3. Portions(n, r, t)
  BY PortionsAre
<1>4. f[0] = Giving(<< >>, c)
  <2>1. Handed(m, r, p, q, w, c, g, n, 0) = Giving(<< >>, c)
    BY FirstHanded
  <2>2. 0 \in 0 .. t
    OBVIOUS
  <2>3. QED
    BY <1>2, <2>1, <2>2
<1>5. ASSUME NEW k \in 1 .. t PROVE f[k] = SqueezedTo(f[k - 1], n, r, k)
  <2>1. k \in 0 .. t /\ k - 1 \in 0 .. t
    OBVIOUS
  <2>2. HandsOn(m, r, p, q, w, c, g, n, k)
    BY <1>3, NextHanded
  <2>3. QED
    BY <1>2, <2>1, <2>2 DEF HandsOn
<1> HIDE DEF T
<1>6. Gives(f, c, n, r, t)
  BY <1>2, <1>4, <1>5 DEF Gives, Listed
<1>7. Squeezed(c, n, r) = f[t]
  BY <1>6, SqueezeRounds
<1>8. t \in 0 .. t
  OBVIOUS
<1>9. QED
  BY <1>2, <1>7, <1>8

LeftOf(c, i, r) == [ b \in 1 .. i |-> ByteAt(c.s, (r - c.n) + (b - 1)) ]
Less(c, i) == [ c EXCEPT !.n = @ - i ]

LEMMA SqueezeIs ==
  ASSUME NEW c, NEW l, NEW r
  PROVE  keccak_inc_squeeze(c, l, r)
           = Giving(Cat(LeftOf(c, Smaller(l, c.n), r),
                        Squeezed(Less(c, Smaller(l, c.n)), l - Smaller(l, c.n), r).h),
                    Squeezed(Less(c, Smaller(l, c.n)), l - Smaller(l, c.n), r).ctx)
  BY Zenon DEF keccak_inc_squeeze, Giving, Cat, LeftOf, Less

LEMMA LessIs ==
  ASSUME NEW s, NEW n, NEW i
  PROVE  Less(Context(s, n), i) = Context(s, n - i)
  BY DEF Less, Context

\* Squeezing gives out the next bytes, and goes on behind them.
SqueezedOn(c, g, l, m, r, p, q) ==
  \E x : /\ keccak_inc_squeeze(c, l, r) = Giving(Outs(m, r, p, q, g, l), x)
         /\ Squeezing(x, g + l, m, r, p, q)

LEMMA NothingSqueezed ==
  ASSUME NEW c, NEW r \in Nat \ {0}
  PROVE  Squeezed(c, 0, r) = Giving(<< >>, c)
<1>1. SqueezeTimes(0, r) = 0
  <2>1. Splits(r - 1, r, 0, r - 1)
    BY DEF Splits
  <2>2. r - 1 \in Nat /\ r - 1 \in 0 .. r - 1 /\ 0 + r - 1 = r - 1 /\ 0 \in Nat
    OBVIOUS
  <2>3. PICK h \in Nat : h = r - 1 /\ h \in 0 .. r - 1
    BY <2>2
  <2>4. h \div r = 0
    BY <2>1, <2>3, Split
  <2>5. QED
    BY <2>2, <2>3, <2>4 DEF SqueezeTimes
<1>2. PICK f : f = [ k \in 0 .. 0 |-> Giving(<< >>, c) ]
  OBVIOUS
<1>3. f \in [ 0 .. 0 -> { Giving(<< >>, c) } ] /\ f[0] = Giving(<< >>, c)
  BY <1>2
<1>4. \A k \in 1 .. 0 : f[k] = SqueezedTo(f[k - 1], 0, r, k)
  OBVIOUS
<1>5. Gives(f, c, 0, r, 0)
  BY <1>3, <1>4 DEF Gives, Listed
<1>6. Squeezed(c, 0, r) = f[0]
  <2>1. PICK t \in Nat, n \in Nat : t = 0 /\ n = 0
    OBVIOUS
  <2>2. t = SqueezeTimes(n, r) /\ Gives(f, c, n, r, t)
    BY <1>1, <1>5, <2>1
  <2>3. Squeezed(c, n, r) = f[t]
    BY <2>2, SqueezeRounds
  <2>4. QED
    BY <2>1, <2>3
<1>7. QED
  BY <1>3, <1>6

LEMMA SqueezeOn ==
  ASSUME NEW m, NEW r \in Nat \ {0}, NEW p, NEW q \in Nat, NEW g \in Nat, NEW l \in Nat,
         NEW c, Squeezing(c, g, m, r, p, q)
  PROVE  SqueezedOn(c, g, l, m, r, p, q)
<1>1. PICK w \in Nat, n \in 0 .. r - 1, d \in Nat :
        d = r * w /\ g + n = d /\ c = Context(Stage(m, r, p, q, q + w), n)
  BY DEF Squeezing
<1>2. PICK i \in 0 .. n, j \in Nat, e \in Nat :
        /\ i = Smaller(l, n) /\ j = l - i /\ e = n - i /\ (j = 0 \/ (e = 0 /\ j # 0))
  <2>1. CASE l < n
    BY <2>1 DEF Smaller
  <2>2. CASE ~ (l < n)
    <3>1. Smaller(l, n) = n
      BY <2>2 DEF Smaller
    <3>2. l - n \in Nat
      BY <2>2
    <3>3. QED
      BY <3>1, <3>2
  <2>3. QED
    BY <2>1, <2>2
<1>3. PICK A : A = Stage(m, r, p, q, q + w) /\ c = Context(A, n) /\ c.s = A /\ c.n = n
  BY <1>1, ContextFields
<1>4. LeftOf(c, i, r) = Outs(m, r, p, q, g, i)
  <2>1. LeftOf(c, i, r) = [ b \in 1 .. i |-> ByteAt(A, (r - n) + (b - 1)) ]
    BY <1>3 DEF LeftOf
  <2>2. LeftGives(m, r, p, q, w, n, i, g)
    BY <1>1, LeftOuts
  <2>3. QED
    BY <1>3, <2>1, <2>2 DEF LeftGives
<1>5. Less(c, i) = Context(A, e)
  BY <1>2, <1>3, LessIs
<1>6. PICK y : y = Squeezed(Context(A, e), j, r)
  OBVIOUS
<1>7. keccak_inc_squeeze(c, l, r) = Giving(Cat(Outs(m, r, p, q, g, i), y.h), y.ctx)
  <2>1. keccak_inc_squeeze(c, l, r)
          = Giving(Cat(LeftOf(c, Smaller(l, c.n), r),
                       Squeezed(Less(c, Smaller(l, c.n)), l - Smaller(l, c.n), r).h),
                   Squeezed(Less(c, Smaller(l, c.n)), l - Smaller(l, c.n), r).ctx)
    BY SqueezeIs
  <2>2. Smaller(l, c.n) = i /\ l - Smaller(l, c.n) = j
    BY <1>2, <1>3
  <2>3. QED
    BY <1>4, <1>5, <1>6, <2>1, <2>2
<1>8. CASE j = 0
  <2>1. y = Giving(<< >>, Context(A, e))
    BY <1>6, <1>8, NothingSqueezed
  <2>2. i = l /\ e \in 0 .. r - 1 /\ (g + l) + e = d
    BY <1>1, <1>2, <1>8
  <2>3. Cat(Outs(m, r, p, q, g, l), << >>) = Outs(m, r, p, q, g, l)
    <3>1. PICK S, o : o = Outs(m, r, p, q, g, l) /\ o \in [ 1 .. l -> S ]
      <4>1. Outs(m, r, p, q, g, l) \in [ 1 .. l -> { OutByte(m, r, p, q, g + b) : b \in 1 .. l } ]
        BY DEF Outs
      <4>2. QED
        BY <4>1
    <3>2. o \in Seq(S)
      BY <3>1, FunctionIsSeq
    <3>3. o \o << >> = o
      BY <3>2, NothingMore
    <3>4. QED
      BY <3>1, <3>3 DEF Cat
  <2>4. keccak_inc_squeeze(c, l, r) = Giving(Outs(m, r, p, q, g, l), Context(A, e))
    BY <1>7, <2>1, <2>2, <2>3, GivingFields
  <2>5. Squeezing(Context(A, e), g + l, m, r, p, q)
    BY <1>1, <1>3, <2>2 DEF Squeezing
  <2>6. QED
    BY <2>4, <2>5 DEF SqueezedOn
<1>9. CASE e = 0 /\ j # 0
  <2>1. i = n /\ g + i = d /\ i + j = l
    <3>1. j = l - i /\ n - i = 0
      BY <1>2, <1>9
    <3>2. i = n /\ i + j = l
      BY <3>1
    <3>3. g + n = d
      BY <1>1
    <3>4. QED
      BY <3>2, <3>3
  <2>2. PICK t \in Nat : t = SqueezeTimes(j, r)
    <3>1. PICK h \in Nat : h = j + r - 1
      OBVIOUS
    <3>2. h \div r \in Nat
      BY Quotients
    <3>3. QED
      BY <3>1, <3>2 DEF SqueezeTimes
  <2>3. PICK b : b = Context(A, e)
    OBVIOUS
  <2>4. y = Handed(m, r, p, q, w, b, d, j, t)
    <3>1. StageContext(b, m, r, p, q, w, e)
      BY <1>3, <2>3 DEF StageContext
    <3>a. Whole(d, r, w)
      BY <1>1 DEF Whole
    <3>2. Squeezed(b, j, r) = Handed(m, r, p, q, w, b, d, j, t)
      BY <2>2, <3>a, <3>1, SqueezedIs
    <3>3. QED
      BY <1>6, <2>3, <3>2
  <2>5. t # 0 /\ GivenBefore(j, r, t) = j /\ t * r - j \in 0 .. r - 1
    <3>1. Portions(j, r, t)
      BY <2>2, PortionsAre
    <3>2. QED
      BY <1>9, <3>1 DEF Portions
  <2>6. PICK f \in 0 .. r - 1 : f = t * r - j
    BY <2>5
  <2>7. y = Giving(Outs(m, r, p, q, d, j), Context(Stage(m, r, p, q, q + (w + t)), f))
    BY <2>4, <2>5, <2>6 DEF Handed
  <2>8. Cat(Outs(m, r, p, q, g, i), Outs(m, r, p, q, d, j)) = Outs(m, r, p, q, g, l)
    <3>1. i \in Nat /\ d = g + i /\ l = i + j
      BY <2>1
    <3>2. OutsJoin(m, r, p, q, g, i, d, j, l)
      BY <3>1, OutsMore
    <3>3. QED
      BY <3>2 DEF OutsJoin
  <2>9. PICK x : x = Context(Stage(m, r, p, q, q + (w + t)), f)
    OBVIOUS
  <2>10. keccak_inc_squeeze(c, l, r) = Giving(Outs(m, r, p, q, g, l), x)
    BY <1>7, <2>7, <2>8, <2>9, GivingFields
  <2>11. Squeezing(x, g + l, m, r, p, q)
    <3>1. PICK v \in Nat : v = w + t
      OBVIOUS
    <3>2. PICK a \in Nat : a = r * v /\ a = d + t * r
      <4>1. r * (w + t) = r * w + r * t /\ r * t = t * r
        OBVIOUS
      <4>2. QED
        BY <1>1, <3>1, <4>1
    <3>3. PICK z \in Nat : z = t * r
      OBVIOUS
    <3>4. (g + l) + f = a
      BY <2>1, <2>6, <3>2, <3>3
    <3>5. QED
      BY <2>9, <3>1, <3>2, <3>4 DEF Squeezing
  <2>12. QED
    BY <2>10, <2>11 DEF SqueezedOn
<1>10. QED
  BY <1>2, <1>8, <1>9

(* Whole blocks.                                                            *)
BlocksOut(h, s) == [ h |-> h, s |-> s ]

LEMMA BlocksFields ==
  ASSUME NEW h, NEW s
  PROVE  BlocksOut(h, s).h = h /\ BlocksOut(h, s).s = s
  BY DEF BlocksOut

OneMore(x, r) == BlocksOut(x.h \o FirstBytes(Permuted(x.s), r), Permuted(x.s))
MakesBlocks(f, t, s, r) ==
  f = [ k \in 0 .. t |-> IF k = 0 THEN BlocksOut(<< >>, s) ELSE OneMore(f[k - 1], r) ]

LEMMA BlocksChosen ==
  ASSUME NEW t, NEW s, NEW r
  PROVE  keccak_squeezeblocks(t, s, r) = (CHOOSE f : MakesBlocks(f, t, s, r))[t]
  BY Zenon DEF keccak_squeezeblocks, MakesBlocks, OneMore, BlocksOut

GivesBlocks(g, t, s, r) ==
  Listed(g, t) /\ g[0] = BlocksOut(<< >>, s) /\ \A k \in 1 .. t : g[k] = OneMore(g[k - 1], r)

LEMMA BlocksRounds ==
  ASSUME NEW s, NEW r, NEW t \in Nat, NEW g, GivesBlocks(g, t, s, r)
  PROVE  keccak_squeezeblocks(t, s, r) = g[t]
<1>0. Listed(g, t) /\ g[0] = BlocksOut(<< >>, s) /\ \A k \in 1 .. t : g[k] = OneMore(g[k - 1], r)
  BY DEF GivesBlocks
<1>1. MakesBlocks(g, t, s, r)
  <2>1. \A k \in 0 .. t : k # 0 => k \in 1 .. t
    OBVIOUS
  <2>2. \A k \in 0 .. t : g[k] = IF k = 0 THEN BlocksOut(<< >>, s) ELSE OneMore(g[k - 1], r)
    BY <1>0, <2>1
  <2>3. PICK T : g \in [ 0 .. t -> T ]
    BY <1>0 DEF Listed
  <2>4. g = [ k \in 0 .. t |-> IF k = 0 THEN BlocksOut(<< >>, s) ELSE OneMore(g[k - 1], r) ]
    BY <2>2, <2>3
  <2>5. QED
    BY <2>4, Zenon DEF MakesBlocks
<1>2. PICK h : h = CHOOSE f : MakesBlocks(f, t, s, r)
  OBVIOUS
<1>3. MakesBlocks(h, t, s, r)
  BY <1>1, <1>2
<1>4. h[0] = BlocksOut(<< >>, s) /\ \A k \in 1 .. t : h[k] = OneMore(h[k - 1], r)
  <2>1. 0 \in 0 .. t /\ \A k \in 1 .. t : k \in 0 .. t /\ k # 0
    OBVIOUS
  <2>2. \A k \in 0 .. t : h[k] = IF k = 0 THEN BlocksOut(<< >>, s) ELSE OneMore(h[k - 1], r)
    BY <1>3 DEF MakesBlocks
  <2>3. QED
    BY <2>1, <2>2
<1>5. h[0] = g[0]
  BY <1>0, <1>4
<1>6. \A k \in 1 .. t : h[k - 1] = g[k - 1] => h[k] = g[k]
  BY <1>0, <1>4
<1>7. Together(g, h, t)
  BY <1>5, <1>6 DEF Together
<1>8. h[t] = g[t]
  BY <1>7, SameEnd
<1>9. QED
  BY <1>2, <1>8, BlocksChosen

\* The result after k blocks, and one more.
BlocksTo(m, r, p, q, w, g, k) == BlocksOut(Outs(m, r, p, q, g, k * r), Stage(m, r, p, q, q + (w + k)))
BlocksGoOn(m, r, p, q, w, g, k) ==
  BlocksTo(m, r, p, q, w, g, k) = OneMore(BlocksTo(m, r, p, q, w, g, k - 1), r)

LEMMA NextBlocks ==
  ASSUME NEW m, NEW r \in Nat \ {0}, NEW p, NEW q \in Nat, NEW w \in Nat,
         NEW g \in Nat, Whole(g, r, w), NEW k \in Nat \ {0}
  PROVE  BlocksGoOn(m, r, p, q, w, g, k)
<1>1. PICK j \in Nat, a \in Nat, b \in Nat :
        j = k - 1 /\ k = j + 1 /\ a = j * r /\ b = k * r /\ b = a + r
  <2>1. PICK j \in Nat : j = k - 1 /\ k = j + 1
    <3>1. k - 1 \in Nat /\ k = (k - 1) + 1
      OBVIOUS
    <3>2. QED
      BY <3>1
  <2>2. j * r \in Nat /\ (j + 1) * r = j * r + r
    BY <2>1
  <2>3. QED
    BY <2>1, <2>2
<1>2. PICK v \in Nat : v = w + j /\ v + 1 = w + k
  <2>1. w + j \in Nat /\ (w + j) + 1 = w + k
    BY <1>1
  <2>2. QED
    BY <2>1
<1>3. PICK h \in Nat : h = g + a /\ h = r * v
  <2>1. r * (w + j) = r * w + r * j /\ r * j = j * r
    OBVIOUS
  <2>2. r * v = g + a
    BY <1>1, <1>2, <2>1 DEF Whole
  <2>3. QED
    BY <2>2
<1>4. PICK x : x = BlocksTo(m, r, p, q, w, g, k - 1)
  OBVIOUS
<1>5. x.h = Outs(m, r, p, q, g, a) /\ x.s = Stage(m, r, p, q, q + v)
  <2>1. x = BlocksOut(Outs(m, r, p, q, g, a), Stage(m, r, p, q, q + v))
    BY <1>1, <1>2, <1>4 DEF BlocksTo
  <2>2. QED
    BY <2>1, BlocksFields
<1>6. PICK A : A = Stage(m, r, p, q, q + (v + 1)) /\ Permuted(Stage(m, r, p, q, q + v)) = A
  <2>1. PICK c \in Nat : c = q + v /\ q <= c /\ c + 1 = q + (v + 1)
    OBVIOUS
  <2>2. StageEnds(m, r, p, q, c)
    BY <2>1, NextStage
  <2>3. QED
    BY <2>1, <2>2 DEF StageEnds
<1>7. FirstBytes(A, r) = Outs(m, r, p, q, h, r)
  <2>1. r \in 0 .. r
    OBVIOUS
  <2>2. BlockGives(m, r, p, q, v, r, h)
    BY <1>3, <2>1, BlockOuts
  <2>3. QED
    BY <1>6, <2>2 DEF BlockGives
<1>8. Cat(Outs(m, r, p, q, g, a), Outs(m, r, p, q, h, r)) = Outs(m, r, p, q, g, b)
  <2>1. r \in Nat
    OBVIOUS
  <2>2. OutsJoin(m, r, p, q, g, a, h, r, b)
    BY <1>1, <1>3, <2>1, OutsMore
  <2>3. QED
    BY <2>2 DEF OutsJoin
<1>9. OneMore(x, r) = BlocksOut(Cat(x.h, FirstBytes(Permuted(x.s), r)), Permuted(x.s))
  BY Zenon DEF OneMore, Cat
<1>10. OneMore(x, r) = BlocksOut(Outs(m, r, p, q, g, b), A)
  BY <1>5, <1>6, <1>7, <1>8, <1>9
<1>11. BlocksTo(m, r, p, q, w, g, k) = BlocksOut(Outs(m, r, p, q, g, b), A)
  BY <1>1, <1>2, <1>6 DEF BlocksTo
<1>12. QED
  BY <1>4, <1>10, <1>11 DEF BlocksGoOn

LEMMA BlocksAre ==
  ASSUME NEW m, NEW r \in Nat \ {0}, NEW p, NEW q \in Nat, NEW w \in Nat,
         NEW g \in Nat, Whole(g, r, w), NEW t \in Nat, NEW s, s = Stage(m, r, p, q, q + w)
  PROVE  keccak_squeezeblocks(t, s, r) = BlocksTo(m, r, p, q, w, g, t)
<1> DEFINE T == { BlocksTo(m, r, p, q, w, g, k) : k \in 0 .. t }
<1>1. PICK f : f = [ k \in 0 .. t |-> BlocksTo(m, r, p, q, w, g, k) ]
  OBVIOUS
<1>2. f \in [ 0 .. t -> T ] /\ \A k \in 0 .. t : f[k] = BlocksTo(m, r, p, q, w, g, k)
  BY <1>1
<1>3. f[0] = BlocksOut(<< >>, s)
  <2>1. w + 0 = w /\ 0 * r = 0
    OBVIOUS
  <2>2. Outs(m, r, p, q, g, 0) = << >>
    <3>1. 1 .. 0 = {}
      OBVIOUS
    <3>2. Outs(m, r, p, q, g, 0) = [ i \in {} |-> OutByte(m, r, p, q, g + i) ]
      BY <3>1 DEF Outs
    <3>3. << >> = [ i \in {} |-> OutByte(m, r, p, q, g + i) ]
      OBVIOUS
    <3>4. QED
      BY <3>2, <3>3
  <2>3. 0 \in 0 .. t
    OBVIOUS
  <2>4. BlocksTo(m, r, p, q, w, g, 0) = BlocksOut(<< >>, s)
    BY <2>1, <2>2 DEF BlocksTo
  <2>5. QED
    BY <1>2, <2>3, <2>4
<1>4. ASSUME NEW k \in 1 .. t PROVE f[k] = OneMore(f[k - 1], r)
  <2>1. k \in 0 .. t /\ k - 1 \in 0 .. t /\ k \in Nat \ {0}
    OBVIOUS
  <2>2. BlocksGoOn(m, r, p, q, w, g, k)
    BY <2>1, NextBlocks
  <2>3. QED
    BY <1>2, <2>1, <2>2 DEF BlocksGoOn
<1> HIDE DEF T
<1>5. GivesBlocks(f, t, s, r)
  BY <1>2, <1>3, <1>4 DEF GivesBlocks, Listed
<1>6. keccak_squeezeblocks(t, s, r) = f[t]
  BY <1>5, BlocksRounds
<1>7. t \in 0 .. t
  OBVIOUS
<1>8. QED
  BY <1>2, <1>6, <1>7

(* A message at once.                                                       *)
BlockIn(s, r, m, k) == Permuted(Into(s, 0, SubSeq(m, ((k - 1) * r) + 1, k * r)))
TakesBlocks(f, r, m, t) == f = [ k \in 0 .. t |-> IF k = 0 THEN Zeroed ELSE BlockIn(f[k - 1], r, m, k) ]

LEMMA BlocksInChosen ==
  ASSUME NEW r, NEW m
  PROVE  Absorbed(r, m) = (CHOOSE f : TakesBlocks(f, r, m, Len(m) \div r))[Len(m) \div r]
  BY Zenon DEF Absorbed, TakesBlocks, BlockIn

TakenIn(g, r, m, t) ==
  Listed(g, t) /\ g[0] = Zeroed /\ \A k \in 1 .. t : g[k] = BlockIn(g[k - 1], r, m, k)

LEMMA BlocksInRounds ==
  ASSUME NEW r, NEW m, NEW t \in Nat, t = Len(m) \div r, NEW g, TakenIn(g, r, m, t)
  PROVE  Absorbed(r, m) = g[t]
<1>0. Listed(g, t) /\ g[0] = Zeroed /\ \A k \in 1 .. t : g[k] = BlockIn(g[k - 1], r, m, k)
  BY DEF TakenIn
<1>1. TakesBlocks(g, r, m, t)
  <2>1. \A k \in 0 .. t : k # 0 => k \in 1 .. t
    OBVIOUS
  <2>2. \A k \in 0 .. t : g[k] = IF k = 0 THEN Zeroed ELSE BlockIn(g[k - 1], r, m, k)
    BY <1>0, <2>1
  <2>3. PICK T : g \in [ 0 .. t -> T ]
    BY <1>0 DEF Listed
  <2>4. g = [ k \in 0 .. t |-> IF k = 0 THEN Zeroed ELSE BlockIn(g[k - 1], r, m, k) ]
    BY <2>2, <2>3
  <2>5. QED
    BY <2>4, Zenon DEF TakesBlocks
<1>2. PICK h : h = CHOOSE f : TakesBlocks(f, r, m, t)
  OBVIOUS
<1>3. TakesBlocks(h, r, m, t)
  BY <1>1, <1>2
<1>4. h[0] = Zeroed /\ \A k \in 1 .. t : h[k] = BlockIn(h[k - 1], r, m, k)
  <2>1. 0 \in 0 .. t /\ \A k \in 1 .. t : k \in 0 .. t /\ k # 0
    OBVIOUS
  <2>2. \A k \in 0 .. t : h[k] = IF k = 0 THEN Zeroed ELSE BlockIn(h[k - 1], r, m, k)
    BY <1>3 DEF TakesBlocks
  <2>3. QED
    BY <2>1, <2>2
<1>5. h[0] = g[0]
  BY <1>0, <1>4
<1>6. \A k \in 1 .. t : h[k - 1] = g[k - 1] => h[k] = g[k]
  BY <1>0, <1>4
<1>7. Together(g, h, t)
  BY <1>5, <1>6 DEF Together
<1>8. h[t] = g[t]
  BY <1>7, SameEnd
<1>9. QED
  BY <1>2, <1>8, BlocksInChosen

LEMMA NothingAbsorbed ==
  ASSUME NEW r \in Nat \ {0}
  PROVE  /\ Blocked(<< >>, r, 0, 0)
         /\ Absorption(<< >>, r, 0) = Zeroed
<1>1. PICK z : z = << >> /\ Len(z) = 0
  OBVIOUS
<1>2. r * 0 = 0
  OBVIOUS
<1>3. Filled(z, r, 0) = {}
  <2>1. PICK i \in Nat : i = 0 /\ HasLength(z, i) /\ i <= i
    BY <1>1 DEF HasLength
  <2>2. Filled(z, r, i) = {}
    BY <2>1, FilledNone
  <2>3. QED
    BY <2>1, <2>2
<1>4. [ k \in 1 .. 0 |-> Filled(z, r, r * (k - 1)) ] = << >>
  OBVIOUS
<1>5. Absorption(z, r, 0) = Sponged(<< >>, {})
  BY <1>2, <1>3, <1>4 DEF Absorption
<1>6. Blocked(z, r, 0, 0)
  BY <1>1, <1>2 DEF Blocked
<1>7. QED
  BY <1>1, <1>5, <1>6, ZeroedIs

Everything(m, r, t) == Slice(m, 0, r * t)

LEMMA AbsorbedIs ==
  ASSUME NEW S, NEW m \in Seq(S), NEW r \in Nat \ {0}, NEW t \in Nat, NEW u \in 0 .. r - 1,
         Blocked(m, r, t, u)
  PROVE  /\ Absorbed(r, m) = Absorption(Everything(m, r, t), r, t)
         /\ Blocked(Everything(m, r, t), r, t, 0)
<1>1. PICK l \in Nat : HasLength(m, l) /\ l = Len(m) /\ l = r * t + u
  BY SequenceIs DEF HasLength, Blocked
<1>2. Makes(0, l, r, t, u)
  BY <1>1 DEF Makes
<1>3. PICK e \in Seq(S) : e = << >> /\ Blocked(e, r, 0, 0) /\ Absorption(e, r, 0) = Zeroed
  <2>1. << >> \in Seq(S)
    OBVIOUS
  <2>2. QED
    BY <2>1, NothingAbsorbed
<1>4. PICK n \in 0 .. r - 1, q \in Nat : n = 0 /\ q = 0
  OBVIOUS
<1>5. Blocked(e, r, q, n) /\ Makes(n, l, r, t, u)
  BY <1>2, <1>3, <1>4
<1>6. \A k \in 0 .. t : Consumed(n, r, k) = k * r /\ Ahead(n, k) = 0
  BY <1>4 DEF Consumed, Ahead
<1> DEFINE T == { Between(e, m, r, q, n, k).s : k \in 0 .. t }
<1>7. PICK f : f = [ k \in 0 .. t |-> Between(e, m, r, q, n, k).s ]
  OBVIOUS
<1>8. f \in [ 0 .. t -> T ] /\ \A k \in 0 .. t : f[k] = Between(e, m, r, q, n, k).s
  BY <1>7
<1> HIDE DEF T
<1>9. f[0] = Zeroed
  <2>1. Between(e, m, r, q, n, 0) = Context(Absorption(e, r, q), n)
    <3>1. n \in Nat
      OBVIOUS
    <3>2. QED
      BY <3>1, FirstFed
  <2>2. Between(e, m, r, q, n, 0).s = Zeroed
    BY <1>3, <1>4, <2>1, ContextFields
  <2>3. 0 \in 0 .. t
    OBVIOUS
  <2>4. QED
    BY <1>8, <2>2, <2>3
<1>10. ASSUME NEW k \in 1 .. t PROVE f[k] = BlockIn(f[k - 1], r, m, k)
  <2>1. PICK j \in 0 .. t : j = k - 1 /\ k \in 0 .. t
    OBVIOUS
  <2>2. Blocked(Fed(e, m, r, n, k - 1), r, q + (k - 1), Ahead(n, k - 1))
    <3>1. \A i \in 0 .. t : Blocked(Fed(e, m, r, n, i), r, q + i, Ahead(n, i))
      BY <1>1, <1>5, AllFed
    <3>2. QED
      BY <2>1, <3>1
  <2>3. Between(e, m, r, q, n, k) = AbsorbedTo(Between(e, m, r, q, n, k - 1), n, r, m, k)
    BY <1>1, <1>5, <2>2, NextFed
  <2>4. PICK x : x = Between(e, m, r, q, n, k - 1) /\ x = Between(e, m, r, q, n, j)
    BY <2>1
  <2>5. x.n = 0
    BY <1>6, <2>4, ContextFields DEF Between
  <2>6. AbsorbedTo(x, n, r, m, k) = Context(BlockIn(x.s, r, m, k), 0)
    <3>1. Consumed(n, r, k - 1) = (k - 1) * r /\ Consumed(n, r, k) = k * r
      BY <1>6, <2>1
    <3>2. QED
      BY <2>5, <3>1 DEF AbsorbedTo, BlockIn
  <2>7. Between(e, m, r, q, n, k).s = BlockIn(x.s, r, m, k)
    BY <2>3, <2>4, <2>6, ContextFields
  <2>8. f[k] = Between(e, m, r, q, n, k).s /\ f[k - 1] = x.s
    BY <1>8, <2>1, <2>4
  <2>9. QED
    BY <2>7, <2>8
<1>11. TakenIn(f, r, m, t)
  BY <1>8, <1>9, <1>10 DEF TakenIn, Listed
<1>12. t = Len(m) \div r
  <2>1. Splits(l, r, t, u)
    BY <1>1 DEF Splits
  <2>2. QED
    BY <1>1, <2>1, Split
<1>13. Absorbed(r, m) = f[t]
  BY <1>11, <1>12, BlocksInRounds
<1>14. PICK x \in Seq(S) : x = Slice(m, 0, Consumed(n, r, t)) /\ x = Everything(m, r, t)
  <2>1. PICK a \in Nat : a = r * t /\ a = t * r
    OBVIOUS
  <2>2. 0 <= a /\ a <= l /\ 0 \in Nat /\ a = a - 0
    BY <1>1, <2>1
  <2>3. Slice(m, 0, a) \in Seq(S)
    BY <1>1, <2>2, SliceIs
  <2>4. t \in 0 .. t
    OBVIOUS
  <2>5. QED
    BY <1>6, <2>1, <2>3, <2>4 DEF Everything
<1>15. Cat(e, x) = x
  <2>1. << >> \o x = x
    OBVIOUS
  <2>2. QED
    BY <1>3, <2>1 DEF Cat
<1>16. t \in 0 .. t /\ q + t = t
  BY <1>4
<1>17. f[t] = Absorption(x, r, t)
  <2>1. Between(e, m, r, q, n, t) = Context(Absorption(x, r, t), Ahead(n, t))
    BY <1>14, <1>15, <1>16 DEF Between, Fed
  <2>2. QED
    BY <1>8, <1>16, <2>1, ContextFields
<1>18. Blocked(x, r, t, 0)
  <2>1. \A i \in 0 .. t : Blocked(Fed(e, m, r, n, i), r, q + i, Ahead(n, i))
    BY <1>1, <1>5, AllFed
  <2>2. Fed(e, m, r, n, t) = x
    BY <1>14, <1>15 DEF Fed
  <2>3. QED
    BY <1>6, <1>16, <2>1, <2>2
<1>19. QED
  BY <1>13, <1>14, <1>17, <1>18

AtOnceIs(m, r, p, q) == keccak_absorb(r, m, p) = Stage(m, r, p, q, q)

LEMMA AtOnce ==
  ASSUME NEW S, NEW m \in Seq(S), NEW r \in Nat \ {0}, NEW q \in Nat, NEW n \in 0 .. r - 1,
         Blocked(m, r, q, n), NEW p \in 1 .. 127, KnownByte(p) \in S
  PROVE  AtOnceIs(m, r, p, q)
<1>1. keccak_absorb(r, m, p)
        = Into(Into(Absorbed(r, m), 0, Append(From(m, (Len(m) \div r) * r), KnownByte(p))),
               r - 1, One(KnownByte(128)))
  BY Zenon DEF keccak_absorb, One, KnownByte
<1>2. PICK l \in Nat : HasLength(m, l) /\ l = Len(m) /\ l = r * q + n
  BY SequenceIs DEF HasLength, Blocked
<1>3. Len(m) \div r = q
  <2>1. Splits(l, r, q, n)
    BY <1>2 DEF Splits
  <2>2. QED
    BY <1>2, <2>1, Split
<1>4. PICK a \in Nat, b \in Nat : a = r * q /\ a = q * r /\ a <= l /\ l = a + n /\ b = n + 1 /\ n = l - a
  <2>1. PICK a \in Nat : a = r * q /\ a = q * r
    OBVIOUS
  <2>2. QED
    BY <1>2, <2>1
<1>5. PICK x \in Seq(S), y \in Seq(S) : x = Slice(m, 0, a) /\ y = Slice(m, a, l) /\ HasLength(y, n)
  <2>1. 0 <= a /\ 0 \in Nat /\ l <= l /\ a = a - 0 /\ n \in Nat
    BY <1>4
  <2>2. Slice(m, 0, a) \in Seq(S)
    BY <1>2, <1>4, <2>1, SliceIs
  <2>3. Slice(m, a, l) \in Seq(S) /\ HasLength(Slice(m, a, l), n)
    BY <1>2, <1>4, <2>1, SliceIs
  <2>4. QED
    BY <2>2, <2>3
<1>6. PICK v \in S : v = KnownByte(p)
  OBVIOUS
<1>7. PICK o \in Seq(S) : o = One(v) /\ HasLength(o, 1)
  <2>1. << v >> \in Seq(S) /\ Len(<< v >>) = 1
    OBVIOUS
  <2>2. QED
    BY <2>1 DEF One, HasLength
<1>8. PICK t \in Seq(S) : t = Cat(y, o) /\ HasLength(t, b)
  <2>1. y \o o \in Seq(S) /\ HasLength(y \o o, n + 1)
    BY <1>5, <1>7, LengthsAdd
  <2>2. QED
    BY <1>4, <2>1 DEF Cat
<1>9. Append(From(m, (Len(m) \div r) * r), KnownByte(p)) = t
  <2>1. From(m, (Len(m) \div r) * r) = y
    BY <1>2, <1>3, <1>4, <1>5 DEF From, Slice
  <2>2. Append(y, v) = y \o << v >>
    OBVIOUS
  <2>3. QED
    BY <1>6, <1>7, <1>8, <2>1, <2>2 DEF Cat, One
<1>10. Absorbed(r, m) = Absorption(x, r, q) /\ Blocked(x, r, q, 0)
  BY <1>4, <1>5, AbsorbedIs DEF Everything
<1>11. Into(Absorption(x, r, q), 0, t) = Absorption(Cat(x, t), r, q)
  <2>1. PICK i \in Nat : i = 0 /\ i + b <= r
    BY <1>4
  <2>2. Blocked(x, r, q, i)
    BY <1>10, <2>1
  <2>3. Into(Absorption(x, r, q), i, t) = Absorption(Cat(x, t), r, q)
    BY <1>8, <2>1, <2>2, CatSlice
  <2>4. QED
    BY <2>1, <2>3
<1>12. Cat(x, t) = Ends(m, p)
  <2>1. Cat(x, y) = m
    <3>1. PICK e \in Nat : e = l /\ a <= e /\ e <= l
      BY <1>4
    <3>2. Cat(Slice(m, 0, a), Slice(m, a, e)) = Slice(m, 0, e)
      BY <1>2, <3>1, SlicesJoin
    <3>3. Slice(m, 0, l) = m
      BY <1>2, CatNothing
    <3>4. QED
      BY <1>5, <3>1, <3>2, <3>3
  <2>2. Cat(Cat(x, y), o) = Cat(x, Cat(y, o))
    BY CatAgain
  <2>3. QED
    BY <1>6, <1>7, <1>8, <2>1, <2>2 DEF Ends
<1>13. IsPadded(m, r, p, q)
  BY PaddedStage
<1>14. QED
  BY <1>1, <1>9, <1>10, <1>11, <1>12, <1>13 DEF IsPadded, AtOnceIs
-----------------------------------------------------------------------------
(* The messages.                                                            *)
IsSeq(s) == \E S : s \in Seq(S)

LEMMA InOneSet ==
  ASSUME NEW s, NEW t, IsSeq(s), IsSeq(t), NEW x
  PROVE  \E S : s \in Seq(S) /\ t \in Seq(S) /\ x \in S
<1>1. PICK S, T : s \in Seq(S) /\ t \in Seq(T)
  BY DEF IsSeq
<1>2. PICK U : U = (S \cup T) \cup {x}
  OBVIOUS
<1>3. s \in Seq(U) /\ t \in Seq(U) /\ x \in U
  <2>1. S \subseteq U /\ T \subseteq U /\ x \in U
    BY <1>2
  <2>2. s \in Seq(U)
    BY <1>1, <2>1
  <2>3. t \in Seq(U)
    BY <1>1, <2>1
  <2>4. QED
    BY <2>1, <2>2, <2>3
<1>4. QED
  BY <1>3

LEMMA CatIsSeq ==
  ASSUME NEW s, NEW t, IsSeq(s), IsSeq(t)
  PROVE  IsSeq(Cat(s, t))
<1>1. PICK S : s \in Seq(S) /\ t \in Seq(S)
  BY InOneSet
<1>2. Cat(s, t) \in Seq(S)
  BY <1>1, CatIs
<1>3. QED
  BY <1>2 DEF IsSeq

LEMMA ListIsSeq ==
  ASSUME NEW T, NEW n \in Nat, NEW f \in [ 1 .. n -> T ]
  PROVE  IsSeq(f) /\ HasLength(f, n)
  BY FunctionIsSeq DEF IsSeq, HasLength

LEMMA BytesAre ==
  ASSUME NEW kind, NEW n \in Nat
  PROVE  IsSeq(Bytes(kind, n)) /\ HasLength(Bytes(kind, n), n)
<1>1. PICK f : f = Bytes(kind, n)
  OBVIOUS
<1>2. f \in [ 1 .. n -> { << kind, i >> : i \in 1 .. n } ]
  BY <1>1 DEF Bytes
<1>3. QED
  BY <1>1, <1>2, ListIsSeq

LEMMA LeftEncoded ==
  ASSUME NEW v
  PROVE  IsSeq(left_encode(v))
<1>1. PICK n \in Nat : n = SizeOf(v)
  BY DEF SizeOf
<1>2. PICK f : f = [ i \in 1 .. n |-> << "b", (v \div 256^(n - i)) % 256 >> ]
  OBVIOUS
<1>3. IsSeq(f)
  <2>1. PICK T : T = { << "b", (v \div 256^(n - i)) % 256 >> : i \in 1 .. n }
    OBVIOUS
  <2>2. f \in [ 1 .. n -> T ]
    BY <1>2, <2>1, Zenon
  <2>3. QED
    BY <2>2, ListIsSeq
<1>4. IsSeq(<< KnownByte(n) >>)
  <2>1. \A x : << x >> \in Seq({x})
    OBVIOUS
  <2>2. QED
    BY <2>1 DEF IsSeq
<1>5. left_encode(v) = Cat(<< KnownByte(n) >>, f)
  BY <1>1, <1>2, Zenon DEF left_encode, Cat, KnownByte
<1>6. QED
  BY <1>3, <1>4, <1>5, CatIsSeq

LEMMA AbsorbAnother ==
  ASSUME NEW m, NEW d, IsSeq(m), IsSeq(d), NEW r \in Nat \ {0}, NEW c, Absorbing(c, m, r)
  PROVE  Absorbing(keccak_inc_absorb(c, r, d), Cat(m, d), r)
<1>1. PICK S : m \in Seq(S) /\ d \in Seq(S)
  BY InOneSet
<1>2. QED
  BY <1>1, AbsorbMore

LEMMA AbsorbsNothing ==
  ASSUME NEW r \in Nat \ {0}
  PROVE  Absorbing(keccak_inc_init, << >>, r) /\ IsSeq(<< >>)
<1>1. keccak_inc_init = Context(Zeroed, 0)
  BY DEF keccak_inc_init, Context
<1>2. PICK q \in Nat, n \in 0 .. r - 1 : q = 0 /\ n = 0
  OBVIOUS
<1>3. Blocked(<< >>, r, q, n) /\ keccak_inc_init = Context(Absorption(<< >>, r, q), n)
  BY <1>1, <1>2, NothingAbsorbed
<1>4. << >> \in Seq({0})
  OBVIOUS
<1>5. QED
  BY <1>3, <1>4 DEF Absorbing, IsSeq

\* The bytes a message goes on with.
LEMMA NextBytes ==
  ASSUME NEW kind, NEW g \in Nat, NEW n \in Nat
  PROVE  /\ Cat(Bytes(kind, g), SubSeq(Bytes(kind, g + n), g + 1, g + n)) = Bytes(kind, g + n)
         /\ IsSeq(SubSeq(Bytes(kind, g + n), g + 1, g + n))
<1>1. PICK l \in Nat : l = g + n /\ g <= l
  OBVIOUS
<1>2. PICK T, f : /\ f = Bytes(kind, l) /\ T = { << kind, i >> : i \in 1 .. l }
                  /\ f \in [ 1 .. l -> T ] /\ \A i \in 1 .. l : f[i] = << kind, i >>
  <2>1. PICK T : T = { << kind, i >> : i \in 1 .. l }
    OBVIOUS
  <2>2. Bytes(kind, l) \in [ 1 .. l -> T ] /\ \A i \in 1 .. l : Bytes(kind, l)[i] = << kind, i >>
    BY <2>1 DEF Bytes
  <2>3. QED
    BY <2>1, <2>2
<1>3. f \in Seq(T) /\ HasLength(f, l) /\ Len(f) = l
  BY <1>2, FunctionIsSeq DEF HasLength
<1>4. Slice(f, 0, g) = Bytes(kind, g)
  <2>1. PICK o \in Nat : o = 0 /\ o <= g /\ g <= Len(f)
    BY <1>1, <1>3
  <2>2. /\ SubSeq(f, o + 1, g) \in Seq(T) /\ Len(SubSeq(f, o + 1, g)) = g - o
        /\ \A i \in 1 .. g - o : SubSeq(f, o + 1, g)[i] = f[o + i]
    BY <1>3, <2>1, Piece
  <2>3. PICK y \in Seq(T) : y = Slice(f, 0, g) /\ Len(y) = g /\ \A i \in 1 .. g : y[i] = f[i]
    <3>1. g - o = g /\ \A i \in 1 .. g : o + i = i
      BY <2>1
    <3>2. PICK y : y = SubSeq(f, o + 1, g)
      OBVIOUS
    <3>3. y \in Seq(T) /\ Len(y) = g /\ \A i \in 1 .. g : y[i] = f[i]
      BY <2>2, <3>1, <3>2
    <3>4. y = Slice(f, 0, g)
      BY <2>1, <3>2 DEF Slice
    <3>5. QED
      BY <3>3, <3>4
  <2>4. PICK z : z = Bytes(kind, g) /\ z \in [ 1 .. g -> T ] /\ \A i \in 1 .. g : z[i] = << kind, i >>
    <3>1. \A i \in 1 .. g : i \in 1 .. l
      BY <1>1
    <3>2. \A i \in 1 .. g : << kind, i >> \in T
      BY <1>2, <3>1
    <3>3. Bytes(kind, g) \in [ 1 .. g -> T ] /\ \A i \in 1 .. g : Bytes(kind, g)[i] = << kind, i >>
      BY <3>2 DEF Bytes
    <3>4. QED
      BY <3>3
  <2>5. z \in Seq(T) /\ Len(z) = g
    BY <2>4, FunctionIsSeq
  <2>6. \A i \in 1 .. g : y[i] = z[i]
    <3>1. \A i \in 1 .. g : i \in 1 .. l
      BY <1>1
    <3>2. QED
      BY <1>2, <2>3, <2>4, <3>1
  <2>7. y = z
    BY <2>3, <2>5, <2>6, SameSequence
  <2>8. QED
    BY <2>3, <2>4, <2>7
<1>5. Cat(Slice(f, 0, g), Slice(f, g, l)) = f
  <2>1. PICK b \in Nat : b = l /\ g <= b /\ b <= l
    BY <1>1
  <2>2. Cat(Slice(f, 0, g), Slice(f, g, b)) = Slice(f, 0, b)
    BY <1>3, <2>1, SlicesJoin
  <2>3. Slice(f, 0, l) = f
    BY <1>3, CatNothing
  <2>4. QED
    BY <2>1, <2>2, <2>3
<1>6. IsSeq(Slice(f, g, l))
  <2>1. PICK b \in Nat, k \in Nat : b = l /\ g <= b /\ b <= l /\ k = b - g
    BY <1>1
  <2>2. Slice(f, g, b) \in Seq(T)
    BY <1>3, <2>1, SliceIs
  <2>3. QED
    BY <2>1, <2>2 DEF IsSeq
<1>7. QED
  BY <1>1, <1>2, <1>4, <1>5, <1>6 DEF Slice

-----------------------------------------------------------------------------
(* The prefix of a cSHAKE.                                                  *)
AllZero(z, n) == HasLength(z, n) /\ \A i \in 1 .. n : z[i] = ZeroByte

\* Zeros leave no mark.
LEMMA NoMarks ==
  ASSUME NEW A, NEW at, NEW z, NEW n \in Nat, AllZero(z, n), NEW ps, NEW mk, A = Sponged(ps, mk)
  PROVE  Into(A, at, z) = A
<1>1. Laid(at, z) = {}
  BY DEF AllZero, HasLength, Laid
<1>2. QED
  BY <1>1, IntoIs, XorNone

LEMMA ZerosAreZero ==
  ASSUME NEW S, ZeroByte \in S, NEW n \in Nat, NEW z, z = [ i \in 1 .. n |-> ZeroByte ]
  PROVE  AllZero(z, n) /\ z \in Seq(S)
<1>1. z \in [ 1 .. n -> S ]
  OBVIOUS
<1>2. z \in Seq(S) /\ Len(z) = n
  BY <1>1, FunctionIsSeq
<1>3. QED
  BY <1>2 DEF AllZero, HasLength

LEMMA OneZero == AllZero(One(ZeroByte), 1)
<1>1. Len(<< ZeroByte >>) = 1 /\ << ZeroByte >>[1] = ZeroByte
  OBVIOUS
<1>2. \A i \in 1 .. 1 : i = 1
  OBVIOUS
<1>3. QED
  BY <1>1, <1>2 DEF AllZero, One, HasLength

ZeroEnds(m, z, r, q) ==
  /\ Permuted(Into(Absorption(m, r, q), r - 1, One(ZeroByte))) = Absorption(Cat(m, z), r, q + 1)
  /\ Blocked(Cat(m, z), r, q + 1, 0)

\* A block is ended by the zero byte at its end.
LEMMA FilledByZero ==
  ASSUME NEW S, NEW m \in Seq(S), ZeroByte \in S, NEW r \in Nat \ {0}, NEW q \in Nat,
         NEW n \in 1 .. r - 1, Blocked(m, r, q, n), NEW z, NEW l \in Nat, l = r - n,
         z = [ i \in 1 .. l |-> ZeroByte ]
  PROVE  ZeroEnds(m, z, r, q) /\ Cat(m, z) \in Seq(S)
<1>1. PICK A, ps, mk : A = Absorption(m, r, q) /\ A = Sponged(ps, mk)
  BY DEF Absorption
<1>2. Into(A, r - 1, One(ZeroByte)) = A
  BY <1>1, OneZero, NoMarks
<1>3. AllZero(z, l) /\ z \in Seq(S)
  BY ZerosAreZero
<1>4. Into(A, n, z) = A
  BY <1>1, <1>3, NoMarks
<1>5. EndsBlock(m, z, r, q, n, q + 1)
  <2>1. n \in 0 .. r /\ HasLength(z, l)
    BY <1>3 DEF AllZero
  <2>2. QED
    BY <1>3, <2>1, CatBlock
<1>6. Cat(m, z) \in Seq(S)
  BY <1>3, CatIs
<1>7. Permuted(Into(A, n, z)) = Absorption(Cat(m, z), r, q + 1) /\ Blocked(Cat(m, z), r, q + 1, 0)
  BY <1>1, <1>5 DEF EndsBlock
<1>8. QED
  BY <1>1, <1>2, <1>4, <1>6, <1>7 DEF ZeroEnds

\* One byte behind all but one of a block.
LEMMA ByteAtEnd ==
  ASSUME NEW S, NEW x \in S, NEW r \in Nat \ {0}, NEW A, NEW ps,
         Permuted(Into(A, r - 1, One(x))) = Sponged(ps, {})
  PROVE  keccak_inc_absorb(Context(A, r - 1), r, One(x)) = Context(Sponged(ps, {}), 0)
<1>1. PICK c, o, d : c = Context(A, o) /\ o = r - 1 /\ c.s = A /\ c.n = o /\ d = One(x)
  BY ContextFields
<1>2. d \in Seq(S) /\ HasLength(d, 1) /\ Len(d) = 1
  <2>1. << x >> \in Seq(S) /\ Len(<< x >>) = 1
    OBVIOUS
  <2>2. QED
    BY <1>1, <2>1 DEF One, HasLength
<1>3. Fillings(c, r, d) = 1
  <2>1. (1 + o) \div r = 1
    BY <1>1
  <2>2. QED
    BY <1>1, <1>2, <2>1 DEF Fillings
<1>4. Consumed(o, r, 0) = 0 /\ Consumed(o, r, 1) = 1
  BY <1>1 DEF Consumed
<1>5. AbsorbedTo(c, o, r, d, 1) = Context(Permuted(Into(A, o, d)), 0)
  <2>1. SubSeq(d, 0 + 1, 1) = d
    BY <1>2, NothingMore
  <2>2. 1 - 1 = 0
    OBVIOUS
  <2>3. QED
    BY <1>1, <1>4, <2>1, <2>2 DEF AbsorbedTo
<1>6. PICK e : e = Context(Sponged(ps, {}), 0) /\ e.s = Sponged(ps, {}) /\ e.n = 0
  BY ContextFields
<1>7. PICK g : g = [ k \in 0 .. 1 |-> IF k = 0 THEN c ELSE e ]
  OBVIOUS
<1>8. g[0] = c /\ g[1] = e /\ g \in [ 0 .. 1 -> { c, e } ]
  BY <1>7
<1>9. FilledUp(c, r, d, 1) = e
  <2>1. ASSUME NEW k \in 1 .. 1 PROVE g[k] = AbsorbedTo(g[k - 1], c.n, r, d, k)
    <3>1. k = 1 /\ k - 1 = 0
      OBVIOUS
    <3>2. AbsorbedTo(c, o, r, d, 1) = e
      BY <1>1, <1>5, <1>6
    <3>3. QED
      BY <1>1, <1>8, <3>1, <3>2
  <2>2. Listed(g, 1)
    BY <1>8 DEF Listed
  <2>3. Goes(g, c, r, d, 1)
    BY <1>8, <2>1, <2>2 DEF Goes
  <2>4. FilledUp(c, r, d, 1) = g[1]
    BY <2>3, AbsorbRounds
  <2>5. QED
    BY <1>8, <2>4
<1>10. Rest(c, r, d) = << >>
  <2>1. SubSeq(d, 1 + 1, 1) = << >>
    BY <1>2
  <2>2. QED
    BY <1>1, <1>2, <1>3, <1>4, <2>1 DEF Rest, From
<1>11. keccak_inc_absorb(c, r, d) = Ended(e, << >>)
  BY <1>3, <1>9, <1>10, AbsorbEnds
<1>12. Ended(e, << >>) = e
  <2>1. Ended(e, << >>) = Context(Into(e.s, e.n, << >>), e.n + Len(<< >>))
    BY EndedIs
  <2>2. PICK z : z = << >> /\ AllZero(z, 0) /\ Len(z) = 0
    BY DEF AllZero, HasLength
  <2>3. Into(Sponged(ps, {}), 0, z) = Sponged(ps, {})
    BY <2>2, NoMarks
  <2>4. e.n + Len(z) = 0
    BY <1>6, <2>2
  <2>5. QED
    BY <1>6, <2>1, <2>2, <2>3, <2>4
<1>13. QED
  BY <1>1, <1>6, <1>11, <1>12

\* The bytes a cSHAKE begins with.
Named(r, sizes) ==
  Cat(Cat(Cat(Cat(left_encode(r), left_encode(8 * sizes[1])), Bytes("name", sizes[1])),
          left_encode(8 * sizes[2])), Bytes("cstm", sizes[2]))

Encoded(c, r, sizes) ==
  /\ c[1] = keccak_inc_absorb(keccak_inc_init, r, left_encode(r))
  /\ c[2] = keccak_inc_absorb(c[1], r, left_encode(8 * sizes[1]))
  /\ c[3] = keccak_inc_absorb(c[2], r, Bytes("name", sizes[1]))
  /\ c[4] = keccak_inc_absorb(c[3], r, left_encode(8 * sizes[2]))
  /\ c[5] = keccak_inc_absorb(c[4], r, Bytes("cstm", sizes[2]))

AtEnd(c, r) == [ c EXCEPT !.n = r - 1 ]

LEMMA StartIs ==
  ASSUME NEW r, NEW sizes \in Nat \X Nat
  PROVE  \E c : /\ Encoded(c, r, sizes)
                /\ cshake_inc_init(r, sizes)
                     = IF c[5].n # 0 THEN keccak_inc_absorb(AtEnd(c[5], r), r, One(ZeroByte)) ELSE c[5]
<1>1. sizes[1] * 8 = 8 * sizes[1] /\ sizes[2] * 8 = 8 * sizes[2]
  OBVIOUS
<1>2. PICK a, b : a = 8 * sizes[1] /\ b = 8 * sizes[2] /\ a = sizes[1] * 8 /\ b = sizes[2] * 8
  BY <1>1
<1>3. PICK c1 : c1 = keccak_inc_absorb(keccak_inc_init, r, left_encode(r))
  OBVIOUS
<1>4. PICK c2 : c2 = keccak_inc_absorb(c1, r, left_encode(a))
  OBVIOUS
<1>5. PICK c3 : c3 = keccak_inc_absorb(c2, r, Bytes("name", sizes[1]))
  OBVIOUS
<1>6. PICK c4 : c4 = keccak_inc_absorb(c3, r, left_encode(b))
  OBVIOUS
<1>7. PICK c5 : c5 = keccak_inc_absorb(c4, r, Bytes("cstm", sizes[2]))
  OBVIOUS
<1>8. PICK c : c[1] = c1 /\ c[2] = c2 /\ c[3] = c3 /\ c[4] = c4 /\ c[5] = c5
  <2>1. << c1, c2, c3, c4, c5 >>[1] = c1 /\ << c1, c2, c3, c4, c5 >>[2] = c2
        /\ << c1, c2, c3, c4, c5 >>[3] = c3 /\ << c1, c2, c3, c4, c5 >>[4] = c4
        /\ << c1, c2, c3, c4, c5 >>[5] = c5
    OBVIOUS
  <2>2. QED
    BY <2>1
<1>9. Encoded(c, r, sizes)
  BY <1>2, <1>3, <1>4, <1>5, <1>6, <1>7, <1>8, Zenon DEF Encoded
<1>10. cshake_inc_init(r, sizes)
         = IF c5.n # 0 THEN keccak_inc_absorb(AtEnd(c5, r), r, One(ZeroByte)) ELSE c5
  BY <1>2, <1>3, <1>4, <1>5, <1>6, <1>7, Zenon DEF cshake_inc_init, AtEnd, One, ZeroByte
<1>11. QED
  BY <1>8, <1>9, <1>10

LEMMA NamesAbsorbed ==
  ASSUME NEW r \in Nat \ {0}, NEW sizes \in Nat \X Nat, NEW c, Encoded(c, r, sizes)
  PROVE  Absorbing(c[5], Named(r, sizes), r) /\ IsSeq(Named(r, sizes))
<1>1. PICK a, b, d, e, f : /\ a = left_encode(r) /\ b = left_encode(8 * sizes[1])
                           /\ d = Bytes("name", sizes[1]) /\ e = left_encode(8 * sizes[2])
                           /\ f = Bytes("cstm", sizes[2])
  OBVIOUS
<1>2. IsSeq(a) /\ IsSeq(b) /\ IsSeq(d) /\ IsSeq(e) /\ IsSeq(f)
  <2>1. sizes[1] \in Nat /\ sizes[2] \in Nat
    OBVIOUS
  <2>2. IsSeq(Bytes("name", sizes[1])) /\ IsSeq(Bytes("cstm", sizes[2]))
    BY <2>1, BytesAre
  <2>3. IsSeq(left_encode(r)) /\ IsSeq(left_encode(8 * sizes[1])) /\ IsSeq(left_encode(8 * sizes[2]))
    BY LeftEncoded
  <2>4. QED
    BY <1>1, <2>2, <2>3
<1>3. /\ c[1] = keccak_inc_absorb(keccak_inc_init, r, a) /\ c[2] = keccak_inc_absorb(c[1], r, b)
      /\ c[3] = keccak_inc_absorb(c[2], r, d) /\ c[4] = keccak_inc_absorb(c[3], r, e)
      /\ c[5] = keccak_inc_absorb(c[4], r, f)
  BY <1>1, Zenon DEF Encoded
<1>4. Absorbing(c[1], a, r)
  <2>1. PICK o : o = << >> /\ IsSeq(o) /\ Absorbing(keccak_inc_init, o, r)
    BY AbsorbsNothing
  <2>2. Absorbing(keccak_inc_absorb(keccak_inc_init, r, a), Cat(o, a), r)
    BY <1>2, <2>1, AbsorbAnother
  <2>3. Cat(o, a) = a
    <3>1. PICK S : a \in Seq(S)
      BY <1>2 DEF IsSeq
    <3>2. << >> \o a = a
      BY <3>1
    <3>3. QED
      BY <2>1, <3>2 DEF Cat
  <2>4. QED
    BY <1>3, <2>2, <2>3
<1>5. PICK w2 : w2 = Cat(a, b) /\ IsSeq(w2)
  BY <1>2, CatIsSeq
<1>6. PICK w3 : w3 = Cat(w2, d) /\ IsSeq(w3)
  BY <1>2, <1>5, CatIsSeq
<1>7. PICK w4 : w4 = Cat(w3, e) /\ IsSeq(w4)
  BY <1>2, <1>6, CatIsSeq
<1>8. PICK w5 : w5 = Cat(w4, f) /\ IsSeq(w5)
  BY <1>2, <1>7, CatIsSeq
<1>9. Absorbing(c[2], w2, r)
  BY <1>2, <1>3, <1>4, <1>5, AbsorbAnother
<1>10. Absorbing(c[3], w3, r)
  BY <1>2, <1>3, <1>5, <1>6, <1>9, AbsorbAnother
<1>11. Absorbing(c[4], w4, r)
  BY <1>2, <1>3, <1>6, <1>7, <1>10, AbsorbAnother
<1>12. Absorbing(c[5], w5, r)
  BY <1>2, <1>3, <1>7, <1>8, <1>11, AbsorbAnother
<1>13. Named(r, sizes) = w5
  BY <1>1, <1>5, <1>6, <1>7, <1>8 DEF Named
<1>14. QED
  BY <1>8, <1>12, <1>13

ZerosAfter(r, m) == [ i \in 1 .. ((r - (Len(m) % r)) % r) |-> ZeroByte ]

LEMMA PrefixIs ==
  ASSUME NEW f \in CShake, NEW sizes
  PROVE  Prefix(f, sizes) = Cat(Named(Rate[f], sizes), ZerosAfter(Rate[f], Named(Rate[f], sizes)))
  BY Zenon DEF Prefix, Cat, Named, ZerosAfter, ZeroByte

\* How many zeros fill up the last block.
LEMMA ZerosAre ==
  ASSUME NEW m, NEW r \in Nat \ {0}, NEW q \in Nat, NEW n \in 0 .. r - 1, Blocked(m, r, q, n)
  PROVE  /\ n = 0 => ZerosAfter(r, m) = << >>
         /\ n # 0 => ZerosAfter(r, m) = [ i \in 1 .. r - n |-> ZeroByte ]
<1>1. Len(m) % r = n
  <2>1. PICK l \in Nat : l = r * q + n
    OBVIOUS
  <2>2. Splits(l, r, q, n)
    BY <2>1 DEF Splits
  <2>3. l % r = n
    BY <2>2, Split
  <2>4. Len(m) = l
    BY <2>1 DEF Blocked
  <2>5. QED
    BY <2>3, <2>4
<1>2. ASSUME n = 0 PROVE ZerosAfter(r, m) = << >>
  <2>1. (r - 0) % r = 0
    <3>1. PICK x \in Nat, o \in 0 .. r - 1, e \in Nat : x = r /\ o = 0 /\ e = 1 /\ r - 0 = x
      OBVIOUS
    <3>2. Splits(x, r, e, o)
      BY <3>1 DEF Splits
    <3>3. x % r = o
      BY <3>2, Split
    <3>4. QED
      BY <3>1, <3>3
  <2>2. 1 .. 0 = {}
    OBVIOUS
  <2>3. ZerosAfter(r, m) = [ i \in {} |-> ZeroByte ]
    BY <1>1, <1>2, <2>1, <2>2 DEF ZerosAfter
  <2>4. QED
    BY <2>3
<1>3. ASSUME n # 0 PROVE ZerosAfter(r, m) = [ i \in 1 .. r - n |-> ZeroByte ]
  <2>1. (r - n) % r = r - n
    <3>1. PICK x \in Nat, y \in 0 .. r - 1, e \in Nat : x = r - n /\ y = x /\ e = 0
      BY <1>3
    <3>2. Splits(x, r, e, y)
      BY <3>1 DEF Splits
    <3>3. x % r = y
      BY <3>2, Split
    <3>4. QED
      BY <3>1, <3>3
  <2>2. QED
    BY <1>1, <2>1 DEF ZerosAfter
<1>4. QED
  BY <1>2, <1>3

\* A cSHAKE absorbs what its message begins with.
LEMMA PrefixAbsorbed ==
  ASSUME NEW f \in CShake, NEW r \in Nat \ {0}, r = Rate[f], NEW sizes \in Nat \X Nat
  PROVE  Absorbing(cshake_inc_init(r, sizes), Prefix(f, sizes), r) /\ IsSeq(Prefix(f, sizes))
<1>1. PICK c : /\ Encoded(c, r, sizes)
               /\ cshake_inc_init(r, sizes)
                    = IF c[5].n # 0 THEN keccak_inc_absorb(AtEnd(c[5], r), r, One(ZeroByte)) ELSE c[5]
  BY StartIs
<1>2. PICK m : m = Named(r, sizes) /\ Absorbing(c[5], m, r) /\ IsSeq(m)
  BY <1>1, NamesAbsorbed
<1>3. PICK S : m \in Seq(S) /\ ZeroByte \in S
  BY <1>2, InOneSet
<1>4. PICK q \in Nat, n \in 0 .. r - 1 :
        Blocked(m, r, q, n) /\ c[5] = Context(Absorption(m, r, q), n)
  BY <1>2 DEF Absorbing
<1>5. PICK A : A = Absorption(m, r, q) /\ c[5] = Context(A, n) /\ c[5].n = n
  BY <1>4, ContextFields
<1>6. PICK z : z = ZerosAfter(r, m) /\ Prefix(f, sizes) = Cat(m, z)
  BY <1>2, PrefixIs
<1>7. CASE n = 0
  <2>1. z = << >>
    BY <1>4, <1>6, <1>7, ZerosAre
  <2>2. Cat(m, z) = m
    BY <1>3, <2>1, NothingMore DEF Cat
  <2>3. cshake_inc_init(r, sizes) = c[5]
    BY <1>1, <1>5, <1>7
  <2>4. QED
    BY <1>2, <1>6, <2>2, <2>3
<1>8. CASE n # 0
  <2>1. PICK l \in Nat : l = r - n /\ n \in 1 .. r - 1
    BY <1>8
  <2>2. z = [ i \in 1 .. l |-> ZeroByte ]
    <3>1. ZerosAfter(r, m) = [ i \in 1 .. r - n |-> ZeroByte ]
      BY <1>4, <1>8, ZerosAre
    <3>2. QED
      BY <1>6, <2>1, <3>1
  <2>3. /\ Permuted(Into(A, r - 1, One(ZeroByte))) = Absorption(Cat(m, z), r, q + 1)
        /\ Blocked(Cat(m, z), r, q + 1, 0)
        /\ Cat(m, z) \in Seq(S)
    <3>1. Blocked(m, r, q, n)
      BY <1>4
    <3>2. ZeroEnds(m, z, r, q) /\ Cat(m, z) \in Seq(S)
      BY <1>3, <2>1, <2>2, <3>1, FilledByZero
    <3>3. QED
      BY <1>5, <3>2 DEF ZeroEnds
  <2>4. PICK ps : Permuted(Into(A, r - 1, One(ZeroByte))) = Sponged(ps, {})
    BY DEF Permuted, Sponged
  <2>5. keccak_inc_absorb(Context(A, r - 1), r, One(ZeroByte)) = Context(Sponged(ps, {}), 0)
    BY <1>3, <2>4, ByteAtEnd
  <2>6. AtEnd(Context(A, n), r) = Context(A, r - 1)
    BY DEF AtEnd, Context
  <2>7. cshake_inc_init(r, sizes) = Context(Absorption(Cat(m, z), r, q + 1), 0)
    BY <1>1, <1>5, <1>8, <2>3, <2>4, <2>5, <2>6
  <2>8. q + 1 \in Nat /\ 0 \in 0 .. r - 1
    OBVIOUS
  <2>9. Absorbing(cshake_inc_init(r, sizes), Cat(m, z), r)
    BY <2>3, <2>7, <2>8 DEF Absorbing
  <2>10. IsSeq(Cat(m, z))
    BY <2>3 DEF IsSeq
  <2>11. QED
    BY <1>6, <2>9, <2>10
<1>9. QED
  BY <1>7, <1>8
-----------------------------------------------------------------------------
(* The message of a sponge and its output.                                  *)
Message(f, z, g) == Cat(Prefix(f, z), Bytes("m", g))
FullBlocks(f, z, g) == Len(Message(f, z, g)) \div Rate[f]
GivesOut(f, z, g, h, a) ==
  Outs(Message(f, z, g), Rate[f], Domain[f], FullBlocks(f, z, g), h, a)

LEMMA RateIs ==
  ASSUME NEW f \in DOMAIN Rate
  PROVE  Rate[f] \in Nat \ {0} /\ Domain[f] \in 1 .. 127 /\ Digest[f] \in 0 .. Rate[f]
  BY SpongeAssumption

LEMMA NoPrefix ==
  ASSUME NEW f, f \notin CShake, NEW z
  PROVE  Prefix(f, z) = << >>
  BY DEF Prefix

LEMMA NoCShake ==
  ASSUME NEW f \in Shake \cup Sha3
  PROVE  f \notin CShake
  BY DEF Shake, Sha3, CShake

LEMMA EmptyIsSeq == IsSeq(<< >>)
<1>1. << >> \in Seq({0})
  OBVIOUS
<1>2. QED
  BY <1>1 DEF IsSeq

LEMMA NoBytes == \A kind : Bytes(kind, 0) = << >>
<1>1. 1 .. 0 = {}
  OBVIOUS
<1>2. ASSUME NEW kind PROVE Bytes(kind, 0) = << >>
  <2>1. Bytes(kind, 0) = [ i \in {} |-> << kind, i >> ]
    BY <1>1 DEF Bytes
  <2>2. QED
    BY <2>1
<1>3. QED
  BY <1>2

LEMMA CatEmpty ==
  ASSUME NEW s, IsSeq(s)
  PROVE  Cat(s, << >>) = s /\ Cat(<< >>, s) = s
<1>1. PICK S : s \in Seq(S)
  BY DEF IsSeq
<1>2. s \o << >> = s /\ << >> \o s = s
  BY <1>1
<1>3. QED
  BY <1>2 DEF Cat

LEMMA PrefixIsSeq ==
  ASSUME NEW f \in DOMAIN Rate, NEW z \in Nat \X Nat
  PROVE  IsSeq(Prefix(f, z))
<1>1. CASE f \in CShake
  <2>1. PICK r \in Nat \ {0} : r = Rate[f]
    BY RateIs
  <2>2. QED
    BY <1>1, <2>1, PrefixAbsorbed
<1>2. CASE f \notin CShake
  BY <1>2, NoPrefix, EmptyIsSeq
<1>3. QED
  BY <1>1, <1>2

LEMMA MessageIsSeq ==
  ASSUME NEW f \in DOMAIN Rate, NEW z \in Nat \X Nat, NEW g \in Nat
  PROVE  IsSeq(Message(f, z, g))
<1>1. IsSeq(Prefix(f, z)) /\ IsSeq(Bytes("m", g))
  BY PrefixIsSeq, BytesAre
<1>2. QED
  BY <1>1, CatIsSeq DEF Message

\* Without a prefix the message is what was given.
LEMMA MessageIs ==
  ASSUME NEW f \in Shake \cup Sha3, NEW z, NEW g \in Nat
  PROVE  Message(f, z, g) = Bytes("m", g)
<1>1. Prefix(f, z) = << >>
  BY NoCShake, NoPrefix
<1>2. QED
  BY <1>1, BytesAre, CatEmpty DEF Message

\* With nothing given it is the prefix.
LEMMA MessageBegins ==
  ASSUME NEW f \in DOMAIN Rate, NEW z \in Nat \X Nat
  PROVE  Message(f, z, 0) = Prefix(f, z)
  BY PrefixIsSeq, NoBytes, CatEmpty DEF Message

LEMMA CatOfThree ==
  ASSUME NEW a, NEW b, NEW d, IsSeq(a), IsSeq(b), IsSeq(d)
  PROVE  Cat(Cat(a, b), d) = Cat(a, Cat(b, d))
<1>1. PICK S : a \in Seq(S) /\ b \in Seq(S)
  BY InOneSet
<1>2. PICK T : d \in Seq(T)
  BY DEF IsSeq
<1>3. PICK U : a \in Seq(U) /\ b \in Seq(U) /\ d \in Seq(U)
  <2>1. PICK U : U = S \cup T
    OBVIOUS
  <2>2. S \subseteq U /\ T \subseteq U
    BY <2>1
  <2>3. a \in Seq(U) /\ b \in Seq(U)
    BY <1>1, <2>2
  <2>4. d \in Seq(U)
    BY <1>2, <2>2
  <2>5. QED
    BY <2>3, <2>4
<1>4. QED
  BY <1>3, CatAgain

NextData(g, n) == SubSeq(Bytes("m", g + n), g + 1, g + n)

LEMMA MessageGoesOn ==
  ASSUME NEW f \in DOMAIN Rate, NEW z \in Nat \X Nat, NEW g \in Nat, NEW n \in Nat, NEW d,
         d = NextData(g, n), NEW h, h = g + n
  PROVE  Cat(Message(f, z, g), d) = Message(f, z, h) /\ IsSeq(d)
<1>1. PICK a, b : a = Prefix(f, z) /\ b = Bytes("m", g) /\ IsSeq(a) /\ IsSeq(b)
  BY PrefixIsSeq, BytesAre
<1>2. Cat(b, d) = Bytes("m", h) /\ IsSeq(d)
  <2>1. /\ Cat(Bytes("m", g), SubSeq(Bytes("m", g + n), g + 1, g + n)) = Bytes("m", g + n)
        /\ IsSeq(SubSeq(Bytes("m", g + n), g + 1, g + n))
    BY NextBytes
  <2>2. QED
    BY <1>1, <2>1 DEF NextData
<1>3. Cat(Cat(a, b), d) = Cat(a, Cat(b, d))
  BY <1>1, <1>2, CatOfThree
<1>4. QED
  BY <1>1, <1>2, <1>3 DEF Message

LEMMA InBlocks ==
  ASSUME NEW m, IsSeq(m), NEW r \in Nat \ {0}
  PROVE  Len(m) \div r \in Nat /\ \E n \in 0 .. r - 1 : Blocked(m, r, Len(m) \div r, n)
<1>1. PICK l \in Nat : l = Len(m)
  BY SequenceIs DEF IsSeq
<1>2. PICK q \in Nat, n \in 0 .. r - 1 : q = l \div r /\ l = r * q + n
  BY Quotients
<1>3. QED
  BY <1>1, <1>2 DEF Blocked

\* The output of the standard.
LEMMA OutputIs ==
  ASSUME NEW f \in DOMAIN Rate, NEW z \in Nat \X Nat, NEW g \in Nat, NEW n \in Nat
  PROVE  Output(f, z, g, n) = GivesOut(f, z, g, 0, n)
<1>1. PICK m, r, p, q : /\ m = Message(f, z, g) /\ r = Rate[f] /\ p = Domain[f]
                        /\ q = FullBlocks(f, z, g) /\ q = Len(m) \div r
  BY DEF FullBlocks
<1>2. Output(f, z, g, n)
        = [ j \in 1 .. n |-> << [ k \in 1 .. ((q + 1) + ((j - 1) \div r)) |->
                                    IF k <= q + 1 THEN BlockMarks(m, r, p, k - 1) ELSE {} ],
                                (j - 1) % r, {} >> ]
  BY <1>1, Zenon DEF Output, Message, Cat
<1>3. ASSUME NEW j \in 1 .. n
      PROVE  OutByte(m, r, p, q, 0 + j)
               = << [ k \in 1 .. ((q + 1) + ((j - 1) \div r)) |->
                        IF k <= q + 1 THEN BlockMarks(m, r, p, k - 1) ELSE {} ], (j - 1) % r, {} >>
  <2>1. 0 + j = j
    OBVIOUS
  <2>2. QED
    BY <2>1, Zenon DEF OutByte, History, Entry
<1>4. GivesOut(f, z, g, 0, n) = [ j \in 1 .. n |-> OutByte(m, r, p, q, 0 + j) ]
  BY <1>1, Zenon DEF GivesOut, Outs
<1>5. QED
  BY <1>2, <1>3, <1>4, Zenon

\* The first bytes of an output.
LEMMA OutsFirst ==
  ASSUME NEW m, NEW r, NEW p, NEW q, NEW g, NEW a \in Nat, NEW b \in 0 .. a
  PROVE  SubSeq(Outs(m, r, p, q, g, a), 1, b) = Outs(m, r, p, q, g, b)
<1> DEFINE S == { OutByte(m, r, p, q, g + i) : i \in 1 .. a }
<1>1. PICK s, t : s = Outs(m, r, p, q, g, a) /\ t = Outs(m, r, p, q, g, b)
  OBVIOUS
<1>2. /\ s \in [ 1 .. a -> S ] /\ t \in [ 1 .. b -> S ]
      /\ \A i \in 1 .. b : s[i] = t[i]
  <2>1. \A i \in 1 .. b : i \in 1 .. a
    OBVIOUS
  <2>2. QED
    BY <1>1, <2>1 DEF Outs
<1> HIDE DEF S
<1>3. s \in Seq(S) /\ Len(s) = a /\ t \in Seq(S) /\ Len(t) = b
  BY <1>2, FunctionIsSeq
<1>4. PICK y \in Seq(S) : y = SubSeq(s, 1, b) /\ Len(y) = b /\ \A i \in 1 .. b : y[i] = s[i]
  <2>1. PICK o \in Nat : o = 0 /\ o <= b /\ b <= Len(s) /\ b - o = b /\ b \in Nat
    BY <1>3
  <2>2. /\ SubSeq(s, o + 1, b) \in Seq(S) /\ Len(SubSeq(s, o + 1, b)) = b - o
        /\ \A i \in 1 .. b - o : SubSeq(s, o + 1, b)[i] = s[o + i]
    BY <1>3, <2>1, Piece
  <2>3. o + 1 = 1 /\ \A i \in 1 .. b : o + i = i
    BY <2>1
  <2>4. PICK y : y = SubSeq(s, 1, b)
    OBVIOUS
  <2>5. y \in Seq(S) /\ Len(y) = b /\ \A i \in 1 .. b - o : y[i] = s[o + i]
    BY <2>1, <2>2, <2>3, <2>4
  <2>6. \A i \in 1 .. b : y[i] = s[i]
    BY <2>1, <2>3, <2>5
  <2>7. QED
    BY <2>4, <2>5, <2>6
<1>5. y = t
  BY <1>2, <1>3, <1>4, SameSequence
<1>6. QED
  BY <1>1, <1>4, <1>5

LEMMA OutsLength ==
  ASSUME NEW f, NEW z, NEW g, NEW h, NEW a \in Nat
  PROVE  Len(GivesOut(f, z, g, h, a)) = a
<1>1. PICK m, r, p, q, s : s = GivesOut(f, z, g, h, a) /\ s = Outs(m, r, p, q, h, a)
  BY DEF GivesOut
<1>2. s \in [ 1 .. a -> { OutByte(m, r, p, q, h + i) : i \in 1 .. a } ]
  BY <1>1 DEF Outs
<1>3. QED
  BY <1>1, <1>2, FunctionIsSeq
-----------------------------------------------------------------------------
(* What the calls do to a context.                                          *)
Ready(c, f, z, g) == Absorbing(c, Message(f, z, g), Rate[f])
Handing(c, f, z, g, h) ==
  Squeezing(c, h, Message(f, z, g), Rate[f], Domain[f], FullBlocks(f, z, g))
StageOf(f, z, g, w) ==
  Stage(Message(f, z, g), Rate[f], Domain[f], FullBlocks(f, z, g), FullBlocks(f, z, g) + w)
Wholes(f, h, w) == Whole(h, Rate[f], w)

LEMMA FullBlocksAre ==
  ASSUME NEW f \in DOMAIN Rate, NEW z \in Nat \X Nat, NEW g \in Nat
  PROVE  /\ FullBlocks(f, z, g) \in Nat
         /\ \E n \in 0 .. Rate[f] - 1 : Blocked(Message(f, z, g), Rate[f], FullBlocks(f, z, g), n)
<1>1. PICK r \in Nat \ {0} : r = Rate[f]
  BY RateIs
<1>2. PICK m : m = Message(f, z, g) /\ IsSeq(m)
  BY MessageIsSeq
<1>3. Len(m) \div r \in Nat /\ \E n \in 0 .. r - 1 : Blocked(m, r, Len(m) \div r, n)
  BY <1>2, InBlocks
<1>4. QED
  BY <1>1, <1>2, <1>3 DEF FullBlocks

LEMMA FinalizesStage ==
  ASSUME NEW f \in DOMAIN Rate, NEW z \in Nat \X Nat, NEW g \in Nat, NEW c, Ready(c, f, z, g)
  PROVE  keccak_inc_finalize(c, Rate[f], Domain[f]) = Context(StageOf(f, z, g, 0), 0)
<1>1. PICK r \in Nat \ {0}, p \in 1 .. 127 : r = Rate[f] /\ p = Domain[f]
  BY RateIs
<1>2. PICK m : m = Message(f, z, g) /\ IsSeq(m)
  BY MessageIsSeq
<1>3. PICK S : m \in Seq(S) /\ KnownByte(p) \in S
  BY <1>2, InOneSet
<1>4. PICK q \in Nat, n \in 0 .. r - 1 : Blocked(m, r, q, n) /\ c = Context(Absorption(m, r, q), n)
  <2>1. Absorbing(c, m, r)
    BY <1>1, <1>2 DEF Ready
  <2>2. QED
    BY <2>1 DEF Absorbing
<1>5. FullBlocks(f, z, g) = q
  <2>1. PICK l \in Nat : l = r * q + n
    OBVIOUS
  <2>2. l \div r = q
    <3>1. Splits(l, r, q, n)
      BY <2>1 DEF Splits
    <3>2. QED
      BY <3>1, Split
  <2>3. Len(m) = l
    BY <1>4, <2>1 DEF Blocked
  <2>4. QED
    BY <1>1, <1>2, <2>2, <2>3 DEF FullBlocks
<1>6. FinalIs(c, m, r, p, q)
  <2>1. m \in Seq(S) /\ KnownByte(p) \in S
    BY <1>3
  <2>2. Blocked(m, r, q, n) /\ c = Context(Absorption(m, r, q), n)
    BY <1>4
  <2>3. QED
    BY <2>1, <2>2, FinalizedStage
<1>7. q + 0 = q
  OBVIOUS
<1>8. QED
  BY <1>1, <1>2, <1>5, <1>6, <1>7 DEF StageOf, FinalIs

LEMMA AbsorbsAtOnce ==
  ASSUME NEW f \in DOMAIN Rate, f \in Shake \cup Sha3, NEW z \in Nat \X Nat, NEW g \in Nat
  PROVE  keccak_absorb(Rate[f], Bytes("m", g), Domain[f]) = StageOf(f, z, g, 0)
<1>1. PICK r \in Nat \ {0}, p \in 1 .. 127 : r = Rate[f] /\ p = Domain[f]
  BY RateIs
<1>2. PICK m : m = Message(f, z, g) /\ IsSeq(m) /\ m = Bytes("m", g)
  BY MessageIsSeq, MessageIs
<1>3. PICK S : m \in Seq(S) /\ KnownByte(p) \in S
  BY <1>2, InOneSet
<1>4. PICK q \in Nat, n \in 0 .. r - 1 : q = FullBlocks(f, z, g) /\ Blocked(m, r, q, n)
  <2>1. PICK q : q = FullBlocks(f, z, g)
    OBVIOUS
  <2>2. q \in Nat /\ \E n \in 0 .. Rate[f] - 1 : Blocked(Message(f, z, g), Rate[f], q, n)
    BY <2>1, FullBlocksAre
  <2>3. QED
    BY <1>1, <1>2, <2>1, <2>2
<1>5. AtOnceIs(m, r, p, q)
  <2>1. m \in Seq(S) /\ KnownByte(p) \in S
    BY <1>3
  <2>2. Blocked(m, r, q, n)
    BY <1>4
  <2>3. QED
    BY <2>1, <2>2, AtOnce
<1>6. q + 0 = q
  OBVIOUS
<1>7. QED
  BY <1>1, <1>2, <1>4, <1>5, <1>6 DEF StageOf, AtOnceIs

LEMMA HandingIs ==
  ASSUME NEW f \in DOMAIN Rate, NEW z, NEW g, NEW h \in Nat, NEW w \in Nat, Wholes(f, h, w)
  PROVE  Handing(Context(StageOf(f, z, g, w), 0), f, z, g, h)
<1>1. PICK r \in Nat \ {0} : r = Rate[f]
  BY RateIs
<1>2. PICK n \in 0 .. r - 1, d \in Nat : n = 0 /\ d = h /\ h + n = d
  OBVIOUS
<1>3. d = r * w
  BY <1>1, <1>2 DEF Wholes, Whole
<1>4. QED
  BY <1>1, <1>2, <1>3 DEF Handing, Squeezing, StageOf

LEMMA NoneWhole ==
  ASSUME NEW f \in DOMAIN Rate
  PROVE  Wholes(f, 0, 0)
<1>1. PICK r \in Nat : r = Rate[f] /\ r * 0 = 0
  BY RateIs
<1>2. QED
  BY <1>1 DEF Wholes, Whole

LEMMA WholeContext ==
  ASSUME NEW f \in DOMAIN Rate, NEW z, NEW g, NEW h \in Nat, NEW s,
         Handing(Context(s, 0), f, z, g, h)
  PROVE  \E w \in Nat : Wholes(f, h, w) /\ s = StageOf(f, z, g, w)
<1>1. PICK r \in Nat \ {0} : r = Rate[f]
  BY RateIs
<1>2. PICK w \in Nat, n \in 0 .. r - 1, d \in Nat :
        d = r * w /\ h + n = d /\ Context(s, 0) = Context(StageOf(f, z, g, w), n)
  BY <1>1 DEF Handing, Squeezing, StageOf
<1>3. Context(s, 0).s = s /\ Context(s, 0).n = 0
  BY ContextFields
<1>4. PICK y : y = StageOf(f, z, g, w) /\ Context(y, n).s = y /\ Context(y, n).n = n
  BY ContextFields
<1>5. s = y /\ n = 0
  BY <1>2, <1>3, <1>4
<1>6. h = d
  BY <1>2, <1>5
<1>7. Wholes(f, h, w)
  BY <1>1, <1>2, <1>6 DEF Wholes, Whole
<1>8. QED
  BY <1>4, <1>5, <1>7

LEMMA HandsOut ==
  ASSUME NEW f \in DOMAIN Rate, NEW z \in Nat \X Nat, NEW g \in Nat, NEW h \in Nat,
         NEW l \in Nat, NEW c, Handing(c, f, z, g, h)
  PROVE  \E x : /\ keccak_inc_squeeze(c, l, Rate[f]) = Giving(GivesOut(f, z, g, h, l), x)
                /\ Handing(x, f, z, g, h + l)
<1>0. PICK p, m : p = Domain[f] /\ m = Message(f, z, g)
  OBVIOUS
<1>1. PICK r \in Nat \ {0}, q \in Nat :
        r = Rate[f] /\ p = Domain[f] /\ m = Message(f, z, g) /\ q = FullBlocks(f, z, g)
  <2>1. PICK r \in Nat \ {0} : r = Rate[f]
    BY RateIs
  <2>2. PICK q \in Nat : q = FullBlocks(f, z, g)
    BY FullBlocksAre
  <2>3. QED
    BY <1>0, <2>1, <2>2
<1>2. Squeezing(c, h, m, r, p, q)
  BY <1>1 DEF Handing
<1>3. SqueezedOn(c, h, l, m, r, p, q)
  BY <1>2, SqueezeOn
<1>4. QED
  BY <1>1, <1>3 DEF SqueezedOn, GivesOut, Handing

BlocksGiven(f, z, g, h, w, t) ==
  keccak_squeezeblocks(t, StageOf(f, z, g, w), Rate[f])
    = BlocksOut(GivesOut(f, z, g, h, t * Rate[f]), StageOf(f, z, g, w + t))

LEMMA HandsBlocks ==
  ASSUME NEW f \in DOMAIN Rate, NEW z \in Nat \X Nat, NEW g \in Nat, NEW h \in Nat,
         NEW w \in Nat, Wholes(f, h, w), NEW t \in Nat
  PROVE  BlocksGiven(f, z, g, h, w, t)
<1>0. PICK p, m : p = Domain[f] /\ m = Message(f, z, g)
  OBVIOUS
<1>1. PICK r \in Nat \ {0}, q \in Nat :
        r = Rate[f] /\ p = Domain[f] /\ m = Message(f, z, g) /\ q = FullBlocks(f, z, g)
  <2>1. PICK r \in Nat \ {0} : r = Rate[f]
    BY RateIs
  <2>2. PICK q \in Nat : q = FullBlocks(f, z, g)
    BY FullBlocksAre
  <2>3. QED
    BY <1>0, <2>1, <2>2
<1>2. PICK s : s = Stage(m, r, p, q, q + w)
  OBVIOUS
<1>3. Whole(h, r, w)
  BY <1>1 DEF Wholes
<1>4. keccak_squeezeblocks(t, s, r) = BlocksTo(m, r, p, q, w, h, t)
  BY <1>2, <1>3, BlocksAre
<1>5. QED
  BY <1>1, <1>2, <1>4 DEF BlocksTo, GivesOut, StageOf, BlocksGiven

LEMMA WholeMore ==
  ASSUME NEW f \in DOMAIN Rate, NEW h \in Nat, NEW w \in Nat, NEW t \in Nat, Wholes(f, h, w)
  PROVE  h + t * Rate[f] \in Nat /\ Wholes(f, h + t * Rate[f], w + t)
<1>1. PICK r \in Nat : r = Rate[f]
  BY RateIs
<1>2. PICK a \in Nat, b \in Nat : a = r * w /\ b = t * r /\ r * (w + t) = a + b
  OBVIOUS
<1>3. h = a
  BY <1>1, <1>2 DEF Wholes, Whole
<1>4. QED
  BY <1>1, <1>2, <1>3 DEF Wholes, Whole

OutJoined(f, z, g, h, a, k, b, l) ==
  GivesOut(f, z, g, h, a) \o GivesOut(f, z, g, k, b) = GivesOut(f, z, g, h, l)

LEMMA OutJoins ==
  ASSUME NEW f, NEW z, NEW g, NEW h \in Nat, NEW a \in Nat, NEW b \in Nat, NEW k, k = h + a,
         NEW l, l = a + b
  PROVE  OutJoined(f, z, g, h, a, k, b, l)
<1>1. PICK m, r, p, q : r = Rate[f] /\ p = Domain[f] /\ m = Message(f, z, g) /\ q = FullBlocks(f, z, g)
  OBVIOUS
<1>2. OutsJoin(m, r, p, q, h, a, k, b, l)
  BY OutsMore
<1>3. QED
  BY <1>1, <1>2 DEF OutsJoin, Cat, GivesOut, OutJoined

LEMMA OutFirst ==
  ASSUME NEW f, NEW z, NEW g, NEW h, NEW a \in Nat, NEW b \in 0 .. a
  PROVE  SubSeq(GivesOut(f, z, g, h, a), 1, b) = GivesOut(f, z, g, h, b)
<1>1. PICK m, r, p, q : r = Rate[f] /\ p = Domain[f] /\ m = Message(f, z, g) /\ q = FullBlocks(f, z, g)
  OBVIOUS
<1>2. SubSeq(Outs(m, r, p, q, h, a), 1, b) = Outs(m, r, p, q, h, b)
  BY OutsFirst
<1>3. QED
  BY <1>1, <1>2 DEF GivesOut

-----------------------------------------------------------------------------
(* The invariant.                                                           *)
User(f, ph, c, z, g, o) ==
  [ f |-> f, phase |-> ph, ctx |-> c, sizes |-> z, given |-> g, got |-> o ]

Stand(f, z, g, o, n) ==
  /\ f \in DOMAIN Rate /\ z \in Nat \X Nat /\ g \in Nat /\ n \in Nat
  /\ o = GivesOut(f, z, g, 0, n)

Phased(ph, c, f, z, g, n) ==
  \/ ph = "released"
  \/ ph = "absorb" /\ n = 0 /\ Ready(c, f, z, g)
  \/ ph = "squeeze" /\ Handing(c, f, z, g, n)
  \/ ph = "blocks" /\ Handing(c, f, z, g, n) /\ \E s : c = Context(s, 0)

AtRest(ph, o) == ph \in { "none", "used" } /\ o = << >>

Sound(f, ph, c, z, g, o) ==
  AtRest(ph, o) \/ \E n : Stand(f, z, g, o, n) /\ Phased(ph, c, f, z, g, n)

Faithful(x) == \E f, ph, c, z, g, o : x = User(f, ph, c, z, g, o) /\ Sound(f, ph, c, z, g, o)

LEMMA UserFields ==
  ASSUME NEW f, NEW ph, NEW c, NEW z, NEW g, NEW o, NEW x, x = User(f, ph, c, z, g, o)
  PROVE  x.f = f /\ x.phase = ph /\ x.ctx = c /\ x.sizes = z /\ x.given = g /\ x.got = o
  BY DEF User

LEMMA NoSpongeIs == NoSponge = User("shake128", "none", keccak_inc_init, << 0, 0 >>, 0, << >>)
  BY Zenon DEF NoSponge, User

LEMMA FaithfulAgrees ==
  ASSUME NEW x, Faithful(x)
  PROVE  x.got = Output(x.f, x.sizes, x.given, Len(x.got))
<1>1. PICK f, ph, c, z, g, o : x = User(f, ph, c, z, g, o) /\ Sound(f, ph, c, z, g, o)
  BY DEF Faithful
<1>2. x.f = f /\ x.sizes = z /\ x.given = g /\ x.got = o
  BY <1>1, UserFields
<1>3. CASE AtRest(ph, o)
  <2>1. o = << >> /\ Len(o) = 0 /\ 1 .. 0 = {}
    BY <1>3 DEF AtRest
  <2>2. ASSUME NEW D, D = {} PROVE \A E : [ j \in D |-> E[j] ] = << >>
    BY <2>2
  <2>3. Output(f, z, g, 0) = << >>
    BY <2>1 DEF Output
  <2>4. QED
    BY <1>2, <2>1, <2>3
<1>4. ASSUME NEW n, Stand(f, z, g, o, n) PROVE o = Output(f, z, g, Len(o))
  <2>1. /\ f \in DOMAIN Rate /\ z \in Nat \X Nat /\ g \in Nat /\ n \in Nat
        /\ o = GivesOut(f, z, g, 0, n)
    BY <1>4 DEF Stand
  <2>2. Len(o) = n
    BY <2>1, OutsLength
  <2>3. Output(f, z, g, n) = o
    BY <2>1, OutputIs
  <2>4. QED
    BY <2>2, <2>3
<1>5. QED
  BY <1>1, <1>2, <1>3, <1>4 DEF Sound

LEMMA NoSpongeGood == Faithful(NoSponge) /\ Faithful([ NoSponge EXCEPT !.phase = "used" ])
<1>1. [ NoSponge EXCEPT !.phase = "used" ]
        = User("shake128", "used", keccak_inc_init, << 0, 0 >>, 0, << >>)
  BY NoSpongeIs DEF User
<1>2. AtRest("none", << >>) /\ AtRest("used", << >>)
  BY DEF AtRest
<1>3. QED
  BY <1>1, <1>2, NoSpongeIs DEF Faithful, Sound

LEMMA GivesNothing == \A f, z, g, h : GivesOut(f, z, g, h, 0) = << >>
<1>1. 1 .. 0 = {}
  OBVIOUS
<1>2. QED
  BY <1>1 DEF GivesOut, Outs

\* What a client that is past its start stands for.
LEMMA Standing ==
  ASSUME NEW x, Faithful(x), x.phase \in { "absorb", "squeeze", "blocks" }
  PROVE  \E f, c, z, g, o, n :
           /\ x = User(f, x.phase, c, z, g, o) /\ Stand(f, z, g, o, n)
           /\ Phased(x.phase, c, f, z, g, n)
<1>1. PICK f, ph, c, z, g, o : x = User(f, ph, c, z, g, o) /\ Sound(f, ph, c, z, g, o)
  BY DEF Faithful
<1>2. x.phase = ph
  BY <1>1, UserFields
<1>3. ~ AtRest(ph, o)
  BY <1>2 DEF AtRest
<1>4. QED
  BY <1>1, <1>2, <1>3, Zenon DEF Sound

LEMMA BecomesGood ==
  ASSUME NEW f, NEW ph, NEW c, NEW z, NEW g, NEW o, NEW n,
         Stand(f, z, g, o, n), Phased(ph, c, f, z, g, n)
  PROVE  Faithful(User(f, ph, c, z, g, o))
  BY Zenon DEF Faithful, Sound

\* A client with two new entries.
FedClient(x, a, b) == [ x EXCEPT !.ctx = a, !.given = b ]
FinalizedClient(x, a, b) == [ x EXCEPT !.ctx = a, !.phase = b ]
Digested(x, a, b) == [ x EXCEPT !.got = a, !.phase = b ]
SqueezedClient(x, a, b) == [ x EXCEPT !.ctx = a, !.got = b ]

LEMMA FedClientIs ==
  ASSUME NEW f, NEW ph, NEW c, NEW z, NEW g, NEW o, NEW a, NEW b
  PROVE  FedClient(User(f, ph, c, z, g, o), a, b) = User(f, ph, a, z, b, o)
<1>1. [ User(f, ph, c, z, g, o) EXCEPT !.ctx = a ] = User(f, ph, a, z, g, o)
  BY DEF User
<1>2. [ User(f, ph, a, z, g, o) EXCEPT !.given = b ] = User(f, ph, a, z, b, o)
  BY DEF User
<1>3. PICK x : x = User(f, ph, c, z, g, o)
  OBVIOUS
<1>4. [ x EXCEPT !.ctx = a, !.given = b ] = [ [ x EXCEPT !.ctx = a ] EXCEPT !.given = b ]
  OBVIOUS
<1>5. QED
  BY <1>1, <1>2, <1>3, <1>4 DEF FedClient

LEMMA FinalizedClientIs ==
  ASSUME NEW f, NEW ph, NEW c, NEW z, NEW g, NEW o, NEW a, NEW b
  PROVE  FinalizedClient(User(f, ph, c, z, g, o), a, b) = User(f, b, a, z, g, o)
<1>1. [ User(f, ph, c, z, g, o) EXCEPT !.ctx = a ] = User(f, ph, a, z, g, o)
  BY DEF User
<1>2. [ User(f, ph, a, z, g, o) EXCEPT !.phase = b ] = User(f, b, a, z, g, o)
  BY DEF User
<1>3. PICK x : x = User(f, ph, c, z, g, o)
  OBVIOUS
<1>4. [ x EXCEPT !.ctx = a, !.phase = b ] = [ [ x EXCEPT !.ctx = a ] EXCEPT !.phase = b ]
  OBVIOUS
<1>5. QED
  BY <1>1, <1>2, <1>3, <1>4 DEF FinalizedClient

LEMMA DigestedIs ==
  ASSUME NEW f, NEW ph, NEW c, NEW z, NEW g, NEW o, NEW a, NEW b
  PROVE  Digested(User(f, ph, c, z, g, o), a, b) = User(f, b, c, z, g, a)
<1>1. [ User(f, ph, c, z, g, o) EXCEPT !.got = a ] = User(f, ph, c, z, g, a)
  BY DEF User
<1>2. [ User(f, ph, c, z, g, a) EXCEPT !.phase = b ] = User(f, b, c, z, g, a)
  BY DEF User
<1>3. PICK x : x = User(f, ph, c, z, g, o)
  OBVIOUS
<1>4. [ x EXCEPT !.got = a, !.phase = b ] = [ [ x EXCEPT !.got = a ] EXCEPT !.phase = b ]
  OBVIOUS
<1>5. QED
  BY <1>1, <1>2, <1>3, <1>4 DEF Digested

LEMMA SqueezedClientIs ==
  ASSUME NEW f, NEW ph, NEW c, NEW z, NEW g, NEW o, NEW a, NEW b
  PROVE  SqueezedClient(User(f, ph, c, z, g, o), a, b) = User(f, ph, a, z, g, b)
<1>1. [ User(f, ph, c, z, g, o) EXCEPT !.ctx = a ] = User(f, ph, a, z, g, o)
  BY DEF User
<1>2. [ User(f, ph, a, z, g, o) EXCEPT !.got = b ] = User(f, ph, a, z, g, b)
  BY DEF User
<1>3. PICK x : x = User(f, ph, c, z, g, o)
  OBVIOUS
<1>4. [ x EXCEPT !.ctx = a, !.got = b ] = [ [ x EXCEPT !.ctx = a ] EXCEPT !.got = b ]
  OBVIOUS
<1>5. QED
  BY <1>1, <1>2, <1>3, <1>4 DEF SqueezedClient

\* A client that begins, or is done, with one call.
Begun(f, ph) == [ NoSponge EXCEPT !.f = f, !.phase = ph ]
BegunNamed(f, ph, z, c) == [ NoSponge EXCEPT !.f = f, !.phase = ph, !.sizes = z, !.ctx = c ]
BegunWhole(f, ph, g, c) == [ NoSponge EXCEPT !.f = f, !.phase = ph, !.given = g, !.ctx = c ]
Done(f, ph, g, o) == [ NoSponge EXCEPT !.f = f, !.phase = ph, !.given = g, !.got = o ]
DoneNamed(f, ph, g, z, o) == [ NoSponge EXCEPT !.f = f, !.phase = ph, !.given = g, !.sizes = z, !.got = o ]

LEMMA BegunIs ==
  ASSUME NEW f, NEW ph
  PROVE  Begun(f, ph) = User(f, ph, keccak_inc_init, << 0, 0 >>, 0, << >>)
<1>1. PICK e, n, k, w, u, v :
        /\ e = "shake128" /\ n = "none" /\ k = keccak_inc_init
        /\ w = << 0, 0 >> /\ u = 0 /\ v = << >>
  OBVIOUS
<1>2. PICK x : x = NoSponge /\ x = User(e, n, k, w, u, v)
  BY <1>1, NoSpongeIs
<1>3. [ x EXCEPT !.f = f ]
        = User(f, n, k, w, u, v)
  <2>1. [ User(e, n, k, w, u, v) EXCEPT !.f = f ] = User(f, n, k, w, u, v)
    BY DEF User
  <2>2. x = User(e, n, k, w, u, v)
    BY <1>2
  <2>3. QED
    BY <2>1, <2>2
<1>4. [ [ x EXCEPT !.f = f ] EXCEPT !.phase = ph ]
        = User(f, ph, k, w, u, v)
  <2>1. [ User(f, n, k, w, u, v) EXCEPT !.phase = ph ] = User(f, ph, k, w, u, v)
    BY DEF User
  <2>2. [ x EXCEPT !.f = f ] = User(f, n, k, w, u, v)
    BY <1>3
  <2>3. QED
    BY <2>1, <2>2
<1>5. [ x EXCEPT !.f = f, !.phase = ph ]
        = [ [ x EXCEPT !.f = f ] EXCEPT !.phase = ph ]
  OBVIOUS
<1>6. QED
  BY <1>1, <1>2, <1>4, <1>5 DEF Begun

LEMMA BegunNamedIs ==
  ASSUME NEW f, NEW ph, NEW z, NEW c
  PROVE  BegunNamed(f, ph, z, c) = User(f, ph, c, z, 0, << >>)
<1>1. PICK e, n, k, w, u, v :
        /\ e = "shake128" /\ n = "none" /\ k = keccak_inc_init
        /\ w = << 0, 0 >> /\ u = 0 /\ v = << >>
  OBVIOUS
<1>2. PICK x : x = NoSponge /\ x = User(e, n, k, w, u, v)
  BY <1>1, NoSpongeIs
<1>3. [ x EXCEPT !.f = f ]
        = User(f, n, k, w, u, v)
  <2>1. [ User(e, n, k, w, u, v) EXCEPT !.f = f ] = User(f, n, k, w, u, v)
    BY DEF User
  <2>2. x = User(e, n, k, w, u, v)
    BY <1>2
  <2>3. QED
    BY <2>1, <2>2
<1>4. [ [ x EXCEPT !.f = f ] EXCEPT !.phase = ph ]
        = User(f, ph, k, w, u, v)
  <2>1. [ User(f, n, k, w, u, v) EXCEPT !.phase = ph ] = User(f, ph, k, w, u, v)
    BY DEF User
  <2>2. [ x EXCEPT !.f = f ] = User(f, n, k, w, u, v)
    BY <1>3
  <2>3. QED
    BY <2>1, <2>2
<1>5. [ [ [ x EXCEPT !.f = f ] EXCEPT !.phase = ph ] EXCEPT !.sizes = z ]
        = User(f, ph, k, z, u, v)
  <2>1. [ User(f, ph, k, w, u, v) EXCEPT !.sizes = z ] = User(f, ph, k, z, u, v)
    BY DEF User
  <2>2. [ [ x EXCEPT !.f = f ] EXCEPT !.phase = ph ] = User(f, ph, k, w, u, v)
    BY <1>4
  <2>3. QED
    BY <2>1, <2>2
<1>6. [ [ [ [ x EXCEPT !.f = f ] EXCEPT !.phase = ph ] EXCEPT !.sizes = z ] EXCEPT !.ctx = c ]
        = User(f, ph, c, z, u, v)
  <2>1. [ User(f, ph, k, z, u, v) EXCEPT !.ctx = c ] = User(f, ph, c, z, u, v)
    BY DEF User
  <2>2. [ [ [ x EXCEPT !.f = f ] EXCEPT !.phase = ph ] EXCEPT !.sizes = z ] = User(f, ph, k, z, u, v)
    BY <1>5
  <2>3. QED
    BY <2>1, <2>2
<1>7. [ x EXCEPT !.f = f, !.phase = ph, !.sizes = z, !.ctx = c ]
        = [ [ [ [ x EXCEPT !.f = f ] EXCEPT !.phase = ph ] EXCEPT !.sizes = z ] EXCEPT !.ctx = c ]
  OBVIOUS
<1>8. QED
  BY <1>1, <1>2, <1>6, <1>7 DEF BegunNamed

LEMMA BegunWholeIs ==
  ASSUME NEW f, NEW ph, NEW g, NEW c
  PROVE  BegunWhole(f, ph, g, c) = User(f, ph, c, << 0, 0 >>, g, << >>)
<1>1. PICK e, n, k, w, u, v :
        /\ e = "shake128" /\ n = "none" /\ k = keccak_inc_init
        /\ w = << 0, 0 >> /\ u = 0 /\ v = << >>
  OBVIOUS
<1>2. PICK x : x = NoSponge /\ x = User(e, n, k, w, u, v)
  BY <1>1, NoSpongeIs
<1>3. [ x EXCEPT !.f = f ]
        = User(f, n, k, w, u, v)
  <2>1. [ User(e, n, k, w, u, v) EXCEPT !.f = f ] = User(f, n, k, w, u, v)
    BY DEF User
  <2>2. x = User(e, n, k, w, u, v)
    BY <1>2
  <2>3. QED
    BY <2>1, <2>2
<1>4. [ [ x EXCEPT !.f = f ] EXCEPT !.phase = ph ]
        = User(f, ph, k, w, u, v)
  <2>1. [ User(f, n, k, w, u, v) EXCEPT !.phase = ph ] = User(f, ph, k, w, u, v)
    BY DEF User
  <2>2. [ x EXCEPT !.f = f ] = User(f, n, k, w, u, v)
    BY <1>3
  <2>3. QED
    BY <2>1, <2>2
<1>5. [ [ [ x EXCEPT !.f = f ] EXCEPT !.phase = ph ] EXCEPT !.given = g ]
        = User(f, ph, k, w, g, v)
  <2>1. [ User(f, ph, k, w, u, v) EXCEPT !.given = g ] = User(f, ph, k, w, g, v)
    BY DEF User
  <2>2. [ [ x EXCEPT !.f = f ] EXCEPT !.phase = ph ] = User(f, ph, k, w, u, v)
    BY <1>4
  <2>3. QED
    BY <2>1, <2>2
<1>6. [ [ [ [ x EXCEPT !.f = f ] EXCEPT !.phase = ph ] EXCEPT !.given = g ] EXCEPT !.ctx = c ]
        = User(f, ph, c, w, g, v)
  <2>1. [ User(f, ph, k, w, g, v) EXCEPT !.ctx = c ] = User(f, ph, c, w, g, v)
    BY DEF User
  <2>2. [ [ [ x EXCEPT !.f = f ] EXCEPT !.phase = ph ] EXCEPT !.given = g ] = User(f, ph, k, w, g, v)
    BY <1>5
  <2>3. QED
    BY <2>1, <2>2
<1>7. [ x EXCEPT !.f = f, !.phase = ph, !.given = g, !.ctx = c ]
        = [ [ [ [ x EXCEPT !.f = f ] EXCEPT !.phase = ph ] EXCEPT !.given = g ] EXCEPT !.ctx = c ]
  OBVIOUS
<1>8. QED
  BY <1>1, <1>2, <1>6, <1>7 DEF BegunWhole

LEMMA DoneIs ==
  ASSUME NEW f, NEW ph, NEW g, NEW o
  PROVE  Done(f, ph, g, o) = User(f, ph, keccak_inc_init, << 0, 0 >>, g, o)
<1>1. PICK e, n, k, w, u, v :
        /\ e = "shake128" /\ n = "none" /\ k = keccak_inc_init
        /\ w = << 0, 0 >> /\ u = 0 /\ v = << >>
  OBVIOUS
<1>2. PICK x : x = NoSponge /\ x = User(e, n, k, w, u, v)
  BY <1>1, NoSpongeIs
<1>3. [ x EXCEPT !.f = f ]
        = User(f, n, k, w, u, v)
  <2>1. [ User(e, n, k, w, u, v) EXCEPT !.f = f ] = User(f, n, k, w, u, v)
    BY DEF User
  <2>2. x = User(e, n, k, w, u, v)
    BY <1>2
  <2>3. QED
    BY <2>1, <2>2
<1>4. [ [ x EXCEPT !.f = f ] EXCEPT !.phase = ph ]
        = User(f, ph, k, w, u, v)
  <2>1. [ User(f, n, k, w, u, v) EXCEPT !.phase = ph ] = User(f, ph, k, w, u, v)
    BY DEF User
  <2>2. [ x EXCEPT !.f = f ] = User(f, n, k, w, u, v)
    BY <1>3
  <2>3. QED
    BY <2>1, <2>2
<1>5. [ [ [ x EXCEPT !.f = f ] EXCEPT !.phase = ph ] EXCEPT !.given = g ]
        = User(f, ph, k, w, g, v)
  <2>1. [ User(f, ph, k, w, u, v) EXCEPT !.given = g ] = User(f, ph, k, w, g, v)
    BY DEF User
  <2>2. [ [ x EXCEPT !.f = f ] EXCEPT !.phase = ph ] = User(f, ph, k, w, u, v)
    BY <1>4
  <2>3. QED
    BY <2>1, <2>2
<1>6. [ [ [ [ x EXCEPT !.f = f ] EXCEPT !.phase = ph ] EXCEPT !.given = g ] EXCEPT !.got = o ]
        = User(f, ph, k, w, g, o)
  <2>1. [ User(f, ph, k, w, g, v) EXCEPT !.got = o ] = User(f, ph, k, w, g, o)
    BY DEF User
  <2>2. [ [ [ x EXCEPT !.f = f ] EXCEPT !.phase = ph ] EXCEPT !.given = g ] = User(f, ph, k, w, g, v)
    BY <1>5
  <2>3. QED
    BY <2>1, <2>2
<1>7. [ x EXCEPT !.f = f, !.phase = ph, !.given = g, !.got = o ]
        = [ [ [ [ x EXCEPT !.f = f ] EXCEPT !.phase = ph ] EXCEPT !.given = g ] EXCEPT !.got = o ]
  OBVIOUS
<1>8. QED
  BY <1>1, <1>2, <1>6, <1>7 DEF Done

LEMMA DoneNamedIs ==
  ASSUME NEW f, NEW ph, NEW g, NEW z, NEW o
  PROVE  DoneNamed(f, ph, g, z, o) = User(f, ph, keccak_inc_init, z, g, o)
<1>1. PICK e, n, k, w, u, v :
        /\ e = "shake128" /\ n = "none" /\ k = keccak_inc_init
        /\ w = << 0, 0 >> /\ u = 0 /\ v = << >>
  OBVIOUS
<1>2. PICK x : x = NoSponge /\ x = User(e, n, k, w, u, v)
  BY <1>1, NoSpongeIs
<1>3. [ x EXCEPT !.f = f ]
        = User(f, n, k, w, u, v)
  <2>1. [ User(e, n, k, w, u, v) EXCEPT !.f = f ] = User(f, n, k, w, u, v)
    BY DEF User
  <2>2. x = User(e, n, k, w, u, v)
    BY <1>2
  <2>3. QED
    BY <2>1, <2>2
<1>4. [ [ x EXCEPT !.f = f ] EXCEPT !.phase = ph ]
        = User(f, ph, k, w, u, v)
  <2>1. [ User(f, n, k, w, u, v) EXCEPT !.phase = ph ] = User(f, ph, k, w, u, v)
    BY DEF User
  <2>2. [ x EXCEPT !.f = f ] = User(f, n, k, w, u, v)
    BY <1>3
  <2>3. QED
    BY <2>1, <2>2
<1>5. [ [ [ x EXCEPT !.f = f ] EXCEPT !.phase = ph ] EXCEPT !.given = g ]
        = User(f, ph, k, w, g, v)
  <2>1. [ User(f, ph, k, w, u, v) EXCEPT !.given = g ] = User(f, ph, k, w, g, v)
    BY DEF User
  <2>2. [ [ x EXCEPT !.f = f ] EXCEPT !.phase = ph ] = User(f, ph, k, w, u, v)
    BY <1>4
  <2>3. QED
    BY <2>1, <2>2
<1>6. [ [ [ [ x EXCEPT !.f = f ] EXCEPT !.phase = ph ] EXCEPT !.given = g ] EXCEPT !.sizes = z ]
        = User(f, ph, k, z, g, v)
  <2>1. [ User(f, ph, k, w, g, v) EXCEPT !.sizes = z ] = User(f, ph, k, z, g, v)
    BY DEF User
  <2>2. [ [ [ x EXCEPT !.f = f ] EXCEPT !.phase = ph ] EXCEPT !.given = g ] = User(f, ph, k, w, g, v)
    BY <1>5
  <2>3. QED
    BY <2>1, <2>2
<1>7. [ [ [ [ [ x EXCEPT !.f = f ] EXCEPT !.phase = ph ] EXCEPT !.given = g ] EXCEPT !.sizes = z ] EXCEPT !.got = o ]
        = User(f, ph, k, z, g, o)
  <2>1. [ User(f, ph, k, z, g, v) EXCEPT !.got = o ] = User(f, ph, k, z, g, o)
    BY DEF User
  <2>2. [ [ [ [ x EXCEPT !.f = f ] EXCEPT !.phase = ph ] EXCEPT !.given = g ] EXCEPT !.sizes = z ] = User(f, ph, k, z, g, v)
    BY <1>6
  <2>3. QED
    BY <2>1, <2>2
<1>8. [ x EXCEPT !.f = f, !.phase = ph, !.given = g, !.sizes = z, !.got = o ]
        = [ [ [ [ [ x EXCEPT !.f = f ] EXCEPT !.phase = ph ] EXCEPT !.given = g ] EXCEPT !.sizes = z ] EXCEPT !.got = o ]
  OBVIOUS
<1>9. QED
  BY <1>1, <1>2, <1>7, <1>8 DEF DoneNamed
-----------------------------------------------------------------------------
(* The calls.                                                               *)
LEMMA NoNames == << 0, 0 >> \in Nat \X Nat
  OBVIOUS

LEMMA StartStands ==
  ASSUME NEW f \in DOMAIN Rate, NEW z \in Nat \X Nat, NEW g \in Nat
  PROVE  Stand(f, z, g, << >>, 0)
  BY GivesNothing DEF Stand

LEMMA FaithfulInit ==
  ASSUME NEW f \in DOMAIN Rate, f \in Shake \cup Sha3
  PROVE  Faithful(Begun(f, "absorb"))
<1>1. PICK z : z = << 0, 0 >> /\ z \in Nat \X Nat
  BY NoNames
<1>2. PICK c : c = keccak_inc_init
  OBVIOUS
<1>3. Ready(c, f, z, 0)
  <2>1. PICK r \in Nat \ {0} : r = Rate[f]
    BY RateIs
  <2>2. Message(f, z, 0) = << >>
    BY MessageIs, NoBytes
  <2>3. Absorbing(c, << >>, r)
    BY <1>2, AbsorbsNothing
  <2>4. QED
    BY <2>1, <2>2, <2>3 DEF Ready
<1>4. Phased("absorb", c, f, z, 0, 0) /\ Stand(f, z, 0, << >>, 0)
  BY <1>1, <1>3, StartStands DEF Phased
<1>5. Faithful(User(f, "absorb", c, z, 0, << >>))
  BY <1>4, BecomesGood
<1>6. QED
  BY <1>1, <1>2, <1>5, BegunIs

LEMMA FaithfulCShakeInit ==
  ASSUME NEW f \in DOMAIN Rate, f \in CShake, NEW z \in Nat \X Nat
  PROVE  Faithful(BegunNamed(f, "absorb", z, cshake_inc_init(Rate[f], z)))
<1>1. PICK c : c = cshake_inc_init(Rate[f], z)
  OBVIOUS
<1>2. Ready(c, f, z, 0)
  <2>1. PICK r \in Nat \ {0} : r = Rate[f]
    BY RateIs
  <2>2. Absorbing(cshake_inc_init(r, z), Prefix(f, z), r)
    BY <2>1, PrefixAbsorbed
  <2>3. Message(f, z, 0) = Prefix(f, z)
    BY MessageBegins
  <2>4. QED
    BY <1>1, <2>1, <2>2, <2>3 DEF Ready
<1>3. Phased("absorb", c, f, z, 0, 0) /\ Stand(f, z, 0, << >>, 0)
  BY <1>2, StartStands DEF Phased
<1>4. Faithful(User(f, "absorb", c, z, 0, << >>))
  BY <1>3, BecomesGood
<1>5. BegunNamed(f, "absorb", z, c) = User(f, "absorb", c, z, 0, << >>)
  BY BegunNamedIs
<1>6. QED
  BY <1>1, <1>4, <1>5

\* What was ready for more is with it ready for yet more.
LEMMA ReadyForMore ==
  ASSUME NEW f \in DOMAIN Rate, NEW z \in Nat \X Nat, NEW g \in Nat, NEW n \in Nat,
         NEW c, Ready(c, f, z, g), NEW d, d = NextData(g, n), NEW h, h = g + n
  PROVE  Ready(keccak_inc_absorb(c, Rate[f], d), f, z, h)
<1>1. PICK r \in Nat \ {0} : r = Rate[f]
  BY RateIs
<1>2. PICK m : m = Message(f, z, g) /\ IsSeq(m) /\ Absorbing(c, m, r)
  BY <1>1, MessageIsSeq DEF Ready
<1>3. Cat(m, d) = Message(f, z, h) /\ IsSeq(d)
  BY <1>2, MessageGoesOn
<1>4. Absorbing(keccak_inc_absorb(c, r, d), Cat(m, d), r)
  BY <1>2, <1>3, AbsorbAnother
<1>5. QED
  BY <1>1, <1>3, <1>4 DEF Ready

LEMMA FaithfulAbsorb ==
  ASSUME NEW x, Faithful(x), x.phase = "absorb", NEW n \in Nat, NEW d,
         d = NextData(x.given, n)
  PROVE  Faithful(FedClient(x, keccak_inc_absorb(x.ctx, Rate[x.f], d), x.given + n))
<1>1. PICK f, c, z, g, o, k : /\ x = User(f, "absorb", c, z, g, o) /\ Stand(f, z, g, o, k)
                              /\ Phased("absorb", c, f, z, g, k)
  BY Standing
<1>2. x.f = f /\ x.ctx = c /\ x.given = g
  BY <1>1, UserFields
<1>3. /\ f \in DOMAIN Rate /\ z \in Nat \X Nat /\ g \in Nat /\ k = 0
      /\ o = GivesOut(f, z, g, 0, 0) /\ Ready(c, f, z, g)
  BY <1>1 DEF Stand, Phased
<1>0. PICK e : e = keccak_inc_absorb(c, Rate[f], d)
  OBVIOUS
<1>4. PICK b \in Nat : e = keccak_inc_absorb(c, Rate[f], d) /\ b = g + n
  BY <1>0, <1>3
<1>5. Ready(e, f, z, b)
  BY <1>2, <1>3, <1>4, ReadyForMore
<1>6. o = << >>
  BY <1>3, GivesNothing
<1>7. Stand(f, z, b, o, 0) /\ Phased("absorb", e, f, z, b, 0)
  BY <1>3, <1>5, <1>6, StartStands DEF Phased
<1>8. Faithful(User(f, "absorb", e, z, b, o))
  BY <1>7, BecomesGood
<1>9. FedClient(User(f, "absorb", c, z, g, o), e, b) = User(f, "absorb", e, z, b, o)
  BY FedClientIs
<1>10. QED
  BY <1>1, <1>2, <1>4, <1>8, <1>9

LEMMA FaithfulFinalize ==
  ASSUME NEW x, Faithful(x), x.phase = "absorb"
  PROVE  Faithful(FinalizedClient(x, keccak_inc_finalize(x.ctx, Rate[x.f], Domain[x.f]), "squeeze"))
<1>1. PICK f, c, z, g, o, k : /\ x = User(f, "absorb", c, z, g, o) /\ Stand(f, z, g, o, k)
                              /\ Phased("absorb", c, f, z, g, k)
  BY Standing
<1>2. x.f = f /\ x.ctx = c
  BY <1>1, UserFields
<1>3. f \in DOMAIN Rate /\ z \in Nat \X Nat /\ g \in Nat /\ k = 0 /\ Ready(c, f, z, g)
  BY <1>1 DEF Stand, Phased
<1>4. PICK e : e = Context(StageOf(f, z, g, 0), 0) /\ e = keccak_inc_finalize(c, Rate[f], Domain[f])
  BY <1>3, FinalizesStage
<1>5. Handing(e, f, z, g, 0)
  BY <1>3, <1>4, NoneWhole, HandingIs
<1>6. Phased("squeeze", e, f, z, g, k)
  BY <1>3, <1>5 DEF Phased
<1>7. Faithful(User(f, "squeeze", e, z, g, o))
  BY <1>1, <1>6, BecomesGood
<1>8. FinalizedClient(User(f, "absorb", c, z, g, o), e, "squeeze") = User(f, "squeeze", e, z, g, o)
  BY FinalizedClientIs
<1>9. QED
  BY <1>1, <1>2, <1>4, <1>7, <1>8

LEMMA FirstBlock ==
  ASSUME NEW f \in DOMAIN Rate, NEW z \in Nat \X Nat, NEW g \in Nat, NEW h \in Nat,
         NEW w \in Nat, Wholes(f, h, w)
  PROVE  keccak_squeezeblocks(1, StageOf(f, z, g, w), Rate[f]).h = GivesOut(f, z, g, h, Rate[f])
<1>1. PICK t \in Nat : t = 1 /\ t * Rate[f] = Rate[f]
  BY RateIs
<1>2. PICK b : keccak_squeezeblocks(t, StageOf(f, z, g, w), Rate[f])
                 = BlocksOut(GivesOut(f, z, g, h, t * Rate[f]), b)
  <2>1. BlocksGiven(f, z, g, h, w, t)
    BY HandsBlocks
  <2>2. QED
    BY <2>1 DEF BlocksGiven
<1>3. BlocksOut(GivesOut(f, z, g, h, t * Rate[f]), b).h = GivesOut(f, z, g, h, t * Rate[f])
  BY BlocksFields
<1>4. QED
  BY <1>1, <1>2, <1>3

LEMMA DigestIs ==
  ASSUME NEW f \in DOMAIN Rate, NEW z \in Nat \X Nat, NEW g \in Nat, NEW h,
         h = keccak_squeezeblocks(1, StageOf(f, z, g, 0), Rate[f]).h
  PROVE  Stand(f, z, g, SubSeq(h, 1, Digest[f]), Digest[f])
<1>1. h = GivesOut(f, z, g, 0, Rate[f])
  BY NoneWhole, FirstBlock
<1>0. PICK a \in Nat : a = Rate[f]
  BY RateIs
<1>2. PICK b \in 0 .. a : a = Rate[f] /\ b = Digest[f]
  BY <1>0, RateIs
<1>3. SubSeq(GivesOut(f, z, g, 0, a), 1, b) = GivesOut(f, z, g, 0, b)
  BY OutFirst
<1>4. b \in Nat
  OBVIOUS
<1>5. QED
  BY <1>1, <1>2, <1>3, <1>4 DEF Stand

LEMMA FaithfulDigest ==
  ASSUME NEW x, Faithful(x), x.phase = "absorb", NEW c, NEW h,
         c = keccak_inc_finalize(x.ctx, Rate[x.f], Domain[x.f]),
         h = keccak_squeezeblocks(1, c.s, Rate[x.f]).h
  PROVE  Faithful(Digested(x, SubSeq(h, 1, Digest[x.f]), "released"))
<1>1. PICK f, b, z, g, o, k : /\ x = User(f, "absorb", b, z, g, o) /\ Stand(f, z, g, o, k)
                              /\ Phased("absorb", b, f, z, g, k)
  BY Standing
<1>2. x.f = f /\ x.ctx = b
  BY <1>1, UserFields
<1>3. f \in DOMAIN Rate /\ z \in Nat \X Nat /\ g \in Nat /\ Ready(b, f, z, g)
  BY <1>1 DEF Stand, Phased
<1>4. c.s = StageOf(f, z, g, 0)
  <2>1. c = Context(StageOf(f, z, g, 0), 0)
    BY <1>2, <1>3, FinalizesStage
  <2>2. QED
    BY <2>1, ContextFields
<1>5. PICK d : d = SubSeq(h, 1, Digest[f]) /\ Stand(f, z, g, d, Digest[f])
  BY <1>2, <1>3, <1>4, DigestIs
<1>6. Phased("released", b, f, z, g, Digest[f])
  BY DEF Phased
<1>7. Faithful(User(f, "released", b, z, g, d))
  BY <1>5, <1>6, BecomesGood
<1>8. Digested(User(f, "absorb", b, z, g, o), d, "released") = User(f, "released", b, z, g, d)
  BY DigestedIs
<1>9. QED
  BY <1>1, <1>2, <1>5, <1>7, <1>8

LEMMA FaithfulSqueeze ==
  ASSUME NEW x, Faithful(x), x.phase = "squeeze", NEW n \in Nat, NEW out,
         out = keccak_inc_squeeze(x.ctx, n, Rate[x.f])
  PROVE  Faithful(SqueezedClient(x, out.ctx, x.got \o out.h))
<1>1. PICK f, c, z, g, o, k : /\ x = User(f, "squeeze", c, z, g, o) /\ Stand(f, z, g, o, k)
                              /\ Phased("squeeze", c, f, z, g, k)
  BY Standing
<1>2. x.f = f /\ x.ctx = c /\ x.got = o
  BY <1>1, UserFields
<1>3. /\ f \in DOMAIN Rate /\ z \in Nat \X Nat /\ g \in Nat /\ k \in Nat
      /\ Handing(c, f, z, g, k) /\ o = GivesOut(f, z, g, 0, k)
  BY <1>1 DEF Stand, Phased
<1>4. PICK e : /\ out = Giving(GivesOut(f, z, g, k, n), e) /\ Handing(e, f, z, g, k + n)
  BY <1>2, <1>3, HandsOut
<1>5. out.h = GivesOut(f, z, g, k, n) /\ out.ctx = e
  BY <1>4, GivingFields
<1>6. PICK l \in Nat, i \in Nat : l = k + n /\ i = 0 /\ k = i + k
  BY <1>3
<1>7. PICK y : y = x.got \o out.h /\ Stand(f, z, g, y, l)
  <2>1. OutJoined(f, z, g, i, k, k, n, l)
    BY <1>3, <1>6, OutJoins
  <2>2. QED
    BY <1>2, <1>3, <1>5, <1>6, <2>1 DEF Stand, OutJoined
<1>8. Phased("squeeze", e, f, z, g, l)
  BY <1>4, <1>6 DEF Phased
<1>9. Faithful(User(f, "squeeze", e, z, g, y))
  BY <1>7, <1>8, BecomesGood
<1>10. SqueezedClient(User(f, "squeeze", c, z, g, o), e, y) = User(f, "squeeze", e, z, g, y)
  BY SqueezedClientIs
<1>11. QED
  BY <1>1, <1>5, <1>7, <1>9, <1>10

\* All of a message at once.
LEMMA FaithfulBlocks ==
  ASSUME NEW f \in DOMAIN Rate, f \in Shake, NEW n \in Nat
  PROVE  Faithful(BegunWhole(f, "blocks", n, Context(keccak_absorb(Rate[f], Bytes("m", n), Domain[f]), 0)))
<1>1. PICK z : z = << 0, 0 >> /\ z \in Nat \X Nat
  BY NoNames
<1>2. PICK s : s = keccak_absorb(Rate[f], Bytes("m", n), Domain[f]) /\ s = StageOf(f, z, n, 0)
  <2>1. f \in Shake \cup Sha3
    OBVIOUS
  <2>2. QED
    BY <1>1, <2>1, AbsorbsAtOnce
<1>3. PICK c : c = Context(s, 0)
  OBVIOUS
<1>4. Handing(c, f, z, n, 0)
  BY <1>2, <1>3, NoneWhole, HandingIs
<1>5. Phased("blocks", c, f, z, n, 0)
  BY <1>3, <1>4 DEF Phased
<1>6. Stand(f, z, n, << >>, 0)
  BY <1>1, StartStands
<1>7. Faithful(User(f, "blocks", c, z, n, << >>))
  BY <1>5, <1>6, BecomesGood
<1>8. BegunWhole(f, "blocks", n, c) = User(f, "blocks", c, z, n, << >>)
  BY <1>1, BegunWholeIs
<1>9. QED
  BY <1>2, <1>3, <1>7, <1>8

SqueezedBlocks(x, a, b) == [ x EXCEPT !.ctx.s = a, !.got = b ]

LEMMA SqueezedBlocksIs ==
  ASSUME NEW f, NEW ph, NEW s, NEW z, NEW g, NEW o, NEW a, NEW b
  PROVE  SqueezedBlocks(User(f, ph, Context(s, 0), z, g, o), a, b)
           = User(f, ph, Context(a, 0), z, g, b)
<1>1. PICK c, x : c = Context(s, 0) /\ x = User(f, ph, c, z, g, o)
  OBVIOUS
<1>2. [ x EXCEPT !.ctx.s = a, !.got = b ] = [ [ x EXCEPT !.ctx.s = a ] EXCEPT !.got = b ]
  OBVIOUS
<1>3. [ x EXCEPT !.ctx.s = a ] = [ x EXCEPT !.ctx = [ x.ctx EXCEPT !.s = a ] ]
  OBVIOUS
<1>4. [ x.ctx EXCEPT !.s = a ] = Context(a, 0)
  <2>1. x.ctx = c
    BY <1>1, UserFields
  <2>2. [ Context(s, 0) EXCEPT !.s = a ] = Context(a, 0)
    BY DEF Context
  <2>3. QED
    BY <1>1, <2>1, <2>2
<1>5. PICK e : e = Context(a, 0)
  OBVIOUS
<1>6. [ x EXCEPT !.ctx = e ] = User(f, ph, e, z, g, o)
  <2>1. [ User(f, ph, c, z, g, o) EXCEPT !.ctx = e ] = User(f, ph, e, z, g, o)
    BY DEF User
  <2>2. QED
    BY <1>1, <2>1
<1>7. [ User(f, ph, e, z, g, o) EXCEPT !.got = b ] = User(f, ph, e, z, g, b)
  BY DEF User
<1>8. QED
  BY <1>1, <1>2, <1>3, <1>4, <1>5, <1>6, <1>7 DEF SqueezedBlocks

LEMMA FaithfulMoreBlocks ==
  ASSUME NEW x, Faithful(x), x.phase = "blocks", NEW t \in Nat, NEW out,
         out = keccak_squeezeblocks(t, x.ctx.s, Rate[x.f])
  PROVE  Faithful(SqueezedBlocks(x, out.s, x.got \o out.h))
<1>1. PICK f, c, z, g, o, k : /\ x = User(f, "blocks", c, z, g, o) /\ Stand(f, z, g, o, k)
                              /\ Phased("blocks", c, f, z, g, k)
  BY Standing
<1>2. x.f = f /\ x.ctx = c /\ x.got = o
  BY <1>1, UserFields
<1>3. /\ f \in DOMAIN Rate /\ z \in Nat \X Nat /\ g \in Nat /\ k \in Nat
      /\ Handing(c, f, z, g, k) /\ o = GivesOut(f, z, g, 0, k) /\ \E s : c = Context(s, 0)
  BY <1>1 DEF Stand, Phased
<1>4. PICK s : c = Context(s, 0) /\ c.s = s
  BY <1>3, ContextFields
<1>5. PICK w \in Nat : Wholes(f, k, w) /\ s = StageOf(f, z, g, w)
  BY <1>3, <1>4, WholeContext
<1>6. PICK n \in Nat, l \in Nat, v \in Nat, i \in Nat :
        n = t * Rate[f] /\ l = k + n /\ v = w + t /\ i = 0 /\ k = i + k
  <2>1. PICK r \in Nat : r = Rate[f]
    BY <1>3, RateIs
  <2>2. PICK n \in Nat : n = t * r
    OBVIOUS
  <2>3. k + n \in Nat /\ w + t \in Nat /\ 0 \in Nat /\ k = 0 + k
    BY <1>3
  <2>4. QED
    BY <2>1, <2>2, <2>3
<1>7. out.h = GivesOut(f, z, g, k, n) /\ out.s = StageOf(f, z, g, v)
  <2>1. BlocksGiven(f, z, g, k, w, t)
    BY <1>3, <1>5, HandsBlocks
  <2>2. out = BlocksOut(GivesOut(f, z, g, k, n), StageOf(f, z, g, v))
    BY <1>2, <1>4, <1>5, <1>6, <2>1 DEF BlocksGiven
  <2>3. QED
    BY <2>2, BlocksFields
<1>8. PICK y : y = x.got \o out.h /\ Stand(f, z, g, y, l)
  <2>1. OutJoined(f, z, g, i, k, k, n, l)
    BY <1>3, <1>6, OutJoins
  <2>2. QED
    BY <1>2, <1>3, <1>6, <1>7, <2>1 DEF Stand, OutJoined
<1>9. PICK e : e = Context(out.s, 0)
  OBVIOUS
<1>10. Wholes(f, l, v)
  BY <1>3, <1>5, <1>6, WholeMore
<1>11. Phased("blocks", e, f, z, g, l)
  <2>1. Handing(e, f, z, g, l)
    BY <1>3, <1>6, <1>7, <1>9, <1>10, HandingIs
  <2>2. QED
    BY <1>9, <2>1 DEF Phased
<1>12. Faithful(User(f, "blocks", e, z, g, y))
  BY <1>8, <1>11, BecomesGood
<1>13. SqueezedBlocks(User(f, "blocks", c, z, g, o), out.s, y) = User(f, "blocks", e, z, g, y)
  BY <1>4, <1>9, SqueezedBlocksIs
<1>14. QED
  BY <1>1, <1>8, <1>12, <1>13

LEMMA FaithfulDone ==
  ASSUME NEW f, NEW g, NEW o, NEW n, Stand(f, << 0, 0 >>, g, o, n)
  PROVE  Faithful(Done(f, "released", g, o))
<1>1. PICK z, c : z = << 0, 0 >> /\ c = keccak_inc_init
  OBVIOUS
<1>2. Phased("released", c, f, z, g, n)
  BY DEF Phased
<1>3. Faithful(User(f, "released", c, z, g, o))
  BY <1>1, <1>2, BecomesGood
<1>4. QED
  BY <1>1, <1>3, DoneIs

LEMMA FaithfulSha3 ==
  ASSUME NEW f \in DOMAIN Rate, f \in Sha3, NEW n \in Nat, NEW h,
         h = keccak_squeezeblocks(1, keccak_absorb(Rate[f], Bytes("m", n), Domain[f]), Rate[f]).h
  PROVE  Faithful(Done(f, "released", n, SubSeq(h, 1, Digest[f])))
<1>1. PICK z : z = << 0, 0 >> /\ z \in Nat \X Nat
  BY NoNames
<1>2. keccak_absorb(Rate[f], Bytes("m", n), Domain[f]) = StageOf(f, z, n, 0)
  <2>1. f \in Shake \cup Sha3
    OBVIOUS
  <2>2. QED
    BY <1>1, <2>1, AbsorbsAtOnce
<1>3. PICK d : d = SubSeq(h, 1, Digest[f]) /\ Stand(f, z, n, d, Digest[f])
  BY <1>1, <1>2, DigestIs
<1>4. QED
  BY <1>1, <1>3, FaithfulDone

LEMMA FaithfulShake ==
  ASSUME NEW f \in DOMAIN Rate, f \in Shake, NEW n \in Nat, NEW a \in Nat, NEW whole, NEW last,
         whole = keccak_squeezeblocks(a \div Rate[f],
                   keccak_absorb(Rate[f], Bytes("m", n), Domain[f]), Rate[f]),
         last = keccak_squeezeblocks(1, whole.s, Rate[f]).h
  PROVE  Faithful(Done(f, "released", n, whole.h \o SubSeq(last, 1, a % Rate[f])))
<1>1. PICK z : z = << 0, 0 >> /\ z \in Nat \X Nat
  BY NoNames
<1>2. keccak_absorb(Rate[f], Bytes("m", n), Domain[f]) = StageOf(f, z, n, 0)
  <2>1. f \in Shake \cup Sha3
    OBVIOUS
  <2>2. QED
    BY <1>1, <2>1, AbsorbsAtOnce
<1>3. PICK r \in Nat \ {0} : r = Rate[f]
  BY RateIs
<1>4. PICK t \in Nat, u \in 0 .. r - 1 : t = a \div r /\ u = a % r /\ a = r * t + u
  BY Quotients
<1>5. PICK b \in Nat, i \in Nat : b = t * r /\ i = 0 /\ a = b + u /\ b = i + b /\ b = i + t * r /\ t = i + t
  <2>1. PICK b \in Nat : b = t * r /\ b = r * t
    OBVIOUS
  <2>2. QED
    BY <1>4, <2>1
<1>6. whole = BlocksOut(GivesOut(f, z, n, i, b), StageOf(f, z, n, t))
  <2>1. Wholes(f, i, i)
    BY <1>5, NoneWhole
  <2>2. BlocksGiven(f, z, n, i, i, t)
    BY <1>1, <2>1, HandsBlocks
  <2>3. QED
    BY <1>2, <1>3, <1>4, <1>5, <2>2 DEF BlocksGiven
<1>7. whole.h = GivesOut(f, z, n, i, b) /\ whole.s = StageOf(f, z, n, t)
  BY <1>6, BlocksFields
<1>8. Wholes(f, b, t)
  BY <1>3, <1>5 DEF Wholes, Whole
<1>9. last = GivesOut(f, z, n, b, r)
  BY <1>1, <1>3, <1>7, <1>8, FirstBlock
<1>10. SubSeq(last, 1, u) = GivesOut(f, z, n, b, u)
  <2>1. u \in 0 .. r
    OBVIOUS
  <2>2. SubSeq(GivesOut(f, z, n, b, r), 1, u) = GivesOut(f, z, n, b, u)
    BY <2>1, OutFirst
  <2>3. QED
    BY <1>9, <2>2
<1>11. PICK o : o = whole.h \o SubSeq(last, 1, a % Rate[f]) /\ Stand(f, z, n, o, a)
  <2>0. b = i + b /\ a = b + u /\ u \in Nat
    BY <1>5
  <2>1. OutJoined(f, z, n, i, b, b, u, a)
    BY <2>0, OutJoins
  <2>2. whole.h \o SubSeq(last, 1, a % Rate[f]) = GivesOut(f, z, n, i, a)
    BY <1>3, <1>4, <1>7, <1>10, <2>1 DEF OutJoined
  <2>3. QED
    BY <1>1, <1>5, <2>2 DEF Stand
<1>12. QED
  BY <1>1, <1>11, FaithfulDone

LEMMA FaithfulCShake ==
  ASSUME NEW f \in DOMAIN Rate, f \in CShake, NEW n \in Nat, NEW a \in Nat, NEW z \in Nat \X Nat,
         NEW c, c = keccak_inc_absorb(cshake_inc_init(Rate[f], z), Rate[f], Bytes("m", n)),
         NEW o, o = keccak_inc_squeeze(keccak_inc_finalize(c, Rate[f], Domain[f]), a, Rate[f]).h
  PROVE  Faithful(DoneNamed(f, "released", n, z, o))
<1>1. PICK r \in Nat \ {0} : r = Rate[f]
  BY RateIs
<1>2. PICK m : m = Prefix(f, z) /\ IsSeq(m) /\ Absorbing(cshake_inc_init(r, z), m, r)
  BY <1>1, PrefixAbsorbed
<1>3. PICK d : d = Bytes("m", n) /\ IsSeq(d)
  BY BytesAre
<1>4. Ready(c, f, z, n)
  <2>1. Absorbing(keccak_inc_absorb(cshake_inc_init(r, z), r, d), Cat(m, d), r)
    BY <1>2, <1>3, AbsorbAnother
  <2>2. Message(f, z, n) = Cat(m, d)
    BY <1>2, <1>3 DEF Message
  <2>3. QED
    BY <1>1, <1>3, <2>1, <2>2 DEF Ready
<1>5. PICK e : e = Context(StageOf(f, z, n, 0), 0) /\ e = keccak_inc_finalize(c, Rate[f], Domain[f])
  BY <1>4, FinalizesStage
<1>6. PICK i \in Nat : i = 0
  OBVIOUS
<1>7. Handing(e, f, z, n, i)
  BY <1>5, <1>6, NoneWhole, HandingIs
<1>8. PICK x : keccak_inc_squeeze(e, a, Rate[f]) = Giving(GivesOut(f, z, n, i, a), x)
  BY <1>7, HandsOut, SMTT(30)
<1>9. o = GivesOut(f, z, n, i, a)
  BY <1>5, <1>8, GivingFields
<1>10. Stand(f, z, n, o, a)
  BY <1>6, <1>9 DEF Stand
<1>11. PICK k : k = keccak_inc_init /\ Phased("released", k, f, z, n, a)
  BY DEF Phased
<1>12. Faithful(User(f, "released", k, z, n, o))
  BY <1>10, <1>11, BecomesGood
<1>13. QED
  BY <1>11, <1>12, DoneNamedIs
-----------------------------------------------------------------------------
(* The steps.                                                               *)
LEMMA BoundsAre == MaxBytes \in Nat /\ Lengths \subseteq Nat /\ Names \subseteq Nat \X Nat
  BY SpongeAssumption

LEMMA SpongeStarts ==
  ASSUME SpongeInit
  PROVE  Faithful(sponge) /\ Faithful(other)
  BY NoSpongeGood DEF SpongeInit

LEMMA SpongeSteps ==
  ASSUME Faithful(sponge), Faithful(other), SpongeNext
  PROVE  Faithful(sponge') /\ Faithful(other')
<1>1. ASSUME NEW f \in DOMAIN Rate, inc_init(f) PROVE Faithful(sponge') /\ Faithful(other')
  <2>1. sponge' = Begun(f, "absorb") /\ other' = other
    BY <1>1 DEF inc_init, Begun
  <2>2. f \in Shake \cup Sha3
    BY <1>1 DEF inc_init
  <2>3. Faithful(Begun(f, "absorb"))
    BY <2>2, FaithfulInit
  <2>4. QED
    BY <2>1, <2>3
<1>2. ASSUME NEW f \in DOMAIN Rate, NEW z \in Names, cshake_init(f, z)
      PROVE  Faithful(sponge') /\ Faithful(other')
  <2>1. sponge' = BegunNamed(f, "absorb", z, cshake_inc_init(Rate[f], z)) /\ other' = other
    BY <1>2, Zenon DEF cshake_init, BegunNamed
  <2>2. f \in CShake /\ z \in Nat \X Nat
    BY <1>2, BoundsAre DEF cshake_init
  <2>3. Faithful(BegunNamed(f, "absorb", z, cshake_inc_init(Rate[f], z)))
    BY <2>2, FaithfulCShakeInit
  <2>4. QED
    BY <2>1, <2>3
<1>3. ASSUME NEW n \in Lengths, inc_absorb(n) PROVE Faithful(sponge') /\ Faithful(other')
  <2>1. PICK d : d = NextData(sponge.given, n) /\ d = Given(n)
    BY Zenon DEF Given, NextData
  <2>2. sponge' = FedClient(sponge, keccak_inc_absorb(sponge.ctx, Rate[sponge.f], d), sponge.given + n)
        /\ other' = other /\ sponge.phase = "absorb"
    BY <1>3, <2>1, Zenon DEF inc_absorb, FedClient
  <2>3. n \in Nat
    BY BoundsAre
  <2>4. Faithful(FedClient(sponge, keccak_inc_absorb(sponge.ctx, Rate[sponge.f], d), sponge.given + n))
    BY <2>1, <2>2, <2>3, FaithfulAbsorb
  <2>5. QED
    BY <2>2, <2>4
<1>4. ASSUME inc_finalize PROVE Faithful(sponge') /\ Faithful(other')
  <2>1. sponge' = FinalizedClient(sponge, keccak_inc_finalize(sponge.ctx, Rate[sponge.f], Domain[sponge.f]), "squeeze")
        /\ other' = other /\ sponge.phase = "absorb"
    BY <1>4, Zenon DEF inc_finalize, FinalizedClient
  <2>2. Faithful(FinalizedClient(sponge, keccak_inc_finalize(sponge.ctx, Rate[sponge.f], Domain[sponge.f]), "squeeze"))
    BY <2>1, FaithfulFinalize
  <2>3. QED
    BY <2>1, <2>2
<1>5. ASSUME sha3_inc_finalize PROVE Faithful(sponge') /\ Faithful(other')
  <2>1. PICK c : c = keccak_inc_finalize(sponge.ctx, Rate[sponge.f], Domain[sponge.f])
    OBVIOUS
  <2>2. PICK h : h = keccak_squeezeblocks(1, c.s, Rate[sponge.f]).h
    OBVIOUS
  <2>3. sponge' = Digested(sponge, SubSeq(h, 1, Digest[sponge.f]), "released")
        /\ other' = other /\ sponge.phase = "absorb"
    BY <1>5, <2>1, <2>2, Zenon DEF sha3_inc_finalize, Digested
  <2>4. Faithful(Digested(sponge, SubSeq(h, 1, Digest[sponge.f]), "released"))
    BY <2>1, <2>2, <2>3, FaithfulDigest
  <2>5. QED
    BY <2>3, <2>4
<1>6. ASSUME NEW n \in Lengths, inc_squeeze(n) PROVE Faithful(sponge') /\ Faithful(other')
  <2>1. PICK out : out = keccak_inc_squeeze(sponge.ctx, n, Rate[sponge.f])
    OBVIOUS
  <2>2. sponge' = SqueezedClient(sponge, out.ctx, sponge.got \o out.h)
        /\ other' = other /\ sponge.phase = "squeeze"
    BY <1>6, <2>1, Zenon DEF inc_squeeze, SqueezedClient
  <2>3. n \in Nat
    BY BoundsAre
  <2>4. Faithful(SqueezedClient(sponge, out.ctx, sponge.got \o out.h))
    BY <2>1, <2>2, <2>3, FaithfulSqueeze
  <2>5. QED
    BY <2>2, <2>4
<1>7. ASSUME inc_ctx_clone PROVE Faithful(sponge') /\ Faithful(other')
  BY <1>7 DEF inc_ctx_clone
<1>8. ASSUME inc_ctx_release PROVE Faithful(sponge') /\ Faithful(other')
  BY <1>8, NoSpongeGood DEF inc_ctx_release
<1>9. ASSUME NEW f \in DOMAIN Rate, NEW n \in 0 .. MaxBytes, shake_absorb(f, n)
      PROVE  Faithful(sponge') /\ Faithful(other')
  <2>1. sponge' = BegunWhole(f, "blocks", n, Context(keccak_absorb(Rate[f], Bytes("m", n), Domain[f]), 0))
        /\ other' = other /\ f \in Shake
    BY <1>9, Zenon DEF shake_absorb, BegunWhole, Context
  <2>2. n \in Nat
    BY BoundsAre
  <2>3. Faithful(BegunWhole(f, "blocks", n, Context(keccak_absorb(Rate[f], Bytes("m", n), Domain[f]), 0)))
    BY <2>1, <2>2, FaithfulBlocks
  <2>4. QED
    BY <2>1, <2>3
<1>10. ASSUME NEW t \in 0 .. 2, shake_squeezeblocks(t) PROVE Faithful(sponge') /\ Faithful(other')
  <2>1. PICK out : out = keccak_squeezeblocks(t, sponge.ctx.s, Rate[sponge.f])
    OBVIOUS
  <2>2. sponge' = SqueezedBlocks(sponge, out.s, sponge.got \o out.h)
        /\ other' = other /\ sponge.phase = "blocks"
    BY <1>10, <2>1, Zenon DEF shake_squeezeblocks, SqueezedBlocks
  <2>3. t \in Nat
    OBVIOUS
  <2>4. Faithful(SqueezedBlocks(sponge, out.s, sponge.got \o out.h))
    BY <2>1, <2>2, <2>3, FaithfulMoreBlocks
  <2>5. QED
    BY <2>2, <2>4
<1>11. ASSUME NEW f \in DOMAIN Rate, NEW n \in 0 .. MaxBytes, NEW a \in 0 .. MaxBytes, shake(f, a, n)
       PROVE  Faithful(sponge') /\ Faithful(other')
  <2>1. PICK whole : whole = keccak_squeezeblocks(a \div Rate[f],
                               keccak_absorb(Rate[f], Bytes("m", n), Domain[f]), Rate[f])
    OBVIOUS
  <2>2. PICK last : last = keccak_squeezeblocks(1, whole.s, Rate[f]).h
    OBVIOUS
  <2>3. sponge' = Done(f, "released", n, whole.h \o SubSeq(last, 1, a % Rate[f]))
        /\ other' = other /\ f \in Shake
    BY <1>11, <2>1, <2>2, Zenon DEF shake, Done
  <2>4. n \in Nat /\ a \in Nat
    BY BoundsAre
  <2>5. Faithful(Done(f, "released", n, whole.h \o SubSeq(last, 1, a % Rate[f])))
    BY <2>1, <2>2, <2>3, <2>4, FaithfulShake
  <2>6. QED
    BY <2>3, <2>5
<1>12. ASSUME NEW f \in DOMAIN Rate, NEW n \in 0 .. MaxBytes, sha3(f, n)
       PROVE  Faithful(sponge') /\ Faithful(other')
  <2>1. PICK h : h = keccak_squeezeblocks(1, keccak_absorb(Rate[f], Bytes("m", n), Domain[f]), Rate[f]).h
    OBVIOUS
  <2>2. sponge' = Done(f, "released", n, SubSeq(h, 1, Digest[f])) /\ other' = other /\ f \in Sha3
    BY <1>12, <2>1, Zenon DEF sha3, Done
  <2>3. n \in Nat
    BY BoundsAre
  <2>4. Faithful(Done(f, "released", n, SubSeq(h, 1, Digest[f])))
    BY <2>1, <2>2, <2>3, FaithfulSha3
  <2>5. QED
    BY <2>2, <2>4
<1>13. ASSUME NEW f \in DOMAIN Rate, NEW n \in 0 .. MaxBytes, NEW a \in 0 .. MaxBytes,
              NEW z \in Names, cshake(f, a, z, n)
       PROVE  Faithful(sponge') /\ Faithful(other')
  <2>1. PICK c : c = keccak_inc_absorb(cshake_inc_init(Rate[f], z), Rate[f], Bytes("m", n))
    OBVIOUS
  <2>2. PICK o : o = keccak_inc_squeeze(keccak_inc_finalize(c, Rate[f], Domain[f]), a, Rate[f]).h
    OBVIOUS
  <2>3. sponge' = DoneNamed(f, "released", n, z, o) /\ other' = other /\ f \in CShake
    BY <1>13, <2>1, <2>2, Zenon DEF cshake, DoneNamed
  <2>4. n \in Nat /\ a \in Nat /\ z \in Nat \X Nat
    BY BoundsAre
  <2>5. Faithful(DoneNamed(f, "released", n, z, o))
    BY <2>1, <2>2, <2>3, <2>4, FaithfulCShake
  <2>6. QED
    BY <2>3, <2>5
<1>14. QED
  BY <1>1, <1>2, <1>3, <1>4, <1>5, <1>6, <1>7, <1>8, <1>9, <1>10, <1>11, <1>12, <1>13
     DEF SpongeNext

LEMMA SpongeFound ==
  ASSUME Faithful(sponge)
  PROVE  SpongeAgrees
  BY FaithfulAgrees DEF SpongeAgrees
-----------------------------------------------------------------------------
LEMMA Sizes == Radix \in Nat \ {0, 1} /\ Width \in Nat \ {0} /\ BlockBytes \in Nat \ {0}
  BY DrbgAssumption

USE Sizes

(* Powers of the radix.                                                     *)
IsPlace(f) == f = [k \in 0 .. Width |-> IF k = 0 THEN 1 ELSE Radix * f[k - 1]]

LEMMA PlaceChosen == Place = CHOOSE f : IsPlace(f)
  BY DEF Place, IsPlace

LEMMA PlaceIs ==
  /\ Place[0] = 1
  /\ \A k \in 1 .. Width : Place[k] = Radix * Place[k - 1]
  /\ \A k \in 0 .. Width : Place[k] \in Nat \ {0}
<1> DEFINE step == [x \in Nat \ {0} |-> [k \in 1 .. Width |-> Radix * x]]
<1>1. Steps(Width, Nat \ {0}, step)
  BY DEF Steps
<1>2. PICK g : Iterates(Width, Nat \ {0}, 1, step, g)
  <2> HIDE DEF step
  <2>1. 1 \in Nat \ {0}
    OBVIOUS
  <2>2. QED
    BY <1>1, <2>1, Iteration
<1>3. /\ g \in [0 .. Width -> Nat \ {0}] /\ g[0] = 1
      /\ \A k \in 1 .. Width : g[k] = Radix * g[k - 1]
  <2>1. /\ g \in [0 .. Width -> Nat \ {0}] /\ g[0] = 1
        /\ \A k \in 1 .. Width : g[k] = step[g[k - 1]][k]
    <3> HIDE DEF step
    <3>1. QED
      BY <1>2 DEF Iterates
  <2>2. \A k \in 1 .. Width : k - 1 \in 0 .. Width
    OBVIOUS
  <2>3. QED
    BY <2>1, <2>2
<1>4. IsPlace(g)
  <2>1. \A k \in 0 .. Width : k # 0 => k \in 1 .. Width
    OBVIOUS
  <2>2. g = [k \in 0 .. Width |-> g[k]]
    BY <1>3
  <2>3. \A k \in 0 .. Width : g[k] = IF k = 0 THEN 1 ELSE Radix * g[k - 1]
    BY <1>3, <2>1
  <2>4. QED
    BY <2>2, <2>3 DEF IsPlace
<1>5. IsPlace(Place)
  BY <1>4, PlaceChosen
<1>6. Place[0] = 1 /\ \A k \in 1 .. Width : Place[k] = Radix * Place[k - 1]
  <2>1. 0 \in 0 .. Width /\ \A k \in 1 .. Width : k \in 0 .. Width /\ k # 0
    OBVIOUS
  <2>2. QED
    BY <1>5, <2>1 DEF IsPlace
<1>7. \A k \in 0 .. Width : Place[k] = g[k]
  <2>1. \A k \in 1 .. Width : Place[k - 1] = g[k - 1] => Place[k] = g[k]
    BY <1>3, <1>6
  <2>2. Place[0] = g[0]
    BY <1>3, <1>6
  <2>3. PICK h : h = Place
    OBVIOUS
  <2>4. \A k \in 0 .. Width : h[k] = g[k]
    BY <2>1, <2>2, <2>3, Agree
  <2>5. QED
    BY <2>3, <2>4
<1>8. QED
  BY <1>3, <1>6, <1>7

(* The byte of n that f others follow.                                      *)
ByteOf(n, f) == (n \div Place[f]) % Radix

LEMMA ByteType ==
  ASSUME NEW n \in Nat, NEW f \in 0 .. Width
  PROVE  ByteOf(n, f) \in 0 .. Radix - 1
<1>1. PICK p \in Nat \ {0} : p = Place[f]
  BY PlaceIs
<1>2. n \div p \in Nat
  BY Quotients
<1>3. QED
  BY <1>1, <1>2, Quotients DEF ByteOf

LEMMA LowBytes ==
  ASSUME NEW n \in Nat, NEW f \in 0 .. Width - 1
  PROVE  n % Place[f + 1] = Place[f] * ByteOf(n, f) + (n % Place[f])
<1>1. PICK p \in Nat \ {0} : p = Place[f] /\ Place[f + 1] = Radix * p
  <2>1. f \in 0 .. Width /\ f + 1 \in 1 .. Width /\ (f + 1) - 1 = f
    OBVIOUS
  <2>2. QED
    BY <2>1, PlaceIs
<1>2. PICK q \in Nat, u \in 0 .. p - 1 : q = n \div p /\ u = n % p /\ n = p * q + u
  BY Quotients
<1>3. PICK c \in Nat, d \in 0 .. Radix - 1 : c = q \div Radix /\ d = q % Radix /\ q = Radix * c + d
  BY Quotients
<1>4. n = (Radix * p) * c + (p * d + u)
  <2>1. p * (Radix * c + d) = (Radix * p) * c + p * d
    OBVIOUS
  <2>2. PICK x, y : x = (Radix * p) * c /\ y = p * d /\ p * q = x + y /\ x \in Nat /\ y \in Nat
    BY <1>3, <2>1
  <2>3. QED
    BY <1>2, <2>2
<1>5. PICK s \in Nat \ {0} : s = Radix * p
  OBVIOUS
<1>6. p * d + u \in 0 .. (Radix * p) - 1
  <2>1. p * (d + 1) = p * d + p /\ p * Radix = Radix * p /\ p * Radix \in Nat \ {0}
    OBVIOUS
  <2>2. PICK x \in Nat, y \in Nat : x = p * d /\ y = p * Radix /\ p * (d + 1) <= y
    BY d + 1 \in Nat, d + 1 <= Radix, Products
  <2>3. QED
    BY <2>1, <2>2
<1>7. n % s = p * d + u
  <2>1. PICK r \in 0 .. s - 1 : r = p * d + u /\ n = s * c + r
    BY <1>4, <1>5, <1>6
  <2>2. n % s = r
    BY <2>1, Divided
  <2>3. QED
    BY <2>1, <2>2
<1>8. QED
  BY <1>1, <1>2, <1>3, <1>5, <1>7 DEF ByteOf

LEMMA AllBytes ==
  ASSUME NEW a \in Nat, NEW b \in Nat, \A f \in 0 .. Width - 1 : ByteOf(a, f) = ByteOf(b, f)
  PROVE  a % Place[Width] = b % Place[Width]
<1> DEFINE T == {f \in 0 .. Width : a % Place[f] = b % Place[f]}
<1>1. 0 \in T
  <2>1. a % 1 = 0 /\ b % 1 = 0 /\ 0 \in 0 .. Width
    BY Divided
  <2>2. QED
    BY <2>1, PlaceIs
<1>2. ASSUME NEW f \in T, f < Width PROVE f + 1 \in T
  <2>1. f \in 0 .. Width - 1 /\ f + 1 \in 0 .. Width
    BY <1>2
  <2>2. a % Place[f + 1] = b % Place[f + 1]
    BY <1>2, <2>1, LowBytes
  <2>3. QED
    BY <2>1, <2>2
<1>3. T = 0 .. Width
  <2>1. T \subseteq 0 .. Width
    OBVIOUS
  <2> HIDE DEF T
  <2>2. QED
    BY <1>1, <1>2, <2>1, UpTo
<1>4. QED
  BY <1>3

(* The bytes behind have wrapped if all of them have their largest value.   *)
LEMMA Wrapped ==
  ASSUME NEW n \in Nat, NEW e \in 0 .. Width
  PROVE  (\A f \in 0 .. e - 1 : ByteOf(n, f) = Radix - 1) <=> n % Place[e] = Place[e] - 1
<1> DEFINE Top(k) == \A f \in 0 .. k - 1 : ByteOf(n, f) = Radix - 1
           T == {k \in 0 .. Width : Top(k) <=> n % Place[k] = Place[k] - 1}
<1>1. 0 \in T
  <2>1. n % 1 = 0
    BY Divided
  <2>2. QED
    BY <2>1, PlaceIs
<1>2. ASSUME NEW k \in T, k < Width PROVE k + 1 \in T
  <2>1. k \in 0 .. Width - 1 /\ k + 1 \in 0 .. Width /\ k + 1 \in 1 .. Width /\ (k + 1) - 1 = k
    BY <1>2
  <2>2. PICK p \in Nat \ {0} : p = Place[k] /\ Place[k + 1] = Radix * p
    BY <2>1, PlaceIs
  <2>3. PICK d \in 0 .. Radix - 1 : d = ByteOf(n, k)
    BY <2>1, ByteType
  <2>4. PICK u \in 0 .. p - 1 : u = n % p
    BY Quotients
  <2>5. n % Place[k + 1] = p * d + u
    BY <2>1, <2>2, <2>3, <2>4, LowBytes
  <2>6. p * d + u = Radix * p - 1 <=> d = Radix - 1 /\ u = p - 1
    <3>1. ASSUME d < Radix - 1 PROVE p * d + u # Radix * p - 1
      <4>1. p * (d + 2) = p * d + p + p /\ p * Radix = Radix * p /\ p * d \in Nat
        OBVIOUS
      <4>2. PICK x \in Nat, y \in Nat : x = p * d /\ y = p * Radix /\ x + p <= y - p
        <5>1. d + 2 \in Nat /\ d + 2 <= Radix
          BY <3>1
        <5>2. p * (d + 2) <= p * Radix
          BY <5>1, Products
        <5>3. p * d \in Nat /\ p * Radix \in Nat
          OBVIOUS
        <5>4. QED
          BY <4>1, <5>2, <5>3
      <4>3. QED
        BY <4>1, <4>2
    <3>2. ASSUME d = Radix - 1 PROVE p * d = Radix * p - p
      BY <3>2
    <3>3. Radix * p \in Nat
      OBVIOUS
    <3>4. CASE d = Radix - 1
      <4>1. PICK y \in Nat : y = Radix * p /\ p * d = y - p
        BY <3>2, <3>3, <3>4
      <4>2. QED
        BY <3>4, <4>1
    <3>5. QED
      BY <3>1, <3>4
  <2>7. Top(k + 1) <=> Top(k) /\ ByteOf(n, k) = Radix - 1
    <3>1. 0 .. (k + 1) - 1 = (0 .. k - 1) \cup {k}
      BY <2>1
    <3>2. QED
      BY <3>1
  <2> HIDE DEF Top
  <2>8. QED
    BY <1>2, <2>1, <2>2, <2>3, <2>4, <2>5, <2>6, <2>7
<1>3. T = 0 .. Width
  <2>1. T \subseteq 0 .. Width
    OBVIOUS
  <2> HIDE DEF T
  <2>2. QED
    BY <1>1, <1>2, <2>1, UpTo
<1>4. QED
  BY <1>3

-----------------------------------------------------------------------------
(* Counters are numbers, modulo what they can count.                        *)
LEMMA DigitsAreBytes ==
  ASSUME NEW n \in Nat
  PROVE  /\ Digits(n) \in Counters
         /\ \A j \in 1 .. Width : Width - j \in 0 .. Width - 1 /\ Digits(n)[j] = ByteOf(n, Width - j)
<1>1. \A j \in 1 .. Width : Width - j \in 0 .. Width - 1 /\ Width - j \in 0 .. Width
  OBVIOUS
<1>2. \A j \in 1 .. Width : ByteOf(n, Width - j) \in 0 .. Radix - 1
  BY <1>1, ByteType
<1>3. Digits(n) = [j \in 1 .. Width |-> ByteOf(n, Width - j)]
  BY DEF Digits, ByteOf
<1>4. QED
  BY <1>1, <1>2, <1>3 DEF Counters

LEMMA NextQuotient ==
  ASSUME NEW p \in Nat \ {0}, NEW n \in Nat
  PROVE  (n + 1) \div p = IF n % p = p - 1 THEN (n \div p) + 1 ELSE n \div p
<1>1. PICK q \in Nat, u \in 0 .. p - 1 : q = n \div p /\ u = n % p /\ n = p * q + u
  BY Quotients
<1>2. CASE u = p - 1
  <2>1. p * (q + 1) = p * q + p /\ p * q \in Nat
    OBVIOUS
  <2>2. PICK m \in Nat : m = n + 1 /\ m = p * q + p
    BY <1>1, <1>2, <2>1
  <2>3. PICK k \in Nat : k = q + 1 /\ m = p * k + 0 /\ 0 \in 0 .. p - 1
    BY <2>1, <2>2
  <2>4. m \div p = k
    BY <2>3, Divided
  <2>5. QED
    BY <1>1, <1>2, <2>2, <2>3, <2>4
<1>3. CASE u # p - 1
  <2>1. u + 1 \in 0 .. p - 1 /\ p * q \in Nat
    BY <1>3
  <2>2. n + 1 = p * q + (u + 1)
    BY <1>1, <2>1
  <2>3. (n + 1) \div p = q
    BY <2>1, <2>2, Divided
  <2>4. QED
    BY <1>1, <1>3, <2>3
<1>4. QED
  BY <1>2, <1>3

LEMMA NextRemainder ==
  ASSUME NEW r \in Nat \ {0}, NEW q \in Nat
  PROVE  (q + 1) % r = ((q % r) + 1) % r
<1>1. PICK c \in Nat, d \in 0 .. r - 1 : c = q \div r /\ d = q % r /\ q = r * c + d
  BY Quotients
<1>2. CASE d = r - 1
  <2>1. r * (c + 1) = r * c + r /\ r * c \in Nat /\ r * 1 = r
    OBVIOUS
  <2>2. PICK m \in Nat : m = q + 1 /\ m = r * c + r
    <3>1. PICK x \in Nat : x = r * c /\ q = x + d
      BY <1>1, <2>1
    <3>2. QED
      BY <1>2, <3>1
  <2>3. PICK k \in Nat : k = c + 1 /\ m = r * k + 0 /\ 0 \in 0 .. r - 1
    BY <2>1, <2>2
  <2>4. PICK e \in Nat : e = d + 1 /\ e = r * 1 + 0
    BY <1>2
  <2>5. m % r = 0
    BY <2>3, Divided
  <2>6. e % r = 0
    BY <2>3, <2>4, Divided
  <2>7. QED
    BY <1>1, <2>2, <2>4, <2>5, <2>6
<1>3. CASE d # r - 1
  <2>1. d + 1 \in 0 .. r - 1 /\ r * c \in Nat /\ r * 0 = 0
    BY <1>3
  <2>2. PICK e \in 0 .. r - 1 : e = d + 1 /\ e = r * 0 + e
    BY <2>1
  <2>3. PICK m \in Nat : m = q + 1 /\ m = r * c + e
    BY <1>1, <2>1, <2>2
  <2>4. m % r = e
    <3>1. m = r * c + e
      BY <2>3
    <3>2. QED
      BY <3>1, Divided
  <2>5. e % r = e
    BY <2>2, Divided
  <2>6. QED
    BY <1>1, <2>2, <2>3, <2>4, <2>5
<1>4. QED
  BY <1>2, <1>3

LEMMA IncrementAdds ==
  ASSUME NEW n \in Nat
  PROVE  Increment(Digits(n)) = Digits(n + 1)
<1> DEFINE v == Digits(n)
           w == Digits(n + 1)
<1>1. /\ \A j \in 1 .. Width : Width - j \in 0 .. Width - 1 /\ v[j] = ByteOf(n, Width - j)
      /\ \A j \in 1 .. Width : w[j] = ByteOf(n + 1, Width - j)
      /\ w \in [1 .. Width -> 0 .. Radix - 1]
  BY n + 1 \in Nat, DigitsAreBytes DEF Counters
<1>2. ASSUME NEW j \in 1 .. Width
      PROVE  (\A i \in j + 1 .. Width : v[i] = Radix - 1)
               <=> n % Place[Width - j] = Place[Width - j] - 1
  <2>1. \A i \in j + 1 .. Width : i \in 1 .. Width /\ Width - i \in 0 .. Width - j - 1
    OBVIOUS
  <2>2. \A f \in 0 .. Width - j - 1 : Width - f \in j + 1 .. Width /\ Width - (Width - f) = f
    OBVIOUS
  <2>3. (\A i \in j + 1 .. Width : v[i] = Radix - 1)
          <=> \A f \in 0 .. Width - j - 1 : ByteOf(n, f) = Radix - 1
    <3>1. ASSUME \A i \in j + 1 .. Width : v[i] = Radix - 1, NEW f \in 0 .. Width - j - 1
          PROVE  ByteOf(n, f) = Radix - 1
      <4>1. PICK i \in j + 1 .. Width : i = Width - f /\ Width - i = f
        BY <2>2
      <4>2. QED
        BY <1>1, <2>1, <3>1, <4>1
    <3>2. ASSUME \A f \in 0 .. Width - j - 1 : ByteOf(n, f) = Radix - 1, NEW i \in j + 1 .. Width
          PROVE  v[i] = Radix - 1
      BY <1>1, <2>1, <3>2
    <3>3. QED
      BY <3>1, <3>2
  <2>4. Width - j \in 0 .. Width
    OBVIOUS
  <2>5. QED
    BY <2>3, <2>4, Wrapped
<1>3. ASSUME NEW j \in 1 .. Width
      PROVE  w[j] = IF \A i \in j + 1 .. Width : v[i] = Radix - 1 THEN (v[j] + 1) % Radix ELSE v[j]
  <2>1. Width - j \in 0 .. Width
    OBVIOUS
  <2>2. PICK p \in Nat \ {0} : p = Place[Width - j]
    BY <2>1, PlaceIs
  <2>3. n \div p \in Nat
    BY Quotients
  <2>4. CASE n % p = p - 1
    <3>1. w[j] = ((n \div p) + 1) % Radix
      BY <1>1, <2>2, <2>4, NextQuotient DEF ByteOf
    <3>2. v[j] = (n \div p) % Radix
      BY <1>1, <2>2 DEF ByteOf
    <3>3. ((n \div p) + 1) % Radix = (((n \div p) % Radix) + 1) % Radix
      BY <2>3, NextRemainder
    <3>4. \A i \in j + 1 .. Width : v[i] = Radix - 1
      BY <1>2, <2>2, <2>4
    <3> HIDE DEF v, w
    <3>5. QED
      BY <3>1, <3>2, <3>3, <3>4
  <2>5. CASE n % p # p - 1
    <3>1. w[j] = v[j]
      BY <1>1, <2>2, <2>5, NextQuotient DEF ByteOf
    <3>2. ~(\A i \in j + 1 .. Width : v[i] = Radix - 1)
      BY <1>2, <2>2, <2>5
    <3> HIDE DEF v, w
    <3>3. QED
      BY <3>1, <3>2
  <2>6. QED
    BY <2>4, <2>5
<1> HIDE DEF v, w
<1>4. w = [j \in 1 .. Width |-> w[j]]
  BY <1>1
<1>5. QED
  BY <1>3, <1>4 DEF Increment, v, w

(* The first e bytes of v are those of a number.                            *)
FirstBytesAre(v, e, a) == \A f \in 0 .. e - 1 : ByteOf(a, f) = v[e - f]

LEMMA ByteBefore ==
  ASSUME NEW a \in Nat, NEW d \in 0 .. Radix - 1, NEW f \in 1 .. Width
  PROVE  ByteOf(Radix * a + d, f) = ByteOf(a, f - 1)
<1>1. PICK p \in Nat \ {0} : p = Place[f - 1] /\ Place[f] = Radix * p
  <2>1. f - 1 \in 0 .. Width
    OBVIOUS
  <2>2. QED
    BY <2>1, PlaceIs
<1>2. PICK q \in Nat, u \in 0 .. p - 1 : q = a \div p /\ a = p * q + u
  BY Quotients
<1>3. Radix * a + d = (Radix * p) * q + (Radix * u + d)
  <2>1. Radix * (p * q + u) = (Radix * p) * q + Radix * u
    OBVIOUS
  <2>2. PICK x \in Nat, y \in Nat : x = (Radix * p) * q /\ y = Radix * u /\ Radix * a = x + y
    BY <1>2, <2>1
  <2>3. QED
    BY <2>2
<1>4. Radix * p \in Nat \ {0} /\ Radix * u + d \in 0 .. (Radix * p) - 1
  <2>1. Radix * (u + 1) = Radix * u + Radix /\ Radix * u \in Nat /\ Radix * p \in Nat \ {0}
    OBVIOUS
  <2>2. u + 1 \in Nat /\ u + 1 <= p
    OBVIOUS
  <2>3. PICK x \in Nat, y \in Nat : x = Radix * u /\ y = Radix * p /\ Radix * (u + 1) <= y
    BY <2>1, <2>2, Products
  <2>4. QED
    BY <2>1, <2>3
<1>5. (Radix * a + d) \div (Radix * p) = q
  BY <1>3, <1>4, Divided
<1>6. QED
  BY <1>1, <1>2, <1>5 DEF ByteOf

LEMMA LastByte ==
  ASSUME NEW a \in Nat, NEW d \in 0 .. Radix - 1
  PROVE  ByteOf(Radix * a + d, 0) = d
<1>1. Radix * a + d \in Nat /\ \A n \in Nat : n \div 1 = n
  <2>1. \A n \in Nat : n = 1 * n + 0 /\ 0 \in 0 .. 0
    OBVIOUS
  <2>2. QED
    BY <2>1, Divided
<1>2. (Radix * a + d) % Radix = d
  BY Divided
<1>3. QED
  BY <1>1, <1>2, PlaceIs DEF ByteOf

LEMMA SomeNumber ==
  ASSUME NEW v \in Counters
  PROVE  \E a \in Nat : v = Digits(a)
<1> DEFINE T == {e \in 0 .. Width : \E a \in Nat : FirstBytesAre(v, e, a)}
<1>1. 0 \in T
  BY DEF FirstBytesAre
<1>2. ASSUME NEW e \in T, e < Width PROVE e + 1 \in T
  <2>1. PICK a \in Nat : FirstBytesAre(v, e, a)
    OBVIOUS
  <2>2. PICK d \in 0 .. Radix - 1 : d = v[e + 1]
    BY <1>2 DEF Counters
  <2>3. PICK b \in Nat : b = Radix * a + d
    OBVIOUS
  <2>4. ASSUME NEW f \in 0 .. e PROVE ByteOf(b, f) = v[e + 1 - f]
    <3>1. CASE f = 0
      BY <2>2, <2>3, <3>1, LastByte
    <3>2. CASE f # 0
      <4>1. f \in 1 .. Width /\ f - 1 \in 0 .. e - 1 /\ e - (f - 1) = e + 1 - f
        BY <1>2, <3>2
      <4>2. ByteOf(a, f - 1) = v[e + 1 - f]
        BY <2>1, <4>1 DEF FirstBytesAre
      <4>3. QED
        BY <2>3, <4>1, <4>2, ByteBefore
    <3>3. QED
      BY <3>1, <3>2
  <2>5. FirstBytesAre(v, e + 1, b)
    <3>1. (e + 1) - 1 = e
      BY <1>2
    <3>2. QED
      BY <2>4, <3>1 DEF FirstBytesAre
  <2>6. QED
    BY <1>2, <2>5
<1>3. T = 0 .. Width
  <2>1. T \subseteq 0 .. Width
    OBVIOUS
  <2> HIDE DEF T
  <2>2. QED
    BY <1>1, <1>2, <2>1, UpTo
<1>4. PICK a \in Nat : FirstBytesAre(v, Width, a)
  BY <1>3
<1>5. ASSUME NEW j \in 1 .. Width PROVE v[j] = Digits(a)[j]
  <2>1. Width - j \in 0 .. Width - 1 /\ Width - (Width - j) = j
    OBVIOUS
  <2>2. QED
    BY <1>4, <2>1, DigitsAreBytes DEF FirstBytesAre
<1>6. v \in [1 .. Width -> 0 .. Radix - 1] /\ Digits(a) \in [1 .. Width -> 0 .. Radix - 1]
  BY DigitsAreBytes DEF Counters
<1>7. QED
  BY <1>5, <1>6

(* Counters that are less than all counters apart differ.                   *)
LEMMA CountersDiffer ==
  ASSUME NEW a \in Nat, NEW b \in Nat, a < b, b < a + Place[Width]
  PROVE  Digits(a) # Digits(b)
<1>1. PICK p \in Nat \ {0} : p = Place[Width]
  BY PlaceIs
<1>2. SUFFICES ASSUME Digits(a) = Digits(b) PROVE FALSE
  OBVIOUS
<1>3. \A f \in 0 .. Width - 1 : ByteOf(a, f) = ByteOf(b, f)
  <2>1. ASSUME NEW f \in 0 .. Width - 1 PROVE ByteOf(a, f) = ByteOf(b, f)
    <3>1. PICK j \in 1 .. Width : j = Width - f /\ Width - j = f
      OBVIOUS
    <3>2. QED
      BY <1>2, <3>1, DigitsAreBytes
  <2>2. QED
    BY <2>1
<1>4. a % p = b % p
  BY <1>1, <1>3, AllBytes
<1>5. PICK q \in Nat, u \in 0 .. p - 1 : a = p * q + u /\ u = a % p
  BY Quotients
<1>6. PICK k \in Nat : b = p * k + u
  BY <1>4, <1>5, Quotients
<1>7. p * q \in Nat /\ p * k \in Nat
  OBVIOUS
<1>8. CASE k <= q
  <2>1. PICK x \in Nat, y \in Nat : x = p * k /\ y = p * q /\ x <= y
    BY <1>7, <1>8, Products
  <2>2. QED
    BY <1>5, <1>6, <2>1
<1>9. CASE q < k
  <2>1. q + 1 \in Nat /\ q + 1 <= k /\ p * (q + 1) = p * q + p
    BY <1>9
  <2>2. PICK x \in Nat, y \in Nat, z \in Nat : x = p * q /\ y = p * (q + 1) /\ z = p * k /\ y <= z
    BY <1>7, <2>1, Products
  <2>3. QED
    BY <1>1, <1>5, <1>6, <2>1, <2>2
<1>10. QED
  BY <1>8, <1>9

IsCount(V, n, f) == f = [k \in 0 .. n |-> IF k = 0 THEN V ELSE Increment(f[k - 1])]

Counted(V, n) == CHOOSE f : IsCount(V, n, f)

LEMMA AfterIsCounted == \A V, n : After(V, n) = Counted(V, n)[n]
  BY DEF After, Counted, IsCount

LEMMA AfterAdds ==
  ASSUME NEW a \in Nat, NEW n \in Nat
  PROVE  After(Digits(a), n) = Digits(a + n)
<1> DEFINE g == [k \in 0 .. n |-> Digits(a + k)]
           f == Counted(Digits(a), n)
<1>1. ASSUME NEW k \in 1 .. n PROVE g[k] = Increment(g[k - 1])
  <2>1. k - 1 \in 0 .. n /\ a + (k - 1) \in Nat /\ (a + (k - 1)) + 1 = a + k /\ k \in 0 .. n
    OBVIOUS
  <2>2. g[k] = Digits(a + k) /\ g[k - 1] = Digits(a + (k - 1))
    BY <2>1
  <2>3. QED
    <3> HIDE DEF g
    <3>1. QED
      BY <2>1, <2>2, IncrementAdds
<1>2. g[0] = Digits(a)
  <2>1. a + 0 = a /\ 0 \in 0 .. n
    OBVIOUS
  <2>2. QED
    BY <2>1
<1>3. IsCount(Digits(a), n, g)
  <2>1. \A k \in 0 .. n : g[k] = IF k = 0 THEN Digits(a) ELSE Increment(g[k - 1])
    <3>1. \A k \in 0 .. n : k # 0 => k \in 1 .. n
      OBVIOUS
    <3> HIDE DEF g
    <3>2. QED
      BY <1>1, <1>2, <3>1
  <2>2. g = [k \in 0 .. n |-> g[k]]
    OBVIOUS
  <2> HIDE DEF g
  <2>3. QED
    BY <2>1, <2>2 DEF IsCount
<1>4. IsCount(Digits(a), n, f)
  BY <1>3 DEF Counted
<1> HIDE DEF f, g
<1>5. f[0] = Digits(a) /\ \A k \in 1 .. n : f[k] = Increment(f[k - 1])
  <2>1. 0 \in 0 .. n /\ \A k \in 1 .. n : k \in 0 .. n /\ k # 0
    OBVIOUS
  <2>2. QED
    BY <1>4, <2>1 DEF IsCount
<1>6. \A k \in 1 .. n : f[k - 1] = g[k - 1] => f[k] = g[k]
  BY <1>1, <1>5
<1>7. \A k \in 0 .. n : f[k] = g[k]
  <2>1. f[0] = g[0]
    BY <1>2, <1>5
  <2>2. QED
    BY <1>6, <2>1, Agree
<1>8. f[n] = Digits(a + n)
  <2>1. n \in 0 .. n
    OBVIOUS
  <2>2. QED
    BY <1>7, <2>1 DEF g
<1>9. QED
  BY <1>8, AfterIsCounted DEF f

-----------------------------------------------------------------------------
(* The generator.                                                           *)
LEMMA DistinctConcat ==
  ASSUME NEW S, NEW s \in Seq(S), NEW t \in Seq(S), Distinct(s), Distinct(t),
         \A i \in 1 .. Len(s), j \in 1 .. Len(t) : s[i] # t[j]
  PROVE  Distinct(s \o t)
<1> DEFINE u == s \o t
<1>1. /\ Len(s) \in Nat /\ Len(t) \in Nat
      /\ \A i \in 1 .. Len(s) : u[i] = s[i]
      /\ \A k \in 1 .. Len(t) : u[Len(s) + k] = t[k]
      /\ \A i \in 1 .. Len(u) : i \in 1 .. Len(s) \/ \E k \in 1 .. Len(t) : i = Len(s) + k
  BY Concatenated
<1> HIDE DEF u
<1>2. ASSUME NEW i \in 1 .. Len(u), NEW j \in 1 .. Len(u), u[i] = u[j]
      PROVE  i = j
  <2>1. CASE i \in 1 .. Len(s) /\ j \in 1 .. Len(s)
    BY <1>1, <1>2, <2>1 DEF Distinct
  <2>2. ASSUME i \in 1 .. Len(s), NEW k \in 1 .. Len(t), j = Len(s) + k PROVE FALSE
    BY <1>1, <1>2, <2>2
  <2>3. ASSUME j \in 1 .. Len(s), NEW k \in 1 .. Len(t), i = Len(s) + k PROVE FALSE
    BY <1>1, <1>2, <2>3
  <2>4. ASSUME NEW k \in 1 .. Len(t), i = Len(s) + k, NEW l \in 1 .. Len(t), j = Len(s) + l
        PROVE  i = j
    <3>1. t[k] = t[l]
      BY <1>1, <1>2, <2>4
    <3>2. k = l
      BY <3>1 DEF Distinct
    <3>3. QED
      BY <2>4, <3>2
  <2>5. QED
    BY <1>1, <2>1, <2>2, <2>3, <2>4
<1>3. QED
  BY <1>2 DEF Distinct, u

(* The n queries of key ky that follow the number a.                         *)
Query(ky, a)      == <<ky, Digits(a)>>
Queries(ky, a, n) == [k \in 1 .. n |-> Query(ky, a + k)]

LEMMA QueriesDiffer ==
  ASSUME NEW ky, NEW a \in Nat, NEW b \in Nat, a # b, a < b + Place[Width], b < a + Place[Width]
  PROVE  Query(ky, a) # Query(ky, b)
<1>1. Digits(a) # Digits(b)
  BY CountersDiffer
<1>2. QED
  BY <1>1 DEF Query

LEMMA QueriesDistinct ==
  ASSUME NEW S, NEW ky \in S, NEW a \in Nat, NEW n \in Nat, n <= Place[Width]
  PROVE  /\ Queries(ky, a, n) \in Seq(S \X Counters) /\ Len(Queries(ky, a, n)) = n
         /\ \A k \in 1 .. n : Queries(ky, a, n)[k] = Query(ky, a + k)
         /\ Distinct(Queries(ky, a, n))
<1>1. \A k \in 1 .. n : Query(ky, a + k) \in S \X Counters
  BY DigitsAreBytes DEF Query
<1>2. /\ Queries(ky, a, n) \in Seq(S \X Counters) /\ Len(Queries(ky, a, n)) = n
      /\ \A k \in 1 .. n : Queries(ky, a, n)[k] = Query(ky, a + k)
  BY <1>1 DEF Queries
<1>3. PICK p \in Nat \ {0} : p = Place[Width]
  BY PlaceIs
<1>4. ASSUME NEW i \in 1 .. n, NEW j \in 1 .. n, i # j
      PROVE  Query(ky, a + i) # Query(ky, a + j)
  <2>1. /\ a + i \in Nat /\ a + j \in Nat /\ a + i # a + j
        /\ a + i < (a + j) + Place[Width] /\ a + j < (a + i) + Place[Width]
    BY <1>3, <1>4
  <2>2. QED
    BY <2>1, QueriesDiffer
<1>5. QED
  BY <1>2, <1>4 DEF Distinct

KeyBlocks == Nat \X Counters

(* What was asked and given while the keys before ky were in use.            *)
UpToKey(ky) ==
  /\ asked \in Seq(KeyBlocks) /\ Distinct(asked)
  /\ given \in Seq(KeyBlocks \X Nat) /\ Distinct(given)
  /\ \A i \in 1 .. Len(asked) : asked[i][1] < ky
  /\ \A i \in 1 .. Len(given) : given[i][1][1] < ky
  /\ installed \subseteq KeyBlocks /\ \A q \in installed : q[1] < ky
  /\ \A i \in 1 .. Len(given) : given[i][1] \notin installed

LEMMA UpdateInv ==
  ASSUME NEW ky \in Nat, UpToKey(ky), NEW a \in Nat, NEW n \in Nat,
         n + 3 <= Place[Width],
         AES256_CTR_DRBG_Update(ky, Digits(a + n), Queries(ky, a, n))
  PROVE  /\ \E start \in Counters : DRBG_ctx' = [Key |-> ky + 1, V |-> start]
         /\ asked' \in Seq(KeyBlocks) /\ Distinct(asked')
         /\ \A i \in 1 .. Len(asked') : asked'[i][1] < ky + 1
         /\ installed' = installed \cup {Query(ky, a + n + i) : i \in 1 .. 3}
<1> DEFINE temp == Queries(ky, a + n, 3)
           before == Queries(ky, a, n)
           both == asked \o before
<1>1. ky \in Nat
  OBVIOUS
<1>2. \A i \in 1 .. 3 : After(Digits(a + n), i) = Digits(a + n + i)
  <2>1. a + n \in Nat /\ \A i \in 1 .. 3 : i \in Nat
    OBVIOUS
  <2>2. QED
    BY <2>1, AfterAdds, Zenon
<1>3. /\ \E start \in Starts : DRBG_ctx' = [Key |-> ky + 1, V |-> start]
      /\ asked' = both \o temp
      /\ installed' = installed \cup {Query(ky, a + n + i) : i \in 1 .. 3}
  <2>1. [i \in 1 .. 3 |-> <<ky, After(Digits(a + n), i)>>] = temp
    BY <1>2 DEF Query, Queries
  <2>2. /\ \E start \in Starts : DRBG_ctx' = [Key |-> ky + 1, V |-> start]
        /\ asked' = (asked \o before) \o temp
        /\ installed' = installed \cup {temp[i] : i \in 1 .. 3}
    BY <2>1 DEF AES256_CTR_DRBG_Update
  <2>3. {temp[i] : i \in 1 .. 3} = {Query(ky, a + n + i) : i \in 1 .. 3}
    BY DEF Queries
  <2>4. QED
    BY <2>2, <2>3
<1>4. PICK p \in Nat \ {0} : p = Place[Width]
  BY PlaceIs
<1>5. /\ before \in Seq(Nat \X Counters) /\ Len(before) = n /\ Distinct(before)
      /\ \A k \in 1 .. n : before[k] = Query(ky, a + k)
  <2>1. n <= Place[Width]
    BY <1>4
  <2>2. before \in Seq(Nat \X Counters) /\ Len(before) = n /\ Distinct(before)
    BY <1>1, <2>1, QueriesDistinct
  <2>3. \A k \in 1 .. n : before[k] = Query(ky, a + k)
    BY DEF Queries
  <2>4. QED
    BY <2>2, <2>3
<1>6. /\ temp \in Seq(Nat \X Counters) /\ Len(temp) = 3 /\ Distinct(temp)
      /\ \A k \in 1 .. 3 : temp[k] = Query(ky, a + n + k)
  <2>1. a + n \in Nat /\ 3 \in Nat /\ 3 <= Place[Width]
    BY <1>4
  <2>2. temp \in Seq(Nat \X Counters)
    BY <1>1, <2>1, QueriesDistinct
  <2>3. Len(temp) = 3
    BY DEF Queries
  <2>4. Distinct(temp)
    BY <1>1, <2>1, QueriesDistinct
  <2>5. \A k \in 1 .. 3 : temp[k] = Query(ky, a + n + k)
    BY DEF Queries
  <2>6. QED
    BY <2>2, <2>3, <2>4, <2>5
<1> HIDE DEF temp, before, both
<1>7. /\ before \in Seq(KeyBlocks) /\ temp \in Seq(KeyBlocks)
      /\ \A k \in 1 .. n : before[k][1] = ky
      /\ \A k \in 1 .. 3 : temp[k][1] = ky
  <2>1. \A k \in Nat : Query(ky, k)[1] = ky
    BY DEF Query
  <2>2. (\A k \in 1 .. n : a + k \in Nat) /\ \A k \in 1 .. 3 : a + n + k \in Nat
    OBVIOUS
  <2>3. QED
    BY <1>5, <1>6, <2>1, <2>2 DEF KeyBlocks
<1>8. /\ asked \in Seq(KeyBlocks) /\ Distinct(asked) /\ Len(asked) \in Nat
      /\ \A i \in 1 .. Len(asked) : asked[i][1] < ky
  <2>1. asked \in Seq(KeyBlocks) /\ Distinct(asked)
    BY DEF UpToKey
  <2>2. Len(asked) \in Nat
    BY <2>1
  <2>3. \A i \in 1 .. Len(asked) : asked[i][1] < ky
    BY DEF UpToKey
  <2>4. QED
    BY <2>1, <2>2, <2>3
<1>9. /\ both \in Seq(KeyBlocks) /\ Distinct(both) /\ Len(both) \in Nat
      /\ \A i \in 1 .. Len(both) :
           (both[i] \in KeyBlocks /\ both[i][1] < ky) \/ \E k \in 1 .. n : both[i] = Query(ky, a + k)
  <2>1. \A i \in 1 .. Len(asked), j \in 1 .. Len(before) : asked[i] # before[j]
    <3>1. ASSUME NEW i \in 1 .. Len(asked), NEW j \in 1 .. n, asked[i] = before[j] PROVE FALSE
      <4>1. asked[i][1] < ky /\ asked[i][1] = ky
        BY <1>7, <1>8, <3>1
      <4>2. QED
        BY <1>1, <4>1
    <3>2. QED
      BY <1>5, <3>1
  <2>2. Distinct(both)
    BY <1>5, <1>7, <1>8, <2>1, DistinctConcat DEF both
  <2>3. /\ both \in Seq(KeyBlocks) /\ Len(both) \in Nat
        /\ \A i \in 1 .. Len(asked) : both[i] = asked[i]
        /\ \A k \in 1 .. n : both[Len(asked) + k] = before[k]
        /\ \A i \in 1 .. Len(both) :
             i \in 1 .. Len(asked) \/ \E k \in 1 .. n : i = Len(asked) + k
    <3>1. Len(both) \in Nat
      BY <1>7, <1>8 DEF both
    <3>2. /\ both \in Seq(KeyBlocks)
          /\ \A i \in 1 .. Len(asked) : both[i] = asked[i]
          /\ \A k \in 1 .. Len(before) : both[Len(asked) + k] = before[k]
          /\ \A i \in 1 .. Len(both) :
               i \in 1 .. Len(asked) \/ \E k \in 1 .. Len(before) : i = Len(asked) + k
      BY <1>7, <1>8, Concatenated DEF both
    <3>3. QED
      BY <1>5, <3>1, <3>2, Zenon
  <2>4. \A i \in 1 .. Len(asked) : asked[i] \in KeyBlocks
    BY <1>8
  <2>5. ASSUME NEW i \in 1 .. Len(both)
        PROVE  (both[i] \in KeyBlocks /\ both[i][1] < ky) \/ \E k \in 1 .. n : both[i] = Query(ky, a + k)
    <3>1. CASE i \in 1 .. Len(asked)
      BY <1>8, <2>3, <2>4, <3>1, Zenon
    <3>2. ASSUME NEW k \in 1 .. n, i = Len(asked) + k PROVE both[i] = Query(ky, a + k)
      BY <1>5, <2>3, <3>2
    <3>3. QED
      BY <2>3, <3>1, <3>2, Zenon
  <2>6. QED
    BY <2>2, <2>3, <2>5, Zenon
<1>10. \A i \in 1 .. Len(both), j \in 1 .. Len(temp) : both[i] # temp[j]
  <2>1. ASSUME NEW i \in 1 .. Len(both), NEW j \in 1 .. 3, both[i] = temp[j] PROVE FALSE
    <3>1. PICK k \in 1 .. n : both[i] = Query(ky, a + k)
      <4>1. ~(both[i][1] < ky)
        BY <1>1, <1>7, <2>1, SMTT(30)
      <4>2. QED
        BY <1>9, <4>1
    <3>2. /\ a + k \in Nat /\ a + n + j \in Nat /\ a + k # a + n + j
          /\ a + k < (a + n + j) + Place[Width] /\ a + n + j < (a + k) + Place[Width]
      BY <1>4, SMTT(30)
    <3>3. Query(ky, a + k) # Query(ky, a + n + j)
      BY <3>2, QueriesDiffer
    <3>4. QED
      BY <1>6, <2>1, <3>1, <3>3
  <2>2. QED
    BY <1>6, <2>1
<1>11. Distinct(asked') /\ asked' \in Seq(KeyBlocks)
  <2>1. Distinct(both \o temp)
    BY <1>6, <1>7, <1>9, <1>10, DistinctConcat
  <2>2. both \o temp \in Seq(KeyBlocks)
    BY <1>7, <1>9
  <2>3. QED
    BY <1>3, <2>1, <2>2
<1>12. \A i \in 1 .. Len(asked') : asked'[i][1] < ky + 1
  <2>1. /\ \A i \in 1 .. Len(both) : (both \o temp)[i] = both[i]
        /\ \A k \in 1 .. 3 : (both \o temp)[Len(both) + k] = temp[k]
        /\ \A i \in 1 .. Len(both \o temp) :
             i \in 1 .. Len(both) \/ \E k \in 1 .. 3 : i = Len(both) + k
    <3>1. /\ \A i \in 1 .. Len(both) : (both \o temp)[i] = both[i]
          /\ \A k \in 1 .. Len(temp) : (both \o temp)[Len(both) + k] = temp[k]
          /\ \A i \in 1 .. Len(both \o temp) :
               i \in 1 .. Len(both) \/ \E k \in 1 .. Len(temp) : i = Len(both) + k
      BY <1>7, <1>9, Concatenated
    <3>2. QED
      BY <1>6, <3>1, Zenon
  <2>2. \A i \in 1 .. Len(both) : both[i][1] < ky + 1
    <3>1. \A k \in 1 .. n : Query(ky, a + k)[1] = ky
      BY DEF Query
    <3>2. \A b \in KeyBlocks : b[1] \in Nat
      BY DEF KeyBlocks
    <3>3. \A x \in Nat : x < ky => x < ky + 1
      BY <1>1
    <3>4. ky < ky + 1
      BY <1>1
    <3>5. ASSUME NEW i \in 1 .. Len(both) PROVE both[i][1] < ky + 1
      <4>1. CASE both[i] \in KeyBlocks /\ both[i][1] < ky
        BY <3>2, <3>3, <4>1
      <4>2. ASSUME NEW k \in 1 .. n, both[i] = Query(ky, a + k) PROVE both[i][1] < ky + 1
        BY <3>1, <3>4, <4>2
      <4>3. QED
        BY <1>9, <4>1, <4>2
    <3>6. QED
      BY <3>5
  <2>3. \A k \in 1 .. 3 : temp[k][1] < ky + 1
    BY <1>1, <1>7, SMTT(30)
  <2>4. \A i \in 1 .. Len(both \o temp) : (both \o temp)[i][1] < ky + 1
    <3>1. ASSUME NEW i \in 1 .. Len(both \o temp) PROVE (both \o temp)[i][1] < ky + 1
      <4>1. CASE i \in 1 .. Len(both)
        BY <2>1, <2>2, <4>1, Zenon
      <4>2. CASE \E k \in 1 .. 3 : i = Len(both) + k
        BY <2>1, <2>3, <4>2, Zenon
      <4>3. QED
        BY <2>1, <4>1, <4>2, Zenon
    <3>2. QED
      BY <3>1, Zenon
  <2>5. QED
    BY <1>3, <2>4
<1>13. \E start \in Counters : DRBG_ctx' = [Key |-> ky + 1, V |-> start]
  <2>1. Starts \subseteq Counters
    BY DrbgAssumption
  <2>2. QED
    BY <1>3, <2>1
<1>14. QED
  BY <1>3, <1>11, <1>12, <1>13

(* The bytes of n that are given out of the blocks that follow the number a. *)
GivenByte(ky, a, i)  == <<Query(ky, a + 1 + ((i - 1) \div BlockBytes)), (i - 1) % BlockBytes>>
GivenBytes(ky, a, n) == [i \in 1 .. n |-> GivenByte(ky, a, i)]

LEMMA BlockOfByte ==
  ASSUME NEW n \in Nat, NEW i \in 1 .. n
  PROVE  /\ BlocksOf(n) \in Nat
         /\ \E q \in Nat, u \in 0 .. BlockBytes - 1 :
              /\ q = (i - 1) \div BlockBytes /\ u = (i - 1) % BlockBytes
              /\ q < BlocksOf(n) /\ i = BlockBytes * q + u + 1
<1>1. PICK m \in Nat : m = n + BlockBytes - 1
  OBVIOUS
<1>2. PICK b \in Nat, r \in 0 .. BlockBytes - 1 : b = m \div BlockBytes /\ m = BlockBytes * b + r
  BY Quotients
<1>3. PICK h \in Nat : h = i - 1 /\ h <= n - 1
  OBVIOUS
<1>4. PICK q \in Nat, u \in 0 .. BlockBytes - 1 :
        q = h \div BlockBytes /\ u = h % BlockBytes /\ h = BlockBytes * q + u
  BY Quotients
<1>5. ASSUME b <= q PROVE FALSE
  <2>1. BlockBytes * b \in Nat /\ BlockBytes * q \in Nat /\ BlockBytes * b <= BlockBytes * q
    BY <1>5, Products
  <2>2. PICK x \in Nat, y \in Nat : x = BlockBytes * b /\ y = BlockBytes * q /\ x <= y
    BY <2>1
  <2>3. QED
    BY <1>1, <1>2, <1>3, <1>4, <2>2
<1>6. b = BlocksOf(n)
  BY <1>1, <1>2 DEF BlocksOf
<1>7. q < b
  BY <1>5
<1>8. i = BlockBytes * q + u + 1
  <2>1. PICK x \in Nat : x = BlockBytes * q
    OBVIOUS
  <2>2. QED
    BY <1>3, <1>4, <2>1
<1>9. QED
  BY <1>3, <1>4, <1>6, <1>7, <1>8

LEMMA BlocksType ==
  ASSUME NEW n \in Nat
  PROVE  BlocksOf(n) \in Nat
<1>1. n + BlockBytes - 1 \in Nat
  OBVIOUS
<1>2. QED
  BY <1>1, Quotients DEF BlocksOf

LEMMA GivenDistinct ==
  ASSUME NEW S, NEW ky \in S, NEW a \in Nat, NEW n \in Nat, BlocksOf(n) <= Place[Width]
  PROVE  /\ GivenBytes(ky, a, n) \in Seq((S \X Counters) \X Nat)
         /\ Distinct(GivenBytes(ky, a, n))
<1>1. PICK p \in Nat \ {0} : p = Place[Width]
  BY PlaceIs
<1>2. ASSUME NEW i \in 1 .. n
      PROVE  GivenByte(ky, a, i) \in (S \X Counters) \X Nat
  <2>1. PICK q \in Nat, u \in Nat : q = (i - 1) \div BlockBytes /\ u = (i - 1) % BlockBytes
    BY BlockOfByte
  <2>2. Query(ky, a + 1 + q) \in S \X Counters
    BY a + 1 + q \in Nat, DigitsAreBytes DEF Query
  <2>3. QED
    BY <2>1, <2>2 DEF GivenByte
<1>3. ASSUME NEW i \in 1 .. n, NEW j \in 1 .. n, GivenByte(ky, a, i) = GivenByte(ky, a, j)
      PROVE  i = j
  <2>1. BlocksOf(n) \in Nat
    BY BlocksType
  <2>2. PICK q \in Nat, u \in 0 .. BlockBytes - 1 :
          /\ q = (i - 1) \div BlockBytes /\ u = (i - 1) % BlockBytes
          /\ q < BlocksOf(n) /\ i = BlockBytes * q + u + 1
    BY BlockOfByte
  <2>3. PICK r \in Nat, v \in 0 .. BlockBytes - 1 :
          /\ r = (j - 1) \div BlockBytes /\ v = (j - 1) % BlockBytes
          /\ r < BlocksOf(n) /\ j = BlockBytes * r + v + 1
    BY BlockOfByte
  <2>4. Query(ky, a + 1 + q) = Query(ky, a + 1 + r) /\ u = v
    BY <1>3, <2>2, <2>3 DEF GivenByte
  <2>5. q = r
    <3>1. ASSUME q # r PROVE FALSE
      <4>1. PICK b \in Nat : b = BlocksOf(n) /\ q < b /\ r < b /\ b <= p
        BY <1>1, <2>1, <2>2, <2>3
      <4>2. PICK x \in Nat, y \in Nat : x = a + 1 + q /\ y = a + 1 + r /\ x # y /\ x < y + p /\ y < x + p
        BY <3>1, <4>1
      <4>3. Query(ky, x) # Query(ky, y)
        BY <1>1, <4>2, QueriesDiffer
      <4>4. QED
        BY <2>4, <4>2, <4>3
    <3>2. QED
      BY <3>1
  <2>6. QED
    BY <2>2, <2>3, <2>4, <2>5
<1>4. /\ Len(GivenBytes(ky, a, n)) = n
      /\ \A i \in 1 .. n : GivenBytes(ky, a, n)[i] = GivenByte(ky, a, i)
  BY DEF GivenBytes
<1>5. QED
  <2>1. GivenBytes(ky, a, n) \in Seq((S \X Counters) \X Nat)
    BY <1>2 DEF GivenBytes
  <2>2. QED
    BY <1>3, <1>4, <2>1 DEF Distinct

GeneratorInv ==
  /\ DRBG_ctx \in [Key : Nat, V : Counters]
  /\ UpToKey(DRBG_ctx.Key)

(* An update after n blocks, of which the bytes of new are given out.       *)
UpdateOf(ky, a, n, new) ==
  /\ UpToKey(ky)
  /\ n + 3 <= Place[Width]
  /\ AES256_CTR_DRBG_Update(ky, Digits(a + n), Queries(ky, a, n))
  /\ new \in Seq(KeyBlocks \X Nat) /\ given' = given \o new /\ Distinct(new)
  /\ \A j \in 1 .. Len(new) : new[j][1][1] = ky
  /\ \A j \in 1 .. Len(new), i \in 1 .. 3 : new[j][1] # Query(ky, a + n + i)

LEMMA UpdateKeeps ==
  ASSUME NEW ky \in Nat, NEW a \in Nat, NEW n \in Nat, NEW new, UpdateOf(ky, a, n, new)
  PROVE  GeneratorInv'
<1>0. /\ UpToKey(ky)
      /\ n + 3 <= Place[Width]
      /\ AES256_CTR_DRBG_Update(ky, Digits(a + n), Queries(ky, a, n))
      /\ new \in Seq(KeyBlocks \X Nat) /\ given' = given \o new /\ Distinct(new)
      /\ \A j \in 1 .. Len(new) : new[j][1][1] = ky
      /\ \A j \in 1 .. Len(new), i \in 1 .. 3 : new[j][1] # Query(ky, a + n + i)
  BY DEF UpdateOf
<1>1. /\ \E start \in Counters : DRBG_ctx' = [Key |-> ky + 1, V |-> start]
      /\ asked' \in Seq(KeyBlocks) /\ Distinct(asked')
      /\ \A i \in 1 .. Len(asked') : asked'[i][1] < ky + 1
      /\ installed' = installed \cup {Query(ky, a + n + i) : i \in 1 .. 3}
  BY <1>0, UpdateInv
<1>2. /\ given \in Seq(KeyBlocks \X Nat) /\ Distinct(given)
      /\ \A i \in 1 .. Len(given) : given[i][1][1] < ky
      /\ installed \subseteq KeyBlocks /\ \A q \in installed : q[1] < ky
      /\ \A i \in 1 .. Len(given) : given[i][1] \notin installed
  BY <1>0 DEF UpToKey
<1>3. /\ given' \in Seq(KeyBlocks \X Nat)
      /\ \A i \in 1 .. Len(given) : given'[i] = given[i]
      /\ \A k \in 1 .. Len(new) : given'[Len(given) + k] = new[k]
      /\ \A i \in 1 .. Len(given') :
           i \in 1 .. Len(given) \/ \E k \in 1 .. Len(new) : i = Len(given) + k
  <2>1. new \in Seq(KeyBlocks \X Nat) /\ given \in Seq(KeyBlocks \X Nat) /\ given' = given \o new
    BY <1>0, <1>2
  <2>2. /\ given \o new \in Seq(KeyBlocks \X Nat)
        /\ \A i \in 1 .. Len(given) : (given \o new)[i] = given[i]
        /\ \A k \in 1 .. Len(new) : (given \o new)[Len(given) + k] = new[k]
        /\ \A i \in 1 .. Len(given \o new) :
             i \in 1 .. Len(given) \/ \E k \in 1 .. Len(new) : i = Len(given) + k
    <3>1. PICK S : S = KeyBlocks \X Nat
      OBVIOUS
    <3>2. PICK old : old = given
      OBVIOUS
    <3>3. old \in Seq(S) /\ new \in Seq(S)
      BY <2>1, <3>1, <3>2
    <3>4. /\ old \o new \in Seq(S)
          /\ \A i \in 1 .. Len(old) : (old \o new)[i] = old[i]
          /\ \A k \in 1 .. Len(new) : (old \o new)[Len(old) + k] = new[k]
          /\ \A i \in 1 .. Len(old \o new) :
               i \in 1 .. Len(old) \/ \E k \in 1 .. Len(new) : i = Len(old) + k
      BY <3>3, Concatenated
    <3>5. QED
      BY <3>1, <3>2, <3>4
  <2>3. QED
    BY <2>1, <2>2
<1>4. Distinct(given')
  <2>1. ASSUME NEW i \in 1 .. Len(given), NEW j \in 1 .. Len(new), given[i] = new[j] PROVE FALSE
    <3>1. given[i][1][1] < ky /\ given[i][1][1] = ky
      BY <1>0, <1>2, <2>1
    <3>2. QED
      BY <3>1
  <2>2. Distinct(given \o new)
    BY <1>0, <1>2, <2>1, DistinctConcat
  <2>3. QED
    BY <1>0, <2>2
<1>5. \A i \in 1 .. 3 : Query(ky, a + n + i)[1] = ky
  BY DEF Query
<1>6. installed' \subseteq KeyBlocks /\ \A q \in installed' : q[1] < ky + 1
  <2>1. \A x \in KeyBlocks : x[1] \in Nat
    BY DEF KeyBlocks
  <2>2. \A q \in installed : q[1] \in Nat /\ q[1] < ky
    BY <1>2, <2>1
  <2>3. \A x \in Nat : x < ky => x < ky + 1
    OBVIOUS
  <2>4. ky < ky + 1
    OBVIOUS
  <2>5. \A i \in 1 .. 3 : Query(ky, a + n + i) \in KeyBlocks
    <3>1. \A i \in 1 .. 3 : a + n + i \in Nat
      OBVIOUS
    <3>2. QED
      BY <3>1, DigitsAreBytes DEF Query, KeyBlocks
  <2>6. \A q \in installed' : q[1] < ky + 1
    BY <1>1, <1>5, <2>2, <2>3, <2>4
  <2>7. QED
    BY <1>1, <1>2, <2>5, <2>6
<1>7. ASSUME NEW i \in 1 .. Len(given')
      PROVE  given'[i][1][1] < ky + 1 /\ given'[i][1] \notin installed'
  <2>1. CASE i \in 1 .. Len(given)
    <3>1. given'[i] = given[i] /\ given[i][1][1] < ky /\ given[i][1] \notin installed
      BY <1>2, <1>3, <2>1
    <3>2. given[i][1][1] # ky
      BY <3>1
    <3>3. given[i][1] \notin installed'
      BY <1>1, <1>5, <3>1, <3>2
    <3>4. given[i] \in (Nat \X Counters) \X Nat
      BY <1>2, <2>1 DEF KeyBlocks
    <3>5. given[i][1][1] \in Nat
      BY <3>4
    <3>6. given[i][1][1] < ky + 1
      <4>1. \A x \in Nat : x < ky => x < ky + 1
        OBVIOUS
      <4>2. QED
        BY <3>1, <3>5, <4>1
    <3>7. QED
      BY <3>1, <3>3, <3>6
  <2>2. ASSUME NEW k \in 1 .. Len(new), i = Len(given) + k
        PROVE  given'[i][1][1] < ky + 1 /\ given'[i][1] \notin installed'
    <3>1. given'[i] = new[k]
      BY <1>3, <2>2
    <3>2. new[k][1][1] = ky
      BY <1>0, <2>2
    <3>3. new[k][1] \notin installed
      <4>1. ASSUME new[k][1] \in installed PROVE FALSE
        <5>1. new[k][1][1] < ky
          BY <1>2, <4>1
        <5>2. ky < ky
          BY <3>2, <5>1
        <5>3. QED
          BY <5>2
      <4>2. QED
        BY <4>1
    <3>4. new[k][1] \notin installed'
      BY <1>0, <1>1, <3>3
    <3>5. QED
      BY <3>1, <3>2, <3>4
  <2>3. QED
    BY <1>3, <2>1, <2>2
<1>8. UpToKey(ky + 1)'
  BY <1>1, <1>3, <1>4, <1>6, <1>7 DEF UpToKey
<1>9. QED
  <2>1. PICK start \in Counters : DRBG_ctx' = [Key |-> ky + 1, V |-> start]
    BY <1>1
  <2>2. DRBG_ctx'.Key = ky + 1 /\ ky + 1 \in Nat
    BY <2>1
  <2>3. DRBG_ctx' \in [Key : Nat, V : Counters]
    BY <2>1, <2>2
  <2>4. QED
    BY <1>8, <2>2, <2>3 DEF GeneratorInv

LEMMA SeedKeeps ==
  ASSUME GeneratorInv, nist_kat_init
  PROVE  GeneratorInv'
<1>1. UpToKey(0)
  BY DEF GeneratorInv, nist_kat_init
<1>2. AES256_CTR_DRBG_Update(0, Digits(0 + 0), Queries(0, 0, 0))
  <2>1. NoCounter = Digits(0)
    <3>1. \A f \in 0 .. Width - 1 : ByteOf(0, f) = 0
      <4>1. ASSUME NEW f \in 0 .. Width - 1 PROVE ByteOf(0, f) = 0
        <5>1. PICK p \in Nat \ {0} : p = Place[f]
          BY PlaceIs
        <5>2. 0 \div p = 0 /\ 0 % Radix = 0
          OBVIOUS
        <5>3. QED
          BY <5>1, <5>2 DEF ByteOf
      <4>2. QED
        BY <4>1
    <3>2. \A j \in 1 .. Width : Width - j \in 0 .. Width - 1
      OBVIOUS
    <3>3. QED
      BY <3>1, <3>2 DEF NoCounter, Digits, ByteOf
  <2>2. Queries(0, 0, 0) = << >>
    BY DEF Queries
  <2>3. 0 + 0 = 0
    OBVIOUS
  <2>4. QED
    BY <2>1, <2>2, <2>3 DEF nist_kat_init
<1>3. given' = given \o << >> /\ << >> \in Seq(KeyBlocks \X Nat) /\ Len(<< >>) = 0
  BY <1>1 DEF UpToKey, nist_kat_init
<1>4. Distinct(<< >>)
  BY DEF Distinct
<1>5. 0 + 3 <= Place[Width] /\ 0 \in Nat
  BY DrbgAssumption
<1>6. QED
  <2>1. UpdateOf(0, 0, 0, << >>)
    BY <1>1, <1>2, <1>3, <1>4, <1>5 DEF UpdateOf
  <2>2. QED
    BY <2>1, <1>5, UpdateKeeps

LEMMA RequestKeeps ==
  ASSUME GeneratorInv, NEW n \in Requests, randombytes(n)
  PROVE  GeneratorInv'
<1>1. PICK ky \in Nat, V \in Counters : ky = DRBG_ctx.Key /\ V = DRBG_ctx.V
  BY DEF GeneratorInv
<1>2. UpToKey(ky)
  BY <1>1 DEF GeneratorInv
<1>3. PICK a \in Nat : V = Digits(a)
  BY SomeNumber
<1>4. n \in Nat /\ BlocksOf(n) + 3 <= Place[Width]
  BY DrbgAssumption
<1>5. PICK b \in Nat : b = BlocksOf(n)
  BY <1>4, BlocksType
<1>6. \A k \in Nat : After(V, k) = Digits(a + k)
  BY <1>3, AfterAdds
<1>7. AES256_CTR_DRBG_Update(ky, Digits(a + b), Queries(ky, a, b))
  <2>1. AES256_CTR_DRBG_Update(ky, After(V, b), [k \in 1 .. b |-> <<ky, After(V, k)>>])
    BY <1>1, <1>5 DEF randombytes
  <2>2. [k \in 1 .. b |-> <<ky, After(V, k)>>] = Queries(ky, a, b)
    BY <1>6 DEF Queries, Query
  <2>3. QED
    BY <1>6, <2>1, <2>2
<1>8. given' = given \o GivenBytes(ky, a, n)
  <2>1. given' = given \o [i \in 1 .. n |-> << <<ky, After(V, 1 + ((i - 1) \div BlockBytes))>>,
                                              (i - 1) % BlockBytes >>]
    BY <1>1 DEF randombytes
  <2>2. ASSUME NEW i \in 1 .. n
        PROVE  << <<ky, After(V, 1 + ((i - 1) \div BlockBytes))>>, (i - 1) % BlockBytes >>
                 = GivenByte(ky, a, i)
    <3>1. PICK q \in Nat : q = (i - 1) \div BlockBytes
      BY <1>4, BlockOfByte
    <3>2. 1 + q \in Nat /\ a + (1 + q) = a + 1 + q
      OBVIOUS
    <3>3. After(V, 1 + q) = Digits(a + 1 + q)
      BY <1>6, <3>2
    <3>4. QED
      BY <3>1, <3>3 DEF GivenByte, Query
  <2>3. QED
    BY <2>1, <2>2 DEF GivenBytes
<1>9. GivenBytes(ky, a, n) \in Seq(KeyBlocks \X Nat) /\ Distinct(GivenBytes(ky, a, n))
  <2>1. BlocksOf(n) <= Place[Width]
    <3>1. PICK p \in Nat : p = Place[Width] /\ b + 3 <= p
      BY <1>4, <1>5, PlaceIs
    <3>2. QED
      BY <1>5, <3>1
  <2>2. QED
    BY <1>4, <2>1, GivenDistinct DEF KeyBlocks
<1>10. /\ Len(GivenBytes(ky, a, n)) = n
       /\ \A j \in 1 .. n : GivenBytes(ky, a, n)[j] = GivenByte(ky, a, j)
  BY <1>4 DEF GivenBytes
<1>11. ASSUME NEW j \in 1 .. n
       PROVE  /\ GivenByte(ky, a, j)[1][1] = ky
              /\ \A i \in 1 .. 3 : GivenByte(ky, a, j)[1] # Query(ky, a + b + i)
  <2>1. PICK q \in Nat : q = (j - 1) \div BlockBytes /\ q < b
    BY <1>4, <1>5, BlockOfByte
  <2>2. GivenByte(ky, a, j)[1] = Query(ky, a + 1 + q)
    BY <2>1 DEF GivenByte
  <2>3. PICK p \in Nat : p = Place[Width] /\ b + 3 <= p
    BY <1>4, <1>5, PlaceIs
  <2>4. ASSUME NEW i \in 1 .. 3 PROVE Query(ky, a + 1 + q) # Query(ky, a + b + i)
    <3>1. PICK x \in Nat, y \in Nat : x = a + 1 + q /\ y = a + b + i /\ x # y /\ x < y + p /\ y < x + p
      BY <2>1, <2>3
    <3>2. QED
      BY <2>3, <3>1, QueriesDiffer
  <2>5. QED
    BY <2>2, <2>4 DEF Query
<1>12. b + 3 <= Place[Width]
  BY <1>4, <1>5
<1>13. QED
  <2> DEFINE new == GivenBytes(ky, a, n)
  <2>1. /\ new \in Seq(KeyBlocks \X Nat) /\ given' = given \o new /\ Distinct(new)
        /\ \A j \in 1 .. Len(new) : new[j][1][1] = ky
        /\ \A j \in 1 .. Len(new), i \in 1 .. 3 : new[j][1] # Query(ky, a + b + i)
    BY <1>8, <1>9, <1>10, <1>11
  <2> HIDE DEF new
  <2>2. QED
    <3>1. UpdateOf(ky, a, b, new)
      BY <1>2, <1>7, <1>12, <2>1 DEF UpdateOf
    <3>2. QED
      BY <3>1, UpdateKeeps

-----------------------------------------------------------------------------
(* The expander.                                                            *)
Pairs    == Counters \X Counters
OutBytes == Pairs \X Nat

ByteOut(m, i) == <<Query(Digits(m), (i - 1) \div BlockBytes), (i - 1) % BlockBytes>>

(* The bytes of a block from position b on.                                 *)
Part(B, b, n) == [i \in 1 .. n |-> <<B, b + i - 1>>]

(* An expander for m bytes that encrypted c counters is at position b.      *)
Buffered(m, c, b, B) ==
  /\ c = 0 => b = BlockBytes
  /\ c # 0 => B = Query(Digits(m), c - 1)

Written(E, m, c, b) ==
  /\ E \in Seq(OutBytes)
  /\ Len(E) + (BlockBytes - b) = BlockBytes * c
  /\ \A i \in 1 .. Len(E) : E[i] = ByteOut(m, i)

AskedUpTo(Q, m, c) ==
  /\ Q \in Seq(Pairs) /\ Distinct(Q)
  /\ \A i \in 1 .. Len(Q) : Q[i][1] = Digits(m) => \E j \in 0 .. c - 1 : Q[i] = Query(Digits(m), j)

LEMMA QueryIsPair ==
  ASSUME NEW m \in Nat, NEW c \in Nat
  PROVE  Query(Digits(m), c) \in Pairs
  BY DigitsAreBytes DEF Query, Pairs

GoesOn(E, m, c, b, B, n) ==
  /\ Part(B, b, n) \in Seq(OutBytes)
  /\ Written(E \o Part(B, b, n), m, c, b + n)
  /\ Len(E \o Part(B, b, n)) = Len(E) + n

LEMMA PartGoesOn ==
  ASSUME NEW m \in Nat, NEW c \in Nat, NEW b \in 0 .. BlockBytes, NEW B, NEW E,
         NEW n \in Nat, n <= BlockBytes - b, Buffered(m, c, b, B), Written(E, m, c, b)
  PROVE  GoesOn(E, m, c, b, B, n)
<1> DEFINE t == Part(B, b, n)
<1>1. E \in Seq(OutBytes) /\ \A i \in 1 .. Len(E) : E[i] = ByteOut(m, i)
  BY DEF Written
<1>2. PICK l \in Nat : l = Len(E)
  BY <1>1
<1>3. l + (BlockBytes - b) = BlockBytes * c
  BY <1>2 DEF Written
<1>4. \A k \in 1 .. n : c # 0
  BY DEF Buffered
<1>5. ASSUME NEW k \in 1 .. n
      PROVE  <<B, b + k - 1>> \in OutBytes /\ <<B, b + k - 1>> = ByteOut(m, l + k)
  <2>1. PICK d \in Nat : d = c - 1
    BY <1>4
  <2>2. B = Query(Digits(m), d)
    BY <1>4, <2>1 DEF Buffered
  <2>3. PICK u \in 0 .. BlockBytes - 1 : u = b + k - 1
    OBVIOUS
  <2>4. PICK h \in Nat : h = l + k - 1 /\ h = BlockBytes * d + u
    <3>1. BlockBytes * (d + 1) = BlockBytes * d + BlockBytes /\ c = d + 1
      BY <2>1
    <3>2. PICK x \in Nat : x = BlockBytes * d /\ BlockBytes * c = x + BlockBytes
      BY <3>1
    <3>3. QED
      BY <1>3, <2>3, <3>2
  <2>5. h = BlockBytes * d + u
    BY <2>4
  <2>6. h \div BlockBytes = d /\ h % BlockBytes = u
    BY <2>5, Divided
  <2>7. ByteOut(m, l + k) = <<Query(Digits(m), d), u>>
    BY <2>4, <2>6 DEF ByteOut
  <2>8. Query(Digits(m), d) \in Pairs
    BY QueryIsPair
  <2>9. QED
    BY <2>2, <2>3, <2>7, <2>8 DEF OutBytes
<1>6. t \in Seq(OutBytes) /\ Len(t) = n
  BY <1>5 DEF Part
<1>7. \A k \in 1 .. n : t[k] = ByteOut(m, l + k)
  BY <1>5 DEF Part
<1> HIDE DEF t
<1>8. /\ E \o t \in Seq(OutBytes) /\ Len(E \o t) = Len(E) + Len(t)
      /\ \A i \in 1 .. Len(E) : (E \o t)[i] = E[i]
      /\ \A k \in 1 .. Len(t) : (E \o t)[Len(E) + k] = t[k]
      /\ \A i \in 1 .. Len(E \o t) : i \in 1 .. Len(E) \/ \E k \in 1 .. Len(t) : i = Len(E) + k
  <2>1. E \in Seq(OutBytes) /\ t \in Seq(OutBytes)
    BY <1>1, <1>6
  <2>2. QED
    BY <2>1, Concatenated
<1>9. Len(E \o t) = l + n
  BY <1>2, <1>6, <1>8
<1>10. ASSUME NEW i \in 1 .. Len(E \o t) PROVE (E \o t)[i] = ByteOut(m, i)
  <2>1. CASE i \in 1 .. Len(E)
    BY <1>1, <1>8, <2>1
  <2>2. ASSUME NEW k \in 1 .. n, i = l + k PROVE (E \o t)[i] = ByteOut(m, i)
    <3>1. (E \o t)[l + k] = t[k]
      BY <1>2, <1>6, <1>8
    <3>2. QED
      BY <1>7, <2>2, <3>1
  <2>3. QED
    BY <1>2, <1>6, <1>8, <2>1, <2>2
<1>11. Len(E \o t) + (BlockBytes - (b + n)) = BlockBytes * c
  BY <1>3, <1>9
<1>12. Written(E \o t, m, c, b + n)
  BY <1>8, <1>10, <1>11 DEF Written
<1>13. QED
  BY <1>2, <1>6, <1>9, <1>12 DEF t, GoesOn

LEMMA AskNext ==
  ASSUME NEW m \in Nat, NEW c \in Nat, c < Place[Width], NEW Q, AskedUpTo(Q, m, c)
  PROVE  AskedUpTo(Append(Q, Query(Digits(m), c)), m, c + 1)
<1> DEFINE q == Query(Digits(m), c)
           R == Append(Q, q)
<1>1. /\ Q \in Seq(Pairs) /\ Distinct(Q)
      /\ \A i \in 1 .. Len(Q) :
           Q[i][1] = Digits(m) => \E j \in 0 .. c - 1 : Q[i] = Query(Digits(m), j)
  BY DEF AskedUpTo
<1>2. q \in Pairs /\ q[1] = Digits(m)
  BY QueryIsPair DEF Query
<1>3. PICK p \in Nat : p = Place[Width] /\ c < p
  BY PlaceIs
<1>4. \A j \in 0 .. c - 1 : Query(Digits(m), j) # q
  <2>1. ASSUME NEW j \in 0 .. c - 1 PROVE Query(Digits(m), j) # q
    <3>1. j \in Nat /\ j # c /\ j < c + Place[Width] /\ c < j + Place[Width]
      BY <1>3
    <3>2. QED
      BY <3>1, QueriesDiffer
  <2>2. QED
    BY <2>1
<1> HIDE DEF q
<1>5. \A i \in 1 .. Len(Q) : Q[i] # q
  BY <1>1, <1>2, <1>4
<1>6. PICK l \in Nat : l = Len(Q)
  BY <1>1
<1>7. R \in Seq(Pairs) /\ Len(R) = l + 1 /\ R[l + 1] = q /\ \A i \in 1 .. l : R[i] = Q[i]
  BY <1>1, <1>2, <1>6
<1> HIDE DEF R
<1>8. ASSUME NEW i \in 1 .. l + 1, NEW j \in 1 .. l + 1, R[i] = R[j] PROVE i = j
  <2>1. CASE i \in 1 .. l /\ j \in 1 .. l
    BY <1>1, <1>6, <1>7, <1>8, <2>1 DEF Distinct
  <2>2. CASE i = l + 1 /\ j \in 1 .. l
    BY <1>5, <1>6, <1>7, <1>8, <2>2
  <2>3. CASE j = l + 1 /\ i \in 1 .. l
    BY <1>5, <1>6, <1>7, <1>8, <2>3
  <2>4. CASE i = l + 1 /\ j = l + 1
    BY <2>4
  <2>5. QED
    BY <2>1, <2>2, <2>3, <2>4
<1>9. ASSUME NEW i \in 1 .. l + 1, R[i][1] = Digits(m)
      PROVE  \E j \in 0 .. (c + 1) - 1 : R[i] = Query(Digits(m), j)
  <2>1. CASE i \in 1 .. l
    <3>1. PICK j \in 0 .. c - 1 : Q[i] = Query(Digits(m), j)
      BY <1>1, <1>6, <1>7, <1>9, <2>1
    <3>2. j \in 0 .. (c + 1) - 1
      OBVIOUS
    <3>3. QED
      BY <1>7, <2>1, <3>1, <3>2
  <2>2. CASE i = l + 1
    <3>1. R[i] = Query(Digits(m), c)
      BY <1>7, <2>2 DEF q
    <3>2. c \in 0 .. (c + 1) - 1
      OBVIOUS
    <3>3. QED
      BY <3>1, <3>2
  <2>3. QED
    BY <2>1, <2>2
<1>10. AskedUpTo(R, m, c + 1)
  BY <1>7, <1>8, <1>9 DEF AskedUpTo, Distinct
<1>11. QED
  BY <1>10 DEF R, q

(* An expander, and a state of its loop, by what the proofs speak of.       *)
Xof(m, rest, c, b, B) ==
  [maxlen |-> m, length_remaining |-> rest, prefix |-> Digits(m), ctr |-> Digits(c),
   buffer |-> B, buffer_pos |-> b]

Loop(m, rest, c, b, B, out, qs, n) ==
  [x |-> Xof(m, rest, c, b, B), out |-> out, queries |-> qs, xlen |-> n]

LEMMA LoopFields ==
  ASSUME NEW m, NEW rest, NEW c, NEW b, NEW B, NEW out, NEW qs, NEW n
  PROVE  /\ Loop(m, rest, c, b, B, out, qs, n).xlen = n
         /\ Loop(m, rest, c, b, B, out, qs, n).x = Xof(m, rest, c, b, B)
         /\ Loop(m, rest, c, b, B, out, qs, n).out = out
         /\ Loop(m, rest, c, b, B, out, qs, n).queries = qs
  BY DEF Loop

LEMMA XofFields ==
  ASSUME NEW m, NEW rest, NEW c, NEW b, NEW B
  PROVE  /\ Xof(m, rest, c, b, B).maxlen = m
         /\ Xof(m, rest, c, b, B).length_remaining = rest
         /\ Xof(m, rest, c, b, B).prefix = Digits(m)
         /\ Xof(m, rest, c, b, B).ctr = Digits(c)
         /\ Xof(m, rest, c, b, B).buffer = B
         /\ Xof(m, rest, c, b, B).buffer_pos = b
  BY DEF Xof

LEMMA TakenIsPart ==
  ASSUME NEW m, NEW rest, NEW c, NEW b, NEW B, NEW n
  PROVE  Taken(Xof(m, rest, c, b, B), n) = Part(B, b, n)
  BY XofFields DEF Taken, Part

LEMMA RoundEnough ==
  ASSUME NEW m, NEW rest, NEW c, NEW b \in Nat, NEW B, NEW out, NEW qs, NEW n \in Nat,
         n <= BlockBytes - b
  PROVE  Round(Loop(m, rest, c, b, B, out, qs, n))
           = Loop(m, rest, c, b + n, B, out \o Part(B, b, n), qs, 0)
<1> DEFINE s == Loop(m, rest, c, b, B, out, qs, n)
<1>1. s.xlen = n /\ s.x = Xof(m, rest, c, b, B) /\ s.out = out /\ s.x.buffer_pos = b
  BY LoopFields, XofFields
<1>2. s.xlen <= BlockBytes - s.x.buffer_pos
  BY <1>1
<1>3. Taken(s.x, s.xlen) = Part(B, b, n)
  BY <1>1, TakenIsPart
<1> HIDE DEF s
<1>4. Round(s) = [s EXCEPT !.x.buffer_pos = @ + s.xlen, !.out = @ \o Taken(s.x, s.xlen), !.xlen = 0]
  BY <1>2 DEF Round
<1>5. Round(s) = [s EXCEPT !.x.buffer_pos = @ + n, !.out = @ \o Part(B, b, n), !.xlen = 0]
  BY <1>1, <1>3, <1>4
<1>6. QED
  BY <1>5 DEF Loop, Xof, s

LEMMA RoundMore ==
  ASSUME NEW m, NEW rest, NEW c \in Nat, NEW b \in Nat, NEW B, NEW out, NEW qs, NEW n \in Nat,
         ~(n <= BlockBytes - b)
  PROVE  Round(Loop(m, rest, c, b, B, out, qs, n))
           = Loop(m, rest, c + 1, 0, Query(Digits(m), c), out \o Part(B, b, BlockBytes - b),
                  Append(qs, Query(Digits(m), c)), n - (BlockBytes - b))
<1> DEFINE s == Loop(m, rest, c, b, B, out, qs, n)
           q == Query(Digits(m), c)
           gap == BlockBytes - b
<1>1. /\ s.xlen = n /\ s.x = Xof(m, rest, c, b, B) /\ s.out = out /\ s.queries = qs
      /\ s.x.buffer_pos = b /\ s.x.prefix = Digits(m) /\ s.x.ctr = Digits(c)
  BY LoopFields, XofFields
<1>2. q = <<s.x.prefix, s.x.ctr>>
  BY <1>1 DEF Query
<1>3. ~(s.xlen <= BlockBytes - s.x.buffer_pos)
  BY <1>1
<1>4. Taken(s.x, gap) = Part(B, b, gap)
  BY <1>1, TakenIsPart
<1> HIDE DEF s, q
<1>5. Round(s) = [x |-> [s.x EXCEPT !.buffer = <<s.x.prefix, s.x.ctr>>, !.buffer_pos = 0,
                                    !.ctr = Increment(@)],
                  out |-> s.out \o Taken(s.x, BlockBytes - s.x.buffer_pos),
                  queries |-> Append(s.queries, <<s.x.prefix, s.x.ctr>>),
                  xlen |-> s.xlen - (BlockBytes - s.x.buffer_pos)]
  BY <1>3 DEF Round
<1>6. Round(s) = [x |-> [s.x EXCEPT !.buffer = q, !.buffer_pos = 0, !.ctr = Increment(@)],
                  out |-> out \o Part(B, b, gap), queries |-> Append(qs, q), xlen |-> n - gap]
  BY <1>1, <1>2, <1>4, <1>5
<1>7. [s.x EXCEPT !.buffer = q, !.buffer_pos = 0, !.ctr = Increment(@)] = Xof(m, rest, c + 1, 0, q)
  <2>1. Increment(Digits(c)) = Digits(c + 1)
    BY IncrementAdds
  <2>2. PICK v, w, P : v = Digits(c) /\ w = Digits(c + 1) /\ Increment(v) = w /\ P = Digits(m)
    BY <2>1
  <2>3. PICK x : x = s.x /\ x = Xof(m, rest, c, b, B)
    BY <1>1
  <2>4. x = [maxlen |-> m, length_remaining |-> rest, prefix |-> Digits(m), ctr |-> v,
             buffer |-> B, buffer_pos |-> b]
    BY <2>2, <2>3 DEF Xof
  <2>5. [x EXCEPT !.buffer = q, !.buffer_pos = 0, !.ctr = Increment(@)]
          = [x EXCEPT !.buffer = q, !.buffer_pos = 0, !.ctr = w]
    <3>1. x.ctr = v
      BY <2>4
    <3>2. QED
      BY <2>2, <3>1
  <2>6. [x EXCEPT !.buffer = q, !.buffer_pos = 0, !.ctr = w]
          = [maxlen |-> m, length_remaining |-> rest, prefix |-> Digits(m), ctr |-> w,
             buffer |-> q, buffer_pos |-> 0]
    <3>1. [x EXCEPT !.buffer = q, !.buffer_pos = 0, !.ctr = w]
            = [[[x EXCEPT !.buffer = q] EXCEPT !.buffer_pos = 0] EXCEPT !.ctr = w]
      OBVIOUS
    <3>2. [x EXCEPT !.buffer = q]
            = [maxlen |-> m, length_remaining |-> rest, prefix |-> P, ctr |-> v,
               buffer |-> q, buffer_pos |-> b]
      BY <2>2, <2>4
    <3>3. [[maxlen |-> m, length_remaining |-> rest, prefix |-> P, ctr |-> v,
            buffer |-> q, buffer_pos |-> b] EXCEPT !.buffer_pos = 0]
            = [maxlen |-> m, length_remaining |-> rest, prefix |-> P, ctr |-> v,
               buffer |-> q, buffer_pos |-> 0]
      OBVIOUS
    <3>4. [[maxlen |-> m, length_remaining |-> rest, prefix |-> P, ctr |-> v,
            buffer |-> q, buffer_pos |-> 0] EXCEPT !.ctr = w]
            = [maxlen |-> m, length_remaining |-> rest, prefix |-> P, ctr |-> w,
               buffer |-> q, buffer_pos |-> 0]
      OBVIOUS
    <3>5. QED
      BY <2>2, <3>1, <3>2, <3>3, <3>4, Zenon
  <2>7. QED
    BY <2>2, <2>3, <2>5, <2>6 DEF Xof
<1>8. QED
  BY <1>6, <1>7 DEF Loop, s, q

Buffers == Pairs \cup {<< >>}

(* Before a round E and what OUT holds are written, Q and what QS holds are *)
(* asked; all there will be is TOTAL bytes.                                 *)
LoopInv(m, E, Q, total, c, b, B, out, qs, n) ==
  /\ Buffered(m, c, b, B)
  /\ Written(E \o out, m, c, b)
  /\ AskedUpTo(Q \o qs, m, c)
  /\ Len(E \o out) + n = total

LEMMA EnoughStays ==
  ASSUME NEW m \in Nat, NEW E \in Seq(OutBytes), NEW Q, NEW total,
         NEW c \in Nat, NEW b \in 0 .. BlockBytes, NEW B, NEW out \in Seq(OutBytes),
         NEW qs, NEW n \in Nat, LoopInv(m, E, Q, total, c, b, B, out, qs, n), n <= BlockBytes - b
  PROVE  /\ out \o Part(B, b, n) \in Seq(OutBytes)
         /\ LoopInv(m, E, Q, total, c, b + n, B, out \o Part(B, b, n), qs, 0)
<1>1. Buffered(m, c, b, B) /\ Written(E \o out, m, c, b) /\ AskedUpTo(Q \o qs, m, c)
  BY DEF LoopInv
<1>2. /\ Part(B, b, n) \in Seq(OutBytes)
      /\ Written((E \o out) \o Part(B, b, n), m, c, b + n)
      /\ Len((E \o out) \o Part(B, b, n)) = Len(E \o out) + n
  <2>1. PICK D : D = E \o out
    OBVIOUS
  <2>2. Buffered(m, c, b, B) /\ Written(D, m, c, b)
    BY <1>1, <2>1
  <2>3. /\ Part(B, b, n) \in Seq(OutBytes)
        /\ Written(D \o Part(B, b, n), m, c, b + n)
        /\ Len(D \o Part(B, b, n)) = Len(D) + n
    <3>1. GoesOn(D, m, c, b, B, n)
      BY <2>2, PartGoesOn
    <3>2. QED
      BY <3>1 DEF GoesOn
  <2>4. QED
    BY <2>1, <2>3
<1>3. PICK t : t = Part(B, b, n)
  OBVIOUS
<1>4. t \in Seq(OutBytes)
  BY <1>2, <1>3
<1>5. (E \o out) \o t = E \o (out \o t) /\ out \o t \in Seq(OutBytes)
  BY <1>4, SMTT(30)
<1>6. Buffered(m, c, b + n, B)
  BY <1>1 DEF Buffered
<1>7. Len(E \o out) + n = total /\ Len(E \o out) \in Nat
  BY DEF LoopInv
<1>8. Len(E \o (out \o t)) + 0 = total
  BY <1>2, <1>3, <1>5, <1>7
<1>9. QED
  BY <1>1, <1>2, <1>3, <1>5, <1>6, <1>8 DEF LoopInv

LEMMA MoreStays ==
  ASSUME NEW m \in Nat, NEW E \in Seq(OutBytes), NEW Q \in Seq(Pairs), NEW total \in Nat,
         total <= Place[Width],
         NEW c \in Nat, NEW b \in 0 .. BlockBytes, NEW B, NEW out \in Seq(OutBytes),
         NEW qs \in Seq(Pairs), NEW n \in Nat, LoopInv(m, E, Q, total, c, b, B, out, qs, n),
         ~(n <= BlockBytes - b)
  PROVE  /\ out \o Part(B, b, BlockBytes - b) \in Seq(OutBytes)
         /\ Append(qs, Query(Digits(m), c)) \in Seq(Pairs)
         /\ LoopInv(m, E, Q, total, c + 1, 0, Query(Digits(m), c),
                    out \o Part(B, b, BlockBytes - b), Append(qs, Query(Digits(m), c)),
                    n - (BlockBytes - b))
<1>1. Buffered(m, c, b, B) /\ Written(E \o out, m, c, b) /\ AskedUpTo(Q \o qs, m, c)
  BY DEF LoopInv
<1>2. PICK gap \in Nat : gap = BlockBytes - b /\ b + gap = BlockBytes /\ gap < n
  OBVIOUS
<1>3. /\ Part(B, b, gap) \in Seq(OutBytes)
      /\ Written((E \o out) \o Part(B, b, gap), m, c, BlockBytes)
      /\ Len((E \o out) \o Part(B, b, gap)) = Len(E \o out) + gap
  <2>1. /\ Part(B, b, gap) \in Seq(OutBytes)
        /\ Written((E \o out) \o Part(B, b, gap), m, c, b + gap)
        /\ Len((E \o out) \o Part(B, b, gap)) = Len(E \o out) + gap
    <3>1. PICK D : D = E \o out
      OBVIOUS
    <3>2. gap <= BlockBytes - b /\ Buffered(m, c, b, B) /\ Written(D, m, c, b)
      BY <1>1, <1>2, <3>1
    <3>3. /\ Part(B, b, gap) \in Seq(OutBytes)
          /\ Written(D \o Part(B, b, gap), m, c, b + gap)
          /\ Len(D \o Part(B, b, gap)) = Len(D) + gap
      <4>1. GoesOn(D, m, c, b, B, gap)
        BY <3>2, PartGoesOn
      <4>2. QED
        BY <4>1 DEF GoesOn
    <3>4. QED
      BY <3>1, <3>3
  <2>2. QED
    BY <1>2, <2>1
<1>4. PICK t : t = Part(B, b, gap)
  OBVIOUS
<1>5. t \in Seq(OutBytes)
  BY <1>3, <1>4
<1>6. (E \o out) \o t = E \o (out \o t) /\ out \o t \in Seq(OutBytes)
  BY <1>5, SMTT(30)
<1>7. PICK q : q = Query(Digits(m), c)
  OBVIOUS
<1>8. q \in Pairs
  BY <1>7, QueryIsPair
<1>9. Append(qs, q) \in Seq(Pairs) /\ Q \o Append(qs, q) = Append(Q \o qs, q)
  BY <1>8, SMTT(30)
<1>10. PICK E2 : E2 = E \o (out \o t)
  OBVIOUS
<1>11. Written(E2, m, c, BlockBytes) /\ Len(E2) = Len(E \o out) + gap
  BY <1>3, <1>4, <1>6, <1>10
<1>12. Len(E \o out) + n = total /\ Len(E \o out) \in Nat
  BY DEF LoopInv
<1>13. PICK l \in Nat : l = Len(E2) /\ l + (n - gap) = total /\ l < total
  <2>1. PICK k \in Nat : k = Len(E \o out) /\ k + n = total
    BY <1>12
  <2>2. k + n = total
    BY <2>1
  <2>3. PICK l \in Nat : l = k + gap
    OBVIOUS
  <2>4. l + (n - gap) = total /\ l < total
    BY <1>2, <2>2, <2>3
  <2>5. l = Len(E2)
    BY <1>11, <2>1, <2>3
  <2>6. QED
    BY <2>4, <2>5
<1>14. l = BlockBytes * c
  <2>1. Len(E2) + (BlockBytes - BlockBytes) = BlockBytes * c
    BY <1>11 DEF Written
  <2>2. QED
    BY <1>13, <2>1
<1>15. c < Place[Width]
  <2>1. 1 <= BlockBytes /\ c * 1 <= c * BlockBytes
    BY Products
  <2>2. c * BlockBytes = BlockBytes * c /\ c * 1 = c
    OBVIOUS
  <2>3. PICK p \in Nat : p = Place[Width] /\ total <= p
    BY PlaceIs
  <2>4. c <= l
    BY <1>14, <2>1, <2>2
  <2>5. QED
    BY <1>13, <2>3, <2>4, SMTT(30)
<1>16. AskedUpTo(Append(Q \o qs, q), m, c + 1)
  BY <1>1, <1>7, <1>15, AskNext
<1>17. Written(E2, m, c + 1, 0)
  <2>1. BlockBytes * (c + 1) = BlockBytes * c + BlockBytes
    OBVIOUS
  <2>2. l + (BlockBytes - 0) = BlockBytes * (c + 1)
    BY <1>14, <2>1
  <2>3. E2 \in Seq(OutBytes) /\ \A i \in 1 .. Len(E2) : E2[i] = ByteOut(m, i)
    BY <1>11 DEF Written
  <2>4. Len(E2) + (BlockBytes - 0) = BlockBytes * (c + 1)
    BY <1>13, <2>2
  <2>5. QED
    BY <2>3, <2>4 DEF Written
<1>18. Buffered(m, c + 1, 0, q)
  <2>1. (c + 1) - 1 = c /\ c + 1 # 0
    OBVIOUS
  <2>2. QED
    BY <1>7, <2>1 DEF Buffered
<1>19. LoopInv(m, E, Q, total, c + 1, 0, q, out \o t, Append(qs, q), n - gap)
  BY <1>9, <1>10, <1>13, <1>16, <1>17, <1>18 DEF LoopInv
<1>20. QED
  BY <1>2, <1>4, <1>6, <1>7, <1>9, <1>19

LoopStates(m, rest, E, Q, total) ==
  {Loop(m, rest, t[1], t[2], t[3], t[4], t[5], t[6]) :
     t \in {u \in Nat \X (0 .. BlockBytes) \X Buffers \X Seq(OutBytes) \X Seq(Pairs) \X Nat :
              LoopInv(m, E, Q, total, u[1], u[2], u[3], u[4], u[5], u[6])}}

LEMMA InLoop ==
  ASSUME NEW m, NEW rest, NEW E, NEW Q, NEW total,
         NEW c \in Nat, NEW b \in 0 .. BlockBytes, NEW B \in Buffers, NEW out \in Seq(OutBytes),
         NEW qs \in Seq(Pairs), NEW n \in Nat, LoopInv(m, E, Q, total, c, b, B, out, qs, n)
  PROVE  Loop(m, rest, c, b, B, out, qs, n) \in LoopStates(m, rest, E, Q, total)
<1> DEFINE t == <<c, b, B, out, qs, n>>
<1>1. t \in Nat \X (0 .. BlockBytes) \X Buffers \X Seq(OutBytes) \X Seq(Pairs) \X Nat
  OBVIOUS
<1>2. t[1] = c /\ t[2] = b /\ t[3] = B /\ t[4] = out /\ t[5] = qs /\ t[6] = n
  OBVIOUS
<1> HIDE DEF t
<1>3. QED
  BY <1>1, <1>2, Zenon DEF LoopStates

LEMMA OfLoop ==
  ASSUME NEW m, NEW rest, NEW E, NEW Q, NEW total, NEW s \in LoopStates(m, rest, E, Q, total)
  PROVE  \E c \in Nat, b \in 0 .. BlockBytes, B \in Buffers, out \in Seq(OutBytes),
            qs \in Seq(Pairs), n \in Nat :
           s = Loop(m, rest, c, b, B, out, qs, n) /\ LoopInv(m, E, Q, total, c, b, B, out, qs, n)
<1>1. PICK t \in Nat \X (0 .. BlockBytes) \X Buffers \X Seq(OutBytes) \X Seq(Pairs) \X Nat :
        /\ LoopInv(m, E, Q, total, t[1], t[2], t[3], t[4], t[5], t[6])
        /\ s = Loop(m, rest, t[1], t[2], t[3], t[4], t[5], t[6])
  BY Zenon DEF LoopStates
<1>2. /\ t[1] \in Nat /\ t[2] \in 0 .. BlockBytes /\ t[3] \in Buffers
      /\ t[4] \in Seq(OutBytes) /\ t[5] \in Seq(Pairs) /\ t[6] \in Nat
  BY <1>1
<1>3. QED
  BY <1>1, <1>2, Zenon

(* There are J bytes missing at most, and the buffer has some.              *)
Wants(s, j) == s.xlen = 0 \/ (s.x.buffer_pos < BlockBytes /\ s.xlen <= j)

LEMMA WantsOf ==
  ASSUME NEW m, NEW rest, NEW c, NEW b, NEW B, NEW out, NEW qs, NEW n, NEW j
  PROVE  Wants(Loop(m, rest, c, b, B, out, qs, n), j) <=> n = 0 \/ (b < BlockBytes /\ n <= j)
<1>1. PICK s : s = Loop(m, rest, c, b, B, out, qs, n)
  OBVIOUS
<1>2. s.xlen = n /\ s.x.buffer_pos = b
  <2>1. s.xlen = n /\ s.x = Xof(m, rest, c, b, B)
    BY <1>1, LoopFields
  <2>2. QED
    BY <2>1, XofFields
<1>3. Wants(s, j) <=> n = 0 \/ (b < BlockBytes /\ n <= j)
  BY <1>2, Zenon DEF Wants
<1>4. QED
  BY <1>1, <1>3, Zenon

Advance(s) == IF s.xlen = 0 THEN s ELSE Round(s)

LEMMA AdvanceOf ==
  ASSUME NEW m, NEW rest, NEW c, NEW b, NEW B, NEW out, NEW qs, NEW n
  PROVE  Advance(Loop(m, rest, c, b, B, out, qs, n))
           = IF n = 0 THEN Loop(m, rest, c, b, B, out, qs, n)
             ELSE Round(Loop(m, rest, c, b, B, out, qs, n))
  BY LoopFields DEF Advance

(* What a call starts from.                                                 *)
CallOf(m, E, Q, total) ==
  /\ m \in Nat /\ E \in Seq(OutBytes) /\ Q \in Seq(Pairs) /\ total \in Nat
  /\ total <= Place[Width]

LEMMA AdvanceStays ==
  ASSUME NEW m, NEW rest, NEW E, NEW Q, NEW total, CallOf(m, E, Q, total),
         NEW s \in LoopStates(m, rest, E, Q, total)
  PROVE  /\ Advance(s) \in LoopStates(m, rest, E, Q, total)
         /\ \A j \in Nat : s.xlen <= j => Wants(Advance(s), j)
         /\ \A j \in Nat : Wants(s, j + 1) => Wants(Advance(s), j)
<1>1. PICK c \in Nat, b \in 0 .. BlockBytes, B \in Buffers, out \in Seq(OutBytes),
           qs \in Seq(Pairs), n \in Nat :
           s = Loop(m, rest, c, b, B, out, qs, n) /\ LoopInv(m, E, Q, total, c, b, B, out, qs, n)
  BY OfLoop
<1>2. /\ m \in Nat /\ E \in Seq(OutBytes) /\ Q \in Seq(Pairs) /\ total \in Nat
      /\ total <= Place[Width]
  BY DEF CallOf
<1>3. s.xlen = n
  BY <1>1, LoopFields
<1>4. CASE n = 0
  <2>1. Advance(s) = s
    BY <1>1, <1>4, AdvanceOf
  <2>2. \A j \in Nat : Wants(s, j)
    BY <1>3, <1>4 DEF Wants
  <2>3. QED
    BY <2>1, <2>2
<1>5. CASE n # 0 /\ n <= BlockBytes - b
  <2>1. Advance(s) = Loop(m, rest, c, b + n, B, out \o Part(B, b, n), qs, 0)
    BY <1>1, <1>5, AdvanceOf, RoundEnough
  <2>2. /\ out \o Part(B, b, n) \in Seq(OutBytes)
        /\ LoopInv(m, E, Q, total, c, b + n, B, out \o Part(B, b, n), qs, 0)
    BY <1>1, <1>2, <1>5, EnoughStays
  <2>3. b + n \in 0 .. BlockBytes /\ 0 \in Nat
    BY <1>5
  <2>4. Advance(s) \in LoopStates(m, rest, E, Q, total)
    <3>1. PICK d \in 0 .. BlockBytes, out2 \in Seq(OutBytes), zero \in Nat :
            d = b + n /\ out2 = out \o Part(B, b, n) /\ zero = 0
      BY <2>2, <2>3
    <3>2. LoopInv(m, E, Q, total, c, d, B, out2, qs, zero)
      BY <2>2, <3>1
    <3>3. Advance(s) = Loop(m, rest, c, d, B, out2, qs, zero)
      BY <2>1, <3>1
    <3>4. QED
      BY <3>2, <3>3, InLoop
  <2>5. \A j \in Nat : Wants(Advance(s), j)
    BY <2>1, WantsOf
  <2>6. QED
    BY <2>4, <2>5
<1>6. CASE ~(n <= BlockBytes - b)
  <2> DEFINE out2 == out \o Part(B, b, BlockBytes - b)
             q == Query(Digits(m), c)
             qs2 == Append(qs, q)
             n2 == n - (BlockBytes - b)
  <2>1. n2 \in Nat /\ n # 0 /\ c + 1 \in Nat /\ 0 \in 0 .. BlockBytes /\ n2 <= n
    BY <1>6
  <2>2. Advance(s) = Loop(m, rest, c + 1, 0, q, out2, qs2, n2)
    BY <1>1, <1>6, <2>1, AdvanceOf, RoundMore
  <2>3. /\ out2 \in Seq(OutBytes) /\ qs2 \in Seq(Pairs)
        /\ LoopInv(m, E, Q, total, c + 1, 0, q, out2, qs2, n2)
    BY <1>1, <1>2, <1>6, MoreStays
  <2>4. q \in Buffers
    BY <1>2, QueryIsPair DEF Buffers
  <2>5. \A j \in Nat : n <= j => n2 <= j
    BY <2>1
  <2>6. \A j \in Nat : b < BlockBytes /\ n <= j + 1 => n2 <= j
    BY <1>6
  <2> HIDE DEF out2, q, qs2, n2
  <2>7. Advance(s) \in LoopStates(m, rest, E, Q, total)
    BY <2>1, <2>2, <2>3, <2>4, InLoop
  <2>8. \A j \in Nat : n2 <= j => Wants(Advance(s), j)
    BY <2>2, WantsOf
  <2>9. \A j \in Nat : Wants(s, j + 1) => b < BlockBytes /\ n <= j + 1
    BY <1>1, <2>1, WantsOf
  <2>10. QED
    BY <1>3, <2>5, <2>6, <2>7, <2>8, <2>9
<1>7. QED
  BY <1>4, <1>5, <1>6

IsAfter(f, base, n) ==
  f = [k \in 0 .. n + 1 |-> IF k = 0 THEN base
                            ELSE IF f[k - 1].xlen = 0 THEN f[k - 1] ELSE Round(f[k - 1])]

LEMMA ExpandChosen ==
  ASSUME NEW m, NEW rest, NEW c, NEW b, NEW B, NEW n
  PROVE  Expand(Xof(m, rest, c, b, B), n)
           = (CHOOSE f : IsAfter(f, Loop(m, rest, c, b, B, << >>, << >>, n), n))[n + 1]
  BY DEF Expand, IsAfter, Loop

LEMMA ExpandOf ==
  ASSUME NEW m, NEW rest, NEW E, NEW Q, NEW total, CallOf(m, E, Q, total),
         NEW c \in Nat, NEW b \in 0 .. BlockBytes, NEW B \in Buffers, NEW n \in Nat,
         LoopInv(m, E, Q, total, c, b, B, << >>, << >>, n)
  PROVE  /\ Expand(Xof(m, rest, c, b, B), n) \in LoopStates(m, rest, E, Q, total)
         /\ Expand(Xof(m, rest, c, b, B), n).xlen = 0
<1> DEFINE S == LoopStates(m, rest, E, Q, total)
           base == Loop(m, rest, c, b, B, << >>, << >>, n)
           N == n + 1
           step == [s \in S |-> [k \in 1 .. N |-> Advance(s)]]
           Is(f) == IsAfter(f, base, n)
<1>1. base \in S /\ base.xlen = n
  <2>1. << >> \in Seq(OutBytes) /\ << >> \in Seq(Pairs)
    OBVIOUS
  <2>2. base \in S
    BY <2>1, InLoop
  <2>3. QED
    BY <2>2, LoopFields
<1>2. \A s \in S : Advance(s) \in S
  BY AdvanceStays
<1>3. N \in Nat /\ N = n + 1
  OBVIOUS
<1>4. \A s \in S : \A k \in 1 .. N : step[s][k] = Advance(s)
  <2> HIDE DEF S, base, N
  <2>1. QED
    OBVIOUS
<1>5. Steps(N, S, step)
  <2> HIDE DEF S, base, N, step
  <2>1. QED
    BY <1>2, <1>4 DEF Steps
<1>6. PICK g : Iterates(N, S, base, step, g)
  <2> HIDE DEF S, base, N, step
  <2>1. QED
    BY <1>1, <1>3, <1>5, Iteration
<1> HIDE DEF S, base, N, Is
<1>7. /\ g \in [0 .. N -> S] /\ g[0] = base
      /\ \A k \in 1 .. N : g[k] = Advance(g[k - 1])
  <2>1. /\ g \in [0 .. N -> S] /\ g[0] = base
        /\ \A k \in 1 .. N : g[k] = step[g[k - 1]][k]
    <3> HIDE DEF step
    <3>1. QED
      BY <1>6 DEF Iterates
  <2>2. \A k \in 1 .. N : k - 1 \in 0 .. N
    BY <1>3
  <2>3. \A k \in 1 .. N : g[k - 1] \in S
    BY <2>1, <2>2
  <2> HIDE DEF step
  <2>4. QED
    BY <1>4, <2>1, <2>3
<1> HIDE DEF step
<1>8. Is(g)
  <2>1. g = [k \in 0 .. N |-> g[k]]
    BY <1>7
  <2>2. \A k \in 0 .. N : k # 0 => k \in 1 .. N
    BY <1>3
  <2>3. \A k \in 0 .. N : g[k] = IF k = 0 THEN base
                                ELSE IF g[k - 1].xlen = 0 THEN g[k - 1] ELSE Round(g[k - 1])
    BY <1>7, <2>2 DEF Advance
  <2>4. QED
    BY <2>1, <2>3 DEF Is, IsAfter, N
<1>9. PICK h : h = CHOOSE f : Is(f)
  OBVIOUS
<1>10. Is(h)
  BY <1>8, <1>9
<1>11. h[0] = base /\ \A k \in 1 .. N : h[k] = Advance(h[k - 1])
  <2>1. 0 \in 0 .. N /\ \A k \in 1 .. N : k \in 0 .. N /\ k # 0
    BY <1>3
  <2>2. h = [k \in 0 .. N |-> IF k = 0 THEN base
                              ELSE IF h[k - 1].xlen = 0 THEN h[k - 1] ELSE Round(h[k - 1])]
    BY <1>10 DEF Is, IsAfter, N
  <2>3. \A k \in 0 .. N : h[k] = IF k = 0 THEN base
                                ELSE IF h[k - 1].xlen = 0 THEN h[k - 1] ELSE Round(h[k - 1])
    BY <2>2
  <2>4. QED
    BY <2>1, <2>3 DEF Advance
<1>12. h[N] = g[N]
  <2>1. \A k \in 1 .. N : h[k - 1] = g[k - 1] => h[k] = g[k]
    BY <1>7, <1>11
  <2>2. \A k \in 0 .. N : h[k] = g[k]
    <3>1. h[0] = g[0] /\ N \in Nat
      BY <1>3, <1>7, <1>11
    <3>2. QED
      BY <2>1, <3>1, Agree, SMTT(30)
  <2>3. QED
    BY <1>3, <2>2
<1>13. Expand(Xof(m, rest, c, b, B), n) = g[N]
  <2>1. Expand(Xof(m, rest, c, b, B), n) = (CHOOSE f : Is(f))[N]
    BY ExpandChosen DEF Is, N, base
  <2>2. QED
    BY <1>9, <1>12, <2>1
<1>14. g[N] \in S /\ g[N].xlen = 0
  <2> DEFINE T == {k \in 0 .. n : Wants(g[k + 1], n - k)}
  <2>1. \A k \in 0 .. n : k + 1 \in 1 .. N /\ (k + 1) - 1 = k /\ g[k] \in S /\ g[k + 1] = Advance(g[k])
    BY <1>3, <1>7
  <2>2. 0 \in T
    <3>1. g[1] = Advance(base) /\ base.xlen <= n
      BY <1>1, <1>7, <2>1
    <3>2. Wants(Advance(base), n)
      BY <1>1, <3>1, AdvanceStays DEF S
    <3>3. 0 \in 0 .. n /\ 0 + 1 = 1 /\ n - 0 = n
      OBVIOUS
    <3>4. QED
      BY <3>1, <3>2, <3>3
  <2>3. ASSUME NEW k \in T, k < n PROVE k + 1 \in T
    <3>1. k + 1 \in 0 .. n /\ n - (k + 1) \in Nat /\ (n - (k + 1)) + 1 = n - k
      BY <2>3
    <3>2. g[k + 1] \in S /\ g[(k + 1) + 1] = Advance(g[k + 1])
      BY <2>1, <3>1
    <3>3. Wants(g[k + 1], (n - (k + 1)) + 1)
      BY <3>1
    <3>4. Wants(Advance(g[k + 1]), n - (k + 1))
      BY <3>1, <3>2, <3>3, AdvanceStays DEF S
    <3>5. QED
      BY <3>1, <3>2, <3>4
  <2>4. T = 0 .. n
    <3>1. T \subseteq 0 .. n
      OBVIOUS
    <3> HIDE DEF T
    <3>2. QED
      BY <2>2, <2>3, <3>1, UpTo
  <2>5. n \in T /\ n - n = 0
    <3>1. n \in 0 .. n /\ n - n = 0
      OBVIOUS
    <3> HIDE DEF T
    <3>2. QED
      BY <2>4, <3>1
  <2>6. Wants(g[N], 0)
    BY <1>3, <2>5
  <2>7. g[N] \in S
    BY <1>3, <1>7
  <2>8. PICK s : s = g[N]
    OBVIOUS
  <2>9. s.xlen \in Nat
    BY <2>7, <2>8, OfLoop, LoopFields DEF S
  <2>10. s.xlen = 0
    BY <2>6, <2>8, <2>9 DEF Wants
  <2>11. QED
    BY <2>7, <2>8, <2>10
<1>15. QED
  BY <1>13, <1>14 DEF S

XofAt(m, rest, c, b, B) ==
  /\ xof = Xof(m, rest, c, b, B)
  /\ Buffered(m, c, b, B)
  /\ Written(expanded, m, c, b)
  /\ AskedUpTo(encrypted, m, c)
  /\ Len(expanded) + rest = m

XofInv ==
  \E m \in 0 .. Place[Width] - 1, rest \in Nat, c \in Nat, b \in 0 .. BlockBytes, B \in Buffers :
    XofAt(m, rest, c, b, B)

LEMMA NoCounterIs == NoCounter = Digits(0)
<1>1. \A f \in 0 .. Width - 1 : ByteOf(0, f) = 0
  <2>1. ASSUME NEW f \in 0 .. Width - 1 PROVE ByteOf(0, f) = 0
    <3>1. PICK p \in Nat \ {0} : p = Place[f]
      BY PlaceIs
    <3>2. 0 \div p = 0 /\ 0 % Radix = 0
      OBVIOUS
    <3>3. QED
      BY <3>1, <3>2 DEF ByteOf
  <2>2. QED
    BY <2>1
<1>2. \A j \in 1 .. Width : Width - j \in 0 .. Width - 1
  OBVIOUS
<1>3. QED
  BY <1>1, <1>2 DEF NoCounter, Digits, ByteOf

LEMMA NoXofIs == NoXof = Xof(0, 0, 0, BlockBytes, << >>)
  BY NoCounterIs DEF NoXof, Xof

LEMMA PlaceOfWidth == Place[Width] \in Nat \ {0}
  BY PlaceIs

(* An expander that was made and not asked yet.                             *)
LEMMA Made ==
  ASSUME NEW m \in Nat, NEW Q \in Seq(Pairs), Distinct(Q),
         \A k \in 1 .. Len(Q) : Q[k][1] # Digits(m)
  PROVE  /\ Buffered(m, 0, BlockBytes, << >>)
         /\ Written(<< >>, m, 0, BlockBytes)
         /\ AskedUpTo(Q, m, 0)
<1>1. Buffered(m, 0, BlockBytes, << >>)
  BY DEF Buffered
<1>2. Written(<< >>, m, 0, BlockBytes)
  <2>1. << >> \in Seq(OutBytes) /\ Len(<< >>) = 0
    OBVIOUS
  <2>2. 0 + (BlockBytes - BlockBytes) = BlockBytes * 0
    OBVIOUS
  <2>3. QED
    BY <2>1, <2>2 DEF Written
<1>3. AskedUpTo(Q, m, 0)
  BY DEF AskedUpTo
<1>4. QED
  BY <1>1, <1>2, <1>3

LEMMA XofInitially ==
  ASSUME xof = NoXof, expanded = << >>, encrypted = << >>
  PROVE  XofInv
<1>1. PICK Q : Q = << >>
  OBVIOUS
<1>2. Q \in Seq(Pairs) /\ Distinct(Q)
  BY <1>1 DEF Distinct
<1>3. \A k \in 1 .. Len(Q) : Q[k][1] # Digits(0)
  BY <1>1
<1>4. /\ Buffered(0, 0, BlockBytes, << >>) /\ Written(<< >>, 0, 0, BlockBytes)
      /\ AskedUpTo(Q, 0, 0)
  BY <1>2, <1>3, Made
<1>5. XofAt(0, 0, 0, BlockBytes, << >>)
  BY <1>1, <1>4, NoXofIs DEF XofAt
<1>6. 0 \in 0 .. Place[Width] - 1 /\ 0 \in Nat /\ BlockBytes \in 0 .. BlockBytes
  BY PlaceOfWidth
<1>7. << >> \in Buffers
  BY DEF Buffers
<1>8. QED
  BY <1>5, <1>6, <1>7 DEF XofInv

LEMMA MakingKeeps ==
  ASSUME XofInv, NEW maxlen \in MaxLengths, seedexpander_init(maxlen)
  PROVE  XofInv'
<1>1. maxlen \in 0 .. Place[Width] - 1 /\ maxlen \in Nat
  BY DrbgAssumption
<1>2. encrypted' \in Seq(Pairs) /\ Distinct(encrypted')
  BY DEF XofInv, XofAt, AskedUpTo, seedexpander_init
<1>3. \A i \in 1 .. Len(encrypted') : encrypted'[i][1] # Digits(maxlen)
  BY DEF seedexpander_init
<1>4. xof' = Xof(maxlen, maxlen, 0, BlockBytes, << >>)
  <2>1. xof' = [NoXof EXCEPT !.maxlen = maxlen, !.length_remaining = maxlen,
                             !.prefix = Digits(maxlen)]
    BY DEF seedexpander_init
  <2>2. PICK P, Z : P = Digits(maxlen) /\ Z = Digits(0)
    OBVIOUS
  <2>3. PICK x : x = NoXof
    OBVIOUS
  <2>4. x = [maxlen |-> 0, length_remaining |-> 0, prefix |-> Z, ctr |-> Z,
             buffer |-> << >>, buffer_pos |-> BlockBytes]
    BY <2>2, <2>3, NoXofIs DEF Xof
  <2>5. [x EXCEPT !.maxlen = maxlen, !.length_remaining = maxlen, !.prefix = P]
          = [[[x EXCEPT !.maxlen = maxlen] EXCEPT !.length_remaining = maxlen] EXCEPT !.prefix = P]
    OBVIOUS
  <2>6. [x EXCEPT !.maxlen = maxlen]
          = [maxlen |-> maxlen, length_remaining |-> 0, prefix |-> Z, ctr |-> Z,
             buffer |-> << >>, buffer_pos |-> BlockBytes]
    BY <2>4
  <2>7. [[maxlen |-> maxlen, length_remaining |-> 0, prefix |-> Z, ctr |-> Z,
          buffer |-> << >>, buffer_pos |-> BlockBytes] EXCEPT !.length_remaining = maxlen]
          = [maxlen |-> maxlen, length_remaining |-> maxlen, prefix |-> Z, ctr |-> Z,
             buffer |-> << >>, buffer_pos |-> BlockBytes]
    OBVIOUS
  <2>8. [[maxlen |-> maxlen, length_remaining |-> maxlen, prefix |-> Z, ctr |-> Z,
          buffer |-> << >>, buffer_pos |-> BlockBytes] EXCEPT !.prefix = P]
          = [maxlen |-> maxlen, length_remaining |-> maxlen, prefix |-> P, ctr |-> Z,
             buffer |-> << >>, buffer_pos |-> BlockBytes]
    OBVIOUS
  <2>9. QED
    BY <2>1, <2>2, <2>3, <2>5, <2>6, <2>7, <2>8, Zenon DEF Xof
<1>5. expanded' = << >>
  BY DEF seedexpander_init
<1>6. XofAt(maxlen, maxlen, 0, BlockBytes, << >>)'
  <2>1. PICK Q : Q = encrypted'
    OBVIOUS
  <2>2. Q \in Seq(Pairs) /\ Distinct(Q) /\ \A k \in 1 .. Len(Q) : Q[k][1] # Digits(maxlen)
    BY <1>2, <1>3, <2>1
  <2>3. /\ Buffered(maxlen, 0, BlockBytes, << >>) /\ Written(<< >>, maxlen, 0, BlockBytes)
        /\ AskedUpTo(Q, maxlen, 0)
    BY <1>1, <2>2, Made
  <2>4. Len(<< >>) + maxlen = maxlen
    BY <1>1
  <2>5. QED
    BY <1>4, <1>5, <2>1, <2>3, <2>4 DEF XofAt
<1>7. << >> \in Buffers /\ BlockBytes \in 0 .. BlockBytes /\ 0 \in Nat
  BY DEF Buffers
<1>8. QED
  BY <1>1, <1>6, <1>7 DEF XofInv

LEMMA ExpandingKeeps ==
  ASSUME XofInv, NEW xlen \in Nat, seedexpander(xlen)
  PROVE  XofInv'
<1>1. PICK m \in 0 .. Place[Width] - 1, rest \in Nat, c \in Nat, b \in 0 .. BlockBytes,
           B \in Buffers : XofAt(m, rest, c, b, B)
  BY DEF XofInv
<1>2. /\ Buffered(m, c, b, B) /\ Written(expanded, m, c, b) /\ AskedUpTo(encrypted, m, c)
  BY <1>1 DEF XofAt
<1>3. xof = Xof(m, rest, c, b, B)
  BY <1>1 DEF XofAt
<1>4. Len(expanded) + rest = m
  BY <1>1 DEF XofAt
<1>5. expanded \in Seq(OutBytes) /\ encrypted \in Seq(Pairs) /\ Len(expanded) \in Nat
  BY <1>2 DEF Written, AskedUpTo
<1>6. xlen < rest
  BY <1>3, XofFields DEF seedexpander
<1>7. PICK l \in Nat : l = Len(expanded)
  BY <1>5
<1>8. l + rest = m
  BY <1>4, <1>7
<1>9. PICK total \in Nat, r \in Nat : total = l + xlen /\ r = rest - xlen
  BY <1>6
<1>10. total + r = m /\ total <= Place[Width] /\ m \in Nat
  <2>1. PICK p \in Nat : p = Place[Width]
    BY PlaceIs
  <2>2. QED
    BY <1>1, <1>6, <1>8, <1>9, <2>1
<1>11. CallOf(m, expanded, encrypted, total)
  BY <1>5, <1>10 DEF CallOf
<1>12. LoopInv(m, expanded, encrypted, total, c, b, B, << >>, << >>, xlen)
  <2>1. expanded \o << >> = expanded /\ encrypted \o << >> = encrypted
    BY <1>5
  <2>2. Len(expanded) + xlen = total
    BY <1>7, <1>9
  <2>3. QED
    BY <1>2, <2>1, <2>2 DEF LoopInv
<1>13. [xof EXCEPT !.length_remaining = @ - xlen] = Xof(m, r, c, b, B)
  <2>1. PICK P, v : P = Digits(m) /\ v = Digits(c)
    OBVIOUS
  <2>2. xof = [maxlen |-> m, length_remaining |-> rest, prefix |-> P, ctr |-> v,
               buffer |-> B, buffer_pos |-> b]
    BY <1>3, <2>1 DEF Xof
  <2>3. [xof EXCEPT !.length_remaining = @ - xlen]
          = [maxlen |-> m, length_remaining |-> rest - xlen, prefix |-> P, ctr |-> v,
             buffer |-> B, buffer_pos |-> b]
    BY <2>2
  <2>4. QED
    BY <1>9, <2>1, <2>3 DEF Xof
<1>14. PICK s : s = Expand(Xof(m, r, c, b, B), xlen)
  OBVIOUS
<1>15. xof' = s.x /\ expanded' = expanded \o s.out /\ encrypted' = encrypted \o s.queries
  BY <1>13, <1>14 DEF seedexpander
<1>16. s \in LoopStates(m, r, expanded, encrypted, total) /\ s.xlen = 0
  BY <1>11, <1>12, <1>14, ExpandOf
<1>17. PICK c2 \in Nat, b2 \in 0 .. BlockBytes, B2 \in Buffers, out \in Seq(OutBytes),
            qs \in Seq(Pairs), n \in Nat :
            /\ s = Loop(m, r, c2, b2, B2, out, qs, n)
            /\ LoopInv(m, expanded, encrypted, total, c2, b2, B2, out, qs, n)
  BY <1>16, OfLoop
<1>18. /\ s.x = Xof(m, r, c2, b2, B2) /\ s.out = out /\ s.queries = qs /\ n = 0
  BY <1>16, <1>17, LoopFields
<1>19. /\ xof' = Xof(m, r, c2, b2, B2) /\ expanded' = expanded \o out
       /\ encrypted' = encrypted \o qs
  BY <1>15, <1>18
<1>20. /\ Buffered(m, c2, b2, B2) /\ Written(expanded', m, c2, b2)
       /\ AskedUpTo(encrypted', m, c2) /\ Len(expanded') + 0 = total
  BY <1>17, <1>18, <1>19 DEF LoopInv
<1>21. Len(expanded') + r = m
  <2>1. Len(expanded') \in Nat
    BY <1>20 DEF Written
  <2>2. Len(expanded') = total
    BY <1>20, <2>1
  <2>3. QED
    BY <1>10, <2>2
<1>22. XofAt(m, r, c2, b2, B2)'
  BY <1>19, <1>20, <1>21 DEF XofAt
<1>23. QED
  BY <1>22 DEF XofInv

LEMMA AllFresh ==
  ASSUME GeneratorInv, XofInv
  PROVE  NoBlockTwice
<1>1. /\ Distinct(asked) /\ Distinct(given)
      /\ \A i \in 1 .. Len(given) : given[i][1] \notin installed
  BY DEF GeneratorInv, UpToKey
<1>2. PICK m \in 0 .. Place[Width] - 1, rest \in Nat, c \in Nat, b \in 0 .. BlockBytes,
           B \in Buffers : XofAt(m, rest, c, b, B)
  BY DEF XofInv
<1>3. Written(expanded, m, c, b) /\ AskedUpTo(encrypted, m, c)
  BY <1>2 DEF XofAt
<1>4. xof.maxlen = m
  BY <1>2, XofFields DEF XofAt
<1>5. Distinct(encrypted)
  BY <1>3 DEF AskedUpTo
<1>6. \A i \in 1 .. Len(expanded) :
        expanded[i] = << << Digits(xof.maxlen), Digits((i - 1) \div BlockBytes) >>,
                         (i - 1) % BlockBytes >>
  BY <1>3, <1>4, Zenon DEF Written, ByteOut, Query
<1>7. QED
  BY <1>1, <1>5, <1>6 DEF NoBlockTwice

-----------------------------------------------------------------------------
(* The steps of the program.                                                *)
DrbgInv == GeneratorInv /\ XofInv

LEMMA DrbgInitially ==
  ASSUME DrbgInit
  PROVE  DrbgInv
<1>1. /\ DRBG_ctx = [Key |-> 0, V |-> NoCounter]
      /\ asked = << >> /\ given = << >> /\ installed = {}
      /\ xof = NoXof /\ expanded = << >> /\ encrypted = << >>
  BY DEF DrbgInit
<1>2. NoCounter \in Counters
  BY NoCounterIs, DigitsAreBytes
<1>3. DRBG_ctx \in [Key : Nat, V : Counters]
  BY <1>1, <1>2
<1>4. \A k \in Nat : UpToKey(k)
  BY <1>1 DEF UpToKey, Distinct
<1>5. GeneratorInv
  BY <1>3, <1>4 DEF GeneratorInv
<1>6. XofInv
  BY <1>1, XofInitially
<1>7. QED
  BY <1>5, <1>6 DEF DrbgInv

LEMMA GeneratorUnchanged ==
  ASSUME GeneratorInv, UNCHANGED << DRBG_ctx, asked, given, installed >>
  PROVE  GeneratorInv'
<1>1. UpToKey(DRBG_ctx.Key)' <=> UpToKey(DRBG_ctx.Key)
  BY DEF UpToKey
<1>2. QED
  BY <1>1 DEF GeneratorInv

LEMMA XofUnchanged ==
  ASSUME XofInv, UNCHANGED << xof, expanded, encrypted >>
  PROVE  XofInv'
<1>1. PICK m \in 0 .. Place[Width] - 1, rest \in Nat, c \in Nat, b \in 0 .. BlockBytes,
           B \in Buffers : XofAt(m, rest, c, b, B)
  BY DEF XofInv
<1>2. XofAt(m, rest, c, b, B)'
  BY <1>1 DEF XofAt
<1>3. QED
  BY <1>2 DEF XofInv

LEMMA DrbgStep ==
  ASSUME DrbgInv, DrbgNext \/ UNCHANGED drbgVars
  PROVE  DrbgInv'
<1>1. GeneratorInv /\ XofInv
  BY DEF DrbgInv
<1>2. ASSUME nist_kat_init \/ \E n \in Requests : randombytes(n),
             UNCHANGED << xof, expanded, encrypted >>
      PROVE  DrbgInv'
  <2>1. GeneratorInv'
    BY <1>1, <1>2, SeedKeeps, RequestKeeps
  <2>2. XofInv'
    BY <1>1, <1>2, XofUnchanged
  <2>3. QED
    BY <2>1, <2>2 DEF DrbgInv
<1>3. ASSUME (\E maxlen \in MaxLengths : seedexpander_init(maxlen))
               \/ (\E xlen \in Requests \ {0} : seedexpander(xlen)),
             UNCHANGED << DRBG_ctx, asked, given, installed >>
      PROVE  DrbgInv'
  <2>1. GeneratorInv'
    BY <1>1, <1>3, GeneratorUnchanged
  <2>2. XofInv'
    <3>1. CASE \E maxlen \in MaxLengths : seedexpander_init(maxlen)
      BY <1>1, <3>1, MakingKeeps
    <3>2. ASSUME NEW xlen \in Requests \ {0}, seedexpander(xlen) PROVE XofInv'
      <4>1. xlen \in Nat
        BY DrbgAssumption
      <4>2. QED
        BY <1>1, <3>2, <4>1, ExpandingKeeps
    <3>3. QED
      BY <1>3, <3>1, <3>2
  <2>3. QED
    BY <2>1, <2>2 DEF DrbgInv
<1>4. ASSUME UNCHANGED drbgVars PROVE DrbgInv'
  <2>1. UNCHANGED << DRBG_ctx, asked, given, installed >> /\ UNCHANGED << xof, expanded, encrypted >>
    BY <1>4 DEF drbgVars
  <2>2. QED
    BY <1>1, <2>1, GeneratorUnchanged, XofUnchanged DEF DrbgInv
<1>5. QED
  BY <1>2, <1>3, <1>4 DEF DrbgNext

RandomInv == program = "random bytes" => DrbgInv

LEMMA ProgramStep ==
  ASSUME [Next]_vars, program = "random bytes"
  PROVE  program' = program /\ (DrbgNext \/ UNCHANGED drbgVars)
<1>1. CASE UNCHANGED vars
  BY <1>1 DEF vars
<1>2. CASE Next
  <2>1. program' = program
    BY <1>2 DEF Next
  <2>2. (Hashing /\ UNCHANGED << tinyVars, slicedVars, aesUnitVars, drbgVars >>) \/ Encrypting
    BY <1>2 DEF Next
  <2>3. ASSUME Encrypting PROVE DrbgNext
    BY <2>3, Zenon DEF Encrypting
  <2>4. QED
    BY <2>1, <2>2, <2>3
<1>3. QED
  BY <1>1, <1>2

\* The random bytes of McEliece: whatever is asked for, in whatever order, no
\* counter is encrypted twice under a key or for an expander of one seed, no byte is
\* given out twice or of a block a key was made of, and an expander's bytes are its
\* consecutive blocks (nistkatrng.c, nistseedexpander.c).
THEOREM RandomIsFresh == Spec => []RandomOnce
<1>1. Init => RandomInv
  <2>1. ASSUME Init, program = "random bytes" PROVE DrbgInv
    <3>1. DrbgInit
      BY <2>1 DEF Init
    <3>2. QED
      BY <3>1, DrbgInitially
  <2>2. QED
    BY <2>1 DEF RandomInv
<1>2. RandomInv /\ [Next]_vars => RandomInv'
  <2>1. ASSUME RandomInv, [Next]_vars, program' = "random bytes" PROVE DrbgInv'
    <3>1. program' = program
      BY <2>1, Zenon DEF Next, vars
    <3>2. DrbgInv /\ (DrbgNext \/ UNCHANGED drbgVars)
      BY <2>1, <3>1, ProgramStep DEF RandomInv
    <3>3. QED
      BY <3>2, DrbgStep
  <2>2. QED
    BY <2>1 DEF RandomInv
<1>3. RandomInv => RandomOnce
  BY AllFresh DEF RandomInv, RandomOnce, DrbgInv
<1>4. QED
  BY <1>1, <1>2, <1>3, PTL DEF Spec

-----------------------------------------------------------------------------
(* The sponges, as a program of its own.                                    *)
SpongeInv == program = "sponge" => Faithful(sponge) /\ Faithful(other)

LEMMA SpongeProgramStep ==
  ASSUME [Next]_vars, program = "sponge"
  PROVE  SpongeNext \/ UNCHANGED spongeVars
<1>1. CASE UNCHANGED vars
  BY <1>1 DEF vars
<1>2. CASE Next
  <2>1. Hashing \/ UNCHANGED << shaVars, versatShaVars, permuteVars, spongeVars >>
    BY <1>2 DEF Next
  <2>2. ASSUME Hashing PROVE SpongeNext
    BY <2>2, Zenon DEF Hashing
  <2>3. QED
    BY <2>1, <2>2
<1>3. QED
  BY <1>1, <1>2

\* SHA-3, SHAKE and cSHAKE: whatever lengths the calls take and give, by the
\* incremental functions, the ones of whole blocks or the ones of a whole message,
\* and though a context is cloned and the clone used on, what a sponge has given
\* out is the standards' output for all it was given (fips202.c, sp800-185.c).
THEOREM SpongesAreStandard == Spec => []StreamsAgree
<1>1. Init => SpongeInv
  <2>1. ASSUME Init, program = "sponge" PROVE Faithful(sponge) /\ Faithful(other)
    <3>1. SpongeInit
      BY <2>1 DEF Init
    <3>2. QED
      BY <3>1, SpongeStarts
  <2>2. QED
    BY <2>1 DEF SpongeInv
<1>2. SpongeInv /\ [Next]_vars => SpongeInv'
  <2>1. ASSUME SpongeInv, [Next]_vars, program' = "sponge"
        PROVE  Faithful(sponge') /\ Faithful(other')
    <3>1. program' = program
      BY <2>1, Zenon DEF Next, vars
    <3>2. Faithful(sponge) /\ Faithful(other)
      BY <2>1, <3>1 DEF SpongeInv
    <3>3. SpongeNext \/ UNCHANGED spongeVars
      BY <2>1, <3>1, SpongeProgramStep
    <3>4. CASE SpongeNext
      BY <3>2, <3>4, SpongeSteps
    <3>5. CASE UNCHANGED spongeVars
      BY <3>2, <3>5 DEF spongeVars
    <3>6. QED
      BY <3>3, <3>4, <3>5
  <2>2. QED
    BY <2>1 DEF SpongeInv
<1>3. SpongeInv => StreamsAgree
  BY SpongeFound DEF SpongeInv, StreamsAgree
<1>4. QED
  BY <1>1, <1>2, <1>3, PTL DEF Spec

-----------------------------------------------------------------------------
(* SHA-2, in software and by the accelerator, as programs of their own.     *)
HashInv ==
  /\ program = "sha2" => CarriesBoth /\ ShaAgrees
  /\ program = "accelerated sha" => UnitInv

LEMMA ShaProgramStep ==
  ASSUME [Next]_vars, program = "sha2"
  PROVE  ShaNext \/ UNCHANGED shaVars
<1>1. CASE UNCHANGED vars
  BY <1>1 DEF vars
<1>2. CASE Next
  <2>1. Hashing \/ UNCHANGED << shaVars, versatShaVars, permuteVars, spongeVars >>
    BY <1>2 DEF Next
  <2>2. ASSUME Hashing PROVE ShaNext
    BY <2>2, Zenon DEF Hashing
  <2>3. QED
    BY <2>1, <2>2
<1>3. QED
  BY <1>1, <1>2

LEMMA AcceleratedProgramStep ==
  ASSUME [Next]_vars, program = "accelerated sha"
  PROVE  VersatShaNext \/ UNCHANGED versatShaVars
<1>1. CASE UNCHANGED vars
  BY <1>1 DEF vars
<1>2. CASE Next
  <2>1. Hashing \/ UNCHANGED << shaVars, versatShaVars, permuteVars, spongeVars >>
    BY <1>2 DEF Next
  <2>2. ASSUME Hashing PROVE VersatShaNext
    BY <2>2, Zenon DEF Hashing
  <2>3. QED
    BY <2>1, <2>2
<1>3. QED
  BY <1>1, <1>2

LEMMA CalledUnchanged ==
  ASSUME NEW m, Called(m), UNCHANGED versatShaVars
  PROVE  Called(m)'
<1>1. PICK N \in Nat \ {0} : \E j \in 0 .. N :
        BlockCount(Completed(m)) = N /\ todo = BlocksFrom(Completed(m), j, N) /\ Phase(Completed(m), N, j)
  BY DEF Called
<1>2. PICK j \in 0 .. N :
        BlockCount(Completed(m)) = N /\ todo = BlocksFrom(Completed(m), j, N) /\ Phase(Completed(m), N, j)
  BY <1>1
<1>3. PICK p : p = Completed(m)
  OBVIOUS
<1>4. /\ todo' = todo /\ calling' = calling /\ initVersat' = initVersat /\ reading' = reading
      /\ fetched' = fetched /\ clock' = clock /\ F' = F /\ M' = M /\ held' = held /\ State' = State
  BY DEF versatShaVars
<1>5. Running' <=> Running
  BY <1>4 DEF Running
<1>6. /\ Asks(p, j)' <=> Asks(p, j)
      /\ During(p, j)' <=> During(p, j)
      /\ Fetched(p, j)' <=> Fetched(p, j)
      /\ Flushing(p, N)' <=> Flushing(p, N)
      /\ Flushed(p, N)' <=> Flushed(p, N)
  <2>1. Asks(p, j)' <=> Asks(p, j)
    BY <1>4 DEF Asks
  <2>2. During(p, j)' <=> During(p, j)
    BY <1>4, <1>5 DEF During
  <2>3. Fetched(p, j)' <=> Fetched(p, j)
    BY <1>4 DEF Fetched
  <2>4. Flushing(p, N)' <=> Flushing(p, N)
    BY <1>4, <1>5 DEF Flushing
  <2>5. Flushed(p, N)' <=> Flushed(p, N)
    BY <1>4 DEF Flushed
  <2>6. QED
    BY <2>1, <2>2, <2>3, <2>4, <2>5
<1>7. Phase(p, N, j)'
  BY <1>2, <1>3, <1>6 DEF Phase
<1>8. QED
  BY <1>2, <1>3, <1>4, <1>7 DEF Called

LEMMA UnitUnchanged ==
  ASSUME UnitInv, UNCHANGED versatShaVars
  PROVE  UnitInv'
<1>1. PICK n \in Nat : ListOf(hashes, n) /\ (BetweenCalls(hashes, n) \/ Busy(hashes, n))
  BY DEF UnitInv
<1>2. /\ calling' = calling /\ clock' = clock /\ initVersat' = initVersat /\ hashes' = hashes
      /\ F' = F /\ M' = M
  BY DEF versatShaVars
<1>3. PICK h : h = hashes
  OBVIOUS
<1>4. BetweenCalls(h, n)' \/ Busy(h, n)'
  <2>1. CASE BetweenCalls(h, n)
    BY <1>2, <2>1 DEF BetweenCalls
  <2>2. CASE Busy(h, n)
    <3>1. PICK m : m = h[n].message
      OBVIOUS
    <3>2. Called(m)'
      BY <2>2, <3>1, CalledUnchanged DEF Busy
    <3>3. QED
      BY <1>2, <2>2, <3>1, <3>2 DEF Busy
  <2>3. QED
    BY <1>1, <1>3, <2>1, <2>2
<1>5. Shaped(F', M')
  BY <1>2 DEF UnitInv
<1>6. QED
  BY <1>1, <1>2, <1>3, <1>4, <1>5 DEF UnitInv

\* SHA-256: a message fed to sha2.c in any calls, by a context or by its clone, and
\* a message hashed by the accelerator (versat_crypto.c and the units it drives), of
\* any length and whatever was hashed before, has the digest of the standard.
THEOREM DigestsAreStandard == Spec => []DigestsUnaffected
<1>1. Init => HashInv
  <2>1. ASSUME Init, program = "sha2" PROVE CarriesBoth /\ ShaAgrees
    <3>1. ShaInit
      BY <2>1 DEF Init
    <3>2. QED
      BY <3>1, ShaStarts
  <2>2. ASSUME Init, program = "accelerated sha" PROVE UnitInv
    <3>1. VersatShaInit
      BY <2>2 DEF Init
    <3>2. QED
      BY <3>1, VersatShaStarts
  <2>3. QED
    BY <2>1, <2>2 DEF HashInv
<1>2. HashInv /\ [Next]_vars => HashInv'
  <2>1. ASSUME [Next]_vars PROVE program' = program
    BY <2>1, Zenon DEF Next, vars
  <2>2. ASSUME HashInv, [Next]_vars, program = "sha2" PROVE CarriesBoth' /\ ShaAgrees'
    <3>1. CarriesBoth /\ ShaAgrees
      BY <2>2 DEF HashInv
    <3>2. ShaNext \/ UNCHANGED shaVars
      BY <2>2, ShaProgramStep
    <3>3. CASE ShaNext
      <4>1. Feeds \subseteq Nat /\ Rests \subseteq Nat
        BY ShaAssumption
      <4>2. QED
        BY <3>1, <3>3, <4>1, ShaSteps
    <3>4. CASE UNCHANGED shaVars
      BY <3>1, <3>4 DEF shaVars, CarriesBoth, ShaAgrees
    <3>5. QED
      BY <3>2, <3>3, <3>4
  <2>3. ASSUME HashInv, [Next]_vars, program = "accelerated sha" PROVE UnitInv'
    <3>1. UnitInv
      BY <2>3 DEF HashInv
    <3>2. VersatShaNext \/ UNCHANGED versatShaVars
      BY <2>3, AcceleratedProgramStep
    <3>3. CASE VersatShaNext
      <4>1. MessageSizes \subseteq Nat
        BY VersatShaAssumption
      <4>2. QED
        BY <3>1, <3>3, <4>1, VersatShaSteps
    <3>4. CASE UNCHANGED versatShaVars
      BY <3>1, <3>4, UnitUnchanged
    <3>5. QED
      BY <3>2, <3>3, <3>4
  <2>4. QED
    BY <2>1, <2>2, <2>3 DEF HashInv
<1>3. HashInv => DigestsUnaffected
  BY UnitInvRight DEF HashInv, DigestsUnaffected
<1>4. QED
  BY <1>1, <1>2, <1>3, PTL DEF Spec
===============================================================================
