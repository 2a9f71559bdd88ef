------------------------------- MODULE ShaProofs -------------------------------
(***************************************************************************)
(* SHA-256 in software and on the accelerator, for messages of every       *)
(* length.                                                                 *)
(*                                                                         *)
(* The block function: the sixteen words that are expanded in place are    *)
(* those of the standard's schedule (ExpandMoves), so that its rounds, in  *)
(* four quarters of sixteen, are the standard's 64 (CompressIs).           *)
(*                                                                         *)
(* The padding: what finalize hashes behind the whole blocks of a message, *)
(* with a length that it writes byte by byte, is what the standard pads    *)
(* the whole message with (FilledIs).  So a context that holds the hash of *)
(* the blocks it was fed (Holds) gives the digest of everything, however   *)
(* that was cut into calls (FinalizedIs), and so does a clone (ShaSteps).  *)
(*                                                                         *)
(* The units: in clock j + 1 of its own an xunitF has done j               *)
(* rounds (FAt), an xunitM holds the sixteen words before the one that it  *)
(* makes (MAt); each starts on the output of the one before it in the      *)
(* clock that the latencies say (Pipe), so that at the end of a run State  *)
(* has the block compressed that VRead sent out (ClockStep).               *)
(*                                                                         *)
(* The driver: a run reads one block and hashes the one before.  In every  *)
(* part of VersatSHA, the blocks that were read are those of the padded    *)
(* message so far, and all but the last are hashed (Called); the first run *)
(* of a message, whatever it hashed, leaves the initial values (RunIsOver). *)
(***************************************************************************)
EXTENDS VersatSha, NaturalsInduction, WellFoundedInduction, TLAPS

-----------------------------------------------------------------------------
(* Induction over the natural numbers, as a statement about a set; and      *)
(* functions that are defined from one number to the next.                  *)
LEMMA AllNumbers ==
  ASSUME NEW T, T \subseteq Nat, 0 \in T, \A n \in T : n + 1 \in T
  PROVE  T = Nat
<1> DEFINE R == {ss \in Nat \X Nat : ss[1] < ss[2]}
<1>1. IsWellFoundedOn(R, Nat)
  BY NatLessThanWellFounded DEF OpToRel
<1>2. \A x, y \in Nat : <<y, x>> \notin R => x <= y
  OBVIOUS
<1> HIDE DEF R
<1>3. ASSUME Nat \ T # {} PROVE FALSE
  <2>1. PICK x \in Nat \ T : \A y \in Nat \ T : <<y, x>> \notin R
    BY <1>1, <1>3, WFMin
  <2>2. x # 0 /\ x - 1 \in Nat /\ ~(x <= x - 1)
    BY <2>1
  <2>3. x - 1 \in T
    BY <1>2, <2>1, <2>2
  <2>4. QED
    BY <2>1, <2>2, <2>3
<1>4. QED
  BY <1>3

LEMMA UpTo ==
  ASSUME NEW N \in Nat, NEW T, T \subseteq 0 .. N, 0 \in T,
         \A n \in T : n < N => n + 1 \in T
  PROVE  T = 0 .. N
<1> DEFINE U == {n \in Nat : n <= N => n \in T}
<1>1. 0 \in U /\ U \subseteq Nat
  OBVIOUS
<1>2. \A n \in U : n + 1 \in U
  OBVIOUS
<1>3. U = Nat
  <2> HIDE DEF U
  <2>1. QED
    BY <1>1, <1>2, AllNumbers
<1>4. ASSUME NEW n \in 0 .. N PROVE n \in T
  <2>1. n \in U /\ n <= N
    BY <1>3
  <2>2. QED
    BY <2>1
<1>5. QED
  <2> HIDE DEF U
  <2>1. QED
    BY <1>4

Steps(N, S, step) == \A x \in S : \A k \in 1 .. N : step[x][k] \in S

Iterates(n, S, base, step, g) ==
  /\ g \in [0 .. n -> S]
  /\ g[0] = base
  /\ \A k \in 1 .. n : g[k] = step[g[k - 1]][k]

LEMMA Iteration ==
  ASSUME NEW N \in Nat, NEW S, NEW base \in S, NEW step, Steps(N, S, step)
  PROVE  \E g : Iterates(N, S, base, step, g)
<1> DEFINE Begun(n, g) == Iterates(n, S, base, step, g)
           T == {n \in 0 .. N : \E g : Begun(n, g)}
<1>1. 0 \in T
  <2> DEFINE first == [k \in 0 .. 0 |-> base]
  <2>1. first[0] = base /\ first \in [0 .. 0 -> S] /\ 1 .. 0 = {}
    OBVIOUS
  <2>2. Begun(0, first)
    <3> HIDE DEF first
    <3>1. QED
      BY <2>1 DEF Iterates
  <2>3. QED
    <3> HIDE DEF Begun
    <3>1. QED
      BY <2>2
<1>2. ASSUME NEW n \in T, n < N PROVE n + 1 \in T
  <2>1. PICK g : Begun(n, g)
    OBVIOUS
  <2> DEFINE next == step[g[n]][n + 1]
             more == [k \in 0 .. n + 1 |-> IF k = n + 1 THEN next ELSE g[k]]
  <2>2. n \in Nat /\ n + 1 \in 1 .. N
    BY <1>2
  <2>3. next \in S
    <3>1. g[n] \in S
      BY <2>1, <2>2 DEF Iterates
    <3>2. QED
      BY <2>2, <3>1 DEF Steps
  <2>4. more \in [0 .. n + 1 -> S]
    <3> HIDE DEF next
    <3>1. \A k \in 0 .. n + 1 : k # n + 1 => k \in 0 .. n
      BY <2>2
    <3>2. QED
      BY <2>1, <2>3, <3>1 DEF Iterates
  <2>5. more[0] = base
    BY <2>1, <2>2 DEF Iterates
  <2>6. ASSUME NEW k \in 1 .. n + 1 PROVE more[k] = step[more[k - 1]][k]
    <3>1. k - 1 \in 0 .. n + 1 /\ k - 1 # n + 1 /\ k \in 0 .. n + 1
      BY <2>2
    <3>2. more[k - 1] = g[k - 1]
      BY <3>1
    <3>3. CASE k = n + 1
      <4>1. more[k] = next /\ k - 1 = n
        BY <2>2, <3>1, <3>3
      <4>2. QED
        BY <3>2, <3>3, <4>1
    <3>4. CASE k # n + 1
      <4>1. k \in 1 .. n
        BY <2>2, <3>4
      <4>2. g[k] = step[g[k - 1]][k]
        BY <2>1, <4>1 DEF Iterates
      <4>3. more[k] = g[k]
        BY <3>1, <3>4
      <4>4. QED
        BY <3>2, <4>2, <4>3
    <3>5. QED
      BY <3>3, <3>4
  <2>7. Begun(n + 1, more)
    <3> HIDE DEF more
    <3>1. QED
      BY <2>4, <2>5, <2>6 DEF Iterates
  <2>8. QED
    <3> HIDE DEF Begun
    <3>1. n + 1 \in 0 .. N
      BY <2>2
    <3>2. QED
      BY <2>7, <3>1
<1>3. T = 0 .. N
  <2>1. T \subseteq 0 .. N
    OBVIOUS
  <2> HIDE DEF T
  <2>2. QED
    BY <1>1, <1>2, <2>1, UpTo
<1>4. QED
  BY <1>3

LEMMA Agree ==
  ASSUME NEW N \in Nat, NEW g, NEW h, g[0] = h[0],
         \A k \in 1 .. N : g[k - 1] = h[k - 1] => g[k] = h[k]
  PROVE  \A k \in 0 .. N : g[k] = h[k]
<1> DEFINE T == {k \in 0 .. N : g[k] = h[k]}
<1>1. 0 \in T /\ T \subseteq 0 .. N
  OBVIOUS
<1>2. ASSUME NEW k \in T, k < N PROVE k + 1 \in T
  <2>1. k + 1 \in 1 .. N /\ (k + 1) - 1 = k /\ k + 1 \in 0 .. N
    BY <1>2
  <2>2. QED
    BY <2>1
<1>3. T = 0 .. N
  <2> HIDE DEF T
  <2>1. QED
    BY <1>1, <1>2, UpTo
<1>4. QED
  BY <1>3
-----------------------------------------------------------------------------
(* Quotients and products.                                                  *)
LEMMA Quotients ==
  ASSUME NEW s \in Nat \ {0}, NEW n \in Nat
  PROVE  /\ n \div s \in Nat /\ n % s \in 0 .. s - 1
         /\ n = s * (n \div s) + (n % s)
  OBVIOUS

LEMMA Remainders ==
  ASSUME NEW s \in Nat \ {0}, NEW n \in Nat
  PROVE  \E r \in 0 .. s - 1 : r = n % s /\ \E q \in Nat : n = s * q + r
<1>1. n \div s \in Nat /\ n % s \in 0 .. s - 1 /\ n = s * (n \div s) + (n % s)
  OBVIOUS
<1>2. QED
  BY <1>1, Zenon

LEMMA Multiples ==
  ASSUME NEW s \in Nat \ {0}, NEW n \in Nat, n % s = 0
  PROVE  \E q \in Nat : n = s * q
<1>1. n \div s \in Nat /\ n = s * (n \div s)
  OBVIOUS
<1>2. QED
  BY <1>1, Zenon

LEMMA Products ==
  ASSUME NEW s \in Nat, NEW j \in Nat, NEW k \in Nat, j <= k
  PROVE  s * j \in Nat /\ s * j <= s * k
<1>1. PICK d \in Nat : k = j + d
  <2>1. k - j \in Nat /\ k = j + (k - j)
    OBVIOUS
  <2>2. QED
    BY <2>1
<1>2. s * k = s * j + s * d /\ s * d \in Nat /\ s * j \in Nat
  BY <1>1
<1>3. PICK x \in Nat, y \in Nat, z \in Nat : x = s * j /\ y = s * d /\ z = s * k /\ z = x + y
  BY <1>1, <1>2
<1>4. QED
  BY <1>3

LEMMA Divided ==
  ASSUME NEW s \in Nat \ {0}, NEW q \in Nat, NEW u \in 0 .. s - 1, NEW n \in Nat, n = s * q + u
  PROVE  n \div s = q /\ n % s = u
<1>1. n \in Nat
  OBVIOUS
<1>2. PICK p \in Nat, v \in 0 .. s - 1 : p = n \div s /\ v = n % s /\ n = s * p + v
  BY <1>1, Quotients
<1>3. s * q \in Nat /\ s * p \in Nat
  OBVIOUS
<1>4. ASSUME q < p PROVE FALSE
  <2>1. q + 1 \in Nat /\ q + 1 <= p /\ s * (q + 1) = s * q + s
    BY <1>4
  <2>2. PICK x \in Nat, y \in Nat, z \in Nat : x = s * q /\ y = s * (q + 1) /\ z = s * p /\ y <= z
    BY <1>3, <2>1, Products
  <2>3. QED
    BY <1>2, <2>1, <2>2
<1>5. ASSUME p < q PROVE FALSE
  <2>1. p + 1 \in Nat /\ p + 1 <= q /\ s * (p + 1) = s * p + s
    BY <1>5
  <2>2. PICK x \in Nat, y \in Nat, z \in Nat : x = s * p /\ y = s * (p + 1) /\ z = s * q /\ y <= z
    BY <1>3, <2>1, Products
  <2>3. QED
    BY <1>2, <2>1, <2>2
<1>6. q = p
  BY <1>4, <1>5
<1>7. QED
  BY <1>2, <1>3, <1>6

-----------------------------------------------------------------------------
(* Sequences.                                                               *)
LEMMA Concatenated ==
  ASSUME NEW S, NEW s \in Seq(S), NEW t \in Seq(S)
  PROVE  /\ s \o t \in Seq(S) /\ Len(s \o t) = Len(s) + Len(t)
         /\ Len(s) \in Nat /\ Len(t) \in Nat
         /\ \A i \in 1 .. Len(s) : (s \o t)[i] = s[i]
         /\ \A k \in 1 .. Len(t) : (s \o t)[Len(s) + k] = t[k]
         /\ \A i \in 1 .. Len(s \o t) :
              i \in 1 .. Len(s) \/ \E k \in 1 .. Len(t) : i = Len(s) + k
<1>1. /\ s \o t \in Seq(S) /\ Len(s \o t) = Len(s) + Len(t)
      /\ Len(s) \in Nat /\ Len(t) \in Nat
      /\ \A i \in 1 .. Len(s) : (s \o t)[i] = s[i]
      /\ \A k \in 1 .. Len(t) : (s \o t)[Len(s) + k] = t[k]
  OBVIOUS
<1>2. PICK m \in Nat, n \in Nat : m = Len(s) /\ n = Len(t)
  BY <1>1
<1>3. \A i \in 1 .. m + n : i \in 1 .. m \/ \E k \in 1 .. n : i = m + k
  <2>1. ASSUME NEW i \in 1 .. m + n, i > m PROVE \E k \in 1 .. n : i = m + k
    <3>1. i - m \in 1 .. n /\ i = m + (i - m)
      BY <2>1
    <3>2. QED
      BY <3>1
  <2>2. QED
    BY <2>1
<1>4. QED
  BY <1>1, <1>2, <1>3

IsJoin(z, s, t, S) ==
  /\ z \in Seq(S) /\ Len(z) = Len(s) + Len(t)
  /\ \A i \in 1 .. Len(s) : z[i] = s[i]
  /\ \A k \in 1 .. Len(t) : z[Len(s) + k] = t[k]

LEMMA Joining ==
  ASSUME NEW S, NEW s \in Seq(S), NEW t \in Seq(S), NEW z, z = s \o t
  PROVE  IsJoin(z, s, t, S)
<1>1. /\ s \o t \in Seq(S) /\ Len(s \o t) = Len(s) + Len(t)
      /\ \A i \in 1 .. Len(s) : (s \o t)[i] = s[i]
      /\ \A k \in 1 .. Len(t) : (s \o t)[Len(s) + k] = t[k]
  BY Concatenated
<1>2. IsJoin(s \o t, s, t, S)
  BY <1>1 DEF IsJoin
<1>3. QED
  BY <1>2

LEMMA FunctionIsSeq ==
  ASSUME NEW S, NEW n \in Nat, NEW f \in [1 .. n -> S]
  PROVE  f \in Seq(S) /\ Len(f) = n /\ \A i \in 1 .. n : f[i] \in S
  OBVIOUS

LEMMA SequenceIs ==
  ASSUME NEW S, NEW s \in Seq(S)
  PROVE  s = [ i \in 1 .. Len(s) |-> s[i] ] /\ Len(s) \in Nat
  OBVIOUS

LEMMA SameSequence ==
  ASSUME NEW S, NEW T, NEW s \in Seq(S), NEW t \in Seq(T), NEW n, Len(s) = n, Len(t) = n,
         \A i \in 1 .. n : s[i] = t[i]
  PROVE  s = t
<1>1. s = [ i \in 1 .. Len(s) |-> s[i] ] /\ t = [ i \in 1 .. Len(t) |-> t[i] ]
  BY SequenceIs
<1>2. QED
  BY <1>1

\* One more entry.
LEMMA Longer ==
  ASSUME NEW E, NEW c \in Nat
  PROVE  Append([ k \in 1 .. c |-> E[k] ], E[c + 1]) = [ k \in 1 .. c + 1 |-> E[k] ]
<1> DEFINE S == { E[k] : k \in 1 .. c + 1 }
           s == [ k \in 1 .. c |-> E[k] ]
           t == [ k \in 1 .. c + 1 |-> E[k] ]
<1>1. /\ \A k \in 1 .. c : k \in 1 .. c + 1 /\ s[k] = E[k]
      /\ \A k \in 1 .. c + 1 : E[k] \in S
      /\ c + 1 \in 1 .. c + 1
  OBVIOUS
<1>2. s \in [ 1 .. c -> S ] /\ t \in [ 1 .. c + 1 -> S ]
  BY <1>1
<1> HIDE DEF s, t, S
<1>3. s \in Seq(S) /\ Len(s) = c /\ t \in Seq(S) /\ Len(t) = c + 1 /\ c + 1 \in Nat
  BY <1>2, FunctionIsSeq
<1>4. PICK x \in S : x = E[c + 1]
  BY <1>1
<1>5. PICK u : u = Append(s, x)
  OBVIOUS
<1>6. u \in Seq(S) /\ Len(u) = c + 1 /\ (\A k \in 1 .. c : u[k] = s[k]) /\ u[c + 1] = x
  BY <1>3, <1>5
<1>7. \A k \in 1 .. c + 1 : u[k] = t[k]
  <2>1. \A k \in 1 .. c + 1 : k \in 1 .. c \/ k = c + 1
    OBVIOUS
  <2>2. \A k \in 1 .. c + 1 : t[k] = E[k]
    BY DEF t
  <2>3. QED
    BY <1>1, <1>4, <1>6, <2>1, <2>2
<1>8. u = t
  <2>1. PICK n \in Nat : n = c + 1
    OBVIOUS
  <2>2. Len(u) = n /\ Len(t) = n /\ \A k \in 1 .. n : u[k] = t[k]
    BY <1>3, <1>6, <1>7, <2>1
  <2>3. u \in Seq(S) /\ t \in Seq(S)
    BY <1>3, <1>6
  <2>4. QED
    BY <2>2, <2>3, SameSequence
<1>9. QED
  BY <1>4, <1>5, <1>8 DEF s, t

\* A piece of a sequence.
LEMMA Piece ==
  ASSUME NEW S, NEW s \in Seq(S), NEW a \in Nat, NEW b \in Nat, a <= b, b <= Len(s)
  PROVE  /\ SubSeq(s, a + 1, b) \in Seq(S) /\ Len(SubSeq(s, a + 1, b)) = b - a
         /\ \A i \in 1 .. b - a : SubSeq(s, a + 1, b)[i] = s[a + i]
<1>1. Len(SubSeq(s, a + 1, b)) = b - a /\ SubSeq(s, a + 1, b) \in Seq(S)
  OBVIOUS
<1>2. \A i \in 1 .. b - a : SubSeq(s, a + 1, b)[i] = s[(a + 1) + i - 1]
  OBVIOUS
<1>3. \A i \in 1 .. b - a : (a + 1) + i - 1 = a + i
  OBVIOUS
<1>4. QED
  BY <1>1, <1>2, <1>3

HasLength(m, n) == Len(m) = n

LEMMA Joined ==
  ASSUME NEW S, NEW s \in Seq(S), NEW a \in Nat, NEW b \in Nat, a <= b, b <= Len(s)
  PROVE  SubSeq(s, 1, a) \o SubSeq(s, a + 1, b) = SubSeq(s, 1, b)
<1>1. PICK l \in Nat : l = Len(s) /\ a <= l /\ b <= l
  BY SequenceIs
<1>2. PICK t \in Seq(S) : t = SubSeq(s, 1, a) /\ Len(t) = a /\ \A i \in 1 .. a : t[i] = s[i]
  <2>1. 0 <= a /\ a <= Len(s) /\ 0 \in Nat /\ 0 + 1 = 1 /\ a - 0 = a
    BY <1>1
  <2>2. /\ SubSeq(s, 0 + 1, a) \in Seq(S) /\ Len(SubSeq(s, 0 + 1, a)) = a - 0
        /\ \A i \in 1 .. a - 0 : SubSeq(s, 0 + 1, a)[i] = s[0 + i]
    BY <2>1, Piece
  <2>3. \A i \in 1 .. a : 0 + i = i
    OBVIOUS
  <2>4. QED
    BY <2>1, <2>2, <2>3
<1>3. PICK u \in Seq(S) : /\ u = SubSeq(s, a + 1, b) /\ Len(u) = b - a
                          /\ \A i \in 1 .. b - a : u[i] = s[a + i]
  <2>1. /\ SubSeq(s, a + 1, b) \in Seq(S) /\ Len(SubSeq(s, a + 1, b)) = b - a
        /\ \A i \in 1 .. b - a : SubSeq(s, a + 1, b)[i] = s[a + i]
    BY Piece
  <2>2. PICK u : u = SubSeq(s, a + 1, b)
    OBVIOUS
  <2>3. QED
    BY <2>1, <2>2
<1>4. PICK v \in Seq(S) : v = SubSeq(s, 1, b) /\ Len(v) = b /\ \A i \in 1 .. b : v[i] = s[i]
  <2>1. 0 <= b /\ b <= Len(s) /\ 0 \in Nat /\ 0 + 1 = 1 /\ b - 0 = b
    BY <1>1
  <2>2. /\ SubSeq(s, 0 + 1, b) \in Seq(S) /\ Len(SubSeq(s, 0 + 1, b)) = b - 0
        /\ \A i \in 1 .. b - 0 : SubSeq(s, 0 + 1, b)[i] = s[0 + i]
    BY <2>1, Piece
  <2>3. \A i \in 1 .. b : 0 + i = i
    OBVIOUS
  <2>4. QED
    BY <2>1, <2>2, <2>3
<1>5. PICK w : w = t \o u
  OBVIOUS
<1>6. /\ w \in Seq(S) /\ Len(w) = b
      /\ \A i \in 1 .. a : w[i] = t[i]
      /\ \A k \in 1 .. b - a : w[a + k] = u[k]
  <2>1. /\ w \in Seq(S) /\ Len(w) = Len(t) + Len(u)
        /\ \A i \in 1 .. Len(t) : w[i] = t[i]
        /\ \A k \in 1 .. Len(u) : w[Len(t) + k] = u[k]
    <3>1. IsJoin(w, t, u, S)
      BY <1>5, Joining
    <3>2. QED
      BY <3>1 DEF IsJoin
  <2>2. a + (b - a) = b
    OBVIOUS
  <2>3. QED
    BY <1>2, <1>3, <2>1, <2>2
<1>7. \A i \in 1 .. b : w[i] = v[i]
  <2>1. ASSUME NEW i \in 1 .. b PROVE w[i] = s[i]
    <3>1. CASE i <= a
      <4>1. i \in 1 .. a
        BY <3>1
      <4>2. QED
        BY <1>2, <1>6, <4>1
    <3>2. CASE i > a
      <4>1. PICK k \in 1 .. b - a : i = a + k
        <5>1. i - a \in 1 .. b - a /\ i = a + (i - a)
          BY <3>2
        <5>2. QED
          BY <5>1
      <4>2. QED
        BY <1>3, <1>6, <4>1
    <3>3. QED
      BY <3>1, <3>2
  <2>2. QED
    BY <1>4, <2>1
<1>8. w = v
  <2>1. w \in Seq(S) /\ v \in Seq(S) /\ Len(w) = b /\ Len(v) = b
    BY <1>4, <1>6
  <2>2. QED
    BY <1>7, <2>1, SameSequence
<1>9. QED
  BY <1>2, <1>3, <1>4, <1>5, <1>8

LEMMA Associated ==
  ASSUME NEW S, NEW s \in Seq(S), NEW t \in Seq(S), NEW u \in Seq(S)
  PROVE  (s \o t) \o u = s \o (t \o u)
<1>1. PICK a \in Nat, b \in Nat, c \in Nat : a = Len(s) /\ b = Len(t) /\ c = Len(u)
  BY SequenceIs
<1>0. PICK p \in Nat, q \in Nat : p = a + b /\ q = b + c
  OBVIOUS
<1>2. PICK st \in Seq(S) : /\ st = s \o t /\ Len(st) = p
                           /\ \A i \in 1 .. a : st[i] = s[i]
                           /\ \A k \in 1 .. b : st[a + k] = t[k]
  <2>1. PICK z : z = s \o t
    OBVIOUS
  <2>2. IsJoin(z, s, t, S)
    BY <2>1, Joining
  <2>3. /\ z \in Seq(S) /\ Len(z) = Len(s) + Len(t)
        /\ \A i \in 1 .. Len(s) : z[i] = s[i]
        /\ \A k \in 1 .. Len(t) : z[Len(s) + k] = t[k]
    BY <2>2 DEF IsJoin
  <2>4. QED
    BY <1>0, <1>1, <2>1, <2>3
<1>3. PICK tu \in Seq(S) : /\ tu = t \o u /\ Len(tu) = q
                           /\ \A i \in 1 .. b : tu[i] = t[i]
                           /\ \A k \in 1 .. c : tu[b + k] = u[k]
  <2>1. PICK z : z = t \o u
    OBVIOUS
  <2>2. IsJoin(z, t, u, S)
    BY <2>1, Joining
  <2>3. /\ z \in Seq(S) /\ Len(z) = Len(t) + Len(u)
        /\ \A i \in 1 .. Len(t) : z[i] = t[i]
        /\ \A k \in 1 .. Len(u) : z[Len(t) + k] = u[k]
    BY <2>2 DEF IsJoin
  <2>4. QED
    BY <1>0, <1>1, <2>1, <2>3
<1>4. PICK x \in Seq(S) : /\ x = st \o u /\ Len(x) = p + c
                          /\ \A i \in 1 .. p : x[i] = st[i]
                          /\ \A k \in 1 .. c : x[p + k] = u[k]
  <2>1. PICK z : z = st \o u
    OBVIOUS
  <2>2. IsJoin(z, st, u, S)
    BY <2>1, Joining
  <2>3. /\ z \in Seq(S) /\ Len(z) = Len(st) + Len(u)
        /\ \A i \in 1 .. Len(st) : z[i] = st[i]
        /\ \A k \in 1 .. Len(u) : z[Len(st) + k] = u[k]
    BY <2>2 DEF IsJoin
  <2>4. QED
    BY <1>1, <1>2, <2>1, <2>3
<1>5. PICK y \in Seq(S) : /\ y = s \o tu /\ Len(y) = a + q
                          /\ \A i \in 1 .. a : y[i] = s[i]
                          /\ \A k \in 1 .. q : y[a + k] = tu[k]
  <2>1. PICK z : z = s \o tu
    OBVIOUS
  <2>2. IsJoin(z, s, tu, S)
    BY <2>1, Joining
  <2>3. /\ z \in Seq(S) /\ Len(z) = Len(s) + Len(tu)
        /\ \A i \in 1 .. Len(s) : z[i] = s[i]
        /\ \A k \in 1 .. Len(tu) : z[Len(s) + k] = tu[k]
    BY <2>2 DEF IsJoin
  <2>4. QED
    BY <1>1, <1>3, <2>1, <2>3
<1>6. ASSUME NEW i \in 1 .. a + b + c PROVE x[i] = y[i]
  <2>1. CASE i <= a
    <3>1. i \in 1 .. p /\ i \in 1 .. a
      BY <1>0, <2>1
    <3>2. QED
      BY <1>2, <1>4, <1>5, <3>1
  <2>2. CASE i > a /\ i <= a + b
    <3>1. PICK k \in 1 .. b : i = a + k /\ k \in 1 .. b + c
      <4>1. i - a \in 1 .. b /\ i = a + (i - a)
        BY <2>2
      <4>2. QED
        BY <4>1
    <3>2. i \in 1 .. p /\ k \in 1 .. q
      BY <1>0, <2>2, <3>1
    <3>3. x[i] = st[i] /\ y[i] = tu[k]
      BY <1>4, <1>5, <3>1, <3>2
    <3>5. st[i] = t[k] /\ tu[k] = t[k]
      <4>1. st[a + k] = t[k]
        BY <1>2
      <4>2. tu[k] = t[k]
        BY <1>3
      <4>3. QED
        BY <3>1, <4>1, <4>2
    <3>4. QED
      BY <3>3, <3>5
  <2>3. CASE i > a + b
    <3>1. PICK k \in 1 .. c : i = p + k
      <4>1. i - p \in 1 .. c /\ i = p + (i - p)
        BY <1>0, <2>3
      <4>2. QED
        BY <4>1
    <3>2. PICK j \in 1 .. q : j = b + k /\ i = a + j
      BY <1>0, <3>1
    <3>3. x[i] = u[k]
      BY <1>4, <3>1
    <3>4. y[i] = tu[j]
      BY <1>5, <3>2
    <3>6. tu[j] = u[k]
      <4>1. tu[b + k] = u[k]
        BY <1>3
      <4>2. QED
        BY <3>2, <4>1
    <3>5. QED
      BY <3>3, <3>4, <3>6
  <2>4. QED
    BY <2>1, <2>2, <2>3
<1>7. x = y
  <2>1. PICK n : n = a + b + c
    OBVIOUS
  <2>2. Len(x) = n /\ Len(y) = n /\ \A i \in 1 .. n : x[i] = y[i]
    <3>1. p + c = n /\ a + q = n
      BY <1>0, <2>1
    <3>2. \A i \in 1 .. n : x[i] = y[i]
      BY <1>6, <2>1
    <3>3. QED
      BY <1>4, <1>5, <3>1, <3>2
  <2>3. x \in Seq(S) /\ y \in Seq(S)
    BY <1>4, <1>5
  <2>4. QED
    BY <2>2, <2>3, SameSequence
<1>8. QED
  BY <1>2, <1>3, <1>4, <1>5, <1>7

LEMMA NothingMore ==
  ASSUME NEW S, NEW s \in Seq(S)
  PROVE  s \o << >> = s /\ SubSeq(s, 1, 0) = << >> /\ SubSeq(s, 1, Len(s)) = s
  OBVIOUS

Cat(s, t) == s \o t

Slice(s, a, b) == SubSeq(s, a + 1, b)

LEMMA CatIs ==
  ASSUME NEW S, NEW s \in Seq(S), NEW t \in Seq(S)
  PROVE  Cat(s, t) \in Seq(S)
  BY Concatenated DEF Cat

LEMMA CatAgain ==
  ASSUME NEW S, NEW s \in Seq(S), NEW t \in Seq(S), NEW u \in Seq(S)
  PROVE  Cat(Cat(s, t), u) = Cat(s, Cat(t, u))
  BY Associated DEF Cat

LEMMA CatNothing ==
  ASSUME NEW S, NEW s \in Seq(S)
  PROVE  Cat(s, Slice(s, 0, 0)) = s /\ Slice(s, 0, Len(s)) = s
  BY NothingMore DEF Cat, Slice

LEMMA SliceIs ==
  ASSUME NEW S, NEW s \in Seq(S), NEW l \in Nat, HasLength(s, l),
         NEW a \in Nat, NEW b \in Nat, a <= b, b <= l, NEW k, k = b - a
  PROVE  Slice(s, a, b) \in Seq(S) /\ HasLength(Slice(s, a, b), k)
<1>1. b <= Len(s)
  BY DEF HasLength
<1>2. SubSeq(s, a + 1, b) \in Seq(S) /\ Len(SubSeq(s, a + 1, b)) = b - a
  BY <1>1, Piece
<1>3. QED
  BY <1>2 DEF Slice, HasLength

LEMMA SlicesJoin ==
  ASSUME NEW S, NEW s \in Seq(S), NEW l \in Nat, HasLength(s, l),
         NEW a \in Nat, NEW b \in Nat, a <= b, b <= l
  PROVE  Cat(Slice(s, 0, a), Slice(s, a, b)) = Slice(s, 0, b)
<1>1. b <= Len(s)
  BY DEF HasLength
<1>2. SubSeq(s, 1, a) \o SubSeq(s, a + 1, b) = SubSeq(s, 1, b)
  BY <1>1, Joined
<1>3. 0 + 1 = 1
  OBVIOUS
<1>4. QED
  BY <1>2, <1>3 DEF Cat, Slice

One(x) == << x >>

Splits(i, r, k, v) == i = r * k + v

LEMMA Split ==
  ASSUME NEW r \in Nat \ {0}, NEW i \in Nat, NEW k \in Nat, NEW v \in 0 .. r - 1,
         Splits(i, r, k, v)
  PROVE  i \div r = k /\ i % r = v
<1>1. i = r * k + v
  BY DEF Splits
<1>2. QED
  BY ONLY r \in Nat \ {0}, i \in Nat, k \in Nat, v \in 0 .. r - 1, <1>1, Divided

-----------------------------------------------------------------------------
(* SHA-2: loops that turn a value n times.                                  *)
OneRound(x, w, d, i) == F_32(x, K[d + i], w[i])
NextWord(w, n) == M_32(w[n], w[n + 14], w[n + 9], w[n + 1])

Turn(kind, x, a, d, i) ==
  CASE kind = "round" -> OneRound(x, a, d, i)
    [] kind = "word" -> Append(x, NextWord(x, i))
    [] kind = "expand" -> InPlace(x, i)
    [] OTHER -> Compress(x, BlockOf(a, i))

Turns(g, kind, s, a, d, n) ==
  g = [ i \in 0 .. n |-> IF i = 0 THEN s ELSE Turn(kind, g[i - 1], a, d, i) ]

Turned(kind, s, a, d, n) == (CHOOSE g : Turns(g, kind, s, a, d, n))[n]

LEMMA TurnsExist ==
  ASSUME NEW kind, NEW s, NEW a, NEW d, NEW N \in Nat
  PROVE  \E g : Turns(g, kind, s, a, d, N)
<1> DEFINE T == { n \in 0 .. N : \E g : Turns(g, kind, s, a, d, n) }
<1>1. 0 \in T
  <2> DEFINE f == [ i \in 0 .. 0 |-> s ]
  <2>1. f = [ i \in 0 .. 0 |-> IF i = 0 THEN s ELSE Turn(kind, f[i - 1], a, d, i) ]
    OBVIOUS
  <2> HIDE DEF f
  <2>2. Turns(f, kind, s, a, d, 0)
    BY <2>1 DEF Turns
  <2>3. QED
    BY <2>2
<1>2. ASSUME NEW n \in T, n < N PROVE n + 1 \in T
  <2>1. PICK g : Turns(g, kind, s, a, d, n)
    OBVIOUS
  <2>2. PICK m \in 0 .. N : m = n + 1 /\ m \in Nat /\ n \in Nat
    BY <1>2
  <2>8. PICK x : x = Turn(kind, g[n], a, d, m)
    OBVIOUS
  <2> DEFINE f == [ i \in 0 .. m |-> IF i = m THEN x ELSE g[i] ]
  <2>3. ASSUME NEW i \in 0 .. m, i # 0 PROVE f[i] = Turn(kind, f[i - 1], a, d, i)
    <3>1. PICK j \in 0 .. n : j = i - 1 /\ j \in 0 .. m /\ j # m
      BY <2>2, <2>3
    <3>2. f[j] = g[j]
      BY <3>1
    <3>3. CASE i = m
      <4>1. f[i] = x /\ j = n
        BY <2>2, <3>1, <3>3
      <4>2. QED
        BY <2>2, <2>8, <3>1, <3>2, <3>3, <4>1
    <3>4. CASE i # m
      <4>1. i \in 0 .. n /\ f[i] = g[i]
        BY <2>2, <3>4
      <4>2. g[i] = Turn(kind, g[j], a, d, i)
        BY <2>1, <2>3, <3>1, <4>1 DEF Turns
      <4>3. QED
        BY <3>1, <3>2, <4>1, <4>2
    <3>5. QED
      BY <3>3, <3>4
  <2>4. f[0] = s
    <3>1. 0 \in 0 .. m /\ 0 # m /\ 0 \in 0 .. n
      BY <2>2
    <3>2. g[0] = s
      BY <2>1, <3>1 DEF Turns
    <3>3. QED
      BY <3>1, <3>2
  <2>5. f = [ i \in 0 .. m |-> IF i = 0 THEN s ELSE Turn(kind, f[i - 1], a, d, i) ]
    <3>1. f = [ i \in 0 .. m |-> f[i] ]
      OBVIOUS
    <3> HIDE DEF f
    <3>2. QED
      BY <2>3, <2>4, <3>1
  <2> HIDE DEF f
  <2>6. Turns(f, kind, s, a, d, m)
    BY <2>5 DEF Turns
  <2>7. QED
    BY <2>2, <2>6
<1>3. T = 0 .. N
  <2>1. T \subseteq 0 .. N
    OBVIOUS
  <2> HIDE DEF T
  <2>2. QED
    BY <1>1, <1>2, <2>1, UpTo
<1>4. N \in T
  BY <1>3
<1>5. QED
  BY <1>4

LEMMA TurnsMade ==
  ASSUME NEW kind, NEW s, NEW a, NEW d, NEW n \in Nat
  PROVE  \E g : Turns(g, kind, s, a, d, n) /\ Turned(kind, s, a, d, n) = g[n]
<1>1. PICK g : g = CHOOSE f : Turns(f, kind, s, a, d, n)
  OBVIOUS
<1>2. Turns(g, kind, s, a, d, n)
  BY <1>1, TurnsExist, Zenon
<1>3. QED
  BY <1>1, <1>2 DEF Turned

\* A function that begins with s and turns is what the turns make.
LEMMA TurnedIs ==
  ASSUME NEW kind, NEW s, NEW a, NEW d, NEW n \in Nat, NEW h, h[0] = s,
         \A i \in 1 .. n : h[i] = Turn(kind, h[i - 1], a, d, i)
  PROVE  Turned(kind, s, a, d, n) = h[n]
<1>1. PICK g : Turns(g, kind, s, a, d, n) /\ Turned(kind, s, a, d, n) = g[n]
  BY TurnsMade
<1>2. g[0] = h[0]
  BY <1>1 DEF Turns
<1>3. ASSUME NEW i \in 1 .. n, g[i - 1] = h[i - 1] PROVE g[i] = h[i]
  <2>1. i \in 0 .. n /\ i # 0
    OBVIOUS
  <2>2. g[i] = Turn(kind, g[i - 1], a, d, i)
    BY <1>1, <2>1 DEF Turns
  <2>3. QED
    BY <1>3, <2>2
<1>4. \A i \in 0 .. n : g[i] = h[i]
  BY <1>2, <1>3, Agree
<1>5. QED
  BY <1>1, <1>4

LEMMA TurnedNone ==
  ASSUME NEW kind, NEW s, NEW a, NEW d
  PROVE  Turned(kind, s, a, d, 0) = s
<1>1. PICK g : Turns(g, kind, s, a, d, 0) /\ Turned(kind, s, a, d, 0) = g[0]
  BY TurnsMade
<1>2. QED
  BY <1>1 DEF Turns

LEMMA TurnedMore ==
  ASSUME NEW kind, NEW s, NEW a, NEW d, NEW n \in Nat \ {0}, NEW k \in Nat, k = n - 1
  PROVE  Turned(kind, s, a, d, n) = Turn(kind, Turned(kind, s, a, d, k), a, d, n)
<1>1. PICK g : Turns(g, kind, s, a, d, n) /\ Turned(kind, s, a, d, n) = g[n]
  BY TurnsMade
<1>2. g[0] = s /\ \A i \in 1 .. n : g[i] = Turn(kind, g[i - 1], a, d, i)
  <2>1. g[0] = s
    BY <1>1 DEF Turns
  <2>2. ASSUME NEW i \in 1 .. n PROVE g[i] = Turn(kind, g[i - 1], a, d, i)
    <3>1. i \in 0 .. n /\ i # 0
      OBVIOUS
    <3>2. QED
      BY <1>1, <3>1 DEF Turns
  <2>3. QED
    BY <2>1, <2>2
<1>3. Turned(kind, s, a, d, k) = g[k]
  <2>1. \A i \in 1 .. k : i \in 1 .. n
    OBVIOUS
  <2>2. \A i \in 1 .. k : g[i] = Turn(kind, g[i - 1], a, d, i)
    BY <1>2, <2>1
  <2>3. QED
    BY <1>2, <2>2, TurnedIs
<1>4. g[n] = Turn(kind, g[k], a, d, n)
  BY <1>2
<1>5. QED
  BY <1>1, <1>3, <1>4

LEMMA TurnIs ==
  ASSUME NEW x, NEW a, NEW d, NEW i
  PROVE  /\ Turn("round", x, a, d, i) = OneRound(x, a, d, i)
         /\ Turn("word", x, a, d, i) = Append(x, NextWord(x, i))
         /\ Turn("expand", x, a, d, i) = InPlace(x, i)
         /\ Turn("block", x, a, d, i) = Compress(x, BlockOf(a, i))
  BY DEF Turn

(* The loops of sha2.c are such turns.                                      *)
RunsSixteen(f, s, w, q) ==
  f = [ i \in 0 .. 16 |-> IF i = 0 THEN s ELSE F_32(f[i - 1], K[(16 * q) + i], w[i]) ]

LEMMA SixteenChosen ==
  ASSUME NEW s, NEW w, NEW q
  PROVE  Sixteen(s, w, q) = (CHOOSE f : RunsSixteen(f, s, w, q))[16]
  BY Zenon DEF Sixteen, RunsSixteen

LEMMA SixteenTurned ==
  ASSUME NEW s, NEW w, NEW q, NEW d, d = 16 * q
  PROVE  Sixteen(s, w, q) = Turned("round", s, w, d, 16)
<1>1. PICK g : Turns(g, "round", s, w, d, 16)
  BY TurnsExist
<1>2. RunsSixteen(g, s, w, q)
  <2>1. \A i \in 0 .. 16 : Turn("round", g[i - 1], w, d, i) = F_32(g[i - 1], K[(16 * q) + i], w[i])
    BY TurnIs DEF OneRound
  <2>2. QED
    BY <1>1, <2>1 DEF Turns, RunsSixteen
<1>3. PICK h : h = CHOOSE f : RunsSixteen(f, s, w, q)
  OBVIOUS
<1>4. RunsSixteen(h, s, w, q)
  BY <1>2, <1>3, Zenon
<1>5. h[0] = s
  BY <1>4 DEF RunsSixteen
<1>6. ASSUME NEW i \in 1 .. 16 PROVE h[i] = Turn("round", h[i - 1], w, d, i)
  <2>1. i \in 0 .. 16 /\ i # 0
    OBVIOUS
  <2>2. h[i] = F_32(h[i - 1], K[(16 * q) + i], w[i])
    BY <1>4, <2>1 DEF RunsSixteen
  <2>3. QED
    BY <2>2, TurnIs DEF OneRound
<1>7. Turned("round", s, w, d, 16) = h[16]
  BY <1>5, <1>6, TurnedIs
<1>8. QED
  BY <1>3, <1>7, SixteenChosen

RunsAfter(f, s, w, a, b) ==
  f = [ t \in a .. b |-> IF t = a THEN s ELSE F_32(f[t - 1], K[t], w[t]) ]

LEMMA RoundsChosen ==
  ASSUME NEW s, NEW w, NEW a, NEW b
  PROVE  RoundsAfter(s, w, a, b) = (CHOOSE f : RunsAfter(f, s, w, a, b))[b]
  BY Zenon DEF RoundsAfter, RunsAfter

\* Sixteen of the standard's rounds go on with the turns before them.
LEMMA RoundsTurned ==
  ASSUME NEW s, NEW w, NEW a \in {0, 16, 32, 48}, NEW b, b = a + 16
  PROVE  RoundsAfter(Turned("round", s, w, 0, a), w, a, b) = Turned("round", s, w, 0, b)
<1>1. PICK x : x = Turned("round", s, w, 0, a)
  OBVIOUS
<1>2. PICK g : g = [ t \in a .. b |-> Turned("round", s, w, 0, t) ]
  OBVIOUS
<1>3. g[a] = x /\ g[b] = Turned("round", s, w, 0, b)
  BY <1>1, <1>2
<1>4. ASSUME NEW t \in a .. b, t # a PROVE g[t] = F_32(g[t - 1], K[t], w[t])
  <2>1. PICK k \in Nat : k = t - 1 /\ k \in a .. b /\ t \in Nat \ {0}
    BY <1>4
  <2>2. PICK y : y = Turned("round", s, w, 0, k)
    OBVIOUS
  <2>3. Turned("round", s, w, 0, t) = Turn("round", y, w, 0, t)
    BY <2>1, <2>2, TurnedMore
  <2>4. 0 + t = t
    BY <2>1
  <2>5. Turn("round", y, w, 0, t) = F_32(y, K[t], w[t])
    <3>1. Turn("round", y, w, 0, t) = OneRound(y, w, 0, t)
      BY TurnIs
    <3>2. QED
      BY <2>4, <3>1 DEF OneRound
  <2>6. g[t] = Turned("round", s, w, 0, t) /\ g[k] = y
    BY <1>2, <2>1, <2>2
  <2>7. QED
    BY <2>1, <2>3, <2>5, <2>6
<1>5. RunsAfter(g, x, w, a, b)
  <2>1. g = [ t \in a .. b |-> g[t] ]
    BY <1>2
  <2>2. \A t \in a .. b : g[t] = IF t = a THEN x ELSE F_32(g[t - 1], K[t], w[t])
    BY <1>3, <1>4
  <2>3. QED
    BY <2>1, <2>2 DEF RunsAfter
<1>6. PICK h : h = CHOOSE f : RunsAfter(f, x, w, a, b)
  OBVIOUS
<1>7. RunsAfter(h, x, w, a, b)
  BY <1>5, <1>6, Zenon
<1>8. PICK u, v : u = [ i \in 0 .. 16 |-> g[a + i] ] /\ v = [ i \in 0 .. 16 |-> h[a + i] ]
  OBVIOUS
<1>9. u[0] = v[0]
  <2>1. a + 0 = a /\ 0 \in 0 .. 16 /\ a \in a .. b
    OBVIOUS
  <2>2. h[a] = x
    BY <1>7, <2>1 DEF RunsAfter
  <2>3. QED
    BY <1>3, <1>8, <2>1, <2>2
<1>10. ASSUME NEW i \in 1 .. 16, u[i - 1] = v[i - 1] PROVE u[i] = v[i]
  <2>1. PICK t \in a .. b : t = a + i /\ t # a
    OBVIOUS
  <2>2. i - 1 \in 0 .. 16 /\ i \in 0 .. 16 /\ a + (i - 1) = t - 1
    BY <2>1
  <2>3. g[t - 1] = h[t - 1]
    BY <1>8, <1>10, <2>2
  <2>4. g[t] = F_32(g[t - 1], K[t], w[t])
    BY <1>4, <2>1
  <2>5. h[t] = F_32(h[t - 1], K[t], w[t])
    BY <1>7, <2>1 DEF RunsAfter
  <2>6. g[t] = h[t]
    BY <2>3, <2>4, <2>5
  <2>7. QED
    BY <1>8, <2>1, <2>2, <2>6
<1>11. \A i \in 0 .. 16 : u[i] = v[i]
  <2>1. 16 \in Nat
    OBVIOUS
  <2>2. QED
    BY <1>9, <1>10, <2>1, Agree
<1>12. g[b] = h[b]
  <2>1. 16 \in 0 .. 16 /\ a + 16 = b
    OBVIOUS
  <2>2. QED
    BY <1>8, <1>11, <2>1
<1>13. QED
  BY <1>1, <1>3, <1>6, <1>12, RoundsChosen

LEMMA ThenIs ==
  ASSUME NEW x, NEW y
  PROVE  Then(x, y) = y
  BY DEF Then

RunsAll(f, s, w) ==
  f = [ q \in 0 .. 4 |->
          IF q = 0 THEN s
          ELSE Then(f[q - 1], RoundsAfter(f[q - 1], w, 16 * (q - 1), 16 * q)) ]

LEMMA SixtyFourChosen ==
  ASSUME NEW s, NEW blk
  PROVE  SixtyFour(s, blk) = Then(Schedule(blk), (CHOOSE f : RunsAll(f, s, Schedule(blk)))[4])
  BY Zenon DEF SixtyFour, RunsAll

LEMMA SixtyFourTurned ==
  ASSUME NEW s, NEW blk, NEW w, w = Schedule(blk)
  PROVE  SixtyFour(s, blk) = Turned("round", s, w, 0, 64)
<1>1. PICK g : g = [ q \in 0 .. 4 |-> Turned("round", s, w, 0, 16 * q) ]
  OBVIOUS
<1>2. g[0] = s
  <2>1. 16 * 0 = 0 /\ 0 \in 0 .. 4
    OBVIOUS
  <2>2. QED
    BY <1>1, <2>1, TurnedNone
<1>3. ASSUME NEW q \in 0 .. 4, q # 0
      PROVE  g[q] = Then(g[q - 1], RoundsAfter(g[q - 1], w, 16 * (q - 1), 16 * q))
  <2>1. PICK a \in {0, 16, 32, 48}, b \in Nat : a = 16 * (q - 1) /\ b = 16 * q /\ b = a + 16
    BY <1>3
  <2>2. PICK x : x = Turned("round", s, w, 0, a)
    OBVIOUS
  <2>3. q - 1 \in 0 .. 4 /\ g[q - 1] = x /\ g[q] = Turned("round", s, w, 0, b)
    BY <1>1, <1>3, <2>1, <2>2
  <2>4. RoundsAfter(x, w, a, b) = g[q]
    BY <2>1, <2>2, <2>3, RoundsTurned
  <2>5. QED
    BY <2>1, <2>3, <2>4, ThenIs
<1>4. RunsAll(g, s, w)
  <2>1. g = [ q \in 0 .. 4 |-> g[q] ]
    BY <1>1
  <2>2. QED
    BY <1>2, <1>3, <2>1 DEF RunsAll
<1>5. PICK h : h = CHOOSE f : RunsAll(f, s, w)
  OBVIOUS
<1>6. RunsAll(h, s, w)
  BY <1>4, <1>5, Zenon
<1>7. h[0] = g[0]
  BY <1>2, <1>6 DEF RunsAll
<1>8. ASSUME NEW q \in 1 .. 4, h[q - 1] = g[q - 1] PROVE h[q] = g[q]
  <2>1. q \in 0 .. 4 /\ q # 0
    OBVIOUS
  <2>2. h[q] = Then(h[q - 1], RoundsAfter(h[q - 1], w, 16 * (q - 1), 16 * q))
    BY <1>6, <2>1 DEF RunsAll
  <2>3. QED
    BY <1>3, <1>8, <2>1, <2>2
<1>9. h[4] = g[4]
  <2>1. 4 \in Nat /\ 4 \in 0 .. 4
    OBVIOUS
  <2>2. \A q \in 0 .. 4 : h[q] = g[q]
    BY <1>7, <1>8, <2>1, Agree
  <2>3. QED
    BY <2>1, <2>2
<1>10. g[4] = Turned("round", s, w, 0, 64)
  <2>1. 16 * 4 = 64 /\ 4 \in 0 .. 4
    OBVIOUS
  <2>2. QED
    BY <1>1, <2>1
<1>11. QED
  BY <1>5, <1>9, <1>10, SixtyFourChosen, ThenIs

Schedules(f, blk) ==
  f = [ n \in 0 .. 48 |-> IF n = 0 THEN Loaded(blk) ELSE Append(f[n - 1], NextWord(f[n - 1], n)) ]

LEMMA ScheduleChosen ==
  ASSUME NEW blk
  PROVE  Schedule(blk) = (CHOOSE f : Schedules(f, blk))[48]
  BY Zenon DEF Schedule, Schedules, NextWord, M_32

LEMMA ScheduleTurned ==
  ASSUME NEW blk
  PROVE  Schedule(blk) = Turned("word", Loaded(blk), 0, 0, 48)
<1>1. PICK g : Turns(g, "word", Loaded(blk), 0, 0, 48)
  BY TurnsExist
<1>2. Schedules(g, blk)
  <2>1. \A i \in 0 .. 48 : Turn("word", g[i - 1], 0, 0, i) = Append(g[i - 1], NextWord(g[i - 1], i))
    BY TurnIs
  <2>2. QED
    BY <1>1, <2>1 DEF Turns, Schedules
<1>3. PICK h : h = CHOOSE f : Schedules(f, blk)
  OBVIOUS
<1>4. Schedules(h, blk)
  BY <1>2, <1>3, Zenon
<1>5. h[0] = Loaded(blk)
  BY <1>4 DEF Schedules
<1>6. ASSUME NEW i \in 1 .. 48 PROVE h[i] = Turn("word", h[i - 1], 0, 0, i)
  <2>1. i \in 0 .. 48 /\ i # 0
    OBVIOUS
  <2>2. h[i] = Append(h[i - 1], NextWord(h[i - 1], i))
    BY <1>4, <2>1 DEF Schedules
  <2>3. QED
    BY <2>2, TurnIs
<1>7. Turned("word", Loaded(blk), 0, 0, 48) = h[48]
  BY <1>5, <1>6, TurnedIs
<1>8. QED
  BY <1>3, <1>7, ScheduleChosen

ExpandsIn(f, w) == f = [ i \in 0 .. 16 |-> IF i = 0 THEN w ELSE InPlace(f[i - 1], i) ]

LEMMA InPlaceChosen ==
  ASSUME NEW w
  PROVE  EXPAND_32(w) = (CHOOSE f : ExpandsIn(f, w))[16]
  BY Zenon DEF EXPAND_32, ExpandsIn

LEMMA ExpandTurned ==
  ASSUME NEW w
  PROVE  EXPAND_32(w) = Turned("expand", w, 0, 0, 16)
<1>1. PICK g : Turns(g, "expand", w, 0, 0, 16)
  BY TurnsExist
<1>2. ExpandsIn(g, w)
  <2>1. \A i \in 0 .. 16 : Turn("expand", g[i - 1], 0, 0, i) = InPlace(g[i - 1], i)
    BY TurnIs
  <2>2. QED
    BY <1>1, <2>1 DEF Turns, ExpandsIn
<1>3. PICK h : h = CHOOSE f : ExpandsIn(f, w)
  OBVIOUS
<1>4. ExpandsIn(h, w)
  BY <1>2, <1>3, Zenon
<1>5. h[0] = w
  BY <1>4 DEF ExpandsIn
<1>6. ASSUME NEW i \in 1 .. 16 PROVE h[i] = Turn("expand", h[i - 1], 0, 0, i)
  <2>1. i \in 0 .. 16 /\ i # 0
    OBVIOUS
  <2>2. h[i] = InPlace(h[i - 1], i)
    BY <1>4, <2>1 DEF ExpandsIn
  <2>3. QED
    BY <2>2, TurnIs
<1>7. Turned("expand", w, 0, 0, 16) = h[16]
  BY <1>5, <1>6, TurnedIs
<1>8. QED
  BY <1>3, <1>7, InPlaceChosen

(* The words of a block: E holds them all.                                  *)
Begins(g, E, n, c) == g[n] = [ k \in 1 .. c |-> E[k] ]

Extends(E, L) ==
  /\ \A i \in 1 .. 16 : E[i] = L[i]
  /\ \A n \in 1 .. 48, m \in 17 .. 64 : m = 16 + n => E[m] = NextWord(E, n)

LEMMA NextOfPrefix ==
  ASSUME NEW g, NEW E, NEW n \in 1 .. 48, NEW k \in 0 .. 47, k = n - 1,
         NEW c \in 16 .. 63, c = 16 + k, Begins(g, E, k, c)
  PROVE  NextWord(g[k], n) = NextWord(E, n)
<1>1. PICK w : w = g[k]
  OBVIOUS
<1>2. w = [ i \in 1 .. c |-> E[i] ]
  BY <1>1 DEF Begins
<1>3. n \in 1 .. c /\ n + 14 \in 1 .. c /\ n + 9 \in 1 .. c /\ n + 1 \in 1 .. c
  OBVIOUS
<1>4. w[n] = E[n] /\ w[n + 14] = E[n + 14] /\ w[n + 9] = E[n + 9] /\ w[n + 1] = E[n + 1]
  BY <1>2, <1>3
<1>5. NextWord(w, n) = NextWord(E, n)
  BY <1>4 DEF NextWord
<1>6. QED
  BY <1>1, <1>5

LEMMA LoadedWords ==
  ASSUME NEW blk
  PROVE  Loaded(blk) = [ i \in 1 .. 16 |-> load_bigendian_32(SubSeq(blk, (4 * i) - 3, 4 * i)) ]
<1>1. PICK f : f = [ i \in 1 .. 16 |-> load_bigendian_32(SubSeq(blk, (4 * i) - 3, 4 * i)) ]
  OBVIOUS
<1>2. Loaded(blk) = SubSeq(f, 1, 16)
  BY <1>1 DEF Loaded
<1>3. PICK T : T = { f[i] : i \in 1 .. 16 }
  OBVIOUS
<1>4. f \in [ 1 .. 16 -> T ]
  BY <1>1, <1>3
<1>5. f \in Seq(T) /\ Len(f) = 16
  BY <1>4, FunctionIsSeq
<1>6. SubSeq(f, 1, 16) = f
  BY <1>5, NothingMore
<1>7. QED
  BY <1>1, <1>2, <1>6

LEMMA LoadedIs ==
  ASSUME NEW blk
  PROVE  Loaded(blk) = [ i \in 1 .. 16 |-> Loaded(blk)[i] ]
<1>1. PICK f : f = [ i \in 1 .. 16 |-> load_bigendian_32(SubSeq(blk, (4 * i) - 3, 4 * i)) ]
  OBVIOUS
<1>2. Loaded(blk) = f
  BY <1>1, LoadedWords
<1>3. QED
  BY <1>1, <1>2

LEMMA ScheduleExtends ==
  ASSUME NEW blk
  PROVE  Extends(Schedule(blk), Loaded(blk))
<1>1. PICK L : L = Loaded(blk)
  OBVIOUS
<1>2. PICK g : Turns(g, "word", L, 0, 0, 48) /\ Turned("word", L, 0, 0, 48) = g[48]
  BY TurnsMade
<1>3. g[0] = L /\ \A n \in 1 .. 48 : g[n] = Append(g[n - 1], NextWord(g[n - 1], n))
  <2>1. g[0] = L
    BY <1>2 DEF Turns
  <2>2. ASSUME NEW n \in 1 .. 48 PROVE g[n] = Append(g[n - 1], NextWord(g[n - 1], n))
    <3>1. n \in 0 .. 48 /\ n # 0
      OBVIOUS
    <3>2. g[n] = Turn("word", g[n - 1], 0, 0, n)
      BY <1>2, <3>1 DEF Turns
    <3>3. QED
      BY <3>2, TurnIs
  <2>3. QED
    BY <2>1, <2>2
<1>4. PICK E : E = [ i \in 1 .. 64 |-> IF i <= 16 THEN L[i] ELSE NextWord(g[i - 17], i - 16) ]
  OBVIOUS
<1>5. ASSUME NEW i \in 1 .. 16 PROVE E[i] = L[i]
  BY <1>4
<1>6. ASSUME NEW n \in 1 .. 48, NEW k \in 0 .. 47, k = n - 1, NEW m \in 17 .. 64, m = 16 + n
      PROVE  E[m] = NextWord(g[k], n)
  <2>1. m - 17 = k /\ m - 16 = n /\ ~(m <= 16) /\ m \in 1 .. 64
    BY <1>6
  <2>2. E[m] = NextWord(g[m - 17], m - 16)
    BY <1>4, <2>1
  <2>3. QED
    BY <2>1, <2>2
<1> DEFINE T == { n \in 0 .. 48 : Begins(g, E, n, 16 + n) }
<1>7. 0 \in T
  <2>1. L = [ k \in 1 .. 16 |-> L[k] ]
    BY <1>1, LoadedIs
  <2>2. L = [ k \in 1 .. 16 |-> E[k] ]
    BY <1>5, <2>1
  <2>3. 16 + 0 = 16
    OBVIOUS
  <2>4. Begins(g, E, 0, 16)
    BY <1>3, <2>2 DEF Begins
  <2>5. QED
    BY <2>3, <2>4
<1>8. ASSUME NEW k \in T, k < 48 PROVE k + 1 \in T
  <2>1. PICK n \in 1 .. 48 : n = k + 1 /\ k = n - 1 /\ k \in 0 .. 47
    BY <1>8
  <2>2. PICK c \in 16 .. 63 : c = 16 + k
    BY <2>1
  <2>3. PICK m \in 17 .. 64 : m = 16 + n /\ m = c + 1
    BY <2>1, <2>2
  <2>4. Begins(g, E, k, c)
    BY <2>2
  <2>5. E[m] = NextWord(g[k], n)
    BY <1>6, <2>1, <2>3
  <2>6. g[n] = Append(g[k], NextWord(g[k], n))
    BY <1>3, <2>1
  <2>7. g[k] = [ i \in 1 .. c |-> E[i] ]
    BY <2>4 DEF Begins
  <2>8. g[n] = Append([ i \in 1 .. c |-> E[i] ], E[c + 1])
    BY <2>3, <2>5, <2>6, <2>7
  <2>9. g[n] = [ i \in 1 .. c + 1 |-> E[i] ]
    <3>1. c \in Nat
      OBVIOUS
    <3>2. Append([ i \in 1 .. c |-> E[i] ], E[c + 1]) = [ i \in 1 .. c + 1 |-> E[i] ]
      BY <3>1, Longer
    <3>3. QED
      BY <2>8, <3>2
  <2>10. Begins(g, E, n, m)
    BY <2>3, <2>9 DEF Begins
  <2>11. n \in 0 .. 48 /\ m = 16 + n
    BY <2>3
  <2>12. QED
    BY <2>1, <2>10, <2>11
<1>9. T = 0 .. 48
  <2>1. T \subseteq 0 .. 48
    OBVIOUS
  <2> HIDE DEF T
  <2>2. 48 \in Nat
    OBVIOUS
  <2>3. QED
    BY <1>7, <1>8, <2>1, <2>2, UpTo
<1>10. \A n \in 0 .. 48, c \in 16 .. 64 : c = 16 + n => Begins(g, E, n, c)
  BY <1>9
<1> HIDE DEF T
<1>11. Schedule(blk) = E
  <2>1. Begins(g, E, 48, 64)
    BY <1>10
  <2>2. g[48] = [ k \in 1 .. 64 |-> E[k] ]
    BY <2>1 DEF Begins
  <2>3. E = [ k \in 1 .. 64 |-> E[k] ]
    BY <1>4
  <2>4. QED
    BY <1>1, <1>2, <2>2, <2>3, ScheduleTurned
<1>12. ASSUME NEW n \in 1 .. 48, NEW m \in 17 .. 64, m = 16 + n PROVE E[m] = NextWord(E, n)
  <2>1. PICK k \in 0 .. 47 : k = n - 1
    OBVIOUS
  <2>2. PICK c \in 16 .. 63 : c = 16 + k
    BY <2>1
  <2>3. Begins(g, E, k, c)
    BY <1>10, <2>2
  <2>4. NextWord(g[k], n) = NextWord(E, n)
    BY <2>1, <2>2, <2>3, NextOfPrefix
  <2>5. QED
    BY <1>6, <1>12, <2>1, <2>4
<1>13. Extends(E, L)
  BY <1>5, <1>12 DEF Extends
<1>14. QED
  BY <1>1, <1>11, <1>13

\* The window at d, and the window of which the first i words were replaced.
Window(E, d) == [ i \in 1 .. 16 |-> E[d + i] ]
Replaced(E, d, i) == [ j \in 1 .. 16 |-> IF j <= i THEN E[(d + 16) + j] ELSE E[d + j] ]
Around(i, e) == (((i + e) - 1) % 16) + 1

LEMMA AroundIs ==
  ASSUME NEW i \in 1 .. 16, NEW e \in 1 .. 15
  PROVE  /\ Around(i, e) \in 1 .. 16
         /\ Around(i, e) = i + e \/ Around(i, e) = (i + e) - 16
         /\ i + e <= 16 => Around(i, e) = i + e
         /\ i + e > 16 => Around(i, e) = (i + e) - 16
<1>1. PICK r \in Nat : r = (i + e) - 1
  OBVIOUS
<1>2. CASE r < 16
  <2>1. r % 16 = r
    <3>1. 16 \in Nat \ {0} /\ r \in 0 .. 16 - 1 /\ 0 \in Nat
      BY <1>2
    <3>2. Splits(r, 16, 0, r)
      BY DEF Splits
    <3>3. QED
      BY <3>1, <3>2, Split
  <2>2. QED
    BY <1>1, <1>2, <2>1 DEF Around
<1>3. CASE r >= 16
  <2>1. PICK v \in 0 .. 15 : r = 16 + v
    <3>1. r - 16 \in 0 .. 15 /\ r = 16 + (r - 16)
      BY <1>1, <1>3
    <3>2. QED
      BY <3>1
  <2>2. r % 16 = v
    <3>1. 16 \in Nat \ {0} /\ v \in 0 .. 16 - 1 /\ 1 \in Nat
      OBVIOUS
    <3>2. Splits(r, 16, 1, v)
      BY <2>1 DEF Splits
    <3>3. QED
      BY <3>1, <3>2, Split
  <2>3. QED
    BY <1>1, <1>3, <2>1, <2>2 DEF Around
<1>4. QED
  BY <1>1, <1>2, <1>3

LEMMA ReplacedAt ==
  ASSUME NEW E, NEW d \in Nat, NEW i \in 1 .. 16, NEW k \in 0 .. 15, k = i - 1,
         NEW e \in 1 .. 15, NEW n, n = d + i
  PROVE  Replaced(E, d, k)[Around(i, e)] = E[n + e]
<1>1. PICK j : j = Around(i, e)
  OBVIOUS
<1>2. j \in 1 .. 16 /\ (i + e <= 16 => j = i + e) /\ (i + e > 16 => j = (i + e) - 16)
  BY <1>1, AroundIs
<1>3. Replaced(E, d, k)[j] = IF j <= k THEN E[(d + 16) + j] ELSE E[d + j]
  BY <1>2 DEF Replaced
<1>4. CASE i + e <= 16
  <2>1. ~(j <= k) /\ d + j = n + e
    BY <1>2, <1>4
  <2>2. QED
    BY <1>1, <1>3, <2>1
<1>5. CASE i + e > 16
  <2>1. j <= k /\ (d + 16) + j = n + e
    BY <1>2, <1>5
  <2>2. QED
    BY <1>1, <1>3, <2>1
<1>6. QED
  BY <1>4, <1>5

LEMMA InPlaceIs ==
  ASSUME NEW v, NEW i \in 1 .. 16
  PROVE  InPlace(v, i) = [ v EXCEPT ![i] = M_32(v[i], v[Around(i, 14)], v[Around(i, 9)], v[Around(i, 1)]) ]
BY Zenon DEF InPlace, Around

LEMMA ReplacedMore ==
  ASSUME NEW E, NEW L, Extends(E, L), NEW d \in {0, 16, 32}, NEW i \in 1 .. 16,
         NEW k \in 0 .. 15, k = i - 1
  PROVE  InPlace(Replaced(E, d, k), i) = Replaced(E, d, i)
<1>1. PICK n \in 1 .. 48 : n = d + i
  OBVIOUS
<1>2. PICK m \in 17 .. 64 : m = 16 + n /\ m = (d + 16) + i
  BY <1>1
<1>3. PICK v : v = Replaced(E, d, k)
  OBVIOUS
<1>4. d \in Nat /\ 14 \in 1 .. 15 /\ 9 \in 1 .. 15 /\ 1 \in 1 .. 15
  OBVIOUS
<1>5. v[Around(i, 14)] = E[n + 14]
  BY <1>1, <1>3, <1>4, ReplacedAt
<1>6. v[Around(i, 9)] = E[n + 9]
  BY <1>1, <1>3, <1>4, ReplacedAt
<1>7. v[Around(i, 1)] = E[n + 1]
  BY <1>1, <1>3, <1>4, ReplacedAt
<1>8. v[i] = E[n]
  BY <1>1, <1>3 DEF Replaced
<1>9. M_32(v[i], v[Around(i, 14)], v[Around(i, 9)], v[Around(i, 1)]) = NextWord(E, n)
  BY <1>5, <1>6, <1>7, <1>8 DEF NextWord
<1>10. E[m] = NextWord(E, n)
  BY <1>2 DEF Extends
<1>11. InPlace(v, i) = [ v EXCEPT ![i] = E[m] ]
  <2>1. PICK x : x = M_32(v[i], v[Around(i, 14)], v[Around(i, 9)], v[Around(i, 1)])
    OBVIOUS
  <2>2. InPlace(v, i) = [ v EXCEPT ![i] = x ]
    BY <2>1, InPlaceIs, Zenon
  <2>3. x = E[m]
    BY <1>9, <1>10, <2>1
  <2>4. QED
    BY <2>2, <2>3
<1>12. [ v EXCEPT ![i] = E[m] ] = Replaced(E, d, i)
  <2>1. v = [ j \in 1 .. 16 |-> v[j] ]
    BY <1>3 DEF Replaced
  <2>2. [ v EXCEPT ![i] = E[m] ] = [ j \in 1 .. 16 |-> IF j = i THEN E[m] ELSE v[j] ]
    BY <2>1
  <2>3. ASSUME NEW j \in 1 .. 16
        PROVE  (IF j = i THEN E[m] ELSE v[j]) = (IF j <= i THEN E[(d + 16) + j] ELSE E[d + j])
    <3>1. v[j] = IF j <= k THEN E[(d + 16) + j] ELSE E[d + j]
      BY <1>3 DEF Replaced
    <3>2. CASE j = i
      BY <1>2, <3>2
    <3>3. CASE j # i
      <4>1. (j <= k) <=> (j <= i)
        BY <3>3
      <4>2. QED
        BY <3>1, <3>3, <4>1
    <3>4. QED
      BY <3>2, <3>3
  <2>4. QED
    BY <2>2, <2>3 DEF Replaced
<1>13. QED
  BY <1>3, <1>11, <1>12

LEMMA ExpandMoves ==
  ASSUME NEW E, NEW L, Extends(E, L), NEW d \in {0, 16, 32}, NEW b, b = d + 16
  PROVE  EXPAND_32(Window(E, d)) = Window(E, b)
<1>1. PICK w : w = Window(E, d)
  OBVIOUS
<1>2. PICK h : h = [ i \in 0 .. 16 |-> Replaced(E, d, i) ]
  OBVIOUS
<1>3. h[0] = w
  <2>1. h[0] = Replaced(E, d, 0)
    BY <1>2
  <2>2. Replaced(E, d, 0) = Window(E, d)
    BY DEF Replaced, Window
  <2>3. QED
    BY <1>1, <2>1, <2>2
<1>4. ASSUME NEW i \in 1 .. 16 PROVE h[i] = Turn("expand", h[i - 1], 0, 0, i)
  <2>1. PICK k \in 0 .. 15 : k = i - 1
    OBVIOUS
  <2>2. h[i] = Replaced(E, d, i) /\ h[k] = Replaced(E, d, k)
    BY <1>2, <2>1
  <2>3. InPlace(Replaced(E, d, k), i) = Replaced(E, d, i)
    BY <2>1, ReplacedMore
  <2>4. QED
    BY <2>1, <2>2, <2>3, TurnIs
<1>5. Turned("expand", w, 0, 0, 16) = h[16]
  BY <1>3, <1>4, TurnedIs
<1>6. h[16] = Window(E, b)
  <2>1. h[16] = Replaced(E, d, 16)
    BY <1>2
  <2>2. Replaced(E, d, 16) = Window(E, b)
    BY DEF Replaced, Window
  <2>3. QED
    BY <2>1, <2>2
<1>7. QED
  BY <1>1, <1>5, <1>6, ExpandTurned

\* Sixteen rounds over a window are rounds d + 1 to d + 16 of the 64.
LEMMA QuarterMoves ==
  ASSUME NEW E, NEW s, NEW d \in {0, 16, 32, 48}, NEW b, b = d + 16
  PROVE  Turned("round", Turned("round", s, E, 0, d), Window(E, d), d, 16)
           = Turned("round", s, E, 0, b)
<1>1. PICK h : h = [ i \in 0 .. 16 |-> Turned("round", s, E, 0, d + i) ]
  OBVIOUS
<1>2. PICK w : w = Window(E, d)
  OBVIOUS
<1>3. h[0] = Turned("round", s, E, 0, d)
  <2>1. d + 0 = d /\ 0 \in 0 .. 16
    OBVIOUS
  <2>2. QED
    BY <1>1, <2>1
<1>4. ASSUME NEW i \in 1 .. 16 PROVE h[i] = Turn("round", h[i - 1], w, d, i)
  <2>1. PICK k \in 0 .. 15 : k = i - 1
    OBVIOUS
  <2>2. PICK n \in Nat \ {0} : n = d + i
    OBVIOUS
  <2>3. PICK m \in Nat : m = d + k /\ m = n - 1
    BY <2>1, <2>2
  <2>4. PICK x : x = Turned("round", s, E, 0, m)
    OBVIOUS
  <2>5. Turned("round", s, E, 0, n) = Turn("round", x, E, 0, n)
    BY <2>3, <2>4, TurnedMore
  <2>6. h[i] = Turned("round", s, E, 0, n) /\ h[k] = x
    BY <1>1, <2>1, <2>2, <2>3, <2>4
  <2>7. 0 + n = n /\ d + i = n
    BY <2>2
  <2>8. Turn("round", x, E, 0, n) = F_32(x, K[n], E[n])
    <3>1. Turn("round", x, E, 0, n) = OneRound(x, E, 0, n)
      BY TurnIs
    <3>2. QED
      BY <2>7, <3>1 DEF OneRound
  <2>9. Turn("round", x, w, d, i) = F_32(x, K[n], w[i])
    <3>1. Turn("round", x, w, d, i) = OneRound(x, w, d, i)
      BY TurnIs
    <3>2. QED
      BY <2>7, <3>1 DEF OneRound
  <2>10. w[i] = E[n]
    BY <1>2, <2>2 DEF Window
  <2>11. QED
    BY <2>1, <2>5, <2>6, <2>8, <2>9, <2>10
<1>5. Turned("round", h[0], w, d, 16) = h[16]
  <2>1. 16 \in Nat
    OBVIOUS
  <2>2. QED
    BY <1>4, <2>1, TurnedIs
<1>6. h[16] = Turned("round", s, E, 0, b)
  BY <1>1
<1>7. QED
  BY <1>2, <1>3, <1>5, <1>6

\* The quarters of a block, each with its words and the state it ends in.
Quarter(words, state) == [ words |-> words, state |-> state ]

Quarters(f, s, blk) ==
  f = [ q \in 0 .. 3 |->
          IF q = 0 THEN Quarter(Loaded(blk), Sixteen(s, Loaded(blk), 0))
          ELSE Then(f[q - 1],
                    Quarter(EXPAND_32(f[q - 1].words),
                            Sixteen(f[q - 1].state, EXPAND_32(f[q - 1].words), q))) ]

LEMMA CompressChosen ==
  ASSUME NEW s, NEW blk
  PROVE  Compress(s, blk) = Sums(s, (CHOOSE f : Quarters(f, s, blk))[3].state)
  BY Zenon DEF Compress, Quarters, Quarter

LEMMA CompressQuarters ==
  ASSUME NEW s, NEW blk, NEW w0, NEW w1, NEW w2, NEW w3, NEW s0, NEW s1, NEW s2, NEW s3,
         Loaded(blk) = w0, EXPAND_32(w0) = w1, EXPAND_32(w1) = w2, EXPAND_32(w2) = w3,
         Sixteen(s, w0, 0) = s0, Sixteen(s0, w1, 1) = s1, Sixteen(s1, w2, 2) = s2,
         Sixteen(s2, w3, 3) = s3
  PROVE  Compress(s, blk) = Sums(s, s3)
<1>1. PICK g : g = [ q \in 0 .. 3 |-> IF q = 0 THEN Quarter(w0, s0)
                                     ELSE IF q = 1 THEN Quarter(w1, s1)
                                     ELSE IF q = 2 THEN Quarter(w2, s2) ELSE Quarter(w3, s3) ]
  OBVIOUS
<1>2. /\ g[0] = Quarter(w0, s0) /\ g[1] = Quarter(w1, s1)
      /\ g[2] = Quarter(w2, s2) /\ g[3] = Quarter(w3, s3)
  BY <1>1
<1>3. ASSUME NEW words, NEW state
      PROVE  Quarter(words, state).words = words /\ Quarter(words, state).state = state
  BY DEF Quarter
<1> DEFINE Next(x, q) == Quarter(EXPAND_32(x.words), Sixteen(x.state, EXPAND_32(x.words), q))
<1>4. Next(g[0], 1) = g[1] /\ Next(g[1], 2) = g[2] /\ Next(g[2], 3) = g[3]
  BY <1>2, <1>3
<1>5. ASSUME NEW f, NEW q \in 0 .. 3, q # 0, Quarters(f, s, blk)
      PROVE  f[q] = Next(f[q - 1], q)
  <2>1. f[q] = Then(f[q - 1], Next(f[q - 1], q))
    BY <1>5 DEF Quarters
  <2>2. QED
    BY <2>1, ThenIs
<1>6. \A q \in 0 .. 3 : q # 0 => g[q] = Then(g[q - 1], Next(g[q - 1], q))
  <2>1. \A q \in 0 .. 3 : q # 0 => g[q] = Next(g[q - 1], q)
    <3> HIDE DEF Next
    <3>1. 1 - 1 = 0 /\ 2 - 1 = 1 /\ 3 - 1 = 2
      OBVIOUS
    <3>2. \A q \in 0 .. 3 : q # 0 => q = 1 \/ q = 2 \/ q = 3
      OBVIOUS
    <3>3. QED
      BY <1>4, <3>1, <3>2
  <2> HIDE DEF Next
  <2>2. QED
    BY <2>1, ThenIs
<1>7. Quarters(g, s, blk)
  <2>1. g = [ q \in 0 .. 3 |-> g[q] ]
    BY <1>1
  <2>2. g[0] = Quarter(Loaded(blk), Sixteen(s, Loaded(blk), 0))
    BY <1>2
  <2>3. QED
    BY <1>6, <2>1, <2>2 DEF Quarters
<1>8. PICK h : h = CHOOSE f : Quarters(f, s, blk)
  OBVIOUS
<1>9. Quarters(h, s, blk)
  BY <1>7, <1>8, Zenon
<1>10. h[0] = g[0]
  BY <1>7, <1>9 DEF Quarters
<1>11. h[1] = g[1] /\ h[2] = g[2] /\ h[3] = g[3]
  <2>1. h[1] = Next(h[0], 1) /\ h[2] = Next(h[1], 2) /\ h[3] = Next(h[2], 3)
    <3> HIDE DEF Next
    <3>1. /\ 1 \in 0 .. 3 /\ 2 \in 0 .. 3 /\ 3 \in 0 .. 3
          /\ 1 - 1 = 0 /\ 2 - 1 = 1 /\ 3 - 1 = 2
      OBVIOUS
    <3>2. h[1] = Next(h[1 - 1], 1) /\ h[2] = Next(h[2 - 1], 2) /\ h[3] = Next(h[3 - 1], 3)
      BY <1>5, <1>9, <3>1
    <3>3. QED
      BY <3>1, <3>2
  <2> HIDE DEF Next
  <2>2. QED
    BY <1>4, <1>10, <2>1
<1>12. h[3].state = s3
  BY <1>2, <1>3, <1>11
<1>13. QED
  BY <1>8, <1>12, CompressChosen

\* A block is compressed as the standard says.
LEMMA CompressIs ==
  ASSUME NEW s, NEW blk
  PROVE  Compress(s, blk) = Sums(s, SixtyFour(s, blk))
<1>1. PICK E : E = Schedule(blk)
  OBVIOUS
<1>2. PICK L : L = Loaded(blk)
  OBVIOUS
<1>3. Extends(E, L)
  BY <1>1, <1>2, ScheduleExtends
<1>4. L = Window(E, 0)
  <2>1. L = [ i \in 1 .. 16 |-> L[i] ]
    BY <1>2, LoadedIs
  <2>2. Window(E, 0) = [ i \in 1 .. 16 |-> E[i] ]
    BY DEF Window
  <2>3. \A i \in 1 .. 16 : E[i] = L[i]
    BY <1>3 DEF Extends
  <2>4. QED
    BY <2>1, <2>2, <2>3
<1>5. EXPAND_32(Window(E, 0)) = Window(E, 16)
  <2>1. 0 \in {0, 16, 32} /\ 16 = 0 + 16
    OBVIOUS
  <2>2. QED
    BY <1>3, <2>1, ExpandMoves
<1>6. EXPAND_32(Window(E, 16)) = Window(E, 32)
  <2>1. 16 \in {0, 16, 32} /\ 32 = 16 + 16
    OBVIOUS
  <2>2. QED
    BY <1>3, <2>1, ExpandMoves
<1>7. EXPAND_32(Window(E, 32)) = Window(E, 48)
  <2>1. 32 \in {0, 16, 32} /\ 48 = 32 + 16
    OBVIOUS
  <2>2. QED
    BY <1>3, <2>1, ExpandMoves
<1>8. PICK r0, r1, r2, r3, r4 :
         /\ r0 = Turned("round", s, E, 0, 0)
         /\ r1 = Turned("round", s, E, 0, 16)
         /\ r2 = Turned("round", s, E, 0, 32)
         /\ r3 = Turned("round", s, E, 0, 48)
         /\ r4 = Turned("round", s, E, 0, 64)
  OBVIOUS
<1>9. s = r0
  BY <1>8, TurnedNone
<1>10. Sixteen(r0, Window(E, 0), 0) = r1
  <2>1. 0 \in {0, 16, 32, 48} /\ 16 = 0 + 16 /\ 0 = 16 * 0
    OBVIOUS
  <2>2. Sixteen(r0, Window(E, 0), 0) = Turned("round", r0, Window(E, 0), 0, 16)
    BY <2>1, SixteenTurned
  <2>3. QED
    BY <1>8, <2>1, <2>2, QuarterMoves
<1>11. Sixteen(r1, Window(E, 16), 1) = r2
  <2>1. 16 \in {0, 16, 32, 48} /\ 32 = 16 + 16 /\ 16 = 16 * 1
    OBVIOUS
  <2>2. Sixteen(r1, Window(E, 16), 1) = Turned("round", r1, Window(E, 16), 16, 16)
    BY <2>1, SixteenTurned
  <2>3. QED
    BY <1>8, <2>1, <2>2, QuarterMoves
<1>12. Sixteen(r2, Window(E, 32), 2) = r3
  <2>1. 32 \in {0, 16, 32, 48} /\ 48 = 32 + 16 /\ 32 = 16 * 2
    OBVIOUS
  <2>2. Sixteen(r2, Window(E, 32), 2) = Turned("round", r2, Window(E, 32), 32, 16)
    BY <2>1, SixteenTurned
  <2>3. QED
    BY <1>8, <2>1, <2>2, QuarterMoves
<1>13. Sixteen(r3, Window(E, 48), 3) = r4
  <2>1. 48 \in {0, 16, 32, 48} /\ 64 = 48 + 16 /\ 48 = 16 * 3
    OBVIOUS
  <2>2. Sixteen(r3, Window(E, 48), 3) = Turned("round", r3, Window(E, 48), 48, 16)
    BY <2>1, SixteenTurned
  <2>3. QED
    BY <1>8, <2>1, <2>2, QuarterMoves
<1>14. SixtyFour(s, blk) = r4
  BY <1>1, <1>8, SixtyFourTurned
<1>15. Compress(s, blk) = Sums(s, r4)
  <2>1. PICK w0, w1, w2, w3 : /\ w0 = Window(E, 0) /\ w1 = Window(E, 16)
                              /\ w2 = Window(E, 32) /\ w3 = Window(E, 48)
    OBVIOUS
  <2>2. Loaded(blk) = w0 /\ EXPAND_32(w0) = w1 /\ EXPAND_32(w1) = w2 /\ EXPAND_32(w2) = w3
    BY <1>2, <1>4, <1>5, <1>6, <1>7, <2>1
  <2>3. Sixteen(s, w0, 0) = r1 /\ Sixteen(r1, w1, 1) = r2 /\ Sixteen(r2, w2, 2) = r3 /\ Sixteen(r3, w3, 3) = r4
    BY <1>9, <1>10, <1>11, <1>12, <1>13, <2>1
  <2>4. QED
    BY <2>2, <2>3, CompressQuarters
<1>16. QED
  BY <1>14, <1>15

(* Blocks, one after the other.                                             *)
BlockCount(m) == Len(m) \div 64

RunsBlocks(f, s, m) ==
  f = [ n \in 0 .. BlockCount(m) |-> IF n = 0 THEN s ELSE Compress(f[n - 1], BlockOf(m, n)) ]

LEMMA HashedChosen ==
  ASSUME NEW s, NEW m
  PROVE  crypto_hashblocks_sha256(s, m) = (CHOOSE f : RunsBlocks(f, s, m))[BlockCount(m)]
  BY Zenon DEF crypto_hashblocks_sha256, RunsBlocks, BlockCount

Hashed(s, m, n) == Turned("block", s, m, 0, n)

LEMMA BlocksTurned ==
  ASSUME NEW s, NEW m, NEW n \in Nat, n = BlockCount(m)
  PROVE  crypto_hashblocks_sha256(s, m) = Hashed(s, m, n)
<1>1. PICK g : Turns(g, "block", s, m, 0, n)
  BY TurnsExist
<1>2. RunsBlocks(g, s, m)
  <2>1. \A i \in 0 .. n : Turn("block", g[i - 1], m, 0, i) = Compress(g[i - 1], BlockOf(m, i))
    BY TurnIs
  <2>2. QED
    BY <1>1, <2>1 DEF Turns, RunsBlocks
<1>3. PICK h : h = CHOOSE f : RunsBlocks(f, s, m)
  OBVIOUS
<1>4. RunsBlocks(h, s, m)
  BY <1>2, <1>3, Zenon
<1>5. h[0] = s
  <2>1. 0 \in 0 .. n
    OBVIOUS
  <2>2. QED
    BY <1>4, <2>1 DEF RunsBlocks
<1>6. ASSUME NEW i \in 1 .. n PROVE h[i] = Turn("block", h[i - 1], m, 0, i)
  <2>1. i \in 0 .. n /\ i # 0
    OBVIOUS
  <2>2. h[i] = Compress(h[i - 1], BlockOf(m, i))
    BY <1>4, <2>1 DEF RunsBlocks
  <2>3. QED
    BY <2>2, TurnIs
<1>7. Turned("block", s, m, 0, n) = h[n]
  BY <1>5, <1>6, TurnedIs
<1>8. QED
  BY <1>3, <1>7, HashedChosen DEF Hashed

LEMMA HashedNone ==
  ASSUME NEW s, NEW m
  PROVE  Hashed(s, m, 0) = s
  BY TurnedNone DEF Hashed

LEMMA HashedMore ==
  ASSUME NEW s, NEW m, NEW n \in Nat \ {0}, NEW k \in Nat, k = n - 1
  PROVE  Hashed(s, m, n) = Compress(Hashed(s, m, k), BlockOf(m, n))
<1>1. PICK x : x = Turned("block", s, m, 0, k)
  OBVIOUS
<1>2. Turned("block", s, m, 0, n) = Turn("block", x, m, 0, n)
  BY <1>1, TurnedMore
<1>3. Turn("block", x, m, 0, n) = Compress(x, BlockOf(m, n))
  BY TurnIs
<1>4. QED
  BY <1>1, <1>2, <1>3 DEF Hashed

LEMMA HashedIs ==
  ASSUME NEW s, NEW m, NEW n \in Nat, NEW h, h[0] = s,
         \A i \in 1 .. n : h[i] = Compress(h[i - 1], BlockOf(m, i))
  PROVE  Hashed(s, m, n) = h[n]
<1>1. \A i \in 1 .. n : h[i] = Turn("block", h[i - 1], m, 0, i)
  BY TurnIs
<1>2. QED
  BY <1>1, TurnedIs DEF Hashed

\* n blocks of p, hashed after a blocks of m, are a + n blocks of q, when q has
\* those blocks.
Shared(q, m, a) == \A i \in 1 .. a : BlockOf(q, i) = BlockOf(m, i)
Shifted(q, a, p, n) == \A i \in 1 .. n : BlockOf(q, a + i) = BlockOf(p, i)

LEMMA HashedShared ==
  ASSUME NEW s, NEW q, NEW m, NEW a \in Nat, Shared(q, m, a)
  PROVE  Hashed(s, q, a) = Hashed(s, m, a)
<1>1. PICK h : h = [ i \in 0 .. a |-> Hashed(s, m, i) ]
  OBVIOUS
<1>2. h[0] = s
  <2>1. 0 \in 0 .. a
    OBVIOUS
  <2>2. QED
    BY <1>1, <2>1, HashedNone
<1>3. ASSUME NEW i \in 1 .. a PROVE h[i] = Compress(h[i - 1], BlockOf(q, i))
  <2>1. PICK k \in 0 .. a : k = i - 1 /\ k \in Nat /\ i \in Nat \ {0} /\ i \in 0 .. a
    OBVIOUS
  <2>2. Hashed(s, m, i) = Compress(Hashed(s, m, k), BlockOf(m, i))
    BY <2>1, HashedMore
  <2>3. BlockOf(q, i) = BlockOf(m, i)
    BY DEF Shared
  <2>4. QED
    BY <1>1, <2>1, <2>2, <2>3
<1>4. Hashed(s, q, a) = h[a]
  BY <1>2, <1>3, HashedIs
<1>5. QED
  BY <1>1, <1>4

LEMMA HashedShifted ==
  ASSUME NEW s, NEW q, NEW a \in Nat, NEW p, NEW n \in Nat, Shifted(q, a, p, n), NEW b, b = a + n
  PROVE  Hashed(Hashed(s, q, a), p, n) = Hashed(s, q, b)
<1>1. PICK h : h = [ i \in 0 .. n |-> Hashed(s, q, a + i) ]
  OBVIOUS
<1>2. h[0] = Hashed(s, q, a)
  <2>1. 0 \in 0 .. n /\ a + 0 = a
    OBVIOUS
  <2>2. QED
    BY <1>1, <2>1
<1>3. ASSUME NEW i \in 1 .. n PROVE h[i] = Compress(h[i - 1], BlockOf(p, i))
  <2>1. PICK k \in 0 .. n : k = i - 1 /\ k \in Nat /\ i \in 0 .. n
    OBVIOUS
  <2>2. PICK j \in Nat \ {0} : j = a + i
    OBVIOUS
  <2>3. PICK l \in Nat : l = a + k /\ l = j - 1
    BY <2>1, <2>2
  <2>4. Hashed(s, q, j) = Compress(Hashed(s, q, l), BlockOf(q, j))
    BY <2>3, HashedMore
  <2>5. BlockOf(q, j) = BlockOf(p, i)
    BY <2>2 DEF Shifted
  <2>6. h[i] = Hashed(s, q, j) /\ h[k] = Hashed(s, q, l)
    BY <1>1, <2>1, <2>2, <2>3
  <2>7. QED
    BY <2>1, <2>4, <2>5, <2>6
<1>4. Hashed(h[0], p, n) = h[n]
  BY <1>3, HashedIs
<1>5. h[n] = Hashed(s, q, b)
  BY <1>1
<1>6. QED
  BY <1>2, <1>4, <1>5

\* Where the blocks of two sequences together are.
LEMMA ShaBlockIs ==
  ASSUME NEW S, NEW x \in Seq(S), NEW n \in Nat \ {0}, NEW k \in Nat, k = n - 1,
         64 * n <= Len(x)
  PROVE  BlockOf(x, n) = [ i \in 1 .. 64 |-> x[(64 * k) + i] ]
<1>1. PICK a \in Nat : a = 64 * k
  OBVIOUS
<1>2. PICK b \in Nat : b = 64 * n
  OBVIOUS
<1>3. b - a = 64 /\ a <= b /\ b <= Len(x) /\ 64 * (n - 1) = a
  BY <1>1, <1>2
<1>4. PICK y : y = SubSeq(x, a + 1, b)
  OBVIOUS
<1>5. y \in Seq(S) /\ Len(y) = 64 /\ \A i \in 1 .. 64 : y[i] = x[a + i]
  BY <1>3, <1>4, Piece
<1>6. y = [ i \in 1 .. 64 |-> y[i] ]
  BY <1>5, SequenceIs
<1>7. y = [ i \in 1 .. 64 |-> x[a + i] ]
  BY <1>5, <1>6
<1>8. BlockOf(x, n) = y
  BY <1>2, <1>3, <1>4 DEF BlockOf
<1>9. QED
  BY <1>1, <1>7, <1>8

LEMMA BlockLeft ==
  ASSUME NEW S, NEW x \in Seq(S), NEW y \in Seq(S), NEW a \in Nat, 64 * a <= Len(x)
  PROVE  Shared(Cat(x, y), x, a)
<1>1. PICK z : z = Cat(x, y)
  OBVIOUS
<1>2. z \in Seq(S) /\ Len(x) <= Len(z) /\ Len(x) \in Nat /\ Len(z) \in Nat
      /\ \A i \in 1 .. Len(x) : z[i] = x[i]
  <2>1. z = x \o y
    BY <1>1 DEF Cat
  <2>2. z \in Seq(S) /\ Len(z) = Len(x) + Len(y) /\ Len(x) \in Nat /\ Len(y) \in Nat
        /\ \A i \in 1 .. Len(x) : z[i] = x[i]
    <3>1. /\ x \o y \in Seq(S) /\ Len(x \o y) = Len(x) + Len(y)
          /\ Len(x) \in Nat /\ Len(y) \in Nat
          /\ \A i \in 1 .. Len(x) : (x \o y)[i] = x[i]
      BY Concatenated
    <3>2. QED
      BY <2>1, <3>1
  <2>3. Len(x) <= Len(z) /\ Len(z) \in Nat
    BY <2>2
  <2>4. QED
    BY <2>2, <2>3
<1>3. ASSUME NEW n \in 1 .. a PROVE BlockOf(z, n) = BlockOf(x, n)
  <2>1. PICK k \in Nat : k = n - 1 /\ n \in Nat \ {0}
    OBVIOUS
  <2>2. 64 * n <= 64 * a
    OBVIOUS
  <2>3. 64 * n <= Len(x) /\ 64 * n <= Len(z)
    BY <1>2, <2>2
  <2>4. BlockOf(x, n) = [ i \in 1 .. 64 |-> x[(64 * k) + i] ]
    BY <2>1, <2>3, ShaBlockIs
  <2>5. BlockOf(z, n) = [ i \in 1 .. 64 |-> z[(64 * k) + i] ]
    BY <1>2, <2>1, <2>3, ShaBlockIs
  <2>6. \A i \in 1 .. 64 : (64 * k) + i \in 1 .. Len(x)
    BY <1>2, <2>1, <2>3
  <2>7. QED
    BY <1>2, <2>4, <2>5, <2>6
<1>4. QED
  BY <1>1, <1>3 DEF Shared

LEMMA BlockRight ==
  ASSUME NEW S, NEW x \in Seq(S), NEW y \in Seq(S), NEW a \in Nat, Len(x) = 64 * a,
         NEW n \in Nat, 64 * n <= Len(y)
  PROVE  Shifted(Cat(x, y), a, y, n)
<1>1. PICK z : z = Cat(x, y)
  OBVIOUS
<1>2. z \in Seq(S) /\ Len(z) = Len(x) + Len(y) /\ Len(x) \in Nat /\ Len(y) \in Nat
      /\ \A i \in 1 .. Len(y) : z[Len(x) + i] = y[i]
  <2>1. z = x \o y
    BY <1>1 DEF Cat
  <2>2. QED
    <3>1. IsJoin(z, x, y, S)
      BY <2>1, Joining
    <3>2. Len(x) \in Nat /\ Len(y) \in Nat
      BY SequenceIs
    <3>3. QED
      BY <3>1, <3>2 DEF IsJoin
<1>3. ASSUME NEW m \in 1 .. n PROVE BlockOf(z, a + m) = BlockOf(y, m)
  <2>1. PICK k \in Nat : k = m - 1 /\ m \in Nat \ {0}
    OBVIOUS
  <2>2. PICK b \in Nat \ {0} : b = a + m
    OBVIOUS
  <2>3. PICK l \in Nat : l = a + k /\ l = b - 1
    BY <2>1, <2>2
  <2>4. 64 * m <= 64 * n
    OBVIOUS
  <2>5. 64 * m <= Len(y) /\ 64 * b <= Len(z)
    BY <1>2, <2>2, <2>4
  <2>6. BlockOf(y, m) = [ i \in 1 .. 64 |-> y[(64 * k) + i] ]
    BY <2>1, <2>5, ShaBlockIs
  <2>7. BlockOf(z, b) = [ i \in 1 .. 64 |-> z[(64 * l) + i] ]
    <3>1. z \in Seq(S) /\ 64 * b <= Len(z) /\ l = b - 1
      BY <1>2, <2>3, <2>5
    <3>2. QED
      BY <3>1, ShaBlockIs
  <2>8. ASSUME NEW i \in 1 .. 64 PROVE z[(64 * l) + i] = y[(64 * k) + i]
    <3>1. PICK j \in 1 .. Len(y) : j = (64 * k) + i
      BY <1>2, <2>1, <2>5
    <3>2. (64 * l) + i = Len(x) + j
      BY <2>3, <3>1
    <3>3. QED
      BY <1>2, <3>1, <3>2
  <2>9. QED
    BY <2>2, <2>6, <2>7, <2>8
<1>4. QED
  BY <1>1, <1>3 DEF Shifted

\* What is fed in pieces is hashed as one sequence.
LEMMA HashedOn ==
  ASSUME NEW S, NEW m \in Seq(S), NEW d \in Seq(S), NEW s, NEW a \in Nat, Len(m) = 64 * a,
         NEW n \in Nat, 64 * n <= Len(d), NEW b, b = a + n
  PROVE  Hashed(Hashed(s, m, a), d, n) = Hashed(s, Cat(m, d), b)
<1>1. PICK q : q = Cat(m, d)
  OBVIOUS
<1>2. Shared(q, m, a)
  <2>1. 64 * a <= Len(m)
    OBVIOUS
  <2>2. Shared(Cat(m, d), m, a)
    BY <2>1, BlockLeft
  <2>3. QED
    BY <1>1, <2>2
<1>3. Shifted(q, a, d, n)
  <2>1. Shifted(Cat(m, d), a, d, n)
    BY BlockRight
  <2>2. QED
    BY <1>1, <2>1
<1>4. Hashed(s, q, a) = Hashed(s, m, a)
  BY <1>2, HashedShared
<1>5. Hashed(Hashed(s, q, a), d, n) = Hashed(s, q, b)
  BY <1>3, HashedShifted
<1>6. QED
  BY <1>1, <1>4, <1>5

(* The standard's hash as such blocks.                                      *)
Stored(f) == [ i \in 1 .. 8 |-> store_bigendian_32(f[i]) ]

Spaces(l) == (119 - (l % 64)) % 64

LengthWritten(low, mid, next, last) ==
  << ((low \div 256) \div (256 * 256 * 256)) % 256, ((low \div 256) \div (256 * 256)) % 256,
     ((low \div 256) \div 256) % 256, (low \div 256) % 256, low % 256,
     mid % 256, next % 256, last % 256 >>

Eighths(l) ==
  LengthWritten((8 * l) \div (256 * 256 * 256), (8 * l) \div (256 * 256), (8 * l) \div 256, 8 * l)

Completed(m) ==
  m \o << 128 >> \o Zeros(Spaces(Len(m))) \o Eighths(Len(m))

RunsStandard(f, p) ==
  f = [ n \in 0 .. BlockCount(p) |->
          IF n = 0 THEN iv_256 ELSE Sums(f[n - 1], SixtyFour(f[n - 1], BlockOf(p, n))) ]

LEMMA StandardChosen ==
  ASSUME NEW m
  PROVE  SHA256(m) = Stored((CHOOSE f : RunsStandard(f, Completed(m)))[BlockCount(Completed(m))])
  BY Zenon DEF SHA256, Stored, RunsStandard, BlockCount, Completed, Spaces, Eighths, LengthWritten

LEMMA StandardTurned ==
  ASSUME NEW m, NEW p, p = Completed(m), NEW n \in Nat, n = BlockCount(p)
  PROVE  SHA256(m) = Stored(Hashed(iv_256, p, n))
<1>1. PICK g : Turns(g, "block", iv_256, p, 0, n)
  BY TurnsExist
<1>2. RunsStandard(g, p)
  <2>1. ASSUME NEW i \in 0 .. n
        PROVE  Turn("block", g[i - 1], p, 0, i) = Sums(g[i - 1], SixtyFour(g[i - 1], BlockOf(p, i)))
    <3>1. Turn("block", g[i - 1], p, 0, i) = Compress(g[i - 1], BlockOf(p, i))
      BY TurnIs
    <3>2. QED
      BY <3>1, CompressIs
  <2>2. QED
    BY <1>1, <2>1 DEF Turns, RunsStandard
<1>3. PICK h : h = CHOOSE f : RunsStandard(f, p)
  OBVIOUS
<1>4. RunsStandard(h, p)
  BY <1>2, <1>3, Zenon
<1>5. h[0] = iv_256
  <2>1. 0 \in 0 .. n
    OBVIOUS
  <2>2. QED
    BY <1>4, <2>1 DEF RunsStandard
<1>6. ASSUME NEW i \in 1 .. n PROVE h[i] = Compress(h[i - 1], BlockOf(p, i))
  <2>1. i \in 0 .. n /\ i # 0
    OBVIOUS
  <2>2. h[i] = Sums(h[i - 1], SixtyFour(h[i - 1], BlockOf(p, i)))
    BY <1>4, <2>1 DEF RunsStandard
  <2>3. QED
    BY <2>2, CompressIs
<1>7. Hashed(iv_256, p, n) = h[n]
  BY <1>5, <1>6, HashedIs
<1>8. SHA256(m) = Stored(h[n])
  BY <1>3, StandardChosen
<1>9. QED
  BY <1>7, <1>8

\* The length in bits, byte by byte, from the length in bytes.
LEMMA Scaled ==
  ASSUME NEW l \in Nat, NEW u \in Nat \ {0}, NEW w, w = 8 * u
  PROVE  (8 * l) \div w = l \div u
<1>1. PICK k \in Nat, v \in 0 .. u - 1 : l = u * k + v
  <2>1. l \div u \in Nat /\ l % u \in 0 .. u - 1 /\ l = u * (l \div u) + (l % u)
    OBVIOUS
  <2>2. QED
    BY <2>1
<1>2. l \div u = k
  <2>1. Splits(l, u, k, v)
    BY <1>1 DEF Splits
  <2>2. QED
    BY <2>1, Split
<1>3. PICK y \in 0 .. w - 1 : y = 8 * v
  OBVIOUS
<1>4. PICK x \in Nat : x = 8 * l
  OBVIOUS
<1>5. Splits(x, w, k, y)
  <2>1. 8 * (u * k + v) = 8 * (u * k) + 8 * v
    OBVIOUS
  <2>2. (8 * u) * k = 8 * (u * k)
    OBVIOUS
  <2>3. x = w * k + y
    BY <1>1, <1>3, <1>4, <2>1, <2>2
  <2>4. QED
    BY <2>3 DEF Splits
<1>6. w \in Nat \ {0}
  OBVIOUS
<1>7. x \div w = k
  BY <1>5, <1>6, Split
<1>8. QED
  BY <1>2, <1>4, <1>7

LEMMA EighthsAre ==
  ASSUME NEW l \in Nat
  PROVE  LengthBytes(l) = Eighths(l)
<1>1. (8 * l) \div (256 * 256 * 256) = l \div (32 * 256 * 256)
  <2>1. (256 * 256 * 256) = 8 * (32 * 256 * 256) /\ (32 * 256 * 256) \in Nat \ {0}
    OBVIOUS
  <2>2. QED
    BY <2>1, Scaled
<1>2. (8 * l) \div (256 * 256) = l \div (32 * 256)
  <2>1. (256 * 256) = 8 * (32 * 256) /\ (32 * 256) \in Nat \ {0}
    OBVIOUS
  <2>2. QED
    BY <2>1, Scaled
<1>3. (8 * l) \div 256 = l \div 32
  <2>1. 256 = 8 * 32 /\ 32 \in Nat \ {0}
    OBVIOUS
  <2>2. QED
    BY <2>1, Scaled
<1>4. 8 * l = l * 8
  OBVIOUS
<1>5. LengthBytes(l) = LengthWritten(l \div (32 * 256 * 256), l \div (32 * 256), l \div 32, l * 8)
  BY Zenon DEF LengthBytes, LengthWritten
<1>6. PICK a, b, c, d :
         /\ a = l \div (32 * 256 * 256) /\ b = l \div (32 * 256)
         /\ c = l \div 32 /\ d = l * 8
  OBVIOUS
<1>7. Eighths(l) = LengthWritten(a, b, c, d)
  <2>1. /\ (8 * l) \div (256 * 256 * 256) = a /\ (8 * l) \div (256 * 256) = b
        /\ (8 * l) \div 256 = c /\ 8 * l = d
    BY <1>1, <1>2, <1>3, <1>4, <1>6
  <2>2. QED
    BY <2>1 DEF Eighths
<1>8. QED
  BY <1>5, <1>6, <1>7

(* The padding: a sequence of c whole blocks and a rest of r bytes is       *)
(* filled up to one block or two after the whole ones.                      *)
LEMMA SpacesAre ==
  ASSUME NEW l \in Nat, NEW c \in Nat, NEW r \in 0 .. 63, l = (64 * c) + r
  PROVE  Spaces(l) = (IF r < 56 THEN 55 - r ELSE 119 - r)
<1>1. l % 64 = r
  <2>1. 64 \in Nat \ {0} /\ r \in 0 .. 64 - 1
    OBVIOUS
  <2>2. Splits(l, 64, c, r)
    BY DEF Splits
  <2>3. QED
    BY <2>1, <2>2, Split
<1>2. Spaces(l) = (119 - r) % 64
  BY <1>1 DEF Spaces
<1>3. CASE r < 56
  <2>1. PICK i \in Nat : i = 119 - r
    OBVIOUS
  <2>2. PICK v \in 0 .. 64 - 1 : v = 55 - r
    BY <1>3
  <2>3. Splits(i, 64, 1, v)
    BY <2>1, <2>2 DEF Splits
  <2>4. i % 64 = v
    <3>1. 64 \in Nat \ {0} /\ 1 \in Nat
      OBVIOUS
    <3>2. QED
      BY <2>3, <3>1, Split
  <2>5. QED
    BY <1>2, <1>3, <2>1, <2>2, <2>4
<1>4. CASE ~(r < 56)
  <2>1. PICK i \in Nat : i = 119 - r
    OBVIOUS
  <2>2. i \in 0 .. 64 - 1
    BY <1>4, <2>1
  <2>3. Splits(i, 64, 0, i)
    BY <2>1 DEF Splits
  <2>4. i % 64 = i
    <3>1. 64 \in Nat \ {0} /\ 0 \in Nat
      OBVIOUS
    <3>2. QED
      BY <2>2, <2>3, <3>1, Split
  <2>5. QED
    BY <1>2, <1>4, <2>1, <2>4
<1>5. QED
  BY <1>3, <1>4

LEMMA ZerosType ==
  ASSUME NEW n \in Nat
  PROVE  Zeros(n) \in Seq(Int) /\ Len(Zeros(n)) = n
<1>1. PICK f : f = Zeros(n)
  OBVIOUS
<1>2. f = [ i \in 1 .. n |-> 0 ]
  BY <1>1 DEF Zeros
<1>3. f \in [ 1 .. n -> Int ]
  BY <1>2
<1>4. f \in Seq(Int) /\ Len(f) = n
  BY <1>3, FunctionIsSeq
<1>5. QED
  BY <1>1, <1>4

LEMMA EighthsType ==
  ASSUME NEW l \in Nat
  PROVE  Eighths(l) \in Seq(Int) /\ Len(Eighths(l)) = 8
<1>1. PICK x \in Int, a \in Int, b \in Int, c \in Int :
         /\ x = 8 * l
         /\ a = x \div (256 * 256 * 256)
         /\ b = x \div (256 * 256)
         /\ c = x \div 256
  <2>1. PICK x \in Int : x = 8 * l
    OBVIOUS
  <2>2. x \div (256 * 256 * 256) \in Int /\ x \div (256 * 256) \in Int /\ x \div 256 \in Int
    OBVIOUS
  <2>3. QED
    BY <2>1, <2>2
<1>2. Eighths(l) = LengthWritten(a, b, c, x)
  BY <1>1 DEF Eighths
<1>3. PICK h \in Int : h = a \div 256
  OBVIOUS
<1>4. LengthWritten(a, b, c, x)
        = << (h \div (256 * 256 * 256)) % 256, (h \div (256 * 256)) % 256, (h \div 256) % 256,
             h % 256, a % 256, b % 256, c % 256, x % 256 >>
  BY <1>3 DEF LengthWritten
<1>5. /\ (h \div (256 * 256 * 256)) % 256 \in Int /\ (h \div (256 * 256)) % 256 \in Int
      /\ (h \div 256) % 256 \in Int /\ h % 256 \in Int /\ a % 256 \in Int
      /\ b % 256 \in Int /\ c % 256 \in Int /\ x % 256 \in Int
  OBVIOUS
<1>6. PICK w : w = LengthWritten(a, b, c, x)
  OBVIOUS
<1>7. w \in Seq(Int) /\ Len(w) = 8
  BY <1>4, <1>5, <1>6
<1>8. QED
  BY <1>2, <1>6, <1>7

Over(r) == IF r < 56 THEN 1 ELSE 2

Stuffed(R, l) == Cat(Cat(Cat(R, << 128 >>), Zeros(Spaces(l))), Eighths(l))

IsPadding(P, R, l, r) == P = Stuffed(R, l) /\ P \in Seq(Int) /\ Len(P) = 64 * Over(r)

LEMMA Gap ==
  ASSUME NEW r \in 0 .. 63
  PROVE  \E z \in Nat : z = (IF r < 56 THEN 55 - r ELSE 119 - r)
<1>1. CASE r < 56
  <2>1. 55 - r \in Nat
    BY <1>1
  <2>2. QED
    BY <1>1, <2>1
<1>2. CASE ~(r < 56)
  <2>1. 119 - r \in Nat
    OBVIOUS
  <2>2. QED
    BY <1>2, <2>1
<1>3. QED
  BY <1>1, <1>2

LEMMA LengthsTogether ==
  ASSUME NEW s \in Seq(Int), NEW t \in Seq(Int), NEW n \in Nat, NEW k \in Nat, HasLength(s, n),
         HasLength(t, k), NEW c \in Nat, c = n + k, NEW u, u = s \o t
  PROVE  u \in Seq(Int) /\ HasLength(u, c)
<1>1. s \o t \in Seq(Int) /\ Len(s \o t) = Len(s) + Len(t)
  BY Concatenated
<1>2. QED
  BY <1>1 DEF HasLength

LEMMA PaddedIs ==
  ASSUME NEW R \in Seq(Int), NEW r \in 0 .. 63, Len(R) = r, NEW l \in Nat, NEW c \in Nat,
         l = (64 * c) + r
  PROVE  IsPadding(Padded(R, l), R, l, r)
<1>1. PICK z \in Nat : z = (IF r < 56 THEN 55 - r ELSE 119 - r)
  BY Gap
<1>2. Spaces(l) = z
  BY <1>1, SpacesAre
<1>3. (IF r < 56 THEN 56 ELSE 120) - r - 1 = z
  BY <1>1
<1>4. PICK P : P = Padded(R, l)
  OBVIOUS
<1>5. PICK t1, t2, t3 : t1 = << 128 >> /\ t2 = Zeros(z) /\ t3 = Eighths(l)
  OBVIOUS
<1>6. P = R \o t1 \o t2 \o LengthBytes(l)
  BY <1>3, <1>4, <1>5 DEF Padded
<1>7. LengthBytes(l) = t3
  BY <1>5, EighthsAre
<1>8. P = Cat(Cat(Cat(R, t1), t2), t3)
  BY <1>6, <1>7 DEF Cat
<1>9. t1 \in Seq(Int) /\ HasLength(t1, 1) /\ HasLength(R, r) /\ 1 \in Nat /\ r \in Nat
  BY <1>5 DEF HasLength
<1>10. t2 \in Seq(Int) /\ HasLength(t2, z)
  BY <1>5, ZerosType DEF HasLength
<1>11. t3 \in Seq(Int) /\ HasLength(t3, 8) /\ 8 \in Nat
  BY <1>5, EighthsType DEF HasLength
<1>12. PICK u1 : u1 = R \o t1
  OBVIOUS
<1>13. PICK n1 \in Nat : n1 = r + 1
  OBVIOUS
<1>14. u1 \in Seq(Int) /\ HasLength(u1, n1)
  BY <1>9, <1>12, <1>13, LengthsTogether
<1>15. PICK u2 : u2 = u1 \o t2
  OBVIOUS
<1>16. PICK n2 \in Nat : n2 = n1 + z
  OBVIOUS
<1>17. u2 \in Seq(Int) /\ HasLength(u2, n2)
  BY <1>10, <1>14, <1>15, <1>16, LengthsTogether
<1>18. P = u2 \o t3
  BY <1>8, <1>12, <1>15 DEF Cat
<1>19. PICK n \in Nat : n = n2 + 8
  OBVIOUS
<1>20. P \in Seq(Int) /\ HasLength(P, n)
  BY <1>11, <1>17, <1>18, <1>19, LengthsTogether
<1>21. n = 64 * Over(r)
  BY <1>1, <1>13, <1>16, <1>19 DEF Over
<1>22. P = Stuffed(R, l)
  BY <1>2, <1>5, <1>8 DEF Stuffed
<1>23. QED
  BY <1>4, <1>20, <1>21, <1>22 DEF IsPadding, HasLength

Completes(m, Q, R, l) == Completed(m) = Cat(Q, Padded(R, l))

LEMMA FilledIs ==
  ASSUME NEW Q \in Seq(Int), NEW R \in Seq(Int), NEW c \in Nat, NEW r \in 0 .. 63,
         Len(R) = r, NEW l \in Nat, l = (64 * c) + r, NEW m, m = Cat(Q, R), Len(m) = l
  PROVE  Completes(m, Q, R, l)
<1>1. PICK t1, t2, t3 : t1 = << 128 >> /\ t2 = Zeros(Spaces(l)) /\ t3 = Eighths(l)
  OBVIOUS
<1>2. t1 \in Seq(Int)
  BY <1>1
<1>3. t2 \in Seq(Int)
  <2>1. PICK z \in Nat : z = (IF r < 56 THEN 55 - r ELSE 119 - r)
    BY Gap
  <2>2. Spaces(l) = z
    <3>1. Spaces(l) = (IF r < 56 THEN 55 - r ELSE 119 - r)
      BY SpacesAre
    <3>2. QED
      BY <2>1, <3>1, Zenon
  <2>3. QED
    BY <1>1, <2>2, ZerosType
<1>4. t3 \in Seq(Int)
  BY <1>1, EighthsType
<1>5. Completed(m) = Cat(Cat(Cat(m, t1), t2), t3)
  BY <1>1 DEF Completed, Cat
<1>6. Padded(R, l) = Cat(Cat(Cat(R, t1), t2), t3)
  <2>1. IsPadding(Padded(R, l), R, l, r)
    BY PaddedIs
  <2>2. QED
    BY <1>1, <2>1 DEF IsPadding, Stuffed
<1>7. Cat(m, t1) = Cat(Q, Cat(R, t1))
  BY <1>2, CatAgain
<1>8. PICK a : a = Cat(R, t1)
  OBVIOUS
<1>9. a \in Seq(Int)
  BY <1>2, <1>8, CatIs
<1>10. Cat(Cat(Q, a), t2) = Cat(Q, Cat(a, t2))
  BY <1>3, <1>9, CatAgain
<1>11. PICK b : b = Cat(a, t2)
  OBVIOUS
<1>12. b \in Seq(Int)
  BY <1>3, <1>9, <1>11, CatIs
<1>13. Cat(Cat(Q, b), t3) = Cat(Q, Cat(b, t3))
  BY <1>4, <1>12, CatAgain
<1>14. Completed(m) = Cat(Q, Padded(R, l))
  BY <1>5, <1>6, <1>7, <1>8, <1>10, <1>11, <1>13
<1>15. QED
  BY <1>14 DEF Completes

(* A context that was fed whole blocks, and its digest.                     *)
Holds(x, m, a) ==
  /\ m \in Seq(Int) /\ Len(m) = 64 * a
  /\ x = [ state |-> Hashed(iv_256, m, a), bytes |-> 64 * a ]

LEMMA WholeIs ==
  ASSUME NEW m, NEW l \in Nat, Len(m) = l, NEW n \in Nat, NEW r \in 0 .. 63, l = (64 * n) + r
  PROVE  BlockCount(m) = n
<1>1. 64 \in Nat \ {0} /\ r \in 0 .. 64 - 1
  OBVIOUS
<1>2. Splits(l, 64, n, r)
  BY DEF Splits
<1>3. l \div 64 = n
  BY <1>1, <1>2, Split
<1>4. QED
  BY <1>3 DEF BlockCount

LEMMA CatLength ==
  ASSUME NEW s \in Seq(Int), NEW t \in Seq(Int), NEW n \in Nat, NEW k \in Nat, Len(s) = n,
         Len(t) = k, NEW c \in Nat, c = n + k
  PROVE  Cat(s, t) \in Seq(Int) /\ Len(Cat(s, t)) = c
<1>1. HasLength(s, n) /\ HasLength(t, k)
  BY DEF HasLength
<1>2. PICK u : u = s \o t
  OBVIOUS
<1>3. u \in Seq(Int) /\ HasLength(u, c)
  BY <1>1, <1>2, LengthsTogether
<1>4. QED
  BY <1>2, <1>3 DEF HasLength, Cat

LEMMA FinalizedIs ==
  ASSUME NEW x, NEW m, NEW a \in Nat, Holds(x, m, a), NEW d \in Seq(Int)
  PROVE  Finalized(x, d) = SHA256(Cat(m, d))
<1>1. m \in Seq(Int) /\ Len(m) = 64 * a /\ x.state = Hashed(iv_256, m, a) /\ x.bytes = 64 * a
  BY DEF Holds
<1>2. PICK k \in Nat : k = Len(d)
  OBVIOUS
<1>3. PICK n \in Nat, r \in 0 .. 63 : k = (64 * n) + r
  <2>1. k \div 64 \in Nat /\ k % 64 \in 0 .. 63 /\ k = (64 * (k \div 64)) + (k % 64)
    OBVIOUS
  <2>2. QED
    BY <2>1
<1>4. PICK c \in Nat : c = a + n
  OBVIOUS
<1>5. PICK l \in Nat : l = (64 * a) + k /\ l = (64 * c) + r
  BY <1>3, <1>4
<1>6. PICK p \in Nat : p = 64 * n /\ p <= k /\ r = k - p /\ 0 <= p /\ p = p - 0 /\ k <= k
  BY <1>3
<1>7. PICK R : R = Slice(d, p, k)
  OBVIOUS
<1>8. PICK B : B = Slice(d, 0, p)
  OBVIOUS
<1>9. R \in Seq(Int) /\ Len(R) = r
  <2>1. HasLength(d, k)
    BY <1>2 DEF HasLength
  <2>2. Slice(d, p, k) \in Seq(Int) /\ HasLength(Slice(d, p, k), r)
    BY <1>6, <2>1, SliceIs
  <2>3. QED
    BY <1>7, <2>2 DEF HasLength
<1>10. B \in Seq(Int) /\ Len(B) = p
  <2>1. HasLength(d, k) /\ 0 \in Nat
    BY <1>2 DEF HasLength
  <2>2. Slice(d, 0, p) \in Seq(Int) /\ HasLength(Slice(d, 0, p), p)
    BY <1>6, <2>1, SliceIs
  <2>3. QED
    BY <1>8, <2>2 DEF HasLength
<1>11. Cat(B, R) = d
  <2>1. HasLength(d, k) /\ 0 \in Nat
    BY <1>2 DEF HasLength
  <2>2. Cat(Slice(d, 0, p), Slice(d, p, k)) = Slice(d, 0, k)
    BY <1>6, <2>1, SlicesJoin
  <2>3. Slice(d, 0, Len(d)) = d
    BY CatNothing
  <2>4. QED
    BY <1>2, <1>7, <1>8, <2>2, <2>3
<1>12. PICK Q : Q = Cat(m, B)
  OBVIOUS
<1>13. Q \in Seq(Int) /\ Len(Q) = 64 * c
  <2>1. PICK u \in Nat, w \in Nat : u = 64 * a /\ w = 64 * c /\ w = u + p
    BY <1>4, <1>6
  <2>2. Len(m) = u
    BY <1>1, <2>1
  <2>3. Cat(m, B) \in Seq(Int) /\ Len(Cat(m, B)) = w
    BY <1>1, <1>10, <2>1, <2>2, CatLength
  <2>4. QED
    BY <1>12, <2>1, <2>3
<1>14. PICK M1 : M1 = Cat(m, d)
  OBVIOUS
<1>15. M1 = Cat(Q, R)
  <2>1. Cat(Cat(m, B), R) = Cat(m, Cat(B, R))
    BY <1>1, <1>9, <1>10, CatAgain
  <2>2. QED
    BY <1>11, <1>12, <1>14, <2>1
<1>16. Len(M1) = l
  <2>1. PICK u \in Nat : u = 64 * a /\ l = u + k
    BY <1>5
  <2>2. Len(m) = u /\ Len(d) = k
    BY <1>1, <1>2, <2>1
  <2>3. Cat(m, d) \in Seq(Int) /\ Len(Cat(m, d)) = l
    BY <1>1, <2>1, <2>2, CatLength
  <2>4. QED
    BY <1>14, <2>3
<1>17. PICK P : P = Padded(R, l)
  OBVIOUS
<1>18. Completed(M1) = Cat(Q, P)
  <2>1. Q \in Seq(Int) /\ R \in Seq(Int) /\ Len(R) = r /\ l = (64 * c) + r
    BY <1>5, <1>9, <1>13
  <2>2. Completes(M1, Q, R, l)
    BY <1>15, <1>16, <2>1, FilledIs
  <2>3. QED
    BY <1>17, <2>2 DEF Completes
<1>19. PICK e \in Nat : e = Over(r)
  BY DEF Over
<1>20. P \in Seq(Int) /\ Len(P) = 64 * e
  <2>1. R \in Seq(Int) /\ Len(R) = r /\ l = (64 * c) + r
    BY <1>5, <1>9
  <2>2. IsPadding(Padded(R, l), R, l, r)
    BY <2>1, PaddedIs
  <2>3. QED
    BY <1>17, <1>19, <2>2 DEF IsPadding
<1>21. BlockCount(d) = n
  BY <1>2, <1>3, WholeIs
<1>22. PICK s1 : s1 = Hashed(iv_256, M1, c)
  OBVIOUS
<1>23. crypto_hashblocks_sha256(x.state, d) = s1
  <2>1. crypto_hashblocks_sha256(x.state, d) = Hashed(x.state, d, n)
    BY <1>21, BlocksTurned
  <2>2. 64 * n <= Len(d)
    BY <1>2, <1>3
  <2>3. Hashed(Hashed(iv_256, m, a), d, n) = Hashed(iv_256, Cat(m, d), c)
    BY <1>1, <1>4, <2>2, HashedOn
  <2>4. QED
    BY <1>1, <1>14, <1>22, <2>1, <2>3
<1>24. s1 = Hashed(iv_256, Q, c)
  <2>1. 64 * c <= Len(Q)
    BY <1>13
  <2>2. Shared(Cat(Q, R), Q, c)
    BY <1>9, <1>13, <2>1, BlockLeft
  <2>3. Shared(M1, Q, c)
    BY <1>15, <2>2
  <2>4. QED
    BY <1>22, <2>3, HashedShared
<1>25. PICK b \in Nat : b = c + e
  OBVIOUS
<1>26. PICK s2 : s2 = Hashed(iv_256, Cat(Q, P), b)
  OBVIOUS
<1>27. crypto_hashblocks_sha256(s1, P) = s2
  <2>1. BlockCount(P) = e
    <3>1. PICK w \in Nat : w = 64 * e
      OBVIOUS
    <3>2. Len(P) = w /\ w = (64 * e) + 0 /\ 0 \in 0 .. 63
      BY <1>20, <3>1
    <3>3. QED
      BY <3>2, WholeIs
  <2>2. crypto_hashblocks_sha256(s1, P) = Hashed(s1, P, e)
    BY <2>1, BlocksTurned
  <2>3. 64 * e <= Len(P)
    BY <1>20
  <2>4. Hashed(Hashed(iv_256, Q, c), P, e) = Hashed(iv_256, Cat(Q, P), b)
    BY <1>13, <1>20, <1>25, <2>3, HashedOn
  <2>5. QED
    BY <1>24, <1>26, <2>2, <2>4
<1>28. SHA256(M1) = Stored(s2)
  <2>1. PICK f : f = Completed(M1)
    OBVIOUS
  <2>2. f = Cat(Q, P)
    BY <1>18, <2>1
  <2>3. BlockCount(f) = b
    <3>1. PICK w \in Nat, u \in Nat, v \in Nat : w = 64 * b /\ u = 64 * c /\ v = 64 * e /\ w = u + v
      BY <1>25
    <3>2. Len(Q) = u /\ Len(P) = v
      BY <1>13, <1>20, <3>1
    <3>3. Len(Cat(Q, P)) = w
      BY <1>13, <1>20, <3>1, <3>2, CatLength
    <3>4. Len(f) = w /\ w = (64 * b) + 0 /\ 0 \in 0 .. 63
      BY <2>2, <3>1, <3>3
    <3>5. QED
      BY <3>4, WholeIs
  <2>4. SHA256(M1) = Stored(Hashed(iv_256, f, b))
    BY <2>1, <2>3, StandardTurned
  <2>5. QED
    BY <1>26, <2>2, <2>4
<1>29. Finalized(x, d) = Stored(s2)
  <2>1. Len(d) \div 64 = n
    BY <1>21 DEF BlockCount
  <2>2. SubSeq(d, (64 * (Len(d) \div 64)) + 1, Len(d)) = R
    BY <1>2, <1>6, <1>7, <2>1 DEF Slice
  <2>3. x.bytes + Len(d) = l
    BY <1>1, <1>2, <1>5
  <2>4. PICK q : q = crypto_hashblocks_sha256(crypto_hashblocks_sha256(x.state, d),
                       Padded(SubSeq(d, (64 * (Len(d) \div 64)) + 1, Len(d)), x.bytes + Len(d)))
    OBVIOUS
  <2>5. Finalized(x, d) = Stored(q)
    BY <2>4, Zenon DEF Finalized, Stored
  <2>6. q = s2
    BY <1>17, <1>23, <1>27, <2>2, <2>3, <2>4
  <2>7. QED
    BY <2>5, <2>6
<1>30. QED
  BY <1>14, <1>28, <1>29

LEMMA FollowingIs ==
  ASSUME NEW m \in Seq(Int), NEW n \in Nat
  PROVE  Following(m, n) \in Seq(Int) /\ Len(Following(m, n)) = n
<1>1. PICK f : f = Following(m, n)
  OBVIOUS
<1>2. PICK k \in Nat : k = Len(m)
  OBVIOUS
<1>3. f = [ i \in 1 .. n |-> Text(k + i) ]
  BY <1>1, <1>2 DEF Following
<1>4. ASSUME NEW i \in Nat PROVE Text(i) \in Int
  BY DEF Text
<1>5. f \in [ 1 .. n -> Int ]
  <2>1. \A i \in 1 .. n : k + i \in Nat
    OBVIOUS
  <2>2. QED
    BY <1>3, <1>4, <2>1
<1>6. f \in Seq(Int) /\ Len(f) = n
  BY <1>5, FunctionIsSeq
<1>7. QED
  BY <1>1, <1>6

LEMMA FreshHolds ==
  Holds([ state |-> iv_256, bytes |-> 0 ], << >>, 0)
<1>1. << >> \in Seq(Int) /\ Len(<< >>) = 64 * 0 /\ 64 * 0 = 0
  OBVIOUS
<1>2. PICK m : m = << >>
  OBVIOUS
<1>3. Hashed(iv_256, m, 0) = iv_256
  BY HashedNone
<1>4. Holds([ state |-> iv_256, bytes |-> 0 ], m, 0)
  BY <1>1, <1>2, <1>3 DEF Holds
<1>5. QED
  BY <1>2, <1>4

LEMMA BlocksHold ==
  ASSUME NEW x, NEW m, NEW a \in Nat, Holds(x, m, a), NEW n \in Nat, NEW d, d = Following(m, 64 * n),
         NEW b \in Nat, b = a + n
  PROVE  Holds([ state |-> crypto_hashblocks_sha256(x.state, d), bytes |-> x.bytes + (64 * n) ],
               Cat(m, d), b)
<1>1. m \in Seq(Int) /\ Len(m) = 64 * a /\ x.state = Hashed(iv_256, m, a) /\ x.bytes = 64 * a
  BY DEF Holds
<1>2. PICK k \in Nat, u \in Nat, w \in Nat : k = 64 * n /\ u = 64 * a /\ w = 64 * b /\ w = u + k
  OBVIOUS
<1>3. d \in Seq(Int) /\ Len(d) = k
  BY <1>1, <1>2, FollowingIs
<1>4. BlockCount(d) = n
  <2>1. k = (64 * n) + 0 /\ 0 \in 0 .. 63
    BY <1>2
  <2>2. QED
    BY <1>3, <2>1, WholeIs
<1>5. crypto_hashblocks_sha256(x.state, d) = Hashed(x.state, d, n)
  BY <1>4, BlocksTurned
<1>6. Hashed(Hashed(iv_256, m, a), d, n) = Hashed(iv_256, Cat(m, d), b)
  <2>1. 64 * n <= Len(d)
    BY <1>2, <1>3
  <2>2. QED
    BY <1>1, <1>3, <2>1, HashedOn
<1>7. Cat(m, d) \in Seq(Int) /\ Len(Cat(m, d)) = w
  <2>1. Len(m) = u
    BY <1>1, <1>2
  <2>2. QED
    BY <1>1, <1>2, <1>3, <2>1, CatLength
<1>8. crypto_hashblocks_sha256(x.state, d) = Hashed(iv_256, Cat(m, d), b)
  BY <1>1, <1>5, <1>6
<1>9. x.bytes + (64 * n) = 64 * b
  BY <1>1, <1>2
<1>10. PICK q : q = Cat(m, d)
  OBVIOUS
<1>11. q \in Seq(Int) /\ Len(q) = 64 * b
  BY <1>2, <1>7, <1>10
<1>12. QED
  BY <1>8, <1>9, <1>10, <1>11 DEF Holds

Carries(x, m) == (x = << >> /\ m = << >>) \/ \E a \in Nat : Holds(x, m, a)

LEMMA HoldsSome ==
  ASSUME NEW x, NEW m, Carries(x, m), x # << >>
  PROVE  m \in Seq(Int) /\ \E a \in Nat : Holds(x, m, a)
<1>1. PICK a \in Nat : Holds(x, m, a)
  BY DEF Carries
<1>2. QED
  BY <1>1 DEF Holds

CarriesBoth == \E m1, m2 : fed = << m1, m2 >> /\ Carries(context, m1) /\ Carries(clone, m2)

LEMMA ShaStarts ==
  ASSUME ShaInit
  PROVE  CarriesBoth /\ ShaAgrees
<1>1. Carries(context, << >>) /\ Carries(clone, << >>)
  BY DEF ShaInit, Carries
<1>2. fed = << << >>, << >> >> /\ digests = {}
  BY DEF ShaInit
<1>3. QED
  BY <1>1, <1>2 DEF CarriesBoth, ShaAgrees

LEMMA ShaSteps ==
  ASSUME CarriesBoth, ShaAgrees, ShaNext, Feeds \subseteq Nat, Rests \subseteq Nat
  PROVE  CarriesBoth' /\ ShaAgrees'
<1>1. PICK m1, m2 : fed = << m1, m2 >> /\ Carries(context, m1) /\ Carries(clone, m2)
  BY DEF CarriesBoth
<1>2. CASE sha256_inc_init
  <2>1. PICK x : x = [ state |-> iv_256, bytes |-> 0 ]
    OBVIOUS
  <2>2. context = << >> /\ context' = x /\ clone' = clone /\ fed' = fed /\ digests' = digests
    BY <1>2, <2>1 DEF sha256_inc_init
  <2>3. Carries(x, << >>)
    <3>1. Holds(x, << >>, 0) /\ 0 \in Nat
      BY <2>1, FreshHolds
    <3>2. QED
      BY <3>1 DEF Carries
  <2>4. Carries(context', m1)
    <3>1. CASE m1 = << >>
      BY <2>2, <2>3, <3>1
    <3>2. CASE \E a \in Nat : Holds(context, m1, a)
      <4>1. PICK a \in Nat : Holds(context, m1, a)
        BY <3>2
      <4>2. Len(m1) = 64 * a /\ m1 \in Seq(Int)
            /\ context = [ state |-> Hashed(iv_256, m1, a), bytes |-> 64 * a ]
        BY <4>1 DEF Holds
      <4>3. DOMAIN context = { "state", "bytes" }
        BY <4>2
      <4>4. DOMAIN context = {}
        BY <2>2
      <4>5. QED
        BY <4>3, <4>4
    <3>3. QED
      BY <1>1, <3>1, <3>2 DEF Carries
  <2>5. CarriesBoth'
    BY <1>1, <2>2, <2>4 DEF CarriesBoth
  <2>6. ShaAgrees'
    BY <2>2 DEF ShaAgrees
  <2>7. QED
    BY <2>5, <2>6
<1>3. ASSUME NEW n \in Feeds, sha256_inc_blocks(n) PROVE CarriesBoth' /\ ShaAgrees'
  <2>1. PICK d : d = Following(m1, 64 * n)
    OBVIOUS
  <2>2. fed[1] = m1 /\ n \in Nat
    BY <1>1
  <2>3. PICK y : y = [ state |-> crypto_hashblocks_sha256(context.state, d),
                       bytes |-> context.bytes + (64 * n) ]
    OBVIOUS
  <2>4. context # << >> /\ context' = y /\ clone' = clone /\ digests' = digests
        /\ fed' = [ fed EXCEPT ![1] = @ \o d ]
    BY <1>3, <2>1, <2>2, <2>3 DEF sha256_inc_blocks
  <2>5. m1 \in Seq(Int) /\ \E a \in Nat : Holds(context, m1, a)
    BY <1>1, <2>4, HoldsSome
  <2>6. PICK a \in Nat : Holds(context, m1, a)
    BY <2>5
  <2>7. PICK q : q = Cat(m1, d)
    OBVIOUS
  <2>8. fed' = << q, m2 >>
    BY <1>1, <2>4, <2>7 DEF Cat
  <2>9. PICK b \in Nat : b = a + n
    BY <2>2
  <2>10. Holds(y, q, b)
    BY <2>1, <2>2, <2>3, <2>6, <2>7, <2>9, BlocksHold
  <2>11. Carries(y, q)
    BY <2>10 DEF Carries
  <2>12. CarriesBoth'
    BY <1>1, <2>4, <2>8, <2>11 DEF CarriesBoth
  <2>13. ShaAgrees'
    BY <2>4 DEF ShaAgrees
  <2>14. QED
    BY <2>12, <2>13
<1>4. CASE sha256_inc_ctx_clone
  <2>1. clone' = context /\ context' = context /\ digests' = digests /\ fed' = [ fed EXCEPT ![2] = fed[1] ]
    BY <1>4 DEF sha256_inc_ctx_clone
  <2>2. fed' = << m1, m1 >>
    BY <1>1, <2>1
  <2>3. CarriesBoth'
    BY <1>1, <2>1, <2>2 DEF CarriesBoth
  <2>4. ShaAgrees'
    BY <2>1 DEF ShaAgrees
  <2>5. QED
    BY <2>3, <2>4
<1>5. ASSUME NEW n \in Rests, sha256_inc_finalize(n) PROVE CarriesBoth' /\ ShaAgrees'
  <2>1. PICK d : d = Following(m1, n)
    OBVIOUS
  <2>2. fed[1] = m1 /\ fed[2] = m2 /\ n \in Nat
    BY <1>1
  <2>3. PICK g : g = [ message |-> m1 \o d, digest |-> Finalized(context, d) ]
    OBVIOUS
  <2>4. context # << >> /\ context' = clone /\ clone' = << >> /\ digests' = digests \cup { g }
        /\ fed' = << m2, << >> >>
    BY <1>5, <2>1, <2>2, <2>3 DEF sha256_inc_finalize
  <2>5. m1 \in Seq(Int) /\ \E a \in Nat : Holds(context, m1, a)
    BY <1>1, <2>4, HoldsSome
  <2>6. PICK a \in Nat : Holds(context, m1, a)
    BY <2>5
  <2>7. d \in Seq(Int)
    BY <2>1, <2>2, <2>5, FollowingIs
  <2>8. g.digest = SHA256(g.message)
    <3>1. Finalized(context, d) = SHA256(Cat(m1, d))
      BY <2>6, <2>7, FinalizedIs
    <3>2. QED
      BY <2>3, <3>1 DEF Cat
  <2>9. Carries(<< >>, << >>)
    BY DEF Carries
  <2>10. CarriesBoth'
    BY <1>1, <2>4, <2>9 DEF CarriesBoth
  <2>11. ShaAgrees'
    BY <2>4, <2>8 DEF ShaAgrees
  <2>12. QED
    BY <2>10, <2>11
<1>6. QED
  BY <1>2, <1>3, <1>4, <1>5 DEF ShaNext

-----------------------------------------------------------------------------
(* The units of the accelerator, clock by clock: u is a unit's own clock,   *)
(* 1 in the clock of its first valid input, and p the rounds before its.    *)
RoundsOf(s, E, t) == Turned("round", s, E, 0, t)

FUnit(a, b, x) == [ delay |-> a, working |-> b, word |-> x ]

IsF(g) == \E a, b, x : g = FUnit(a, b, x) /\ b \in BOOLEAN

FAt(g, u, p, s, E) ==
  /\ IsF(g)
  /\ u <= 1 => g.working = FALSE /\ g.delay = 1 - u
  /\ \A j \in 1 .. 16 : u = j + 1 => g.working = TRUE /\ g.word = RoundsOf(s, E, p + j)

LEMMA FFields ==
  ASSUME NEW a, NEW b, NEW x, NEW y
  PROVE  /\ FUnit(a, b, x).delay = a /\ FUnit(a, b, x).working = b /\ FUnit(a, b, x).word = x
         /\ [ FUnit(a, b, x) EXCEPT !.word = y ] = FUnit(a, b, y)
         /\ [ FUnit(a, b, x) EXCEPT !.delay = y ] = FUnit(y, b, x)
  BY DEF FUnit

FNext(n, a, b, x, in, k, w) ==
  /\ b = TRUE => n = FUnit(a, b, F_32(x, k, w))
  /\ b = FALSE /\ a = 0 => n = FUnit(0, TRUE, F_32(in, k, w))
  /\ b = FALSE /\ a # 0 => n = FUnit(a - 1, b, x)

LEMMA FClockedIs ==
  ASSUME NEW a, NEW b \in BOOLEAN, NEW x, NEW in, NEW k, NEW w, NEW n,
         FNext(n, a, b, x, in, k, w)
  PROVE  FClocked(FUnit(a, b, x), in, k, w) = n
<1>1. PICK g : g = FUnit(a, b, x)
  OBVIOUS
<1>2. g.delay = a /\ g.working = b /\ g.word = x
  BY <1>1, FFields
<1>3. CASE b = TRUE
  <2>1. FClocked(g, in, k, w) = [ g EXCEPT !.word = F_32(g.word, k, w) ]
    BY <1>2, <1>3 DEF FClocked
  <2>2. PICK y : y = F_32(x, k, w)
    OBVIOUS
  <2>3. FClocked(g, in, k, w) = [ g EXCEPT !.word = y ]
    BY <1>2, <2>1, <2>2
  <2>4. [ g EXCEPT !.word = y ] = FUnit(a, b, y)
    BY <1>1, FFields
  <2>5. QED
    BY <1>1, <1>3, <2>2, <2>3, <2>4 DEF FNext
<1>4. CASE b = FALSE /\ a = 0
  <2>1. PICK y : y = F_32(in, k, w)
    OBVIOUS
  <2>2. FClocked(g, in, k, w) = FUnit(0, TRUE, y)
    BY <1>2, <1>4, <2>1 DEF FClocked, FUnit
  <2>3. QED
    BY <1>1, <1>4, <2>1, <2>2 DEF FNext
<1>5. CASE b = FALSE /\ a # 0
  <2>1. PICK h : h = a - 1
    OBVIOUS
  <2>2. FClocked(g, in, k, w) = [ g EXCEPT !.delay = h ]
    BY <1>2, <1>5, <2>1 DEF FClocked
  <2>3. [ g EXCEPT !.delay = h ] = FUnit(h, b, x)
    BY <1>1, FFields
  <2>4. QED
    BY <1>1, <1>5, <2>1, <2>2, <2>3 DEF FNext
<1>6. QED
  BY <1>3, <1>4, <1>5

LEMMA RoundsMore ==
  ASSUME NEW s, NEW E, NEW n \in Nat \ {0}, NEW k \in Nat, k = n - 1
  PROVE  RoundsOf(s, E, n) = F_32(RoundsOf(s, E, k), K[n], E[n])
<1>1. PICK x : x = Turned("round", s, E, 0, k)
  OBVIOUS
<1>2. Turned("round", s, E, 0, n) = Turn("round", x, E, 0, n)
  BY <1>1, TurnedMore
<1>3. Turn("round", x, E, 0, n) = OneRound(x, E, 0, n)
  BY TurnIs
<1>4. OneRound(x, E, 0, n) = F_32(x, K[n], E[n])
  <2>1. 0 + n = n
    OBVIOUS
  <2>2. QED
    BY <2>1 DEF OneRound
<1>5. QED
  BY <1>1, <1>2, <1>3, <1>4 DEF RoundsOf

FInput(u, p, s, E, in, k, w) ==
  /\ u = 1 => in = RoundsOf(s, E, p)
  /\ \A j \in 1 .. 16 : u = j => k = K[p + j] /\ w = E[p + j]

LEMMA FMore ==
  ASSUME NEW g, NEW u \in Int, NEW p \in Nat, NEW s, NEW E, FAt(g, u, p, s, E),
         NEW in, NEW k, NEW w, FInput(u, p, s, E, in, k, w), NEW v, v = u + 1
  PROVE  FAt(FClocked(g, in, k, w), v, p, s, E)
<1>1. PICK a, b, x : g = FUnit(a, b, x) /\ b \in BOOLEAN
  BY DEF FAt, IsF
<1>2. g.delay = a /\ g.working = b /\ g.word = x
  BY <1>1, FFields
<1>3. PICK h : h = a - 1
  OBVIOUS
<1>4. PICK n : /\ b = TRUE => n = FUnit(a, b, F_32(x, k, w))
               /\ b = FALSE /\ a = 0 => n = FUnit(0, TRUE, F_32(in, k, w))
               /\ b = FALSE /\ a # 0 => n = FUnit(h, b, x)
  <2>1. CASE b = TRUE
    BY <2>1
  <2>2. CASE b = FALSE /\ a = 0
    BY <2>2
  <2>3. CASE b = FALSE /\ a # 0
    BY <2>3
  <2>4. QED
    BY <1>1, <2>1, <2>2, <2>3
<1>5. FClocked(g, in, k, w) = n
  <2>1. FNext(n, a, b, x, in, k, w)
    BY <1>3, <1>4 DEF FNext
  <2>2. FClocked(FUnit(a, b, x), in, k, w) = n
    BY <1>1, <2>1, FClockedIs
  <2>3. QED
    BY <1>1, <2>2
<1>6. IsF(n)
  BY <1>1, <1>4 DEF IsF
<1>7. ASSUME v <= 1 PROVE n.working = FALSE /\ n.delay = 1 - v
  <2>1. u <= 1 /\ b = FALSE /\ a = 1 - u
    BY <1>2, <1>7 DEF FAt
  <2>2. a # 0 /\ h = 1 - v
    BY <1>3, <1>7, <2>1
  <2>3. n = FUnit(h, b, x)
    BY <1>4, <2>1, <2>2
  <2>4. QED
    BY <2>1, <2>2, <2>3, FFields
<1>8. ASSUME NEW j \in 1 .. 16, v = j + 1
      PROVE  n.working = TRUE /\ n.word = RoundsOf(s, E, p + j)
  <2>1. u = j
    BY <1>8
  <2>2. PICK m \in Nat \ {0} : m = p + j
    OBVIOUS
  <2>3. PICK l \in Nat : l = m - 1
    BY <2>2
  <2>4. k = K[m] /\ w = E[m]
    BY <2>1, <2>2 DEF FInput
  <2>5. RoundsOf(s, E, m) = F_32(RoundsOf(s, E, l), k, w)
    BY <2>3, <2>4, RoundsMore
  <2>6. CASE j = 1
    <3>1. b = FALSE /\ a = 0 /\ in = RoundsOf(s, E, p) /\ l = p
      BY <1>2, <2>1, <2>2, <2>3, <2>6 DEF FAt, FInput
    <3>2. PICK y : y = F_32(in, k, w)
      OBVIOUS
    <3>3. n = FUnit(0, TRUE, y)
      BY <1>4, <3>1, <3>2
    <3>4. n.working = TRUE /\ n.word = y
      BY <3>3 DEF FUnit
    <3>5. QED
      BY <2>2, <2>5, <3>1, <3>2, <3>4
  <2>7. CASE j # 1
    <3>1. PICK i \in 1 .. 16 : i = j - 1
      BY <2>7
    <3>2. l = p + i /\ u = i + 1
      BY <2>1, <2>2, <2>3, <3>1
    <3>3. b = TRUE /\ x = RoundsOf(s, E, l)
      BY <1>2, <3>2 DEF FAt
    <3>4. PICK y : y = F_32(x, k, w)
      OBVIOUS
    <3>5. n = FUnit(a, b, y)
      BY <1>4, <3>3, <3>4
    <3>6. n.working = TRUE /\ n.word = y
      BY <3>3, <3>5 DEF FUnit
    <3>7. QED
      BY <2>2, <2>5, <3>3, <3>4, <3>6
  <2>8. QED
    BY <2>6, <2>7
<1>9. QED
  BY <1>5, <1>6, <1>7, <1>8 DEF FAt

MUnit(a, l, w, o) == [ delay |-> a, latency |-> l, w |-> w, out |-> o ]

Sixteenfold(w) == w = [ i \in 1 .. 16 |-> w[i] ]

IsM(g) == \E a, l, w, o : g = MUnit(a, l, w, o) /\ Sixteenfold(w)

Latency(u) == IF u <= 1 THEN 17 ELSE IF u <= 17 THEN 18 - u ELSE 0

MAt(g, u, p, E) ==
  /\ IsM(g)
  /\ g.delay = IF u <= 1 THEN 1 - u ELSE 0
  /\ g.latency = Latency(u)
  /\ \A i \in 1 .. 16 : u \in 1 .. 33 /\ u + i >= 18 => g.w[i] = E[p + ((u + i) - 17)]
  /\ u \in 18 .. 33 => g.out = E[p + (u - 1)]

LEMMA MFields ==
  ASSUME NEW a, NEW l, NEW w, NEW o, NEW y
  PROVE  /\ MUnit(a, l, w, o).delay = a /\ MUnit(a, l, w, o).latency = l
         /\ MUnit(a, l, w, o).w = w /\ MUnit(a, l, w, o).out = o
         /\ [ MUnit(a, l, w, o) EXCEPT !.delay = y ] = MUnit(y, l, w, o)
  BY DEF MUnit

Shift(w, x) == [ i \in 1 .. 16 |-> IF i = 16 THEN x ELSE w[i + 1] ]

LEMMA ShiftIs ==
  ASSUME NEW w, Sixteenfold(w), NEW x
  PROVE  Append(Tail(w), x) = Shift(w, x)
<1>1. PICK S : S = { w[i] : i \in 1 .. 16 }
  OBVIOUS
<1>2. w \in [ 1 .. 16 -> S ]
  BY <1>1 DEF Sixteenfold
<1>3. w \in Seq(S) /\ Len(w) = 16
  BY <1>2, FunctionIsSeq
<1>4. w # << >>
  <2>1. ASSUME w = << >> PROVE FALSE
    <3>1. DOMAIN w = {}
      BY <2>1
    <3>2. DOMAIN w = 1 .. 16 /\ 1 \in 1 .. 16
      BY <1>2
    <3>3. QED
      BY <3>1, <3>2
  <2>2. QED
    BY <2>1
<1>5. PICK t : t = Tail(w)
  OBVIOUS
<1>6. t \in Seq(S)
  BY <1>3, <1>4, <1>5
<1>7. Len(t) = 15
  <2>1. Len(t) = Len(w) - 1
    BY <1>3, <1>4, <1>5
  <2>2. QED
    BY <1>3, <2>1
<1>8. ASSUME NEW i \in 1 .. 15 PROVE t[i] = w[i + 1]
  <2>1. \A k \in 1 .. Len(t) : t[k] = w[k + 1]
    BY <1>3, <1>4, <1>5
  <2>2. QED
    BY <1>7, <2>1
<1>9. PICK E : E = Shift(w, x)
  OBVIOUS
<1>10. \A i \in 1 .. 15 : E[i] = w[i + 1]
  BY <1>9 DEF Shift
<1>11. E[16] = x /\ E = [ i \in 1 .. 16 |-> E[i] ]
  BY <1>9 DEF Shift
<1>12. t = [ i \in 1 .. 15 |-> t[i] ]
  BY <1>6, <1>7, SequenceIs
<1>13. t = [ i \in 1 .. 15 |-> E[i] ]
  BY <1>8, <1>10, <1>12
<1>14. Append(t, E[16]) = [ i \in 1 .. 16 |-> E[i] ]
  <2>1. Append([ k \in 1 .. 15 |-> E[k] ], E[15 + 1]) = [ k \in 1 .. 15 + 1 |-> E[k] ]
    <3>1. 15 \in Nat
      OBVIOUS
    <3>2. QED
      BY <3>1, Longer
  <2>2. QED
    BY <1>13, <2>1
<1>15. QED
  BY <1>5, <1>9, <1>11, <1>14

LEMMA MClockedIs ==
  ASSUME NEW a, NEW l \in Int, NEW w, NEW o, NEW in, Sixteenfold(w), NEW val,
         val = M_32(w[1], w[15], w[10], w[2]), NEW e \in Int, e = IF l # 0 THEN l - 1 ELSE 0
  PROVE  /\ a # 0 => MClocked(MUnit(a, l, w, o), in) = MUnit(a - 1, l, w, o)
         /\ a = 0 /\ l > 1 => MClocked(MUnit(a, l, w, o), in) = MUnit(0, e, Shift(w, in), val)
         /\ a = 0 /\ ~(l > 1) => MClocked(MUnit(a, l, w, o), in) = MUnit(0, e, Shift(w, val), val)
<1>1. PICK g : g = MUnit(a, l, w, o)
  OBVIOUS
<1>2. g.delay = a /\ g.latency = l /\ g.w = w /\ g.out = o
  BY <1>1, MFields
<1>3. ASSUME a # 0 PROVE MClocked(g, in) = MUnit(a - 1, l, w, o)
  <2>1. PICK h : h = a - 1
    OBVIOUS
  <2>2. MClocked(g, in) = [ g EXCEPT !.delay = h ]
    BY <1>2, <1>3, <2>1 DEF MClocked
  <2>3. [ g EXCEPT !.delay = h ] = MUnit(h, l, w, o)
    BY <1>1, MFields
  <2>4. QED
    BY <2>1, <2>2, <2>3
<1>4. ASSUME a = 0 PROVE MClocked(g, in) = MUnit(0, e, Append(Tail(w), IF l > 1 THEN in ELSE val), val)
  BY <1>2, <1>4 DEF MClocked, MUnit
<1>5. ASSUME a = 0, l > 1 PROVE MClocked(g, in) = MUnit(0, e, Shift(w, in), val)
  <2>1. MClocked(g, in) = MUnit(0, e, Append(Tail(w), in), val)
    BY <1>4, <1>5
  <2>2. QED
    BY <2>1, ShiftIs
<1>6. ASSUME a = 0, ~(l > 1) PROVE MClocked(g, in) = MUnit(0, e, Shift(w, val), val)
  <2>1. MClocked(g, in) = MUnit(0, e, Append(Tail(w), val), val)
    BY <1>4, <1>6
  <2>2. QED
    BY <2>1, ShiftIs
<1>7. QED
  BY <1>1, <1>3, <1>5, <1>6

MInput(u, p, E, in) == \A j \in 1 .. 16 : u = j => in = E[p + j]

MNext(n, a, l, e, w, o, in, val) ==
  /\ a # 0 => n = MUnit(a - 1, l, w, o)
  /\ a = 0 /\ l > 1 => n = MUnit(0, e, Shift(w, in), val)
  /\ a = 0 /\ ~(l > 1) => n = MUnit(0, e, Shift(w, val), val)

LEMMA ShiftFields ==
  ASSUME NEW w, NEW x
  PROVE  /\ Sixteenfold(Shift(w, x)) /\ Shift(w, x)[16] = x
         /\ \A i \in 1 .. 15 : Shift(w, x)[i] = w[i + 1]
  BY DEF Shift, Sixteenfold

\* While a unit loads its words, and while it makes words, those in its registers
\* are the last sixteen.
Held(w, u, p, E) == \A i \in 1 .. 16 : u + i >= 18 => w[i] = E[p + ((u + i) - 17)]

LEMMA HeldMore ==
  ASSUME NEW w, NEW u \in 1 .. 32, NEW p \in Nat, NEW E, Held(w, u, p, E), NEW x, x = E[p + u],
         NEW v, v = u + 1
  PROVE  Held(Shift(w, x), v, p, E)
<1>1. ASSUME NEW i \in 1 .. 16, v + i >= 18 PROVE Shift(w, x)[i] = E[p + ((v + i) - 17)]
  <2>1. CASE i = 16
    <3>1. (v + i) - 17 = u
      BY <2>1
    <3>2. Shift(w, x)[i] = x
      BY <2>1, ShiftFields
    <3>3. QED
      BY <3>1, <3>2
  <2>2. CASE i # 16
    <3>1. PICK j \in 1 .. 16 : j = i + 1 /\ i \in 1 .. 15
      BY <2>2
    <3>2. u + j >= 18 /\ (u + j) - 17 = (v + i) - 17
      BY <1>1, <3>1
    <3>3. w[j] = E[p + ((u + j) - 17)]
      BY <3>2 DEF Held
    <3>4. Shift(w, x)[i] = w[j]
      BY <3>1, ShiftFields
    <3>5. QED
      BY <3>2, <3>3, <3>4
  <2>3. QED
    BY <2>1, <2>2
<1>2. QED
  BY <1>1 DEF Held

LEMMA HeldMakes ==
  ASSUME NEW w, NEW u \in 17 .. 32, NEW p \in {0, 16, 32}, NEW E, NEW L, Extends(E, L), Held(w, u, p, E)
  PROVE  M_32(w[1], w[15], w[10], w[2]) = E[p + u]
<1>1. PICK n \in 1 .. 48 : n = p + (u - 16)
  OBVIOUS
<1>2. ASSUME NEW i \in 1 .. 16, NEW k \in 0 .. 15, k = i - 1 PROVE w[i] = E[n + k]
  <2>1. u + i >= 18 /\ p + ((u + i) - 17) = n + k
    BY <1>1, <1>2
  <2>2. QED
    BY <2>1 DEF Held
<1>3. w[1] = E[n + 0] /\ w[15] = E[n + 14] /\ w[10] = E[n + 9] /\ w[2] = E[n + 1]
  BY <1>2
<1>4. n + 0 = n
  OBVIOUS
<1>5. M_32(w[1], w[15], w[10], w[2]) = NextWord(E, n)
  BY <1>3, <1>4 DEF NextWord
<1>6. PICK m \in 17 .. 64 : m = 16 + n
  OBVIOUS
<1>7. E[m] = NextWord(E, n)
  BY <1>6 DEF Extends
<1>8. m = p + u
  BY <1>1, <1>6
<1>9. QED
  BY <1>5, <1>7, <1>8

LEMMA MMore ==
  ASSUME NEW g, NEW u \in Int, NEW p \in {0, 16, 32}, NEW E, NEW L, Extends(E, L), MAt(g, u, p, E),
         NEW in, MInput(u, p, E, in), NEW v \in Int, v = u + 1
  PROVE  MAt(MClocked(g, in), v, p, E)
<1>1. PICK a, l, w, o : g = MUnit(a, l, w, o) /\ Sixteenfold(w)
  BY DEF MAt, IsM
<1>2. g.delay = a /\ g.latency = l /\ g.w = w /\ g.out = o
  BY <1>1, MFields
<1>3. a = (IF u <= 1 THEN 1 - u ELSE 0) /\ l = Latency(u)
  BY <1>2 DEF MAt
<1>4. l \in Int
  BY <1>3 DEF Latency
<1>5. PICK e \in Int : e = IF l # 0 THEN l - 1 ELSE 0
  BY <1>4
<1>6. PICK val : val = M_32(w[1], w[15], w[10], w[2])
  OBVIOUS
<1>7. PICK n : n = MClocked(g, in)
  OBVIOUS
<1>8. MNext(n, a, l, e, w, o, in, val)
  <2>1. /\ a # 0 => MClocked(MUnit(a, l, w, o), in) = MUnit(a - 1, l, w, o)
        /\ a = 0 /\ l > 1 => MClocked(MUnit(a, l, w, o), in) = MUnit(0, e, Shift(w, in), val)
        /\ a = 0 /\ ~(l > 1) => MClocked(MUnit(a, l, w, o), in) = MUnit(0, e, Shift(w, val), val)
    BY <1>1, <1>4, <1>5, <1>6, MClockedIs
  <2>2. QED
    BY <1>1, <1>7, <2>1 DEF MNext
<1>9. CASE u <= 0
  <2>1. a # 0 /\ a - 1 = 1 - v /\ v <= 1 /\ l = 17
    BY <1>3, <1>9 DEF Latency
  <2>2. PICK h : h = a - 1
    OBVIOUS
  <2>3. n = MUnit(h, l, w, o)
    BY <1>8, <2>1, <2>2 DEF MNext
  <2>4. n.delay = h /\ n.latency = l
    BY <2>3, MFields
  <2>5. IsM(n)
    BY <1>1, <2>3 DEF IsM
  <2>6. n.delay = IF v <= 1 THEN 1 - v ELSE 0
    BY <2>1, <2>2, <2>4
  <2>7. n.latency = Latency(v)
    BY <2>1, <2>4 DEF Latency
  <2>8. ASSUME NEW i \in 1 .. 16, v \in 1 .. 33, v + i >= 18 PROVE n.w[i] = E[p + ((v + i) - 17)]
    BY <1>9, <2>8
  <2>9. ~(v \in 18 .. 33)
    BY <1>9
  <2>10. QED
    BY <1>7, <2>5, <2>6, <2>7, <2>8, <2>9 DEF MAt
<1>10. CASE u > 0
  <2>1. a = 0 /\ ~(v <= 1) /\ e = Latency(v)
    <3>1. a = 0 /\ ~(v <= 1)
      BY <1>3, <1>10
    <3>2. CASE u <= 17
      <4>1. l = 18 - u
        BY <1>3, <1>10, <3>2 DEF Latency
      <4>2. e = 18 - v
        BY <1>5, <3>2, <4>1
      <4>3. QED
        BY <3>1, <3>2, <4>2 DEF Latency
    <3>3. CASE u > 17
      <4>1. l = 0 /\ e = 0
        BY <1>3, <1>5, <3>3 DEF Latency
      <4>2. QED
        BY <3>1, <3>3, <4>1 DEF Latency
    <3>4. QED
      BY <3>1, <3>2, <3>3
  <2>2. PICK x : n = MUnit(0, e, Shift(w, x), val) /\ (l > 1 => x = in) /\ (~(l > 1) => x = val)
    <3>1. CASE l > 1
      BY <1>8, <2>1, <3>1 DEF MNext
    <3>2. CASE ~(l > 1)
      BY <1>8, <2>1, <3>2 DEF MNext
    <3>3. QED
      BY <3>1, <3>2
  <2>3. n.delay = 0 /\ n.latency = e /\ n.w = Shift(w, x) /\ n.out = val
    BY <2>2, MFields
  <2>4. IsM(n)
    BY <2>2, ShiftFields DEF IsM
  <2>5. ASSUME u \in 1 .. 32 PROVE Held(w, u, p, E)
    <3>1. \A i \in 1 .. 16 : u \in 1 .. 33 /\ u + i >= 18 => w[i] = E[p + ((u + i) - 17)]
      BY <1>2 DEF MAt
    <3>2. QED
      BY <2>5, <3>1 DEF Held
  <2>6. ASSUME u \in 17 .. 32 PROVE val = E[p + u] /\ x = val
    <3>1. Held(w, u, p, E)
      BY <2>5, <2>6
    <3>2. M_32(w[1], w[15], w[10], w[2]) = E[p + u]
      BY <2>6, <3>1, HeldMakes
    <3>3. ~(l > 1)
      BY <1>3, <2>6 DEF Latency
    <3>4. QED
      BY <1>6, <2>2, <3>2, <3>3
  <2>7. ASSUME u \in 1 .. 32 PROVE Held(Shift(w, x), v, p, E)
    <3>1. x = E[p + u]
      <4>1. CASE u <= 16
        <5>1. l > 1
          BY <1>3, <1>10, <4>1 DEF Latency
        <5>2. u \in 1 .. 16
          BY <1>10, <4>1
        <5>3. in = E[p + u]
          BY <5>2 DEF MInput
        <5>4. QED
          BY <2>2, <5>1, <5>3
      <4>2. CASE ~(u <= 16)
        <5>1. u \in 17 .. 32
          BY <2>7, <4>2
        <5>2. QED
          BY <2>6, <5>1
      <4>3. QED
        BY <4>1, <4>2
    <3>2. p \in Nat /\ Held(w, u, p, E)
      BY <2>5, <2>7
    <3>3. QED
      BY <2>7, <3>1, <3>2, HeldMore
  <2>8. ASSUME NEW i \in 1 .. 16, v \in 1 .. 33, v + i >= 18 PROVE n.w[i] = E[p + ((v + i) - 17)]
    <3>1. u \in 1 .. 32
      BY <1>10, <2>8
    <3>2. Held(Shift(w, x), v, p, E)
      BY <2>7, <3>1
    <3>3. QED
      BY <2>3, <2>8, <3>2 DEF Held
  <2>9. ASSUME v \in 18 .. 33 PROVE n.out = E[p + (v - 1)]
    <3>1. u \in 17 .. 32 /\ v - 1 = u
      BY <2>9
    <3>2. QED
      BY <2>3, <2>6, <3>1
  <2>10. n.delay = IF v <= 1 THEN 1 - v ELSE 0
    BY <2>1, <2>3
  <2>11. n.latency = Latency(v)
    BY <2>1, <2>3
  <2>12. QED
    BY <1>7, <2>4, <2>8, <2>9, <2>10, <2>11 DEF MAt
<1>11. QED
  BY <1>9, <1>10

(* The units together.  State and the block in VRead stay as they are while *)
(* a run lasts.                                                             *)
LEMMA ConstantIs ==
  ASSUME NEW q \in 1 .. 4, NEW u \in 1 .. 16, NEW n \in Int, u = n - (17 * (q - 1)),
         NEW p, p = 16 * (q - 1)
  PROVE  Constant(q, n) = K[p + u]
<1>1. PICK x \in Nat : x = (n + 63) - (17 * (q - 1)) /\ x = u + 63
  OBVIOUS
<1>2. PICK v \in 0 .. 16 - 1 : v = u - 1
  OBVIOUS
<1>3. Splits(x, 16, 4, v)
  BY <1>1, <1>2 DEF Splits
<1>4. x % 16 = v
  <2>1. 16 \in Nat \ {0} /\ 4 \in Nat
    OBVIOUS
  <2>2. QED
    BY <1>3, <2>1, Split
<1>5. Constant(q, n) = K[(16 * (q - 1)) + (x % 16) + 1]
  BY <1>1 DEF Constant, StartOf
<1>6. (16 * (q - 1)) + (x % 16) + 1 = p + u
  BY <1>2, <1>4
<1>7. QED
  BY <1>5, <1>6

LEMMA WordIs ==
  ASSUME NEW c \in 1 .. 16
  PROVE  Word(c) = Loaded(fetched)[c]
<1>1. PICK v \in 0 .. 16 - 1 : v = c - 1 /\ v \in Nat
  OBVIOUS
<1>2. v % 16 = v
  <2>1. Splits(v, 16, 0, v)
    BY <1>1 DEF Splits
  <2>2. 16 \in Nat \ {0} /\ 0 \in Nat
    OBVIOUS
  <2>3. QED
    BY <1>1, <2>1, <2>2, Split
<1>3. (4 * v) + 1 = (4 * c) - 3 /\ (4 * v) + 4 = 4 * c /\ c - 1 = v
  BY <1>1
<1>4. Word(c) = load_bigendian_32(SubSeq(fetched, (4 * c) - 3, 4 * c))
  BY <1>2, <1>3 DEF Word
<1>5. PICK f : f = [ i \in 1 .. 16 |-> load_bigendian_32(SubSeq(fetched, (4 * i) - 3, 4 * i)) ]
  OBVIOUS
<1>6. Loaded(fetched) = f
  BY <1>5, LoadedWords
<1>7. QED
  BY <1>4, <1>5, <1>6

Pipe(f, m, h, c, s, E) ==
  /\ FAt(f[1], c, 0, s, E) /\ FAt(f[2], c - 17, 16, s, E)
  /\ FAt(f[3], c - 34, 32, s, E) /\ FAt(f[4], c - 51, 48, s, E)
  /\ MAt(m[1], c, 0, E) /\ MAt(m[2], c - 17, 16, E) /\ MAt(m[3], c - 34, 32, E)
  /\ c = 18 => h[1] = RoundsOf(s, E, 16)
  /\ c = 35 => h[2] = RoundsOf(s, E, 32)
  /\ c = 52 => h[3] = RoundsOf(s, E, 48)

Shaped(f, m) ==
  /\ IsF(f[1]) /\ IsF(f[2]) /\ IsF(f[3]) /\ IsF(f[4])
  /\ IsM(m[1]) /\ IsM(m[2]) /\ IsM(m[3])

\* What a unit makes in its clock 17 and later.
LEMMA FMade ==
  ASSUME NEW g, NEW u, u = 17, NEW p \in Nat, NEW s, NEW E, FAt(g, u, p, s, E), NEW t, t = p + 16
  PROVE  g.word = RoundsOf(s, E, t)
<1>1. 16 \in 1 .. 16 /\ u = 16 + 1
  OBVIOUS
<1>2. QED
  BY <1>1 DEF FAt

LEMMA MMade ==
  ASSUME NEW g, NEW u \in Int, NEW p \in {0, 16, 32}, NEW E, MAt(g, u, p, E), NEW j \in 1 .. 16, u = j + 17,
         NEW t, t = p + 16
  PROVE  g.out = E[t + j]
<1>1. u \in 18 .. 33 /\ p + (u - 1) = t + j
  OBVIOUS
<1>2. QED
  BY <1>1 DEF MAt

LEMMA FirstInputs ==
  ASSUME NEW E, E = Schedule(fetched), NEW c \in 1 .. 68
  PROVE  FInput(c, 0, State, E, State, Constant(1, c), Word(c)) /\ MInput(c, 0, E, Word(c))
<1>1. Extends(E, Loaded(fetched))
  BY ScheduleExtends
<1>2. ASSUME NEW j \in 1 .. 16, c = j PROVE Constant(1, c) = K[0 + j] /\ Word(c) = E[0 + j]
  <2>1. 0 + j = j /\ 0 = 16 * (1 - 1) /\ 1 \in 1 .. 4 /\ c \in Int /\ j = c - (17 * (1 - 1))
    BY <1>2
  <2>2. Constant(1, c) = K[0 + j]
    BY <2>1, ConstantIs
  <2>3. Word(c) = Loaded(fetched)[j]
    BY <1>2, WordIs
  <2>4. E[j] = Loaded(fetched)[j]
    BY <1>1 DEF Extends
  <2>5. QED
    BY <2>1, <2>2, <2>3, <2>4
<1>3. State = RoundsOf(State, E, 0)
  BY TurnedNone DEF RoundsOf
<1>4. FInput(c, 0, State, E, State, Constant(1, c), Word(c))
  BY <1>2, <1>3 DEF FInput
<1>5. MInput(c, 0, E, Word(c))
  BY <1>2 DEF MInput
<1>6. QED
  BY <1>4, <1>5

Feeding(u, p, s, E, in, q, c, g) ==
  FInput(u, p, s, E, in, Constant(q, c), g.out) /\ MInput(u, p, E, g.out)

LEMMA LaterInputs ==
  ASSUME NEW E, NEW c \in 1 .. 68, NEW q \in 2 .. 4, NEW u \in Int, u = c - (17 * (q - 1)),
         NEW p, p = 16 * (q - 1), NEW g, NEW b \in {0, 16, 32}, b = p - 16, NEW a \in Int, a = u + 17,
         MAt(g, a, b, E), NEW in, NEW s, u = 1 => in = RoundsOf(s, E, p)
  PROVE  Feeding(u, p, s, E, in, q, c, g)
<1>1. ASSUME NEW j \in 1 .. 16, u = j PROVE Constant(q, c) = K[p + j] /\ g.out = E[p + j]
  <2>1. q \in 1 .. 4 /\ c \in Int /\ j = c - (17 * (q - 1))
    BY <1>1
  <2>2. Constant(q, c) = K[p + j]
    BY <2>1, ConstantIs
  <2>3. a = j + 17 /\ p = b + 16
    BY <1>1
  <2>4. g.out = E[p + j]
    BY <2>3, MMade
  <2>5. QED
    BY <2>2, <2>4
<1>2. QED
  BY <1>1 DEF FInput, MInput, Feeding

\* A run is started.
LEMMA FStarts ==
  ASSUME NEW g, NEW q \in 1 .. 4, NEW u \in Int, u = 1 - (17 * (q - 1)), NEW p, NEW s, NEW E
  PROVE  FAt(FStarted(g, q), u, p, s, E)
<1>1. PICK n : n = FStarted(g, q)
  OBVIOUS
<1>2. PICK d : d = 17 * (q - 1)
  OBVIOUS
<1>3. PICK x : x = g.word
  OBVIOUS
<1>4. n = FUnit(d, FALSE, x)
  BY <1>1, <1>2, <1>3 DEF FStarted, FUnit, StartOf
<1>5. IsF(n)
  BY <1>4 DEF IsF
<1>6. n.working = FALSE /\ n.delay = d
  BY <1>4 DEF FUnit
<1>7. d = 1 - u /\ u <= 1
  BY <1>2
<1>8. QED
  BY <1>1, <1>5, <1>6, <1>7 DEF FAt

LEMMA MStarts ==
  ASSUME NEW g, IsM(g), NEW q \in 1 .. 3, NEW u \in Int, u = 1 - (17 * (q - 1)), NEW p, NEW E
  PROVE  MAt(MStarted(g, q), u, p, E)
<1>1. PICK n : n = MStarted(g, q)
  OBVIOUS
<1>2. PICK d : d = 17 * (q - 1)
  OBVIOUS
<1>3. PICK a, l, w, o : g = MUnit(a, l, w, o) /\ Sixteenfold(w)
  BY DEF IsM
<1>4. g.w = w /\ g.out = o
  BY <1>3, MFields
<1>5. n = MUnit(d, 17, w, o)
  BY <1>1, <1>2, <1>4 DEF MStarted, MUnit, StartOf
<1>6. IsM(n)
  BY <1>3, <1>5 DEF IsM
<1>7. n.delay = d /\ n.latency = 17
  BY <1>5, MFields
<1>8. d = 1 - u /\ u <= 1
  BY <1>2
<1>9. n.delay = (IF u <= 1 THEN 1 - u ELSE 0) /\ n.latency = Latency(u)
  BY <1>7, <1>8 DEF Latency
<1>10. \A i \in 1 .. 16 : ~(u \in 1 .. 33 /\ u + i >= 18)
  BY <1>8
<1>11. ~(u \in 18 .. 33)
  BY <1>8
<1>12. QED
  BY <1>1, <1>6, <1>9, <1>10, <1>11 DEF MAt

LEMMA UnitsStart ==
  ASSUME Shaped(F, M), StartUnits
  PROVE  /\ Pipe(F', M', held', 1, State', Schedule(fetched'))
         /\ clock' = 1 /\ State' = State /\ fetched' = fetched
<1>1. PICK E : E = Schedule(fetched)
  OBVIOUS
<1>2. /\ F' = [ q \in 1 .. 4 |-> FStarted(F[q], q) ]
      /\ M' = [ q \in 1 .. 3 |-> MStarted(M[q], q) ]
      /\ clock' = 1 /\ held' = held /\ State' = State /\ fetched' = fetched
  BY DEF StartUnits
<1>3. PICK f, m : f = F' /\ m = M'
  OBVIOUS
<1>4. FAt(f[1], 1, 0, State, E)
  <2>1. 1 = 1 - (17 * (1 - 1)) /\ 1 \in 1 .. 4 /\ 1 \in Int /\ f[1] = FStarted(F[1], 1)
    BY <1>2, <1>3
  <2>2. QED
    BY <2>1, FStarts
<1>5. FAt(f[2], 1 - 17, 16, State, E)
  <2>1. PICK u \in Int : u = 1 - 17
    OBVIOUS
  <2>2. u = 1 - (17 * (2 - 1)) /\ 2 \in 1 .. 4 /\ f[2] = FStarted(F[2], 2)
    BY <1>2, <1>3, <2>1
  <2>3. FAt(f[2], u, 16, State, E)
    BY <2>2, FStarts
  <2>4. QED
    BY <2>1, <2>3
<1>6. FAt(f[3], 1 - 34, 32, State, E)
  <2>1. PICK u \in Int : u = 1 - 34
    OBVIOUS
  <2>2. u = 1 - (17 * (3 - 1)) /\ 3 \in 1 .. 4 /\ f[3] = FStarted(F[3], 3)
    BY <1>2, <1>3, <2>1
  <2>3. FAt(f[3], u, 32, State, E)
    BY <2>2, FStarts
  <2>4. QED
    BY <2>1, <2>3
<1>7. FAt(f[4], 1 - 51, 48, State, E)
  <2>1. PICK u \in Int : u = 1 - 51
    OBVIOUS
  <2>2. u = 1 - (17 * (4 - 1)) /\ 4 \in 1 .. 4 /\ f[4] = FStarted(F[4], 4)
    BY <1>2, <1>3, <2>1
  <2>3. FAt(f[4], u, 48, State, E)
    BY <2>2, FStarts
  <2>4. QED
    BY <2>1, <2>3
<1>8. IsM(M[1]) /\ IsM(M[2]) /\ IsM(M[3])
  BY DEF Shaped
<1>9. MAt(m[1], 1, 0, E)
  <2>1. 1 = 1 - (17 * (1 - 1)) /\ 1 \in 1 .. 3 /\ 1 \in Int /\ m[1] = MStarted(M[1], 1)
    BY <1>2, <1>3
  <2>2. QED
    BY <1>8, <2>1, MStarts
<1>10. MAt(m[2], 1 - 17, 16, E)
  <2>1. PICK u \in Int : u = 1 - 17
    OBVIOUS
  <2>2. u = 1 - (17 * (2 - 1)) /\ 2 \in 1 .. 3 /\ m[2] = MStarted(M[2], 2)
    BY <1>2, <1>3, <2>1
  <2>3. MAt(m[2], u, 16, E)
    BY <1>8, <2>2, MStarts
  <2>4. QED
    BY <2>1, <2>3
<1>11. MAt(m[3], 1 - 34, 32, E)
  <2>1. PICK u \in Int : u = 1 - 34
    OBVIOUS
  <2>2. u = 1 - (17 * (3 - 1)) /\ 3 \in 1 .. 3 /\ m[3] = MStarted(M[3], 3)
    BY <1>2, <1>3, <2>1
  <2>3. MAt(m[3], u, 32, E)
    BY <1>8, <2>2, MStarts
  <2>4. QED
    BY <2>1, <2>3
<1>12. PICK h : h = held'
  OBVIOUS
<1>13. Pipe(f, m, h, 1, State, E)
  BY <1>4, <1>5, <1>6, <1>7, <1>9, <1>10, <1>11 DEF Pipe
<1>14. QED
  BY <1>1, <1>2, <1>3, <1>12, <1>13

\* A clock, and the last one.
LEMMA PipeMore ==
  ASSUME NEW E, E = Schedule(fetched), NEW c \in 1 .. 68,
         Pipe(F, M, held, c, State, E), NEW f, NEW m, NEW h, NEW d, d = c + 1,
         f = << FClocked(F[1], State, Constant(1, c), Word(c)),
                FClocked(F[2], held[1], Constant(2, c), M[1].out),
                FClocked(F[3], held[2], Constant(3, c), M[2].out),
                FClocked(F[4], held[3], Constant(4, c), M[3].out) >>,
         m = << MClocked(M[1], Word(c)), MClocked(M[2], M[1].out), MClocked(M[3], M[2].out) >>,
         h = << F[1].word, F[2].word, F[3].word >>
  PROVE  Pipe(f, m, h, d, State, E)
<1>1. Extends(E, Loaded(fetched))
  BY ScheduleExtends
<1>2. PICK u2 \in Int, u3 \in Int, u4 \in Int : u2 = c - 17 /\ u3 = c - 34 /\ u4 = c - 51
  OBVIOUS
<1>3. PICK s : s = State
  OBVIOUS
<1>4. /\ FAt(F[1], c, 0, s, E) /\ FAt(F[2], u2, 16, s, E)
      /\ FAt(F[3], u3, 32, s, E) /\ FAt(F[4], u4, 48, s, E)
      /\ MAt(M[1], c, 0, E) /\ MAt(M[2], u2, 16, E) /\ MAt(M[3], u3, 32, E)
  BY <1>2, <1>3 DEF Pipe
<1>5. /\ u2 = 1 => held[1] = RoundsOf(s, E, 16)
      /\ u3 = 1 => held[2] = RoundsOf(s, E, 32)
      /\ u4 = 1 => held[3] = RoundsOf(s, E, 48)
  BY <1>2, <1>3 DEF Pipe
<1>6. FInput(c, 0, s, E, s, Constant(1, c), Word(c)) /\ MInput(c, 0, E, Word(c))
  BY <1>3, FirstInputs
<1>7. FInput(u2, 16, s, E, held[1], Constant(2, c), M[1].out) /\ MInput(u2, 16, E, M[1].out)
  <2>1. u2 = c - (17 * (2 - 1)) /\ 2 \in 2 .. 4 /\ 16 = 16 * (2 - 1) /\ 0 = 16 - 16 /\ c = u2 + 17 /\ c \in Int
    BY <1>2
  <2>2. 0 \in {0, 16, 32}
    OBVIOUS
  <2>3. Feeding(u2, 16, s, E, held[1], 2, c, M[1])
    BY <1>4, <1>5, <2>1, <2>2, LaterInputs
  <2>4. QED
    BY <2>3 DEF Feeding
<1>8. FInput(u3, 32, s, E, held[2], Constant(3, c), M[2].out) /\ MInput(u3, 32, E, M[2].out)
  <2>1. u3 = c - (17 * (3 - 1)) /\ 3 \in 2 .. 4 /\ 32 = 16 * (3 - 1) /\ 16 = 32 - 16 /\ u2 = u3 + 17
    BY <1>2
  <2>2. 16 \in {0, 16, 32}
    OBVIOUS
  <2>3. Feeding(u3, 32, s, E, held[2], 3, c, M[2])
    BY <1>4, <1>5, <2>1, <2>2, LaterInputs
  <2>4. QED
    BY <2>3 DEF Feeding
<1>9. FInput(u4, 48, s, E, held[3], Constant(4, c), M[3].out)
  <2>1. u4 = c - (17 * (4 - 1)) /\ 4 \in 2 .. 4 /\ 48 = 16 * (4 - 1) /\ 32 = 48 - 16 /\ u3 = u4 + 17
    BY <1>2
  <2>2. 32 \in {0, 16, 32}
    OBVIOUS
  <2>3. Feeding(u4, 48, s, E, held[3], 4, c, M[3])
    BY <1>4, <1>5, <2>1, <2>2, LaterInputs
  <2>4. QED
    BY <2>3 DEF Feeding
<1>10. PICK v2 \in Int, v3 \in Int, v4 \in Int : /\ v2 = u2 + 1 /\ v3 = u3 + 1 /\ v4 = u4 + 1
                                             /\ v2 = d - 17 /\ v3 = d - 34 /\ v4 = d - 51
  BY <1>2
<1>11. c \in Int /\ d \in Int /\ 0 \in Nat /\ 16 \in Nat /\ 32 \in Nat /\ 48 \in Nat
       /\ 0 \in {0, 16, 32} /\ 16 \in {0, 16, 32} /\ 32 \in {0, 16, 32}
  OBVIOUS
<1>12. FAt(f[1], d, 0, s, E)
  <2>1. FAt(FClocked(F[1], s, Constant(1, c), Word(c)), d, 0, s, E)
    BY <1>4, <1>6, <1>11, FMore
  <2>2. QED
    BY <1>3, <2>1
<1>13. FAt(f[2], v2, 16, s, E)
  <2>1. FAt(FClocked(F[2], held[1], Constant(2, c), M[1].out), v2, 16, s, E)
    BY <1>4, <1>7, <1>10, <1>11, FMore
  <2>2. QED
    BY <2>1
<1>14. FAt(f[3], v3, 32, s, E)
  <2>1. FAt(FClocked(F[3], held[2], Constant(3, c), M[2].out), v3, 32, s, E)
    BY <1>4, <1>8, <1>10, <1>11, FMore
  <2>2. QED
    BY <2>1
<1>15. FAt(f[4], v4, 48, s, E)
  <2>1. FAt(FClocked(F[4], held[3], Constant(4, c), M[3].out), v4, 48, s, E)
    BY <1>4, <1>9, <1>10, <1>11, FMore
  <2>2. QED
    BY <2>1
<1>16. MAt(m[1], d, 0, E)
  <2>1. MAt(MClocked(M[1], Word(c)), d, 0, E)
    BY <1>1, <1>4, <1>6, <1>11, MMore
  <2>2. QED
    BY <2>1
<1>17. MAt(m[2], v2, 16, E)
  <2>1. MAt(MClocked(M[2], M[1].out), v2, 16, E)
    BY <1>1, <1>4, <1>7, <1>10, <1>11, MMore
  <2>2. QED
    BY <2>1
<1>18. MAt(m[3], v3, 32, E)
  <2>1. MAt(MClocked(M[3], M[2].out), v3, 32, E)
    BY <1>1, <1>4, <1>8, <1>10, <1>11, MMore
  <2>2. QED
    BY <2>1
<1>19. ASSUME d = 18 PROVE h[1] = RoundsOf(s, E, 16)
  <2>1. c = 17 /\ 16 = 0 + 16
    BY <1>19
  <2>2. F[1].word = RoundsOf(s, E, 16)
    BY <1>4, <1>11, <2>1, FMade
  <2>3. QED
    BY <2>2
<1>20. ASSUME d = 35 PROVE h[2] = RoundsOf(s, E, 32)
  <2>1. u2 = 17 /\ 32 = 16 + 16
    BY <1>2, <1>20
  <2>2. F[2].word = RoundsOf(s, E, 32)
    BY <1>4, <1>11, <2>1, FMade
  <2>3. QED
    BY <2>2
<1>21. ASSUME d = 52 PROVE h[3] = RoundsOf(s, E, 48)
  <2>1. u3 = 17 /\ 48 = 32 + 16
    BY <1>2, <1>21
  <2>2. F[3].word = RoundsOf(s, E, 48)
    BY <1>4, <1>11, <2>1, FMade
  <2>3. QED
    BY <2>2
<1>22. QED
  BY <1>3, <1>10, <1>12, <1>13, <1>14, <1>15, <1>16, <1>17, <1>18, <1>19, <1>20, <1>21 DEF Pipe

LEMMA PipeShaped ==
  ASSUME NEW f, NEW m, NEW h, NEW c, NEW s, NEW E, Pipe(f, m, h, c, s, E)
  PROVE  Shaped(f, m)
  BY DEF Pipe, Shaped, FAt, MAt

LEMMA PipeEnds ==
  ASSUME NEW f, NEW m, NEW h, NEW s, NEW blk, Pipe(f, m, h, 68, s, Schedule(blk))
  PROVE  Sums(s, f[4].word) = Compress(s, blk)
<1>1. PICK E : E = Schedule(blk)
  OBVIOUS
<1>2. PICK u : u = 68 - 51 /\ u = 17
  OBVIOUS
<1>3. FAt(f[4], u, 48, s, E)
  BY <1>1, <1>2 DEF Pipe
<1>4. 48 \in Nat /\ 64 = 48 + 16
  OBVIOUS
<1>5. f[4].word = RoundsOf(s, E, 64)
  BY <1>2, <1>3, <1>4, FMade
<1>6. SixtyFour(s, blk) = RoundsOf(s, E, 64)
  BY <1>1, SixtyFourTurned DEF RoundsOf
<1>7. QED
  BY <1>5, <1>6, CompressIs

-----------------------------------------------------------------------------
(* VersatSHA: a run reads a block and hashes the one read before it.        *)
Running == clock \in 1 .. 68 /\ Pipe(F, M, held, clock, State, Schedule(fetched))

LEMMA ClockStep ==
  ASSUME Running, ClockUnits
  PROVE  /\ Shaped(F', M')
         /\ clock # 68 => Running' /\ State' = State /\ fetched' = fetched
         /\ clock = 68 => clock' = 0 /\ State' = Compress(State, fetched) /\ fetched' = reading
<1>1. LastClock = 68
  BY DEF LastClock, StartOf
<1>2. PICK c \in 1 .. 68 : c = clock
  BY DEF Running
<1>3. PICK E : E = Schedule(fetched)
  OBVIOUS
<1>4. Pipe(F, M, held, c, State, E)
  BY <1>2, <1>3 DEF Running
<1>5. PICK d : d = c + 1
  OBVIOUS
<1>6. PICK f, m, h : f = F' /\ m = M' /\ h = held'
  OBVIOUS
<1>7. /\ f = << FClocked(F[1], State, Constant(1, c), Word(c)),
                FClocked(F[2], held[1], Constant(2, c), M[1].out),
                FClocked(F[3], held[2], Constant(3, c), M[2].out),
                FClocked(F[4], held[3], Constant(4, c), M[3].out) >>
      /\ m = << MClocked(M[1], Word(c)), MClocked(M[2], M[1].out), MClocked(M[3], M[2].out) >>
      /\ h = << F[1].word, F[2].word, F[3].word >>
  BY <1>2, <1>6 DEF ClockUnits
<1>8. Pipe(f, m, h, d, State, E)
  BY <1>3, <1>4, <1>5, <1>7, PipeMore
<1>9. Shaped(F', M')
  BY <1>6, <1>8, PipeShaped
<1>10. ASSUME clock # 68 PROVE Running' /\ State' = State /\ fetched' = fetched
  <2>1. State' = State /\ fetched' = fetched /\ clock' = d
    BY <1>1, <1>2, <1>5, <1>10 DEF ClockUnits
  <2>2. d \in 1 .. 68
    BY <1>2, <1>5, <1>10
  <2>3. QED
    BY <1>3, <1>6, <1>8, <2>1, <2>2 DEF Running
<1>11. ASSUME clock = 68 PROVE clock' = 0 /\ State' = Compress(State, fetched) /\ fetched' = reading
  <2>1. clock' = 0 /\ fetched' = reading /\ State' = Sums(State, F[4].word)
    BY <1>1, <1>11 DEF ClockUnits
  <2>2. Pipe(F, M, held, 68, State, Schedule(fetched))
    BY <1>2, <1>3, <1>4, <1>11
  <2>3. Sums(State, F[4].word) = Compress(State, fetched)
    BY <2>2, PipeEnds
  <2>4. QED
    BY <2>1, <2>3
<1>12. QED
  BY <1>9, <1>10, <1>11

BlocksFrom(p, j, N) == [ i \in 1 .. (N - j) |-> BlockOf(p, j + i) ]

LEMMA FunctionTail ==
  ASSUME NEW n \in Nat \ {0}, NEW f, f = [ i \in 1 .. n |-> f[i] ], NEW k \in Nat, k = n - 1
  PROVE  Head(f) = f[1] /\ Tail(f) = [ i \in 1 .. k |-> f[i + 1] ]
<1>1. PICK S : S = { f[i] : i \in 1 .. n }
  OBVIOUS
<1>2. f \in [ 1 .. n -> S ]
  BY <1>1
<1>3. f \in Seq(S) /\ Len(f) = n
  BY <1>2, FunctionIsSeq
<1>4. f # << >>
  <2>1. ASSUME f = << >> PROVE FALSE
    <3>1. DOMAIN f = {}
      BY <2>1
    <3>2. DOMAIN f = 1 .. n /\ 1 \in 1 .. n
      BY <1>2
    <3>3. QED
      BY <3>1, <3>2
  <2>2. QED
    BY <2>1
<1>5. Head(f) = f[1]
  BY <1>3, <1>4
<1>6. PICK t : t = Tail(f)
  OBVIOUS
<1>7. t \in Seq(S)
  BY <1>3, <1>4, <1>6
<1>8. Len(t) = k
  <2>1. Len(t) = Len(f) - 1
    BY <1>3, <1>4, <1>6
  <2>2. QED
    BY <1>3, <2>1
<1>9. ASSUME NEW i \in 1 .. k PROVE t[i] = f[i + 1]
  <2>1. \A l \in 1 .. Len(t) : t[l] = f[l + 1]
    BY <1>3, <1>4, <1>6
  <2>2. QED
    BY <1>8, <2>1
<1>10. t = [ i \in 1 .. k |-> t[i] ]
  BY <1>7, <1>8, SequenceIs
<1>11. t = [ i \in 1 .. k |-> f[i + 1] ]
  BY <1>9, <1>10
<1>12. QED
  BY <1>5, <1>6, <1>11

Remaining(p, j, N, f) ==
  /\ f = << >> <=> j = N
  /\ j # N => Head(f) = BlockOf(p, j + 1) /\ Tail(f) = BlocksFrom(p, j + 1, N)

LEMMA BlocksLeft ==
  ASSUME NEW p, NEW N \in Nat, NEW j \in 0 .. N, NEW f, f = BlocksFrom(p, j, N)
  PROVE  Remaining(p, j, N, f)
<1>1. PICK n \in Nat : n = N - j
  OBVIOUS
<1>2. f = [ i \in 1 .. n |-> BlockOf(p, j + i) ]
  BY <1>1 DEF BlocksFrom
<1>3. CASE j = N
  <2>1. 1 .. n = {}
    BY <1>1, <1>3
  <2>2. f = [ i \in {} |-> BlockOf(p, j + i) ]
    BY <1>2, <2>1
  <2>3. f = << >>
    BY <2>2
  <2>4. QED
    BY <1>3, <2>3 DEF Remaining
<1>4. CASE j # N
  <2>1. n \in Nat \ {0} /\ 1 \in 1 .. n
    BY <1>1, <1>4
  <2>2. f = [ i \in 1 .. n |-> f[i] ]
    BY <1>2
  <2>3. PICK k \in Nat : k = n - 1
    BY <2>1
  <2>4. Head(f) = f[1] /\ Tail(f) = [ i \in 1 .. k |-> f[i + 1] ]
    BY <2>1, <2>2, <2>3, FunctionTail
  <2>5. f[1] = BlockOf(p, j + 1)
    BY <1>2, <2>1
  <2>6. PICK l : l = j + 1
    OBVIOUS
  <2>7. ASSUME NEW i \in 1 .. k PROVE f[i + 1] = BlockOf(p, l + i)
    <3>1. PICK x \in 1 .. n : x = i + 1
      BY <2>1, <2>3
    <3>2. j + x = l + i
      BY <2>6, <3>1
    <3>3. f[x] = BlockOf(p, j + x)
      BY <1>2
    <3>4. QED
      BY <3>1, <3>2, <3>3
  <2>8. k = N - l
    BY <1>1, <2>3, <2>6
  <2>9. Tail(f) = BlocksFrom(p, l, N)
    BY <2>4, <2>7, <2>8 DEF BlocksFrom
  <2>10. f # << >>
    <3>1. ASSUME f = << >> PROVE FALSE
      <4>1. DOMAIN f = {}
        BY <3>1
      <4>2. DOMAIN f = 1 .. n
        BY <1>2
      <4>3. QED
        BY <2>1, <4>1, <4>2
    <3>2. QED
      BY <3>1
  <2>11. QED
    BY <1>4, <2>4, <2>5, <2>6, <2>9, <2>10 DEF Remaining
<1>5. QED
  BY <1>3, <1>4

\* The blocks of a message are those of the message that is padded.
Cut(m, N) == Blocks(m) = BlocksFrom(Completed(m), 0, N) /\ BlockCount(Completed(m)) = N

LEMMA MessageBlocks ==
  ASSUME NEW m \in Seq(Int)
  PROVE  \E N \in Nat \ {0} : Cut(m, N)
<1>1. PICK l \in Nat : l = Len(m)
  OBVIOUS
<1>2. PICK c \in Nat, r \in 0 .. 63 : l = (64 * c) + r
  <2>1. l \div 64 \in Nat /\ l % 64 \in 0 .. 63 /\ l = (64 * (l \div 64)) + (l % 64)
    OBVIOUS
  <2>2. QED
    BY <2>1
<1>3. PICK w \in Nat : w = 64 * c /\ w <= l /\ r = l - w /\ 0 <= w /\ w = w - 0 /\ l <= l
  BY <1>2
<1>4. HasLength(m, l) /\ 0 \in Nat
  BY <1>1 DEF HasLength
<1>5. PICK Q, R : Q = Slice(m, 0, w) /\ R = Slice(m, w, l)
  OBVIOUS
<1>6. Q \in Seq(Int) /\ Len(Q) = w
  <2>1. Slice(m, 0, w) \in Seq(Int) /\ HasLength(Slice(m, 0, w), w)
    BY <1>3, <1>4, SliceIs
  <2>2. QED
    BY <1>5, <2>1 DEF HasLength
<1>7. R \in Seq(Int) /\ Len(R) = r
  <2>1. Slice(m, w, l) \in Seq(Int) /\ HasLength(Slice(m, w, l), r)
    BY <1>3, <1>4, SliceIs
  <2>2. QED
    BY <1>5, <2>1 DEF HasLength
<1>8. m = Cat(Q, R)
  <2>1. Cat(Slice(m, 0, w), Slice(m, w, l)) = Slice(m, 0, l)
    BY <1>3, <1>4, SlicesJoin
  <2>2. Slice(m, 0, Len(m)) = m
    BY CatNothing
  <2>3. QED
    BY <1>1, <1>5, <2>1, <2>2
<1>9. PICK P : P = Padded(R, l)
  OBVIOUS
<1>10. PICK p : p = Completed(m)
  OBVIOUS
<1>11. p = Cat(Q, P)
  <2>1. Completes(m, Q, R, l)
    BY <1>1, <1>2, <1>6, <1>7, <1>8, FilledIs
  <2>2. QED
    BY <1>9, <1>10, <2>1 DEF Completes
<1>12. PICK e \in Nat \ {0} : e = Over(r)
  BY DEF Over
<1>13. P \in Seq(Int) /\ Len(P) = 64 * e
  <2>1. IsPadding(Padded(R, l), R, l, r)
    BY <1>2, <1>7, PaddedIs
  <2>2. QED
    BY <1>9, <1>12, <2>1 DEF IsPadding
<1>14. PICK N \in Nat \ {0} : N = c + e
  OBVIOUS
<1>15. PICK z \in Nat : z = 64 * N /\ z = w + (64 * e) /\ z = (64 * N) + 0 /\ 0 \in 0 .. 63
  BY <1>3, <1>14
<1>16. Len(p) = z
  <2>1. PICK v \in Nat : v = 64 * e /\ z = w + v
    BY <1>15
  <2>2. Len(P) = v
    BY <1>13, <2>1
  <2>3. Len(Cat(Q, P)) = z
    BY <1>6, <1>13, <2>1, <2>2, CatLength
  <2>4. QED
    BY <1>11, <2>3
<1>17. BlockCount(p) = N
  BY <1>15, <1>16, WholeIs
<1>18. Blocks(m) = [ n \in 1 .. N |-> BlockOf(p, n) ]
  <2>1. Len(m) \div 64 = c
    <3>1. BlockCount(m) = c
      BY <1>1, <1>2, WholeIs
    <3>2. QED
      BY <3>1 DEF BlockCount
  <2>2. PICK x : x = SubSeq(m, 1, 64 * (Len(m) \div 64))
                       \o Padded(SubSeq(m, (64 * (Len(m) \div 64)) + 1, Len(m)), Len(m))
    OBVIOUS
  <2>3. Blocks(m) = [ n \in 1 .. (Len(x) \div 64) |-> BlockOf(x, n) ]
    BY <2>2, Zenon DEF Blocks
  <2>4. SubSeq(m, 1, 64 * (Len(m) \div 64)) = Q
    <3>1. 0 + 1 = 1
      OBVIOUS
    <3>2. QED
      BY <1>3, <1>5, <2>1, <3>1 DEF Slice
  <2>5. SubSeq(m, (64 * (Len(m) \div 64)) + 1, Len(m)) = R
    BY <1>1, <1>3, <1>5, <2>1 DEF Slice
  <2>6. x = p
    BY <1>1, <1>9, <1>11, <2>2, <2>4, <2>5 DEF Cat
  <2>7. Len(x) \div 64 = N
    BY <1>17, <2>6 DEF BlockCount
  <2>8. QED
    BY <2>3, <2>6, <2>7
<1>19. BlocksFrom(p, 0, N) = [ n \in 1 .. N |-> BlockOf(p, n) ]
  <2>1. N - 0 = N /\ \A n \in 1 .. N : 0 + n = n
    OBVIOUS
  <2>2. QED
    BY <2>1 DEF BlocksFrom
<1>20. QED
  BY <1>10, <1>17, <1>18, <1>19 DEF Cut

(* The call that hashes m, j of whose N blocks p were given to runs.  Ran:  *)
(* the blocks up to the i-th were read, those before it hashed.             *)
Ran(p, i, init, blk, s) ==
  /\ i = 0 => init = FALSE
  /\ \A k \in Nat : i = k + 1 => init = TRUE /\ blk = BlockOf(p, i) /\ s = Hashed(iv_256, p, k)

Asks(p, j) == calling = "blocks" /\ clock = 0 /\ Ran(p, j, initVersat, fetched, State)

During(p, j) ==
  /\ calling = "run" /\ Running /\ reading = BlockOf(p, j)
  /\ \E k \in Nat : j = k + 1 /\ Ran(p, k, initVersat, fetched, State)

Fetched(p, j) ==
  /\ calling = "run" /\ clock = 0 /\ fetched = BlockOf(p, j)
  /\ \E k \in Nat : /\ j = k + 1
                    /\ k = 0 => initVersat = FALSE
                    /\ k # 0 => initVersat = TRUE /\ State = Hashed(iv_256, p, k)

Flushing(p, N) == calling = "flush" /\ Running /\ Ran(p, N, initVersat, fetched, State)

Flushed(p, N) == calling = "flush" /\ clock = 0 /\ State = Hashed(iv_256, p, N)

Phase(p, N, j) ==
  \/ Asks(p, j) \/ During(p, j) \/ Fetched(p, j)
  \/ j = N /\ (Flushing(p, N) \/ Flushed(p, N))

Called(m) ==
  \E N \in Nat \ {0} : \E j \in 0 .. N :
    /\ BlockCount(Completed(m)) = N
    /\ todo = BlocksFrom(Completed(m), j, N)
    /\ Phase(Completed(m), N, j)

Follows(p, k, init, t) ==
  /\ k = 0 => init = FALSE
  /\ k # 0 => init = TRUE /\ t = Hashed(iv_256, p, k)

LEMMA RanMore ==
  ASSUME NEW p, NEW k \in Nat, NEW init, NEW blk, NEW s, NEW t,
         Ran(p, k, init, blk, s), t = Compress(s, blk)
  PROVE  Follows(p, k, init, t)
<1>1. ASSUME k # 0 PROVE init = TRUE /\ t = Hashed(iv_256, p, k)
  <2>1. PICK l \in Nat : l = k - 1 /\ k = l + 1 /\ k \in Nat \ {0}
    BY <1>1
  <2>2. init = TRUE /\ blk = BlockOf(p, k) /\ s = Hashed(iv_256, p, l)
    BY <2>1 DEF Ran
  <2>3. Hashed(iv_256, p, k) = Compress(Hashed(iv_256, p, l), BlockOf(p, k))
    BY <2>1, HashedMore
  <2>4. QED
    BY <2>2, <2>3
<1>2. QED
  BY <1>1 DEF Ran, Follows

LEMMA RunsBlock ==
  ASSUME NEW m, Shaped(F, M), Called(m), RunBlock
  PROVE  Shaped(F', M') /\ Called(m)'
<1>0. PICK N \in Nat \ {0} : \E j \in 0 .. N :
        BlockCount(Completed(m)) = N /\ todo = BlocksFrom(Completed(m), j, N) /\ Phase(Completed(m), N, j)
  BY DEF Called
<1>1. PICK j \in 0 .. N :
        BlockCount(Completed(m)) = N /\ todo = BlocksFrom(Completed(m), j, N) /\ Phase(Completed(m), N, j)
  BY <1>0
<1>2. PICK p : p = Completed(m)
  OBVIOUS
<1>3. /\ calling = "blocks" /\ todo # << >> /\ reading' = Head(todo) /\ todo' = Tail(todo)
      /\ calling' = "run" /\ StartUnits /\ initVersat' = initVersat
  BY DEF RunBlock
<1>4. Ran(p, j, initVersat, fetched, State)
  BY <1>1, <1>2, <1>3 DEF Phase, Asks, During, Fetched, Flushing, Flushed
<1>5. N \in Nat
  OBVIOUS
<1>6. /\ todo = << >> <=> j = N
      /\ j # N => Head(todo) = BlockOf(p, j + 1) /\ Tail(todo) = BlocksFrom(p, j + 1, N)
  <2>1. Remaining(p, j, N, todo)
    BY <1>1, <1>2, <1>5, BlocksLeft
  <2>2. QED
    BY <2>1 DEF Remaining
<1>7. PICK i \in 0 .. N : i = j + 1
  BY <1>3, <1>6
<1>8. reading' = BlockOf(p, i) /\ todo' = BlocksFrom(p, i, N)
  BY <1>3, <1>6, <1>7
<1>9. Pipe(F', M', held', 1, State', Schedule(fetched')) /\ clock' = 1 /\ State' = State /\ fetched' = fetched
  BY <1>3, UnitsStart
<1>10. Shaped(F', M')
  BY <1>9, PipeShaped
<1>11. Running'
  <2>1. 1 \in 1 .. 68
    OBVIOUS
  <2>2. QED
    BY <1>9, <2>1 DEF Running
<1>12. During(p, i)'
  <2>1. j \in Nat /\ Ran(p, j, initVersat, fetched, State)'
    BY <1>3, <1>4, <1>9
  <2>2. QED
    BY <1>3, <1>7, <1>8, <1>11, <2>1 DEF During
<1>13. Phase(p, N, i)'
  BY <1>12 DEF Phase
<1>14. QED
  BY <1>1, <1>2, <1>8, <1>10, <1>13 DEF Called

LEMMA RunIsOver ==
  ASSUME NEW m, Shaped(F, M), Called(m), AfterRun
  PROVE  Shaped(F', M') /\ Called(m)'
<1>0. PICK N \in Nat \ {0} : \E j \in 0 .. N :
        BlockCount(Completed(m)) = N /\ todo = BlocksFrom(Completed(m), j, N) /\ Phase(Completed(m), N, j)
  BY DEF Called
<1>1. PICK j \in 0 .. N :
        BlockCount(Completed(m)) = N /\ todo = BlocksFrom(Completed(m), j, N) /\ Phase(Completed(m), N, j)
  BY <1>0
<1>2. PICK p : p = Completed(m)
  OBVIOUS
<1>3. /\ calling = "run" /\ clock = 0 /\ State' = IF initVersat THEN State ELSE iv_256
      /\ initVersat' = TRUE /\ calling' = "blocks" /\ todo' = todo /\ fetched' = fetched
      /\ F' = F /\ M' = M /\ clock' = clock
  BY DEF AfterRun
<1>4. Fetched(p, j)
  <2>1. ~Running
    BY <1>3 DEF Running
  <2>2. QED
    BY <1>1, <1>2, <1>3, <2>1 DEF Phase, Asks, During, Flushing, Flushed
<1>5. PICK k \in Nat : /\ j = k + 1 /\ fetched = BlockOf(p, j)
                       /\ k = 0 => initVersat = FALSE
                       /\ k # 0 => initVersat = TRUE /\ State = Hashed(iv_256, p, k)
  BY <1>4 DEF Fetched
<1>6. State' = Hashed(iv_256, p, k)
  <2>1. CASE k = 0
    BY <1>3, <1>5, <2>1, HashedNone
  <2>2. CASE k # 0
    BY <1>3, <1>5, <2>2
  <2>3. QED
    BY <2>1, <2>2
<1>7. Ran(p, j, TRUE, fetched', State')
  <2>1. ~(j = 0)
    BY <1>5
  <2>2. ASSUME NEW i \in Nat, j = i + 1 PROVE i = k
    BY <1>5, <2>2
  <2>3. QED
    BY <1>3, <1>5, <1>6, <2>1, <2>2 DEF Ran
<1>8. Asks(p, j)'
  BY <1>3, <1>7 DEF Asks
<1>9. Phase(p, N, j)'
  BY <1>8 DEF Phase
<1>10. QED
  BY <1>1, <1>2, <1>3, <1>9 DEF Called

LEMMA FlushStarts ==
  ASSUME NEW m, Shaped(F, M), Called(m), Flush
  PROVE  Shaped(F', M') /\ Called(m)'
<1>0. PICK N \in Nat \ {0} : \E j \in 0 .. N :
        BlockCount(Completed(m)) = N /\ todo = BlocksFrom(Completed(m), j, N) /\ Phase(Completed(m), N, j)
  BY DEF Called
<1>1. PICK j \in 0 .. N :
        BlockCount(Completed(m)) = N /\ todo = BlocksFrom(Completed(m), j, N) /\ Phase(Completed(m), N, j)
  BY <1>0
<1>2. PICK p : p = Completed(m)
  OBVIOUS
<1>3. /\ calling = "blocks" /\ todo = << >> /\ todo' = todo
      /\ calling' = "flush" /\ StartUnits /\ initVersat' = initVersat
  BY DEF Flush
<1>4. Ran(p, j, initVersat, fetched, State)
  BY <1>1, <1>2, <1>3 DEF Phase, Asks, During, Fetched, Flushing, Flushed
<1>5. j = N
  <2>1. N \in Nat
    OBVIOUS
  <2>2. todo = << >> <=> j = N
    <3>1. Remaining(p, j, N, todo)
      BY <1>1, <1>2, <2>1, BlocksLeft
    <3>2. QED
      BY <3>1 DEF Remaining
  <2>3. QED
    BY <1>3, <2>2
<1>6. Pipe(F', M', held', 1, State', Schedule(fetched')) /\ clock' = 1 /\ State' = State /\ fetched' = fetched
  BY <1>3, UnitsStart
<1>7. Shaped(F', M')
  BY <1>6, PipeShaped
<1>8. Running'
  <2>1. 1 \in 1 .. 68
    OBVIOUS
  <2>2. QED
    BY <1>6, <2>1 DEF Running
<1>9. Flushing(p, N)'
  BY <1>3, <1>4, <1>5, <1>6, <1>8 DEF Flushing
<1>10. Phase(p, N, j)'
  BY <1>5, <1>9 DEF Phase
<1>11. QED
  BY <1>1, <1>2, <1>3, <1>7, <1>10 DEF Called

LEMMA ClockRuns ==
  ASSUME NEW m, Called(m), ClockUnits, UNCHANGED callVars
  PROVE  Shaped(F', M') /\ Called(m)'
<1>0. PICK N \in Nat \ {0} : \E j \in 0 .. N :
        BlockCount(Completed(m)) = N /\ todo = BlocksFrom(Completed(m), j, N) /\ Phase(Completed(m), N, j)
  BY DEF Called
<1>1. PICK j \in 0 .. N :
        BlockCount(Completed(m)) = N /\ todo = BlocksFrom(Completed(m), j, N) /\ Phase(Completed(m), N, j)
  BY <1>0
<1>2. PICK p : p = Completed(m)
  OBVIOUS
<1>3. todo' = todo /\ calling' = calling /\ initVersat' = initVersat /\ reading' = reading
  BY DEF callVars
<1>4. clock # 0
  <2>1. clock \in 1 .. LastClock
    BY DEF ClockUnits
  <2>2. LastClock = 68
    BY DEF LastClock, StartOf
  <2>3. QED
    BY <2>1, <2>2
<1>5. During(p, j) \/ (j = N /\ Flushing(p, N))
  BY <1>1, <1>2, <1>4 DEF Phase, Asks, Fetched, Flushed
<1>6. Running
  BY <1>5 DEF During, Flushing
<1>7. /\ Shaped(F', M')
      /\ clock # 68 => Running' /\ State' = State /\ fetched' = fetched
      /\ clock = 68 => clock' = 0 /\ State' = Compress(State, fetched) /\ fetched' = reading
  BY <1>6, ClockStep
<1>8. Phase(p, N, j)'
  <2>1. CASE During(p, j) /\ clock # 68
    <3>1. During(p, j)'
      BY <1>3, <1>7, <2>1 DEF During
    <3>2. QED
      BY <3>1 DEF Phase
  <2>2. CASE During(p, j) /\ clock = 68
    <3>1. calling = "run" /\ reading = BlockOf(p, j)
      BY <2>2 DEF During
    <3>2. PICK k \in Nat : j = k + 1 /\ Ran(p, k, initVersat, fetched, State)
      BY <2>2 DEF During
    <3>3. PICK t : t = Compress(State, fetched)
      OBVIOUS
    <3>4. /\ k = 0 => initVersat = FALSE
          /\ k # 0 => initVersat = TRUE /\ t = Hashed(iv_256, p, k)
      <4>1. Follows(p, k, initVersat, t)
        BY <3>2, <3>3, RanMore
      <4>2. QED
        BY <4>1 DEF Follows
    <3>5. Fetched(p, j)'
      BY <1>3, <1>7, <2>2, <3>1, <3>2, <3>3, <3>4 DEF Fetched
    <3>6. QED
      BY <3>5 DEF Phase
  <2>3. CASE j = N /\ Flushing(p, N) /\ clock # 68
    <3>1. Flushing(p, N)'
      BY <1>3, <1>7, <2>3 DEF Flushing
    <3>2. QED
      BY <2>3, <3>1 DEF Phase
  <2>4. CASE j = N /\ Flushing(p, N) /\ clock = 68
    <3>1. calling = "flush" /\ Ran(p, N, initVersat, fetched, State)
      BY <2>4 DEF Flushing
    <3>2. PICK t : t = Compress(State, fetched)
      OBVIOUS
    <3>3. N \in Nat /\ N # 0
      OBVIOUS
    <3>4. t = Hashed(iv_256, p, N)
      <4>1. Follows(p, N, initVersat, t)
        BY <3>1, <3>2, <3>3, RanMore
      <4>2. QED
        BY <3>3, <4>1 DEF Follows
    <3>5. Flushed(p, N)'
      BY <1>3, <1>7, <2>4, <3>1, <3>2, <3>4 DEF Flushed
    <3>6. QED
      BY <2>4, <3>5 DEF Phase
  <2>5. QED
    BY <1>5, <2>1, <2>2, <2>3, <2>4
<1>9. QED
  BY <1>1, <1>2, <1>3, <1>7, <1>8 DEF Called

LEMMA CallEnds ==
  ASSUME NEW m, Called(m), calling = "flush", clock = 0
  PROVE  Stored(State) = SHA256(m)
<1>0. PICK N \in Nat \ {0} : \E j \in 0 .. N :
        BlockCount(Completed(m)) = N /\ todo = BlocksFrom(Completed(m), j, N) /\ Phase(Completed(m), N, j)
  BY DEF Called
<1>1. PICK j \in 0 .. N :
        BlockCount(Completed(m)) = N /\ todo = BlocksFrom(Completed(m), j, N) /\ Phase(Completed(m), N, j)
  BY <1>0
<1>2. PICK p : p = Completed(m)
  OBVIOUS
<1>3. State = Hashed(iv_256, p, N)
  <2>1. ~Running
    BY DEF Running
  <2>2. QED
    BY <1>1, <1>2, <2>1 DEF Phase, Asks, During, Fetched, Flushing, Flushed
<1>4. N \in Nat /\ N = BlockCount(p)
  BY <1>1, <1>2
<1>5. SHA256(m) = Stored(Hashed(iv_256, p, N))
  BY <1>2, <1>4, StandardTurned
<1>6. QED
  BY <1>3, <1>5

(* The list of hashes.                                                      *)
ListOf(h, n) == h = [ i \in 1 .. n |-> h[i] ]

LEMMA ListedLength ==
  ASSUME NEW h, NEW n \in Nat, ListOf(h, n)
  PROVE  Len(h) = n
<1>1. PICK S : S = { h[i] : i \in 1 .. n }
  OBVIOUS
<1>2. h \in [ 1 .. n -> S ]
  BY <1>1 DEF ListOf
<1>3. QED
  BY <1>2, FunctionIsSeq

Lists(g, h, n, k, x) == ListOf(g, k) /\ g[k] = x /\ \A i \in 1 .. n : i # k => g[i] = h[i]

LEMMA Appended ==
  ASSUME NEW h, NEW n \in Nat, ListOf(h, n), NEW x, NEW k \in Nat, k = n + 1
  PROVE  Lists(Append(h, x), h, n, k, x)
<1>1. PICK E : E = [ i \in 1 .. n + 1 |-> IF i = n + 1 THEN x ELSE h[i] ]
  OBVIOUS
<1>2. E[n + 1] = x /\ \A i \in 1 .. n : E[i] = h[i]
  BY <1>1
<1>3. E = [ i \in 1 .. n + 1 |-> E[i] ]
  BY <1>1
<1>4. h = [ i \in 1 .. n |-> E[i] ]
  BY <1>2 DEF ListOf
<1>5. Append(h, E[n + 1]) = [ i \in 1 .. n + 1 |-> E[i] ]
  BY <1>4, Longer
<1>6. Append(h, x) = E
  BY <1>2, <1>3, <1>5
<1>7. QED
  BY <1>2, <1>3, <1>6 DEF ListOf, Lists

Exchange(h, n, x) == [ h EXCEPT ![n] = x ]

LEMMA Exchanged ==
  ASSUME NEW h, NEW n \in Nat \ {0}, ListOf(h, n), NEW x, NEW g, g = Exchange(h, n, x)
  PROVE  Lists(g, h, n, n, x)
<1>1. DOMAIN h = 1 .. n /\ n \in 1 .. n
  BY DEF ListOf
<1>2. g = [ i \in 1 .. n |-> IF i = n THEN x ELSE h[i] ]
  BY <1>1 DEF Exchange
<1>3. QED
  BY <1>1, <1>2 DEF ListOf, Lists

DigestedRight(r) == r.digest = SHA256(r.message)

BetweenCalls(h, n) == calling = "no" /\ clock = 0 /\ initVersat = FALSE /\ \A i \in 1 .. n : DigestedRight(h[i])

Busy(h, n) ==
  /\ calling # "no" /\ n # 0
  /\ \A i \in 1 .. n : i # n => DigestedRight(h[i])
  /\ h[n].message \in Seq(Int)
  /\ Called(h[n].message)

UnitInv == Shaped(F, M) /\ \E n \in Nat : ListOf(hashes, n) /\ (BetweenCalls(hashes, n) \/ Busy(hashes, n))

LEMMA UnitInvRight ==
  ASSUME UnitInv
  PROVE  DigestsRight
<1>1. PICK n \in Nat : ListOf(hashes, n) /\ (BetweenCalls(hashes, n) \/ Busy(hashes, n))
  BY DEF UnitInv
<1>2. Len(hashes) = n
  BY <1>1, ListedLength
<1>3. CASE calling = "no"
  BY <1>1, <1>2, <1>3 DEF BetweenCalls, Busy, DigestedRight, DigestsRight
<1>4. CASE calling # "no"
  BY <1>4 DEF DigestsRight
<1>5. QED
  BY <1>3, <1>4

LEMMA UnitsShaped ==
  ASSUME NEW f, f = [ q \in 1 .. 4 |-> [ delay |-> 0, working |-> FALSE, word |-> [ i \in 1 .. 8 |-> {} ] ] ],
         NEW m, m = [ q \in 1 .. 3 |-> [ delay |-> 0, latency |-> 0, out |-> {},
                                         w |-> [ i \in 1 .. 16 |-> {} ] ] ]
  PROVE  Shaped(f, m)
<1>1. PICK x : x = [ i \in 1 .. 8 |-> {} ]
  OBVIOUS
<1>2. PICK y : y = [ i \in 1 .. 16 |-> {} ]
  OBVIOUS
<1>3. PICK g : g = FUnit(0, FALSE, x)
  OBVIOUS
<1>4. IsF(g)
  BY <1>3 DEF IsF
<1>5. f[1] = g /\ f[2] = g /\ f[3] = g /\ f[4] = g
  BY <1>1, <1>3 DEF FUnit
<1>6. PICK e : e = MUnit(0, 0, y, {})
  OBVIOUS
<1>7. Sixteenfold(y)
  BY <1>2 DEF Sixteenfold
<1>8. IsM(e)
  BY <1>6, <1>7 DEF IsM
<1>9. m[1] = e /\ m[2] = e /\ m[3] = e
  BY <1>2, <1>6 DEF MUnit
<1>10. QED
  BY <1>4, <1>5, <1>8, <1>9 DEF Shaped

LEMMA VersatShaStarts ==
  ASSUME VersatShaInit
  PROVE  UnitInv
<1>1. Shaped(F, M)
  BY UnitsShaped DEF VersatShaInit
<1>2. ListOf(hashes, 0)
  <2>1. hashes = << >> /\ 1 .. 0 = {}
    BY DEF VersatShaInit
  <2>2. [ i \in {} |-> hashes[i] ] = << >>
    OBVIOUS
  <2>3. QED
    BY <2>1, <2>2 DEF ListOf
<1>3. BetweenCalls(hashes, 0)
  <2>1. calling = "no" /\ clock = 0 /\ initVersat = FALSE
    BY DEF VersatShaInit
  <2>2. 1 .. 0 = {}
    OBVIOUS
  <2>3. QED
    BY <2>1, <2>2 DEF BetweenCalls
<1>4. 0 \in Nat
  OBVIOUS
<1>5. QED
  BY <1>1, <1>2, <1>3, <1>4 DEF UnitInv

LEMMA TextsAre ==
  ASSUME NEW n \in Nat, NEW k \in Nat
  PROVE  [ i \in 1 .. n |-> Text(i + k) ] \in Seq(Int)
<1>1. PICK f : f = [ i \in 1 .. n |-> Text(i + k) ]
  OBVIOUS
<1>2. ASSUME NEW i \in Nat PROVE Text(i) \in Int
  BY DEF Text
<1>3. f \in [ 1 .. n -> Int ]
  <2>1. \A i \in 1 .. n : i + k \in Nat
    OBVIOUS
  <2>2. QED
    BY <1>1, <1>2, <2>1
<1>4. f \in Seq(Int)
  BY <1>3, FunctionIsSeq
<1>5. QED
  BY <1>1, <1>4

LEMMA CallStarts ==
  ASSUME UnitInv, NEW l \in Nat, VersatSHA(l)
  PROVE  UnitInv'
<1>1. PICK n \in Nat : ListOf(hashes, n) /\ (BetweenCalls(hashes, n) \/ Busy(hashes, n))
  BY DEF UnitInv
<1>2. Len(hashes) = n
  BY <1>1, ListedLength
<1>3. PICK m : m = [ i \in 1 .. l |-> Text(i + n) ]
  OBVIOUS
<1>4. m \in Seq(Int)
  BY <1>3, TextsAre
<1>5. PICK r : r = [ message |-> m, digest |-> << >> ]
  OBVIOUS
<1>6. /\ calling = "no" /\ calling' = "blocks" /\ todo' = Blocks(m) /\ hashes' = Append(hashes, r)
      /\ initVersat' = initVersat /\ clock' = clock /\ F' = F /\ M' = M
  BY <1>2, <1>3, <1>5 DEF VersatSHA, unitVars
<1>7. BetweenCalls(hashes, n)
  BY <1>1, <1>6 DEF Busy
<1>8. PICK k \in Nat : k = n + 1
  OBVIOUS
<1>9. PICK h : h = hashes'
  OBVIOUS
<1>10. ListOf(h, k) /\ h[k] = r /\ \A i \in 1 .. n : h[i] = hashes[i]
  <2>1. Lists(Append(hashes, r), hashes, n, k, r)
    BY <1>1, <1>8, Appended
  <2>2. Lists(h, hashes, n, k, r)
    BY <1>6, <1>9, <2>1
  <2>3. \A i \in 1 .. n : i # k
    BY <1>8
  <2>4. QED
    BY <2>2, <2>3 DEF Lists
<1>11. PICK N \in Nat \ {0} : Cut(m, N)
  BY <1>4, MessageBlocks
<1>12. PICK p : p = Completed(m)
  OBVIOUS
<1>13. Asks(p, 0)'
  <2>1. Ran(p, 0, FALSE, fetched', State')
    BY DEF Ran
  <2>2. QED
    BY <1>6, <1>7, <2>1 DEF Asks, BetweenCalls
<1>14. Called(m)'
  <2>1. BlockCount(p) = N /\ todo' = BlocksFrom(p, 0, N) /\ 0 \in 0 .. N
    BY <1>6, <1>11, <1>12 DEF Cut
  <2>2. Phase(p, N, 0)'
    BY <1>13 DEF Phase
  <2>3. QED
    BY <1>12, <2>1, <2>2 DEF Called
<1>15. Busy(h, k)'
  <2>1. \A i \in 1 .. k : i # k => DigestedRight(h[i])
    <3>1. \A i \in 1 .. k : i # k => i \in 1 .. n
      BY <1>8
    <3>2. QED
      BY <1>7, <1>10, <3>1 DEF BetweenCalls
  <2>2. h[k].message = m
    BY <1>5, <1>10
  <2>3. k # 0
    BY <1>8
  <2>4. QED
    BY <1>4, <1>6, <1>14, <2>1, <2>2, <2>3 DEF Busy
<1>16. Shaped(F', M')
  BY <1>6 DEF UnitInv
<1>17. QED
  BY <1>9, <1>10, <1>15, <1>16 DEF UnitInv

LEMMA CallGoesOn ==
  ASSUME UnitInv, NEW n \in Nat, ListOf(hashes, n), Busy(hashes, n), hashes' = hashes, calling' # "no",
         Shaped(F', M') /\ Called(hashes[n].message)'
  PROVE  UnitInv'
<1>1. PICK m : m = hashes[n].message
  OBVIOUS
<1>2. Busy(hashes, n)'
  BY <1>1 DEF Busy
<1>3. QED
  BY <1>2 DEF UnitInv

LEMMA CallIsRead ==
  ASSUME UnitInv, ReadDigest
  PROVE  UnitInv'
<1>1. PICK n \in Nat : ListOf(hashes, n) /\ (BetweenCalls(hashes, n) \/ Busy(hashes, n))
  BY DEF UnitInv
<1>2. Len(hashes) = n
  BY <1>1, ListedLength
<1>3. calling = "flush" /\ clock = 0 /\ calling' = "no" /\ clock' = clock /\ initVersat' = FALSE
      /\ F' = F /\ M' = M
  BY DEF ReadDigest, unitVars
<1>4. Busy(hashes, n)
  BY <1>1, <1>3 DEF BetweenCalls
<1>5. PICK m : m = hashes[n].message
  OBVIOUS
<1>6. PICK r : r = [ message |-> m, digest |-> Stored(State) ]
  OBVIOUS
<1>7. n \in Nat \ {0} /\ n \in DOMAIN hashes
  BY <1>1, <1>4 DEF Busy, ListOf
<1>8. PICK h : h = hashes'
  OBVIOUS
<1>9. h = [ hashes EXCEPT ![n] = r ]
  <2>1. hashes' = [ hashes EXCEPT ![n] = [ message |-> @.message,
                      digest |-> [ i \in 1 .. 8 |-> store_bigendian_32(State[i]) ] ] ]
    BY <1>2 DEF ReadDigest
  <2>2. Stored(State) = [ i \in 1 .. 8 |-> store_bigendian_32(State[i]) ]
    BY DEF Stored
  <2>3. QED
    BY <1>5, <1>6, <1>8, <2>1, <2>2
<1>10. ListOf(h, n) /\ h[n] = r /\ \A i \in 1 .. n : i # n => h[i] = hashes[i]
  <2>1. h = Exchange(hashes, n, r)
    BY <1>9 DEF Exchange
  <2>2. Lists(h, hashes, n, n, r)
    BY <1>1, <1>7, <2>1, Exchanged
  <2>3. QED
    BY <2>2 DEF Lists
<1>11. Stored(State) = SHA256(m)
  <2>1. Called(m)
    BY <1>4, <1>5 DEF Busy
  <2>2. QED
    BY <1>3, <2>1, CallEnds
<1>12. DigestedRight(r)
  BY <1>6, <1>11 DEF DigestedRight
<1>13. \A i \in 1 .. n : DigestedRight(h[i])
  BY <1>4, <1>10, <1>12 DEF Busy
<1>14. BetweenCalls(h, n)'
  BY <1>3, <1>13 DEF BetweenCalls
<1>15. Shaped(F', M')
  BY <1>3 DEF UnitInv
<1>16. QED
  BY <1>8, <1>10, <1>14, <1>15 DEF UnitInv

LEMMA VersatShaSteps ==
  ASSUME UnitInv, VersatShaNext, MessageSizes \subseteq Nat
  PROVE  UnitInv'
<1>1. PICK n \in Nat : ListOf(hashes, n) /\ (BetweenCalls(hashes, n) \/ Busy(hashes, n))
  BY DEF UnitInv
<1>2. PICK m : m = hashes[n].message
  OBVIOUS
<1>3. Shaped(F, M)
  BY DEF UnitInv
<1>4. ASSUME NEW l \in MessageSizes, VersatSHA(l) PROVE UnitInv'
  BY <1>4, CallStarts
<1>5. CASE RunBlock
  <2>1. calling # "no" /\ calling' # "no" /\ hashes' = hashes
    BY <1>5 DEF RunBlock
  <2>2. Busy(hashes, n) /\ Called(m)
    BY <1>1, <1>2, <2>1 DEF BetweenCalls, Busy
  <2>3. Shaped(F', M') /\ Called(m)'
    BY <1>3, <1>5, <2>2, RunsBlock
  <2>4. QED
    BY <1>1, <1>2, <2>1, <2>2, <2>3, CallGoesOn
<1>6. CASE AfterRun
  <2>1. calling # "no" /\ calling' # "no" /\ hashes' = hashes
    BY <1>6 DEF AfterRun
  <2>2. Busy(hashes, n) /\ Called(m)
    BY <1>1, <1>2, <2>1 DEF BetweenCalls, Busy
  <2>3. Shaped(F', M') /\ Called(m)'
    BY <1>3, <1>6, <2>2, RunIsOver
  <2>4. QED
    BY <1>1, <1>2, <2>1, <2>2, <2>3, CallGoesOn
<1>7. CASE Flush
  <2>1. calling # "no" /\ calling' # "no" /\ hashes' = hashes
    BY <1>7 DEF Flush
  <2>2. Busy(hashes, n) /\ Called(m)
    BY <1>1, <1>2, <2>1 DEF BetweenCalls, Busy
  <2>3. Shaped(F', M') /\ Called(m)'
    BY <1>3, <1>7, <2>2, FlushStarts
  <2>4. QED
    BY <1>1, <1>2, <2>1, <2>2, <2>3, CallGoesOn
<1>8. CASE ReadDigest
  BY <1>8, CallIsRead
<1>9. CASE ClockUnits /\ UNCHANGED callVars
  <2>1. clock # 0
    <3>1. clock \in 1 .. LastClock
      BY <1>9 DEF ClockUnits
    <3>2. LastClock = 68
      BY DEF LastClock, StartOf
    <3>3. QED
      BY <3>1, <3>2
  <2>2. Busy(hashes, n) /\ Called(m)
    BY <1>1, <1>2, <2>1 DEF BetweenCalls, Busy
  <2>3. calling' = calling /\ hashes' = hashes /\ calling # "no"
    BY <1>9, <2>2 DEF callVars, Busy
  <2>4. Shaped(F', M') /\ Called(m)'
    BY <1>9, <2>2, ClockRuns
  <2>5. QED
    BY <1>1, <1>2, <2>2, <2>3, <2>4, CallGoesOn
<1>10. QED
  BY <1>4, <1>5, <1>6, <1>7, <1>8, <1>9 DEF VersatShaNext
===============================================================================
