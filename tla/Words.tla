-------------------------------- MODULE Words --------------------------------
(***************************************************************************)
(* Machine words as the hash functions and the ciphers use them.  A word   *)
(* is the set of the numbers of its bits that are 1, so that & and | are   *)
(* intersection and union and ^ is the symmetric difference.  A byte is a  *)
(* number.                                                                 *)
(***************************************************************************)
EXTENDS Naturals, Sequences

Byte == 0 .. 255

\* The bits of a number below 2^16.
BitsOf16(n) == { i \in 0 .. 15 : (n \div 2^i) % 2 = 1 }

\* The bits of every byte, and the byte that has them.
BitsOfByte == [ n \in Byte |-> BitsOf16(n) \cap (0 .. 7) ]

\* The byte whose bits are these.
NumberOf(bits) ==
  LET number[i \in 0 .. 8] ==
        IF i = 8 THEN 0 ELSE (IF i \in bits THEN 1 ELSE 0) + (2 * number[i + 1])
  IN  number[0]

\* The 32-bit word written as two halves of 16 bits.
Hex(high, low) == BitsOf16(low) \cup { i + 16 : i \in BitsOf16(high) }

Xor(a, b) == (a \ b) \cup (b \ a)

Xor3(a, b, c) == Xor(Xor(a, b), c)

Rotr(x, c) == { (i + 32 - c) % 32 : i \in x }

Shr(x, c) == { i - c : i \in { j \in x : j >= c } }

\* Addition modulo 2^width: the carries are added until there are none.
Plus(a, b) ==
  LET plus[x \in SUBSET Nat, y \in SUBSET Nat] ==
        IF y = {} THEN x
        ELSE plus[Xor(x, y), { i + 1 : i \in (x \cap y) \ {31} }]
  IN  plus[a, b]

\* The bytes of a word, the most significant first, and back.
load_bigendian_32(x) ==
  UNION { { b + (8 * (4 - i)) : b \in BitsOfByte[x[i]] } : i \in 1 .. 4 }

store_bigendian_32(u) ==
  << NumberOf({ i - 24 : i \in u \cap (24 .. 31) }),
     NumberOf({ i - 16 : i \in u \cap (16 .. 23) }),
     NumberOf({ i - 8 : i \in u \cap (8 .. 15) }),
     NumberOf(u \cap (0 .. 7)) >>

\* The second value.  TLC, which expands a definition when it is used, has then
\* expanded the first, and need not go down to it from inside the second.
Then(first, second) == << first, second >>[2]
==============================================================================
