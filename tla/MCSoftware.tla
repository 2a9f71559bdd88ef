------------------------------ MODULE MCSoftware ------------------------------
(* Small instances of the programs: the sizes are those around the edges of a *)
(* block, the keys and vectors a standard's example and the ones that carry.  *)
EXTENDS Software

Forced(f, n) == SubSeq(f, 1, n)

\* The key of the examples of SP 800-38A, and one more.
MCTinyKeys ==
  { << <<96, 61, 235, 16>>, <<21, 202, 113, 190>>, <<43, 115, 174, 240>>, <<133, 125, 119, 129>>,
       <<31, 53, 44, 7>>, <<59, 97, 8, 215>>, <<45, 152, 16, 163>>, <<9, 20, 223, 244>> >>,
    Forced([ i \in 1 .. 8 |-> << i, 2 * i, 3 * i, 255 >> ], 8) }

\* The counter that wraps.
MCTinyIvs == { Forced([ i \in 1 .. 16 |-> 255 ], 16) }

MCSlicedKeys == { Forced([ i \in 1 .. n |-> << i, 2 * i, 3 * i, 255 >> ], n) : n \in {4, 6, 8} }

MCLeftovers == { Forced([ i \in 1 .. 16 |-> {} ], 16), Forced([ i \in 1 .. 16 |-> 0 .. 31 ], 16) }

T(mode, is256, key) == [ mode |-> mode, is256 |-> is256, key |-> key ]

MCPrograms ==
  { << T("InitVersatAES", FALSE, 0), T("ECB", FALSE, 1), T("ECB", TRUE, 1), T("CBC", FALSE, 1),
       T("CBC", TRUE, 1), T("CTR", FALSE, 1), T("CTR", TRUE, 1) >>,
    << T("InitVersatAES", FALSE, 0), T("InitAES", FALSE, 0), T("vector", TRUE, 2),
       T("vector", TRUE, 3) >> }

MCRate == [ shake128 |-> 6, shake256 |-> 4, sha3_256 |-> 4, sha3_384 |-> 4, sha3_512 |-> 2,
            cshake128 |-> 6, cshake256 |-> 4 ]
MCDomain == [ shake128 |-> 31, shake256 |-> 31, sha3_256 |-> 6, sha3_384 |-> 6,
              sha3_512 |-> 6, cshake128 |-> 4, cshake256 |-> 4 ]
MCDigest == [ shake128 |-> 0, shake256 |-> 0, sha3_256 |-> 2, sha3_384 |-> 3, sha3_512 |-> 2,
              cshake128 |-> 0, cshake256 |-> 0 ]
MCNames == { <<0, 1>>, <<1, 2>>, <<32, 0>> }

\* No bit, the bits of some lanes, and every third one.
MCLanes ==
  { Forced([ i \in 1 .. 25 |-> {} ], 25),
    Forced([ i \in 1 .. 25 |-> { b \in 0 .. 63 : (b * i + b) % 7 < 3 } ], 25) }

MCStarts == { <<0, 2>>, <<2, 1>> }
===============================================================================
