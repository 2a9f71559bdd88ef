-------------------------- MODULE MCVersatSession --------------------------
(* SHA and AES blocks of 2 bytes, the length of SHA taking 1: the smallest  *)
(* sizes at which both paddings of EndSHA, a hidden rest and several blocks *)
(* in one buffer occur.  The buffer of MCVersatSession.cfg is mapped with   *)
(* one byte less than it declares; the findings have SHA blocks of 3 and    *)
(* more mapped than declared.                                               *)
EXTENDS VersatSession

(* Bytes the client may load in the first, second and third session.        *)
LongThenShort == <<5, 2>>
OneMessage    == <<4>>
TwoMessages   == <<4, 4>>
ThreeShort    == <<2, 2, 2>>
=============================================================================
