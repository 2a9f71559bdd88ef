------------------------------- MODULE VersatSha -------------------------------
(***************************************************************************)
(* SHA-256 on the accelerator: VersatSHA of the bare-metal versat_crypto.c *)
(* and the units its runs drive, clock by clock.  Four xunitF do sixteen   *)
(* rounds each, three xunitM make the message words of the last three, and *)
(* ShaState adds the result to the registers at the end of the run.  VRead *)
(* has two halves: a run hashes the block the run before it read.          *)
(***************************************************************************)
EXTENDS Sha2

CONSTANTS
  MessageSizes,   \* the sizes in bytes of the messages that are hashed
  MaxMessages     \* bound on their number

ASSUME VersatShaAssumption == MessageSizes \subseteq Nat

VARIABLES
  todo,           \* the blocks that VersatSHA has still to give to a run
  calling,        \* "no", or the part of VersatSHA: "blocks", "flush"
  initVersat,     \* the global of that name
  reading,        \* the block at MemRead_ext_addr
  fetched,        \* the block in the half of VRead that is sent out
  clock,          \* the clock of the run, 0 when none is in progress
  F, M,           \* the registers of the units xunitF and xunitM
  held,           \* the outputs of F one clock ago
  State,          \* the eight registers of ShaState
  hashes          \* the messages hashed and the digests read (history)

unitVars == << clock, F, M, held, State, fetched >>
callVars == << todo, calling, initVersat, reading, hashes >>
versatShaVars == << todo, calling, initVersat, reading, fetched, clock, F, M,
                    held, State, hashes >>

-------------------------------------------------------------------------------
(* The units.                                                               *)

\* The clock in which the first input of a unit is valid, from the latencies
\* the units declare: 16 for xunitF and 17 for xunitM, so that the outputs of
\* an xunitF wait one clock for the word of the xunitM beside it.
StartOf(q) == 17 * (q - 1)
LastClock == StartOf(4) + 16 + 1

FStarted(unit, q) == [ delay |-> StartOf(q), working |-> FALSE, word |-> unit.word ]

MStarted(unit, q) ==
  [ delay |-> StartOf(q), latency |-> 17, w |-> unit.w, out |-> unit.out ]

FClocked(unit, in, k, w) ==
  IF unit.working THEN [ unit EXCEPT !.word = F_32(@, k, w) ]
  ELSE IF unit.delay = 0
    THEN [ delay |-> 0, working |-> TRUE, word |-> F_32(in, k, w) ]
  ELSE [ unit EXCEPT !.delay = @ - 1 ]

MClocked(unit, in) ==
  LET w == unit.w
      val == M_32(w[1], w[15], w[10], w[2])
      late == unit.latency
  IN IF unit.delay # 0 THEN [ unit EXCEPT !.delay = @ - 1 ]
     ELSE [ delay |-> 0, latency |-> IF late # 0 THEN late - 1 ELSE 0,
            w |-> Append(Tail(w), IF late > 1 THEN in ELSE val), out |-> val ]

\* What the read unit, through the byte swap, and the memory of constants q
\* send in the n-th clock of the run.
Word(n) == LET t == (n - 1) % 16
           IN load_bigendian_32(SubSeq(fetched, (4 * t) + 1, (4 * t) + 4))

Constant(q, n) == K[(16 * (q - 1)) + ((n + 63 - StartOf(q)) % 16) + 1]

ClockUnits ==
  /\ clock \in 1 .. LastClock
  /\ F' = << FClocked(F[1], State, Constant(1, clock), Word(clock)),
             FClocked(F[2], held[1], Constant(2, clock), M[1].out),
             FClocked(F[3], held[2], Constant(3, clock), M[2].out),
             FClocked(F[4], held[3], Constant(4, clock), M[3].out) >>
  /\ M' = << MClocked(M[1], Word(clock)), MClocked(M[2], M[1].out),
             MClocked(M[3], M[2].out) >>
  /\ held' = << F[1].word, F[2].word, F[3].word >>
  /\ State' = IF clock = LastClock THEN Sums(State, F[4].word) ELSE State
  /\ fetched' = IF clock = LastClock THEN reading ELSE fetched
  /\ clock' = IF clock = LastClock THEN 0 ELSE clock + 1

StartUnits ==
  /\ F' = [ q \in 1 .. 4 |-> FStarted(F[q], q) ]
  /\ M' = [ q \in 1 .. 3 |-> MStarted(M[q], q) ]
  /\ clock' = 1
  /\ UNCHANGED << held, State, fetched >>

-------------------------------------------------------------------------------
(* VersatSHA.                                                               *)

VersatShaInit ==
  /\ todo = << >> /\ calling = "no" /\ initVersat = FALSE /\ hashes = << >>
  /\ reading = Zeros(64) /\ fetched = Zeros(64) /\ clock = 0
  /\ F = [ q \in 1 .. 4 |-> [ delay |-> 0, working |-> FALSE,
                              word |-> [ i \in 1 .. 8 |-> {} ] ] ]
  /\ M = [ q \in 1 .. 3 |-> [ delay |-> 0, latency |-> 0, out |-> {},
                              w |-> [ i \in 1 .. 16 |-> {} ] ] ]
  /\ held = [ q \in 1 .. 3 |-> [ i \in 1 .. 8 |-> {} ] ]
  /\ State = [ i \in 1 .. 8 |-> {} ]

\* The message that is hashed: its blocks, then the padded rest.
Blocks(in) ==
  LET whole == Len(in) \div 64
      all == SubSeq(in, 1, 64 * whole)
              \o Padded(SubSeq(in, (64 * whole) + 1, Len(in)), Len(in))
  IN [ n \in 1 .. (Len(all) \div 64) |-> BlockOf(all, n) ]

VersatSHA(inlen) ==
  LET in == [ i \in 1 .. inlen |-> Text(i + Len(hashes)) ]
  IN /\ calling = "no" /\ Len(hashes) < MaxMessages
     /\ calling' = "blocks" /\ todo' = Blocks(in)
     /\ hashes' = Append(hashes, [ message |-> in, digest |-> << >> ])
     /\ UNCHANGED << initVersat, reading >> /\ UNCHANGED unitVars

\* The block's address is given to the read unit and a run is started.
RunBlock ==
  /\ calling = "blocks" /\ clock = 0 /\ todo # << >>
  /\ reading' = Head(todo) /\ todo' = Tail(todo)
  /\ calling' = "run"
  /\ StartUnits
  /\ UNCHANGED << initVersat, hashes >>

\* After a message's first run the registers get their initial values: what
\* the run before them hashed is forgotten.
AfterRun ==
  /\ calling = "run" /\ clock = 0
  /\ State' = IF initVersat THEN State ELSE iv_256
  /\ initVersat' = TRUE
  /\ calling' = "blocks"
  /\ UNCHANGED << todo, reading, hashes, F, M, held, fetched, clock >>

\* One more run hashes the last block that was read.
Flush ==
  /\ calling = "blocks" /\ clock = 0 /\ todo = << >>
  /\ calling' = "flush"
  /\ StartUnits
  /\ UNCHANGED << todo, initVersat, reading, hashes >>

\* (Mutant: initVersat is not reset.)
ReadDigestOnce ==
  /\ calling = "flush" /\ clock = 0
  /\ hashes' = [ hashes EXCEPT ![Len(hashes)] =
                   [ message |-> @.message,
                     digest |-> [ i \in 1 .. 8 |-> store_bigendian_32(State[i]) ] ] ]
  /\ calling' = "no"
  /\ UNCHANGED << todo, reading, initVersat >> /\ UNCHANGED unitVars

ReadDigest ==
  /\ calling = "flush" /\ clock = 0
  /\ hashes' = [ hashes EXCEPT ![Len(hashes)] =
                   [ message |-> @.message,
                     digest |-> [ i \in 1 .. 8 |-> store_bigendian_32(State[i]) ] ] ]
  /\ initVersat' = FALSE
  /\ calling' = "no"
  /\ UNCHANGED << todo, reading >> /\ UNCHANGED unitVars

VersatShaNext ==
  \/ \E n \in MessageSizes : VersatSHA(n)
  \/ RunBlock \/ AfterRun \/ Flush \/ ReadDigest
  \/ ClockUnits /\ UNCHANGED callVars

\* Whatever the accelerator hashed before, a message's digest is the one of
\* the standard.
DigestsRight ==
  calling = "no" => \A n \in 1 .. Len(hashes) : hashes[n].digest = SHA256(hashes[n].message)
===============================================================================
