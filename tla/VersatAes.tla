------------------------------ MODULE VersatAes ------------------------------
(***************************************************************************)
(* AES on the accelerator as the bare-metal firmware drives it: the graph  *)
(* of units that one run computes (FullAES of versatSpec.txt), and the     *)
(* functions of versat_crypto.c that configure it, run by run, while the   *)
(* run before may still be going on.                                       *)
(*                                                                         *)
(* A run works with the configuration that StartAccelerator copied: what   *)
(* is configured later is for the next run.  What it computes is in the    *)
(* registers when it ends; a register with no input is 0 then, which the   *)
(* vectors of VersatAES need of lastValToAdd.                              *)
(***************************************************************************)
EXTENDS Aes, TLC

CONSTANTS
  Programs        \* each the sequence of the types of a program's rounds

VARIABLES
  config,         \* accelConfig: what the next run is started with
  running,        \* what the run that is going on was started with, or Idle
  unit,           \* the registers and the lookup tables of the accelerator
  left,           \* what is left of the program: types, and calls of the type
  call,           \* the call that is being made: its runs that are left, its end
  memory          \* the buffers of DoOneRound

aesUnitVars == << config, running, unit, left, call, memory >>

-------------------------------------------------------------------------------
(* The units.  A block is the tuple of the 16 values on its wires.          *)

SBox(in0) == sbox[in0 + 1]

RSBox(in0) == rsbox[in0 + 1]

SBoxGroup(x) == SubSeq([ i \in 1 .. 16 |-> SBox(x[i]) ], 1, 16)

RSBoxGroup(x) == SubSeq([ i \in 1 .. 16 |-> RSBox(x[i]) ], 1, 16)

\* The outputs that the wires x[0] .. x[15] are connected to.
ShiftRowsWires == << 0, 13, 10, 7, 4, 1, 14, 11, 8, 5, 2, 15, 12, 9, 6, 3 >>

InvShiftRowsWires == << 0, 5, 10, 15, 4, 9, 14, 3, 8, 13, 2, 7, 12, 1, 6, 11 >>

Wired(x, wires) ==
  SubSeq([ o \in 1 .. 16 |-> x[CHOOSE i \in 1 .. 16 : wires[i] = o - 1] ], 1, 16)

\* The products of every byte that the firmware writes to the lookup tables.
mul ==
  [ y \in {2, 3, 9, 11, 13, 14} |-> SubSeq([ n \in 1 .. 256 |-> Multiply(n - 1, y) ], 1, 256) ]
    @@ << >>

\* A lookup in a table that the other kind of row was filled into gives no product.
Product(filled, kind, y, x) == IF filled = kind THEN mul[y][x + 1] ELSE 0

DoRow(x, filled) ==
  LET mul2(i) == Product(filled, "rows", 2, x[i + 1])
      mul3(i) == Product(filled, "rows", 3, x[i + 1])
      sum(a, b, c, d) == XorByte(XorByte(a, b), XorByte(c, d))
  IN << sum(x[3], x[4], mul2(0), mul3(1)), sum(x[1], x[4], mul2(1), mul3(2)),
        sum(x[1], x[2], mul2(2), mul3(3)), sum(x[2], x[3], mul2(3), mul3(0)) >>

InvDoRow(x, filled) ==
  LET p(y, i) == Product(filled, "inverse rows", y, x[i + 1])
      sum(a, b, c, d) == XorByte(XorByte(a, b), XorByte(c, d))
  IN << sum(p(14, 0), p(11, 1), p(13, 2), p(9, 3)), sum(p(9, 0), p(14, 1), p(11, 2), p(13, 3)),
        sum(p(13, 0), p(9, 1), p(14, 2), p(11, 3)), sum(p(11, 0), p(13, 1), p(9, 2), p(14, 3)) >>

MixColumnsUnit(x, filled) ==
  DoRow(SubSeq(x, 1, 4), filled) \o DoRow(SubSeq(x, 5, 8), filled)
    \o DoRow(SubSeq(x, 9, 12), filled) \o DoRow(SubSeq(x, 13, 16), filled)

InvMixColumnsUnit(x, filled) ==
  InvDoRow(SubSeq(x, 1, 4), filled) \o InvDoRow(SubSeq(x, 5, 8), filled)
    \o InvDoRow(SubSeq(x, 9, 12), filled) \o InvDoRow(SubSeq(x, 13, 16), filled)

AddRoundKeyUnit(x, y) == XorBlock(x, y)

\* The six graphs of which a run uses the one that was activated.
AESFirstAdd(x, k, iv) == AddRoundKeyUnit(AddRoundKeyUnit(x, k), iv)

AESInvFirstAdd(x, k) == AddRoundKeyUnit(x, k)

AESRound(x, k, filled) ==
  AddRoundKeyUnit(MixColumnsUnit(Wired(SBoxGroup(x), ShiftRowsWires), filled), k)

AESInvRound(x, k, filled) ==
  InvMixColumnsUnit(AddRoundKeyUnit(RSBoxGroup(Wired(x, InvShiftRowsWires)), k), filled)

AESLastRound(x, k) == AddRoundKeyUnit(Wired(SBoxGroup(x), ShiftRowsWires), k)

AESInvLastRound(x, k, iv) ==
  AddRoundKeyUnit(AddRoundKeyUnit(RSBoxGroup(Wired(x, InvShiftRowsWires)), k), iv)

FullAESRounds(merge, x, k, iv, filled) ==
  CASE merge = "AESFirstAdd" -> AESFirstAdd(x, k, iv)
    [] merge = "AESRound" -> AESRound(x, k, filled)
    [] merge = "AESLastRound" -> AESLastRound(x, k)
    [] merge = "AESInvFirstAdd" -> AESInvFirstAdd(x, k)
    [] merge = "AESInvRound" -> AESInvRound(x, k, filled)
    [] merge = "AESInvLastRound" -> AESInvLastRound(x, k, iv)

\* The line of the key schedule: the last word, rotated when sel is 1.
GenericLineKey(x, w, rcon, sel, filled) ==
  LET in == IF sel = 1 THEN RotWord(x) ELSE x
      b == IF filled THEN LookedUp(sbox, in) ELSE << 0, 0, 0, 0 >>
  IN XorWord(XorWord(b, w), << rcon, 0, 0, 0 >>)

GenericKeySchedule256(x, w, rcon, sel, filled) ==
  LET s == GenericLineKey(SubSeq(x, 13, 16), SubSeq(w, 1, 4), rcon, sel, filled)
      a == XorWord(s, SubSeq(w, 5, 8))
      b == XorWord(a, SubSeq(w, 9, 12))
      c == XorWord(b, SubSeq(w, 13, 16))
  IN s \o a \o b \o c

ZeroBlock == AesBlock(0, 0)

\* The registers after a run with configuration c: key words, state, the last
\* result when it is not disabled, and the value to add, which has no input.
FullAES(u, c) ==
  LET schedule == GenericKeySchedule256(u.key[c.selectedOutput1 + 1], u.key[c.selectedOutput0 + 1],
                                        c.rcon, c.sel, u.scheduleFilled)
      lastAdd == AddRoundKeyUnit(
                   FullAESRounds(c.merge, u.state, u.key[c.selectedOutput0 + 1],
                                 u.lastResult, u.rowsFilled),
                   u.lastValToAdd)
  IN [ u EXCEPT !.key = IF c.keyDisabled THEN @ ELSE [ @ EXCEPT ![c.selectedInput + 1] = schedule ],
                !.state = lastAdd,
                !.lastResult = IF c.resultDisabled THEN @ ELSE lastAdd,
                !.lastValToAdd = ZeroBlock ]

-------------------------------------------------------------------------------
(* The calls that the modes consist of.                                     *)

Fn(name) == [ fn |-> name ]

EncryptCall(from, to, add, isCBC) ==
  [ fn |-> "Encrypt", from |-> from, to |-> to, lastAddition |-> add, isCBC |-> isCBC ]

DecryptCall(from, to) == [ fn |-> "Decrypt", from |-> from, to |-> to, lastAddition |-> "none" ]

ECB ==
  << Fn("InitAES"), Fn("ExpandKey"),
     EncryptCall("data1", "encrypted1", "none", FALSE),
     EncryptCall("data2", "encrypted2", "none", FALSE), Fn("InitInvAES"),
     DecryptCall("encrypted1", "decrypted1"), DecryptCall("encrypted2", "decrypted2") >>

LoadIVCall(from) == [ fn |-> "LoadIV", from |-> from ]

CBC ==
  << Fn("InitAES"), Fn("ExpandKey"), LoadIVCall("iv"),
     EncryptCall("data1", "encrypted1", "none", TRUE),
     EncryptCall("data2", "encrypted2", "none", TRUE), Fn("InitInvAES"),
     LoadIVCall("iv"), DecryptCall("encrypted1", "decrypted1"),
     LoadIVCall("encrypted1"), DecryptCall("encrypted2", "decrypted2") >>

CTR ==
  << Fn("InitAES"), Fn("CopyCounter"), Fn("ExpandKey"),
     EncryptCall("counterBuffer", "encrypted1", "data1", FALSE), Fn("NextCounter"),
     EncryptCall("counterBuffer", "encrypted2", "data2", FALSE), Fn("CopyCounter"),
     EncryptCall("counterBuffer", "decrypted1", "encrypted1", FALSE), Fn("NextCounter"),
     EncryptCall("counterBuffer", "decrypted2", "encrypted2", FALSE) >>

\* What the firmware calls without a mode: AES_ECB256, for one test vector.
AES_ECB256 == << Fn("ExpandKey"), EncryptCall("data1", "encrypted1", "none", FALSE) >>

CallsOf(type) ==
  CASE type.mode = "ECB" -> ECB
    [] type.mode = "CBC" -> CBC
    [] type.mode = "CTR" -> CTR
    [] type.mode = "vector" -> AES_ECB256
    [] OTHER -> << Fn(type.mode) >>

\* The configurations of the runs of a call, each what is changed for the run.
RunsOf(c, is256) ==
  LET numberRounds == IF is256 THEN 14 ELSE 10
      set(merge, k) == [ merge |-> merge, selectedOutput0 |-> k ]
      middle(merge, K(_)) ==
        SubSeq([ i \in 1 .. 13 |-> set(merge, K(i)) ], 1, numberRounds - 1)
      up(i) == i
      down(i) == numberRounds - i
      rcon(i) == Rcon[i + 2]
  IN CASE c.fn = "Encrypt" ->
            << set("AESFirstAdd", 0) >> \o middle("AESRound", up)
              \o << IF c.isCBC THEN set("AESLastRound", numberRounds) @@ [ resultDisabled |-> FALSE ]
                    ELSE set("AESLastRound", numberRounds) >>
       [] c.fn = "Decrypt" ->
            << set("AESInvFirstAdd", numberRounds) >> \o middle("AESInvRound", down)
              \o << set("AESInvLastRound", 0) >>
       [] c.fn = "ExpandKey" /\ is256 ->
            SubSeq([ n \in 1 .. 13 |->
              LET i == n - 1
              IN [ rcon |-> IF i % 2 = 1 THEN 0 ELSE rcon(i \div 2), selectedOutput0 |-> i,
                   selectedOutput1 |-> i + 1, selectedInput |-> i + 2, sel |-> (i + 1) % 2 ] ], 1, 13)
       [] c.fn = "ExpandKey" /\ ~is256 ->
            SubSeq([ n \in 1 .. 10 |->
              LET i == n - 1
              IN [ rcon |-> rcon(i), selectedOutput0 |-> i, selectedOutput1 |-> i,
                   selectedInput |-> i + 1, sel |-> 1 ] ], 1, 10)

-------------------------------------------------------------------------------
(* The firmware and the accelerator.                                        *)

Idle == [ merge |-> "none" ]

NoCall == [ fn |-> "none" ]

KeyBlock(n, i) == AesBlock((17 * n) + (91 * i), 29 + n)

FreshMemory(type) ==
  [ type |-> type, keys |-> << KeyBlock(type.key, 0), KeyBlock(type.key, 1) >>,
    data1 |-> AesBlock(107, 86), data2 |-> AesBlock(type.key, 59),
    iv |-> AesBlock(0, 1), counter |-> [ AesBlock(240, 1) EXCEPT ![16] = 255 ],
    counterBuffer |-> << >>, encrypted1 |-> << >>, encrypted2 |-> << >>,
    decrypted1 |-> << >>, decrypted2 |-> << >> ]

VersatAesInit ==
  /\ config = [ merge |-> "AESFirstAdd", selectedOutput0 |-> 0, selectedOutput1 |-> 0,
                selectedInput |-> 0, rcon |-> 0, sel |-> 0,
                keyDisabled |-> FALSE, resultDisabled |-> FALSE ]
  /\ running = Idle
  /\ unit = [ key |-> SubSeq([ i \in 1 .. 16 |-> ZeroBlock ], 1, 16), state |-> ZeroBlock,
              lastResult |-> ZeroBlock, lastValToAdd |-> ZeroBlock,
              scheduleFilled |-> FALSE, rowsFilled |-> "none" ]
  /\ \E p \in Programs : left = [ types |-> p, calls |-> << >> ]
  /\ call = NoCall
  /\ memory = FreshMemory([ mode |-> "none", is256 |-> FALSE, key |-> 0 ])

\* DoOneRound: the buffers are filled, and the type's function called.
DoOneRound ==
  /\ call = NoCall /\ left.calls = << >> /\ left.types # << >>
  /\ left' = [ types |-> Tail(left.types), calls |-> CallsOf(Head(left.types)) ]
  /\ memory' = FreshMemory(Head(left.types))
  /\ UNCHANGED << config, running, unit, call >>

Calling(name) ==
  /\ call = NoCall /\ left.calls # << >> /\ Head(left.calls).fn = name
  /\ left' = [ left EXCEPT !.calls = Tail(@) ]
  /\ UNCHANGED running

InitVersatAES ==
  /\ Calling("InitVersatAES")
  /\ unit' = [ unit EXCEPT !.scheduleFilled = TRUE ]
  /\ UNCHANGED << config, call, memory >>

\* The products are filled and the two registers cleared.
Cleared(rows) ==
  /\ unit' = [ unit EXCEPT !.rowsFilled = rows, !.lastResult = ZeroBlock,
                           !.lastValToAdd = ZeroBlock ]
  /\ config' = [ config EXCEPT !.resultDisabled = TRUE ]
  /\ UNCHANGED << call, memory >>

InitAES == Calling("InitAES") /\ Cleared("rows")

InitInvAES == Calling("InitInvAES") /\ Cleared("inverse rows")

LoadIV ==
  /\ Calling("LoadIV")
  /\ unit' = [ unit EXCEPT !.lastResult = memory[Head(left.calls).from] ]
  /\ config' = [ config EXCEPT !.resultDisabled = TRUE ]
  /\ UNCHANGED << call, memory >>

CopyCounter ==
  /\ Calling("CopyCounter")
  /\ memory' = [ memory EXCEPT !.counterBuffer = memory.counter ]
  /\ UNCHANGED << config, unit, call >>

\* One is added to the counter's last word, read with its bytes swapped.
NextCounter ==
  /\ Calling("NextCounter")
  /\ LET b == memory.counterBuffer
         word == store_bigendian_32(Plus(load_bigendian_32(SubSeq(b, 13, 16)), {0}))
     IN memory' = [ memory EXCEPT !.counterBuffer = SubSeq(b, 1, 12) \o word ]
  /\ UNCHANGED << config, unit, call >>

Calls(c) == call' = c @@ [ at |-> "configure", runs |-> RunsOf(c, memory.type.is256) ]

ExpandKey ==
  /\ Calling("ExpandKey")
  /\ Calls(Head(left.calls))
  /\ unit' = [ unit EXCEPT !.key[1] = memory.keys[1],
                           !.key[2] = IF memory.type.is256 THEN memory.keys[2] ELSE @ ]
  /\ config' = [ config EXCEPT !.keyDisabled = FALSE ]
  /\ UNCHANGED memory

\* Encrypt and Decrypt: the block is written to the state.
StartBlock ==
  /\ \E name \in { "Encrypt", "Decrypt" } : Calling(name)
  /\ Calls(Head(left.calls))
  /\ unit' = [ unit EXCEPT !.state = memory[Head(left.calls).from] ]
  /\ UNCHANGED << config, memory >>

\* The next run is configured, whether or not the one before has ended.
Configure ==
  /\ call # NoCall /\ call.at = "configure"
  /\ config' = Head(call.runs) @@ config
  /\ call' = [ call EXCEPT !.at = "start" ]
  /\ UNCHANGED << running, unit, left, memory >>

\* EndAccelerator waits for the run before; the value to add is written ahead
\* of the last run alone; StartAccelerator copies the configuration.
StartAccelerator ==
  /\ call # NoCall /\ call.at = "start" /\ running = Idle
  /\ LET last == Len(call.runs) = 1
     IN /\ unit' = IF last /\ call.fn # "ExpandKey" /\ call.lastAddition # "none"
                     THEN [ unit EXCEPT !.lastValToAdd = memory[call.lastAddition] ] ELSE unit
        /\ call' = [ call EXCEPT !.runs = Tail(@), !.at = IF last THEN "end" ELSE "configure" ]
  /\ running' = config
  /\ config' = IF Len(call.runs) = 1 /\ call.fn = "Encrypt"
                 THEN [ config EXCEPT !.resultDisabled = TRUE ] ELSE config
  /\ UNCHANGED << left, memory >>

\* (Mutant: the registers of the key stay enabled.)
EndCallEnabled ==
  /\ call # NoCall /\ call.at = "end" /\ running = Idle
  /\ memory' = IF call.fn = "ExpandKey" THEN memory ELSE [ memory EXCEPT ![call.to] = unit.state ]
  /\ call' = NoCall
  /\ UNCHANGED << config, running, unit, left >>

\* The last EndAccelerator, and what follows it.
EndCall ==
  /\ call # NoCall /\ call.at = "end" /\ running = Idle
  /\ config' = IF call.fn = "ExpandKey" THEN [ config EXCEPT !.keyDisabled = TRUE ] ELSE config
  /\ memory' = IF call.fn = "ExpandKey" THEN memory ELSE [ memory EXCEPT ![call.to] = unit.state ]
  /\ call' = NoCall
  /\ UNCHANGED << running, unit, left >>

RunEnds ==
  /\ running # Idle
  /\ unit' = FullAES(unit, running)
  /\ running' = Idle
  /\ UNCHANGED << config, left, call, memory >>

VersatAesNext ==
  \/ DoOneRound \/ InitVersatAES \/ InitAES \/ InitInvAES \/ LoadIV
  \/ CopyCounter \/ NextCounter \/ ExpandKey \/ StartBlock
  \/ Configure \/ StartAccelerator \/ EndCall
  \/ RunEnds

-------------------------------------------------------------------------------
\* Whenever the runs end, and whatever types were done before with the same
\* registers, each block that Encrypt returned is the one the standard's mode
\* defines, and each that Decrypt returned is the block that was encrypted (the
\* CTR mode's second pass decrypts by encrypting the counters again).
VersatAesAgrees ==
  LET mode == memory.type.mode
      WordsOf(b) == << SubSeq(b, 1, 4), SubSeq(b, 5, 8), SubSeq(b, 9, 12), SubSeq(b, 13, 16) >>
      w == KeySchedule(WordsOf(memory.keys[1])
                        \o IF memory.type.is256 THEN WordsOf(memory.keys[2]) ELSE << >>)
      Expected(n, data, before) ==
        CASE mode \in { "ECB", "vector" } -> Encrypted(w, data)
          [] mode = "CBC" -> Encrypted(w, XorBlock(data, before))
          [] mode = "CTR" -> XorBlock(data, Encrypted(w, CounterPlus(memory.counter, n)))
  IN /\ memory.encrypted1 # << >> =>
          memory.encrypted1 = Expected(0, memory.data1, memory.iv)
     /\ memory.encrypted2 # << >> =>
          memory.encrypted2 = Expected(1, memory.data2, memory.encrypted1)
     /\ memory.decrypted1 # << >> => memory.decrypted1 = memory.data1
     /\ memory.decrypted2 # << >> => memory.decrypted2 = memory.data2
===============================================================================
