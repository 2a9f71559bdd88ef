----------------------------- MODULE BootProofs -----------------------------
(* The boot, proved for every layout of flash and memory, every list of     *)
(* files the parser can read and that fits, and any number of boots and     *)
(* power cuts: the CPU restarts where the last store to the boot register   *)
(* says, the list is read as it was written, and the program finds every    *)
(* file that the console sent or the flash kept.                            *)
EXTENDS Boot, SequenceTheorems, NaturalsInduction, WellFoundedInduction, TLAPS

Places == {"connect", "get", "erasesizes", "storesizes", "erase", "program",
           "readsizes", "read", "restart"}

(* The register chooses the boot firmware until that firmware has ended.    *)
Chosen == boot_nxt <=> ~ended

(* After the first clock of its reset pulse, the controller has taken over  *)
(* what was chosen.                                                         *)
TakenOver ==
  pc = "reset" => /\ pulse \in 1 .. Duration
                  /\ pulse < Duration => (boot <=> boot_nxt)

InItsPlace ==
  /\ pc \in Places \cup {"off", "reset", "running"}
  /\ pc \in Places => ~ended
  /\ pc = "running" => ended

IInv == Chosen /\ TakenOver /\ InItsPlace
-----------------------------------------------------------------------------
LEMMA InitInv == Init => IInv
  BY DEF Init, IInv, Chosen, TakenOver, InItsPlace, Places

(* What main does leaves the controller alone, and stays in main.           *)
LEMMA InMain ==
  ASSUME IInv, UNCHANGED <<boot_nxt, boot, pulse, ended>>,
         pc \in Places, pc' \in Places
  PROVE  IInv'
  BY DEF IInv, Chosen, TakenOver, InItsPlace, Places

LEMMA ConsoleStep ==
  ASSUME IInv, ReceiveList \/ console_get_files
  PROVE  IInv'
<1>1. UNCHANGED <<boot_nxt, boot, pulse, ended>>
  BY DEF ReceiveList, console_get_files, hardware
<1>2. pc \in Places /\ pc' \in Places
  BY DEF ReceiveList, console_get_files, NextFile, Places
<1>3. QED
  BY <1>1, <1>2, InMain

LEMMA ProgramStep ==
  ASSUME IInv, EraseSizes \/ StoreSizes \/ EraseFile \/ ProgramFile
  PROVE  IInv'
<1>1. UNCHANGED <<boot_nxt, boot, pulse, ended>>
  BY DEF EraseSizes, StoreSizes, EraseFile, ProgramFile, hardware
<1>2. pc \in Places /\ pc' \in Places
  BY DEF EraseSizes, StoreSizes, EraseFile, ProgramFile, Places
<1>3. QED
  BY <1>1, <1>2, InMain

LEMMA ReadStep ==
  ASSUME IInv, read_flash_sizes \/ read_flash
  PROVE  IInv'
<1>1. UNCHANGED <<boot_nxt, boot, pulse, ended>>
  BY DEF read_flash_sizes, read_flash, hardware
<1>2. pc \in Places /\ pc' \in Places
  BY DEF read_flash_sizes, read_flash, NextFile, Places
<1>3. QED
  BY <1>1, <1>2, InMain

LEMMA TickStep ==
  ASSUME IInv, Tick
  PROVE  IInv'
<1>1. /\ pc = "reset" /\ pulse \in 1 .. 3 /\ pulse' = pulse - 1
      /\ boot' = boot_nxt /\ UNCHANGED <<boot_nxt, ended>>
      /\ pc' = IF pulse > 1 THEN "reset" ELSE IF boot THEN "connect" ELSE "running"
  BY DEF Tick, IInv, TakenOver, Duration
<1>2. CASE pulse > 1
  BY <1>1, <1>2 DEF IInv, Chosen, TakenOver, InItsPlace, Places, Duration
<1>3. CASE ~(pulse > 1)
  <2>1. boot <=> boot_nxt
    BY <1>1, <1>3 DEF IInv, TakenOver, Duration
  <2>2. pc' = IF boot THEN "connect" ELSE "running"
    BY <1>1, <1>3
  <2>3. QED
    BY <1>1, <2>1, <2>2 DEF IInv, Chosen, TakenOver, InItsPlace, Places
<1>4. QED
  BY <1>2, <1>3

LEMMA ResetStep ==
  ASSUME IInv, PowerOn \/ Restart \/ Reboot
  PROVE  IInv'
<1>1. /\ pc' = "reset" /\ pulse' = Duration /\ 3 \in 1 .. Duration
      /\ boot_nxt' <=> ~ended'
  BY DEF PowerOn, Restart, Reboot, RestartCPU, Duration
<1>2. QED
  BY <1>1 DEF IInv, Chosen, TakenOver, InItsPlace, Places, Duration

LEMMA PowerCutStep ==
  ASSUME IInv, PowerCut
  PROVE  IInv'
<1>1. pc' = "off" /\ UNCHANGED <<boot_nxt, ended>>
  BY DEF PowerCut, hardware
<1>2. QED
  BY <1>1 DEF IInv, Chosen, TakenOver, InItsPlace, Places

LEMMA NextInv == IInv /\ [Next]_vars => IInv'
<1> SUFFICES ASSUME IInv, [Next]_vars PROVE IInv'
  OBVIOUS
<1>1. CASE Next
  BY <1>1, ConsoleStep, ProgramStep, ReadStep, TickStep, ResetStep, PowerCutStep DEF Next
<1>2. CASE UNCHANGED vars
  BY <1>2 DEF IInv, Chosen, TakenOver, InItsPlace, vars, hardware
<1>3. QED
  BY <1>1, <1>2

LEMMA Invariance == Spec => []IInv
  BY InitInv, NextInv, PTL DEF Spec

(* The program starts only after the boot firmware ended, and the boot      *)
(* firmware only at power on or after the program asked for it: when the    *)
(* reset is over, boot has the value that was stored (boot_ctr.v 37-74).    *)
THEOREM RightFirmware == Spec => []StartsRight
<1>1. IInv => StartsRight
  BY DEF IInv, InItsPlace, Places, StartsRight
<1>2. QED
  BY <1>1, Invariance, PTL
-----------------------------------------------------------------------------
(* Induction over the natural numbers, as a statement about a set; and      *)
(* functions that are defined from one number to the next.                  *)
LEMMA AllNumbers ==
  ASSUME NEW T, T \subseteq Nat, 0 \in T, \A n \in T : n + 1 \in T
  PROVE  T = Nat
<1> DEFINE R == {ss \in Nat \X Nat : ss[1] < ss[2]}
<1>1. IsWellFoundedOn(R, Nat)
  BY NatLessThanWellFounded DEF OpToRel
<1>2. \A x, y \in Nat : <<y, x>> \notin R => x <= y
  OBVIOUS
<1> HIDE DEF R
<1>3. ASSUME Nat \ T # {} PROVE FALSE
  <2>1. PICK x \in Nat \ T : \A y \in Nat \ T : <<y, x>> \notin R
    BY <1>1, <1>3, WFMin
  <2>2. x # 0 /\ x - 1 \in Nat /\ ~(x <= x - 1)
    BY <2>1
  <2>3. x - 1 \in T
    BY <1>2, <2>1, <2>2
  <2>4. QED
    BY <2>1, <2>2, <2>3
<1>4. QED
  BY <1>3

LEMMA UpTo ==
  ASSUME NEW N \in Nat, NEW T, T \subseteq 0 .. N, 0 \in T,
         \A n \in T : n < N => n + 1 \in T
  PROVE  T = 0 .. N
<1> DEFINE U == {n \in Nat : n <= N => n \in T}
<1>1. 0 \in U /\ U \subseteq Nat
  OBVIOUS
<1>2. \A n \in U : n + 1 \in U
  OBVIOUS
<1>3. U = Nat
  <2> HIDE DEF U
  <2>1. QED
    BY <1>1, <1>2, AllNumbers
<1>4. ASSUME NEW n \in 0 .. N PROVE n \in T
  <2>1. n \in U /\ n <= N
    BY <1>3
  <2>2. QED
    BY <2>1
<1>5. QED
  <2> HIDE DEF U
  <2>1. QED
    BY <1>4

Steps(N, S, step) == \A x \in S : \A k \in 1 .. N : step[x][k] \in S

Iterates(n, S, base, step, g) ==
  /\ g \in [0 .. n -> S]
  /\ g[0] = base
  /\ \A k \in 1 .. n : g[k] = step[g[k - 1]][k]

LEMMA Iteration ==
  ASSUME NEW N \in Nat, NEW S, NEW base \in S, NEW step, Steps(N, S, step)
  PROVE  \E g : Iterates(N, S, base, step, g)
<1> DEFINE Begun(n, g) == Iterates(n, S, base, step, g)
           T == {n \in 0 .. N : \E g : Begun(n, g)}
<1>1. 0 \in T
  <2> DEFINE first == [k \in 0 .. 0 |-> base]
  <2>1. first[0] = base /\ first \in [0 .. 0 -> S] /\ 1 .. 0 = {}
    OBVIOUS
  <2>2. Begun(0, first)
    <3> HIDE DEF first
    <3>1. QED
      BY <2>1 DEF Iterates
  <2>3. QED
    <3> HIDE DEF Begun
    <3>1. QED
      BY <2>2
<1>2. ASSUME NEW n \in T, n < N PROVE n + 1 \in T
  <2>1. PICK g : Begun(n, g)
    OBVIOUS
  <2> DEFINE next == step[g[n]][n + 1]
             more == [k \in 0 .. n + 1 |-> IF k = n + 1 THEN next ELSE g[k]]
  <2>2. n \in Nat /\ n + 1 \in 1 .. N
    BY <1>2
  <2>3. next \in S
    <3>1. g[n] \in S
      BY <2>1, <2>2 DEF Iterates
    <3>2. QED
      BY <2>2, <3>1 DEF Steps
  <2>4. more \in [0 .. n + 1 -> S]
    <3> HIDE DEF next
    <3>1. \A k \in 0 .. n + 1 : k # n + 1 => k \in 0 .. n
      BY <2>2
    <3>2. QED
      BY <2>1, <2>3, <3>1 DEF Iterates
  <2>5. more[0] = base
    BY <2>1, <2>2 DEF Iterates
  <2>6. ASSUME NEW k \in 1 .. n + 1 PROVE more[k] = step[more[k - 1]][k]
    <3>1. k - 1 \in 0 .. n + 1 /\ k - 1 # n + 1 /\ k \in 0 .. n + 1
      BY <2>2
    <3>2. more[k - 1] = g[k - 1]
      BY <3>1
    <3>3. CASE k = n + 1
      <4>1. more[k] = next /\ k - 1 = n
        BY <2>2, <3>1, <3>3
      <4>2. QED
        BY <3>2, <3>3, <4>1
    <3>4. CASE k # n + 1
      <4>1. k \in 1 .. n
        BY <2>2, <3>4
      <4>2. g[k] = step[g[k - 1]][k]
        BY <2>1, <4>1 DEF Iterates
      <4>3. more[k] = g[k]
        BY <3>1, <3>4
      <4>4. QED
        BY <3>2, <4>2, <4>3
    <3>5. QED
      BY <3>3, <3>4
  <2>7. Begun(n + 1, more)
    <3> HIDE DEF more
    <3>1. QED
      BY <2>4, <2>5, <2>6 DEF Iterates
  <2>8. QED
    <3> HIDE DEF Begun
    <3>1. n + 1 \in 0 .. N
      BY <2>2
    <3>2. QED
      BY <2>7, <3>1
<1>3. T = 0 .. N
  <2>1. T \subseteq 0 .. N
    OBVIOUS
  <2> HIDE DEF T
  <2>2. QED
    BY <1>1, <1>2, <2>1, UpTo
<1>4. QED
  BY <1>3

LEMMA Agree ==
  ASSUME NEW N \in Nat, NEW g, NEW h, g[0] = h[0],
         \A k \in 1 .. N : g[k - 1] = h[k - 1] => g[k] = h[k]
  PROVE  \A k \in 0 .. N : g[k] = h[k]
<1> DEFINE T == {k \in 0 .. N : g[k] = h[k]}
<1>1. 0 \in T /\ T \subseteq 0 .. N
  OBVIOUS
<1>2. ASSUME NEW k \in T, k < N PROVE k + 1 \in T
  <2>1. k + 1 \in 1 .. N /\ (k + 1) - 1 = k /\ k + 1 \in 0 .. N
    BY <1>2
  <2>2. QED
    BY <2>1
<1>3. T = 0 .. N
  <2> HIDE DEF T
  <2>1. QED
    BY <1>1, <1>2, UpTo
<1>4. QED
  BY <1>3
-----------------------------------------------------------------------------
(* Quotients and products.                                                  *)
LEMMA Quotients ==
  ASSUME NEW s \in Nat \ {0}, NEW n \in Nat
  PROVE  /\ n \div s \in Nat /\ n % s \in 0 .. s - 1
         /\ n = s * (n \div s) + (n % s)
  OBVIOUS

LEMMA Remainders ==
  ASSUME NEW s \in Nat \ {0}, NEW n \in Nat
  PROVE  \E r \in 0 .. s - 1 : r = n % s /\ \E q \in Nat : n = s * q + r
<1>1. n \div s \in Nat /\ n % s \in 0 .. s - 1 /\ n = s * (n \div s) + (n % s)
  OBVIOUS
<1>2. QED
  BY <1>1, Zenon

LEMMA Multiples ==
  ASSUME NEW s \in Nat \ {0}, NEW n \in Nat, n % s = 0
  PROVE  \E q \in Nat : n = s * q
<1>1. n \div s \in Nat /\ n = s * (n \div s)
  OBVIOUS
<1>2. QED
  BY <1>1, Zenon

LEMMA Products ==
  ASSUME NEW s \in Nat, NEW j \in Nat, NEW k \in Nat, j <= k
  PROVE  s * j \in Nat /\ s * j <= s * k
<1>1. PICK d \in Nat : k = j + d
  <2>1. k - j \in Nat /\ k = j + (k - j)
    OBVIOUS
  <2>2. QED
    BY <2>1
<1>2. s * k = s * j + s * d /\ s * d \in Nat /\ s * j \in Nat
  BY <1>1
<1>3. PICK x \in Nat, y \in Nat, z \in Nat : x = s * j /\ y = s * d /\ z = s * k /\ z = x + y
  BY <1>1, <1>2
<1>4. QED
  BY <1>3
-----------------------------------------------------------------------------
(* The parser, character by character.                                      *)
Char == STRING \cup {" ", "\n"}

FileEntry == [name : Seq(Char), address : Nat]

ParserState ==
  {p \in [state : {0, 1}, name : Seq(Char), hex : 0 .. 15, files : Seq(FileEntry)] :
     p.state = 1 => p.files # <<>>}

LEMMA CharacterType ==
  ASSUME NEW p \in ParserState, NEW c \in Char
  PROVE  Character(p, c) \in ParserState
<1>1. CASE p.state = 0 /\ c = " "
  <2>1. Append(p.files, [name |-> p.name, address |-> 0]) \in Seq(FileEntry)
        /\ Append(p.files, [name |-> p.name, address |-> 0]) # <<>>
    <3>1. [name |-> p.name, address |-> 0] \in FileEntry /\ p.files \in Seq(FileEntry)
      BY DEF ParserState, FileEntry
    <3>2. QED
      BY <3>1
  <2>2. <<>> \in Seq(Char)
    OBVIOUS
  <2>3. Character(p, c) = [p EXCEPT !.state = 1, !.name = <<>>,
                 !.files = Append(p.files, [name |-> p.name, address |-> 0])]
    BY <1>1 DEF Character, InName
  <2>4. QED
    BY <2>1, <2>2, <2>3 DEF ParserState
<1>2. CASE p.state = 0 /\ c # " "
  <2>1. Append(p.name, c) \in Seq(Char)
    BY DEF ParserState
  <2>2. Character(p, c) = [p EXCEPT !.name = Append(p.name, c)]
    BY <1>2 DEF Character, InName
  <2>3. QED
    BY <1>2, <2>1, <2>2 DEF ParserState
<1>3. CASE p.state # 0 /\ c = "\n"
  BY <1>3 DEF Character, InAddress, ParserState
<1>4. CASE p.state # 0 /\ c # "\n"
  <2> DEFINE hex == IF ValuesOf(c) = {} THEN p.hex ELSE Digit(c)
             n == Len(p.files)
             address == WithDigit(p.files[n].address, hex)
             more == [p.files EXCEPT ![n].address = address]
  <2>1. hex \in 0 .. 15
    BY DEF Digit, ValuesOf, ParserState
  <2>2. p.files \in Seq(FileEntry) /\ n \in 1 .. n /\ p.files # <<>>
    BY <1>4 DEF ParserState
  <2>3. p.files[n] \in FileEntry
    BY <2>2
  <2>4. address \in Nat
    <3>1. p.files[n].address \in Nat
      BY <2>3 DEF FileEntry
    <3> HIDE DEF hex, n
    <3>2. QED
      BY <2>1, <3>1 DEF WithDigit
  <2>5. [p.files[n] EXCEPT !.address = address] \in FileEntry
    <3> HIDE DEF address
    <3>1. QED
      BY <2>3, <2>4 DEF FileEntry
  <2>6. more = [p.files EXCEPT ![n] = [p.files[n] EXCEPT !.address = address]]
    OBVIOUS
  <2>7. more \in Seq(FileEntry) /\ Len(more) = n
    <3> HIDE DEF more, address
    <3>1. QED
      BY <2>2, <2>5, <2>6, ExceptSeq
  <2>8. Character(p, c) = [p EXCEPT !.hex = hex, !.files = more]
    BY <1>4 DEF Character, InAddress
  <2>9. more # <<>>
    <3>1. n # 0 /\ Len(<<>>) = 0
      BY <2>2
    <3> HIDE DEF more, n
    <3>2. QED
      BY <2>7, <3>1
  <2>10. QED
    <3> HIDE DEF more, hex, n
    <3>1. QED
      BY <2>1, <2>7, <2>8, <2>9 DEF ParserState
<1>5. QED
  BY <1>1, <1>2, <1>3, <1>4

IsParse(text, f) ==
  f = [n \in 0 .. Len(text) |->
         IF n = 0 THEN NothingRead ELSE Character(f[n - 1], text[n])]

LEMMA ParsedIsParse == \A text : Parsed(text) = CHOOSE f : IsParse(text, f)
  BY DEF Parsed, IsParse

(* The equations of the parser.                                             *)
LEMMA ParsedIs ==
  ASSUME NEW text \in Seq(Char)
  PROVE  /\ Parsed(text)[0] = NothingRead
         /\ \A n \in 1 .. Len(text) : Parsed(text)[n] = Character(Parsed(text)[n - 1], text[n])
         /\ \A n \in 0 .. Len(text) : Parsed(text)[n] \in ParserState
<1> DEFINE N == Len(text)
           step == [p \in ParserState |-> [n \in 1 .. N |-> Character(p, text[n])]]
           t == Parsed(text)
<1>1. N \in Nat /\ \A n \in 1 .. N : text[n] \in Char
  OBVIOUS
<1>2. NothingRead \in ParserState
  BY DEF NothingRead, ParserState
<1>3. Steps(N, ParserState, step)
  BY <1>1, CharacterType DEF Steps
<1>4. PICK g : Iterates(N, ParserState, NothingRead, step, g)
  <2> HIDE DEF step, N
  <2>1. QED
    BY <1>1, <1>2, <1>3, Iteration
<1>5. /\ g \in [0 .. N -> ParserState] /\ g[0] = NothingRead
      /\ \A k \in 1 .. N : g[k] = Character(g[k - 1], text[k])
  <2>1. /\ g \in [0 .. N -> ParserState] /\ g[0] = NothingRead
        /\ \A k \in 1 .. N : g[k] = step[g[k - 1]][k]
    <3> HIDE DEF step, N
    <3>1. QED
      BY <1>4 DEF Iterates
  <2>2. \A k \in 1 .. N : k - 1 \in 0 .. N
    BY <1>1
  <2>3. QED
    BY <2>1, <2>2
<1>6. IsParse(text, g)
  <2>1. \A k \in 0 .. N : k # 0 => k \in 1 .. N
    BY <1>1
  <2>2. g = [n \in 0 .. N |-> g[n]]
    BY <1>5
  <2>3. \A n \in 0 .. N :
          g[n] = IF n = 0 THEN NothingRead ELSE Character(g[n - 1], text[n])
    BY <1>5, <2>1
  <2>4. QED
    BY <2>2, <2>3 DEF IsParse
<1>7. IsParse(text, t)
  BY <1>6, ParsedIsParse
<1> HIDE DEF t
<1>8. t[0] = NothingRead /\ \A n \in 1 .. N : t[n] = Character(t[n - 1], text[n])
  <2>1. 0 \in 0 .. N /\ \A n \in 1 .. N : n \in 0 .. N /\ n # 0
    BY <1>1
  <2>2. QED
    BY <1>7, <2>1 DEF IsParse
<1>9. \A n \in 0 .. N : t[n] = g[n]
  <2>1. \A k \in 1 .. N : t[k - 1] = g[k - 1] => t[k] = g[k]
    BY <1>5, <1>8
  <2>2. t[0] = g[0]
    BY <1>5, <1>8
  <2> HIDE DEF N
  <2>3. QED
    BY <1>1, <2>1, <2>2, Agree, ZenonT(60)
<1>10. QED
  BY <1>5, <1>8, <1>9 DEF t

(* What is read does not depend on what follows.                            *)
LEMMA ParsedPrefix ==
  ASSUME NEW text \in Seq(Char), NEW more \in Seq(Char)
  PROVE  \A n \in 0 .. Len(text) : Parsed(text \o more)[n] = Parsed(text)[n]
<1> DEFINE h == Parsed(text \o more)
           g == Parsed(text)
<1>1. Len(text) \in Nat /\ Len(more) \in Nat
  OBVIOUS
<1>2. text \o more \in Seq(Char) /\ Len(text \o more) = Len(text) + Len(more)
      /\ \A n \in 1 .. Len(text) : (text \o more)[n] = text[n]
  BY <1>1, ConcatProperties
<1>3. h[0] = NothingRead /\ \A n \in 1 .. Len(text) : h[n] = Character(h[n - 1], text[n])
  <2> DEFINE both == text \o more
  <2>1. /\ Parsed(both)[0] = NothingRead
        /\ \A n \in 1 .. Len(both) : Parsed(both)[n] = Character(Parsed(both)[n - 1], both[n])
    <3> HIDE DEF both
    <3>1. both \in Seq(Char)
      BY <1>2 DEF both
    <3>2. QED
      BY <3>1, ParsedIs
  <2>2. \A n \in 1 .. Len(text) : n \in 1 .. Len(both) /\ both[n] = text[n]
    BY <1>2, <1>1
  <2> HIDE DEF both
  <2>3. QED
    BY <2>1, <2>2 DEF both
<1>4. g[0] = NothingRead /\ \A n \in 1 .. Len(text) : g[n] = Character(g[n - 1], text[n])
  BY ParsedIs
<1>5. \A n \in 0 .. Len(text) : h[n] = g[n]
  <2> HIDE DEF g, h
  <2>1. h[0] = g[0] /\ \A n \in 1 .. Len(text) : h[n - 1] = g[n - 1] => h[n] = g[n]
    BY <1>3, <1>4
  <2>2. PICK N \in Nat : N = Len(text)
    BY <1>1
  <2>3. \A k \in 1 .. N : h[k - 1] = g[k - 1] => h[k] = g[k]
    BY <2>1, <2>2
  <2>4. \A k \in 0 .. N : h[k] = g[k]
    BY <2>1, <2>3, Agree, ZenonT(60)
  <2>5. QED
    BY <2>2, <2>4
<1>6. QED
  BY <1>5
-----------------------------------------------------------------------------
(* Numbers in base 16.                                                      *)
IsSum(digits, sum) ==
  sum = [k \in 0 .. Len(digits) |->
           IF k = 0 THEN 0 ELSE sum[k - 1] + Digit(digits[k]) * 16 ^ (Len(digits) - k)]

Sums(digits) == CHOOSE sum : IsSum(digits, sum)

LEMMA NumberIsSum == \A digits : Number(digits) = Sums(digits)[Len(digits)]
  BY DEF Number, Sums, IsSum

LEMMA Sixteens ==
  \A n \in 0 .. 7 : 16 ^ n \in Nat \ {0} /\ 16 ^ (n + 1) \in Nat /\ 16 ^ (n + 1) = 16 * 16 ^ n
<1> DEFINE P(k) == 16 ^ k
<1>1. /\ P(0) = 1 /\ P(1) = 16 /\ P(2) = 256 /\ P(3) = 4096 /\ P(4) = 65536
      /\ P(5) = 1048576 /\ P(6) = 16777216 /\ P(7) = 268435456 /\ P(8) = 4294967296
  OBVIOUS
<1> HIDE DEF P
<1>2. \A n \in 0 .. 7 : P(n) \in Nat \ {0} /\ P(n + 1) \in Nat /\ P(n + 1) = 16 * P(n)
  BY <1>1
<1>3. QED
  BY <1>2 DEF P

Readable(digits) ==
  /\ digits \in Seq(Char) /\ Len(digits) <= 8
  /\ \A n \in DOMAIN digits : ValuesOf(digits[n]) # {}

LEMMA DigitType ==
  ASSUME NEW c, ValuesOf(c) # {}
  PROVE  Digit(c) \in 0 .. 15 /\ c # "\n"
<1>1. Digit(c) \in ValuesOf(c)
  BY DEF Digit
<1>2. Digit(c) \in 0 .. 15
  BY <1>1 DEF ValuesOf
<1>3. \A n \in 0 .. 15 : Lower[n + 1] # "\n" /\ Upper[n + 1] # "\n"
  BY DEF Lower, Upper
<1>4. QED
  BY <1>2, <1>3 DEF ValuesOf

LEMMA SumsAre ==
  ASSUME NEW digits, Readable(digits)
  PROVE  /\ Sums(digits)[0] = 0
         /\ \A k \in 1 .. Len(digits) :
              Sums(digits)[k]
                = Sums(digits)[k - 1] + Digit(digits[k]) * 16 ^ (Len(digits) - k)
<1> DEFINE N == Len(digits)
           step == [x \in Nat |-> [k \in 1 .. N |-> x + Digit(digits[k]) * 16 ^ (N - k)]]
           t == Sums(digits)
<1>1. N \in 0 .. 8 /\ N \in Nat
  <2>1. digits \in Seq(Char) /\ N <= 8
    BY DEF Readable
  <2>2. N \in Nat
    BY <2>1
  <2> HIDE DEF N
  <2>3. QED
    BY <2>1, <2>2
<1>2. Steps(N, Nat, step)
  <2>1. ASSUME NEW k \in 1 .. N PROVE Digit(digits[k]) * 16 ^ (N - k) \in Nat
    <3>1. N - k \in 0 .. 7
      <4> HIDE DEF N
      <4>1. QED
        BY <1>1
    <3>2. 16 ^ (N - k) \in Nat
      BY <3>1, Sixteens
    <3>3. Digit(digits[k]) \in 0 .. 15
      BY DigitType DEF Readable
    <3>4. QED
      BY <3>2, <3>3, SMTT(30)
  <2>2. QED
    BY <2>1 DEF Steps
<1>3. PICK g : Iterates(N, Nat, 0, step, g)
  <2> HIDE DEF step, N
  <2>1. 0 \in Nat
    OBVIOUS
  <2>2. QED
    BY <1>1, <1>2, <2>1, Iteration
<1>4. /\ g \in [0 .. N -> Nat] /\ g[0] = 0
      /\ \A k \in 1 .. N : g[k] = g[k - 1] + Digit(digits[k]) * 16 ^ (N - k)
  <2>1. /\ g \in [0 .. N -> Nat] /\ g[0] = 0
        /\ \A k \in 1 .. N : g[k] = step[g[k - 1]][k]
    <3> HIDE DEF step, N
    <3>1. QED
      BY <1>3 DEF Iterates
  <2>2. \A k \in 1 .. N : k - 1 \in 0 .. N
    BY <1>1
  <2>3. QED
    BY <2>1, <2>2
<1>5. IsSum(digits, g)
  <2>1. \A k \in 0 .. N : k # 0 => k \in 1 .. N
    BY <1>1
  <2>2. g = [n \in 0 .. N |-> g[n]]
    BY <1>4
  <2>3. \A k \in 0 .. N :
          g[k] = IF k = 0 THEN 0 ELSE g[k - 1] + Digit(digits[k]) * 16 ^ (N - k)
    BY <1>4, <2>1
  <2>4. QED
    BY <2>2, <2>3 DEF IsSum
<1>6. IsSum(digits, t)
  BY <1>5 DEF Sums
<1> HIDE DEF t
<1>7. t[0] = 0 /\ \A k \in 1 .. N : t[k] = t[k - 1] + Digit(digits[k]) * 16 ^ (N - k)
  <2>1. 0 \in 0 .. N /\ \A k \in 1 .. N : k \in 0 .. N /\ k # 0
    BY <1>1
  <2>2. QED
    BY <1>6, <2>1 DEF IsSum
<1>8. QED
  BY <1>7 DEF t
-----------------------------------------------------------------------------
(* A line is read as its name and its number.                               *)
Entry(name, address) == [name |-> name, address |-> address]

IsAppended(G, F, name, address) == G = Append(F, Entry(name, address))

LEMMA LastOfAppend ==
  ASSUME NEW F \in Seq(FileEntry), NEW name \in Seq(Char), NEW a \in Nat, NEW b \in Nat,
         NEW G, IsAppended(G, F, name, a)
  PROVE  /\ G[Len(G)].address = a
         /\ IsAppended([G EXCEPT ![Len(G)].address = b], F, name, b)
<1> DEFINE e == [name |-> name, address |-> a]
           d == [name |-> name, address |-> b]
           H == Append(F, d)
<1>1. e \in FileEntry /\ d \in FileEntry /\ [e EXCEPT !.address = b] = d /\ e.address = a
  BY DEF FileEntry
<1>2. G = Append(F, e)
  BY DEF Entry, IsAppended
<1> HIDE DEF e, d
<1>3. /\ G \in Seq(FileEntry) /\ Len(G) = Len(F) + 1 /\ G[Len(F) + 1] = e
      /\ \A n \in 1 .. Len(F) : G[n] = F[n]
  BY <1>2, <1>1
<1>4. /\ H \in Seq(FileEntry) /\ Len(H) = Len(F) + 1 /\ H[Len(F) + 1] = d
      /\ \A n \in 1 .. Len(F) : H[n] = F[n]
  BY <1>1
<1>5. Len(F) \in Nat
  OBVIOUS
<1> HIDE DEF H
<1> DEFINE E == [G EXCEPT ![Len(G)] = d]
<1>6. Len(G) \in 1 .. Len(G)
  BY <1>3, <1>5
<1>7. /\ E \in Seq(FileEntry) /\ Len(E) = Len(G)
      /\ \A n \in 1 .. Len(G) : E[n] = IF n = Len(G) THEN d ELSE G[n]
  BY <1>1, <1>3, <1>6, ExceptSeq
<1>8. E = H
  <2> HIDE DEF E
  <2>1. \A n \in 1 .. Len(E) : E[n] = H[n]
    BY <1>3, <1>4, <1>5, <1>7
  <2>2. QED
    BY <1>3, <1>4, <1>7, <2>1, SeqEqual
<1>9. G[Len(G)] = e
  BY <1>3
<1>10. [G EXCEPT ![Len(G)].address = b] = E
  BY <1>1, <1>9
<1>11. QED
  BY <1>1, <1>8, <1>9, <1>10 DEF H, e, d, Entry, IsAppended

Joined(s, c, t) == s \o <<c>> \o t

IsJoined(s, c, t, u) ==
  /\ Len(u) = Len(s) + 1 + Len(t)
  /\ \A m \in 1 .. Len(s) : u[m] = s[m]
  /\ u[Len(s) + 1] = c
  /\ \A m \in 1 .. Len(t) : u[Len(s) + 1 + m] = t[m]

LEMMA Around ==
  ASSUME NEW S, NEW s \in Seq(S), NEW c \in S, NEW t \in Seq(S)
  PROVE  Joined(s, c, t) \in Seq(S) /\ IsJoined(s, c, t, Joined(s, c, t))
<1>1. PICK n \in Nat : n = Len(s)
  OBVIOUS
<1>2. PICK k \in Nat : k = Len(t)
  OBVIOUS
<1>3. <<c>> \in Seq(S) /\ Len(<<c>>) = 1 /\ <<c>>[1] = c
  OBVIOUS
<1>4. PICK f : f = s \o <<c>>
  OBVIOUS
<1>5. /\ f \in Seq(S) /\ Len(f) = n + 1
      /\ \A m \in 1 .. n + 1 : f[m] = IF m <= n THEN s[m] ELSE <<c>>[m - n]
  BY <1>1, <1>3, <1>4, ConcatProperties
<1>6. (\A m \in 1 .. n : f[m] = s[m]) /\ f[n + 1] = c
  BY <1>3, <1>5
<1>7. PICK u : u = f \o t /\ u = Joined(s, c, t)
  BY <1>4 DEF Joined
<1>8. /\ u \in Seq(S) /\ Len(u) = n + 1 + k
      /\ \A m \in 1 .. n + 1 + k : u[m] = IF m <= n + 1 THEN f[m] ELSE t[m - (n + 1)]
  <2>1. f \in Seq(S)
    BY <1>5
  <2>2. /\ u \in Seq(S) /\ Len(u) = Len(f) + Len(t)
        /\ \A m \in 1 .. Len(f) + Len(t) : u[m] = IF m <= Len(f) THEN f[m] ELSE t[m - Len(f)]
    BY <1>7, <2>1, ConcatProperties, ZenonT(60)
  <2>3. QED
    BY <1>2, <1>5, <2>2
<1>9. \A m \in 1 .. n : u[m] = s[m]
  BY <1>6, <1>8
<1>10. u[n + 1] = c
  BY <1>6, <1>8
<1>11. ASSUME NEW m \in 1 .. k PROVE u[n + 1 + m] = t[m]
  <2>1. PICK j \in 1 .. n + 1 + k : j = n + 1 + m /\ ~(j <= n + 1) /\ j - (n + 1) = m
    OBVIOUS
  <2>2. u[j] = t[j - (n + 1)]
    BY <1>8, <2>1
  <2>3. QED
    BY <2>1, <2>2
<1>12. QED
  <2>1. Len(u) = Len(s) + 1 + Len(t)
    BY <1>1, <1>2, <1>8
  <2>2. \A m \in 1 .. Len(s) : u[m] = s[m]
    BY <1>1, <1>9
  <2>3. u[Len(s) + 1] = c
    BY <1>1, <1>10
  <2>4. \A m \in 1 .. Len(t) : u[Len(s) + 1 + m] = t[m]
    BY <1>1, <1>2, <1>11
  <2>5. QED
    BY <1>7, <1>8, <2>1, <2>2, <2>3, <2>4 DEF IsJoined

IsLineOf(line, name, digits) == line = Line([name |-> name, digits |-> digits])

LEMMA LineChars ==
  ASSUME NEW name \in Seq(Char), NEW digits \in Seq(Char),
         NEW line, IsLineOf(line, name, digits)
  PROVE  line \in Seq(Char) /\ IsJoined(name, " ", digits, line)
<1>1. PICK blank \in Char : blank = " "
  BY DEF Char
<1>2. line = Joined(name, blank, digits)
  BY <1>1 DEF Line, Joined, IsLineOf
<1>3. line \in Seq(Char) /\ IsJoined(name, blank, digits, line)
  BY <1>2, Around
<1>4. QED
  BY <1>1, <1>3, Zenon
-----------------------------------------------------------------------------
(* The states that the first N characters of w lead through.                *)
Walk(g, N, w) ==
  /\ \A k \in 0 .. N : g[k] \in ParserState
  /\ \A k \in 1 .. N : w[k] \in Char /\ g[k] = Character(g[k - 1], w[k])

Inner(c) == c \in Char /\ c # " "

InNameAt(p, name, m, F) ==
  p.state = 0 /\ p.files = F /\ Len(p.name) = m /\ \A j \in 1 .. m : p.name[j] = name[j]

LEMMA InNameStep ==
  ASSUME NEW p \in ParserState, NEW name, NEW m \in Nat, NEW F, InNameAt(p, name, m, F),
         NEW c, Inner(c), name[m + 1] = c
  PROVE  InNameAt(Character(p, c), name, m + 1, F)
<1>0. c \in Char
  BY DEF Inner
<1>1. PICK s : s = p.name
  OBVIOUS
<1>2. s \in Seq(Char) /\ Len(s) = m /\ \A j \in 1 .. m : s[j] = name[j]
  BY <1>1 DEF InNameAt, ParserState
<1>3. PICK t : t = Append(s, c)
  OBVIOUS
<1>4. /\ Len(t) = m + 1 /\ t[m + 1] = c
      /\ \A j \in 1 .. m : t[j] = s[j]
  BY <1>0, <1>2, <1>3
<1>5. Character(p, c) = [p EXCEPT !.name = t]
  BY <1>1, <1>3 DEF Character, InName, InNameAt, Inner
<1>6. PICK q : q = Character(p, c)
  OBVIOUS
<1>7. q.state = 0 /\ q.files = F /\ q.name = t
  BY <1>5, <1>6 DEF InNameAt, ParserState
<1>8. \A j \in 1 .. m + 1 : t[j] = name[j]
  BY <1>2, <1>4
<1>9. InNameAt(q, name, m + 1, F)
  BY <1>4, <1>7, <1>8 DEF InNameAt
<1>10. QED
  BY <1>6, <1>9

LEMMA NameRead ==
  ASSUME NEW name, NEW L \in Nat, NEW g, Walk(g, L, name), NEW F,
         \A k \in 1 .. L : Inner(name[k]),
         InNameAt(g[0], name, 0, F)
  PROVE  InNameAt(g[L], name, L, F)
<1> DEFINE T == {m \in 0 .. L : InNameAt(g[m], name, m, F)}
<1>1. 0 \in T /\ T \subseteq 0 .. L
  OBVIOUS
<1>2. ASSUME NEW m \in T, m < L PROVE m + 1 \in T
  <2>1. m \in 0 .. L /\ m \in Nat /\ m + 1 \in 1 .. L /\ (m + 1) - 1 = m
        /\ m + 1 \in 0 .. L
    BY <1>2
  <2>2. g[m] \in ParserState /\ Inner(name[m + 1])
        /\ g[m + 1] = Character(g[m], name[m + 1])
    BY <2>1 DEF Walk
  <2>3. InNameAt(g[m], name, m, F)
    OBVIOUS
  <2>4. InNameAt(g[m + 1], name, m + 1, F)
    BY <2>1, <2>2, <2>3, InNameStep
  <2>5. QED
    BY <2>1, <2>4
<1>3. T = 0 .. L
  <2> HIDE DEF T
  <2>1. QED
    BY <1>1, <1>2, UpTo
<1>4. L \in 0 .. L
  OBVIOUS
<1>5. QED
  BY <1>3, <1>4

LEMMA NameEnds ==
  ASSUME NEW p \in ParserState, NEW name \in Seq(Char), NEW F,
         InNameAt(p, name, Len(name), F)
  PROVE  LET q == Character(p, " ")
         IN  q.state = 1 /\ q.name = <<>> /\ IsAppended(q.files, F, name, 0)
<1>1. p.name = name
  <2>1. p.name \in Seq(Char)
    BY DEF ParserState
  <2>2. Len(p.name) = Len(name) /\ \A j \in 1 .. Len(name) : p.name[j] = name[j]
    BY DEF InNameAt
  <2>3. QED
    BY <2>1, <2>2, SeqEqual
<1>2. Character(p, " ") = [p EXCEPT !.state = 1, !.name = <<>>,
                              !.files = Append(F, Entry(name, 0))]
  BY <1>1 DEF Character, InName, InNameAt, Entry
<1>3. QED
  BY <1>2 DEF ParserState, IsAppended

InDigitsAt(p, name, F, rest, sum) ==
  /\ p.state = 1 /\ p.name = <<>>
  /\ \E a \in Nat : IsAppended(p.files, F, name, a) /\ a * 16 ^ rest = sum

LEMMA Horner ==
  ASSUME NEW a \in Nat, NEW d \in 0 .. 15, NEW n \in 0 .. 7, NEW s \in Nat,
         a * 16 ^ (n + 1) = s
  PROVE  WithDigit(a, d) * 16 ^ n = s + d * 16 ^ n
<1>1. PICK x \in Nat : x = 16 ^ n /\ 16 ^ (n + 1) = 16 * x
  BY Sixteens
<1>2. a * (16 * x) = s
  BY <1>1
<1>3. (a * 16 + d) * x = a * (16 * x) + d * x
  BY <1>1
<1>4. PICK y : y = d * x
  OBVIOUS
<1>5. (a * 16 + d) * x = s + y
  BY <1>2, <1>3, <1>4
<1>6. QED
  BY <1>1, <1>4, <1>5 DEF WithDigit

LEMMA InDigitsStep ==
  ASSUME NEW p \in ParserState, NEW name \in Seq(Char), NEW F \in Seq(FileEntry),
         NEW n \in 0 .. 7, NEW s \in Nat, InDigitsAt(p, name, F, n + 1, s),
         NEW c \in Char, ValuesOf(c) # {}
  PROVE  InDigitsAt(Character(p, c), name, F, n, s + Digit(c) * 16 ^ n)
<1>1. PICK a \in Nat : IsAppended(p.files, F, name, a) /\ a * 16 ^ (n + 1) = s
  BY DEF InDigitsAt
<1>2. p.state = 1 /\ p.name = <<>>
  BY DEF InDigitsAt
<1>3. PICK d \in 0 .. 15 : d = Digit(c)
  BY DigitType
<1>4. PICK b \in Nat : b = WithDigit(a, d)
  BY DEF WithDigit
<1>5. PICK G : G = p.files
  OBVIOUS
<1>6. G[Len(G)].address = a
      /\ IsAppended([G EXCEPT ![Len(G)].address = b], F, name, b)
  <2>1. IsAppended(G, F, name, a)
    BY <1>1, <1>5
  <2>2. QED
    BY <2>1, LastOfAppend, Zenon
<1>7. Character(p, c) = [p EXCEPT !.hex = d, !.files = [G EXCEPT ![Len(G)].address = b]]
  <2>1. Character(p, c) = [p EXCEPT !.hex = d,
                             !.files = [p.files EXCEPT ![Len(p.files)].address
                                          = WithDigit(p.files[Len(p.files)].address, d)]]
    <3>1. p.state # 0 /\ (IF ValuesOf(c) = {} THEN p.hex ELSE Digit(c)) = d
      BY <1>2, <1>3
    <3>2. c # "\n"
      BY DigitType
    <3>3. Character(p, c) = InAddress(p, c)
      BY <3>1 DEF Character
    <3>4. QED
      BY <3>1, <3>2, <3>3 DEF InAddress
  <2>2. p.files[Len(p.files)].address = a
    BY <1>5, <1>6
  <2>3. QED
    BY <1>4, <1>5, <2>1, <2>2
<1>8. PICK q : q = Character(p, c)
  OBVIOUS
<1>9. q.state = 1 /\ q.name = <<>> /\ IsAppended(q.files, F, name, b)
  BY <1>2, <1>6, <1>7, <1>8 DEF ParserState
<1>10. b * 16 ^ n = s + d * 16 ^ n
  BY <1>1, <1>4, Horner
<1>11. InDigitsAt(q, name, F, n, s + d * 16 ^ n)
  BY <1>9, <1>10 DEF InDigitsAt
<1>12. QED
  BY <1>3, <1>8, <1>11
-----------------------------------------------------------------------------
Long(s, n) == Len(s) = n

LEMMA DigitsRead ==
  ASSUME NEW name \in Seq(Char), NEW digits, Readable(digits),
         NEW N \in 0 .. 8, Long(digits, N), NEW F \in Seq(FileEntry),
         NEW g, Walk(g, N, digits), InDigitsAt(g[0], name, F, N, 0)
  PROVE  InDigitsAt(g[N], name, F, 0, Number(digits))
<1> DEFINE T == {k \in 0 .. N : InDigitsAt(g[k], name, F, N - k, Sums(digits)[k])}
<1>0. /\ Sums(digits)[0] = 0
      /\ \A k \in 1 .. N :
           Sums(digits)[k] = Sums(digits)[k - 1] + Digit(digits[k]) * 16 ^ (N - k)
  BY SumsAre DEF Long
<1>1. 0 \in T /\ T \subseteq 0 .. N
  <2>1. N - 0 = N /\ 0 \in 0 .. N
    OBVIOUS
  <2>2. QED
    BY <1>0, <2>1
<1>2. ASSUME NEW k \in T, k < N PROVE k + 1 \in T
  <2>1. /\ k \in 0 .. N /\ k + 1 \in 1 .. N /\ (k + 1) - 1 = k /\ k + 1 \in 0 .. N
        /\ N - k = (N - (k + 1)) + 1 /\ N - (k + 1) \in 0 .. 7
    BY <1>2
  <2>2. PICK n \in 0 .. 7 : n = N - (k + 1) /\ N - k = n + 1
    <3>1. \E n \in 0 .. 7 : n = N - (k + 1) /\ N - k = n + 1
      <4> HIDE DEF T
      <4>1. QED
        BY <2>1
    <3>2. QED
      BY <3>1
  <2>3. PICK s : s = Sums(digits)[k]
    OBVIOUS
  <2>4. InDigitsAt(g[k], name, F, n + 1, s)
    BY <2>2, <2>3
  <2>5. s \in Nat
    <3>1. PICK a \in Nat : a * 16 ^ (n + 1) = s
      BY <2>4 DEF InDigitsAt
    <3>2. 16 ^ (n + 1) \in Nat
      BY Sixteens
    <3>3. QED
      BY <3>1, <3>2
  <2>6. PICK c : c = digits[k + 1]
    OBVIOUS
  <2>7. /\ g[k] \in ParserState /\ c \in Char
        /\ g[k + 1] = Character(g[k], c)
    BY <2>1, <2>6 DEF Walk
  <2>8. ValuesOf(c) # {}
    <3>1. k + 1 \in DOMAIN digits
      BY <2>1 DEF Readable, Long
    <3>2. QED
      BY <2>6, <3>1 DEF Readable
  <2>9. InDigitsAt(g[k + 1], name, F, n, s + Digit(c) * 16 ^ n)
    BY <2>4, <2>5, <2>7, <2>8, InDigitsStep
  <2>10. Sums(digits)[k + 1] = s + Digit(c) * 16 ^ n
    BY <1>0, <2>1, <2>2, <2>3, <2>6
  <2>11. InDigitsAt(g[k + 1], name, F, N - (k + 1), Sums(digits)[k + 1])
    BY <2>2, <2>9, <2>10
  <2>12. QED
    BY <2>1, <2>11
<1>3. T = 0 .. N
  <2> HIDE DEF T
  <2>1. N \in Nat
    OBVIOUS
  <2>2. QED
    BY <1>1, <1>2, <2>1, UpTo
<1>4. N \in 0 .. N /\ N - N = 0
  OBVIOUS
<1>5. InDigitsAt(g[N], name, F, 0, Sums(digits)[N])
  BY <1>3, <1>4
<1>6. QED
  BY <1>5, NumberIsSum DEF Long

LEMMA DigitsEnd ==
  ASSUME NEW p, NEW name, NEW F, NEW sum, InDigitsAt(p, name, F, 0, sum)
  PROVE  p.state = 1 /\ p.name = <<>> /\ sum \in Nat /\ IsAppended(p.files, F, name, sum)
<1>1. PICK a \in Nat : IsAppended(p.files, F, name, a) /\ a * 16 ^ 0 = sum
  BY DEF InDigitsAt
<1>2. 16 ^ 0 = 1
  OBVIOUS
<1>3. a = sum
  BY <1>1, <1>2
<1>4. QED
  BY <1>1, <1>3 DEF InDigitsAt
-----------------------------------------------------------------------------
IsPart(v, w, a, from, N) == \A k \in from .. N : v[k] = w[a + k]

LEMMA WalkPart ==
  ASSUME NEW g, NEW w, NEW M \in Nat, Walk(g, M, w),
         NEW a \in Nat, NEW N \in Nat, a + N <= M,
         NEW h, NEW v, IsPart(h, g, a, 0, N), IsPart(v, w, a, 1, N)
  PROVE  Walk(h, N, v)
<1>1. \A k \in 0 .. N : a + k \in 0 .. M
  OBVIOUS
<1>2. \A k \in 1 .. N : a + k \in 1 .. M /\ (a + k) - 1 = a + (k - 1)
                        /\ k - 1 \in 0 .. N /\ k \in 0 .. N
  OBVIOUS
<1>3. ASSUME NEW k \in 0 .. N PROVE h[k] \in ParserState
  BY <1>1 DEF Walk, IsPart
<1>4. ASSUME NEW k \in 1 .. N PROVE v[k] \in Char /\ h[k] = Character(h[k - 1], v[k])
  <2>1. w[a + k] \in Char /\ g[a + k] = Character(g[(a + k) - 1], w[a + k])
    BY <1>2 DEF Walk
  <2>2. v[k] = w[a + k] /\ h[k] = g[a + k] /\ h[k - 1] = g[a + (k - 1)]
    BY <1>2 DEF IsPart
  <2>3. QED
    BY <1>2, <2>1, <2>2
<1>5. QED
  BY <1>3, <1>4 DEF Walk

After(text) == Parsed(text)[Len(text)]

Goes(g, text, more) ==
  Walk(g, Len(more), more) /\ g[0] = After(text) /\ g[Len(more)] = After(text \o more)

LEMMA Continues ==
  ASSUME NEW text \in Seq(Char), NEW more \in Seq(Char)
  PROVE  \E g : Goes(g, text, more)
<1>1. PICK a \in Nat : a = Len(text)
  OBVIOUS
<1>2. PICK N \in Nat : N = Len(more)
  OBVIOUS
<1>3. PICK u : u = text \o more
  OBVIOUS
<1>4. /\ u \in Seq(Char) /\ Len(u) = a + N
      /\ \A m \in 1 .. a + N : u[m] = IF m <= a THEN text[m] ELSE more[m - a]
  BY <1>1, <1>2, <1>3, ConcatProperties
<1>5. PICK h : h = Parsed(u)
  OBVIOUS
<1>6. /\ \A n \in 1 .. a + N : h[n] = Character(h[n - 1], u[n])
      /\ \A n \in 0 .. a + N : h[n] \in ParserState
  BY <1>4, <1>5, ParsedIs
<1>7. Walk(h, a + N, u)
  <2>1. \A n \in 1 .. a + N : u[n] \in Char
    BY <1>4
  <2>2. QED
    BY <1>6, <2>1 DEF Walk
<1>8. IsPart(more, u, a, 1, N)
  <2>1. ASSUME NEW k \in 1 .. N PROVE more[k] = u[a + k]
    <3>1. PICK m \in 1 .. a + N : m = a + k /\ ~(m <= a) /\ m - a = k
      OBVIOUS
    <3>2. QED
      BY <1>4, <3>1
  <2>2. QED
    BY <2>1 DEF IsPart
<1>9. PICK g : g = [k \in 0 .. N |-> h[a + k]]
  OBVIOUS
<1>10. IsPart(g, h, a, 0, N)
  BY <1>9 DEF IsPart
<1>11. Walk(g, N, more)
  <2>1. a + N \in Nat /\ a + N <= a + N
    OBVIOUS
  <2>2. QED
    BY <1>7, <1>8, <1>10, <2>1, WalkPart
<1>12. g[0] = After(text)
  <2>1. g[0] = h[a] /\ a \in 0 .. a
    BY <1>9
  <2>2. h[a] = Parsed(text)[a]
    BY <1>1, <1>3, <1>5, <2>1, ParsedPrefix
  <2>3. QED
    BY <1>1, <2>1, <2>2 DEF After
<1>13. g[N] = After(u)
  BY <1>4, <1>5, <1>9 DEF After
<1>14. Goes(g, text, more)
  BY <1>2, <1>3, <1>11, <1>12, <1>13 DEF Goes
<1>15. QED
  BY <1>14
-----------------------------------------------------------------------------
(* A line, character by character.                                          *)
IsLine(line, name, digits, L, N) ==
  /\ Long(name, L) /\ Long(digits, N) /\ Long(line, L + 1 + N)
  /\ \A m \in 1 .. L : line[m] = name[m] /\ Inner(name[m])
  /\ line[L + 1] = " "
  /\ \A m \in 1 .. N : line[L + 1 + m] = digits[m]

InLines(p, F) == p.state = 0 /\ p.name = <<>> /\ p.files = F
AtEntry(p, F, name, sum) ==
  p.state = 1 /\ p.name = <<>> /\ IsAppended(p.files, F, name, sum)

LEMMA LineWalked ==
  ASSUME NEW name \in Seq(Char), NEW digits, Readable(digits), NEW F \in Seq(FileEntry),
         NEW L \in Nat, NEW N \in 0 .. 8, NEW line, IsLine(line, name, digits, L, N),
         NEW g, Walk(g, L + 1 + N, line), InLines(g[0], F)
  PROVE  AtEntry(g[L + 1 + N], F, name, Number(digits)) /\ Number(digits) \in Nat
<1>0. L + 1 + N \in Nat /\ N \in Nat
  OBVIOUS
<1>1. Walk(g, L, name)
  <2>1. IsPart(g, g, 0, 0, L)
    BY DEF IsPart
  <2>2. IsPart(name, line, 0, 1, L)
    <3>1. \A m \in 1 .. L : line[m] = name[m]
      BY Zenon DEF IsLine
    <3>2. \A m \in 1 .. L : 0 + m = m
      OBVIOUS
    <3>3. QED
      BY <3>1, <3>2 DEF IsPart
  <2>3. 0 + L <= L + 1 + N /\ 0 \in Nat
    OBVIOUS
  <2>4. QED
    BY <1>0, <2>1, <2>2, <2>3, WalkPart
<1>2. InNameAt(g[L], name, L, F)
  <2>1. InNameAt(g[0], name, 0, F)
    <3>1. Len(<<>>) = 0 /\ \A j \in 1 .. 0 : FALSE
      OBVIOUS
    <3>2. QED
      BY <3>1 DEF InNameAt, InLines
  <2>2. \A k \in 1 .. L : Inner(name[k])
    BY DEF IsLine
  <2>3. QED
    BY <1>1, <2>1, <2>2, NameRead
<1>3. /\ g[L] \in ParserState /\ g[L + 1] \in ParserState
      /\ g[L + 1] = Character(g[L], " ")
  <2>1. L \in 0 .. L + 1 + N /\ L + 1 \in 0 .. L + 1 + N /\ L + 1 \in 1 .. L + 1 + N
        /\ (L + 1) - 1 = L
    BY <1>0
  <2>2. g[L + 1] = Character(g[L], line[L + 1])
    BY <2>1 DEF Walk
  <2>3. line[L + 1] = " "
    BY DEF IsLine
  <2>4. QED
    BY <2>1, <2>2, <2>3 DEF Walk
<1>4. PICK q : q = g[L + 1]
  OBVIOUS
<1>5. q.state = 1 /\ q.name = <<>> /\ IsAppended(q.files, F, name, 0)
  <2>1. InNameAt(g[L], name, Len(name), F)
    BY <1>2 DEF IsLine, Long
  <2>2. QED
    BY <1>3, <1>4, <2>1, NameEnds
<1>6. InDigitsAt(q, name, F, N, 0)
  <2>1. 0 * 16 ^ N = 0
    <3>1. 16 ^ N \in Nat
      <4>1. CASE N = 0
        BY <4>1
      <4>2. CASE N # 0
        <5>1. N - 1 \in 0 .. 7 /\ (N - 1) + 1 = N
          BY <4>2
        <5>2. 16 ^ ((N - 1) + 1) \in Nat
          BY <5>1, Sixteens
        <5>3. QED
          BY <5>1, <5>2
      <4>3. QED
        BY <4>1, <4>2
    <3>2. PICK x \in Nat : x = 16 ^ N
      BY <3>1
    <3>3. 0 * x = 0
      OBVIOUS
    <3>4. QED
      BY <3>2, <3>3
  <2>2. 0 \in Nat
    OBVIOUS
  <2>3. QED
    BY <1>5, <2>1, <2>2 DEF InDigitsAt
<1>7. PICK h : h = [k \in 0 .. N |-> g[(L + 1) + k]]
  OBVIOUS
<1>8. Walk(h, N, digits)
  <2>1. IsPart(h, g, L + 1, 0, N)
    BY <1>7 DEF IsPart
  <2>2. IsPart(digits, line, L + 1, 1, N)
    BY DEF IsPart, IsLine
  <2>3. (L + 1) + N <= L + 1 + N /\ L + 1 \in Nat
    OBVIOUS
  <2>4. QED
    BY <1>0, <2>1, <2>2, <2>3, WalkPart
<1>9. h[0] = q /\ h[N] = g[L + 1 + N]
  <2>1. 0 \in 0 .. N /\ N \in 0 .. N /\ (L + 1) + 0 = L + 1 /\ (L + 1) + N = L + 1 + N
    OBVIOUS
  <2>2. QED
    BY <1>4, <1>7, <2>1
<1>10. InDigitsAt(h[N], name, F, 0, Number(digits))
  <2>1. Long(digits, N)
    BY DEF IsLine
  <2>2. InDigitsAt(h[0], name, F, N, 0)
    BY <1>6, <1>9
  <2>3. QED
    BY <1>8, <2>1, <2>2, DigitsRead
<1>11. QED
  BY <1>9, <1>10, DigitsEnd DEF AtEntry

(* What an entry of a list must be, and what has been read of a list.       *)
IsEntry(e) ==
  /\ e = [name |-> e.name, digits |-> e.digits]
  /\ e.name \in Seq(Char) /\ \A m \in 1 .. Len(e.name) : Inner(e.name[m])
  /\ Readable(e.digits)

LEMMA LineRead ==
  ASSUME NEW text \in Seq(Char), NEW F \in Seq(FileEntry), InLines(After(text), F),
         NEW e, IsEntry(e)
  PROVE  /\ text \o Line(e) \in Seq(Char)
         /\ AtEntry(After(text \o Line(e)), F, e.name, Number(e.digits))
         /\ Number(e.digits) \in Nat
<1>1. PICK name \in Seq(Char) : name = e.name
  BY DEF IsEntry
<1>2. PICK digits \in Seq(Char) : digits = e.digits
  BY DEF IsEntry, Readable
<1>3. PICK L \in Nat : Long(name, L)
  BY DEF Long
<1>4. PICK N \in 0 .. 8 : Long(digits, N)
  <2>1. Len(digits) \in Nat /\ Len(digits) <= 8
    BY <1>2 DEF IsEntry, Readable
  <2>2. \A n \in Nat : n <= 8 => n \in 0 .. 8
    OBVIOUS
  <2>3. QED
    BY <2>1, <2>2, Zenon DEF Long
<1>5. PICK line : line = Line(e)
  OBVIOUS
<1>6. line = Line([name |-> name, digits |-> digits])
  BY <1>1, <1>2, <1>5 DEF IsEntry
<1>7. line \in Seq(Char) /\ IsLine(line, name, digits, L, N)
  <2>1. line \in Seq(Char) /\ IsJoined(name, " ", digits, line)
    BY <1>6, LineChars, Zenon DEF IsLineOf
  <2>2. Len(name) = L /\ Len(digits) = N
    BY <1>3, <1>4 DEF Long
  <2>3. \A m \in 1 .. L : Inner(name[m])
    BY <1>1, <2>2 DEF IsEntry
  <2>4. QED
    BY <2>1, <2>2, <2>3 DEF IsLine, Long, IsJoined
<1>8. PICK g : Goes(g, text, line)
  BY <1>7, Continues
<1>9. PICK M \in Nat : M = L + 1 + N /\ M = Len(line)
  <2>1. Long(line, L + 1 + N)
    BY <1>7, Zenon DEF IsLine
  <2>2. L + 1 + N \in Nat
    OBVIOUS
  <2>3. QED
    BY <2>1, <2>2, Zenon DEF Long
<1>10. Walk(g, L + 1 + N, line) /\ InLines(g[0], F) /\ g[L + 1 + N] = After(text \o line)
  BY <1>8, <1>9 DEF Goes
<1>11. AtEntry(g[L + 1 + N], F, name, Number(digits)) /\ Number(digits) \in Nat
  <2>1. Readable(digits)
    BY <1>2 DEF IsEntry
  <2>2. QED
    BY <1>7, <1>10, <2>1, LineWalked
<1>12. text \o line \in Seq(Char)
  BY <1>7, ConcatProperties
<1>13. QED
  BY <1>1, <1>2, <1>5, <1>10, <1>11, <1>12

LEMMA NewlineRead ==
  ASSUME NEW text \in Seq(Char), NEW F \in Seq(FileEntry),
         After(text).state = 1, After(text).name = <<>>, After(text).files = F
  PROVE  text \o Newline \in Seq(Char) /\ InLines(After(text \o Newline), F)
<1>1. PICK c \in Char : c = "\n"
  BY DEF Char
<1>2. PICK w : w = <<c>>
  OBVIOUS
<1>3. w \in Seq(Char) /\ Len(w) = 1 /\ w[1] = c
  BY <1>2
<1>4. w = Newline
  BY <1>1, <1>2 DEF Newline
<1>5. PICK g : Goes(g, text, w)
  BY <1>3, Continues
<1>6. g[0] \in ParserState /\ g[1] = Character(g[0], c)
  BY <1>3, <1>5 DEF Goes, Walk
<1>7. PICK p \in ParserState : p = g[0] /\ p = After(text) /\ g[1] = After(text \o w)
  BY <1>3, <1>5, <1>6 DEF Goes
<1>8. p.state = 1 /\ p.name = <<>> /\ p.files = F
  BY <1>7
<1>9. Character(p, c) = [p EXCEPT !.state = 0]
  BY <1>1, <1>8 DEF Character, InAddress
<1>10. InLines(Character(p, c), F)
  BY <1>8, <1>9 DEF InLines, ParserState
<1>11. text \o w \in Seq(Char)
  BY <1>3, ConcatProperties
<1>12. QED
  BY <1>4, <1>6, <1>7, <1>10, <1>11
-----------------------------------------------------------------------------
(* The lines of a list, one after the other.                                *)
IsList(list, N) == Long(list, N) /\ \A k \in 1 .. N : IsEntry(list[k])

IsTexts(list, f) ==
  f = [k \in 0 .. Len(list) |->
         IF k = 0 THEN <<>> ELSE (f[k - 1] \o Separator(k)) \o Line(list[k])]

LEMMA TextsIsTexts == \A list : Texts(list) = CHOOSE f : IsTexts(list, f)
  BY DEF Texts, IsTexts

WithLine(text, k, e) == (text \o Separator(k)) \o Line(e)

LEMMA WithLineType ==
  ASSUME NEW text \in Seq(Char), NEW k, NEW e, IsEntry(e)
  PROVE  text \o Separator(k) \in Seq(Char) /\ WithLine(text, k, e) \in Seq(Char)
<1>1. Separator(k) \in Seq(Char)
  <2>1. PICK c \in Char : c = "\n"
    BY DEF Char
  <2>2. <<c>> \in Seq(Char) /\ <<>> \in Seq(Char)
    OBVIOUS
  <2>3. QED
    BY <2>1, <2>2 DEF Separator, Newline
<1>2. PICK t : t = text \o Separator(k)
  OBVIOUS
<1>3. t \in Seq(Char)
  BY <1>1, <1>2, ConcatProperties
<1>4. PICK name \in Seq(Char) : name = e.name
  BY DEF IsEntry
<1>5. PICK digits \in Seq(Char) : digits = e.digits
  BY DEF IsEntry, Readable
<1>6. IsLineOf(Line(e), name, digits)
  BY <1>4, <1>5 DEF IsEntry, IsLineOf
<1>7. Line(e) \in Seq(Char)
  BY <1>6, LineChars
<1>8. t \o Line(e) \in Seq(Char)
  BY <1>3, <1>7, ConcatProperties
<1>9. QED
  BY <1>2, <1>3, <1>8 DEF WithLine

LEMMA TextsAre ==
  ASSUME NEW list, NEW N \in Nat, IsList(list, N)
  PROVE  /\ Texts(list)[0] = <<>>
         /\ \A k \in 1 .. N : Texts(list)[k] = WithLine(Texts(list)[k - 1], k, list[k])
         /\ \A k \in 0 .. N : Texts(list)[k] \in Seq(Char)
<1> DEFINE step == [t \in Seq(Char) |-> [k \in 1 .. N |-> WithLine(t, k, list[k])]]
           t == Texts(list)
<1>1. Steps(N, Seq(Char), step)
  BY WithLineType DEF Steps, IsList
<1>2. PICK g : Iterates(N, Seq(Char), <<>>, step, g)
  <2> HIDE DEF step
  <2>1. <<>> \in Seq(Char)
    OBVIOUS
  <2>2. QED
    BY <1>1, <2>1, Iteration
<1>3. /\ g \in [0 .. N -> Seq(Char)] /\ g[0] = <<>>
      /\ \A k \in 1 .. N : g[k] = WithLine(g[k - 1], k, list[k])
  <2>1. /\ g \in [0 .. N -> Seq(Char)] /\ g[0] = <<>>
        /\ \A k \in 1 .. N : g[k] = step[g[k - 1]][k]
    <3> HIDE DEF step
    <3>1. QED
      BY <1>2 DEF Iterates
  <2>2. \A k \in 1 .. N : k - 1 \in 0 .. N
    OBVIOUS
  <2>3. \A k \in 1 .. N : g[k - 1] \in Seq(Char)
    BY <2>1, <2>2
  <2>4. \A x \in Seq(Char) : \A k \in 1 .. N : step[x][k] = WithLine(x, k, list[k])
    OBVIOUS
  <2>5. QED
    <3> HIDE DEF step
    <3>1. QED
      BY <2>1, <2>3, <2>4
<1>4. IsTexts(list, g)
  <2>1. \A k \in 0 .. N : k # 0 => k \in 1 .. N
    OBVIOUS
  <2>2. g = [n \in 0 .. N |-> g[n]]
    BY <1>3
  <2>3. \A k \in 0 .. N :
          g[k] = IF k = 0 THEN <<>> ELSE WithLine(g[k - 1], k, list[k])
    BY <1>3, <2>1
  <2>4. QED
    BY <2>2, <2>3 DEF IsTexts, IsList, Long, WithLine
<1>5. IsTexts(list, t)
  BY <1>4, TextsIsTexts
<1> HIDE DEF t
<1>6. t[0] = <<>> /\ \A k \in 1 .. N : t[k] = WithLine(t[k - 1], k, list[k])
  <2>1. 0 \in 0 .. N /\ \A k \in 1 .. N : k \in 0 .. N /\ k # 0
    OBVIOUS
  <2>2. t = [k \in 0 .. N |-> IF k = 0 THEN <<>> ELSE WithLine(t[k - 1], k, list[k])]
    BY <1>5 DEF IsTexts, IsList, Long, WithLine
  <2>3. QED
    BY <2>1, <2>2
<1>7. \A n \in 0 .. N : t[n] = g[n]
  <2>1. \A k \in 1 .. N : t[k - 1] = g[k - 1] => t[k] = g[k]
    BY <1>3, <1>6
  <2>2. t[0] = g[0]
    BY <1>3, <1>6
  <2>3. QED
    BY <2>1, <2>2, Agree
<1>8. QED
  BY <1>3, <1>6, <1>7 DEF t

FirstRead(f, list, k) ==
  /\ f \in Seq(FileEntry) /\ Len(f) = k
  /\ \A j \in 1 .. k : f[j] = Entry(list[j].name, Number(list[j].digits))

LEMMA OneMoreRead ==
  ASSUME NEW f, NEW list, NEW k \in Nat, FirstRead(f, list, k),
         IsEntry(list[k + 1]), Number(list[k + 1].digits) \in Nat,
         NEW G, IsAppended(G, f, list[k + 1].name, Number(list[k + 1].digits))
  PROVE  FirstRead(G, list, k + 1)
<1>1. PICK e \in FileEntry : e = Entry(list[k + 1].name, Number(list[k + 1].digits))
  BY DEF Entry, FileEntry, IsEntry
<1>2. G = Append(f, e)
  BY <1>1 DEF IsAppended
<1>3. f \in Seq(FileEntry) /\ Len(f) = k
  BY DEF FirstRead
<1>4. /\ G \in Seq(FileEntry) /\ Len(G) = k + 1 /\ G[k + 1] = e
      /\ \A j \in 1 .. k : G[j] = f[j]
  BY <1>2, <1>3
<1>5. ASSUME NEW j \in 1 .. k + 1
      PROVE  G[j] = Entry(list[j].name, Number(list[j].digits))
  <2>1. CASE j = k + 1
    BY <1>1, <1>4, <2>1
  <2>2. CASE j # k + 1
    <3>1. j \in 1 .. k
      BY <2>2
    <3>2. QED
      BY <1>4, <3>1 DEF FirstRead
  <2>3. QED
    BY <2>1, <2>2
<1>6. QED
  BY <1>4, <1>5 DEF FirstRead

(* After k lines.                                                           *)
LinesRead(text, list, k) ==
  LET p == After(text) IN
  /\ FirstRead(p.files, list, k) /\ p.name = <<>>
  /\ p.state = IF k = 0 THEN 0 ELSE 1

LEMMA TextsRead ==
  ASSUME NEW list, NEW N \in Nat, IsList(list, N)
  PROVE  Texts(list)[N] \in Seq(Char) /\ LinesRead(Texts(list)[N], list, N)
<1> DEFINE T == {k \in 0 .. N : LinesRead(Texts(list)[k], list, k)}
<1>1. 0 \in T /\ T \subseteq 0 .. N
  <2>1. After(<<>>) = NothingRead
    <3>1. <<>> \in Seq(Char) /\ Len(<<>>) = 0
      OBVIOUS
    <3>2. Parsed(<<>>)[0] = NothingRead
      BY <3>1, ParsedIs
    <3>3. QED
      BY <3>1, <3>2 DEF After
  <2>2. NothingRead.files = <<>> /\ NothingRead.state = 0 /\ NothingRead.name = <<>>
    BY DEF NothingRead
  <2>3. FirstRead(<<>>, list, 0)
    BY DEF FirstRead
  <2>4. LinesRead(<<>>, list, 0)
    BY <2>1, <2>2, <2>3 DEF LinesRead
  <2>5. Texts(list)[0] = <<>>
    BY TextsAre
  <2>6. 0 \in 0 .. N
    OBVIOUS
  <2>7. QED
    BY <2>4, <2>5, <2>6
<1>2. ASSUME NEW k \in T, k < N PROVE k + 1 \in T
  <2>1. /\ k \in 0 .. N /\ k + 1 \in 1 .. N /\ (k + 1) - 1 = k /\ k + 1 \in 0 .. N
        /\ k \in Nat /\ (k + 1 = 1 <=> k = 0) /\ k + 1 # 0
    BY <1>2
  <2>2. PICK text \in Seq(Char) : text = Texts(list)[k]
    BY <2>1, TextsAre
  <2>3. LinesRead(text, list, k)
    BY <2>2
  <2>4. PICK f \in Seq(FileEntry) : f = After(text).files /\ FirstRead(f, list, k)
    BY <2>3 DEF LinesRead, FirstRead
  <2>5. PICK e : e = list[k + 1] /\ IsEntry(e)
    BY <2>1 DEF IsList
  <2>6. PICK t : t = text \o Separator(k + 1) /\ t \in Seq(Char)
    BY <2>5, WithLineType
  <2>7. InLines(After(t), f)
    <3>1. CASE k = 0
      <4>1. t = text
        <5>1. Separator(k + 1) = <<>>
          BY <2>1, <3>1 DEF Separator
        <5>2. QED
          BY <2>6, <5>1
      <4>2. QED
        BY <2>3, <2>4, <3>1, <4>1 DEF LinesRead, InLines
    <3>2. CASE k # 0
      <4>1. t = text \o Newline
        BY <2>1, <2>6, <3>2 DEF Separator
      <4>2. After(text).state = 1 /\ After(text).name = <<>>
        BY <2>3, <3>2 DEF LinesRead
      <4>3. QED
        BY <2>4, <4>1, <4>2, NewlineRead
    <3>3. QED
      BY <3>1, <3>2
  <2>8. PICK u : u = t \o Line(e) /\ u = Texts(list)[k + 1]
    BY <2>1, <2>2, <2>5, <2>6, TextsAre DEF WithLine
  <2>9. AtEntry(After(u), f, e.name, Number(e.digits)) /\ Number(e.digits) \in Nat
    BY <2>5, <2>6, <2>7, <2>8, LineRead
  <2>10. FirstRead(After(u).files, list, k + 1)
    <3>1. IsAppended(After(u).files, f, list[k + 1].name, Number(list[k + 1].digits))
      BY <2>5, <2>9 DEF AtEntry
    <3>2. QED
      BY <2>1, <2>4, <2>5, <2>9, <3>1, OneMoreRead
  <2>11. LinesRead(u, list, k + 1)
    BY <2>1, <2>9, <2>10 DEF LinesRead, AtEntry
  <2>12. QED
    BY <2>1, <2>8, <2>11
<1>3. T = 0 .. N
  <2> HIDE DEF T
  <2>1. QED
    BY <1>1, <1>2, UpTo
<1>4. N \in 0 .. N
  OBVIOUS
<1>5. QED
  BY <1>3, <1>4, TextsAre
-----------------------------------------------------------------------------
LEMMA Wider == \A S, T : S \subseteq T => Seq(S) \subseteq Seq(T)
  OBVIOUS

LEMMA EntriesGood ==
  ASSUME NEW list \in Lists
  PROVE  /\ list \in Seq([name : Seq(STRING), digits : Seq(STRING)])
         /\ \A k \in DOMAIN list : IsEntry(list[k])
<1>1. STRING \subseteq Char
  BY DEF Char
<1>2. list \in Seq([name : Seq(STRING), digits : Seq(STRING)])
  BY ListsReadable
<1>3. ASSUME NEW k \in DOMAIN list PROVE IsEntry(list[k])
  <2>1. PICK e \in [name : Seq(STRING), digits : Seq(STRING)] : e = list[k]
    <3>1. PICK R : R = [name : Seq(STRING), digits : Seq(STRING)]
      OBVIOUS
    <3>2. list \in Seq(R)
      BY <1>2, <3>1
    <3>3. list[k] \in R
      BY <3>2
    <3>4. QED
      BY <3>1, <3>3
  <2>2. e = [name |-> e.name, digits |-> e.digits]
    OBVIOUS
  <2>3. e.name \in Seq(STRING) /\ e.digits \in Seq(STRING)
    OBVIOUS
  <2>4. e.name \in Seq(Char) /\ e.digits \in Seq(Char)
    BY <1>1, <2>3, Wider
  <2>5. \A m \in 1 .. Len(e.name) : Inner(e.name[m])
    <3>1. PICK name : name = e.name
      OBVIOUS
    <3>2. name \in Seq(Char)
      BY <2>4, <3>1
    <3>3. \A m \in 1 .. Len(name) : name[m] \in Char /\ m \in DOMAIN name
      BY <3>2
    <3>4. \A m \in DOMAIN name : name[m] # " "
      BY <2>1, <3>1, ListsReadable, Zenon
    <3>5. \A m \in 1 .. Len(name) : Inner(name[m])
      BY <3>3, <3>4, Zenon DEF Inner
    <3>6. QED
      BY <3>1, <3>5
  <2>6. Readable(e.digits)
    <3>1. Len(e.digits) <= 8 /\ \A n \in DOMAIN e.digits : ValuesOf(e.digits[n]) # {}
      BY <2>1, ListsReadable, Zenon
    <3>2. QED
      BY <2>4, <3>1, Zenon DEF Readable
  <2>7. QED
    BY <2>1, <2>2, <2>4, <2>5, <2>6 DEF IsEntry
<1>4. QED
  BY <1>2, <1>3

Listed(list) == [k \in DOMAIN list |-> Entry(list[k].name, Number(list[k].digits))]

LEMMA ReadIsListed ==
  ASSUME NEW f, NEW list, NEW N \in Nat, DOMAIN list = 1 .. N, FirstRead(f, list, N)
  PROVE  f = Listed(list)
<1>1. f \in Seq(FileEntry) /\ Len(f) = N
  BY DEF FirstRead
<1>2. f = [k \in 1 .. N |-> f[k]]
  BY <1>1
<1>3. \A k \in 1 .. N : f[k] = Entry(list[k].name, Number(list[k].digits))
  BY DEF FirstRead
<1>4. QED
  BY <1>2, <1>3 DEF Listed

LEMMA ParserReads ==
  ASSUME NEW list \in Lists, NEW newline \in {<<>>, Newline}
  PROVE  compute_mem_load_txt(Text(list, newline)) = Listed(list)
<1>1. PICK N \in Nat : N = Len(list) /\ DOMAIN list = 1 .. N /\ N # 0
  <2>1. list \in Seq([name : Seq(STRING), digits : Seq(STRING)]) /\ list # <<>>
    BY EntriesGood, LayoutAssumption
  <2>2. QED
    BY <2>1
<1>2. IsList(list, N)
  BY <1>1, EntriesGood DEF IsList, Long
<1>3. PICK t : t = Texts(list)[N]
  OBVIOUS
<1>4. t \in Seq(Char) /\ LinesRead(t, list, N)
  BY <1>2, <1>3, TextsRead
<1>5. PICK f \in Seq(FileEntry) : f = After(t).files /\ FirstRead(f, list, N)
  BY <1>4 DEF LinesRead, FirstRead
<1>6. After(t).state = 1 /\ After(t).name = <<>>
  BY <1>1, <1>4 DEF LinesRead
<1>7. compute_mem_load_txt(Text(list, newline)) = After(t \o newline).files
  BY <1>1, <1>3 DEF compute_mem_load_txt, Text, After
<1>8. After(t \o newline).files = f
  <2>1. CASE newline = <<>>
    <3>1. t \o <<>> = t
      BY <1>4
    <3>2. QED
      BY <1>5, <2>1, <3>1
  <2>2. CASE newline = Newline
    <3>1. InLines(After(t \o Newline), f)
      BY <1>4, <1>5, <1>6, NewlineRead
    <3>2. QED
      BY <2>2, <3>1 DEF InLines
  <2>3. QED
    BY <2>1, <2>2
<1>9. f = Listed(list)
  BY <1>1, <1>5, ReadIsListed
<1>10. QED
  BY <1>7, <1>8, <1>9
-----------------------------------------------------------------------------
(* Subsectors.                                                              *)
LEMMA SubsectorsHold ==
  ASSUME NEW size \in Nat
  PROVE  Subsectors(size) \in Nat /\ size <= SUBSECTOR_SIZE * Subsectors(size)
<1>1. PICK s \in Nat \ {0} : s = SUBSECTOR_SIZE
  BY LayoutAssumption
<1>2. PICK n \in Nat : n = size + s - 1
  OBVIOUS
<1>3. PICK q \in Nat, r \in 0 .. s - 1 : q = n \div s /\ n = s * q + r
  BY Quotients
<1>4. PICK x \in Nat : x = s * q
  BY Products
<1>5. size <= x
  BY <1>2, <1>3, <1>4
<1>6. QED
  BY <1>1, <1>2, <1>3, <1>4, <1>5 DEF Subsectors

IsStarts(sizes, f) ==
  f = [k \in 0 .. Len(sizes) |->
         IF k = 0 THEN 0 ELSE f[k - 1] + Subsectors(sizes[k])]

LEMMA StartsIsStarts == \A sizes : Starts(sizes) = CHOOSE f : IsStarts(sizes, f)
  BY DEF Starts, IsStarts

AreSizes(sizes, N) == Long(sizes, N) /\ \A k \in 1 .. N : sizes[k] \in Nat

Follows(f, sizes, N) ==
  /\ f[0] = 0
  /\ \A k \in 0 .. N : f[k] \in Nat
  /\ \A k \in 1 .. N : f[k] = f[k - 1] + Subsectors(sizes[k])

LEMMA StartsFollow ==
  ASSUME NEW sizes, NEW N \in Nat, AreSizes(sizes, N)
  PROVE  Follows(Starts(sizes), sizes, N)
<1> DEFINE step == [x \in Nat |-> [k \in 1 .. N |-> x + Subsectors(sizes[k])]]
           t == Starts(sizes)
<1>1. Steps(N, Nat, step)
  <2>1. \A k \in 1 .. N : Subsectors(sizes[k]) \in Nat
    BY SubsectorsHold DEF AreSizes
  <2>2. QED
    BY <2>1 DEF Steps
<1>2. PICK g : Iterates(N, Nat, 0, step, g)
  <2> HIDE DEF step
  <2>1. 0 \in Nat
    OBVIOUS
  <2>2. QED
    BY <1>1, <2>1, Iteration
<1>3. /\ g \in [0 .. N -> Nat] /\ g[0] = 0
      /\ \A k \in 1 .. N : g[k] = g[k - 1] + Subsectors(sizes[k])
  <2>1. /\ g \in [0 .. N -> Nat] /\ g[0] = 0
        /\ \A k \in 1 .. N : g[k] = step[g[k - 1]][k]
    <3> HIDE DEF step
    <3>1. QED
      BY <1>2 DEF Iterates
  <2>2. \A k \in 1 .. N : k - 1 \in 0 .. N
    OBVIOUS
  <2>3. QED
    BY <2>1, <2>2
<1>4. IsStarts(sizes, g)
  <2>1. \A k \in 0 .. N : k # 0 => k \in 1 .. N
    OBVIOUS
  <2>2. g = [n \in 0 .. N |-> g[n]]
    BY <1>3
  <2>3. \A k \in 0 .. N : g[k] = IF k = 0 THEN 0 ELSE g[k - 1] + Subsectors(sizes[k])
    BY <1>3, <2>1
  <2>4. QED
    BY <2>2, <2>3 DEF IsStarts, AreSizes, Long
<1>5. IsStarts(sizes, t)
  BY <1>4, StartsIsStarts
<1> HIDE DEF t
<1>6. t[0] = 0 /\ \A k \in 1 .. N : t[k] = t[k - 1] + Subsectors(sizes[k])
  <2>1. 0 \in 0 .. N /\ \A k \in 1 .. N : k \in 0 .. N /\ k # 0
    OBVIOUS
  <2>2. t = [k \in 0 .. N |-> IF k = 0 THEN 0 ELSE t[k - 1] + Subsectors(sizes[k])]
    BY <1>5 DEF IsStarts, AreSizes, Long
  <2>3. QED
    BY <2>1, <2>2
<1>7. \A n \in 0 .. N : t[n] = g[n]
  <2>1. \A k \in 1 .. N : t[k - 1] = g[k - 1] => t[k] = g[k]
    BY <1>3, <1>6
  <2>2. t[0] = g[0]
    BY <1>3, <1>6
  <2>3. QED
    BY <2>1, <2>2, Agree
<1>8. QED
  BY <1>3, <1>6, <1>7 DEF t, Follows

LEMMA StartsGrow ==
  ASSUME NEW f, NEW sizes, NEW N \in Nat, AreSizes(sizes, N), Follows(f, sizes, N),
         NEW j \in 0 .. N
  PROVE  \A k \in j .. N : f[j] <= f[k]
<1> DEFINE T == {d \in 0 .. N - j : f[j] <= f[j + d]}
<1>0. N - j \in Nat /\ j \in Nat
  OBVIOUS
<1>1. 0 \in T /\ T \subseteq 0 .. N - j
  <2>1. f[j] \in Nat /\ j + 0 = j
    BY DEF Follows
  <2>2. f[j] <= f[j + 0]
    BY <2>1
  <2>3. QED
    BY <1>0, <2>2
<1>2. ASSUME NEW d \in T, d < N - j PROVE d + 1 \in T
  <2>1. /\ d \in Nat /\ j + (d + 1) \in 1 .. N /\ (j + (d + 1)) - 1 = j + d
        /\ j + d \in 0 .. N /\ d + 1 \in 0 .. N - j
    BY <1>0, <1>2
  <2>2. f[j + (d + 1)] = f[j + d] + Subsectors(sizes[j + (d + 1)])
    BY <2>1 DEF Follows
  <2>3. Subsectors(sizes[j + (d + 1)]) \in Nat
    BY <2>1, SubsectorsHold DEF AreSizes
  <2>4. f[j + d] \in Nat /\ f[j] \in Nat
    BY <2>1 DEF Follows
  <2>5. f[j] <= f[j + d]
    OBVIOUS
  <2>6. f[j] <= f[j + (d + 1)]
    BY <2>2, <2>3, <2>4, <2>5
  <2>7. QED
    BY <2>1, <2>6
<1>3. T = 0 .. N - j
  <2> HIDE DEF T
  <2>1. QED
    BY <1>0, <1>1, <1>2, UpTo
<1>4. ASSUME NEW k \in j .. N PROVE f[j] <= f[k]
  <2>1. k - j \in 0 .. N - j /\ j + (k - j) = k
    OBVIOUS
  <2>2. QED
    BY <1>3, <2>1
<1>5. QED
  BY <1>4
-----------------------------------------------------------------------------
(* Where files lie in the flash and in memory.                              *)
RecsOf(list, sizes, v) ==
  [k \in DOMAIN list |-> [name |-> list[k].name, version |-> v, size |-> sizes[list[k].name]]]

SizeSeq(recs) == [k \in DOMAIN recs |-> recs[k].size]
StartOf(recs, k) == Starts(SizeSeq(recs))[k]
Spot(recs, k) == FLASH_FIRMWARE_OFFSET + StartOf(recs, k) * SUBSECTOR_SIZE

Numbered(recs, N) ==
  /\ StartOf(recs, 0) = 0
  /\ \A k \in 1 .. N : StartOf(recs, k) = StartOf(recs, k - 1) + Subsectors(recs[k].size)

(* N files in the flash, one after the other from subsector to subsector.   *)
InOrder(recs, N) ==
  /\ DOMAIN recs = 1 .. N /\ INT * N <= FLASH_FIRMWARE_OFFSET
  /\ \A k \in 1 .. N : recs[k].size \in Nat
  /\ \A k \in 0 .. N : /\ Spot(recs, k) \in Nat /\ Spot(recs, k) <= FlashSize
                       /\ FLASH_FIRMWARE_OFFSET <= Spot(recs, k)
                       /\ \E q \in Nat : Spot(recs, k) = SUBSECTOR_SIZE * q
  /\ \A k \in 1 .. N : \A j \in 1 .. k : Spot(recs, j - 1) + recs[j].size <= Spot(recs, k)

(* In memory.                                                               *)
Apart(fs, recs, N) ==
  /\ DOMAIN fs = 1 .. N
  /\ \A k \in 1 .. N : /\ recs[k].size \in Nat /\ fs[k].address \in Nat
                       /\ fs[k].address % INT = 0
                       /\ fs[k].address + recs[k].size <= MemSize
  /\ \A j, k \in 1 .. N :
       j # k => \/ fs[j].address + recs[j].size <= fs[k].address
                \/ fs[k].address + recs[k].size <= fs[j].address

LEMMA Lengths ==
  ASSUME NEW list \in Lists
  PROVE  \E N \in Nat \ {0} : N = Len(list) /\ DOMAIN list = 1 .. N
<1>1. list \in Seq([name : Seq(STRING), digits : Seq(STRING)]) /\ list # <<>>
  BY EntriesGood, LayoutAssumption
<1>2. PICK R : R = [name : Seq(STRING), digits : Seq(STRING)]
  OBVIOUS
<1>3. list \in Seq(R) /\ list # <<>>
  BY <1>1, <1>2
<1>4. QED
  BY <1>3

LEMMA ListedType ==
  ASSUME NEW list \in Lists
  PROVE  Listed(list) \in Seq(FileEntry)
<1>1. PICK N \in Nat : N = Len(list) /\ DOMAIN list = 1 .. N
  BY Lengths
<1>2. IsList(list, N)
  BY <1>1, EntriesGood DEF IsList, Long
<1>3. PICK f : FirstRead(f, list, N)
  BY <1>2, TextsRead DEF LinesRead
<1>4. f = Listed(list)
  BY <1>1, <1>3, ReadIsListed
<1>5. QED
  BY <1>3, <1>4 DEF FirstRead

LEMMA SizesFit ==
  ASSUME NEW list \in Lists, NEW sizes \in HostSizes, NEW N \in Nat, DOMAIN list = 1 .. N,
         N = Len(list)
  PROVE  /\ \A k \in 1 .. N : /\ sizes[list[k].name] \in Nat
                              /\ Number(list[k].digits) % INT = 0
                              /\ Number(list[k].digits) + sizes[list[k].name] <= MemSize
         /\ \A j, k \in 1 .. N :
              j # k =>
                \/ Number(list[j].digits) + sizes[list[j].name] <= Number(list[k].digits)
                \/ Number(list[k].digits) + sizes[list[k].name] <= Number(list[j].digits)
         /\ FLASH_FIRMWARE_OFFSET + SUBSECTOR_SIZE * Starts(SizesOf(list, sizes))[N] <= FlashSize
<1> DEFINE size == SizesOf(list, sizes)
           address == [k \in DOMAIN list |-> Number(list[k].digits)]
<1>1. /\ \A k \in DOMAIN list : /\ size[k] \in Nat /\ address[k] % INT = 0
                                /\ address[k] + size[k] <= MemSize
      /\ \A j, k \in DOMAIN list : j # k => \/ address[j] + size[j] <= address[k]
                                            \/ address[k] + size[k] <= address[j]
      /\ FLASH_FIRMWARE_OFFSET + SUBSECTOR_SIZE * Starts(size)[Len(list)] <= FlashSize
  BY FilesFit
<1>2. \A k \in 1 .. N : size[k] = sizes[list[k].name] /\ address[k] = Number(list[k].digits)
  BY DEF SizesOf
<1> HIDE DEF size, address
<1>3. QED
  BY <1>1, <1>2 DEF size

LEMMA ListedApart ==
  ASSUME NEW list \in Lists, NEW sizes \in HostSizes, NEW N \in Nat, DOMAIN list = 1 .. N,
         N = Len(list), NEW recs, \A k \in 1 .. N : recs[k].size = sizes[list[k].name]
  PROVE  Apart(Listed(list), recs, N)
<1>1. PICK fs : fs = Listed(list)
  OBVIOUS
<1>2. DOMAIN fs = 1 .. N /\ \A k \in 1 .. N : fs[k].address = Number(list[k].digits)
  BY <1>1 DEF Listed, Entry
<1>3. \A k \in 1 .. N : fs[k].address \in Nat
  <2>1. fs \in Seq(FileEntry)
    BY <1>1, ListedType
  <2>2. \A k \in 1 .. N : fs[k] \in FileEntry
    BY <1>2, <2>1
  <2>3. QED
    BY <2>2 DEF FileEntry
<1>4. /\ \A k \in 1 .. N : /\ recs[k].size \in Nat
                           /\ fs[k].address % INT = 0
                           /\ fs[k].address + recs[k].size <= MemSize
      /\ \A j, k \in 1 .. N :
           j # k => \/ fs[j].address + recs[j].size <= fs[k].address
                    \/ fs[k].address + recs[k].size <= fs[j].address
  <2>1. /\ \A k \in 1 .. N : /\ sizes[list[k].name] \in Nat
                              /\ Number(list[k].digits) % INT = 0
                              /\ Number(list[k].digits) + sizes[list[k].name] <= MemSize
        /\ \A j, k \in 1 .. N :
              j # k =>
                \/ Number(list[j].digits) + sizes[list[j].name] <= Number(list[k].digits)
                \/ Number(list[k].digits) + sizes[list[k].name] <= Number(list[j].digits)
    BY SizesFit
  <2>2. \A k \in 1 .. N : recs[k].size = sizes[list[k].name]
    OBVIOUS
  <2>3. QED
    BY <1>2, <2>1, <2>2
<1>5. Apart(fs, recs, N)
  BY <1>2, <1>3, <1>4 DEF Apart
<1>6. QED
  BY <1>1, <1>5

LEMMA RecsInOrder ==
  ASSUME NEW list \in Lists, NEW sizes \in HostSizes, NEW N \in Nat, DOMAIN list = 1 .. N,
         N = Len(list), NEW v, NEW recs, recs = RecsOf(list, sizes, v)
  PROVE  InOrder(recs, N) /\ Numbered(recs, N)
<1>1. DOMAIN recs = 1 .. N /\ \A k \in 1 .. N : recs[k].size = sizes[list[k].name]
  BY DEF RecsOf
<1>2. PICK z : z = SizeSeq(recs)
  OBVIOUS
<1>3. z = SizesOf(list, sizes) /\ AreSizes(z, N)
  <2>1. z = [k \in 1 .. N |-> recs[k].size]
    BY <1>1, <1>2 DEF SizeSeq
  <2>2. z = SizesOf(list, sizes)
    BY <1>1, <2>1 DEF SizesOf
  <2>3. Len(z) = N
    BY <2>1
  <2>4. \A k \in 1 .. N : z[k] \in Nat
    BY <1>1, <2>1, SizesFit
  <2>5. QED
    BY <2>2, <2>3, <2>4 DEF AreSizes, Long
<1>4. PICK f : f = Starts(z)
  OBVIOUS
<1>5. Follows(f, z, N)
  BY <1>3, <1>4, StartsFollow
<1>6. PICK s \in Nat \ {0} : s = SUBSECTOR_SIZE
  BY LayoutAssumption
<1>7. PICK o \in Nat, p \in Nat : o = FLASH_FIRMWARE_OFFSET /\ o = s * p
  <2>1. PICK o \in Nat : o = FLASH_FIRMWARE_OFFSET /\ o % s = 0
    BY <1>6, LayoutAssumption
  <2>2. PICK q \in Nat : o = s * q
    BY <2>1, Multiples
  <2>3. QED
    BY <2>1, <2>2
<1>8. PICK S : S = [k \in 0 .. N |-> Spot(recs, k)]
  OBVIOUS
<1>9. \A k \in 0 .. N : S[k] = Spot(recs, k) /\ f[k] \in Nat /\ S[k] = o + s * f[k]
  <2>1. \A k \in 0 .. N : f[k] \in Nat
    BY <1>5 DEF Follows
  <2>2. \A n \in Nat : n * s = s * n
    OBVIOUS
  <2>3. \A k \in 0 .. N : Spot(recs, k) = o + f[k] * s
    BY <1>2, <1>4, <1>6, <1>7 DEF Spot, StartOf
  <2>4. QED
    BY <1>8, <2>1, <2>2, <2>3
<1>10. ASSUME NEW k \in 0 .. N
       PROVE  /\ S[k] \in Nat /\ S[k] <= FlashSize /\ o <= S[k]
              /\ \E q \in Nat : S[k] = s * q
  <2>1. PICK n \in Nat : n = f[k] /\ n <= f[N] /\ f[N] \in Nat
    <3>1. k \in 0 .. N /\ N \in 0 .. N /\ N \in k .. N
      OBVIOUS
    <3>2. QED
      BY <1>3, <1>5, <1>9, <3>1, StartsGrow
  <2>2. PICK x \in Nat, y \in Nat : x = s * n /\ y = s * f[N] /\ x <= y
    BY <2>1, Products
  <2>3. o + y <= FlashSize /\ FlashSize \in Nat
    BY <1>3, <1>4, <1>6, <1>7, <2>2, SizesFit, LayoutAssumption
  <2>4. S[k] = o + x
    BY <1>9, <2>1, <2>2
  <2>5. o + x = s * (p + n)
    BY <1>7, <2>2
  <2>6. p + n \in Nat
    OBVIOUS
  <2>7. QED
    BY <2>2, <2>3, <2>4, <2>5, <2>6, SMTT(30)
<1>11. ASSUME NEW k \in 1 .. N
       PROVE  S[k] = S[k - 1] + s * Subsectors(recs[k].size)
  <2>1. f[k] = f[k - 1] + Subsectors(z[k]) /\ z[k] = recs[k].size /\ z[k] \in Nat
    BY <1>1, <1>2, <1>3, <1>5 DEF Follows, SizeSeq, AreSizes
  <2>2. PICK b \in Nat : b = Subsectors(recs[k].size)
    BY <2>1, SubsectorsHold
  <2>3. PICK a \in Nat : a = f[k - 1]
    BY <1>9
  <2>4. s * (a + b) = s * a + s * b
    OBVIOUS
  <2>5. S[k] = o + s * (a + b) /\ S[k - 1] = o + s * a
    BY <1>9, <2>1, <2>2, <2>3
  <2>6. PICK x \in Nat, y \in Nat : x = s * a /\ y = s * b
    BY Products
  <2>7. QED
    BY <2>2, <2>4, <2>5, <2>6
<1>12. ASSUME NEW k \in 1 .. N, NEW j \in 1 .. k
       PROVE  S[j - 1] + recs[j].size <= S[k]
  <2>1. j \in 1 .. N /\ j \in 0 .. N /\ k \in j .. N /\ j - 1 \in 0 .. N /\ k \in 0 .. N
    OBVIOUS
  <2>2. recs[j].size \in Nat /\ recs[j].size <= s * Subsectors(recs[j].size)
    <3>1. PICK size \in Nat : size = recs[j].size
      BY <1>1, <2>1, SizesFit
    <3>2. size <= SUBSECTOR_SIZE * Subsectors(size)
      BY SubsectorsHold
    <3>3. QED
      BY <1>6, <3>1, <3>2
  <2>3. S[j] = S[j - 1] + s * Subsectors(recs[j].size)
    BY <1>11, <2>1
  <2>4. S[j] <= S[k]
    <3>1. f[j] <= f[k]
      BY <1>3, <1>5, <2>1, StartsGrow
    <3>2. PICK x \in Nat, y \in Nat : x = s * f[j] /\ y = s * f[k] /\ x <= y
      BY <1>9, <2>1, <3>1, Products
    <3>3. QED
      BY <1>9, <2>1, <3>2, SMTT(30)
  <2>5. S[j - 1] \in Nat /\ S[j] \in Nat /\ S[k] \in Nat
    BY <1>10, <2>1
  <2>6. PICK t : t = s * Subsectors(recs[j].size)
    OBVIOUS
  <2>7. t \in Nat
    <3>1. PICK b \in Nat : b = Subsectors(recs[j].size)
      BY <2>2, SubsectorsHold
    <3>2. b <= b
      OBVIOUS
    <3>3. s * b \in Nat
      BY <3>2, Products
    <3>4. QED
      BY <2>6, <3>1, <3>3
  <2>8. QED
    BY <2>2, <2>3, <2>4, <2>5, <2>6, <2>7
<1>13. InOrder(recs, N)
  <2>1. \A k \in 1 .. N : recs[k].size \in Nat
    BY <1>1, SizesFit
  <2>2. INT * N <= FLASH_FIRMWARE_OFFSET
    BY LayoutAssumption
  <2>3. \A k \in 0 .. N : /\ Spot(recs, k) \in Nat /\ Spot(recs, k) <= FlashSize
                          /\ FLASH_FIRMWARE_OFFSET <= Spot(recs, k)
                          /\ \E q \in Nat : Spot(recs, k) = SUBSECTOR_SIZE * q
    BY <1>6, <1>7, <1>9, <1>10
  <2>4. \A k \in 1 .. N : k \in 0 .. N /\ \A j \in 1 .. k : j - 1 \in 0 .. N
    OBVIOUS
  <2>5. \A k \in 1 .. N : \A j \in 1 .. k : Spot(recs, j - 1) + recs[j].size <= Spot(recs, k)
    BY <1>9, <1>12, <2>4
  <2>6. QED
    BY <1>1, <2>1, <2>2, <2>3, <2>5 DEF InOrder
<1>14. Numbered(recs, N)
  <2>1. f[0] = 0 /\ \A k \in 1 .. N : f[k] = f[k - 1] + Subsectors(z[k])
    BY <1>5 DEF Follows
  <2>2. \A k \in 1 .. N : z[k] = recs[k].size
    BY <1>1, <1>2 DEF SizeSeq
  <2>3. \A k : StartOf(recs, k) = f[k]
    BY <1>2, <1>4 DEF StartOf
  <2>4. QED
    BY <2>1, <2>2, <2>3 DEF Numbered
<1>15. QED
  BY <1>13, <1>14
-----------------------------------------------------------------------------
(* What an erase, a programming and a load leave as it is.                  *)
InMemory(m, fs, recs, upto) ==
  \A k \in 1 .. upto : \A n \in 0 .. recs[k].size - 1 : m[fs[k].address + n] = Data(recs[k], n)
SizesInFlash(f, recs) ==
  \A k \in DOMAIN recs : f[INT * (k - 1)] = [size |-> recs[k].size, at |-> 0]
FilesInFlash(f, recs, upto) ==
  \A k \in 1 .. upto : \A n \in 0 .. recs[k].size - 1 :
    f[Spot(recs, k - 1) + n] = Data(recs[k], n)

FlashCells == 0 .. FlashSize - 1

SameBelow(f, g, a) == \A c \in FlashCells : c < a => g[c] = f[c]

LEMMA SubsectorsApart ==
  ASSUME NEW s \in Nat \ {0}, NEW q \in Nat, NEW c \in Nat, NEW b \in Nat,
         c < s * q, s * q <= b
  PROVE  c \div s # b \div s
<1>1. PICK e \in Nat, u \in 0 .. s - 1 : e = c \div s /\ c = s * e + u
  BY Quotients
<1>2. PICK j \in Nat, w \in 0 .. s - 1 : j = b \div s /\ b = s * j + w
  BY Quotients
<1>3. ASSUME e = j PROVE FALSE
  <2>1. CASE e < q
    <3>1. e + 1 <= q /\ e + 1 \in Nat
      BY <2>1
    <3>2. s * (e + 1) = s * e + s
      OBVIOUS
    <3>3. PICK x \in Nat, y \in Nat, z \in Nat : x = s * e /\ y = s * (e + 1) /\ z = s * q /\ y <= z
      BY <3>1, Products
    <3>4. QED
      BY <1>2, <1>3, <3>2, <3>3
  <2>2. CASE ~(e < q)
    <3>1. PICK x \in Nat, z \in Nat : x = s * e /\ z = s * q /\ z <= x
      BY <2>2, Products
    <3>2. QED
      BY <1>1, <3>1
  <2>3. QED
    BY <2>1, <2>2
<1>4. QED
  BY <1>1, <1>2, <1>3

LEMMA Erase ==
  ASSUME DOMAIN flash = FlashCells, NEW q \in Nat, NEW a \in Nat, a = SUBSECTOR_SIZE * q,
         NEW n \in Nat, erase_address_range(a, n)
  PROVE  /\ DOMAIN flash' = FlashCells /\ SameBelow(flash, flash', a)
         /\ \A c \in FlashCells : c \in a .. a + n - 1 => flash'[c] = Erased
<1>1. PICK s \in Nat \ {0} : s = SUBSECTOR_SIZE
  BY LayoutAssumption
<1>2. FlashSize \in Nat
  BY LayoutAssumption
<1>3. flash' = [c \in FlashCells |->
                  IF \E b \in a .. a + n - 1 : b \div s = c \div s THEN Erased ELSE flash[c]]
  BY <1>1 DEF erase_address_range, Subsector
<1>4. ASSUME NEW c \in FlashCells, c < a PROVE flash'[c] = flash[c]
  <2>1. c \in Nat /\ \A b \in a .. a + n - 1 : b \in Nat /\ a <= b
    BY <1>2 DEF FlashCells
  <2>2. \A b \in a .. a + n - 1 : b \div s # c \div s
    BY <1>1, <1>4, <2>1, SubsectorsApart
  <2>3. QED
    BY <1>3, <2>2
<1>5. ASSUME NEW c \in FlashCells, c \in a .. a + n - 1 PROVE flash'[c] = Erased
  BY <1>3, <1>5
<1>6. QED
  BY <1>3, <1>4, <1>5 DEF SameBelow

LEMMA Program ==
  ASSUME DOMAIN flash = FlashCells, NEW a \in Nat, NEW n \in Nat,
         NEW cells, DOMAIN cells = 0 .. n - 1, NEW f, f = Programmed(cells, a)
  PROVE  /\ DOMAIN f = FlashCells /\ SameBelow(flash, f, a)
         /\ \A k \in 0 .. n - 1 :
              a + k \in FlashCells /\ flash[a + k] = Erased => f[a + k] = cells[k]
<1>1. FlashSize \in Nat
  BY LayoutAssumption
<1>2. f = [c \in FlashCells |-> IF c - a \notin 0 .. n - 1 THEN flash[c]
                                ELSE IF flash[c] = Erased THEN cells[c - a] ELSE Spoiled]
  BY DEF Programmed
<1>3. ASSUME NEW c \in FlashCells, c < a PROVE f[c] = flash[c]
  <2>1. c - a \notin 0 .. n - 1
    BY <1>1, <1>3 DEF FlashCells
  <2>2. QED
    BY <1>2, <2>1
<1>4. ASSUME NEW k \in 0 .. n - 1, a + k \in FlashCells, flash[a + k] = Erased
      PROVE  f[a + k] = cells[k]
  <2>1. (a + k) - a = k
    OBVIOUS
  <2>2. QED
    BY <1>2, <1>4, <2>1
<1>5. QED
  BY <1>2, <1>3, <1>4 DEF SameBelow

(* What lies below is kept.                                                 *)
LEMMA BelowKept ==
  ASSUME NEW recs, NEW N \in Nat \ {0}, InOrder(recs, N), NEW m \in 0 .. N,
         NEW a \in Nat, FLASH_FIRMWARE_OFFSET <= a, Spot(recs, m) <= a,
         NEW f, NEW g, SameBelow(f, g, a),
         SizesInFlash(f, recs), FilesInFlash(f, recs, m)
  PROVE  SizesInFlash(g, recs) /\ FilesInFlash(g, recs, m)
<1>1. PICK w \in Nat \ {0} : w = INT
  BY LayoutAssumption
<1>2. FlashSize \in Nat /\ FLASH_FIRMWARE_OFFSET \in Nat /\ w * N <= FLASH_FIRMWARE_OFFSET
      /\ FLASH_FIRMWARE_OFFSET <= FlashSize
  <2>1. N \in 0 .. N
    OBVIOUS
  <2>2. /\ FLASH_FIRMWARE_OFFSET <= Spot(recs, N) /\ Spot(recs, N) <= FlashSize
        /\ Spot(recs, N) \in Nat
    BY <2>1 DEF InOrder
  <2>3. FlashSize \in Nat /\ FLASH_FIRMWARE_OFFSET \in Nat
    BY LayoutAssumption
  <2>4. QED
    BY <1>1, <2>2, <2>3 DEF InOrder
<1>3. ASSUME NEW k \in 1 .. N PROVE g[w * (k - 1)] = f[w * (k - 1)]
  <2>1. k - 1 \in Nat /\ k - 1 <= N - 1 /\ N - 1 \in Nat
    OBVIOUS
  <2>2. PICK x \in Nat, y \in Nat : x = w * (k - 1) /\ y = w * (N - 1) /\ x <= y
    BY <2>1, Products
  <2>3. w * N = w * (N - 1) + w
    OBVIOUS
  <2>4. x < FLASH_FIRMWARE_OFFSET
    BY <1>2, <2>2, <2>3
  <2>5. x \in FlashCells /\ x < a
    BY <1>2, <2>2, <2>4 DEF FlashCells
  <2>6. QED
    BY <2>2, <2>5 DEF SameBelow
<1>4. SizesInFlash(g, recs)
  BY <1>1, <1>3 DEF SizesInFlash, InOrder
<1>5. ASSUME NEW k \in 1 .. m, NEW n \in 0 .. recs[k].size - 1
      PROVE  g[Spot(recs, k - 1) + n] = Data(recs[k], n)
  <2>1. m \in 1 .. N /\ k \in 1 .. N /\ k - 1 \in 0 .. N /\ m \in 0 .. N
    OBVIOUS
  <2>2. PICK b \in Nat : b = Spot(recs, k - 1)
    BY <2>1 DEF InOrder
  <2>3. PICK e \in Nat : e = Spot(recs, m) /\ e <= FlashSize
    BY <2>1 DEF InOrder
  <2>4. PICK s \in Nat : s = recs[k].size /\ b + s <= e
    BY <2>1, <2>2, <2>3 DEF InOrder
  <2>5. b + n \in FlashCells /\ b + n < a
    BY <1>2, <2>3, <2>4 DEF FlashCells
  <2>6. g[b + n] = f[b + n]
    BY <2>5 DEF SameBelow
  <2>7. f[b + n] = Data(recs[k], n)
    BY <2>2 DEF FilesInFlash
  <2>8. QED
    BY <2>2, <2>6, <2>7
<1>6. FilesInFlash(g, recs, m)
  BY <1>5 DEF FilesInFlash
<1>7. QED
  BY <1>4, <1>6
-----------------------------------------------------------------------------
(* A file is loaded: no other word of memory changes.                       *)
Loaded(m, g, to, size) ==
  \A a \in 0 .. MemSize - 1 : a - to \notin WordsRead(size) => g[a] = m[a]

LEMMA BytesInWords ==
  ASSUME NEW size \in Nat
  PROVE  0 .. size - 1 \subseteq WordsRead(size)
<1>1. PICK w \in Nat \ {0} : w = INT
  BY LayoutAssumption
<1>2. \A n \in 0 .. size - 1 : n % w \in 0 .. w - 1 /\ n \in 0 .. size + w
  BY Quotients
<1>3. \A n \in 0 .. size - 1 : n - (n % w) < size
  BY <1>2
<1>4. QED
  BY <1>1, <1>2, <1>3 DEF WordsRead

LEMMA WordTail ==
  ASSUME NEW d \in Nat, NEW n \in Nat, d <= n, d % INT = 0
  PROVE  d <= n - (n % INT)
<1>1. PICK w \in Nat \ {0} : w = INT
  BY LayoutAssumption
<1>2. PICK p \in Nat : d = w * p
  BY <1>1, Multiples
<1>3. PICK r \in 0 .. w - 1 : r = n % w /\ \E e \in Nat : n = w * e + r
  BY Remainders
<1>4. PICK q \in Nat : n = w * q + r
  BY <1>3
<1>5. p <= q
  <2>1. CASE q < p
    <3>1. q + 1 \in Nat /\ q + 1 <= p /\ w * (q + 1) = w * q + w
      BY <2>1
    <3>2. PICK x \in Nat, y \in Nat, z \in Nat : x = w * q /\ y = w * (q + 1) /\ z = w * p /\ y <= z
      BY <3>1, Products
    <3>3. QED
      BY <1>2, <1>4, <3>1, <3>2
  <2>2. QED
    BY <2>1
<1>6. PICK x \in Nat, z \in Nat : x = w * q /\ z = w * p /\ z <= x
  BY <1>5, Products
<1>7. QED
  BY <1>1, <1>2, <1>3, <1>6, <1>4

LEMMA Differences ==
  ASSUME NEW a \in Nat, NEW b \in Nat, a <= b, a % INT = 0, b % INT = 0
  PROVE  b - a \in Nat /\ (b - a) % INT = 0
<1>1. PICK w \in Nat \ {0} : w = INT
  BY LayoutAssumption
<1>2. PICK p \in Nat, q \in Nat : a = w * p /\ b = w * q
  BY <1>1, Multiples
<1>3. b - a \in Nat
  OBVIOUS
<1>4. QED
  BY <1>1, <1>2, <1>3

LEMMA OthersKept ==
  ASSUME NEW fs, NEW recs, NEW N \in Nat, Apart(fs, recs, N), NEW j \in 1 .. N,
         NEW m, NEW g, Loaded(m, g, fs[j].address, recs[j].size),
         NEW k \in 1 .. N, k # j, NEW n \in 0 .. recs[k].size - 1
  PROVE  g[fs[k].address + n] = m[fs[k].address + n]
<1>1. PICK to \in Nat, size \in Nat :
        to = fs[j].address /\ size = recs[j].size /\ to % INT = 0
  BY DEF Apart
<1>2. PICK b \in Nat, s \in Nat :
        b = fs[k].address /\ s = recs[k].size /\ b % INT = 0 /\ b + s <= MemSize
  BY DEF Apart
<1>3. to + size <= b \/ b + s <= to
  BY <1>1, <1>2 DEF Apart
<1>4. n \in Nat /\ n < s /\ b + n \in 0 .. MemSize - 1
  <2>1. MemSize \in Nat
    BY LayoutAssumption
  <2>2. QED
    BY <1>2, <2>1
<1>5. (b + n) - to \notin WordsRead(size)
  <2>1. CASE to + size <= b
    <3>1. PICK d \in Nat : d = b - to /\ d % INT = 0 /\ size <= d
      BY <1>1, <1>2, <2>1, Differences
    <3>2. PICK e \in Nat : e = (b + n) - to /\ d <= e
      BY <1>4, <3>1
    <3>3. d <= e - (e % INT)
      BY <3>1, <3>2, WordTail
    <3>4. INT \in Nat \ {0}
      BY LayoutAssumption
    <3>5. e % INT \in Nat
      BY <3>4
    <3>6. ~(e - (e % INT) < size)
      BY <3>1, <3>3, <3>5
    <3>7. QED
      BY <3>2, <3>6 DEF WordsRead
  <2>2. CASE b + s <= to
    <3>1. (b + n) - to < 0 /\ (b + n) - to \in Int
      BY <1>4, <2>2
    <3>2. INT \in Nat
      BY LayoutAssumption
    <3>3. \A e \in WordsRead(size) : 0 <= e
      BY <3>2 DEF WordsRead
    <3>4. QED
      BY <3>1, <3>3
  <2>3. QED
    BY <1>3, <2>1, <2>2
<1>6. QED
  BY <1>1, <1>2, <1>4, <1>5 DEF Loaded

LEMMA OneMoreInMemory ==
  ASSUME NEW fs, NEW recs, NEW N \in Nat, Apart(fs, recs, N), NEW j \in 1 .. N,
         NEW m, NEW g, Loaded(m, g, fs[j].address, recs[j].size),
         InMemory(m, fs, recs, j - 1),
         \A n \in 0 .. recs[j].size - 1 : g[fs[j].address + n] = Data(recs[j], n)
  PROVE  InMemory(g, fs, recs, j)
<1>1. ASSUME NEW k \in 1 .. j, NEW n \in 0 .. recs[k].size - 1
      PROVE  g[fs[k].address + n] = Data(recs[k], n)
  <2>1. CASE k = j
    BY <2>1
  <2>2. CASE k # j
    <3>1. k \in 1 .. N /\ k \in 1 .. j - 1
      BY <2>2
    <3>2. g[fs[k].address + n] = m[fs[k].address + n]
      BY <2>2, <3>1, OthersKept
    <3>3. QED
      BY <3>1, <3>2 DEF InMemory
  <2>3. QED
    BY <2>1, <2>2
<1>2. QED
  BY <1>1 DEF InMemory
-----------------------------------------------------------------------------
(* What is known of flash and memory.                                       *)
CellsInv == DOMAIN flash = FlashCells /\ DOMAIN mem = 0 .. MemSize - 1

IsRecs(recs) == \E list \in Lists, sizes \in HostSizes : \E v : recs = RecsOf(list, sizes, v)

StoredInv ==
  stored # <<>> => /\ IsRecs(stored) /\ SizesInFlash(flash, stored)
                   /\ FilesInFlash(flash, stored, Len(stored))

Programming == {"storesizes", "erase", "program"}
FromConsole == {"get", "erasesizes"} \cup Programming
FromFlash   == {"readsizes", "read"}
Ended       == pc \in {"restart", "running"} \/ (pc = "reset" /\ ended)
Told        == pc \in FromConsole \cup FromFlash \/ Ended

ToldInv ==
  Told => host.list \in Lists /\ host.sizes \in HostSizes /\ files = Listed(host.list)

FlowInv ==
  /\ pc \in FromConsole => flow # "FLASH_TO_EXTMEM"
  /\ pc \in FromFlash => flow = "FLASH_TO_EXTMEM"
  /\ InFile => i \in 1 .. Len(files)
  /\ pc \in {"erasesizes", "storesizes", "readsizes"} => i = 1
  /\ pc \in {"get", "erasesizes", "storesizes", "readsizes"} => next_subsector = 0
  /\ pc \in Programming => stored = <<>>

HostRecs == RecsOf(host.list, host.sizes, host.version)

(* The first m files have arrived.                                          *)
Got(sizes, memory, fs, recs, m) ==
  /\ DOMAIN sizes = DOMAIN fs
  /\ \A k \in 1 .. m : sizes[k] = recs[k].size
  /\ InMemory(memory, fs, recs, m)

GotInv ==
  /\ pc = "get" => Got(file_sizes, mem, files, HostRecs, i - 1)
  /\ pc \in {"erasesizes"} \cup Programming =>
       Got(file_sizes, mem, files, HostRecs, Len(files))

ProgrammedInv ==
  /\ pc = "storesizes" => \A c \in 0 .. INT * Len(files) - 1 : flash[c] = Erased
  /\ pc \in {"erase", "program"} => /\ next_subsector = StartOf(HostRecs, i - 1)
                                    /\ SizesInFlash(flash, HostRecs)
                                    /\ FilesInFlash(flash, HostRecs, i - 1)
  /\ pc = "program" => \A n \in 0 .. file_sizes[i] - 1 : flash[FlashAddress + n] = Erased

Matches(fs, recs) == \A k \in DOMAIN fs : k \in DOMAIN recs /\ recs[k].name = fs[k].name

ReadInv ==
  pc = "read" /\ Matches(files, stored) =>
    /\ \A k \in DOMAIN files : file_sizes[k] = stored[k].size
    /\ next_subsector = StartOf(stored, i - 1)
    /\ InMemory(mem, files, stored, i - 1)

EndedInv ==
  Ended =>
    /\ flow # "FLASH_TO_EXTMEM" => InMemory(mem, files, HostRecs, Len(files))
    /\ flow = "FLASH_TO_EXTMEM" /\ Matches(files, stored) =>
         InMemory(mem, files, stored, Len(files))

LoadInv ==
  /\ CellsInv /\ StoredInv /\ ToldInv /\ FlowInv
  /\ GotInv /\ ProgrammedInv /\ ReadInv /\ EndedInv
-----------------------------------------------------------------------------
(* The files of the console, and those of the flash that the list names.    *)
ConsoleFiles(N) ==
  /\ DOMAIN files = 1 .. N /\ Len(files) = N
  /\ InOrder(HostRecs, N) /\ Numbered(HostRecs, N) /\ Apart(files, HostRecs, N)
  /\ \A k \in 1 .. N : HostRecs[k] = HostFile(files[k].name)

LEMMA TheConsoleFiles ==
  ASSUME ToldInv, Told
  PROVE  \E N \in Nat \ {0} : ConsoleFiles(N)
<1>1. host.list \in Lists /\ host.sizes \in HostSizes /\ files = Listed(host.list)
  BY DEF ToldInv
<1>2. PICK N \in Nat \ {0} : N = Len(host.list) /\ DOMAIN host.list = 1 .. N
  BY <1>1, Lengths
<1>3. DOMAIN files = 1 .. N /\ Len(files) = N
  <2>1. files \in Seq(FileEntry) /\ DOMAIN files = 1 .. N
    BY <1>1, <1>2, ListedType DEF Listed
  <2>2. QED
    BY <2>1
<1>4. \A k \in 1 .. N : files[k].name = host.list[k].name
  BY <1>1, <1>2 DEF Listed, Entry
<1>5. \A k \in 1 .. N :
        HostRecs[k] = [name |-> host.list[k].name, version |-> host.version,
                       size |-> host.sizes[host.list[k].name]]
  BY <1>2 DEF HostRecs, RecsOf
<1>6. \A k \in 1 .. N : HostRecs[k] = HostFile(files[k].name)
  BY <1>4, <1>5 DEF HostFile
<1>7. \A k \in 1 .. N : HostRecs[k].size = host.sizes[host.list[k].name]
  BY <1>2 DEF HostRecs, RecsOf
<1>8. Apart(files, HostRecs, N)
  BY <1>1, <1>2, <1>7, ListedApart
<1>9. InOrder(HostRecs, N) /\ Numbered(HostRecs, N)
  BY <1>1, <1>2, RecsInOrder DEF HostRecs
<1>10. QED
  BY <1>3, <1>6, <1>8, <1>9 DEF ConsoleFiles

FlashFiles(N, M) ==
  /\ DOMAIN files = 1 .. N /\ Len(files) = N /\ N <= M
  /\ InOrder(stored, M) /\ Numbered(stored, M) /\ Apart(files, stored, N)
  /\ SizesInFlash(flash, stored) /\ FilesInFlash(flash, stored, M)

LEMMA TheFlashFiles ==
  ASSUME ToldInv, StoredInv, Told, Matches(files, stored)
  PROVE  \E N \in Nat \ {0}, M \in Nat \ {0} : FlashFiles(N, M)
<1>1. host.list \in Lists /\ host.sizes \in HostSizes /\ files = Listed(host.list)
  BY DEF ToldInv
<1>2. PICK N \in Nat \ {0} : N = Len(host.list) /\ DOMAIN host.list = 1 .. N
  BY <1>1, Lengths
<1>3. DOMAIN files = 1 .. N /\ Len(files) = N
  <2>1. files \in Seq(FileEntry) /\ DOMAIN files = 1 .. N
    BY <1>1, <1>2, ListedType DEF Listed
  <2>2. QED
    BY <2>1
<1>4. \A k \in 1 .. N : files[k].name = host.list[k].name
  BY <1>1, <1>2 DEF Listed, Entry
<1>5. \A k \in 1 .. N : k \in DOMAIN stored /\ stored[k].name = host.list[k].name
  BY <1>3, <1>4 DEF Matches
<1>6. stored # <<>>
  <2>1. 1 \in DOMAIN stored
    BY <1>5
  <2>2. DOMAIN <<>> = {}
    OBVIOUS
  <2>3. QED
    BY <2>1, <2>2
<1>7. PICK list \in Lists, sizes \in HostSizes : \E v : stored = RecsOf(list, sizes, v)
  BY <1>6 DEF StoredInv, IsRecs
<1>8. PICK v : stored = RecsOf(list, sizes, v)
  BY <1>7
<1>9. PICK M \in Nat \ {0} : M = Len(list) /\ DOMAIN list = 1 .. M
  BY Lengths
<1>10. /\ DOMAIN stored = 1 .. M /\ Len(stored) = M
       /\ \A k \in 1 .. M : /\ stored[k].name = list[k].name
                            /\ stored[k].size = sizes[list[k].name]
  BY <1>8, <1>9 DEF RecsOf
<1>11. N <= M
  <2>1. N \in 1 .. N
    OBVIOUS
  <2>2. N \in 1 .. M
    BY <1>5, <1>10, <2>1
  <2>3. QED
    BY <2>2
<1>12. \A k \in 1 .. N : stored[k].size = sizes[host.list[k].name]
  <2>1. \A k \in 1 .. N : k \in 1 .. M
    BY <1>11
  <2>2. QED
    BY <1>5, <1>10, <2>1
<1>13. Apart(files, stored, N)
  BY <1>1, <1>2, <1>12, ListedApart
<1>14. InOrder(stored, M) /\ Numbered(stored, M)
  BY <1>8, <1>9, RecsInOrder
<1>15. SizesInFlash(flash, stored) /\ FilesInFlash(flash, stored, M)
  BY <1>6, <1>10 DEF StoredInv
<1>16. QED
  BY <1>3, <1>11, <1>13, <1>14, <1>15 DEF FlashFiles
-----------------------------------------------------------------------------
LEMMA LoadInit == Init => LoadInv
<1> SUFFICES ASSUME Init PROVE LoadInv
  OBVIOUS
<1>1. pc = "off" /\ stored = <<>>
  BY DEF Init
<1>2. CellsInv
  BY DEF Init, CellsInv, FlashCells
<1>3. StoredInv
  BY <1>1 DEF StoredInv
<1>4. ~Told /\ ~Ended
  BY <1>1 DEF Told, Ended, FromConsole, FromFlash, Programming
<1>5. ToldInv /\ EndedInv
  BY <1>4 DEF ToldInv, EndedInv
<1>6. FlowInv /\ GotInv /\ ProgrammedInv /\ ReadInv
  BY <1>1 DEF FlowInv, GotInv, ProgrammedInv, ReadInv, FromConsole, FromFlash, Programming, InFile
<1>7. QED
  BY <1>2, <1>3, <1>5, <1>6 DEF LoadInv

(* Where main knows nothing yet, only the flash matters.                    *)
LEMMA Nowhere ==
  ASSUME CellsInv', StoredInv', pc' \in {"off", "connect"} \/ (pc' = "reset" /\ ~ended')
  PROVE  LoadInv'
<1>1. ~Told' /\ ~Ended'
  BY DEF Told, Ended, FromConsole, FromFlash, Programming
<1>2. ToldInv' /\ EndedInv'
  BY <1>1 DEF ToldInv, EndedInv
<1>3. FlowInv' /\ GotInv' /\ ProgrammedInv' /\ ReadInv'
  BY DEF FlowInv, GotInv, ProgrammedInv, ReadInv, FromConsole, FromFlash, Programming, InFile
<1>4. QED
  BY <1>2, <1>3 DEF LoadInv

LEMMA FlashUnchanged ==
  ASSUME LoadInv, flash' = flash, stored' = stored, DOMAIN mem' = DOMAIN mem
  PROVE  CellsInv' /\ StoredInv'
<1>1. CellsInv'
  BY DEF LoadInv, CellsInv
<1>2. StoredInv'
  BY DEF LoadInv, StoredInv
<1>3. QED
  BY <1>1, <1>2

LEMMA ResetLoad ==
  ASSUME LoadInv, IInv', Tick \/ Restart \/ PowerOn \/ Reboot
  PROVE  LoadInv'
<1>1. CellsInv' /\ StoredInv'
  <2>1. flash' = flash /\ stored' = stored /\ mem' = mem
    BY DEF Tick, Restart, PowerOn, Reboot
  <2>2. QED
    BY <2>1, FlashUnchanged
<1>2. CASE PowerOn \/ Reboot
  <2>1. pc' = "reset" /\ ended' = FALSE
    BY <1>2 DEF PowerOn, Reboot, RestartCPU
  <2>2. QED
    BY <1>1, <2>1, Nowhere
<1>3. CASE Tick \/ Restart
  <2>1. /\ UNCHANGED <<flash, mem, software, stored>>
        /\ pc' \in {"reset", "connect", "running"}
        /\ \/ pc = "reset" /\ ended' = ended
           \/ pc = "restart"
    BY <1>3 DEF Tick, Restart, RestartCPU
  <2>2. /\ mem' = mem /\ flow' = flow /\ files' = files /\ host' = host /\ stored' = stored
    BY <2>1 DEF software
  <2>3. ASSUME Ended' PROVE Ended
    <3>1. CASE pc = "restart"
      BY <3>1 DEF Ended
    <3>2. CASE pc = "reset" /\ ended' = ended
      <4>1. ended'
        BY <2>1, <2>3, <3>2 DEF Ended, IInv, InItsPlace
      <4>2. QED
        BY <3>2, <4>1 DEF Ended
    <3>3. QED
      BY <2>1, <3>1, <3>2
  <2>4. Told' => Ended' /\ Told
    <3>1. Told' => Ended'
      BY <2>1 DEF Told, FromConsole, FromFlash, Programming
    <3>2. Ended => Told
      BY DEF Told
    <3>3. QED
      BY <2>3, <3>1, <3>2
  <2>5. ToldInv'
    BY <2>2, <2>4 DEF ToldInv, LoadInv
  <2>6. EndedInv'
    BY <2>2, <2>3 DEF EndedInv, LoadInv, HostRecs
  <2>7. FlowInv' /\ GotInv' /\ ProgrammedInv' /\ ReadInv'
    BY <2>1 DEF FlowInv, GotInv, ProgrammedInv, ReadInv, FromConsole, FromFlash, Programming, InFile
  <2>8. QED
    BY <1>1, <2>5, <2>6, <2>7 DEF LoadInv
<1>4. QED
  BY <1>2, <1>3

LEMMA PowerCutLoad ==
  ASSUME LoadInv, PowerCut
  PROVE  LoadInv'
<1>1. /\ pc' = "off" /\ stored' = stored /\ mem' = [a \in DOMAIN mem |-> Junk]
      /\ DOMAIN flash' = DOMAIN flash /\ (flash' # flash => pc = "program")
  BY DEF PowerCut, Programmed
<1>2. CellsInv'
  BY <1>1 DEF LoadInv, CellsInv
<1>3. StoredInv'
  <2>1. CASE pc = "program"
    <3>1. stored' = <<>>
      BY <1>1, <2>1 DEF LoadInv, FlowInv, Programming
    <3>2. QED
      BY <3>1 DEF StoredInv
  <2>2. CASE pc # "program"
    BY <1>1, <2>2 DEF LoadInv, StoredInv
  <2>3. QED
    BY <2>1, <2>2
<1>4. QED
  BY <1>1, <1>2, <1>3, Nowhere
-----------------------------------------------------------------------------
LEMMA ReceiveLoad ==
  ASSUME LoadInv, ReceiveList
  PROVE  LoadInv'
<1>1. PICK f \in Flows, list \in Lists, sizes \in HostSizes, newline \in {<<>>, Newline} :
        /\ flow' = f
        /\ files' = compute_mem_load_txt(Text(list, newline))
        /\ host' = [list |-> list, sizes |-> sizes, version |-> boots]
        /\ DOMAIN mem' = DOMAIN mem
        /\ file_sizes' = [k \in DOMAIN list |-> 0]
        /\ pc' = IF f = "FLASH_TO_EXTMEM" THEN "readsizes" ELSE "get"
  BY DEF ReceiveList
<1>2. i' = 1 /\ next_subsector' = 0 /\ flash' = flash /\ stored' = stored
  BY DEF ReceiveList
<1>3. CellsInv' /\ StoredInv'
  BY <1>1, <1>2, FlashUnchanged
<1>4. files' = Listed(list)
  BY <1>1, ParserReads
<1>5. host'.list = list /\ host'.sizes = sizes
  BY <1>1
<1>6. ToldInv'
  BY <1>4, <1>5 DEF ToldInv
<1>7. PICK N \in Nat \ {0} : N = Len(list) /\ DOMAIN list = 1 .. N
  BY Lengths
<1>8. DOMAIN files' = 1 .. N /\ Len(files') = N
  <2>1. files' \in Seq(FileEntry) /\ DOMAIN files' = 1 .. N
    BY <1>4, <1>7, ListedType DEF Listed
  <2>2. QED
    BY <2>1
<1>9. FlowInv'
  <2>1. pc' \in {"get", "readsizes"} /\ (pc' = "get" <=> flow' # "FLASH_TO_EXTMEM")
    BY <1>1
  <2>2. i' \in 1 .. Len(files')
    BY <1>2, <1>8
  <2>3. QED
    BY <1>2, <2>1, <2>2 DEF FlowInv, FromConsole, FromFlash, Programming, InFile
<1>10. Got(file_sizes', mem', files', HostRecs', i' - 1)
  <2>1. DOMAIN file_sizes' = DOMAIN files'
    BY <1>1, <1>7, <1>8
  <2>2. i' - 1 = 0 /\ \A k \in 1 .. 0 : FALSE
    BY <1>2
  <2>3. QED
    BY <2>1, <2>2 DEF Got, InMemory
<1>11. pc' \in {"get", "readsizes"}
  BY <1>1
<1>12. GotInv' /\ ProgrammedInv' /\ ReadInv' /\ EndedInv'
  BY <1>10, <1>11 DEF GotInv, ProgrammedInv, ReadInv, EndedInv, Ended, Programming
<1>13. QED
  BY <1>3, <1>6, <1>9, <1>12 DEF LoadInv

(* Steps of main after the list.                                            *)
LEMMA GetLoad ==
  ASSUME LoadInv, console_get_files
  PROVE  LoadInv'
<1>1. /\ pc = "get" /\ i' = IF IsLast THEN 1 ELSE i + 1
      /\ pc' = IF IsLast THEN (IF flow = "CONSOLE_TO_FLASH" THEN "erasesizes" ELSE "restart")
               ELSE "get"
      /\ file_sizes' = [file_sizes EXCEPT ![i] = HostFile(files[i].name).size]
      /\ mem' = [a \in DOMAIN mem |->
                   IF a - files[i].address \in 0 .. HostFile(files[i].name).size - 1
                   THEN Data(HostFile(files[i].name), a - files[i].address) ELSE mem[a]]
      /\ flash' = flash /\ flow' = flow /\ files' = files /\ next_subsector' = next_subsector
      /\ host' = host /\ stored' = stored
  BY DEF console_get_files, NextFile
<1>2. Told /\ pc \in FromConsole
  BY <1>1 DEF Told, FromConsole
<1>3. PICK N \in Nat \ {0} : ConsoleFiles(N)
  BY <1>2, TheConsoleFiles DEF LoadInv
<1>4. i \in 1 .. N /\ next_subsector = 0 /\ flow # "FLASH_TO_EXTMEM"
  BY <1>1, <1>2, <1>3 DEF LoadInv, FlowInv, ConsoleFiles, InFile
<1>5. CellsInv' /\ StoredInv'
  BY <1>1, FlashUnchanged
<1>6. HostRecs' = HostRecs
  BY <1>1 DEF HostRecs
<1>7. PICK R : R = HostRecs /\ Got(file_sizes, mem, files, R, i - 1)
  BY <1>1 DEF LoadInv, GotInv
<1>8. PICK to \in Nat, size \in Nat :
        to = files[i].address /\ size = R[i].size /\ to + size <= MemSize
        /\ R[i] = HostFile(files[i].name)
  BY <1>3, <1>4, <1>7 DEF ConsoleFiles, Apart
<1>9. mem' = [a \in 0 .. MemSize - 1 |-> IF a - to \in 0 .. size - 1
                                         THEN Data(R[i], a - to) ELSE mem[a]]
  BY <1>1, <1>8 DEF LoadInv, CellsInv
<1>10. Loaded(mem, mem', to, size)
  <2>1. 0 .. size - 1 \subseteq WordsRead(size)
    BY BytesInWords
  <2>2. QED
    BY <1>9, <2>1 DEF Loaded
<1>11. \A n \in 0 .. size - 1 : mem'[to + n] = Data(R[i], n)
  <2>1. \A n \in 0 .. size - 1 : to + n \in 0 .. MemSize - 1 /\ (to + n) - to = n
    <3>1. MemSize \in Nat
      BY LayoutAssumption
    <3>2. QED
      BY <1>8, <3>1
  <2>2. QED
    BY <1>9, <2>1
<1>12. Apart(files, R, N) /\ InMemory(mem, files, R, i - 1)
  BY <1>3, <1>7 DEF ConsoleFiles, Got
<1>13. InMemory(mem', files, R, i)
  BY <1>4, <1>8, <1>10, <1>11, <1>12, OneMoreInMemory
<1>14. Got(file_sizes', mem', files, R, i)
  <2>1. DOMAIN file_sizes = 1 .. N /\ \A k \in 1 .. i - 1 : file_sizes[k] = R[k].size
    BY <1>3, <1>7 DEF ConsoleFiles, Got
  <2>2. file_sizes' = [file_sizes EXCEPT ![i] = size]
    BY <1>1, <1>8
  <2>3. \A k \in 1 .. i : k = i \/ k \in 1 .. i - 1
    BY <1>4
  <2>4. DOMAIN file_sizes' = 1 .. N /\ \A k \in 1 .. i : file_sizes'[k] = R[k].size
    BY <1>4, <1>8, <2>1, <2>2, <2>3
  <2>5. QED
    BY <1>3, <1>13, <2>4 DEF Got, ConsoleFiles
<1>15. ToldInv'
  BY <1>1, <1>2 DEF LoadInv, ToldInv
<1>16. CASE i # N
  <2>1. pc' = "get" /\ i' = i + 1 /\ i + 1 \in 1 .. N
    BY <1>1, <1>3, <1>4, <1>16 DEF IsLast, ConsoleFiles
  <2>2. FlowInv'
    BY <1>1, <1>3, <1>4, <2>1
    DEF FlowInv, FromConsole, FromFlash, Programming, InFile, ConsoleFiles
  <2>3. GotInv'
    <3>1. i' - 1 = i
      BY <1>4, <2>1
    <3>2. QED
      BY <1>1, <1>6, <1>7, <1>14, <2>1, <3>1 DEF GotInv, Programming
  <2>4. ProgrammedInv' /\ ReadInv' /\ EndedInv'
    BY <2>1 DEF ProgrammedInv, ReadInv, EndedInv, Ended
  <2>5. QED
    BY <1>5, <1>15, <2>2, <2>3, <2>4 DEF LoadInv
<1>17. CASE i = N
  <2>1. pc' \in {"erasesizes", "restart"} /\ i' = 1 /\ Len(files) = i
    BY <1>1, <1>3, <1>4, <1>17 DEF IsLast, ConsoleFiles
  <2>2. FlowInv'
    BY <1>1, <1>4, <2>1 DEF FlowInv, FromConsole, FromFlash, Programming, InFile
  <2>3. GotInv'
    BY <1>1, <1>6, <1>7, <1>14, <2>1 DEF GotInv, Programming
  <2>4. ProgrammedInv' /\ ReadInv'
    BY <2>1 DEF ProgrammedInv, ReadInv
  <2>5. EndedInv'
    BY <1>1, <1>4, <1>6, <1>7, <1>13, <2>1 DEF EndedInv
  <2>6. QED
    BY <1>5, <1>15, <2>2, <2>3, <2>4, <2>5 DEF LoadInv
<1>18. QED
  BY <1>16, <1>17
-----------------------------------------------------------------------------
(* Programming changes neither memory nor what main knows.                  *)
LEMMA MainKept ==
  ASSUME LoadInv, pc \in {"erasesizes"} \cup Programming,
         UNCHANGED <<mem, flow, files, file_sizes, host>>,
         pc' \in Programming
  PROVE  ToldInv' /\ GotInv' /\ ReadInv' /\ EndedInv' /\ HostRecs' = HostRecs
<1>1. /\ mem' = mem /\ flow' = flow /\ files' = files /\ file_sizes' = file_sizes
      /\ host' = host
  OBVIOUS
<1>2. Told
  BY DEF Told, FromConsole, Programming
<1>3. ToldInv'
  BY <1>1, <1>2 DEF LoadInv, ToldInv
<1>4. HostRecs' = HostRecs
  BY <1>1 DEF HostRecs
<1>5. GotInv'
  BY <1>1, <1>4 DEF LoadInv, GotInv, Programming
<1>6. ReadInv' /\ EndedInv'
  BY DEF ReadInv, EndedInv, Ended, Programming
<1>7. QED
  BY <1>3, <1>4, <1>5, <1>6

LEMMA EraseSizesLoad ==
  ASSUME LoadInv, EraseSizes
  PROVE  LoadInv'
<1>1. /\ pc = "erasesizes" /\ pc' = "storesizes" /\ stored' = <<>>
      /\ mem' = mem /\ flow' = flow /\ files' = files /\ file_sizes' = file_sizes
      /\ i' = i /\ next_subsector' = next_subsector /\ host' = host
      /\ erase_address_range(0, INT * Len(files))
  BY DEF EraseSizes, software
<1>2. PICK N \in Nat \ {0} : ConsoleFiles(N)
  BY <1>1, TheConsoleFiles DEF LoadInv, Told, FromConsole
<1>3. DOMAIN flash = FlashCells /\ Len(files) = N
  BY <1>2 DEF LoadInv, CellsInv, ConsoleFiles
<1>4. PICK n \in Nat : n = INT * N
  <2>1. PICK w \in Nat : w = INT
    BY LayoutAssumption
  <2>2. w * N \in Nat
    BY Products
  <2>3. QED
    BY <2>1, <2>2
<1>5. /\ DOMAIN flash' = FlashCells
      /\ \A c \in FlashCells : c \in 0 .. 0 + n - 1 => flash'[c] = Erased
  <2>1. PICK q \in Nat, a \in Nat : q = 0 /\ a = 0 /\ a = SUBSECTOR_SIZE * q
    BY LayoutAssumption
  <2>2. erase_address_range(a, n)
    BY <1>1, <1>3, <1>4, <2>1
  <2>3. /\ DOMAIN flash' = FlashCells
        /\ \A c \in FlashCells : c \in a .. a + n - 1 => flash'[c] = Erased
    BY <1>3, <2>1, <2>2, Erase
  <2>4. QED
    BY <2>1, <2>3
<1>6. n <= FlashSize
  <2>1. N \in 0 .. N
    OBVIOUS
  <2>2. /\ INT * N <= FLASH_FIRMWARE_OFFSET /\ Spot(HostRecs, N) \in Nat
        /\ FLASH_FIRMWARE_OFFSET <= Spot(HostRecs, N) /\ Spot(HostRecs, N) <= FlashSize
    BY <1>2, <2>1 DEF ConsoleFiles, InOrder
  <2>3. FLASH_FIRMWARE_OFFSET \in Nat /\ FlashSize \in Nat
    BY LayoutAssumption
  <2>4. QED
    BY <1>4, <2>2, <2>3
<1>7. \A c \in 0 .. n - 1 : flash'[c] = Erased
  <2>1. \A c \in 0 .. n - 1 : c \in FlashCells /\ c \in 0 .. 0 + n - 1
    BY <1>6, LayoutAssumption DEF FlashCells
  <2>2. QED
    BY <1>5, <2>1
<1>8. CellsInv' /\ StoredInv'
  BY <1>1, <1>5 DEF LoadInv, CellsInv, StoredInv
<1>9. FlowInv'
  BY <1>1 DEF LoadInv, FlowInv, FromConsole, FromFlash, Programming, InFile
<1>10. ProgrammedInv'
  BY <1>1, <1>3, <1>4, <1>7 DEF ProgrammedInv
<1>11. ToldInv' /\ GotInv' /\ ReadInv' /\ EndedInv'
  BY <1>1, MainKept DEF Programming
<1>12. QED
  BY <1>8, <1>9, <1>10, <1>11 DEF LoadInv

LEMMA SizeCellsAre ==
  ASSUME NEW k \in 1 .. Len(files), Len(files) \in Nat
  PROVE  /\ INT * (k - 1) \in 0 .. INT * Len(files) - 1
         /\ SizeCells[INT * (k - 1)] = [size |-> file_sizes[k], at |-> 0]
<1>1. PICK w \in Nat \ {0} : w = INT
  BY LayoutAssumption
<1>2. PICK N \in Nat : N = Len(files) /\ k \in 1 .. N
  OBVIOUS
<1>3. PICK j \in Nat : j = k - 1 /\ j + 1 <= N /\ j + 1 = k
  BY <1>2
<1>4. PICK x \in Nat : x = w * j
  BY Products
<1>5. x \div w = j /\ x % w = 0
  BY <1>4
<1>6. x \in 0 .. w * N - 1
  <2>1. j + 1 \in Nat /\ w * (j + 1) = w * j + w
    OBVIOUS
  <2>2. PICK y \in Nat, z \in Nat : y = w * (j + 1) /\ z = w * N /\ y <= z
    BY <1>3, <2>1, Products
  <2>3. QED
    BY <1>4, <2>1, <2>2
<1>7. SizeCells[x] = [size |-> file_sizes[(x \div w) + 1], at |-> x % w]
  BY <1>1, <1>2, <1>6 DEF SizeCells
<1>8. QED
  BY <1>1, <1>2, <1>3, <1>4, <1>5, <1>6, <1>7

LEMMA StoreSizesLoad ==
  ASSUME LoadInv, StoreSizes
  PROVE  LoadInv'
<1>1. /\ pc = "storesizes" /\ pc' = "erase" /\ stored' = stored
      /\ mem' = mem /\ flow' = flow /\ files' = files /\ file_sizes' = file_sizes
      /\ i' = i /\ next_subsector' = next_subsector /\ host' = host
      /\ flash' = Programmed(SizeCells, 0)
  BY DEF StoreSizes, software
<1>2. PICK N \in Nat \ {0} : ConsoleFiles(N)
  BY <1>1, TheConsoleFiles DEF LoadInv, Told, FromConsole, Programming
<1>3. DOMAIN flash = FlashCells /\ Len(files) = N /\ DOMAIN HostRecs = 1 .. N
  BY <1>2 DEF LoadInv, CellsInv, ConsoleFiles, InOrder
<1>4. PICK n \in Nat : n = INT * N
  <2>1. PICK w \in Nat : w = INT
    BY LayoutAssumption
  <2>2. w * N \in Nat
    BY Products
  <2>3. QED
    BY <2>1, <2>2
<1>5. DOMAIN SizeCells = 0 .. n - 1
  BY <1>3, <1>4 DEF SizeCells
<1>6. /\ DOMAIN flash' = FlashCells
      /\ \A k \in 0 .. n - 1 :
           0 + k \in FlashCells /\ flash[0 + k] = Erased => flash'[0 + k] = SizeCells[k]
  <2>1. PICK a \in Nat : a = 0
    OBVIOUS
  <2>2. PICK cells : cells = SizeCells /\ DOMAIN cells = 0 .. n - 1 /\ flash' = Programmed(cells, a)
    BY <1>1, <1>5, <2>1
  <2>3. /\ DOMAIN flash' = FlashCells
        /\ \A k \in 0 .. n - 1 :
             a + k \in FlashCells /\ flash[a + k] = Erased => flash'[a + k] = cells[k]
    BY <1>3, <2>2, Program
  <2>4. QED
    BY <2>1, <2>2, <2>3
<1>7. n <= FlashSize
  <2>1. N \in 0 .. N
    OBVIOUS
  <2>2. /\ INT * N <= FLASH_FIRMWARE_OFFSET /\ Spot(HostRecs, N) \in Nat
        /\ FLASH_FIRMWARE_OFFSET <= Spot(HostRecs, N) /\ Spot(HostRecs, N) <= FlashSize
    BY <1>2, <2>1 DEF ConsoleFiles, InOrder
  <2>3. FLASH_FIRMWARE_OFFSET \in Nat /\ FlashSize \in Nat
    BY LayoutAssumption
  <2>4. QED
    BY <1>4, <2>2, <2>3
<1>8. ASSUME NEW k \in 1 .. N
      PROVE  flash'[INT * (k - 1)] = [size |-> HostRecs[k].size, at |-> 0]
  <2>1. PICK c \in 0 .. n - 1 :
          c = INT * (k - 1) /\ SizeCells[c] = [size |-> file_sizes[k], at |-> 0]
    BY <1>3, <1>4, SizeCellsAre
  <2>2. c \in FlashCells /\ 0 + c = c
    BY <1>7, LayoutAssumption DEF FlashCells
  <2>3. flash[c] = Erased
    BY <1>1, <1>3, <1>4 DEF LoadInv, ProgrammedInv
  <2>4. flash'[c] = SizeCells[c]
    BY <1>6, <2>2, <2>3
  <2>5. file_sizes[k] = HostRecs[k].size
    BY <1>1, <1>3 DEF LoadInv, GotInv, Got, Programming
  <2>6. QED
    BY <2>1, <2>4, <2>5
<1>9. HostRecs' = HostRecs /\ ToldInv' /\ GotInv' /\ ReadInv' /\ EndedInv'
  BY <1>1, MainKept DEF Programming
<1>10. SizesInFlash(flash', HostRecs)
  BY <1>3, <1>8 DEF SizesInFlash
<1>11. i = 1 /\ next_subsector = 0 /\ stored = <<>> /\ flow # "FLASH_TO_EXTMEM"
  BY <1>1 DEF LoadInv, FlowInv, Programming, FromConsole
<1>12. FilesInFlash(flash', HostRecs, i - 1)
  BY <1>11 DEF FilesInFlash
<1>13. next_subsector' = StartOf(HostRecs, i' - 1)
  <2>1. next_subsector' = 0 /\ i' - 1 = 0
    BY <1>1, <1>11
  <2>2. StartOf(HostRecs, 0) = 0
    BY <1>2 DEF ConsoleFiles, Numbered
  <2>3. QED
    BY <2>1, <2>2
<1>14. ProgrammedInv'
  BY <1>1, <1>9, <1>10, <1>12, <1>13 DEF ProgrammedInv
<1>15. CellsInv' /\ StoredInv'
  BY <1>1, <1>6, <1>11 DEF LoadInv, CellsInv, StoredInv
<1>16. FlowInv'
  <2>1. i' \in 1 .. Len(files')
    BY <1>1, <1>3, <1>11
  <2>2. QED
    BY <1>1, <1>11, <2>1 DEF FlowInv, FromConsole, FromFlash, Programming, InFile
<1>17. QED
  BY <1>9, <1>14, <1>15, <1>16 DEF LoadInv
-----------------------------------------------------------------------------
(* The file that is programmed, and what lies below it.                     *)
ThisFile(N, a, size) ==
  /\ ConsoleFiles(N) /\ i \in 1 .. N
  /\ a = FlashAddress /\ a = Spot(HostRecs, i - 1) /\ FLASH_FIRMWARE_OFFSET <= a
  /\ size = file_sizes[i] /\ size = HostRecs[i].size
  /\ a + size <= FlashSize
  /\ \E q \in Nat : a = SUBSECTOR_SIZE * q

LEMMA TheFile ==
  ASSUME LoadInv, pc \in {"erase", "program"}
  PROVE  \E N \in Nat \ {0}, a \in Nat, size \in Nat : ThisFile(N, a, size)
<1>1. Told
  BY DEF Told, FromConsole, Programming
<1>2. PICK N \in Nat \ {0} : ConsoleFiles(N)
  BY <1>1, TheConsoleFiles DEF LoadInv
<1>3. Len(files) = N /\ InOrder(HostRecs, N)
  BY <1>2 DEF ConsoleFiles
<1>4. i \in 1 .. N
  BY <1>3 DEF LoadInv, FlowInv, InFile
<1>5. i - 1 \in 0 .. N /\ i \in 0 .. N /\ i \in 1 .. i
  BY <1>4
<1>6. PICK a \in Nat : /\ a = Spot(HostRecs, i - 1) /\ FLASH_FIRMWARE_OFFSET <= a
                       /\ \E q \in Nat : a = SUBSECTOR_SIZE * q
  BY <1>3, <1>5 DEF InOrder
<1>7. PICK e \in Nat : e = Spot(HostRecs, i) /\ e <= FlashSize
  BY <1>3, <1>5 DEF InOrder
<1>8. PICK size \in Nat : size = HostRecs[i].size /\ a + size <= e
  BY <1>3, <1>4, <1>5, <1>6, <1>7 DEF InOrder
<1>9. size = file_sizes[i]
  BY <1>3, <1>4, <1>8 DEF LoadInv, GotInv, Got, Programming
<1>10. a = FlashAddress
  BY <1>6 DEF LoadInv, ProgrammedInv, Spot, FlashAddress
<1>11. a + size <= FlashSize
  <2>1. FlashSize \in Nat
    BY LayoutAssumption
  <2>2. QED
    BY <1>7, <1>8, <2>1
<1>12. QED
  BY <1>2, <1>4, <1>6, <1>8, <1>9, <1>10, <1>11 DEF ThisFile

LEMMA BelowThisFile ==
  ASSUME LoadInv, pc \in {"erase", "program"}, NEW N \in Nat \ {0}, NEW a \in Nat,
         NEW size \in Nat, ThisFile(N, a, size), NEW g, SameBelow(flash, g, a)
  PROVE  SizesInFlash(g, HostRecs) /\ FilesInFlash(g, HostRecs, i - 1)
<1>1. InOrder(HostRecs, N) /\ i - 1 \in 0 .. N /\ FLASH_FIRMWARE_OFFSET <= a
      /\ Spot(HostRecs, i - 1) <= a
  BY DEF ThisFile, ConsoleFiles
<1>2. SizesInFlash(flash, HostRecs) /\ FilesInFlash(flash, HostRecs, i - 1)
  BY DEF LoadInv, ProgrammedInv
<1>3. PICK R : R = HostRecs
  OBVIOUS
<1>4. PICK m \in 0 .. N : m = i - 1
  BY <1>1
<1>5. SizesInFlash(g, R) /\ FilesInFlash(g, R, m)
  BY <1>1, <1>2, <1>3, <1>4, BelowKept
<1>6. QED
  BY <1>3, <1>4, <1>5

LEMMA EraseFileLoad ==
  ASSUME LoadInv, EraseFile
  PROVE  LoadInv'
<1>1. /\ pc = "erase" /\ pc' = "program" /\ stored' = stored
      /\ mem' = mem /\ flow' = flow /\ files' = files /\ file_sizes' = file_sizes
      /\ i' = i /\ next_subsector' = next_subsector /\ host' = host
      /\ erase_address_range(FlashAddress, file_sizes[i])
  BY DEF EraseFile, software
<1>2. PICK N \in Nat \ {0}, a \in Nat, size \in Nat : ThisFile(N, a, size)
  BY <1>1, TheFile
<1>3. PICK q \in Nat : a = SUBSECTOR_SIZE * q
  BY <1>2 DEF ThisFile
<1>4. a = FlashAddress /\ size = file_sizes[i] /\ a + size <= FlashSize /\ i \in 1 .. N
      /\ Len(files) = N /\ a = Spot(HostRecs, i - 1)
  BY <1>2 DEF ThisFile, ConsoleFiles
<1>5. DOMAIN flash = FlashCells /\ erase_address_range(a, size)
  BY <1>1, <1>4 DEF LoadInv, CellsInv
<1>6. /\ DOMAIN flash' = FlashCells /\ SameBelow(flash, flash', a)
      /\ \A c \in FlashCells : c \in a .. a + size - 1 => flash'[c] = Erased
  BY <1>3, <1>5, Erase
<1>7. SizesInFlash(flash', HostRecs) /\ FilesInFlash(flash', HostRecs, i - 1)
  BY <1>1, <1>2, <1>6, BelowThisFile
<1>8. \A n \in 0 .. size - 1 : flash'[a + n] = Erased
  <2>1. \A n \in 0 .. size - 1 : a + n \in FlashCells /\ a + n \in a .. a + size - 1
    <3>1. FlashSize \in Nat
      BY LayoutAssumption
    <3>2. QED
      BY <1>4, <3>1, SMTT(30) DEF FlashCells
  <2>2. QED
    BY <1>6, <2>1
<1>9. HostRecs' = HostRecs /\ ToldInv' /\ GotInv' /\ ReadInv' /\ EndedInv'
  BY <1>1, MainKept DEF Programming
<1>10. FlashAddress' = FlashAddress /\ next_subsector = StartOf(HostRecs, i - 1)
  BY <1>1 DEF FlashAddress, LoadInv, ProgrammedInv
<1>11. ProgrammedInv'
  BY <1>1, <1>4, <1>7, <1>8, <1>9, <1>10 DEF ProgrammedInv
<1>12. stored = <<>> /\ flow # "FLASH_TO_EXTMEM"
  BY <1>1 DEF LoadInv, FlowInv, Programming, FromConsole
<1>13. CellsInv' /\ StoredInv'
  BY <1>1, <1>6, <1>12 DEF LoadInv, CellsInv, StoredInv
<1>14. FlowInv'
  BY <1>1, <1>4, <1>12 DEF FlowInv, FromConsole, FromFlash, Programming, InFile
<1>15. QED
  BY <1>9, <1>11, <1>13, <1>14 DEF LoadInv

LEMMA ProgramFileLoad ==
  ASSUME LoadInv, ProgramFile
  PROVE  LoadInv'
<1>1. /\ pc = "program" /\ flash' = Programmed(FileCells, FlashAddress)
      /\ next_subsector' = next_subsector + Subsectors(file_sizes[i])
      /\ mem' = mem /\ flow' = flow /\ files' = files /\ file_sizes' = file_sizes
      /\ host' = host
      /\ IF i = Len(files)
         THEN /\ pc' = "restart" /\ i' = 1
              /\ stored' = [k \in DOMAIN files |-> HostFile(files[k].name)]
         ELSE pc' = "erase" /\ i' = i + 1 /\ stored' = stored
  BY DEF ProgramFile, IsLast
<1>2. PICK N \in Nat \ {0}, a \in Nat, size \in Nat : ThisFile(N, a, size)
  BY <1>1, TheFile
<1>3. ConsoleFiles(N)
  BY <1>2 DEF ThisFile
<1>4. a = FlashAddress /\ size = file_sizes[i] /\ a + size <= FlashSize /\ i \in 1 .. N
      /\ Len(files) = N /\ a = Spot(HostRecs, i - 1) /\ size = HostRecs[i].size
  BY <1>2 DEF ThisFile, ConsoleFiles
<1>5. DOMAIN flash = FlashCells
  BY DEF LoadInv, CellsInv
<1>6. /\ DOMAIN FileCells = 0 .. size - 1
      /\ \A n \in 0 .. size - 1 : FileCells[n] = mem[files[i].address + n]
  BY <1>4 DEF FileCells
<1>7. /\ DOMAIN flash' = FlashCells /\ SameBelow(flash, flash', a)
      /\ \A n \in 0 .. size - 1 :
           a + n \in FlashCells /\ flash[a + n] = Erased => flash'[a + n] = FileCells[n]
  <2>1. PICK cells : cells = FileCells
    OBVIOUS
  <2>2. DOMAIN cells = 0 .. size - 1 /\ flash' = Programmed(cells, a)
    BY <1>1, <1>4, <1>6, <2>1
  <2>3. /\ DOMAIN flash' = FlashCells /\ SameBelow(flash, flash', a)
        /\ \A n \in 0 .. size - 1 :
             a + n \in FlashCells /\ flash[a + n] = Erased => flash'[a + n] = cells[n]
    BY <1>5, <2>2, Program
  <2>4. QED
    BY <2>1, <2>3
<1>8. SizesInFlash(flash', HostRecs) /\ FilesInFlash(flash', HostRecs, i - 1)
  BY <1>1, <1>2, <1>7, BelowThisFile
<1>9. Got(file_sizes, mem, files, HostRecs, N)
  BY <1>1, <1>4 DEF LoadInv, GotInv, Programming
<1>10. \A n \in 0 .. size - 1 : flash'[a + n] = Data(HostRecs[i], n)
  <2>1. \A n \in 0 .. size - 1 : a + n \in FlashCells
    <3>1. FlashSize \in Nat
      BY LayoutAssumption
    <3>2. QED
      BY <1>4, <3>1, SMTT(30) DEF FlashCells
  <2>2. \A n \in 0 .. size - 1 : flash[a + n] = Erased
    BY <1>1, <1>4 DEF LoadInv, ProgrammedInv
  <2>3. \A n \in 0 .. size - 1 : mem[files[i].address + n] = Data(HostRecs[i], n)
    BY <1>4, <1>9 DEF Got, InMemory
  <2>4. QED
    BY <1>6, <1>7, <2>1, <2>2, <2>3
<1>11. FilesInFlash(flash', HostRecs, i)
  <2>1. ASSUME NEW k \in 1 .. i, NEW n \in 0 .. HostRecs[k].size - 1
        PROVE  flash'[Spot(HostRecs, k - 1) + n] = Data(HostRecs[k], n)
    <3>1. CASE k = i
      BY <1>4, <1>10, <3>1
    <3>2. CASE k # i
      <4>1. k \in 1 .. i - 1
        BY <1>4, <3>2
      <4>2. QED
        BY <1>8, <4>1 DEF FilesInFlash
    <3>3. QED
      BY <3>1, <3>2
  <2>2. QED
    BY <2>1 DEF FilesInFlash
<1>12. HostRecs' = HostRecs
  BY <1>1 DEF HostRecs
<1>13. Told /\ flow # "FLASH_TO_EXTMEM" /\ stored = <<>>
  BY <1>1 DEF Told, FromConsole, Programming, LoadInv, FlowInv
<1>14. ToldInv' /\ CellsInv'
  BY <1>1, <1>5, <1>7, <1>13 DEF LoadInv, ToldInv, CellsInv
<1>15. CASE i # N
  <2>1. pc' = "erase" /\ i' = i + 1 /\ i + 1 \in 1 .. N /\ i' - 1 = i /\ stored' = <<>>
    BY <1>1, <1>4, <1>13, <1>15
  <2>2. next_subsector' = StartOf(HostRecs, i)
    <3>1. next_subsector = StartOf(HostRecs, i - 1)
      BY <1>1 DEF LoadInv, ProgrammedInv
    <3>2. QED
      BY <1>1, <1>3, <1>4, <3>1 DEF ConsoleFiles, Numbered
  <2>3. ProgrammedInv'
    BY <1>8, <1>11, <1>12, <2>1, <2>2 DEF ProgrammedInv
  <2>4. HostRecs' = HostRecs /\ ToldInv' /\ GotInv' /\ ReadInv' /\ EndedInv'
    BY <1>1, <2>1, MainKept DEF Programming
  <2>5. StoredInv'
    BY <2>1 DEF StoredInv
  <2>6. FlowInv'
    BY <1>1, <1>4, <1>13, <2>1 DEF FlowInv, FromConsole, FromFlash, Programming, InFile
  <2>7. QED
    BY <1>14, <2>3, <2>4, <2>5, <2>6 DEF LoadInv
<1>16. CASE i = N
  <2>1. /\ pc' = "restart" /\ i' = 1
        /\ stored' = [k \in DOMAIN files |-> HostFile(files[k].name)]
    BY <1>1, <1>4, <1>16
  <2>2. stored' = HostRecs
    <3>1. PICK R : R = HostRecs
      OBVIOUS
    <3>2. DOMAIN files = 1 .. N /\ R = [k \in 1 .. N |-> R[k]]
          /\ \A k \in 1 .. N : R[k] = HostFile(files[k].name)
      <4>1. DOMAIN R = 1 .. N
        BY <1>3, <3>1 DEF ConsoleFiles, InOrder
      <4>2. R = [k \in DOMAIN host.list |-> R[k]] /\ DOMAIN R = DOMAIN host.list
        BY <3>1 DEF HostRecs, RecsOf
      <4>3. QED
        BY <1>3, <3>1, <4>1, <4>2 DEF ConsoleFiles
    <3>3. QED
      BY <2>1, <3>1, <3>2
  <2>3. StoredInv'
    <3>1. IsRecs(HostRecs)
      BY <1>13 DEF LoadInv, ToldInv, IsRecs, HostRecs
    <3>2. Len(HostRecs) = N
      <4>1. PICK R : R = HostRecs
        OBVIOUS
      <4>2. DOMAIN R = 1 .. N
        BY <1>3, <4>1 DEF ConsoleFiles, InOrder
      <4>3. Len(R) = N
        BY <4>2
      <4>4. QED
        BY <4>1, <4>3
    <3>3. SizesInFlash(flash', HostRecs) /\ FilesInFlash(flash', HostRecs, N)
      BY <1>8, <1>11, <1>16
    <3>4. QED
      BY <2>2, <3>1, <3>2, <3>3 DEF StoredInv
  <2>4. FlowInv' /\ GotInv' /\ ProgrammedInv' /\ ReadInv'
    BY <2>1
    DEF FlowInv, GotInv, ProgrammedInv, ReadInv, FromConsole, FromFlash, Programming, InFile
  <2>5. EndedInv'
    BY <1>1, <1>4, <1>9, <1>12, <1>13 DEF EndedInv, Got
  <2>6. QED
    BY <1>14, <2>3, <2>4, <2>5 DEF LoadInv
<1>17. QED
  BY <1>15, <1>16

LEMMA ReadSizesLoad ==
  ASSUME LoadInv, read_flash_sizes
  PROVE  LoadInv'
<1>1. /\ pc = "readsizes" /\ pc' = "read"
      /\ file_sizes' = [k \in DOMAIN files |-> SizeAt(k)]
      /\ flash' = flash /\ mem' = mem /\ flow' = flow /\ files' = files /\ i' = i
      /\ next_subsector' = next_subsector /\ host' = host /\ stored' = stored
  BY DEF read_flash_sizes
<1>2. Told /\ flow = "FLASH_TO_EXTMEM" /\ i = 1 /\ next_subsector = 0
  BY <1>1 DEF LoadInv, FlowInv, Told, FromFlash
<1>3. CellsInv' /\ StoredInv'
  BY <1>1, FlashUnchanged
<1>4. ToldInv'
  BY <1>1, <1>2 DEF LoadInv, ToldInv
<1>5. FlowInv'
  <2>1. PICK N \in Nat \ {0} : ConsoleFiles(N)
    BY <1>2, TheConsoleFiles DEF LoadInv
  <2>2. i' \in 1 .. Len(files')
    BY <1>1, <1>2, <2>1 DEF ConsoleFiles
  <2>3. QED
    BY <1>1, <1>2, <2>2 DEF FlowInv, FromConsole, FromFlash, Programming, InFile
<1>6. ASSUME Matches(files, stored)
      PROVE  /\ \A k \in DOMAIN files : file_sizes'[k] = stored[k].size
             /\ next_subsector' = StartOf(stored, i' - 1)
             /\ InMemory(mem', files, stored, i' - 1)
  <2>1. PICK N \in Nat \ {0}, M \in Nat \ {0} : FlashFiles(N, M)
    BY <1>2, <1>6, TheFlashFiles DEF LoadInv
  <2>2. ASSUME NEW k \in DOMAIN files PROVE SizeAt(k) = stored[k].size
    <3>1. k \in DOMAIN stored
      BY <1>6 DEF Matches
    <3>2. flash[INT * (k - 1)] = [size |-> stored[k].size, at |-> 0]
      BY <2>1, <3>1 DEF FlashFiles, SizesInFlash
    <3>3. PICK c : c = flash[INT * (k - 1)]
      OBVIOUS
    <3>4. "size" \in DOMAIN c /\ c.size = stored[k].size
      BY <3>2, <3>3
    <3>5. QED
      BY <3>3, <3>4 DEF SizeAt
  <2>3. \A k \in DOMAIN files : file_sizes'[k] = stored[k].size
    BY <1>1, <2>2
  <2>4. i' - 1 = 0
    BY <1>1, <1>2
  <2>5. next_subsector' = StartOf(stored, i' - 1)
    BY <1>1, <1>2, <2>1, <2>4 DEF FlashFiles, Numbered
  <2>6. InMemory(mem', files, stored, i' - 1)
    BY <2>4 DEF InMemory
  <2>7. QED
    BY <2>3, <2>5, <2>6
<1>7. ReadInv'
  BY <1>1, <1>6 DEF ReadInv
<1>8. GotInv' /\ ProgrammedInv' /\ EndedInv'
  BY <1>1 DEF GotInv, ProgrammedInv, EndedInv, Ended, Programming
<1>9. QED
  BY <1>3, <1>4, <1>5, <1>7, <1>8 DEF LoadInv
-----------------------------------------------------------------------------
LEMMA ReadMatching ==
  ASSUME LoadInv, read_flash, Matches(files, stored)
  PROVE  /\ next_subsector' = StartOf(stored, i)
         /\ InMemory(mem', files, stored, i)
<1>1. /\ pc = "read"
      /\ mem' = [a \in DOMAIN mem |-> IF a - files[i].address \in WordsRead(file_sizes[i])
                                      THEN flash[FlashAddress + a - files[i].address] ELSE mem[a]]
      /\ next_subsector' = next_subsector + Subsectors(file_sizes[i])
  BY DEF read_flash, NextFile
<1>2. PICK N \in Nat \ {0}, M \in Nat \ {0} : FlashFiles(N, M)
  BY <1>1, TheFlashFiles DEF LoadInv, Told, FromFlash
<1>3. i \in 1 .. N /\ i \in 1 .. M /\ DOMAIN files = 1 .. N
  <2>1. i \in 1 .. N
    BY <1>1, <1>2 DEF LoadInv, FlowInv, InFile, FlashFiles
  <2>2. N <= M /\ DOMAIN files = 1 .. N
    BY <1>2 DEF FlashFiles
  <2>3. QED
    BY <2>1, <2>2
<1>4. /\ \A k \in DOMAIN files : file_sizes[k] = stored[k].size
      /\ next_subsector = StartOf(stored, i - 1)
      /\ InMemory(mem, files, stored, i - 1)
  BY <1>1 DEF LoadInv, ReadInv
<1>5. PICK to \in Nat, size \in Nat :
        to = files[i].address /\ size = stored[i].size /\ to + size <= MemSize
        /\ size = file_sizes[i]
  BY <1>2, <1>3, <1>4 DEF FlashFiles, Apart
<1>6. next_subsector' = StartOf(stored, i)
  BY <1>1, <1>2, <1>3, <1>4, <1>5 DEF FlashFiles, Numbered
<1>7. PICK at \in Nat : at = Spot(stored, i - 1)
  <2>1. i - 1 \in 0 .. M
    BY <1>3
  <2>2. QED
    BY <1>2, <2>1 DEF FlashFiles, InOrder
<1>8. FlashAddress = at
  BY <1>4, <1>7 DEF FlashAddress, Spot
<1>9. mem' = [a \in 0 .. MemSize - 1 |-> IF a - to \in WordsRead(size)
                                         THEN flash[at + a - to] ELSE mem[a]]
  BY <1>1, <1>5, <1>8 DEF LoadInv, CellsInv
<1>10. Loaded(mem, mem', to, size)
  BY <1>9 DEF Loaded
<1>11. ASSUME NEW n \in 0 .. size - 1 PROVE mem'[to + n] = Data(stored[i], n)
  <2>1. MemSize \in Nat
    BY LayoutAssumption
  <2>2. to + n \in 0 .. MemSize - 1 /\ (to + n) - to = n /\ at + (to + n) - to = at + n
    BY <1>5, <2>1
  <2>3. n \in WordsRead(size)
    BY BytesInWords
  <2>4. mem'[to + n] = flash[at + n]
    BY <1>9, <2>2, <2>3
  <2>5. flash[at + n] = Data(stored[i], n)
    BY <1>2, <1>3, <1>5, <1>7 DEF FlashFiles, FilesInFlash
  <2>6. QED
    BY <2>4, <2>5
<1>12. Apart(files, stored, N)
  BY <1>2 DEF FlashFiles
<1>13. InMemory(mem', files, stored, i)
  BY <1>3, <1>4, <1>5, <1>10, <1>11, <1>12, OneMoreInMemory
<1>14. QED
  BY <1>6, <1>13

LEMMA ReadLoad ==
  ASSUME LoadInv, read_flash
  PROVE  LoadInv'
<1>1. /\ pc = "read" /\ pc' = IF IsLast THEN "restart" ELSE "read"
      /\ i' = IF IsLast THEN 1 ELSE i + 1
      /\ DOMAIN mem' = DOMAIN mem
      /\ flash' = flash /\ flow' = flow /\ files' = files /\ file_sizes' = file_sizes
      /\ host' = host /\ stored' = stored
  BY DEF read_flash, NextFile
<1>2. Told /\ flow = "FLASH_TO_EXTMEM"
  BY <1>1 DEF LoadInv, FlowInv, Told, FromFlash
<1>3. PICK N \in Nat \ {0} : ConsoleFiles(N)
  BY <1>2, TheConsoleFiles DEF LoadInv
<1>4. Len(files) = N /\ i \in 1 .. N
  BY <1>1, <1>3 DEF LoadInv, FlowInv, InFile, ConsoleFiles
<1>5. CellsInv' /\ StoredInv'
  BY <1>1, FlashUnchanged
<1>6. ToldInv'
  BY <1>1, <1>2 DEF LoadInv, ToldInv
<1>7. pc' \in {"read", "restart"}
  BY <1>1
<1>8. GotInv' /\ ProgrammedInv'
  BY <1>7 DEF GotInv, ProgrammedInv, Programming
<1>9. CASE i # N
  <2>1. pc' = "read" /\ i' = i + 1 /\ i + 1 \in 1 .. N /\ i' - 1 = i
    BY <1>1, <1>4, <1>9 DEF IsLast
  <2>2. FlowInv'
    BY <1>1, <1>2, <1>4, <2>1 DEF FlowInv, FromConsole, FromFlash, Programming, InFile
  <2>3. ASSUME Matches(files, stored)
        PROVE  /\ \A k \in DOMAIN files : file_sizes[k] = stored[k].size
               /\ next_subsector' = StartOf(stored, i)
               /\ InMemory(mem', files, stored, i)
    BY <1>1, <2>3, ReadMatching DEF LoadInv, ReadInv
  <2>4. ReadInv'
    BY <1>1, <2>1, <2>3 DEF ReadInv
  <2>5. EndedInv'
    BY <2>1 DEF EndedInv, Ended
  <2>6. QED
    BY <1>5, <1>6, <1>8, <2>2, <2>4, <2>5 DEF LoadInv
<1>10. CASE i = N
  <2>1. pc' = "restart" /\ i' = 1
    BY <1>1, <1>4, <1>10 DEF IsLast
  <2>2. FlowInv' /\ ReadInv'
    BY <2>1 DEF FlowInv, ReadInv, FromConsole, FromFlash, Programming, InFile
  <2>3. ASSUME Matches(files, stored) PROVE InMemory(mem', files, stored, Len(files))
    BY <1>4, <1>10, <2>3, ReadMatching
  <2>4. EndedInv'
    BY <1>1, <1>2, <2>3 DEF EndedInv
  <2>5. QED
    BY <1>5, <1>6, <1>8, <2>2, <2>4 DEF LoadInv
<1>11. QED
  BY <1>9, <1>10

LEMMA NextLoad == IInv' /\ LoadInv /\ [Next]_vars => LoadInv'
<1> SUFFICES ASSUME IInv', LoadInv, [Next]_vars PROVE LoadInv'
  OBVIOUS
<1>1. CASE Next
  BY <1>1, ResetLoad, PowerCutLoad, ReceiveLoad, GetLoad, EraseSizesLoad, StoreSizesLoad,
     EraseFileLoad, ProgramFileLoad, ReadSizesLoad, ReadLoad DEF Next
<1>2. CASE UNCHANGED vars
  <2>1. /\ flash' = flash /\ mem' = mem /\ pc' = pc /\ flow' = flow /\ files' = files
        /\ file_sizes' = file_sizes /\ i' = i /\ next_subsector' = next_subsector
        /\ host' = host /\ stored' = stored /\ ended' = ended
    BY <1>2 DEF vars, software
  <2>2. (Told' <=> Told) /\ (Ended' <=> Ended) /\ HostRecs' = HostRecs
        /\ FlashAddress' = FlashAddress
    BY <2>1 DEF Told, Ended, HostRecs, FlashAddress
  <2>3. CellsInv' /\ StoredInv' /\ ToldInv' /\ EndedInv'
    BY <2>1, <2>2 DEF LoadInv, CellsInv, StoredInv, ToldInv, EndedInv
  <2>4. FlowInv' /\ GotInv' /\ ProgrammedInv' /\ ReadInv'
    BY <2>1, <2>2 DEF LoadInv, FlowInv, GotInv, ProgrammedInv, ReadInv, InFile
  <2>5. QED
    BY <2>3, <2>4 DEF LoadInv
<1>3. QED
  BY <1>1, <1>2

LEMMA LoadInvariance == Spec => []LoadInv
<1>1. Spec => []IInv
  BY Invariance
<1>2. QED
  BY <1>1, LoadInit, NextLoad, PTL DEF Spec

(* The list: every name and address is read as the host wrote it, whatever  *)
(* the names, the digits and the number of lines, with or without a newline *)
(* at the end (compute_mem_load_txt, 65-109).                               *)
THEOREM ListAsWritten == Spec => []ListRead
<1>1. LoadInv => ListRead
  BY DEF LoadInv, ToldInv, Told, FromConsole, ListRead, Listed, Entry
<1>2. QED
  BY <1>1, LoadInvariance, PTL

LEMMA PromisedLoaded ==
  ASSUME LoadInv, pc = "running", NEW k \in DOMAIN Promised,
         NEW n \in 0 .. Promised[k].size - 1
  PROVE  mem[files[k].address + n] = Data(Promised[k], n)
<1>1. Told /\ Ended
  BY DEF Told, Ended
<1>2. CASE flow # "FLASH_TO_EXTMEM"
  <2>1. PICK N \in Nat \ {0} : ConsoleFiles(N)
    BY <1>1, TheConsoleFiles DEF LoadInv
  <2>2. Promised = [j \in DOMAIN files |-> HostFile(files[j].name)]
    BY <1>2 DEF Promised
  <2>3. k \in 1 .. N /\ Promised[k] = HostRecs[k]
    BY <2>1, <2>2 DEF ConsoleFiles
  <2>4. InMemory(mem, files, HostRecs, N)
    BY <1>1, <1>2, <2>1 DEF LoadInv, EndedInv, ConsoleFiles
  <2>5. QED
    BY <2>3, <2>4 DEF InMemory
<1>3. CASE flow = "FLASH_TO_EXTMEM" /\ Matches(files, stored)
  <2>1. PICK N \in Nat \ {0}, M \in Nat \ {0} : FlashFiles(N, M)
    BY <1>1, <1>3, TheFlashFiles DEF LoadInv
  <2>2. Promised = SubSeq(stored, 1, N)
    BY <1>3, <2>1 DEF Promised, Matches, FlashFiles
  <2>3. DOMAIN Promised = 1 .. N /\ \A j \in 1 .. N : Promised[j] = stored[j]
    <3>1. PICK s : s = stored
      OBVIOUS
    <3>2. DOMAIN s = 1 .. M /\ N <= M /\ s = [j \in 1 .. M |-> s[j]]
      <4>1. DOMAIN s = 1 .. M /\ N <= M
        BY <2>1, <3>1 DEF FlashFiles, InOrder
      <4>2. stored # <<>>
        <5>1. M \in 1 .. M
          OBVIOUS
        <5>2. DOMAIN <<>> = {}
          OBVIOUS
        <5>3. QED
          BY <3>1, <4>1, <5>1, <5>2
      <4>3. PICK list \in Lists, sizes \in HostSizes : \E v : stored = RecsOf(list, sizes, v)
        BY <4>2 DEF LoadInv, StoredInv, IsRecs
      <4>4. PICK v : stored = RecsOf(list, sizes, v)
        BY <4>3
      <4>5. s = [j \in DOMAIN s |-> s[j]]
        BY <3>1, <4>4 DEF RecsOf
      <4>6. QED
        BY <4>1, <4>5
    <3>3. PICK S : S = {s[j] : j \in 1 .. M}
      OBVIOUS
    <3>4. s \in [1 .. M -> S]
      BY <3>2, <3>3
    <3>5. s \in Seq(S)
      BY <3>4
    <3>6. PICK t : t = SubSeq(s, 1, N)
      OBVIOUS
    <3>7. DOMAIN t = 1 .. N /\ \A j \in 1 .. N : t[j] = s[j]
      BY <3>2, <3>4, <3>5, <3>6
    <3>8. QED
      BY <2>2, <3>1, <3>6, <3>7
  <2>4. InMemory(mem, files, stored, N)
    BY <1>1, <1>3, <2>1 DEF LoadInv, EndedInv, FlashFiles
  <2>5. QED
    BY <2>3, <2>4 DEF InMemory
<1>4. CASE flow = "FLASH_TO_EXTMEM" /\ ~Matches(files, stored)
  <2>1. Promised = <<>>
    BY <1>4 DEF Promised, Matches
  <2>2. DOMAIN <<>> = {}
    OBVIOUS
  <2>3. QED
    BY <2>1, <2>2
<1>5. QED
  BY <1>2, <1>3, <1>4

(* The program finds each file at its address, byte for byte: no erase      *)
(* reaches a file that was programmed, program_flash and read_flash find    *)
(* the same subsectors, and no boot that was cut before is in the way       *)
(* (124-185).                                                               *)
THEOREM ProgramFindsFiles == Spec => []FilesLoaded
<1>1. LoadInv => FilesLoaded
  BY PromisedLoaded DEF FilesLoaded
<1>2. QED
  BY <1>1, LoadInvariance, PTL
=============================================================================
