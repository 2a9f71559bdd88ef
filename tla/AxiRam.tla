------------------------------- MODULE AxiRam -------------------------------
(***************************************************************************)
(* The AXI4 RAM (hardware/src/axi_ram.v), clock edge by clock edge.  The   *)
(* read machine, the write machine, the memory array and the output        *)
(* pipeline all step on every edge, so Next is the conjunction of one step *)
(* of each.  The input wires are variables too: after every edge the       *)
(* master chooses new ones, within the rules of AXI (what is valid stays   *)
(* as it is until it is accepted).                                         *)
(*                                                                         *)
(* A word is a function from byte lanes to values, a request a record.     *)
(* External: the master, and iob_ram_sp, the single-port memory used when  *)
(* READ_ON_WRITE is 0, whose output keeps its value while it is written.   *)
(***************************************************************************)
EXTENDS Integers, Sequences, FiniteSets

CONSTANTS
  ADDR_WIDTH,       (* bits of a byte address                               *)
  STRB_WIDTH,       (* byte lanes of a word                                 *)
  LEN_WIDTH,        (* bits of a burst length                               *)
  Builds,           (* parameters [READ_ON_WRITE, PIPELINE_OUTPUT] it is    *)
                    (* instantiated with                                    *)
  ReadRequests,     (* requests [id, addr, len, size, burst] of the model   *)
  WriteRequests,
  WriteBeats,       (* data beats [data, strb] of the model                 *)
  Masters           (* kinds of master [stalls, overlaps]: it may leave     *)
                    (* rready and bready low; it may read while it writes   *)

(* What a master of this system asks for: AXI allows no beat that is wider  *)
(* than the bus, so the machines never cut a size (237, 340), and there are *)
(* no WRAP bursts, which they would serve like INCR ones.                   *)
Lengths   == 0 .. 2 ^ LEN_WIDTH - 1
BeatSizes == {n \in 0 .. 7 : 2 ^ n <= STRB_WIDTH}
Request == [id : Nat, addr : 0 .. 2 ^ ADDR_WIDTH - 1, len : Lengths, size : BeatSizes,
            burst : {"FIXED", "INCR"}]

ASSUME RamAssumption ==
  /\ {ADDR_WIDTH, STRB_WIDTH, LEN_WIDTH} \subseteq Nat \ {0}
  /\ {2 ^ LEN_WIDTH, 2 ^ ADDR_WIDTH} \subseteq Nat \ {0}
  /\ Builds \subseteq [READ_ON_WRITE : BOOLEAN, PIPELINE_OUTPUT : BOOLEAN]
  /\ Masters \subseteq [stalls : BOOLEAN, overlaps : BOOLEAN]
  /\ ReadRequests \cup WriteRequests \subseteq Request

VARIABLES
  build, master,                     (* one of Builds, one of Masters       *)
  read_state, read_reg, arready,     (* the read machine; read_reg is the   *)
                                     (* request in progress, count its len  *)
  rreg, rdata,                       (* output registers: valid, id, last;  *)
                                     (* the data register of the memory     *)
  rpipe,                             (* the second output register          *)
  write_state, write_reg, awready,   (* the write machine                   *)
  wready, breg,
  mem,
  ar, aw, w, rready, bready,         (* the input wires                     *)
  (* What the master asked for, for the properties:                         *)
  reading,   (* the read burst being served: request and next beat          *)
  due,       (* beats fetched and not yet taken: what each should be        *)
  writing,   (* write bursts issued and not yet written: request and beat   *)
  owed,      (* ids of write bursts written and not yet answered            *)
  image      (* what the master takes the memory to hold                    *)

readvars  == <<read_state, read_reg, arready, rreg, rpipe>>
writevars == <<write_state, write_reg, awready, wready, breg>>
inputs    == <<ar, aw, w, rready, bready>>
history   == <<reading, due, writing, owed, image>>
vars == <<build, master, readvars, rdata, writevars, mem, inputs, history>>

Lanes   == 0 .. STRB_WIDTH - 1
Address == 0 .. 2 ^ ADDR_WIDTH - 1
Words   == 0 .. (2 ^ ADDR_WIDTH) \div STRB_WIDTH - 1

word(addr) == addr \div STRB_WIDTH

NextAddrByWord(r) ==
  IF r.burst = "FIXED" THEN r.addr ELSE (r.addr + STRB_WIDTH) % 2 ^ ADDR_WIDTH

(* The address after a beat, unless the burst is FIXED.                     *)
NextAddr(r) ==
  IF r.burst = "FIXED" THEN r.addr ELSE (r.addr + 2 ^ r.size) % 2 ^ ADDR_WIDTH

CountDown(count) == (count - 1) % 2 ^ LEN_WIDTH

NoRequest == [id |-> 0, addr |-> 0, len |-> 0, size |-> 0, burst |-> "FIXED"]
NoBeat    == [data |-> [i \in Lanes |-> 0], strb |-> {}]

READ_ON_WRITE   == build.READ_ON_WRITE
PIPELINE_OUTPUT == build.PIPELINE_OUTPUT

(* An input channel: its valid wire and the payload beside it.              *)
Silent(payload)  == [valid |-> FALSE, msg |-> payload]
Sending(payload) == [valid |-> TRUE, msg |-> payload]

InitialWord(a) == [i \in Lanes |-> 0]

Init ==
  /\ build \in Builds /\ master \in Masters
  /\ read_state = "IDLE" /\ read_reg = NoRequest /\ arready = FALSE
  /\ rreg = [valid |-> FALSE, id |-> 0, last |-> FALSE]
  /\ rdata = InitialWord(0)
  /\ rpipe = [valid |-> FALSE, id |-> 0, last |-> FALSE, data |-> InitialWord(0)]
  /\ write_state = "IDLE" /\ write_reg = NoRequest
  /\ awready = FALSE /\ wready = FALSE
  /\ breg = [valid |-> FALSE, id |-> 0]
  /\ mem = [a \in Words |-> InitialWord(a)]
  /\ ar = Silent(NoRequest) /\ aw = Silent(NoRequest) /\ w = Silent(NoBeat)
  /\ rready = TRUE /\ bready = TRUE
  /\ reading = <<>> /\ due = <<>> /\ writing = <<>> /\ owed = <<>>
  /\ image = mem
-----------------------------------------------------------------------------
(* Outputs.                                                                 *)
rvalid_o == IF PIPELINE_OUTPUT THEN rpipe.valid ELSE rreg.valid
rid_o    == IF PIPELINE_OUTPUT THEN rpipe.id ELSE rreg.id
rlast_o  == IF PIPELINE_OUTPUT THEN rpipe.last ELSE rreg.last
rdata_o  == IF PIPELINE_OUTPUT THEN rpipe.data ELSE rdata

(* Transfers that happen on this edge.                                      *)
TakesAR == ar.valid /\ arready
TakesAW == aw.valid /\ awready
TakesW  == w.valid /\ wready
GivesR  == rvalid_o /\ rready
GivesB  == breg.valid /\ bready

(* rreg is free for the next beat: taken, moved on, or empty.               *)
OutputMovesIgnoringPipe == rready

OutputMoves == rready \/ (PIPELINE_OUTPUT /\ ~rpipe.valid)

Fetches == read_state = "BURST" /\ (OutputMoves \/ ~rreg.valid)

DrainOutput == rreg' = [rreg EXCEPT !.valid = @ /\ ~OutputMoves]

ReadIdle ==
  /\ read_state = "IDLE" /\ ~TakesAR
  /\ arready' = TRUE
  /\ DrainOutput
  /\ UNCHANGED <<read_state, read_reg>>

ReadAccept ==
  /\ read_state = "IDLE" /\ TakesAR
  /\ read_state' = "BURST" /\ read_reg' = ar.msg
  /\ arready' = FALSE
  /\ DrainOutput

IsLast(r) == r.len = 0

ReadBeat ==
  /\ Fetches
  /\ rreg' = [valid |-> TRUE, id |-> read_reg.id, last |-> IsLast(read_reg)]
  /\ read_reg' = [read_reg EXCEPT !.addr = NextAddr(read_reg), !.len = CountDown(@)]
  /\ read_state' = IF read_reg.len > 0 THEN "BURST" ELSE "IDLE"
  /\ arready' = (read_reg.len = 0)

ReadStalled ==
  /\ read_state = "BURST" /\ ~Fetches
  /\ arready' = FALSE
  /\ DrainOutput
  /\ UNCHANGED <<read_state, read_reg>>

PipeMovesAlways == TRUE

PipeMoves == ~rpipe.valid \/ rready

OutputPipe ==
  rpipe' = IF PIPELINE_OUTPUT /\ PipeMoves
           THEN [valid |-> rreg.valid, id |-> rreg.id, last |-> rreg.last, data |-> rdata]
           ELSE rpipe

CanAnswerAlways == TRUE

ReadMachine == (ReadIdle \/ ReadAccept \/ ReadBeat \/ ReadStalled) /\ OutputPipe
-----------------------------------------------------------------------------
(* The answer to a write: there is room in breg, or it waits in RESP.       *)
CanAnswer == bready \/ ~breg.valid

DrainAnswer == breg' = [breg EXCEPT !.valid = @ /\ ~bready]

WriteIdle ==
  /\ write_state = "IDLE" /\ ~TakesAW
  /\ awready' = TRUE /\ wready' = FALSE
  /\ DrainAnswer
  /\ UNCHANGED <<write_state, write_reg>>

WriteAccept ==
  /\ write_state = "IDLE" /\ TakesAW
  /\ write_state' = "BURST" /\ write_reg' = aw.msg
  /\ awready' = FALSE /\ wready' = TRUE
  /\ DrainAnswer

WriteWaits ==
  /\ write_state = "BURST" /\ ~TakesW
  /\ awready' = FALSE /\ wready' = TRUE
  /\ DrainAnswer
  /\ UNCHANGED <<write_state, write_reg>>

WriteBeat ==
  /\ write_state = "BURST" /\ TakesW
  /\ write_reg' = [write_reg EXCEPT !.addr = NextAddr(write_reg), !.len = CountDown(@)]
  /\ \/ /\ write_reg.len > 0
        /\ write_state' = "BURST"
        /\ awready' = FALSE /\ wready' = TRUE
        /\ DrainAnswer
     \/ /\ write_reg.len = 0 /\ CanAnswer
        /\ write_state' = "IDLE"
        /\ awready' = TRUE /\ wready' = FALSE
        /\ breg' = [valid |-> TRUE, id |-> write_reg.id]
     \/ /\ write_reg.len = 0 /\ ~CanAnswer
        /\ write_state' = "RESP"
        /\ awready' = FALSE /\ wready' = FALSE
        /\ DrainAnswer

WriteRespond ==
  /\ write_state = "RESP" /\ CanAnswer
  /\ write_state' = "IDLE"
  /\ awready' = TRUE /\ wready' = FALSE
  /\ breg' = [valid |-> TRUE, id |-> write_reg.id]
  /\ UNCHANGED write_reg

WriteRespWaits ==
  /\ write_state = "RESP" /\ ~CanAnswer
  /\ awready' = FALSE /\ wready' = FALSE
  /\ DrainAnswer
  /\ UNCHANGED <<write_state, write_reg>>

WriteMachine ==
  \/ WriteIdle \/ WriteAccept \/ WriteWaits \/ WriteBeat
  \/ WriteRespond \/ WriteRespWaits

mem_wr_en == write_state = "BURST" /\ TakesW

WrittenAllLanes(old, beat) == beat.data

Written(old, beat) == [i \in Lanes |-> IF i \in beat.strb THEN beat.data[i] ELSE old[i]]

FetchWord == word(read_reg.addr)

(* The array.  With READ_ON_WRITE its data register is loaded on every      *)
(* edge; without, only on edges that do not write (a lane that is neither   *)
(* written nor read keeps its value as well).                               *)
Memory ==
  /\ mem' = IF mem_wr_en
            THEN [mem EXCEPT ![word(write_reg.addr)] = Written(@, w.msg)]
            ELSE mem
  /\ rdata' = IF READ_ON_WRITE \/ ~mem_wr_en THEN mem[FetchWord] ELSE rdata
-----------------------------------------------------------------------------
(* The master.  It offers a write's data only after its address, has at     *)
(* most two write bursts open, and unless it overlaps no read beside a write.  *)
ReadOpen  == ar.valid \/ reading # <<>> \/ due # <<>>
WriteOpen == aw.valid \/ writing # <<>> \/ owed # <<>>

Requests ==
  /\ IF ar.valid /\ ~arready THEN ar' = ar
     ELSE \/ ar' = Silent(NoRequest)
          \/ (master.overlaps \/ ~WriteOpen) /\ \E r \in ReadRequests : ar' = Sending(r)
  /\ IF aw.valid /\ ~awready THEN aw' = aw
     ELSE \/ aw' = Silent(NoRequest)
          \/ /\ master.overlaps \/ ~(ReadOpen \/ ar'.valid)
             /\ Len(writing) + Len(owed) < 2
             /\ \E r \in WriteRequests : aw' = Sending(r)

DataAndReady ==
  /\ IF w.valid /\ ~wready THEN w' = w
     ELSE \/ w' = Silent(NoBeat)
          \/ writing' # <<>> /\ \E b \in WriteBeats : w' = Sending(b)
  /\ rready' \in (IF master.stalls THEN BOOLEAN ELSE {TRUE})
  /\ bready' \in (IF master.stalls THEN BOOLEAN ELSE {TRUE})

(* What a burst means: beat n goes to this word.                            *)
BeatWord(r, n) ==
  word((r.addr + (IF r.burst = "FIXED" THEN 0 ELSE n * 2 ^ r.size)) % 2 ^ ADDR_WIDTH)

(* A burst and how many of its beats are done, first in a queue of them.    *)
Advance(queue) ==
  IF Head(queue).beat = Head(queue).req.len THEN Tail(queue)
  ELSE [queue EXCEPT ![1].beat = @ + 1]

Open(queue, channel) ==
  IF channel.valid THEN Append(queue, [req |-> channel.msg, beat |-> 0]) ELSE queue

History ==
  /\ reading' = IF TakesAR THEN Open(reading, ar)
                ELSE IF Fetches THEN Advance(reading) ELSE reading
  /\ LET rest == IF GivesR THEN Tail(due) ELSE due
         burst == Head(reading)
     IN due' = IF Fetches
               THEN Append(rest, [id |-> burst.req.id, last |-> burst.beat = burst.req.len,
                                  data |-> image[BeatWord(burst.req, burst.beat)]])
               ELSE rest
  /\ LET rest == IF TakesW THEN Advance(writing) ELSE writing
     IN writing' = IF aw'.valid /\ (~aw.valid \/ awready) THEN Open(rest, aw') ELSE rest
  /\ LET rest == IF GivesB THEN Tail(owed) ELSE owed
     IN owed' = IF TakesW /\ Head(writing).beat = Head(writing).req.len
                THEN Append(rest, Head(writing).req.id) ELSE rest
  /\ image' = IF TakesW
              THEN [image EXCEPT ![BeatWord(Head(writing).req, Head(writing).beat)] =
                      [i \in Lanes |-> IF i \in w.msg.strb THEN w.msg.data[i] ELSE @[i]]]
              ELSE image

Next ==
  /\ ReadMachine /\ WriteMachine /\ Memory
  /\ Requests /\ History /\ DataAndReady
  /\ UNCHANGED <<build, master>>

Spec == Init /\ [][Next]_vars
-----------------------------------------------------------------------------
Word == [Lanes -> Nat]

TypeOK ==
  /\ read_state \in {"IDLE", "BURST"}
  /\ write_state \in {"IDLE", "BURST", "RESP"}
  /\ {read_reg.addr, write_reg.addr} \subseteq Address
  /\ {read_reg.len, write_reg.len} \subseteq Lengths
  /\ mem \in [Words -> Word] /\ rdata \in Word /\ rpipe.data \in Word
  /\ {arready, awready, wready, rreg.valid, rpipe.valid, breg.valid} \subseteq BOOLEAN
  /\ Len(reading) <= 1 /\ Len(due) <= 2 /\ Len(owed) <= 2

Stages == {s \in {1, 2} : (s = 1 /\ rreg.valid) \/ (s = 2 /\ PIPELINE_OUTPUT /\ rpipe.valid)}

(* Read beats come out in order, with the id of their burst, the last one   *)
(* and only the last one marked, and none is lost or doubled, however the   *)
(* master stalls: the output registers and the read machine (317-413).      *)
ReadOrder ==
  /\ Len(due) = Cardinality(Stages)
  /\ rvalid_o => rid_o = Head(due).id /\ (rlast_o <=> Head(due).last)

(* The data of a beat is what the memory held at the beat's address when    *)
(* it was fetched (183, 207, 410), for a master that takes every beat at    *)
(* once and does not write while it reads from a single-port memory.        *)
ReadData ==
  ~master.stalls /\ (READ_ON_WRITE \/ ~master.overlaps) =>
    (rvalid_o => rdata_o = Head(due).data)

(* The memory holds what the bursts wrote, byte by byte, for every length,  *)
(* size and kind of burst (180-182, 247-272).                               *)
WritesLand == mem = image

(* A write is answered once, after its last beat, with its own id, also     *)
(* when the previous answer is still waiting (258-282).                     *)
WriteAnswers ==
  /\ breg.valid => owed # <<>> /\ breg.id = Head(owed)
  /\ Len(owed) = (IF breg.valid THEN 1 ELSE 0) + (IF write_state = "RESP" THEN 1 ELSE 0)

(* An answer that was offered stays until it is taken (227, 322, 395).      *)
OutputsHeld ==
  [][ /\ rvalid_o /\ ~rready => rvalid_o' /\ <<rid_o, rlast_o>>' = <<rid_o, rlast_o>>
      /\ breg.valid /\ ~bready => breg' = breg ]_vars
=============================================================================
