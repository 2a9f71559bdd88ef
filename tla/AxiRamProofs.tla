---------------------------- MODULE AxiRamProofs ----------------------------
(* Theorems about AxiRam, for every width, every set of requests and every  *)
(* build: what is offered stays, reads come out in order, and a write is    *)
(* answered once.                                                           *)
EXTENDS AxiRam, SequenceTheorems, FiniteSetTheorems, TLAPS

-----------------------------------------------------------------------------
(* Addresses: beat by beat, modulo the space, is as good as all at once.    *)
LEMMA Division ==
  ASSUME NEW d \in Nat \ {0}, NEW a \in Nat
  PROVE  /\ a \div d \in Nat /\ a % d \in 0 .. d - 1
         /\ a = (a \div d) * d + (a % d)
  OBVIOUS

LEMMA Remainder ==
  ASSUME NEW d \in Nat \ {0}, NEW q \in Int, NEW r \in 0 .. d - 1
  PROVE  (q * d + r) % d = r
  OBVIOUS

LEMMA Below ==
  ASSUME NEW d \in Nat \ {0}, NEW a \in 0 .. d - 1
  PROVE  a % d = a
  OBVIOUS

LEMMA Added ==
  ASSUME NEW d \in Nat \ {0}, NEW a \in Nat, NEW n \in Nat
  PROVE  ((a % d) + n) % d = (a + n) % d
<1> DEFINE q == a \div d
           r == a % d
           p == (r + n) \div d
           s == (r + n) % d
<1>1. q \in Nat /\ r \in 0 .. d - 1 /\ a = q * d + r
  BY Division
<1>2. r + n \in Nat
  BY <1>1
<1>3. p \in Nat /\ s \in 0 .. d - 1 /\ r + n = p * d + s
  BY <1>2, Division
<1>0. r = a % d /\ s = (r + n) % d
  OBVIOUS
<1> HIDE DEF q, r, p, s
<1>4. a + n = (q + p) * d + s
  BY <1>1, <1>3
<1>5. (a + n) % d = s
  <2> DEFINE k == q + p
  <2>1. k \in Int /\ a + n = k * d + s
    BY <1>1, <1>3, <1>4
  <2> HIDE DEF k
  <2>2. (k * d + s) % d = s
    BY <1>3, <2>1, Remainder
  <2>3. QED
    BY <2>1, <2>2
<1>6. QED
  <2>1. ((a % d) + n) % d = (r + n) % d
    BY <1>0
  <2>2. (r + n) % d = s
    BY <1>0
  <2>3. QED
    BY <1>5, <2>1, <2>2

Space       == 2 ^ ADDR_WIDTH
Bytes(size) == 2 ^ size

Offset(q, n) == IF q.burst = "FIXED" THEN 0 ELSE n * Bytes(q.size)

LEMMA SpaceIs == Space \in Nat \ {0}
  BY RamAssumption DEF Space

LEMMA BytesAre == \A size \in BeatSizes : Bytes(size) \in Nat
<1>1. /\ 2 ^ 0 = 1 /\ 2 ^ 1 = 2 /\ 2 ^ 2 = 4 /\ 2 ^ 3 = 8 /\ 2 ^ 4 = 16 /\ 2 ^ 5 = 32
      /\ 2 ^ 6 = 64 /\ 2 ^ 7 = 128
  OBVIOUS
<1> DEFINE P(n) == 2 ^ n
<1>2. /\ P(0) = 1 /\ P(1) = 2 /\ P(2) = 4 /\ P(3) = 8 /\ P(4) = 16 /\ P(5) = 32
      /\ P(6) = 64 /\ P(7) = 128
  BY <1>1
<1> HIDE DEF P
<1>3. \A n \in 0 .. 7 : P(n) \in Nat
  BY <1>2
<1>4. QED
  BY <1>3 DEF P, Bytes, BeatSizes

LEMMA OffsetIs ==
  ASSUME NEW q \in Request, NEW n \in Nat
  PROVE  /\ Offset(q, n) \in Nat
         /\ Offset(q, n + 1) = Offset(q, n) + (IF q.burst = "FIXED" THEN 0 ELSE Bytes(q.size))
         /\ q.addr \in 0 .. Space - 1
<1>1. Bytes(q.size) \in Nat /\ q.addr \in 0 .. Space - 1
  BY BytesAre DEF Request, Space
<1> DEFINE s == Bytes(q.size)
<1>2. n * s \in Nat /\ (n + 1) * s = n * s + s
  <2> HIDE DEF s
  <2>1. QED
    BY <1>1 DEF s
<1>3. QED
  BY <1>1, <1>2 DEF Offset

USE RamAssumption

(* A burst of the master, and where the machine is in it.                   *)
Burst == [req : Request, beat : Nat]

IsRequest(q) ==
  /\ q = [id |-> q.id, addr |-> q.addr, len |-> q.len, size |-> q.size, burst |-> q.burst]
  /\ q.len \in Lengths

Addressed(b, reg) ==
  /\ reg.burst = b.req.burst /\ reg.size = b.req.size
  /\ reg.addr = (b.req.addr + Offset(b.req, b.beat)) % Space

At(b, reg) == /\ b \in Burst /\ IsRequest(reg)
              /\ b.req.id = reg.id /\ b.beat + reg.len = b.req.len
              /\ Addressed(b, reg)

ReadProgress ==
  /\ read_state \in {"IDLE", "BURST"}
  /\ arready => read_state = "IDLE"
  /\ ar.valid => ar.msg \in Request
  /\ read_state = "IDLE" => reading = <<>>
  /\ read_state = "BURST" => reading = <<reading[1]>> /\ At(reading[1], read_reg)

(* The beats that are due are those in the output registers, the older one  *)
(* in the second.                                                           *)
Same(d, reg) == d.id = reg.id /\ (d.last <=> reg.last)

Piped == PIPELINE_OUTPUT /\ rpipe.valid

BeatsDue ==
  /\ Piped /\ rreg.valid =>
       due = <<due[1], due[2]>> /\ Same(due[1], rpipe) /\ Same(due[2], rreg)
  /\ Piped /\ ~rreg.valid => due = <<due[1]>> /\ Same(due[1], rpipe)
  /\ ~Piped /\ rreg.valid => due = <<due[1]>> /\ Same(due[1], rreg)
  /\ ~Piped /\ ~rreg.valid => due = <<>>

(* The write machine is where the master's first burst is; the second waits *)
(* at the address channel.                                                  *)
Begun == [req |-> aw.msg, beat |-> 0]

WriteProgress ==
  /\ write_state \in {"IDLE", "BURST", "RESP"}
  /\ awready => write_state = "IDLE"
  /\ wready => write_state = "BURST"
  /\ aw.valid => aw.msg \in Request
  /\ write_state = "BURST" =>
       /\ writing = IF aw.valid THEN <<writing[1], Begun>> ELSE <<writing[1]>>
       /\ At(writing[1], write_reg)
  /\ write_state # "BURST" => writing = IF aw.valid THEN <<Begun>> ELSE <<>>

(* The answers owed are the one in the output register and the one in RESP. *)
AnswersOwed ==
  /\ write_state = "RESP" => breg.valid
  /\ owed = IF write_state = "RESP" THEN <<breg.id, write_reg.id>>
            ELSE IF breg.valid THEN <<breg.id>> ELSE <<>>

Shapes ==
  /\ rreg = [valid |-> rreg.valid, id |-> rreg.id, last |-> rreg.last]
  /\ breg = [valid |-> breg.valid, id |-> breg.id]

IInv == Shapes /\ ReadProgress /\ BeatsDue /\ WriteProgress /\ AnswersOwed
-----------------------------------------------------------------------------
LEMMA Counted ==
  ASSUME NEW len \in Lengths, len > 0
  PROVE  CountDown(len) = len - 1 /\ CountDown(len) \in Lengths
<1>1. /\ len \in Nat /\ 2 ^ LEN_WIDTH \in Nat /\ len - 1 \in Nat /\ len - 1 < 2 ^ LEN_WIDTH
  BY DEF Lengths
<1>2. \A a, b \in Nat : a < b => a % b = a
  OBVIOUS
<1>3. (len - 1) % 2 ^ LEN_WIDTH = len - 1
  BY <1>1, <1>2
<1>4. QED
  BY <1>1, <1>3 DEF CountDown, Lengths

LEMMA RequestTypes ==
  ASSUME NEW q \in Request
  PROVE  /\ IsRequest(q) /\ [req |-> q, beat |-> 0] \in Burst
         /\ At([req |-> q, beat |-> 0], q)
<1>1. IsRequest(q)
  BY DEF IsRequest, Request
<1>2. [req |-> q, beat |-> 0] \in Burst
  BY DEF Burst
<1>3. q.len \in Nat
  BY DEF Request, Lengths
<1>4. Addressed([req |-> q, beat |-> 0], q)
  <2>1. Offset(q, 0) = 0
    <3>1. Bytes(q.size) \in Nat
      BY BytesAre DEF Request
    <3>2. QED
      BY <3>1 DEF Offset
  <2>2. q.addr \in 0 .. Space - 1
    BY OffsetIs
  <2> DEFINE a == q.addr
             m == Space
  <2>3. m \in Nat \ {0}
    BY SpaceIs
  <2>4. (a + 0) % m = a
    <3> HIDE DEF a, m
    <3>1. a \in Nat /\ a + 0 = a
      BY <2>2, <2>3 DEF a, m
    <3>2. QED
      BY <2>2, <2>3, <3>1, Below DEF a, m
  <2>5. QED
    BY <2>1, <2>4 DEF Addressed
<1>5. QED
  BY <1>1, <1>2, <1>3, <1>4 DEF At

(* The next address is the one of the next beat.                            *)
LEMMA NextAddressed ==
  ASSUME NEW b \in Burst, NEW reg, Addressed(b, reg)
  PROVE  NextAddr(reg) = (b.req.addr + Offset(b.req, b.beat + 1)) % Space
<1> DEFINE a == b.req.addr
           n == Offset(b.req, b.beat)
           s == Bytes(b.req.size)
<1>1. b.req \in Request /\ b.beat \in Nat /\ Space \in Nat \ {0}
  BY SpaceIs DEF Burst
<1>2. /\ a \in Nat /\ n \in Nat /\ s \in Nat
      /\ Offset(b.req, b.beat + 1) = n + (IF b.req.burst = "FIXED" THEN 0 ELSE s)
  BY <1>1, OffsetIs, BytesAre DEF Request
<1>3. reg.addr = (a + n) % Space /\ reg.burst = b.req.burst /\ reg.size = b.req.size
  BY DEF Addressed
<1>4. NextAddr(reg) = IF b.req.burst = "FIXED" THEN reg.addr ELSE (reg.addr + s) % Space
  BY <1>3 DEF NextAddr, Bytes, Space
<1> HIDE DEF a, n, s
<1>5. CASE b.req.burst = "FIXED"
  BY <1>2, <1>3, <1>4, <1>5 DEF a
<1>6. CASE b.req.burst # "FIXED"
  <2>1. (((a + n) % Space) + s) % Space = ((a + n) + s) % Space
    <3>1. a + n \in Nat
      BY <1>2
    <3>2. QED
      BY <1>1, <1>2, <3>1, Added, Zenon
  <2>2. (a + n) + s = a + (n + s)
    BY <1>2
  <2>3. NextAddr(reg) = (reg.addr + s) % Space /\ Offset(b.req, b.beat + 1) = n + s
    BY <1>2, <1>4, <1>6
  <2>4. NextAddr(reg) = (a + (n + s)) % Space
    BY <1>3, <2>1, <2>2, <2>3
  <2>5. QED
    BY <2>3, <2>4 DEF a
<1>7. QED
  BY <1>5, <1>6

(* A beat takes burst and register one further, or ends both.               *)
LEMMA Beaten ==
  ASSUME NEW b, NEW reg, At(b, reg),
         NEW next, next = [reg EXCEPT !.addr = NextAddr(reg), !.len = CountDown(@)]
  PROVE  /\ reg.len \in Nat
         /\ b.beat = b.req.len <=> reg.len = 0
         /\ next.id = reg.id
         /\ reg.len > 0 => At([b EXCEPT !.beat = @ + 1], next)
<1>1. reg.len \in Nat /\ b.beat \in Nat /\ b.req \in Request /\ b.req.len \in Nat
  BY DEF At, IsRequest, Burst, Request, Lengths
<1>2. next = [id |-> reg.id, addr |-> NextAddr(reg), len |-> CountDown(reg.len), size |-> reg.size,
              burst |-> reg.burst]
  BY DEF At, IsRequest
<1>0. NextAddr(reg) = (b.req.addr + Offset(b.req, b.beat + 1)) % Space
  BY NextAddressed DEF At
<1>3. reg.len > 0 => At([b EXCEPT !.beat = @ + 1], next)
  <2> SUFFICES ASSUME reg.len > 0 PROVE At([b EXCEPT !.beat = @ + 1], next)
    OBVIOUS
  <2>1. CountDown(reg.len) = reg.len - 1 /\ CountDown(reg.len) \in Lengths
    BY Counted DEF At, IsRequest
  <2>2. [b EXCEPT !.beat = @ + 1] = [req |-> b.req, beat |-> b.beat + 1]
    BY DEF At, Burst
  <2>3. IsRequest(next)
    BY <1>2, <2>1 DEF IsRequest
  <2>4. [req |-> b.req, beat |-> b.beat + 1] \in Burst
    BY <1>1 DEF Burst
  <2>5. b.req.id = next.id /\ b.beat + 1 + next.len = b.req.len
    BY <1>1, <1>2, <2>1 DEF At
  <2>6. Addressed([req |-> b.req, beat |-> b.beat + 1], next)
    <3>1. next.addr = NextAddr(reg) /\ next.burst = reg.burst /\ next.size = reg.size
      BY <1>2
    <3>2. reg.burst = b.req.burst /\ reg.size = b.req.size
      BY DEF At, Addressed
    <3>3. next.addr = (b.req.addr + Offset(b.req, b.beat + 1)) % Space
      BY <1>0, <3>1
    <3> DEFINE c == [req |-> b.req, beat |-> b.beat + 1]
    <3>4. c.req = b.req /\ c.beat = b.beat + 1
      OBVIOUS
    <3> HIDE DEF c
    <3>5. Addressed(c, next)
      BY <3>1, <3>2, <3>3, <3>4 DEF Addressed
    <3>6. QED
      BY <3>5 DEF c
  <2>7. QED
    BY <2>2, <2>3, <2>4, <2>5, <2>6 DEF At
<1>4. QED
  BY <1>1, <1>2, <1>3 DEF At

(* Queues of one and two.                                                   *)
LEMMA AppendSecond ==
  ASSUME NEW a, NEW b PROVE Append(<<a>>, b) = <<a, b>>
<1> DEFINE S == {a, b}
           s == Append(<<a>>, b)
           t == <<a, b>>
<1>1. <<a>> \in Seq(S) /\ t \in Seq(S) /\ b \in S /\ Len(<<a>>) = 1
  OBVIOUS
<1>2. s \in Seq(S) /\ Len(s) = 2 /\ s[1] = a /\ s[2] = b
  BY <1>1, AppendProperties
<1>3. Len(t) = 2 /\ t[1] = a /\ t[2] = b
  OBVIOUS
<1> HIDE DEF S, s, t
<1>4. \A i \in 1 .. Len(s) : s[i] = t[i]
  BY <1>2, <1>3
<1>5. s = t
  BY <1>1, <1>2, <1>3, <1>4, SeqEqual
<1>6. QED
  BY <1>5 DEF s, t

LEMMA Queues ==
  /\ \A a : Head(<<a>>) = a /\ Tail(<<a>>) = <<>> /\ <<a>>[1] = a
  /\ \A a, b : Head(<<a, b>>) = a /\ Tail(<<a, b>>) = <<b>>
               /\ <<a, b>>[1] = a /\ <<a, b>>[2] = b
  /\ \A a : Append(<<>>, a) = <<a>>
  /\ \A a, b : Append(<<a>>, b) = <<a, b>>
<1>1. \A a : Head(<<a>>) = a /\ Tail(<<a>>) = <<>> /\ <<a>>[1] = a
  OBVIOUS
<1>2. \A a, b : Head(<<a, b>>) = a /\ Tail(<<a, b>>) = <<b>>
                /\ <<a, b>>[1] = a /\ <<a, b>>[2] = b
  OBVIOUS
<1>3. \A a : Append(<<>>, a) = <<a>>
  OBVIOUS
<1>4. QED
  BY <1>1, <1>2, <1>3, AppendSecond

LEMMA TailSecond ==
  ASSUME NEW q, NEW a, NEW b, q = <<a, b>> PROVE Tail(q) = <<b>> /\ Head(q) = a
  OBVIOUS

LEMMA Sizes ==
  /\ \A a : <<a>> # <<>> /\ Len(<<a>>) = 1 /\ Head(<<a>>) = <<a>>[1]
  /\ \A a, b : <<a, b>> # <<>> /\ Len(<<a, b>>) = 2
               /\ Head(<<a, b>>) = <<a, b>>[1] /\ <<a, b>>[1] = a
  /\ Len(<<>>) = 0
  OBVIOUS

LEMMA AdvanceOne ==
  ASSUME NEW b PROVE Advance(<<b>>) = IF b.beat = b.req.len THEN <<>>
                                      ELSE <<[b EXCEPT !.beat = @ + 1]>>
  BY Queues DEF Advance

LEMMA AdvanceFirst ==
  ASSUME NEW b, NEW c
  PROVE  Advance(<<b, c>>) = IF b.beat = b.req.len THEN <<c>>
                             ELSE <<[b EXCEPT !.beat = @ + 1], c>>
  BY Queues DEF Advance

LEMMA InitInv == Init => IInv
<1> SUFFICES ASSUME Init PROVE IInv
  OBVIOUS
<1>1. Shapes
  BY DEF Init, Shapes
<1>2. ReadProgress /\ WriteProgress
  BY DEF Init, ReadProgress, WriteProgress, Silent
<1>3. BeatsDue /\ AnswersOwed
  BY DEF Init, BeatsDue, AnswersOwed, Piped
<1>4. QED
  BY <1>1, <1>2, <1>3 DEF IInv
-----------------------------------------------------------------------------
(* The master keeps a request that waits, and offers only its requests.     *)
LEMMA RequestsStep ==
  ASSUME IInv, Requests
  PROVE  /\ ar'.valid => ar'.msg \in Request
         /\ aw'.valid => aw'.msg \in Request
         /\ aw.valid /\ ~awready => aw' = aw
<1>1. ar' = ar \/ ar' = Silent(NoRequest) \/ \E q \in ReadRequests : ar' = Sending(q)
  BY DEF Requests
<1>2. aw' = aw \/ aw' = Silent(NoRequest) \/ \E q \in WriteRequests : aw' = Sending(q)
  BY DEF Requests
<1>3. aw.valid /\ ~awready => aw' = aw
  BY DEF Requests
<1>4. QED
  BY <1>1, <1>2, <1>3 DEF IInv, ReadProgress, WriteProgress, Silent, Sending

LEMMA ReadStep ==
  ASSUME IInv, ReadMachine, Requests, History
  PROVE  ReadProgress'
<1>1. ar'.valid => ar'.msg \in Request
  BY RequestsStep
<1>2. reading' = IF TakesAR THEN Open(reading, ar)
                 ELSE IF Fetches THEN Advance(reading) ELSE reading
  BY DEF History
<1>3. TakesAR => read_state = "IDLE"
  BY DEF TakesAR, IInv, ReadProgress
<1>4. CASE ReadIdle
  <2>1. /\ read_state = "IDLE" /\ read_state' = "IDLE" /\ ~TakesAR /\ ~Fetches
        /\ reading = <<>>
    BY <1>4 DEF ReadIdle, Fetches, IInv, ReadProgress
  <2>2. QED
    BY <1>1, <1>2, <2>1 DEF ReadProgress
<1>5. CASE ReadAccept
  <2>1. /\ read_state = "IDLE" /\ read_state' = "BURST" /\ ~arready' /\ TakesAR
        /\ read_reg' = ar.msg /\ ar.valid /\ ar.msg \in Request /\ reading = <<>>
    BY <1>5 DEF ReadAccept, TakesAR, IInv, ReadProgress
  <2>2. reading' = <<[req |-> ar.msg, beat |-> 0]>>
    BY <1>2, <2>1, Queues DEF Open
  <2>3. At([req |-> ar.msg, beat |-> 0], read_reg')
    BY <2>1, RequestTypes
  <2>4. reading'[1] = [req |-> ar.msg, beat |-> 0]
    BY <2>2
  <2>5. QED
    BY <1>1, <2>1, <2>2, <2>3, <2>4 DEF ReadProgress
<1>6. CASE ReadBeat
  <2>1. /\ read_state = "BURST" /\ Fetches /\ ~TakesAR
        /\ reading = <<reading[1]>> /\ At(reading[1], read_reg)
    BY <1>3, <1>6 DEF ReadBeat, Fetches, IInv, ReadProgress
  <2>2. /\ read_reg' = [read_reg EXCEPT !.addr = NextAddr(read_reg), !.len = CountDown(@)]
        /\ read_state' = IF read_reg.len > 0 THEN "BURST" ELSE "IDLE"
        /\ arready' <=> read_reg.len = 0
    BY <1>6 DEF ReadBeat
  <2>3. /\ read_reg.len \in Nat
        /\ reading[1].beat = reading[1].req.len <=> read_reg.len = 0
        /\ read_reg.len > 0 => At([reading[1] EXCEPT !.beat = @ + 1], read_reg')
    BY <2>1, <2>2, Beaten
  <2>4. reading' = IF reading[1].beat = reading[1].req.len THEN <<>>
                   ELSE <<[reading[1] EXCEPT !.beat = @ + 1]>>
    BY <1>2, <2>1, AdvanceOne
  <2>5. CASE read_reg.len = 0
    BY <1>1, <2>2, <2>3, <2>4, <2>5 DEF ReadProgress
  <2>6. CASE read_reg.len > 0
    <3>1. /\ reading' = <<[reading[1] EXCEPT !.beat = @ + 1]>>
          /\ read_state' = "BURST" /\ ~arready'
      BY <2>2, <2>3, <2>4, <2>6
    <3>2. reading'[1] = [reading[1] EXCEPT !.beat = @ + 1]
      BY <3>1
    <3>3. QED
      BY <1>1, <2>3, <2>6, <3>1, <3>2 DEF ReadProgress
  <2>7. QED
    BY <2>3, <2>5, <2>6
<1>7. CASE ReadStalled
  <2>1. /\ read_state = "BURST" /\ read_state' = "BURST" /\ ~Fetches /\ ~TakesAR
        /\ ~arready' /\ read_reg' = read_reg
    BY <1>3, <1>7 DEF ReadStalled
  <2>2. QED
    BY <1>1, <1>2, <2>1 DEF IInv, ReadProgress
<1>8. QED
  BY <1>4, <1>5, <1>6, <1>7 DEF ReadMachine

(* What the read machine does to the output registers.                      *)
LEMMA OutputStep ==
  ASSUME IInv, ReadMachine, Next
  PROVE  /\ (rreg = [valid |-> rreg.valid, id |-> rreg.id, last |-> rreg.last])'
         /\ Fetches => /\ rreg'.valid /\ rreg'.id = read_reg.id
                       /\ rreg'.last <=> IsLast(read_reg)
         /\ ~Fetches => /\ rreg'.valid <=> rreg.valid /\ ~OutputMoves
                        /\ rreg'.id = rreg.id /\ rreg'.last = rreg.last
         /\ PIPELINE_OUTPUT /\ PipeMoves =>
              /\ rpipe'.valid = rreg.valid /\ rpipe'.id = rreg.id /\ rpipe'.last = rreg.last
         /\ ~(PIPELINE_OUTPUT /\ PipeMoves) => rpipe' = rpipe
         /\ PIPELINE_OUTPUT' = PIPELINE_OUTPUT
<1>1. \/ Fetches /\ rreg' = [valid |-> TRUE, id |-> read_reg.id, last |-> IsLast(read_reg)]
      \/ ~Fetches /\ DrainOutput
  BY DEF ReadMachine, ReadIdle, ReadAccept, ReadBeat, ReadStalled, Fetches
<1>2. DrainOutput =>
        rreg' = [valid |-> rreg.valid /\ ~OutputMoves, id |-> rreg.id, last |-> rreg.last]
  BY DEF DrainOutput, IInv, Shapes
<1>3. rpipe' = IF PIPELINE_OUTPUT /\ PipeMoves
               THEN [valid |-> rreg.valid, id |-> rreg.id, last |-> rreg.last, data |-> rdata]
               ELSE rpipe
  BY DEF ReadMachine, OutputPipe
<1>4. PIPELINE_OUTPUT' = PIPELINE_OUTPUT
  BY DEF Next, PIPELINE_OUTPUT
<1>5. Fetches => /\ rreg' = [valid |-> TRUE, id |-> rreg'.id, last |-> rreg'.last]
                 /\ rreg'.valid /\ rreg'.id = read_reg.id
                 /\ rreg'.last <=> IsLast(read_reg)
  BY <1>1
<1>6. ~Fetches => /\ rreg' = [valid |-> rreg'.valid, id |-> rreg'.id, last |-> rreg'.last]
                  /\ rreg'.valid <=> rreg.valid /\ ~OutputMoves
                  /\ rreg'.id = rreg.id /\ rreg'.last = rreg.last
  <2> DEFINE stays == rreg.valid /\ ~OutputMoves
  <2>1. ~Fetches => rreg' = [valid |-> stays, id |-> rreg.id, last |-> rreg.last]
    BY <1>1, <1>2
  <2> HIDE DEF stays
  <2>2. ~Fetches => /\ rreg' = [valid |-> rreg'.valid, id |-> rreg'.id, last |-> rreg'.last]
                    /\ rreg'.valid = stays
                    /\ rreg'.id = rreg.id /\ rreg'.last = rreg.last
    BY <2>1
  <2>3. QED
    BY <2>2 DEF stays
<1>7. PIPELINE_OUTPUT /\ PipeMoves =>
        /\ rpipe'.valid = rreg.valid /\ rpipe'.id = rreg.id /\ rpipe'.last = rreg.last
  BY <1>3
<1>8. ~(PIPELINE_OUTPUT /\ PipeMoves) => rpipe' = rpipe
  BY <1>3
<1>9. QED
  BY <1>4, <1>5, <1>6, <1>7, <1>8
LEMMA DueStep ==
  ASSUME IInv, ReadMachine, Next
  PROVE  BeatsDue'
<1> DEFINE rest  == IF GivesR THEN Tail(due) ELSE due
           burst == Head(reading)
           beat  == [id |-> burst.req.id, last |-> burst.beat = burst.req.len,
                     data |-> image[BeatWord(burst.req, burst.beat)]]
<1>1. due' = IF Fetches THEN Append(rest, beat) ELSE rest
  BY DEF Next, History
<1>2. Fetches => beat.id = read_reg.id /\ (beat.last <=> IsLast(read_reg))
  <2> SUFFICES ASSUME Fetches
               PROVE  beat.id = read_reg.id /\ (beat.last <=> IsLast(read_reg))
    OBVIOUS
  <2>1. reading = <<reading[1]>> /\ At(reading[1], read_reg)
    BY DEF IInv, ReadProgress, Fetches
  <2>2. burst = reading[1]
    BY <2>1, Queues
  <2>3. /\ burst.req.id = read_reg.id
        /\ burst.beat = burst.req.len <=> read_reg.len = 0
    BY <2>1, <2>2 DEF At, Burst, Request, IsRequest, Lengths
  <2> HIDE DEF burst
  <2>4. QED
    BY <2>3 DEF IsLast
<1> HIDE DEF beat
<1>3. Fetches => /\ rreg'.valid /\ Same(beat, rreg')
                 /\ OutputMoves \/ ~rreg.valid
  BY <1>2, OutputStep DEF Same, Fetches
<1>4. ~Fetches => /\ rreg'.valid <=> rreg.valid /\ ~OutputMoves
                  /\ \A e : Same(e, rreg) => Same(e, rreg')
  BY OutputStep DEF Same
<1>5. PIPELINE_OUTPUT' = PIPELINE_OUTPUT
  BY OutputStep
<1>6. CASE ~PIPELINE_OUTPUT
  <2>1. GivesR <=> rreg.valid /\ rready
    BY <1>6 DEF GivesR, rvalid_o
  <2>2. OutputMoves <=> rready
    BY <1>6 DEF OutputMoves
  <2>3. rest = IF rreg.valid /\ ~rready THEN <<due[1]>> ELSE <<>>
    BY <1>6, <2>1, Queues DEF IInv, BeatsDue, Piped
  <2>4. rreg.valid => Same(due[1], rreg)
    BY <1>6 DEF IInv, BeatsDue, Piped
  <2> HIDE DEF rest
  <2>5. CASE Fetches
    <3>1. due' = <<beat>>
      BY <1>1, <1>3, <2>2, <2>3, <2>5, Queues
    <3>2. QED
      BY <1>3, <1>5, <1>6, <2>5, <3>1 DEF BeatsDue, Piped
  <2>6. CASE ~Fetches
    <3>1. due' = IF rreg'.valid THEN <<due[1]>> ELSE <<>>
      BY <1>1, <1>4, <2>2, <2>3, <2>6
    <3>2. rreg'.valid => Same(due[1], rreg')
      BY <1>4, <2>4, <2>6
    <3>3. QED
      BY <1>5, <1>6, <3>1, <3>2 DEF BeatsDue, Piped
  <2>7. QED
    BY <2>5, <2>6
<1>7. CASE PIPELINE_OUTPUT /\ PipeMoves
  <2>1. OutputMoves /\ (GivesR <=> rpipe.valid /\ rready)
    BY <1>7 DEF OutputMoves, PipeMoves, GivesR, rvalid_o
  <2>2. rpipe.valid => rready
    BY <1>7 DEF PipeMoves
  <2> DEFINE e == IF rpipe.valid THEN due[2] ELSE due[1]
  <2>3. rest = IF rreg.valid THEN <<e>> ELSE <<>>
    <3>1. CASE rpipe.valid /\ rreg.valid
      <4>1. due = <<due[1], due[2]>>
        BY <1>7, <3>1 DEF IInv, BeatsDue, Piped
      <4>2. Tail(due) = <<due[2]>>
        BY <4>1, TailSecond
      <4>3. QED
        BY <2>1, <2>2, <3>1, <4>2
    <3>2. CASE rpipe.valid /\ ~rreg.valid
      <4>1. due = <<due[1]>>
        BY <1>7, <3>2 DEF IInv, BeatsDue, Piped
      <4>2. Tail(due) = <<>>
        BY <4>1, Queues
      <4>3. QED
        BY <2>1, <2>2, <3>2, <4>2
    <3>3. CASE ~rpipe.valid
      BY <2>1, <3>3 DEF IInv, BeatsDue, Piped
    <3>4. QED
      BY <3>1, <3>2, <3>3
  <2>4. rreg.valid => Same(e, rreg)
    BY <1>7 DEF IInv, BeatsDue, Piped
  <2>5. /\ rpipe'.valid = rreg.valid
        /\ rreg.valid => Same(e, rpipe')
    BY <1>7, <2>4, OutputStep DEF Same
  <2> HIDE DEF rest, e
  <2>6. CASE Fetches
    <3>1. due' = IF rreg.valid THEN <<e, beat>> ELSE <<beat>>
      BY <1>1, <2>3, <2>6, Queues
    <3>2. QED
      BY <1>3, <1>5, <1>7, <2>5, <2>6, <3>1, Queues DEF BeatsDue, Piped
  <2>7. CASE ~Fetches
    <3>1. due' = (IF rreg.valid THEN <<e>> ELSE <<>>) /\ ~rreg'.valid
      BY <1>1, <1>4, <2>1, <2>3, <2>7
    <3>2. QED
      BY <1>5, <1>7, <2>5, <3>1, Queues DEF BeatsDue, Piped
  <2>8. QED
    BY <2>6, <2>7
<1>8. CASE PIPELINE_OUTPUT /\ ~PipeMoves
  <2>1. rpipe.valid /\ ~rready /\ ~OutputMoves /\ ~GivesR /\ rpipe' = rpipe
    BY <1>8, OutputStep DEF OutputMoves, PipeMoves, GivesR, rvalid_o
  <2>2. rest = due
    BY <2>1
  <2> HIDE DEF rest
  <2>3. CASE Fetches
    <3>1. ~rreg.valid /\ due = <<due[1]>> /\ Same(due[1], rpipe)
      BY <1>3, <1>8, <2>1, <2>3 DEF IInv, BeatsDue, Piped
    <3>2. due' = <<due[1], beat>>
      BY <1>1, <2>2, <2>3, <3>1, Queues
    <3>3. QED
      BY <1>3, <1>5, <1>8, <2>1, <2>3, <3>1, <3>2, Queues DEF BeatsDue, Piped
  <2>4. CASE ~Fetches
    BY <1>1, <1>4, <1>5, <1>8, <2>1, <2>2, <2>4 DEF IInv, BeatsDue, Piped
  <2>5. QED
    BY <2>3, <2>4
<1>9. QED
  BY <1>6, <1>7, <1>8
-----------------------------------------------------------------------------
(* The queue of writes, by what is left in front of a request that waits.   *)
LEMMA QueueStep ==
  ASSUME IInv, Requests, NEW rest,
         writing' = IF aw'.valid /\ (~aw.valid \/ awready) THEN Open(rest, aw') ELSE rest
  PROVE  LET waiting == aw.valid /\ ~awready IN
         /\ rest = (IF waiting THEN <<Begun>> ELSE <<>>) =>
              writing' = IF aw'.valid THEN <<Begun'>> ELSE <<>>
         /\ \A b : rest = (IF waiting THEN <<b, Begun>> ELSE <<b>>) =>
              writing' = IF aw'.valid THEN <<b, Begun'>> ELSE <<b>>
<1>1. CASE aw.valid /\ ~awready
  <2>1. aw' = aw /\ Begun' = Begun /\ writing' = rest
    BY <1>1, RequestsStep DEF Begun
  <2>2. QED
    BY <1>1, <2>1
<1>2. CASE ~(aw.valid /\ ~awready)
  <2>1. writing' = IF aw'.valid THEN Append(rest, Begun') ELSE rest
    BY <1>2 DEF Open, Begun
  <2>2. QED
    BY <1>2, <2>1, Queues
<1>3. QED
  BY <1>1, <1>2

LEMMA WriteStep ==
  ASSUME IInv, WriteMachine, Requests, History
  PROVE  WriteProgress'
<1> DEFINE rest    == IF TakesW THEN Advance(writing) ELSE writing
           waiting == aw.valid /\ ~awready
<1>1. writing' = IF aw'.valid /\ (~aw.valid \/ awready) THEN Open(rest, aw') ELSE rest
  BY DEF History
<1>2. aw'.valid => aw'.msg \in Request
  BY RequestsStep
<1>3. /\ awready => write_state = "IDLE"
      /\ TakesW => write_state = "BURST"
  BY DEF TakesW, IInv, WriteProgress
<1> HIDE DEF rest
<1>4. CASE \/ WriteRespond \/ WriteRespWaits \/ WriteIdle
  <2>1. /\ write_state # "BURST" /\ ~TakesW /\ ~TakesAW
        /\ write_state' \in {"IDLE", "RESP"} /\ ~wready'
        /\ awready' => write_state' = "IDLE"
    BY <1>3, <1>4 DEF WriteRespond, WriteRespWaits, WriteIdle, TakesAW
  <2>2. rest = IF waiting THEN <<Begun>> ELSE <<>>
    BY <2>1 DEF rest, TakesAW, IInv, WriteProgress
  <2>3. writing' = IF aw'.valid THEN <<Begun'>> ELSE <<>>
    BY <1>1, <2>2, QueueStep
  <2>4. QED
    BY <1>2, <2>1, <2>3 DEF WriteProgress
<1>5. CASE WriteAccept
  <2>1. /\ write_state = "IDLE" /\ write_state' = "BURST" /\ ~awready' /\ wready'
        /\ write_reg' = aw.msg /\ aw.valid /\ awready /\ ~TakesW /\ aw.msg \in Request
    BY <1>3, <1>5 DEF WriteAccept, TakesAW, IInv, WriteProgress
  <2>2. rest = <<Begun>> /\ ~waiting
    BY <2>1 DEF rest, IInv, WriteProgress
  <2>3. writing' = IF aw'.valid THEN <<Begun, Begun'>> ELSE <<Begun>>
    BY <1>1, <2>2, QueueStep
  <2>4. writing'[1] = Begun
    BY <2>3, Queues
  <2>5. At(Begun, write_reg')
    BY <2>1, RequestTypes DEF Begun
  <2>6. QED
    BY <1>2, <2>1, <2>3, <2>4, <2>5 DEF WriteProgress
<1>6. CASE WriteWaits
  <2>1. /\ write_state = "BURST" /\ write_state' = "BURST" /\ ~TakesW
        /\ ~awready /\ ~awready' /\ wready' /\ write_reg' = write_reg
    BY <1>3, <1>6 DEF WriteWaits
  <2>2. /\ rest = IF waiting THEN <<writing[1], Begun>> ELSE <<writing[1]>>
        /\ At(writing[1], write_reg)
    BY <2>1 DEF rest, IInv, WriteProgress
  <2>3. writing' = IF aw'.valid THEN <<writing[1], Begun'>> ELSE <<writing[1]>>
    BY <1>1, <2>2, QueueStep
  <2>4. writing'[1] = writing[1]
    BY <2>3, Queues
  <2>5. QED
    BY <1>2, <2>1, <2>2, <2>3, <2>4 DEF WriteProgress
<1>7. CASE WriteBeat
  <2>1. /\ write_state = "BURST" /\ TakesW /\ ~awready
        /\ write_reg' = [write_reg EXCEPT !.addr = NextAddr(write_reg), !.len = CountDown(@)]
    BY <1>3, <1>7 DEF WriteBeat
  <2>2. \/ /\ write_reg.len > 0 /\ write_state' = "BURST" /\ ~awready' /\ wready'
        \/ /\ write_reg.len = 0 /\ write_state' \in {"IDLE", "RESP"} /\ ~wready'
           /\ awready' => write_state' = "IDLE"
    BY <1>7 DEF WriteBeat
  <2>3. /\ writing = IF aw.valid THEN <<writing[1], Begun>> ELSE <<writing[1]>>
        /\ At(writing[1], write_reg)
    BY <2>1 DEF IInv, WriteProgress
  <2> DEFINE b == writing[1]
             c == [b EXCEPT !.beat = @ + 1]
  <2>4. /\ write_reg.len \in Nat
        /\ b.beat = b.req.len <=> write_reg.len = 0
        /\ write_reg.len > 0 => At(c, write_reg')
    BY <2>1, <2>3, Beaten
  <2>5. Advance(writing) = IF aw.valid THEN (IF write_reg.len = 0 THEN <<Begun>>
                                             ELSE <<c, Begun>>)
                           ELSE (IF write_reg.len = 0 THEN <<>> ELSE <<c>>)
    <3>1. CASE aw.valid
      <4>1. writing = <<b, Begun>>
        BY <2>3, <3>1
      <4>2. QED
        BY <2>4, <3>1, <4>1, AdvanceFirst
    <3>2. CASE ~aw.valid
      <4>1. writing = <<b>>
        BY <2>3, <3>2
      <4>2. QED
        BY <2>4, <3>2, <4>1, AdvanceOne
    <3>3. QED
      BY <3>1, <3>2
  <2> HIDE DEF b, c
  <2>6. CASE write_reg.len = 0
    <3>1. rest = IF waiting THEN <<Begun>> ELSE <<>>
      BY <2>1, <2>5, <2>6 DEF rest
    <3>2. writing' = IF aw'.valid THEN <<Begun'>> ELSE <<>>
      BY <1>1, <3>1, QueueStep
    <3>3. QED
      BY <1>2, <2>2, <2>6, <3>2 DEF WriteProgress
  <2>7. CASE write_reg.len > 0
    <3>1. rest = IF waiting THEN <<c, Begun>> ELSE <<c>>
      BY <2>1, <2>5, <2>7 DEF rest
    <3>2. writing' = IF aw'.valid THEN <<c, Begun'>> ELSE <<c>>
      BY <1>1, <3>1, QueueStep
    <3>3. writing'[1] = c
      BY <3>2, Queues
    <3>4. QED
      BY <1>2, <2>2, <2>4, <2>7, <3>2, <3>3 DEF WriteProgress
  <2>8. QED
    BY <2>4, <2>6, <2>7
<1>8. QED
  BY <1>4, <1>5, <1>6, <1>7 DEF WriteMachine
-----------------------------------------------------------------------------
(* The answer register and the answers owed, by whether this edge writes    *)
(* the last beat of a burst.                                                *)
LastBeat == TakesW /\ Head(writing).beat = Head(writing).req.len

LEMMA LastBeatIs ==
  ASSUME IInv
  PROVE  /\ LastBeat <=> write_state = "BURST" /\ TakesW /\ write_reg.len = 0
         /\ write_state = "BURST" => Head(writing).req.id = write_reg.id
<1>1. TakesW => write_state = "BURST"
  BY DEF TakesW, IInv, WriteProgress
<1>2. ASSUME write_state = "BURST"
      PROVE  /\ Head(writing).beat = Head(writing).req.len <=> write_reg.len = 0
             /\ Head(writing).req.id = write_reg.id
  <2>1. /\ writing = IF aw.valid THEN <<writing[1], Begun>> ELSE <<writing[1]>>
        /\ At(writing[1], write_reg)
    BY <1>2 DEF IInv, WriteProgress
  <2>2. Head(writing) = writing[1]
    BY <2>1, Queues
  <2>3. /\ writing[1].beat \in Nat /\ writing[1].req.len \in Nat /\ write_reg.len \in Nat
        /\ writing[1].beat + write_reg.len = writing[1].req.len
    BY <2>1 DEF At, Burst, Request, IsRequest, Lengths
  <2>4. QED
    BY <2>1, <2>2, <2>3 DEF At
<1>3. QED
  BY <1>1, <1>2 DEF LastBeat

LEMMA Drained ==
  ASSUME IInv, DrainAnswer
  PROVE  /\ (breg = [valid |-> breg.valid, id |-> breg.id])'
         /\ breg'.valid <=> breg.valid /\ ~bready
         /\ breg'.id = breg.id
<1> DEFINE stays == breg.valid /\ ~bready
<1>1. breg' = [valid |-> stays, id |-> breg.id]
  BY DEF DrainAnswer, IInv, Shapes
<1> HIDE DEF stays
<1>2. /\ breg' = [valid |-> breg'.valid, id |-> breg'.id]
      /\ breg'.valid = stays /\ breg'.id = breg.id
  BY <1>1
<1>3. QED
  BY <1>2 DEF stays

LEMMA AnswerStep ==
  ASSUME IInv, WriteMachine, History
  PROVE  AnswersOwed' /\ (breg = [valid |-> breg.valid, id |-> breg.id])'
<1> DEFINE rest == IF GivesB THEN Tail(owed) ELSE owed
<1>1. owed' = IF LastBeat THEN Append(rest, Head(writing).req.id) ELSE rest
  BY DEF History, LastBeat
<1>2. write_state # "RESP" => rest = IF breg.valid /\ ~bready THEN <<breg.id>> ELSE <<>>
  BY Queues DEF IInv, AnswersOwed, GivesB
<1>3. write_state = "RESP" =>
        breg.valid /\ rest = IF bready THEN <<write_reg.id>> ELSE <<breg.id, write_reg.id>>
  <2> SUFFICES ASSUME write_state = "RESP"
               PROVE  /\ breg.valid
                      /\ rest = IF bready THEN <<write_reg.id>>
                                ELSE <<breg.id, write_reg.id>>
    OBVIOUS
  <2>1. breg.valid /\ owed = <<breg.id, write_reg.id>>
    BY DEF IInv, AnswersOwed
  <2>2. Tail(owed) = <<write_reg.id>>
    BY <2>1, TailSecond
  <2>3. QED
    BY <2>1, <2>2 DEF GivesB
<1> HIDE DEF rest
<1>4. CASE DrainAnswer /\ write_state # "RESP" /\ write_state' # "RESP" /\ ~LastBeat
  BY <1>1, <1>2, <1>4, Drained DEF AnswersOwed
<1>5. CASE /\ write_state' = "IDLE" /\ CanAnswer
           /\ breg' = [valid |-> TRUE, id |-> write_reg.id]
           /\ write_state = "RESP" \/ LastBeat
  <2>1. owed' = <<write_reg.id>>
    <3>1. CASE write_state = "RESP"
      BY <1>1, <1>3, <1>5, <3>1, LastBeatIs DEF CanAnswer
    <3>2. CASE write_state # "RESP"
      BY <1>1, <1>2, <1>5, <3>2, LastBeatIs, Queues DEF CanAnswer
    <3>3. QED
      BY <3>1, <3>2
  <2>2. breg'.valid /\ breg'.id = write_reg.id
        /\ breg' = [valid |-> breg'.valid, id |-> breg'.id]
    BY <1>5
  <2>3. QED
    BY <1>5, <2>1, <2>2 DEF AnswersOwed
<1>6. CASE /\ write_state' = "RESP" /\ ~CanAnswer /\ DrainAnswer
           /\ write_reg'.id = write_reg.id
           /\ write_state = "RESP" \/ LastBeat
  <2>1. owed' = <<breg.id, write_reg.id>>
    <3>1. CASE write_state = "RESP"
      BY <1>1, <1>3, <1>6, <3>1, LastBeatIs DEF CanAnswer
    <3>2. CASE write_state # "RESP"
      <4>1. rest = <<breg.id>>
        BY <1>2, <1>6, <3>2 DEF CanAnswer
      <4>2. owed' = Append(rest, write_reg.id)
        BY <1>1, <1>6, <3>2, LastBeatIs
      <4>3. QED
        BY <4>1, <4>2, AppendSecond
    <3>3. QED
      BY <3>1, <3>2
  <2>2. breg'.valid /\ breg'.id = breg.id
    BY <1>6, Drained DEF CanAnswer
  <2>3. QED
    BY <1>6, <2>1, <2>2, Drained DEF AnswersOwed
<1>7. CASE WriteIdle \/ WriteAccept \/ WriteWaits
  BY <1>4, <1>7, LastBeatIs DEF WriteIdle, WriteAccept, WriteWaits
<1>8. CASE WriteBeat
  <2>1. write_reg'.id = write_reg.id
    <3>1. At(writing[1], write_reg)
      BY <1>8 DEF WriteBeat, IInv, WriteProgress
    <3>2. write_reg' = [write_reg EXCEPT !.addr = NextAddr(write_reg), !.len = CountDown(@)]
      BY <1>8 DEF WriteBeat
    <3>3. IsRequest(write_reg)
      BY <3>1 DEF At
    <3> DEFINE a == NextAddr(write_reg)
               n == CountDown(write_reg.len)
    <3>4. write_reg' = [write_reg EXCEPT !.addr = a, !.len = n]
      BY <3>2
    <3> HIDE DEF a, n
    <3>5. QED
      BY <3>3, <3>4 DEF IsRequest
  <2>2. QED
    <3>1. write_reg.len > 0 => write_reg.len # 0
      <4>1. At(writing[1], write_reg)
        BY <1>8 DEF WriteBeat, IInv, WriteProgress
      <4>2. write_reg.len \in Nat
        BY <4>1 DEF At, IsRequest, Lengths
      <4>3. QED
        BY <4>2
    <3>2. QED
      BY <1>4, <1>5, <1>6, <1>8, <2>1, <3>1, LastBeatIs DEF WriteBeat
<1>9. CASE WriteRespond \/ WriteRespWaits
  BY <1>5, <1>6, <1>9 DEF WriteRespond, WriteRespWaits
<1>10. QED
  BY <1>7, <1>8, <1>9 DEF WriteMachine
-----------------------------------------------------------------------------
LEMMA NextInv == IInv /\ [Next]_vars => IInv'
<1> SUFFICES ASSUME IInv, [Next]_vars PROVE IInv'
  OBVIOUS
<1>1. CASE Next
  <2>1. ReadProgress' /\ BeatsDue' /\ WriteProgress' /\ AnswersOwed'
    BY <1>1, ReadStep, DueStep, WriteStep, AnswerStep DEF Next
  <2>2. Shapes'
    BY <1>1, OutputStep, AnswerStep DEF Next, Shapes
  <2>3. QED
    BY <2>1, <2>2 DEF IInv
<1>2. CASE UNCHANGED vars
  BY <1>2 DEF IInv, Shapes, ReadProgress, BeatsDue, Piped, WriteProgress, Begun,
              AnswersOwed, PIPELINE_OUTPUT, vars, readvars, writevars, inputs, history
<1>3. QED
  BY <1>1, <1>2

LEMMA Invariance == Spec => []IInv
  BY InitInv, NextInv, PTL DEF Spec

(* Read beats come out in order, with the id of their burst and the last    *)
(* one marked, none lost or doubled, however the master stalls and in both  *)
(* builds (317-413): what is due is what the output registers hold.         *)
THEOREM ReadsComeInOrder == Spec => []ReadOrder
<1>1. IInv => ReadOrder
  <2> SUFFICES ASSUME IInv PROVE ReadOrder
    OBVIOUS
  <2>1. /\ Piped /\ rreg.valid => Stages = {1, 2}
        /\ Piped /\ ~rreg.valid => Stages = {2}
        /\ ~Piped /\ rreg.valid => Stages = {1}
        /\ ~Piped /\ ~rreg.valid => Stages = {}
    BY DEF Stages, Piped
  <2>2. /\ Cardinality({}) = 0 /\ Cardinality({1}) = 1 /\ Cardinality({2}) = 1
    BY FS_EmptySet, FS_Singleton
  <2>3. Cardinality({1, 2}) = 2
    <3> DEFINE one == {1}
    <3>1. IsFiniteSet(one) /\ Cardinality(one) = 1
      BY FS_Singleton
    <3>2. 2 \notin one /\ {1, 2} = one \cup {2}
      OBVIOUS
    <3> HIDE DEF one
    <3>3. Cardinality(one \cup {2}) = 1 + 1
      BY <3>1, <3>2, FS_AddElement
    <3>4. QED
      BY <3>2, <3>3
  <2>4. /\ Piped /\ rreg.valid => Len(due) = 2 /\ Head(due) = due[1]
        /\ Piped /\ ~rreg.valid => Len(due) = 1 /\ Head(due) = due[1]
        /\ ~Piped /\ rreg.valid => Len(due) = 1 /\ Head(due) = due[1]
        /\ ~Piped /\ ~rreg.valid => Len(due) = 0
    BY Sizes DEF IInv, BeatsDue
  <2>5. Len(due) = Cardinality(Stages)
    BY <2>1, <2>2, <2>3, <2>4
  <2>6. rvalid_o => rid_o = Head(due).id /\ (rlast_o <=> Head(due).last)
    BY <2>4 DEF rvalid_o, rid_o, rlast_o, IInv, BeatsDue, Piped, Same
  <2>7. QED
    BY <2>5, <2>6 DEF ReadOrder
<1>2. QED
  BY <1>1, Invariance, PTL

(* A write is answered once, after its last beat, with its own id, also     *)
(* when the answer before it still waits (258-282).                         *)
THEOREM AnsweredOnce == Spec => []WriteAnswers
<1>1. IInv => WriteAnswers
  <2> SUFFICES ASSUME IInv PROVE WriteAnswers
    OBVIOUS
  <2>1. CASE write_state = "RESP"
    <3>1. breg.valid /\ owed = <<breg.id, write_reg.id>>
      BY <2>1 DEF IInv, AnswersOwed
    <3>2. owed # <<>> /\ Head(owed) = breg.id /\ Len(owed) = 2
      BY <3>1, Sizes
    <3>3. QED
      BY <2>1, <3>1, <3>2 DEF WriteAnswers
  <2>2. CASE write_state # "RESP" /\ breg.valid
    <3>1. owed = <<breg.id>>
      BY <2>2 DEF IInv, AnswersOwed
    <3>2. owed # <<>> /\ Head(owed) = breg.id /\ Len(owed) = 1
      BY <3>1
    <3>3. QED
      BY <2>2, <3>2 DEF WriteAnswers
  <2>3. CASE write_state # "RESP" /\ ~breg.valid
    BY <2>3 DEF IInv, AnswersOwed, WriteAnswers
  <2>4. QED
    BY <2>1, <2>2, <2>3
<1>2. QED
  BY <1>1, Invariance, PTL

(* What is offered on the read and on the answer channel stays as it is     *)
(* until it is taken (227, 322, 395).                                       *)
THEOREM OffersStay == Spec => OutputsHeld
<1> DEFINE Held ==
      /\ rvalid_o /\ ~rready => rvalid_o' /\ <<rid_o, rlast_o>>' = <<rid_o, rlast_o>>
      /\ breg.valid /\ ~bready => breg' = breg
<1>1. IInv /\ [Next]_vars => [Held]_vars
  <2> SUFFICES ASSUME IInv, Next PROVE Held
    OBVIOUS
  <2>1. rvalid_o /\ ~rready => rvalid_o' /\ <<rid_o, rlast_o>>' = <<rid_o, rlast_o>>
    <3> SUFFICES ASSUME rvalid_o, ~rready
                 PROVE  rvalid_o' /\ <<rid_o, rlast_o>>' = <<rid_o, rlast_o>>
      OBVIOUS
    <3>1. ReadMachine /\ PIPELINE_OUTPUT' = PIPELINE_OUTPUT
      BY OutputStep DEF Next
    <3>2. CASE PIPELINE_OUTPUT
      <4>1. rpipe' = rpipe
        BY <3>1, <3>2, OutputStep DEF rvalid_o, PipeMoves
      <4>2. QED
        BY <3>1, <3>2, <4>1 DEF rvalid_o, rid_o, rlast_o
    <3>3. CASE ~PIPELINE_OUTPUT
      <4>1. rreg.valid /\ ~OutputMoves /\ ~Fetches
        BY <3>3 DEF rvalid_o, OutputMoves, Fetches
      <4>2. rreg'.valid /\ rreg'.id = rreg.id /\ rreg'.last = rreg.last
        BY <3>1, <4>1, OutputStep
      <4>3. QED
        BY <3>1, <3>3, <4>2 DEF rvalid_o, rid_o, rlast_o
    <3>4. QED
      BY <3>2, <3>3
  <2>2. breg.valid /\ ~bready => breg' = breg
    <3> SUFFICES ASSUME breg.valid, ~bready PROVE breg' = breg
      OBVIOUS
    <3>1. DrainAnswer
      BY DEF Next, WriteMachine, WriteIdle, WriteAccept, WriteWaits, WriteBeat,
             WriteRespond, WriteRespWaits, CanAnswer
    <3>2. /\ breg' = [valid |-> breg'.valid, id |-> breg.id]
          /\ breg = [valid |-> breg.valid, id |-> breg.id]
          /\ breg'.valid <=> breg.valid
      BY <3>1, Drained DEF IInv, Shapes
    <3>3. QED
      BY <3>2
  <2>3. QED
    BY <2>1, <2>2
<1>2. QED
  BY <1>1, Invariance, PTL DEF Spec, OutputsHeld

(* The machine's address is the one the burst means.                        *)
LEMMA WordsAgree ==
  ASSUME NEW b, NEW reg, At(b, reg)
  PROVE  BeatWord(b.req, b.beat) = word(reg.addr)
<1>1. reg.addr = (b.req.addr + Offset(b.req, b.beat)) % Space
  BY DEF At, Addressed
<1>2. BeatWord(b.req, b.beat) = word((b.req.addr + Offset(b.req, b.beat)) % Space)
  BY Zenon DEF BeatWord, Offset, Bytes, Space
<1>3. QED
  BY <1>1, <1>2

LEMMA MemoryStep ==
  ASSUME IInv, Next, mem = image
  PROVE  mem' = image'
<1>1. TakesW => write_state = "BURST"
  BY DEF TakesW, IInv, WriteProgress
<1>2. CASE ~TakesW
  BY <1>2 DEF Next, Memory, History, mem_wr_en
<1>3. CASE TakesW
  <2>1. write_state = "BURST" /\ mem_wr_en
    BY <1>1, <1>3 DEF mem_wr_en
  <2>2. /\ writing = IF aw.valid THEN <<writing[1], Begun>> ELSE <<writing[1]>>
        /\ At(writing[1], write_reg)
    BY <2>1 DEF IInv, WriteProgress
  <2>3. Head(writing) = writing[1]
    BY <2>2, Queues
  <2>4. BeatWord(Head(writing).req, Head(writing).beat) = word(write_reg.addr)
    BY <2>2, <2>3, WordsAgree
  <2> DEFINE a == word(write_reg.addr)
  <2>5. mem' = [mem EXCEPT ![a] = Written(mem[a], w.msg)]
    BY <2>1 DEF Next, Memory
  <2>6. image' = [image EXCEPT ![a] = Written(image[a], w.msg)]
    BY <1>3, <2>4, Zenon DEF Next, History, Written
  <2>7. QED
    BY <2>5, <2>6
<1>4. QED
  BY <1>2, <1>3

(* The memory holds what the bursts wrote, byte by byte, for every width,   *)
(* length, size and kind of burst (180-182, 247-272).                       *)
THEOREM BurstsLand == Spec => []WritesLand
<1>1. Init => WritesLand
  BY DEF Init, WritesLand
<1>2. IInv /\ WritesLand /\ [Next]_vars => WritesLand'
  <2>1. IInv /\ WritesLand /\ Next => WritesLand'
    BY MemoryStep DEF WritesLand
  <2>2. WritesLand /\ UNCHANGED vars => WritesLand'
    BY DEF WritesLand, vars, history
  <2>3. QED
    BY <2>1, <2>2
<1>3. QED
  BY <1>1, <1>2, Invariance, PTL DEF Spec
-----------------------------------------------------------------------------
(* A master that does not overlap has no read open beside a write; one that *)
(* does not stall takes every beat at once, and then the data register      *)
(* holds the beat fetched last.                                             *)
Alone == ~master.overlaps => ~(ReadOpen /\ WriteOpen)

Ready == ~master.stalls => rready

Streaming == ~master.stalls /\ (READ_ON_WRITE \/ ~master.overlaps)

DataDue ==
  Streaming =>
    /\ Piped => due[1].data = rpipe.data
    /\ Piped /\ rreg.valid => due[2].data = rdata
    /\ ~Piped /\ rreg.valid => due[1].data = rdata

StreamInv == IInv /\ WritesLand /\ Alone /\ Ready /\ DataDue

LEMMA OpenWhile ==
  ASSUME IInv
  PROVE  /\ GivesR => due # <<>>
         /\ Fetches => reading # <<>>
         /\ TakesW => writing # <<>>
         /\ GivesB => owed # <<>>
<1>1. GivesR => due # <<>>
  BY Sizes DEF IInv, BeatsDue, Piped, GivesR, rvalid_o
<1>2. Fetches => reading # <<>>
  BY Sizes DEF IInv, ReadProgress, Fetches
<1>3. TakesW => writing # <<>>
  BY Sizes DEF IInv, WriteProgress, TakesW
<1>4. GivesB => owed # <<>>
  BY Sizes DEF IInv, AnswersOwed, GivesB
<1>5. QED
  BY <1>1, <1>2, <1>3, <1>4

(* What is open after an edge was open before, or is a new request.         *)
LEMMA OpenStep ==
  ASSUME IInv, Next
  PROVE  /\ ReadOpen' => ReadOpen \/ ar'.valid
         /\ WriteOpen' => WriteOpen \/ aw'.valid
         /\ ar'.valid => ReadOpen \/ master.overlaps \/ ~WriteOpen
         /\ aw'.valid => WriteOpen \/ master.overlaps \/ ~(ReadOpen \/ ar'.valid)
<1>1. ASSUME ~ReadOpen, ~ar'.valid PROVE ~ReadOpen'
  <2>1. /\ ~TakesAR /\ ~Fetches /\ ~GivesR /\ reading = <<>> /\ due = <<>>
    BY <1>1, OpenWhile DEF ReadOpen, TakesAR
  <2>2. reading' = <<>> /\ due' = <<>>
    BY <2>1 DEF Next, History
  <2>3. QED
    BY <1>1, <2>2 DEF ReadOpen
<1>2. ASSUME ~WriteOpen, ~aw'.valid PROVE ~WriteOpen'
  <2>1. ~TakesW /\ ~GivesB /\ writing = <<>> /\ owed = <<>>
    BY <1>2, OpenWhile DEF WriteOpen
  <2>2. writing' = <<>> /\ owed' = <<>>
    BY <1>2, <2>1 DEF Next, History
  <2>3. QED
    BY <1>2, <2>2 DEF WriteOpen
<1>3. /\ ar' = ar \/ ~ar'.valid \/ master.overlaps \/ ~WriteOpen
      /\ aw' = aw \/ ~aw'.valid \/ master.overlaps \/ ~(ReadOpen \/ ar'.valid)
  BY DEF Next, Requests, Silent
<1>4. QED
  BY <1>1, <1>2, <1>3 DEF ReadOpen, WriteOpen

LEMMA AloneStep ==
  ASSUME IInv, Next, Alone
  PROVE  Alone'
<1>1. master' = master
  BY DEF Next
<1>2. QED
  BY <1>1, OpenStep DEF Alone

LEMMA ReadyStep ==
  ASSUME Next, Ready
  PROVE  Ready'
  BY DEF Next, DataAndReady, Ready

(* A beat that is fetched is the memory's word, and the data register       *)
(* loads it.                                                                *)
LEMMA FetchedData ==
  ASSUME IInv, Next, WritesLand, Alone, Streaming, Fetches
  PROVE  image[BeatWord(Head(reading).req, Head(reading).beat)] = rdata'
<1>1. reading = <<reading[1]>> /\ At(reading[1], read_reg)
  BY DEF IInv, ReadProgress, Fetches
<1>2. Head(reading) = reading[1]
  BY <1>1, Queues
<1>3. BeatWord(Head(reading).req, Head(reading).beat) = word(read_reg.addr)
  BY <1>1, <1>2, WordsAgree
<1>4. READ_ON_WRITE \/ ~mem_wr_en
  BY OpenWhile DEF Streaming, Alone, ReadOpen, WriteOpen, mem_wr_en
<1>5. rdata' = mem[word(read_reg.addr)]
  BY <1>4 DEF Next, Memory, FetchWord
<1>6. QED
  BY <1>3, <1>5 DEF WritesLand

LEMMA DataStep ==
  ASSUME StreamInv, Next
  PROVE  DataDue'
<1> SUFFICES ASSUME Streaming' PROVE
      /\ Piped' => due'[1].data = rpipe'.data
      /\ Piped' /\ rreg'.valid => due'[2].data = rdata'
      /\ ~Piped' /\ rreg'.valid => due'[1].data = rdata'
  BY DEF DataDue
<1> DEFINE rest  == IF GivesR THEN Tail(due) ELSE due
           burst == Head(reading)
           beat  == [id |-> burst.req.id, last |-> burst.beat = burst.req.len,
                     data |-> image[BeatWord(burst.req, burst.beat)]]
<1>1. Streaming /\ IInv /\ rready /\ PIPELINE_OUTPUT' = PIPELINE_OUTPUT
  BY DEF StreamInv, Streaming, Next, READ_ON_WRITE, PIPELINE_OUTPUT, Ready
<1>2. due' = IF Fetches THEN Append(rest, beat) ELSE rest
  BY DEF Next, History
<1>3. OutputMoves /\ PipeMoves
  BY <1>1 DEF OutputMoves, PipeMoves
<1>4. /\ Fetches => rreg'.valid
      /\ ~Fetches => ~rreg'.valid
      /\ PIPELINE_OUTPUT => rpipe'.valid = rreg.valid /\ rpipe'.data = rdata
  <2>1. ReadMachine
    BY DEF Next
  <2>2. PIPELINE_OUTPUT => rpipe'.data = rdata
    BY <1>3, <2>1 DEF ReadMachine, OutputPipe
  <2>3. QED
    BY <1>1, <1>3, <2>1, <2>2, OutputStep
<1>5. Fetches => beat.data = rdata'
  BY <1>1, FetchedData DEF StreamInv
<1> HIDE DEF beat
<1>6. CASE ~PIPELINE_OUTPUT
  <2>1. rest = <<>>
    BY <1>1, <1>6, Queues DEF GivesR, rvalid_o, IInv, BeatsDue, Piped
  <2> HIDE DEF rest
  <2>2. Fetches => due' = <<beat>> /\ due'[1] = beat
    BY <1>2, <2>1, Queues
  <2>3. QED
    BY <1>1, <1>4, <1>5, <1>6, <2>2 DEF Piped
<1>7. CASE PIPELINE_OUTPUT
  <2> DEFINE e == IF rpipe.valid THEN due[2] ELSE due[1]
  <2>1. rest = (IF rreg.valid THEN <<e>> ELSE <<>>)
    <3>1. CASE rpipe.valid /\ rreg.valid
      <4>1. due = <<due[1], due[2]>>
        BY <1>1, <1>7, <3>1 DEF IInv, BeatsDue, Piped
      <4>2. Tail(due) = <<due[2]>>
        BY <4>1, TailSecond
      <4>3. QED
        BY <1>1, <1>7, <3>1, <4>2 DEF GivesR, rvalid_o
    <3>2. CASE rpipe.valid /\ ~rreg.valid
      <4>1. due = <<due[1]>>
        BY <1>1, <1>7, <3>2 DEF IInv, BeatsDue, Piped
      <4>2. Tail(due) = <<>>
        BY <4>1, Queues
      <4>3. QED
        BY <1>1, <1>7, <3>2, <4>2 DEF GivesR, rvalid_o
    <3>3. CASE ~rpipe.valid
      BY <1>1, <1>7, <3>3 DEF GivesR, rvalid_o, IInv, BeatsDue, Piped
    <3>4. QED
      BY <3>1, <3>2, <3>3
  <2>2. rreg.valid => e.data = rdata
    BY <1>1, <1>7 DEF StreamInv, DataDue, Piped
  <2> HIDE DEF rest, e
  <2>3. CASE Fetches /\ rreg.valid
    <3>1. due' = <<e, beat>>
      BY <1>2, <2>1, <2>3, Queues
    <3>2. due'[1] = e /\ due'[2] = beat
      BY <3>1, Queues
    <3>3. QED
      BY <1>1, <1>4, <1>5, <1>7, <2>2, <2>3, <3>2 DEF Piped
  <2>4. CASE Fetches /\ ~rreg.valid
    <3>1. due' = <<beat>> /\ due'[1] = beat
      BY <1>2, <2>1, <2>4, Queues
    <3>2. QED
      BY <1>1, <1>4, <1>5, <1>7, <2>4, <3>1 DEF Piped
  <2>5. CASE ~Fetches
    <3>1. rreg.valid => due' = <<e>> /\ due'[1] = e
      BY <1>2, <2>1, <2>5, Queues
    <3>2. QED
      BY <1>1, <1>4, <1>7, <2>2, <2>5, <3>1 DEF Piped
  <2>6. QED
    BY <2>3, <2>4, <2>5
<1>8. QED
  BY <1>6, <1>7

(* The data of a beat is what the memory held at the beat's address when it *)
(* was fetched (183, 207, 410), for a master that takes every beat at once  *)
(* and does not write while it reads from a single-port memory.             *)
THEOREM DataAsFetched == Spec => []ReadData
<1>1. Init => StreamInv
  <2> SUFFICES ASSUME Init PROVE StreamInv
    OBVIOUS
  <2>1. WritesLand /\ Alone /\ Ready /\ DataDue
    BY DEF Init, WritesLand, Alone, ReadOpen, WriteOpen, Ready, DataDue, Piped, Silent
  <2>2. QED
    BY <2>1, InitInv DEF StreamInv
<1>2. StreamInv /\ [Next]_vars => StreamInv'
  <2> SUFFICES ASSUME StreamInv, [Next]_vars PROVE StreamInv'
    OBVIOUS
  <2>1. IInv'
    BY NextInv DEF StreamInv
  <2>2. CASE Next
    <3>1. WritesLand'
      BY <2>2, MemoryStep DEF StreamInv, WritesLand
    <3>2. QED
      BY <2>1, <2>2, <3>1, AloneStep, ReadyStep, DataStep DEF StreamInv
  <2>3. CASE UNCHANGED vars
    BY <2>1, <2>3 DEF StreamInv, WritesLand, Alone, ReadOpen, WriteOpen, Ready, DataDue,
       Streaming, Piped, READ_ON_WRITE, PIPELINE_OUTPUT, vars, readvars, writevars,
       inputs, history
  <2>4. QED
    BY <2>2, <2>3
<1>3. StreamInv => ReadData
  <2> SUFFICES ASSUME StreamInv, Streaming, rvalid_o PROVE rdata_o = Head(due).data
    BY DEF ReadData, Streaming
  <2>1. Head(due) = due[1]
    BY Sizes DEF StreamInv, IInv, BeatsDue, rvalid_o, Piped
  <2>2. QED
    BY <2>1 DEF StreamInv, DataDue, rvalid_o, rdata_o, Piped
<1>4. QED
  BY <1>1, <1>2, <1>3, PTL DEF Spec
=============================================================================
