-------------------------- MODULE AxiInterconnect --------------------------
(***************************************************************************)
(* The AXI4 interconnect between the CPU's two buses and the peripherals,  *)
(* the boot memory and the external memory                                 *)
(* (hardware/src/axi_interconnect.v), clock edge by clock edge: on every   *)
(* edge the arbiter, the state machine and the two data paths all step, so *)
(* Next is the conjunction of one step of each.  As in the source, the     *)
(* "s_" wires face the AXI masters and the "m_" wires face the AXI slaves. *)
(*                                                                         *)
(* External: the arbiter (round robin, a grant is kept until it is         *)
(* acknowledged), the masters and the slaves.  They keep AXI's rules: what *)
(* is valid stays as it is until it is taken.  A wire "ready" is raised    *)
(* only beside its "valid": the module acts on it nowhere else.            *)
(* A beat is a token that says what it should be; its data is left out.    *)
(***************************************************************************)
EXTENDS Integers, Sequences, FiniteSets

CONSTANTS
  S_COUNT,          (* AXI masters                                          *)
  M_COUNT,          (* AXI slaves                                           *)
  ADDR_WIDTH,       (* bits of an address                                   *)
  LEN_WIDTH,        (* bits of a burst length                               *)
  M_ADDR_WIDTH,     (* bits of an address within each slave                 *)
  ReadRequests,     (* requests [id, addr, len] each master may make        *)
  WriteRequests

Masters == 0 .. S_COUNT - 1
Slaves  == 0 .. M_COUNT - 1
Ports   == 0 .. 2 * S_COUNT - 1
Address == 0 .. 2 ^ ADDR_WIDTH - 1
Request == [id : Nat, addr : Address, len : 0 .. 2 ^ LEN_WIDTH - 1]
Size(m) == 2 ^ M_ADDR_WIDTH[m]

ASSUME InterconnectAssumption ==
  /\ {S_COUNT, M_COUNT, ADDR_WIDTH, LEN_WIDTH} \subseteq Nat \ {0}
  /\ M_ADDR_WIDTH \in [Slaves -> 1 .. ADDR_WIDTH]
  /\ {2 ^ ADDR_WIDTH, 2 ^ LEN_WIDTH} \cup {Size(m) : m \in Slaves} \subseteq Nat \ {0}
  /\ ReadRequests \in [Masters -> SUBSET Request]
  /\ WriteRequests \in [Masters -> SUBSET Request]

VARIABLES
  clk,                (* toggles on every edge, so that time does not stop  *)
  grant, last_grant,  (* the arbiter: port granted or NoPort; port it       *)
                      (* granted last.  Port 2s is s's AW, 2s + 1 its AR    *)
  state, m_select, axi, addr_valid, bresp,  (* the state machine            *)
  out,                (* its output vectors, as sets of masters or slaves   *)
  r, w,               (* the data paths: output and skid register           *)
  ar, aw, wdata,      (* per master: request or beat offered, or None       *)
  rready, bready,     (* masters that take their R or B                     *)
  m_ready,            (* slaves that take their AW, AR or W                 *)
  serving,            (* per slave: what it is doing                        *)
  m_rvalid, m_bvalid, (* slaves that offer a beat or an answer              *)
  (* What the masters asked for, for the properties:                        *)
  reading,            (* per master: read taken, and beats it has           *)
  writing             (* per master: writes offered, and beats of each that *)
                      (* it has offered and that have reached a slave       *)

machine == <<state, m_select, axi, addr_valid, bresp, out>>
masters == <<ar, aw, wdata, rready, bready, reading, writing>>
slaves  == <<m_ready, serving, m_rvalid, m_bvalid>>
vars == <<clk, grant, last_grant, machine, r, w, masters, slaves>>

None   == [none |-> TRUE]
NoPort == -1
-----------------------------------------------------------------------------
(* The arbiter.                                                             *)
granted  == grant # NoPort
read     == granted /\ grant % 2 = 1
s_select == IF granted THEN grant \div 2 ELSE 0

request ==
  {2 * s : s \in {m \in Masters : aw[m] # None}}
    \cup {2 * s + 1 : s \in {m \in Masters : ar[m] # None}}

acknowledge ==
  /\ granted
  /\ IF read THEN s_select \in r.valid \cap rready /\ r.beat.last
             ELSE s_select \in out.s_bvalid \cap bready

Lowest(ports) == CHOOSE p \in ports : \A q \in ports : p <= q

FixedPriority == Lowest(request)

(* The next requesting port above the one granted last, or else the lowest. *)
RoundRobin ==
  LET above == {p \in request : p > last_grant}
  IN  Lowest(IF above # {} THEN above ELSE request)

Arbiter ==
  IF granted /\ ~acknowledge THEN UNCHANGED <<grant, last_grant>>
  ELSE IF request = {} THEN grant' = NoPort /\ UNCHANGED last_grant
  ELSE grant' = RoundRobin /\ last_grant' = RoundRobin
-----------------------------------------------------------------------------
(* The state machine.                                                       *)

(* Where each slave begins: after the one before it, aligned to its size.   *)
BaseAddrs[m \in Slaves] ==
  IF m = 0 THEN 0
  ELSE LET base == BaseAddrs[m - 1] + Size(m - 1)
       IN  base - (base % Size(m))

(* No address belongs to two slaves: checked before the simulation starts.  *)
Apart(m, n) ==
  \/ BaseAddrs[m] + Size(m) <= BaseAddrs[n]
  \/ BaseAddrs[n] + Size(n) <= BaseAddrs[m]

ASSUME RegionsApart == \A m, n \in Slaves : m = n \/ Apart(m, n)

Match(addr) ==
  {m \in Slaves : addr \div Size(m) = BaseAddrs[m] \div Size(m)}

(* The drop of a write takes one beat (664), so it serves no longer burst;  *)
(* in this SoC the slaves cover all addresses                               *)
(* (iob_soc_opencryptolinux.v 125) and there is no such write.              *)
ASSUME DropsAreSingle ==
  \A s \in Masters : \A q \in WriteRequests[s] : Match(q.addr) = {} => q.len = 0

EarlyIgnoringSkid(k, port, taken, in) == taken \/ port \notin k.valid \/ in = None

(* A ready wire for the next cycle: the register at the output is read, or  *)
(* the skid register will still be free.                                    *)
Early(k, port, taken, in) ==
  taken \/ (k.temp = None /\ (port \notin k.valid \/ in = None))

(* The beat that enters the R path on this edge: the selected slave's, with *)
(* the id of the request; or a decode error, which has no slave.            *)
Beat(from, addr, n, last, id) ==
  [from |-> from, addr |-> addr, n |-> n, last |-> last, id |-> id]

M_Beat(m) ==
  Beat(m, serving[m].addr, serving[m].n, serving[m].n = serving[m].len, axi.id)

TakesR == state = "READ" /\ m_select \in out.m_rready \cap m_rvalid
TakesW == state \in {"WRITE", "WRITE_DROP"} /\ s_select \in out.s_wready /\ wdata[s_select] # None

R_In ==
  IF TakesR THEN M_Beat(m_select)
  ELSE IF state = "READ_DROP" THEN Beat(M_COUNT, axi.addr, 0, axi.len = 0, axi.id)
  ELSE None

W_In == IF TakesW /\ state = "WRITE" THEN wdata[s_select] ELSE None

R_Early == Early(r, s_select, s_select \in rready, R_In)
W_Early == Early(w, m_select, m_select \in m_ready.w, W_In)

Only(condition, port) == IF condition THEN {port} ELSE {}

QuietPulse ==
  [s_awready |-> {}, s_wready |-> {}, s_bvalid |-> out.s_bvalid \ bready, s_arready |-> {},
   m_awvalid |-> {}, m_bready |-> {}, m_arvalid |-> {}, m_rready |-> {}]

(* The outputs of a cycle that sets none of them.                           *)
Quiet ==
  [s_awready |-> {}, s_wready |-> {}, s_bvalid |-> out.s_bvalid \ bready, s_arready |-> {},
   m_awvalid |-> out.m_awvalid \ m_ready.aw, m_bready |-> {},
   m_arvalid |-> out.m_arvalid \ m_ready.ar, m_rready |-> {}]

IdleWaits ==
  /\ state = "IDLE" /\ ~granted
  /\ out' = Quiet
  /\ UNCHANGED <<state, m_select, axi, addr_valid, bresp>>

IdleAccepts ==
  /\ state = "IDLE" /\ granted
  /\ state' = "DECODE"
  /\ axi' = IF read THEN ar[s_select] ELSE aw[s_select]
  /\ addr_valid' = TRUE
  /\ out' = [Quiet EXCEPT !.s_arready = Only(read, s_select), !.s_awready = Only(~read, s_select)]
  /\ UNCHANGED <<m_select, bresp>>

(* The ready wire that a read raises here is still the old slave's.         *)
DecodeMatch ==
  /\ state = "DECODE" /\ Match(axi.addr) # {}
  /\ m_select' = CHOOSE m \in Match(axi.addr) : \A n \in Match(axi.addr) : n <= m
  /\ state' = IF read THEN "READ" ELSE "WRITE"
  /\ out' = [Quiet EXCEPT !.m_rready = Only(read /\ R_Early, m_select),
                          !.s_wready = Only(~read /\ W_Early, s_select)]
  /\ UNCHANGED <<axi, addr_valid, bresp>>

DecodeErrorUnmarked ==
  /\ state = "DECODE" /\ Match(axi.addr) = {}
  /\ state' = IF read THEN "READ_DROP" ELSE "WRITE_DROP"
  /\ out' = [Quiet EXCEPT !.s_wready = Only(~read, s_select)]
  /\ UNCHANGED <<m_select, axi, addr_valid, bresp>>

DecodeError ==
  /\ state = "DECODE" /\ Match(axi.addr) = {}
  /\ state' = IF read THEN "READ_DROP" ELSE "WRITE_DROP"
  /\ bresp' = IF read THEN bresp ELSE "DECERR"
  /\ out' = [Quiet EXCEPT !.s_wready = Only(~read, s_select)]
  /\ UNCHANGED <<m_select, axi, addr_valid>>

Write ==
  /\ state = "WRITE"
  /\ LET done == TakesW /\ wdata[s_select].last
     IN /\ state' = IF done THEN "WRITE_RESP" ELSE "WRITE"
        /\ out' = [Quiet EXCEPT !.m_awvalid = @ \cup Only(addr_valid, m_select),
                                !.s_wready = Only(W_Early /\ ~done, s_select),
                                !.m_bready = Only(done, m_select)]
  /\ addr_valid' = FALSE
  /\ UNCHANGED <<m_select, axi, bresp>>

BOffered == m_select \in out.m_bready

TakesB == m_select \in out.m_bready \cap m_bvalid

(* The slave's own answer is stored (651).  The slaves here answer OKAY:    *)
(* an error of theirs would be passed on the same way.                      *)
WriteResp ==
  /\ state = "WRITE_RESP"
  /\ state' = IF TakesB THEN "WAIT_IDLE" ELSE "WRITE_RESP"
  /\ bresp' = IF TakesB THEN "OKAY" ELSE bresp
  /\ out' = [Quiet EXCEPT !.m_bready = Only(~TakesB, m_select),
                          !.s_bvalid = @ \cup Only(TakesB, s_select)]
  /\ UNCHANGED <<m_select, axi, addr_valid>>

(* Answers after the first beat, whether it is the last one or not.         *)
WriteDrop ==
  /\ state = "WRITE_DROP"
  /\ state' = IF TakesW THEN "WAIT_IDLE" ELSE "WRITE_DROP"
  /\ out' = [Quiet EXCEPT !.s_wready = Only(~TakesW, s_select),
                          !.s_bvalid = @ \cup Only(TakesW, s_select)]
  /\ addr_valid' = FALSE
  /\ UNCHANGED <<m_select, axi, bresp>>

Read ==
  /\ state = "READ"
  /\ LET done == TakesR /\ M_Beat(m_select).last
     IN /\ state' = IF done THEN "WAIT_IDLE" ELSE "READ"
        /\ out' = [Quiet EXCEPT !.m_arvalid = @ \cup Only(addr_valid, m_select),
                                !.m_rready = Only(R_Early /\ ~done, m_select)]
  /\ addr_valid' = FALSE
  /\ UNCHANGED <<m_select, axi, bresp>>

CountDown(count) == (count - 1) % 2 ^ LEN_WIDTH

ReadDrop ==
  /\ state = "READ_DROP"
  /\ state' = IF r.ready /\ axi.len = 0 THEN "WAIT_IDLE" ELSE "READ_DROP"
  /\ axi' = IF r.ready THEN [axi EXCEPT !.len = CountDown(@)] ELSE axi
  /\ out' = Quiet
  /\ UNCHANGED <<m_select, addr_valid, bresp>>

WaitIdle ==
  /\ state = "WAIT_IDLE"
  /\ state' = IF ~granted \/ acknowledge THEN "IDLE" ELSE "WAIT_IDLE"
  /\ out' = Quiet
  /\ UNCHANGED <<m_select, axi, addr_valid, bresp>>

Machine ==
  \/ IdleWaits \/ IdleAccepts \/ DecodeMatch \/ DecodeError \/ Write \/ WriteResp
  \/ WriteDrop \/ Read \/ ReadDrop \/ WaitIdle
-----------------------------------------------------------------------------
(* The data paths: an output register, and a skid register for the beat     *)
(* that arrives in the cycle in which the output turns out to be stalled.   *)
SetValid(k, port, beat) ==
  [k EXCEPT !.valid = IF beat = None THEN @ \ {port} ELSE @ \cup {port}, !.beat = beat]

SkidStepTwice(k, port, taken, in) ==
  LET next == [k EXCEPT !.ready = Early(k, port, taken, in)]
  IN  CASE k.ready /\ (taken \/ port \notin k.valid)    -> SetValid(next, port, in)
        [] k.ready /\ ~(taken \/ port \notin k.valid)   -> [next EXCEPT !.temp = in]
        [] ~k.ready /\ taken  -> SetValid(next, port, k.temp)
        [] ~k.ready /\ ~taken -> next

SkidStep(k, port, taken, in) ==
  LET next == [k EXCEPT !.ready = Early(k, port, taken, in)]
  IN  CASE k.ready /\ (taken \/ port \notin k.valid)    -> SetValid(next, port, in)
        [] k.ready /\ ~(taken \/ port \notin k.valid)   -> [next EXCEPT !.temp = in]
        [] ~k.ready /\ taken  -> [SetValid(next, port, k.temp) EXCEPT !.temp = None]
        [] ~k.ready /\ ~taken -> next

DataPaths ==
  /\ r' = SkidStep(r, s_select, s_select \in rready, R_In)
  /\ w' = SkidStep(w, m_select, m_select \in m_ready.w, W_In)
-----------------------------------------------------------------------------
(* The masters and the slaves.                                              *)
ArTaken(s) == ar[s] # None /\ s \in out.s_arready
AwTaken(s) == aw[s] # None /\ s \in out.s_awready
WTaken(s)  == wdata[s] # None /\ s \in out.s_wready
BTaken(s)  == s \in out.s_bvalid \cap bready
RTaken(s)  == s \in r.valid \cap rready

WLands(m)  == m \in w.valid \cap m_ready.w

(* A write is [req, sent, landed]; its next beat is the first that is not   *)
(* sent of the first write that has one.                                    *)
Unsent(queue) == {i \in DOMAIN queue : queue[i].sent <= queue[i].req.len}

NextBeat(s, queue) ==
  LET burst == queue[Lowest(Unsent(queue))]
  IN  Beat(s, burst.req.addr, burst.sent, burst.sent = burst.req.len, burst.req.id)

WritingStep(s) ==
  LET sent   == IF WTaken(s) THEN [writing[s] EXCEPT ![Lowest(Unsent(writing[s]))].sent = @ + 1]
                ELSE writing[s]
      landed == IF \E m \in Slaves : WLands(m) /\ w.beat.from = s
                THEN [sent EXCEPT ![1].landed = @ + 1] ELSE sent
      open   == IF BTaken(s) THEN Tail(landed) ELSE landed
  IN  IF aw'[s] # None /\ (aw[s] = None \/ AwTaken(s))
      THEN Append(open, [req |-> aw'[s], sent |-> 0, landed |-> 0]) ELSE open

ReadingStep(s) ==
  CASE ArTaken(s) -> [req |-> ar[s], n |-> 0]
    [] RTaken(s)  -> IF reading[s].n = reading[s].req.len THEN None
                     ELSE [reading[s] EXCEPT !.n = @ + 1]
    [] OTHER      -> reading[s]

(* A wire of every master: what waits is kept, the rest is chosen anew.     *)
Offers(wire, taken(_), choices(_)) ==
  {f \in [Masters -> (UNION {choices(s) : s \in Masters}) \cup {wire[s] : s \in Masters}] :
     \A s \in Masters :
       IF wire[s] # None /\ ~taken(s) THEN f[s] = wire[s] ELSE f[s] \in choices(s)}

(* A master has at most two writes open.                                    *)
ReadChoices(s)  == ReadRequests[s] \cup {None}
WriteChoices(s) ==
  {None} \cup IF Len(writing[s]) < 2 THEN WriteRequests[s] ELSE {}
BeatChoices(s)  ==
  {None} \cup IF Unsent(writing'[s]) # {} THEN {NextBeat(s, writing'[s])} ELSE {}

MastersStep ==
  /\ ar' \in Offers(ar, ArTaken, ReadChoices)
  /\ aw' \in Offers(aw, AwTaken, WriteChoices)
  /\ reading' = [s \in Masters |-> ReadingStep(s)]
  /\ writing' = [s \in Masters |-> WritingStep(s)]
  /\ wdata' \in Offers(wdata, WTaken, BeatChoices)
  /\ rready' \in SUBSET r'.valid
  /\ bready' \in SUBSET out'.s_bvalid

(* A slave serves what it took: of a read, the beats in order; of a write,  *)
(* the answer once it has the address and the last beat.                    *)
Serve(m) ==
  LET answered == m \in out.m_bready \cap m_bvalid
      given    == m \in out.m_rready \cap m_rvalid
      job      == serving[m]
  IN [ar   |-> m \in out.m_arvalid \cap m_ready.ar \/ (job.ar /\ ~(given /\ job.n = job.len)),
      addr |-> IF m \in out.m_arvalid \cap m_ready.ar THEN axi.addr ELSE job.addr,
      len  |-> IF m \in out.m_arvalid \cap m_ready.ar THEN axi.len ELSE job.len,
      n    |-> IF given THEN (IF job.n = job.len THEN 0 ELSE job.n + 1) ELSE job.n,
      aw   |-> m \in out.m_awvalid \cap m_ready.aw \/ (job.aw /\ ~answered),
      last |-> (WLands(m) /\ w.beat.last) \/ (job.last /\ ~answered)]

Between(low, high) == {low \cup x : x \in SUBSET high}

SlavesStep ==
  /\ serving' = [m \in Slaves |-> Serve(m)]
  /\ m_rvalid' \in Between(m_rvalid \ out.m_rready, {m \in Slaves : serving'[m].ar})
  /\ m_bvalid' \in Between(m_bvalid \ out.m_bready,
                           {m \in Slaves : serving'[m].aw /\ serving'[m].last})
  /\ m_ready' \in [ar : SUBSET out'.m_arvalid, aw : SUBSET out'.m_awvalid, w : SUBSET w'.valid]
-----------------------------------------------------------------------------
Init ==
  /\ clk = FALSE
  /\ grant = NoPort /\ last_grant = NoPort
  /\ state = "IDLE" /\ m_select = 0 /\ addr_valid = FALSE /\ bresp = "OKAY"
  /\ axi = [id |-> 0, addr |-> 0, len |-> 0]
  /\ out = [s_awready |-> {}, s_wready |-> {}, s_bvalid |-> {}, s_arready |-> {},
            m_awvalid |-> {}, m_bready |-> {}, m_arvalid |-> {}, m_rready |-> {}]
  /\ r = [valid |-> {}, beat |-> None, temp |-> None, ready |-> FALSE]
  /\ w = r
  /\ ar = [s \in Masters |-> None] /\ aw = ar /\ wdata = ar /\ reading = ar
  /\ writing = [s \in Masters |-> <<>>]
  /\ rready = {} /\ bready = {} /\ m_rvalid = {} /\ m_bvalid = {}
  /\ m_ready = [ar |-> {}, aw |-> {}, w |-> {}]
  /\ serving = [m \in Slaves |-> [ar |-> FALSE, addr |-> 0, len |-> 0, n |-> 0,
                                  aw |-> FALSE, last |-> FALSE]]

Next == clk' = ~clk /\ Arbiter /\ Machine /\ DataPaths /\ MastersStep /\ SlavesStep

(* The clock runs, and nobody stalls for ever.                              *)
Fairness ==
  /\ []<>clk /\ []<>~clk
  /\ []<>(r.valid \subseteq rready) /\ []<>(out.s_bvalid \subseteq bready)
  /\ []<>(\A s \in Masters : wdata[s] = None => Unsent(writing[s]) = {})
  /\ []<>(out.m_arvalid \subseteq m_ready.ar)
  /\ []<>(out.m_awvalid \subseteq m_ready.aw)
  /\ []<>(w.valid \subseteq m_ready.w)
  /\ []<>(\A m \in Slaves : serving[m].ar => m \in m_rvalid)
  /\ []<>(\A m \in Slaves : serving[m].aw /\ serving[m].last => m \in m_bvalid)

Spec == Init /\ [][Next]_vars /\ Fairness
-----------------------------------------------------------------------------
TypeOK ==
  /\ grant \in Ports \cup {NoPort} /\ last_grant \in Ports \cup {NoPort}
  /\ state \in {"IDLE", "DECODE", "WRITE", "WRITE_RESP", "WRITE_DROP", "READ", "READ_DROP",
                "WAIT_IDLE"}
  /\ m_select \in Slaves /\ axi \in Request
  /\ out.s_awready \cup out.s_arready \cup out.s_wready \cup out.s_bvalid \subseteq Masters
  /\ out.m_awvalid \cup out.m_arvalid \cup out.m_bready \cup out.m_rready \subseteq Slaves
  /\ r.valid \cup rready \cup bready \subseteq Masters
  /\ w.valid \cup m_rvalid \cup m_bvalid \subseteq Slaves
  /\ Cardinality(r.valid) <= 1 /\ Cardinality(w.valid) <= 1

(* The slave an address belongs to; M_COUNT when it belongs to none.        *)
InSlave(m, addr) == BaseAddrs[m] <= addr /\ addr < BaseAddrs[m] + Size(m)
Target(addr) ==
  IF \E m \in Slaves : InSlave(m, addr) THEN CHOOSE m \in Slaves : InSlave(m, addr)
  ELSE M_COUNT

(* The beats of a read reach the master that asked, in order, none lost and *)
(* none twice, with its id, from the slave its address belongs to, or as a  *)
(* decode error of as many beats; however both sides stall (672-719,        *)
(* 793-892).                                                                *)
ReadsInOrder ==
  \A s \in r.valid :
    /\ reading[s] # None
    /\ LET req == reading[s].req  n == reading[s].n
       IN r.beat = Beat(Target(req.addr), req.addr,
                        IF Target(req.addr) = M_COUNT THEN 0 ELSE n, n = req.len, req.id)

(* The beats of a write reach the slave its address belongs to, in order,   *)
(* none lost and none twice, and the address that goes with them is its own *)
(* (618-644, 894-985).                                                      *)
WritesInOrder ==
  /\ \A m \in w.valid :
       LET queue == writing[w.beat.from]
       IN /\ queue # <<>>
          /\ m = Target(Head(queue).req.addr)
          /\ w.beat = Beat(w.beat.from, Head(queue).req.addr, Head(queue).landed,
                           Head(queue).landed = Head(queue).req.len, Head(queue).req.id)
  /\ \A m \in out.m_awvalid :
       \E s \in Masters : writing[s] # <<>> /\ Head(writing[s]).req = axi /\ m = Target(axi.addr)

(* A write is answered when all its beats are in the slave, with its id,    *)
(* and with an error if and only if its address belongs to none (645-671).  *)
WriteAnswered ==
  \A s \in out.s_bvalid :
    /\ writing[s] # <<>>
    /\ LET burst == Head(writing[s])  mapped == Target(burst.req.addr) # M_COUNT
       IN /\ burst.sent = burst.req.len + 1 /\ axi.id = burst.req.id
          /\ mapped => burst.landed = burst.sent
          /\ bresp = (IF mapped THEN "OKAY" ELSE "DECERR")

(* All the slaves together have one burst at a time: no slave is given a    *)
(* read beside a write, which a single-port axi_ram relies on (axi_ram.v    *)
(* 190-211).                                                                *)
Busy(m) ==
  (IF m \in out.m_arvalid \/ serving[m].ar THEN {"read"} ELSE {})
    \cup (IF m \in out.m_awvalid \cup w.valid \/ serving[m].aw \/ serving[m].last
          THEN {"write"} ELSE {})

OneBurst == Cardinality(UNION {{<<m, c>> : c \in Busy(m)} : m \in Slaves}) <= 1

(* Every request is taken, however many the other ports make: the arbiter   *)
(* is round robin, and a grant ends with the answer (462-490, 720-728).     *)
RequestsTaken ==
  \A s \in Masters : /\ ar[s] # None ~> ar[s] = None \/ s \in out.s_arready
                     /\ aw[s] # None ~> aw[s] = None \/ s \in out.s_awready

(* Every request that was taken is answered to the end.                     *)
RequestsAnswered ==
  \A s \in Masters : /\ reading[s] # None ~> reading[s] = None
                     /\ writing[s] # <<>> ~> BTaken(s)
=============================================================================
