----------------------- MODULE AxiInterconnectProofs -----------------------
(***************************************************************************)
(* Theorems about AxiInterconnect, for every number of masters and slaves, *)
(* every address map without overlaps and every set of requests: the       *)
(* slaves together have one burst at a time, the beats of reads and of     *)
(* writes arrive whole and in order, and writes are answered when they     *)
(* have landed.                                                            *)
(*                                                                         *)
(* IInv says what is in the way of whom; OrderInv, which needs it, follows *)
(* every beat.                                                             *)
(***************************************************************************)
EXTENDS AxiInterconnect, FiniteSetTheorems, NaturalsInduction, WellFoundedInduction,
        SequenceTheorems, TLAPS

(* The records keep their fields.                                           *)
IsSkid(k) ==
  k = [valid |-> k.valid, beat |-> k.beat, temp |-> k.temp, ready |-> k.ready]

IsOut(o) ==
  o = [s_awready |-> o.s_awready, s_wready |-> o.s_wready, s_bvalid |-> o.s_bvalid,
       s_arready |-> o.s_arready, m_awvalid |-> o.m_awvalid, m_bready |-> o.m_bready,
       m_arvalid |-> o.m_arvalid, m_rready |-> o.m_rready]

Shapes == IsSkid(w) /\ IsOut(out)

(* A slave is busy only while the machine serves that slave, and only with  *)
(* what it serves.                                                          *)
ReadIn(m)  == m \in out.m_arvalid \/ serving[m].ar
WriteIn(m) == m \in out.m_awvalid \cup w.valid \/ serving[m].aw \/ serving[m].last

BusyInState ==
  \A m \in Slaves :
    /\ ReadIn(m) => state = "READ" /\ m = m_select
    /\ WriteIn(m) => state \in {"WRITE", "WRITE_RESP"} /\ m = m_select

(* Nothing is left in the way of the next burst.                            *)
NothingOutside ==
  /\ out.m_arvalid \cup out.m_awvalid \cup w.valid \cup out.m_bready \subseteq {m_select}
  /\ out.m_arvalid # {} => state = "READ"
  /\ out.m_awvalid \cup w.valid # {} \/ w.temp # None => state \in {"WRITE", "WRITE_RESP"}
  /\ out.m_bready # {} => state = "WRITE_RESP"
  /\ w.ready => w.temp = None

(* The address goes out once per burst.                                     *)
AddressOnce ==
  \A m \in Slaves :
    /\ state = "READ" /\ addr_valid => ~ReadIn(m)
    /\ state = "WRITE" /\ addr_valid => m \notin out.m_awvalid /\ ~serving[m].aw
    /\ m \in out.m_arvalid => ~serving[m].ar
    /\ m \in out.m_awvalid => ~serving[m].aw

(* The last beat of a write is the last in the data path, and the slave     *)
(* offers only what it may.                                                 *)
LastIsLast ==
  /\ w.valid # {} /\ w.beat.last => w.temp = None /\ state = "WRITE_RESP"
  /\ w.temp # None /\ w.temp.last => state = "WRITE_RESP"
  /\ \A m \in Slaves : serving[m].last => /\ w.valid = {} /\ w.temp = None
                                          /\ state = "WRITE_RESP"

OffersHeld ==
  /\ m_rvalid \subseteq {m \in Slaves : serving[m].ar}
  /\ m_bvalid \subseteq {m \in Slaves : serving[m].aw /\ serving[m].last}

IInv == Shapes /\ BusyInState /\ NothingOutside /\ AddressOnce /\ LastIsLast /\ OffersHeld
-----------------------------------------------------------------------------
(* The four cases of a step of a data path.                                 *)
LEMMA SkidCases ==
  ASSUME NEW k, IsSkid(k), NEW port, NEW taken, NEW in
  PROVE  LET next == SkidStep(k, port, taken, in)
             early == Early(k, port, taken, in)
         IN
         \/ /\ k.ready /\ (taken \/ port \notin k.valid)
            /\ next = [valid |-> IF in = None THEN k.valid \ {port} ELSE k.valid \cup {port},
                       beat |-> in, temp |-> k.temp, ready |-> early]
         \/ /\ k.ready /\ ~taken /\ port \in k.valid
            /\ next = [valid |-> k.valid, beat |-> k.beat, temp |-> in, ready |-> early]
         \/ /\ ~k.ready /\ taken
            /\ next = [valid |-> IF k.temp = None THEN k.valid \ {port}
                                 ELSE k.valid \cup {port},
                       beat |-> k.temp, temp |-> None, ready |-> early]
         \/ /\ ~k.ready /\ ~taken
            /\ next = [valid |-> k.valid, beat |-> k.beat, temp |-> k.temp, ready |-> early]
<1> DEFINE early == Early(k, port, taken, in)
           after == [k EXCEPT !.ready = early]
<1> HIDE DEF early
<1>1. after = [valid |-> k.valid, beat |-> k.beat, temp |-> k.temp, ready |-> early]
  BY DEF IsSkid
<1>2. CASE k.ready /\ (taken \/ port \notin k.valid)
  <2>1. SkidStep(k, port, taken, in) = SetValid(after, port, in)
    BY <1>2 DEF SkidStep, early
  <2>2. QED
    BY <1>1, <1>2, <2>1 DEF SetValid, early
<1>3. CASE k.ready /\ ~(taken \/ port \notin k.valid)
  <2>1. SkidStep(k, port, taken, in) = [after EXCEPT !.temp = in]
    BY <1>3 DEF SkidStep, early
  <2>2. QED
    BY <1>1, <1>3, <2>1 DEF early
<1>4. CASE ~k.ready /\ taken
  <2>1. SkidStep(k, port, taken, in) = [SetValid(after, port, k.temp) EXCEPT !.temp = None]
    BY <1>4 DEF SkidStep, early
  <2>2. QED
    BY <1>1, <1>4, <2>1 DEF SetValid, early
<1>5. CASE ~k.ready /\ ~taken
  <2>1. SkidStep(k, port, taken, in) = after
    BY <1>5 DEF SkidStep, early
  <2>2. QED
    BY <1>1, <1>5, <2>1 DEF early
<1>6. QED
  BY <1>2, <1>3, <1>4, <1>5

(* What a step does to the path of the write data, in terms of what enters. *)
LEMMA WritePath ==
  ASSUME IInv, DataPaths
  PROVE  /\ IsSkid(w)'
         /\ w'.ready => w'.temp = None
         /\ w'.valid \subseteq {m_select}
         /\ W_In = None /\ w.temp = None /\ w.valid = {} => w'.temp = None /\ w'.valid = {}
         /\ W_In = None /\ w.temp = None /\ m_select \in m_ready.w =>
              w'.temp = None /\ w'.valid = {}
         /\ w'.temp # None => w'.temp \in {w.temp, W_In}
         /\ w'.valid # {} => \/ w'.beat = w.beat /\ w.valid # {} /\ w'.temp \in {w.temp, W_In}
                             \/ w'.beat \in {w.temp, W_In} \ {None} /\ w'.temp = None
<1> DEFINE taken == m_select \in m_ready.w
           early == Early(w, m_select, taken, W_In)
<1>1. IsSkid(w) /\ w.valid \subseteq {m_select} /\ (w.ready => w.temp = None)
  BY DEF IInv, Shapes, NothingOutside
<1>2. w' = SkidStep(w, m_select, taken, W_In)
  BY DEF DataPaths
<1>3. early <=> taken \/ (w.temp = None /\ (m_select \notin w.valid \/ W_In = None))
  BY DEF Early
<1> HIDE DEF taken, early
<1>4. \/ /\ w.ready /\ (taken \/ m_select \notin w.valid)
         /\ w' = [valid |-> IF W_In = None THEN w.valid \ {m_select}
                            ELSE w.valid \cup {m_select},
                  beat |-> W_In, temp |-> w.temp, ready |-> early]
      \/ /\ w.ready /\ ~taken /\ m_select \in w.valid
         /\ w' = [valid |-> w.valid, beat |-> w.beat, temp |-> W_In, ready |-> early]
      \/ /\ ~w.ready /\ taken
         /\ w' = [valid |-> IF w.temp = None THEN w.valid \ {m_select}
                            ELSE w.valid \cup {m_select},
                  beat |-> w.temp, temp |-> None, ready |-> early]
      \/ /\ ~w.ready /\ ~taken
         /\ w' = [valid |-> w.valid, beat |-> w.beat, temp |-> w.temp, ready |-> early]
  BY <1>1, <1>2, SkidCases DEF early
<1>5. IsSkid(w)'
  BY <1>4 DEF IsSkid
<1>6. w'.ready => w'.temp = None
  BY <1>1, <1>3, <1>4
<1>7. w'.valid \subseteq {m_select}
  BY <1>1, <1>4
<1>8. W_In = None /\ w.temp = None /\ w.valid = {} => w'.temp = None /\ w'.valid = {}
  BY <1>4
<1>9. W_In = None /\ w.temp = None /\ taken => w'.temp = None /\ w'.valid = {}
  BY <1>1, <1>4
<1>10. w'.temp # None => w'.temp \in {w.temp, W_In}
  BY <1>4
<1>11. w'.valid # {} => \/ w'.beat = w.beat /\ w.valid # {} /\ w'.temp \in {w.temp, W_In}
                        \/ w'.beat \in {w.temp, W_In} \ {None} /\ w'.temp = None
  BY <1>1, <1>4
<1>12. QED
  BY <1>5, <1>6, <1>7, <1>8, <1>9, <1>10, <1>11 DEF taken

(* What a step does to a slave.                                             *)
LEMMA SlaveStep ==
  ASSUME SlavesStep, NEW m \in Slaves
  PROVE  /\ serving'[m].ar <=> \/ m \in out.m_arvalid \cap m_ready.ar
                               \/ /\ serving[m].ar
                                  /\ ~(/\ m \in out.m_rready \cap m_rvalid
                                       /\ serving[m].n = serving[m].len)
         /\ serving'[m].aw <=> \/ m \in out.m_awvalid \cap m_ready.aw
                               \/ serving[m].aw /\ m \notin out.m_bready \cap m_bvalid
         /\ serving'[m].last <=> \/ WLands(m) /\ w.beat.last
                                 \/ serving[m].last /\ m \notin out.m_bready \cap m_bvalid
<1> DEFINE answered == m \in out.m_bready \cap m_bvalid
           given    == m \in out.m_rready \cap m_rvalid
           job      == serving[m]
           ar_job   == m \in out.m_arvalid \cap m_ready.ar
                         \/ (job.ar /\ ~(given /\ job.n = job.len))
           aw_job   == m \in out.m_awvalid \cap m_ready.aw \/ (job.aw /\ ~answered)
           last_job == (WLands(m) /\ w.beat.last) \/ (job.last /\ ~answered)
<1>1. serving'[m] = Serve(m)
  BY DEF SlavesStep
<1>2. /\ Serve(m).ar = ar_job
      /\ Serve(m).aw = aw_job
      /\ Serve(m).last = last_job
  BY DEF Serve
<1>3. QED
  BY <1>1, <1>2, Zenon

LEMMA OffersStep == IInv /\ SlavesStep => OffersHeld'
<1> SUFFICES ASSUME IInv, SlavesStep PROVE OffersHeld'
  OBVIOUS
<1>1. \A m \in m_rvalid \ out.m_rready : m \in Slaves /\ serving'[m].ar
  BY SlaveStep DEF IInv, OffersHeld
<1>2. \A m \in m_bvalid \ out.m_bready : m \in Slaves /\ serving'[m].aw /\ serving'[m].last
  BY SlaveStep DEF IInv, OffersHeld
<1>3. m_rvalid' \subseteq {m \in Slaves : serving'[m].ar}
  BY <1>1 DEF SlavesStep, Between
<1>4. m_bvalid' \subseteq {m \in Slaves : serving'[m].aw /\ serving'[m].last}
  BY <1>2 DEF SlavesStep, Between
<1>5. QED
  BY <1>3, <1>4 DEF OffersHeld
-----------------------------------------------------------------------------
(* What the machine does to the wires of the slaves.                        *)
LEMMA QuietShape == IsOut(Quiet)
  BY DEF IsOut, Quiet

LEMMA InitInv == Init => IInv
<1> SUFFICES ASSUME Init PROVE IInv
  OBVIOUS
<1>1. Shapes
  BY DEF Init, Shapes, IsSkid, IsOut
<1>2. /\ out.m_arvalid = {} /\ out.m_awvalid = {} /\ out.m_bready = {}
      /\ w.valid = {} /\ w.temp = None /\ m_rvalid = {} /\ m_bvalid = {}
      /\ \A m \in Slaves : ~serving[m].ar /\ ~serving[m].aw /\ ~serving[m].last
  BY DEF Init
<1>3. QED
  BY <1>1, <1>2 DEF IInv, BusyInState, NothingOutside, AddressOnce, LastIsLast, OffersHeld,
                    ReadIn, WriteIn

(* Outside of a burst nothing reaches a slave.                              *)
LEMMA OutsideMachine ==
  ASSUME IInv, Machine, state \notin {"READ", "WRITE", "WRITE_RESP"}
  PROVE  /\ IsOut(out)'
         /\ out'.m_arvalid = {} /\ out'.m_awvalid = {} /\ out'.m_bready = {}
<1>1. out.m_arvalid = {} /\ out.m_awvalid = {}
  BY DEF IInv, NothingOutside
<1>2. /\ Quiet.m_arvalid = {} /\ Quiet.m_awvalid = {} /\ Quiet.m_bready = {}
  BY <1>1 DEF Quiet
<1>3. \/ out' = Quiet
      \/ \E a, b : out' = [Quiet EXCEPT !.s_arready = a, !.s_awready = b]
      \/ \E a, b : out' = [Quiet EXCEPT !.m_rready = a, !.s_wready = b]
      \/ \E a : out' = [Quiet EXCEPT !.s_wready = a]
      \/ \E a, b : out' = [Quiet EXCEPT !.s_wready = a, !.s_bvalid = b]
  <2>1. IdleWaits \/ WaitIdle \/ ReadDrop => out' = Quiet
    BY DEF IdleWaits, WaitIdle, ReadDrop
  <2>2. IdleAccepts => \E a, b : out' = [Quiet EXCEPT !.s_arready = a, !.s_awready = b]
    BY DEF IdleAccepts
  <2>3. DecodeMatch => \E a, b : out' = [Quiet EXCEPT !.m_rready = a, !.s_wready = b]
    BY DEF DecodeMatch
  <2>4. DecodeError => \E a : out' = [Quiet EXCEPT !.s_wready = a]
    BY DEF DecodeError
  <2>5. WriteDrop => \E a, b : out' = [Quiet EXCEPT !.s_wready = a, !.s_bvalid = b]
    BY DEF WriteDrop
  <2>6. QED
    BY <2>1, <2>2, <2>3, <2>4, <2>5 DEF Machine, Read, Write, WriteResp
<1>4. QED
  BY <1>2, <1>3, QuietShape DEF IsOut

LEMMA OutsideInv ==
  ASSUME IInv, Machine, DataPaths, SlavesStep, state \notin {"READ", "WRITE", "WRITE_RESP"}
  PROVE  IInv'
<1>1. /\ IsOut(out)'
      /\ out'.m_arvalid = {} /\ out'.m_awvalid = {} /\ out'.m_bready = {}
  BY OutsideMachine
<1>2. IsSkid(w)' /\ w'.temp = None /\ w'.valid = {}
  <2>1. W_In = None /\ w.temp = None /\ w.valid = {}
    BY DEF W_In, IInv, NothingOutside
  <2>2. QED
    BY <2>1, WritePath
<1>3. \A m \in Slaves : ~serving'[m].ar /\ ~serving'[m].aw /\ ~serving'[m].last
  <2> SUFFICES ASSUME NEW m \in Slaves
               PROVE  ~serving'[m].ar /\ ~serving'[m].aw /\ ~serving'[m].last
    OBVIOUS
  <2>1. ~ReadIn(m) /\ ~WriteIn(m)
    BY DEF IInv, BusyInState
  <2>2. QED
    BY <2>1, SlaveStep DEF ReadIn, WriteIn, WLands
<1>4. OffersHeld'
  BY OffersStep
<1>5. QED
  BY <1>1, <1>2, <1>3, <1>4
  DEF IInv, Shapes, BusyInState, NothingOutside, AddressOnce, LastIsLast, ReadIn, WriteIn

LEMMA ReadMachine ==
  ASSUME IInv, Machine, state = "READ"
  PROVE  /\ IsOut(out)'
         /\ out'.m_arvalid = (out.m_arvalid \ m_ready.ar) \cup Only(addr_valid, m_select)
         /\ out'.m_awvalid = {} /\ out'.m_bready = {}
         /\ m_select' = m_select /\ ~addr_valid'
         /\ \/ state' = "READ"
            \/ /\ state' = "WAIT_IDLE" /\ m_select \in out.m_rready \cap m_rvalid
               /\ serving[m_select].n = serving[m_select].len
<1>1. Read
  BY DEF Machine, IdleWaits, IdleAccepts, DecodeMatch, DecodeError, Write, WriteResp,
         WriteDrop, ReadDrop, WaitIdle
<1>2. out.m_awvalid = {}
  BY DEF IInv, NothingOutside
<1>3. PICK a : out' = [Quiet EXCEPT !.m_arvalid = @ \cup Only(addr_valid, m_select),
                                    !.m_rready = a]
  BY <1>1 DEF Read
<1>4. /\ Quiet.m_arvalid = out.m_arvalid \ m_ready.ar
      /\ Quiet.m_awvalid = {} /\ Quiet.m_bready = {}
  BY <1>2 DEF Quiet
<1>5. /\ IsOut(out)'
      /\ out'.m_arvalid = (out.m_arvalid \ m_ready.ar) \cup Only(addr_valid, m_select)
      /\ out'.m_awvalid = {} /\ out'.m_bready = {}
  BY <1>3, <1>4, QuietShape DEF IsOut
<1>6. m_select' = m_select /\ ~addr_valid'
  BY <1>1 DEF Read
<1>7. \/ state' = "READ"
      \/ state' = "WAIT_IDLE" /\ TakesR /\ M_Beat(m_select).last
  BY <1>1 DEF Read
<1>8. M_Beat(m_select).last => serving[m_select].n = serving[m_select].len
  BY DEF M_Beat, Beat
<1>9. QED
  BY <1>5, <1>6, <1>7, <1>8 DEF TakesR
LEMMA ReadInv ==
  ASSUME IInv, Machine, DataPaths, SlavesStep, state = "READ"
  PROVE  IInv'
<1>1. /\ IsOut(out)'
      /\ out'.m_arvalid = (out.m_arvalid \ m_ready.ar) \cup Only(addr_valid, m_select)
      /\ out'.m_awvalid = {} /\ out'.m_bready = {}
      /\ m_select' = m_select /\ ~addr_valid'
      /\ \/ state' = "READ"
         \/ /\ state' = "WAIT_IDLE" /\ m_select \in out.m_rready \cap m_rvalid
            /\ serving[m_select].n = serving[m_select].len
  BY ReadMachine
<1>2. IsSkid(w)' /\ w'.temp = None /\ w'.valid = {}
  <2>1. W_In = None /\ w.temp = None /\ w.valid = {}
    BY DEF W_In, IInv, NothingOutside
  <2>2. QED
    BY <2>1, WritePath
<1>3. \A m \in Slaves : ~serving'[m].aw /\ ~serving'[m].last
  <2> SUFFICES ASSUME NEW m \in Slaves PROVE ~serving'[m].aw /\ ~serving'[m].last
    OBVIOUS
  <2>1. ~WriteIn(m)
    BY DEF IInv, BusyInState
  <2>2. QED
    BY <2>1, SlaveStep DEF WriteIn, WLands
<1>4. \A m \in Slaves : serving'[m].ar => m = m_select /\ m \notin out'.m_arvalid
  <2> SUFFICES ASSUME NEW m \in Slaves, serving'[m].ar
               PROVE  m = m_select /\ m \notin out'.m_arvalid
    OBVIOUS
  <2>1. m \in out.m_arvalid \cap m_ready.ar \/ serving[m].ar
    BY SlaveStep
  <2>2. m = m_select /\ ~addr_valid
    BY <2>1 DEF IInv, BusyInState, AddressOnce, ReadIn
  <2>3. out'.m_arvalid = out.m_arvalid \ m_ready.ar
    BY <1>1, <2>2 DEF Only
  <2>4. QED
    BY <2>1, <2>2, <2>3 DEF IInv, AddressOnce
<1>5. out'.m_arvalid \subseteq {m_select}
  BY <1>1 DEF IInv, NothingOutside, Only
<1>6. state' # "READ" => /\ out'.m_arvalid = {}
                         /\ \A m \in Slaves : ~serving'[m].ar
  <2> SUFFICES ASSUME state' # "READ"
               PROVE  out'.m_arvalid = {} /\ \A m \in Slaves : ~serving'[m].ar
    OBVIOUS
  <2>1. /\ m_select \in Slaves /\ m_select \in out.m_rready \cap m_rvalid
        /\ serving[m_select].ar /\ serving[m_select].n = serving[m_select].len
    BY <1>1 DEF IInv, OffersHeld
  <2>2. m_select \notin out.m_arvalid /\ ~addr_valid
    BY <2>1 DEF IInv, AddressOnce, ReadIn
  <2>3. out'.m_arvalid = {}
    BY <1>1, <1>5, <2>2 DEF Only
  <2>4. ~serving'[m_select].ar
    BY <2>1, <2>2, SlaveStep
  <2>5. QED
    BY <1>4, <2>3, <2>4
<1>7. OffersHeld'
  BY OffersStep
<1>8. BusyInState'
  BY <1>1, <1>2, <1>3, <1>4, <1>5, <1>6 DEF BusyInState, ReadIn, WriteIn
<1>9. NothingOutside'
  BY <1>1, <1>2, <1>5, <1>6 DEF NothingOutside
<1>10. AddressOnce'
  BY <1>1, <1>4 DEF AddressOnce
<1>11. QED
  BY <1>1, <1>2, <1>3, <1>7, <1>8, <1>9, <1>10 DEF IInv, Shapes, LastIsLast

LEMMA WriteMachine ==
  ASSUME IInv, Machine, state = "WRITE"
  PROVE  /\ IsOut(out)'
         /\ out'.m_awvalid = (out.m_awvalid \ m_ready.aw) \cup Only(addr_valid, m_select)
         /\ out'.m_arvalid = {} /\ out'.m_bready \subseteq {m_select}
         /\ m_select' = m_select /\ ~addr_valid'
         /\ state' \in {"WRITE", "WRITE_RESP"}
         /\ out'.m_bready # {} => state' = "WRITE_RESP"
         /\ W_In # None /\ W_In.last => state' = "WRITE_RESP"
<1>1. Write
  BY DEF Machine, IdleWaits, IdleAccepts, DecodeMatch, DecodeError, Read, WriteResp,
         WriteDrop, ReadDrop, WaitIdle
<1> DEFINE done == TakesW /\ wdata[s_select].last
<1>2. PICK a : out' = [Quiet EXCEPT !.m_awvalid = @ \cup Only(addr_valid, m_select),
                                    !.s_wready = a, !.m_bready = Only(done, m_select)]
  BY <1>1 DEF Write
<1>3. /\ Quiet.m_awvalid = out.m_awvalid \ m_ready.aw /\ Quiet.m_arvalid = {}
  BY DEF Quiet, IInv, NothingOutside
<1>4. state' = IF done THEN "WRITE_RESP" ELSE "WRITE"
  BY <1>1 DEF Write
<1>5. m_select' = m_select /\ ~addr_valid'
  BY <1>1 DEF Write
<1>6. W_In # None /\ W_In.last => done
  BY DEF W_In
<1> HIDE DEF done
<1>7. /\ IsOut(out)'
      /\ out'.m_awvalid = (out.m_awvalid \ m_ready.aw) \cup Only(addr_valid, m_select)
      /\ out'.m_arvalid = {} /\ out'.m_bready = Only(done, m_select)
  BY <1>2, <1>3, QuietShape DEF IsOut
<1>8. QED
  BY <1>4, <1>5, <1>6, <1>7 DEF Only

LEMMA WriteInv ==
  ASSUME IInv, Machine, DataPaths, SlavesStep, state = "WRITE"
  PROVE  IInv'
<1>1. /\ IsOut(out)'
      /\ out'.m_awvalid = (out.m_awvalid \ m_ready.aw) \cup Only(addr_valid, m_select)
      /\ out'.m_arvalid = {} /\ out'.m_bready \subseteq {m_select}
      /\ m_select' = m_select /\ ~addr_valid'
      /\ state' \in {"WRITE", "WRITE_RESP"}
      /\ out'.m_bready # {} => state' = "WRITE_RESP"
      /\ W_In # None /\ W_In.last => state' = "WRITE_RESP"
  BY WriteMachine
<1>2. /\ IsSkid(w)' /\ (w'.ready => w'.temp = None) /\ w'.valid \subseteq {m_select}
      /\ w'.temp # None => w'.temp \in {w.temp, W_In}
      /\ w'.valid # {} => \/ w'.beat = w.beat /\ w.valid # {} /\ w'.temp \in {w.temp, W_In}
                          \/ w'.beat \in {w.temp, W_In} \ {None} /\ w'.temp = None
  BY WritePath
<1>3. /\ w.valid # {} => ~w.beat.last
      /\ w.temp # None => ~w.temp.last
  BY DEF IInv, LastIsLast
<1>4. \A m \in Slaves : ~serving'[m].ar /\ ~serving'[m].last
  <2> SUFFICES ASSUME NEW m \in Slaves PROVE ~serving'[m].ar /\ ~serving'[m].last
    OBVIOUS
  <2>1. ~ReadIn(m) /\ ~serving[m].last
    BY DEF IInv, BusyInState, LastIsLast
  <2>2. QED
    BY <1>3, <2>1, SlaveStep DEF ReadIn, WLands
<1>5. \A m \in Slaves : serving'[m].aw => m = m_select /\ m \notin out'.m_awvalid
  <2> SUFFICES ASSUME NEW m \in Slaves, serving'[m].aw
               PROVE  m = m_select /\ m \notin out'.m_awvalid
    OBVIOUS
  <2>1. m \in out.m_awvalid \cap m_ready.aw \/ serving[m].aw
    BY SlaveStep
  <2>2. m = m_select /\ ~addr_valid
    BY <2>1 DEF IInv, BusyInState, AddressOnce, WriteIn
  <2>3. out'.m_awvalid = out.m_awvalid \ m_ready.aw
    BY <1>1, <2>2 DEF Only
  <2>4. QED
    BY <2>1, <2>2, <2>3 DEF IInv, AddressOnce
<1>6. out'.m_awvalid \subseteq {m_select}
  BY <1>1 DEF IInv, NothingOutside, Only
<1>7. LastIsLast'
  BY <1>1, <1>2, <1>3, <1>4 DEF LastIsLast
<1>8. OffersHeld'
  BY OffersStep
<1>9. BusyInState'
  BY <1>1, <1>2, <1>4, <1>5, <1>6 DEF BusyInState, ReadIn, WriteIn
<1>10. NothingOutside'
  BY <1>1, <1>2, <1>6 DEF NothingOutside
<1>11. AddressOnce'
  BY <1>1, <1>4, <1>5 DEF AddressOnce
<1>12. QED
  BY <1>1, <1>2, <1>7, <1>8, <1>9, <1>10, <1>11 DEF IInv, Shapes

LEMMA RespMachine ==
  ASSUME IInv, Machine, state = "WRITE_RESP"
  PROVE  /\ IsOut(out)'
         /\ out'.m_awvalid = out.m_awvalid \ m_ready.aw
         /\ out'.m_arvalid = {} /\ out'.m_bready \subseteq {m_select}
         /\ m_select' = m_select
         /\ \/ state' = "WRITE_RESP" /\ ~TakesB
            \/ state' = "WAIT_IDLE" /\ TakesB /\ out'.m_bready = {}
<1>1. WriteResp
  BY DEF Machine, IdleWaits, IdleAccepts, DecodeMatch, DecodeError, Read, Write,
         WriteDrop, ReadDrop, WaitIdle
<1>2. PICK a : out' = [Quiet EXCEPT !.m_bready = Only(~TakesB, m_select), !.s_bvalid = a]
  BY <1>1 DEF WriteResp
<1>3. /\ Quiet.m_awvalid = out.m_awvalid \ m_ready.aw /\ Quiet.m_arvalid = {}
  BY DEF Quiet, IInv, NothingOutside
<1>4. /\ IsOut(out)'
      /\ out'.m_awvalid = out.m_awvalid \ m_ready.aw
      /\ out'.m_arvalid = {} /\ out'.m_bready = Only(~TakesB, m_select)
  BY <1>2, <1>3, QuietShape DEF IsOut
<1>5. m_select' = m_select /\ state' = IF TakesB THEN "WAIT_IDLE" ELSE "WRITE_RESP"
  BY <1>1 DEF WriteResp
<1>6. QED
  BY <1>4, <1>5 DEF Only

LEMMA RespInv ==
  ASSUME IInv, Machine, DataPaths, SlavesStep, state = "WRITE_RESP"
  PROVE  IInv'
<1>1. /\ IsOut(out)'
      /\ out'.m_awvalid = out.m_awvalid \ m_ready.aw
      /\ out'.m_arvalid = {} /\ out'.m_bready \subseteq {m_select}
      /\ m_select' = m_select
      /\ \/ state' = "WRITE_RESP" /\ ~TakesB
         \/ state' = "WAIT_IDLE" /\ TakesB /\ out'.m_bready = {}
  BY RespMachine
<1>2. W_In = None
  BY DEF W_In
<1>3. /\ IsSkid(w)' /\ (w'.ready => w'.temp = None) /\ w'.valid \subseteq {m_select}
      /\ w.temp = None /\ w.valid = {} => w'.temp = None /\ w'.valid = {}
      /\ w.temp = None /\ m_select \in m_ready.w => w'.temp = None /\ w'.valid = {}
      /\ w'.valid # {} => \/ w'.beat = w.beat /\ w.valid # {} /\ w'.temp \in {w.temp, None}
                          \/ w'.temp = None
  BY <1>2, WritePath
<1>4. \A m \in Slaves : ~serving'[m].ar
  <2> SUFFICES ASSUME NEW m \in Slaves PROVE ~serving'[m].ar
    OBVIOUS
  <2>1. ~ReadIn(m)
    BY DEF IInv, BusyInState
  <2>2. QED
    BY <2>1, SlaveStep DEF ReadIn
<1>5. \A m \in Slaves : serving'[m].aw \/ serving'[m].last => m = m_select
  <2> SUFFICES ASSUME NEW m \in Slaves, serving'[m].aw \/ serving'[m].last
               PROVE  m = m_select
    OBVIOUS
  <2>1. WriteIn(m)
    BY SlaveStep DEF WriteIn, WLands
  <2>2. QED
    BY <2>1 DEF IInv, BusyInState
<1>6. \A m \in Slaves : serving'[m].aw => m \notin out'.m_awvalid
  <2> SUFFICES ASSUME NEW m \in Slaves, serving'[m].aw PROVE m \notin out'.m_awvalid
    OBVIOUS
  <2>1. m \in out.m_awvalid \cap m_ready.aw \/ serving[m].aw
    BY SlaveStep
  <2>2. QED
    BY <1>1, <2>1 DEF IInv, AddressOnce
<1>7. \A m \in Slaves : serving'[m].last => w'.valid = {} /\ w'.temp = None
  <2> SUFFICES ASSUME NEW m \in Slaves, serving'[m].last
               PROVE  w'.valid = {} /\ w'.temp = None
    OBVIOUS
  <2>1. CASE serving[m].last
    BY <1>3, <2>1 DEF IInv, LastIsLast
  <2>2. CASE WLands(m) /\ w.beat.last
    <3>1. m = m_select /\ m \in m_ready.w /\ w.temp = None
      BY <2>2 DEF IInv, NothingOutside, LastIsLast, WLands
    <3>2. QED
      BY <1>3, <3>1
  <2>3. QED
    BY <2>1, <2>2, SlaveStep
<1>8. TakesB => /\ out'.m_awvalid = {} /\ w'.valid = {} /\ w'.temp = None
                /\ \A m \in Slaves : ~serving'[m].aw /\ ~serving'[m].last
  <2> SUFFICES ASSUME TakesB
               PROVE  /\ out'.m_awvalid = {} /\ w'.valid = {} /\ w'.temp = None
                      /\ \A m \in Slaves : ~serving'[m].aw /\ ~serving'[m].last
    OBVIOUS
  <2>1. /\ m_select \in Slaves /\ m_select \in out.m_bready \cap m_bvalid
        /\ serving[m_select].aw /\ serving[m_select].last
    BY DEF TakesB, IInv, OffersHeld
  <2>2. out.m_awvalid = {}
    BY <2>1 DEF IInv, AddressOnce, NothingOutside
  <2>3. w.valid = {} /\ w.temp = None
    BY <2>1 DEF IInv, LastIsLast
  <2>4. ~serving'[m_select].aw /\ ~serving'[m_select].last
    BY <2>1, <2>2, <2>3, SlaveStep DEF WLands
  <2>5. QED
    BY <1>1, <1>3, <1>5, <2>2, <2>3, <2>4
<1>9. out'.m_awvalid \subseteq {m_select}
  BY <1>1 DEF IInv, NothingOutside
<1>10. LastIsLast'
  <2>1. w'.valid # {} /\ w'.beat.last => w'.temp = None
    BY <1>3 DEF IInv, LastIsLast
  <2>2. QED
    BY <1>1, <1>7, <1>8, <2>1 DEF LastIsLast
<1>11. OffersHeld'
  BY OffersStep
<1>12. BusyInState'
  BY <1>1, <1>3, <1>4, <1>5, <1>8, <1>9 DEF BusyInState, ReadIn, WriteIn
<1>13. NothingOutside'
  BY <1>1, <1>3, <1>8, <1>9 DEF NothingOutside
<1>14. AddressOnce'
  BY <1>1, <1>4, <1>6 DEF AddressOnce
<1>15. QED
  BY <1>1, <1>3, <1>10, <1>11, <1>12, <1>13, <1>14 DEF IInv, Shapes
-----------------------------------------------------------------------------
LEMMA NextInv == IInv /\ [Next]_vars => IInv'
<1>1. ASSUME IInv, Next PROVE IInv'
  BY <1>1, OutsideInv, ReadInv, WriteInv, RespInv DEF Next
<1>2. ASSUME IInv, UNCHANGED vars PROVE IInv'
  BY <1>2 DEF vars, machine, slaves, masters, IInv, Shapes, IsSkid, IsOut, BusyInState,
              NothingOutside, AddressOnce, LastIsLast, OffersHeld, ReadIn, WriteIn
<1>3. QED
  BY <1>1, <1>2

LEMMA Invariance == Spec => []IInv
  BY InitInv, NextInv, PTL DEF Spec

(* All the slaves together have one burst at a time, a read or a write,     *)
(* however masters and slaves stall: a slave is done before the machine     *)
(* accepts the next request (618-728), which a single-port axi_ram relies   *)
(* on (axi_ram.v 190-211).                                                  *)
THEOREM OneBurstAtATime == Spec => []OneBurst
<1>1. IInv => OneBurst
  <2> SUFFICES ASSUME IInv PROVE OneBurst
    OBVIOUS
  <2> DEFINE busy == UNION {{<<m, c>> : c \in Busy(m)} : m \in Slaves}
             kind == IF state = "READ" THEN "read" ELSE "write"
  <2>1. \A m \in Slaves : \A c \in Busy(m) : m = m_select /\ c = kind
    BY DEF Busy, IInv, BusyInState, ReadIn, WriteIn
  <2>2. busy \subseteq {<<m_select, kind>>}
    BY <2>1
  <2>3. busy = {} \/ busy = {<<m_select, kind>>}
    BY <2>2
  <2> HIDE DEF busy
  <2>4. CASE busy = {}
    <3>1. Cardinality(busy) = 0
      BY <2>4, FS_EmptySet
    <3>2. QED
      BY <3>1 DEF OneBurst, busy
  <2>5. CASE busy = {<<m_select, kind>>}
    <3>1. Cardinality({<<m_select, kind>>}) = 1
      BY FS_Singleton
    <3>2. Cardinality(busy) = 1
      BY <2>5, <3>1
    <3>3. QED
      BY <3>2 DEF OneBurst, busy
  <2>6. QED
    BY <2>3, <2>4, <2>5
<1>2. QED
  BY <1>1, Invariance, PTL
-----------------------------------------------------------------------------
(* The address map: the equations of the recursive function, where the      *)
(* slaves begin, and the slave that a request reaches.                      *)
LEMMA AllNumbers ==
  ASSUME NEW T, T \subseteq Nat, 0 \in T, \A n \in T : n + 1 \in T
  PROVE  T = Nat
<1> DEFINE R == {ss \in Nat \X Nat : ss[1] < ss[2]}
<1>1. IsWellFoundedOn(R, Nat)
  BY NatLessThanWellFounded DEF OpToRel
<1>2. \A x, y \in Nat : <<y, x>> \notin R => x <= y
  OBVIOUS
<1> HIDE DEF R
<1>3. ASSUME Nat \ T # {} PROVE FALSE
  <2>1. PICK x \in Nat \ T : \A y \in Nat \ T : <<y, x>> \notin R
    BY <1>1, <1>3, WFMin
  <2>2. x # 0 /\ x - 1 \in Nat /\ ~(x <= x - 1)
    BY <2>1
  <2>3. x - 1 \in T
    BY <1>2, <2>1, <2>2
  <2>4. QED
    BY <2>1, <2>2, <2>3
<1>4. QED
  BY <1>3

LEMMA LowestIsIn ==
  ASSUME NEW ports \in SUBSET Nat, ports # {}
  PROVE  Lowest(ports) \in ports /\ \A p \in ports : Lowest(ports) <= p
<1> DEFINE R == {ss \in Nat \X Nat : ss[1] < ss[2]}
<1>1. IsWellFoundedOn(R, Nat)
  BY NatLessThanWellFounded DEF OpToRel
<1>2. \A x, y \in Nat : <<y, x>> \notin R => x <= y
  OBVIOUS
<1> HIDE DEF R
<1>3. PICK x \in ports : \A y \in ports : <<y, x>> \notin R
  BY <1>1, WFMin
<1>4. \A y \in ports : x <= y
  BY <1>2, <1>3
<1>5. QED
  BY <1>3, <1>4 DEF Lowest

Following(f, m) == LET base == f[m - 1] + Size(m - 1) IN base - (base % Size(m))

AreBases(f) ==
  f = [m \in Slaves |-> IF m = 0 THEN 0 ELSE Following(f, m)]

LEMMA BasesChosen == BaseAddrs = CHOOSE f : AreBases(f)
  BY DEF BaseAddrs, AreBases, Following

LEMMA SlaveNumbers == M_COUNT \in Nat \ {0} /\ Slaves \subseteq Nat
  BY InterconnectAssumption DEF Slaves

LEMMA Sizes == \A m \in Slaves : Size(m) \in Nat \ {0}
  BY InterconnectAssumption

LEMMA Aligned ==
  \A b \in Nat, s \in Nat \ {0} : b - (b % s) \in Nat /\ (b - (b % s)) % s = 0
<1> SUFFICES ASSUME NEW b \in Nat, NEW s \in Nat \ {0}
             PROVE  b - (b % s) \in Nat /\ (b - (b % s)) % s = 0
  OBVIOUS
<1>1. PICK q \in Nat : q = b \div s
  OBVIOUS
<1>2. b = s * (b \div s) + (b % s)
  OBVIOUS
<1>3. b - (b % s) = s * q
  BY <1>1, <1>2
<1>4. s * q \in Nat /\ (s * q) % s = 0
  BY <1>1
<1>5. QED
  BY <1>3, <1>4, Zenon

(* The first n + 1 slaves.                                                  *)
Placed(n, f) ==
  /\ f \in [0 .. n -> Nat] /\ f[0] = 0
  /\ \A m \in 1 .. n : f[m] = Following(f, m)

LEMMA PlaceNext ==
  ASSUME NEW n \in Nat, n + 1 < M_COUNT, NEW f, Placed(n, f)
  PROVE  \E g : Placed(n + 1, g)
<1> DEFINE base == f[n] + Size(n)
           next == base - (base % Size(n + 1))
           g    == [m \in 0 .. n + 1 |-> IF m = n + 1 THEN next ELSE f[m]]
<1>1. n \in Slaves /\ n + 1 \in Slaves /\ n \in 0 .. n
  BY SlaveNumbers DEF Slaves
<1>2. base \in Nat
  BY <1>1, Sizes DEF Placed
<1>3. next \in Nat
  <2>1. Size(n + 1) \in Nat \ {0}
    BY <1>1, Sizes
  <2> HIDE DEF base
  <2>2. QED
    BY <1>2, <2>1, Aligned
<1>4. next = Following(f, n + 1)
  <2>1. (n + 1) - 1 = n
    OBVIOUS
  <2>2. QED
    BY <2>1, Zenon DEF Following
<1> HIDE DEF next
<1>5. g \in [0 .. n + 1 -> Nat] /\ g[0] = 0
  <2>1. \A m \in 0 .. n + 1 : m # n + 1 => m \in 0 .. n
    OBVIOUS
  <2>2. QED
    BY <1>3, <2>1 DEF Placed
<1>6. ASSUME NEW m \in 1 .. n + 1 PROVE g[m] = Following(g, m)
  <2>1. m - 1 \in 0 .. n + 1 /\ m - 1 # n + 1 /\ m \in 0 .. n + 1
    OBVIOUS
  <2>2. g[m - 1] = f[m - 1]
    BY <2>1
  <2>3. Following(g, m) = Following(f, m)
    BY <2>2 DEF Following
  <2>4. CASE m = n + 1
    BY <1>4, <2>1, <2>3, <2>4
  <2>5. CASE m # n + 1
    <3>1. m \in 1 .. n /\ g[m] = f[m]
      BY <2>1, <2>5
    <3>2. QED
      BY <2>3, <3>1 DEF Placed
  <2>6. QED
    BY <2>4, <2>5
<1> HIDE DEF g
<1>7. Placed(n + 1, g)
  BY <1>5, <1>6 DEF Placed
<1>8. QED
  BY <1>7

LEMMA BasesExist == \E f : AreBases(f)
<1> DEFINE T == {n \in Nat : n < M_COUNT => \E f : Placed(n, f)}
<1>1. 0 \in T
  <2>1. Placed(0, [m \in 0 .. 0 |-> 0])
    BY DEF Placed
  <2>2. QED
    BY <2>1
<1>2. ASSUME NEW n \in T PROVE n + 1 \in T
  <2>1. CASE n + 1 < M_COUNT
    <3>1. \E f : Placed(n, f)
      BY <2>1, SlaveNumbers
    <3>2. QED
      BY <2>1, <3>1, PlaceNext
  <2>2. QED
    BY <2>1
<1>3. T \subseteq Nat
  OBVIOUS
<1> HIDE DEF T
<1>4. T = Nat
  BY <1>1, <1>2, <1>3, AllNumbers
<1>5. M_COUNT - 1 \in T /\ M_COUNT - 1 < M_COUNT
  BY <1>4, SlaveNumbers
<1>6. PICK f : Placed(M_COUNT - 1, f)
  BY <1>5 DEF T
<1>7. \A m \in Slaves : m = 0 \/ m \in 1 .. M_COUNT - 1
  BY SlaveNumbers DEF Slaves
<1>8. f = [m \in Slaves |-> IF m = 0 THEN 0 ELSE Following(f, m)]
  BY <1>6, <1>7 DEF Placed, Slaves
<1>9. AreBases(f)
  BY <1>8, Zenon DEF AreBases
<1>10. QED
  BY <1>9

LEMMA BaseAligned == \A m \in Slaves : BaseAddrs[m] \in Nat /\ BaseAddrs[m] % Size(m) = 0
<1>1. AreBases(BaseAddrs)
  BY BasesExist, BasesChosen
<1>2. /\ \A m \in Slaves : m = 0 => BaseAddrs[m] = 0
      /\ \A m \in Slaves : m # 0 => BaseAddrs[m] = Following(BaseAddrs, m)
  BY <1>1 DEF AreBases
<1> DEFINE T == {n \in Nat : n \in Slaves => BaseAddrs[n] \in Nat /\ BaseAddrs[n] % Size(n) = 0}
<1>3. 0 \in T
  BY <1>2, Sizes
<1>4. ASSUME NEW n \in T PROVE n + 1 \in T
  <2>1. SUFFICES ASSUME n + 1 \in Slaves
                 PROVE  BaseAddrs[n + 1] \in Nat /\ BaseAddrs[n + 1] % Size(n + 1) = 0
    OBVIOUS
  <2>2. n \in Slaves /\ (n + 1) - 1 = n /\ n + 1 # 0
    BY <2>1, SlaveNumbers DEF Slaves
  <2>3. BaseAddrs[n] + Size(n) \in Nat
    BY <2>2, Sizes
  <2>4. BaseAddrs[n + 1] = Following(BaseAddrs, n + 1)
    BY <1>2, <2>1, <2>2
  <2> DEFINE base == BaseAddrs[n] + Size(n)
  <2>5. BaseAddrs[n + 1] = base - (base % Size(n + 1))
    BY <2>2, <2>4, Zenon DEF Following
  <2>6. Size(n + 1) \in Nat \ {0}
    BY <2>1, Sizes
  <2>7. base \in Nat
    BY <2>3
  <2> HIDE DEF base
  <2>8. base - (base % Size(n + 1)) \in Nat /\ (base - (base % Size(n + 1))) % Size(n + 1) = 0
    BY <2>6, <2>7, Aligned
  <2>9. QED
    BY <2>5, <2>8, Zenon
<1>5. T \subseteq Nat
  OBVIOUS
<1> HIDE DEF T
<1>6. T = Nat
  BY <1>3, <1>4, <1>5, AllNumbers
<1>7. QED
  BY <1>6, SlaveNumbers DEF T

LEMMA RegionOf ==
  \A b, a \in Nat, s \in Nat \ {0} :
    b % s = 0 => (a \div s = b \div s <=> b <= a /\ a < b + s)
<1>1. \A b \in Nat, s \in Nat \ {0} : b % s = 0 => b = s * (b \div s) /\ b \div s \in Nat
  OBVIOUS
<1>2. \A a \in Nat, q \in Nat, s \in Nat \ {0} :
        (a \div s = q) <=> (s * q <= a /\ a < s * q + s)
  OBVIOUS
<1>3. ASSUME NEW b \in Nat, NEW a \in Nat, NEW s \in Nat \ {0}, b % s = 0
      PROVE  a \div s = b \div s <=> b <= a /\ a < b + s
  <2>1. PICK q \in Nat : q = b \div s /\ b = s * q
    BY <1>1, <1>3
  <2>2. (a \div s = q) <=> (s * q <= a /\ a < s * q + s)
    BY <1>2, Zenon
  <2>3. QED
    BY <2>1, <2>2, Zenon
<1>4. QED
  BY <1>3, Zenon

(* The comparison of the upper bits of an address finds the slave whose     *)
(* region the address lies in, and that slave only.                         *)
LEMMA MatchIsTarget ==
  ASSUME NEW addr \in Address
  PROVE  /\ Match(addr) # {} => /\ Target(addr) \in Slaves /\ Match(addr) = {Target(addr)}
         /\ Match(addr) = {} => Target(addr) = M_COUNT
<1>1. addr \in Nat
  BY InterconnectAssumption DEF Address
<1>2. \A m \in Slaves : m \in Match(addr) <=> InSlave(m, addr)
  BY <1>1, BaseAligned, Sizes, RegionOf, Zenon DEF Match, InSlave
<1>3. \A m, n \in Slaves : InSlave(m, addr) /\ InSlave(n, addr) => m = n
  BY <1>1, RegionsApart, BaseAligned, Sizes DEF InSlave, Apart
<1>4. Match(addr) \subseteq Slaves
  BY DEF Match
<1>5. QED
  BY <1>2, <1>3, <1>4 DEF Target

LEMMA MatchedOrNot ==
  \A addr \in Address : Target(addr) \in Slaves <=> Target(addr) # M_COUNT
  BY MatchIsTarget, SlaveNumbers DEF Slaves
-----------------------------------------------------------------------------
(* The invariant behind the order of beats.  A burst is followed from the   *)
(* request to the answer: how many of its beats the master has, or has      *)
(* sent; which are in the data path; which are with the slave.              *)
IsReading == read /\ state \in {"READ", "READ_DROP", "WAIT_IDLE"}
IsWriting == granted /\ ~read /\ state \in {"WRITE", "WRITE_DROP", "WRITE_RESP", "WAIT_IDLE"}

Granted == IF read THEN ar[s_select] ELSE aw[s_select]

(* A grant is kept from the request to the end of the answer.               *)
Granting ==
  /\ grant \in Ports \cup {NoPort}
  /\ state # "IDLE" => granted
  /\ state \in {"READ", "READ_DROP"} => read
  /\ state \in {"WRITE", "WRITE_DROP", "WRITE_RESP"} => ~read
  /\ granted /\ state \in {"IDLE", "DECODE"} => Granted # None
  /\ state = "DECODE" => axi = Granted

(* The ready and valid wires towards the masters, and the rule of the ready *)
(* wires: one is up only beside its valid.                                  *)
Wires ==
  /\ out.s_arready = Only(state = "DECODE" /\ read, s_select)
  /\ out.s_awready = Only(state = "DECODE" /\ ~read, s_select)
  /\ out.s_bvalid = Only(state = "WAIT_IDLE" /\ ~read, s_select)
  /\ out.s_wready \subseteq Only(state \in {"WRITE", "WRITE_DROP"}, s_select)
  /\ state = "WRITE" /\ out.s_wready # {} => w.ready
  /\ state = "READ" /\ out.m_rready # {} => r.ready
  /\ rready \subseteq r.valid /\ bready \subseteq out.s_bvalid /\ m_ready.w \subseteq w.valid

Kinds ==
  /\ IsSkid(r) /\ m_select \in Slaves
  /\ axi \in [id : Nat, addr : Address, len : Nat]
  /\ \A s \in Masters :
       /\ ar[s] \in Request \cup {None} /\ aw[s] \in WriteRequests[s] \cup {None}
       /\ reading[s] \in [req : Request, n : Nat] \cup {None}

(* A data path holds the beats from n on, oldest first.                     *)
Count(k) == (IF k.valid = {} THEN 0 ELSE 1) + (IF k.temp = None THEN 0 ELSE 1)

Holds(k, port, beats, n) ==
  /\ k.valid \subseteq {port}
  /\ k.valid # {} => k.beat = beats[n]
  /\ k.temp # None => k.valid # {} /\ k.temp = beats[n + 1]
  /\ k.ready => k.temp = None

ReadBeats(req) ==
  [n \in Nat |-> Beat(Target(req.addr), req.addr, IF Target(req.addr) = M_COUNT THEN 0 ELSE n,
                      n = req.len, req.id)]
WriteBeats(s, req) == [n \in Nat |-> Beat(s, req.addr, n, n = req.len, req.id)]

(* A read of which the master has n beats.                                  *)
ReadAt(req, n) ==
  /\ Holds(r, s_select, ReadBeats(req), n)
  /\ state = "READ" => axi = req /\ m_select = Target(req.addr) /\ n + Count(r) <= req.len
  /\ state = "READ_DROP" => /\ Target(req.addr) = M_COUNT /\ axi.addr = req.addr
                            /\ axi.id = req.id /\ n + Count(r) + axi.len = req.len
  /\ state = "WAIT_IDLE" => n + Count(r) = req.len + 1

ReadFlow ==
  /\ \A s \in Masters : reading[s] # None <=> IsReading /\ s = s_select
  /\ IF IsReading THEN ReadAt(reading[s_select].req, reading[s_select].n)
     ELSE r.valid = {} /\ r.temp = None

(* A slave has given the beats that are in the data path or with the master.*)
SlaveFlow ==
  \A m \in Slaves :
    /\ serving[m].n \in Nat
    /\ ~serving[m].ar => serving[m].n = 0
    /\ state = "READ" /\ m = m_select =>
         /\ serving[m].n = reading[s_select].n + Count(r)
         /\ serving[m].ar => serving[m].addr = axi.addr /\ serving[m].len = axi.len

(* A write of which the master has sent some beats and some have landed.    *)
WriteAt(s, req, sent, landed) ==
  LET mapped == Target(req.addr) # M_COUNT
  IN /\ axi = req /\ req \in WriteRequests[s]
     /\ Holds(w, m_select, WriteBeats(s, req), landed)
     /\ state \in {"WRITE", "WRITE_RESP"} =>
          m_select = Target(req.addr) /\ sent = landed + Count(w)
     /\ state = "WRITE" => sent <= req.len
     /\ state = "WRITE_RESP" => sent = req.len + 1
     /\ state = "WRITE_DROP" => ~mapped /\ bresp = "DECERR" /\ sent = 0
     /\ state = "WAIT_IDLE" => /\ sent = req.len + 1
                               /\ mapped => landed = sent
                               /\ bresp = (IF mapped THEN "OKAY" ELSE "DECERR")

(* The writes a master has open: the one being served, and the one offered; *)
(* and the beat that is next.                                               *)
Bursts == [req : Request, sent : Nat, landed : Nat]

Offer(req) == [req |-> req, sent |-> 0, landed |-> 0]

WithOffer(burst, next) == IF next = None THEN <<burst>> ELSE <<burst, Offer(next)>>
OnlyOffer(next)        == IF next = None THEN <<>> ELSE <<Offer(next)>>

OpenWrites(served, burst, next) == IF served THEN WithOffer(burst, next) ELSE OnlyOffer(next)

DueBeat(s, served, burst, next) ==
  IF served /\ burst.sent <= burst.req.len THEN WriteBeats(s, burst.req)[burst.sent]
  ELSE IF next = None THEN None ELSE WriteBeats(s, next)[0]

Served(s) == IsWriting /\ s = s_select

WriteQueue(s, burst) ==
  /\ Served(s) => burst \in Bursts /\ WriteAt(s, burst.req, burst.sent, burst.landed)
  /\ writing[s] = OpenWrites(Served(s), burst, aw[s])
  /\ wdata[s] \in {None, DueBeat(s, Served(s), burst, aw[s])}

WriteFlow == \A s \in Masters : WriteQueue(s, writing[s][1])

OrderInv == Granting /\ Wires /\ Kinds /\ ReadFlow /\ SlaveFlow /\ WriteFlow
-----------------------------------------------------------------------------
(* A data path keeps the order: what enters behind the beats it holds, in   *)
(* its turn, leaves in its turn, whether the output is taken or stalls.     *)
LEMMA HoldsStep ==
  ASSUME NEW k, IsSkid(k), NEW port, NEW beats, NEW n \in Nat, Holds(k, port, beats, n),
         NEW taken, taken \in BOOLEAN, taken => k.valid # {}, NEW in,
         in # None /\ k.ready => in = beats[n + Count(k)],
         beats[n] # None, beats[n + 1] # None
  PROVE  LET after == SkidStep(k, port, taken, in)
             now   == IF taken THEN n + 1 ELSE n
         IN  /\ IsSkid(after)
             /\ Holds(after, port, beats, now)
             /\ now + Count(after) = n + Count(k) + (IF in # None /\ k.ready THEN 1 ELSE 0)
<1> DEFINE after == SkidStep(k, port, taken, in)
           now   == IF taken THEN n + 1 ELSE n
           early == Early(k, port, taken, in)
<1>1. early <=> taken \/ (k.temp = None /\ (port \notin k.valid \/ in = None))
  BY DEF Early
<1>2. k.valid = {} \/ k.valid = {port}
  BY DEF Holds
<1> HIDE DEF early, after, now
<1>3. \/ /\ k.ready /\ (taken \/ port \notin k.valid)
         /\ after = [valid |-> IF in = None THEN k.valid \ {port} ELSE k.valid \cup {port},
                     beat |-> in, temp |-> k.temp, ready |-> early]
      \/ /\ k.ready /\ ~taken /\ port \in k.valid
         /\ after = [valid |-> k.valid, beat |-> k.beat, temp |-> in, ready |-> early]
      \/ /\ ~k.ready /\ taken
         /\ after = [valid |-> IF k.temp = None THEN k.valid \ {port}
                               ELSE k.valid \cup {port},
                     beat |-> k.temp, temp |-> None, ready |-> early]
      \/ /\ ~k.ready /\ ~taken
         /\ after = [valid |-> k.valid, beat |-> k.beat, temp |-> k.temp, ready |-> early]
  BY SkidCases DEF after, early
<1>4. IsSkid(after)
  BY <1>3 DEF IsSkid
<1>5. Holds(after, port, beats, now) /\
      now + Count(after) = n + Count(k) + (IF in # None /\ k.ready THEN 1 ELSE 0)
  <2>1. CASE k.ready /\ (taken \/ port \notin k.valid)
    <3>1. k.temp = None /\ after.valid = (IF in = None THEN {} ELSE {port})
          /\ after.beat = in /\ after.temp = None /\ (after.ready <=> early)
      BY <1>2, <1>3, <2>1 DEF Holds
    <3>2. CASE taken
      <4>1. k.valid = {port} /\ Count(k) = 1 /\ now = n + 1
        BY <1>2, <2>1, <3>1, <3>2 DEF Count, now
      <4>2. in # None => after.beat = beats[now]
        BY <2>1, <3>1, <4>1
      <4>3. QED
        BY <2>1, <3>1, <4>1, <4>2 DEF Holds, Count
    <3>3. CASE ~taken
      <4>1. k.valid = {} /\ Count(k) = 0 /\ now = n
        BY <1>2, <2>1, <3>1, <3>3 DEF Count, now
      <4>2. in # None => after.beat = beats[now]
        BY <2>1, <3>1, <4>1
      <4>3. QED
        BY <2>1, <3>1, <4>1, <4>2 DEF Holds, Count
    <3>4. QED
      BY <3>2, <3>3
  <2>2. CASE k.ready /\ ~taken /\ port \in k.valid
    <3>1. k.temp = None /\ after.valid = {port} /\ after.beat = k.beat /\ after.temp = in
          /\ (after.ready <=> early) /\ now = n /\ k.valid = {port}
      BY <1>2, <1>3, <2>2 DEF Holds, now
    <3>2. Count(k) = 1 /\ (after.ready => in = None)
      BY <1>1, <2>2, <3>1 DEF Count
    <3>3. in # None => in = beats[now + 1]
      BY <2>2, <3>1, <3>2
    <3>4. QED
      BY <2>2, <3>1, <3>2, <3>3 DEF Holds, Count
  <2>3. CASE ~k.ready /\ taken
    <3>1. k.valid = {port} /\ after.temp = None /\ after.beat = k.temp /\ now = n + 1
          /\ after.valid = (IF k.temp = None THEN {} ELSE {port})
      BY <1>2, <1>3, <2>3 DEF now
    <3>2. k.temp # None => k.temp = beats[now]
      BY <3>1 DEF Holds
    <3>3. QED
      BY <2>3, <3>1, <3>2 DEF Holds, Count
  <2>4. CASE ~k.ready /\ ~taken
    <3>1. after.valid = k.valid /\ after.beat = k.beat /\ after.temp = k.temp /\ now = n
          /\ (after.ready => k.temp = None)
      BY <1>1, <1>3, <2>4 DEF now
    <3>2. QED
      BY <2>4, <3>1 DEF Holds, Count
  <2>5. QED
    BY <1>3, <2>1, <2>2, <2>3, <2>4
<1>6. QED
  BY <1>4, <1>5 DEF after, now
-----------------------------------------------------------------------------
(* What the machine does to the wires of the masters, and when a slave is   *)
(* told that its beat is taken.                                             *)
LastTaken == IF state = "READ" THEN TakesR /\ M_Beat(m_select).last
             ELSE TakesW /\ wdata[s_select].last

LEMMA MasterWires ==
  ASSUME Machine
  PROVE  /\ out'.s_arready = Only(state = "IDLE" /\ granted /\ read, s_select)
         /\ out'.s_awready = Only(state = "IDLE" /\ granted /\ ~read, s_select)
         /\ out'.s_bvalid = (out.s_bvalid \ bready)
              \cup Only((state = "WRITE_RESP" /\ TakesB) \/ (state = "WRITE_DROP" /\ TakesW),
                        s_select)
         /\ out'.s_wready =
              Only(\/ state = "DECODE" /\ ~read /\ (Match(axi.addr) # {} => W_Early)
                   \/ state = "WRITE" /\ W_Early /\ ~LastTaken
                   \/ state = "WRITE_DROP" /\ ~TakesW, s_select)
         /\ out'.m_rready =
              Only(\/ state = "DECODE" /\ read /\ Match(axi.addr) # {} /\ R_Early
                   \/ state = "READ" /\ R_Early /\ ~LastTaken, m_select)
<1> DEFINE Fields(o, arready, awready, bvalid, wready, mready) ==
      /\ o.s_arready = arready /\ o.s_awready = awready /\ o.s_bvalid = bvalid
      /\ o.s_wready = wready /\ o.m_rready = mready
<1> DEFINE quietB == out.s_bvalid \ bready
<1>1. Fields(Quiet, {}, {}, quietB, {}, {})
  BY DEF Quiet
<1>2. IsOut(Quiet)
  BY QuietShape
<1>3. Only(FALSE, s_select) = {} /\ Only(FALSE, m_select) = {}
  BY DEF Only
<1> HIDE DEF quietB
<1>4. CASE IdleWaits
  <2>1. out' = Quiet /\ state = "IDLE" /\ ~granted
    BY <1>4 DEF IdleWaits
  <2>2. QED
    BY <1>1, <1>3, <2>1 DEF quietB, Only
<1>5. CASE IdleAccepts
  <2>1. /\ out' = [Quiet EXCEPT !.s_arready = Only(read, s_select),
                                !.s_awready = Only(~read, s_select)]
        /\ state = "IDLE" /\ granted
    BY <1>5 DEF IdleAccepts
  <2>2. Fields(out', Only(read, s_select), Only(~read, s_select), quietB, {}, {})
    BY <1>1, <1>2, <2>1 DEF IsOut
  <2>3. QED
    BY <2>1, <2>2 DEF quietB, Only
<1>6. CASE DecodeMatch
  <2>1. /\ out' = [Quiet EXCEPT !.m_rready = Only(read /\ R_Early, m_select),
                                !.s_wready = Only(~read /\ W_Early, s_select)]
        /\ state = "DECODE" /\ Match(axi.addr) # {}
    BY <1>6 DEF DecodeMatch
  <2>2. Fields(out', {}, {}, quietB, Only(~read /\ W_Early, s_select),
               Only(read /\ R_Early, m_select))
    BY <1>1, <1>2, <2>1 DEF IsOut
  <2>3. QED
    BY <2>1, <2>2 DEF quietB, Only
<1>7. CASE DecodeError
  <2>1. /\ out' = [Quiet EXCEPT !.s_wready = Only(~read, s_select)]
        /\ state = "DECODE" /\ Match(axi.addr) = {}
    BY <1>7 DEF DecodeError
  <2>2. Fields(out', {}, {}, quietB, Only(~read, s_select), {})
    BY <1>1, <1>2, <2>1 DEF IsOut
  <2>3. QED
    BY <2>1, <2>2 DEF quietB, Only
<1>8. CASE Write
  <2>1. PICK a : out' = [Quiet EXCEPT !.m_awvalid = @ \cup Only(addr_valid, m_select),
                          !.s_wready = Only(W_Early /\ ~(TakesW /\ wdata[s_select].last), s_select),
                          !.m_bready = a]
    BY <1>8 DEF Write
  <2>2. state = "WRITE" /\ (LastTaken <=> TakesW /\ wdata[s_select].last)
    BY <1>8 DEF Write, LastTaken
  <2>3. Fields(out', {}, {}, quietB, Only(W_Early /\ ~(TakesW /\ wdata[s_select].last), s_select), {})
    BY <1>1, <1>2, <2>1 DEF IsOut
  <2>4. QED
    BY <2>2, <2>3 DEF quietB, Only
<1>9. CASE WriteResp
  <2>1. PICK a : out' = [Quiet EXCEPT !.m_bready = a, !.s_bvalid = @ \cup Only(TakesB, s_select)]
    BY <1>9 DEF WriteResp
  <2>2. Fields(out', {}, {}, quietB \cup Only(TakesB, s_select), {}, {})
    BY <1>1, <1>2, <2>1 DEF IsOut
  <2>3. state = "WRITE_RESP"
    BY <1>9 DEF WriteResp
  <2>4. QED
    BY <2>2, <2>3 DEF quietB, Only
<1>10. CASE WriteDrop
  <2>1. /\ out' = [Quiet EXCEPT !.s_wready = Only(~TakesW, s_select),
                               !.s_bvalid = @ \cup Only(TakesW, s_select)]
        /\ state = "WRITE_DROP"
    BY <1>10 DEF WriteDrop
  <2>2. Fields(out', {}, {}, quietB \cup Only(TakesW, s_select), Only(~TakesW, s_select), {})
    BY <1>1, <1>2, <2>1 DEF IsOut
  <2>3. QED
    BY <2>1, <2>2 DEF quietB, Only
<1>11. CASE Read
  <2>1. out' = [Quiet EXCEPT !.m_arvalid = @ \cup Only(addr_valid, m_select),
                 !.m_rready = Only(R_Early /\ ~(TakesR /\ M_Beat(m_select).last), m_select)]
    BY <1>11 DEF Read
  <2>2. state = "READ" /\ (LastTaken <=> TakesR /\ M_Beat(m_select).last)
    BY <1>11 DEF Read, LastTaken
  <2>3. Fields(out', {}, {}, quietB, {}, Only(R_Early /\ ~(TakesR /\ M_Beat(m_select).last), m_select))
    BY <1>1, <1>2, <2>1 DEF IsOut
  <2>4. QED
    BY <2>2, <2>3 DEF quietB, Only
<1>12. CASE ReadDrop \/ WaitIdle
  <2>1. out' = Quiet /\ state \in {"READ_DROP", "WAIT_IDLE"}
    BY <1>12 DEF ReadDrop, WaitIdle
  <2>2. QED
    BY <1>1, <2>1 DEF quietB, Only
<1>13. QED
  BY <1>4, <1>5, <1>6, <1>7, <1>8, <1>9, <1>10, <1>11, <1>12 DEF Machine
-----------------------------------------------------------------------------
(* The masters and the grant.                                               *)
LEMMA MasterStep ==
  ASSUME MastersStep, NEW s \in Masters
  PROVE  /\ IF ar[s] # None /\ ~ArTaken(s) THEN ar'[s] = ar[s]
            ELSE ar'[s] \in ReadRequests[s] \cup {None}
         /\ IF aw[s] # None /\ ~AwTaken(s) THEN aw'[s] = aw[s]
            ELSE aw'[s] = None \/ (Len(writing[s]) < 2 /\ aw'[s] \in WriteRequests[s])
         /\ IF wdata[s] # None /\ ~WTaken(s) THEN wdata'[s] = wdata[s]
            ELSE wdata'[s] = None \/ (/\ Unsent(writing'[s]) # {}
                                      /\ wdata'[s] = NextBeat(s, writing'[s]))
         /\ reading'[s] = ReadingStep(s)
         /\ writing'[s] = WritingStep(s)
<1>1. \/ ar[s] # None /\ ~ArTaken(s) /\ ar'[s] = ar[s]
      \/ ~(ar[s] # None /\ ~ArTaken(s)) /\ ar'[s] \in ReadChoices(s)
  BY DEF MastersStep, Offers
<1>2. \/ aw[s] # None /\ ~AwTaken(s) /\ aw'[s] = aw[s]
      \/ ~(aw[s] # None /\ ~AwTaken(s)) /\ aw'[s] \in WriteChoices(s)
  BY DEF MastersStep, Offers
<1>3. \/ wdata[s] # None /\ ~WTaken(s) /\ wdata'[s] = wdata[s]
      \/ ~(wdata[s] # None /\ ~WTaken(s)) /\ wdata'[s] \in BeatChoices(s)
  BY DEF MastersStep, Offers
<1>4. reading'[s] = ReadingStep(s) /\ writing'[s] = WritingStep(s)
  BY DEF MastersStep
<1>5. ReadChoices(s) = ReadRequests[s] \cup {None}
  BY DEF ReadChoices
<1>6. aw'[s] \in WriteChoices(s) =>
        aw'[s] = None \/ (Len(writing[s]) < 2 /\ aw'[s] \in WriteRequests[s])
  BY DEF WriteChoices
<1>7. wdata'[s] \in BeatChoices(s) =>
        wdata'[s] = None \/ (/\ Unsent(writing'[s]) # {}
                             /\ wdata'[s] = NextBeat(s, writing'[s]))
  BY DEF BeatChoices
<1>8. QED
  BY <1>1, <1>2, <1>3, <1>4, <1>5, <1>6, <1>7

LEMMA ReadyStep ==
  ASSUME MastersStep, SlavesStep
  PROVE  rready' \subseteq r'.valid /\ bready' \subseteq out'.s_bvalid /\ m_ready'.w \subseteq w'.valid
  BY DEF MastersStep, SlavesStep

LEMMA PortNumbers ==
  /\ S_COUNT \in Nat \ {0} /\ Masters \subseteq Nat /\ Ports \subseteq Nat
  /\ \A p \in Ports : p \div 2 \in Masters /\ p % 2 \in {0, 1}
  /\ \A s \in Masters : /\ 2 * s \in Ports /\ (2 * s) \div 2 = s /\ (2 * s) % 2 = 0
                        /\ 2 * s + 1 \in Ports /\ (2 * s + 1) \div 2 = s /\ (2 * s + 1) % 2 = 1
<1>1. S_COUNT \in Nat \ {0}
  BY InterconnectAssumption
<1>2. QED
  BY <1>1 DEF Masters, Ports

LEMMA Selected == Granting /\ granted => s_select \in Masters
  BY PortNumbers DEF Granting, granted, s_select, NoPort

LEMMA NoneIsNone ==
  /\ \A q \in Request : q # None
  /\ \A from, addr, n, last, id : Beat(from, addr, n, last, id) # None
  /\ \A j \in [req : Request, n : Nat] : j # None
<1>1. \A q \in Request : q # None
  BY DEF Request, None
<1>2. \A from, addr, n, last, id : Beat(from, addr, n, last, id) # None
  BY DEF Beat, None
<1>3. \A j \in [req : Request, n : Nat] : j # None
  BY DEF None
<1>4. QED
  BY <1>1, <1>2, <1>3

LEMMA BeatIs ==
  ASSUME NEW from, NEW addr, NEW k, NEW last, NEW id
  PROVE  LET b == Beat(from, addr, k, last, id)
         IN  b # None /\ b.last = last /\ b.from = from
  BY DEF Beat, None

LEMMA ReadBeatIs ==
  ASSUME NEW req, NEW n \in Nat
  PROVE  /\ ReadBeats(req)[n] # None
         /\ ReadBeats(req)[n].last <=> n = req.len
<1> DEFINE last == n = req.len
           k    == IF Target(req.addr) = M_COUNT THEN 0 ELSE n
           slave == Target(req.addr)
<1>1. ReadBeats(req)[n] = Beat(slave, req.addr, k, last, req.id)
  BY Zenon DEF ReadBeats
<1>2. last \in BOOLEAN
  OBVIOUS
<1> HIDE DEF last, k, slave
<1>3. ReadBeats(req)[n] # None /\ ReadBeats(req)[n].last = last
  BY <1>1, BeatIs
<1>4. ReadBeats(req)[n].last <=> last
  BY <1>2, <1>3
<1>5. QED
  BY <1>3, <1>4 DEF last

LEMMA WriteBeatIs ==
  ASSUME NEW s, NEW req, NEW n \in Nat
  PROVE  /\ WriteBeats(s, req)[n] # None /\ WriteBeats(s, req)[n].from = s
         /\ WriteBeats(s, req)[n].last <=> n = req.len
<1> DEFINE last == n = req.len
<1>1. WriteBeats(s, req)[n] = Beat(s, req.addr, n, last, req.id)
  BY Zenon DEF WriteBeats
<1>2. last \in BOOLEAN
  OBVIOUS
<1> HIDE DEF last
<1>3. /\ WriteBeats(s, req)[n] # None /\ WriteBeats(s, req)[n].last = last
      /\ WriteBeats(s, req)[n].from = s
  BY <1>1, BeatIs
<1>4. WriteBeats(s, req)[n].last <=> last
  BY <1>2, <1>3
<1>5. QED
  BY <1>3, <1>4 DEF last

(* What is granted was asked for, and stays.                                *)
LEMMA GrantAsked ==
  request \subseteq Ports /\ (request # {} => RoundRobin \in request)
<1>1. request \subseteq Ports
  BY PortNumbers DEF request
<1>2. ASSUME request # {} PROVE RoundRobin \in request
  <2> DEFINE above == {p \in request : p > last_grant}
             ports == IF above # {} THEN above ELSE request
  <2>1. ports # {} /\ ports \subseteq request
    BY <1>2
  <2>2. RoundRobin = Lowest(ports)
    BY DEF RoundRobin
  <2> HIDE DEF ports
  <2>3. ports \in SUBSET Nat
    BY <1>1, <2>1, PortNumbers
  <2>4. QED
    BY <2>1, <2>2, <2>3, LowestIsIn
<1>3. QED
  BY <1>1, <1>2

LEMMA ArbiterStep ==
  ASSUME Arbiter
  PROVE  \/ granted /\ ~acknowledge /\ grant' = grant
         \/ (~granted \/ acknowledge) /\ (grant' = NoPort \/ grant' \in request)
  BY GrantAsked DEF Arbiter

LEMMA AcknowledgeWaits ==
  ASSUME Granting, Wires, Kinds, ReadFlow, acknowledge
  PROVE  state = "WAIT_IDLE"
<1>1. CASE ~read
  BY <1>1 DEF acknowledge, Wires, Only
<1>2. CASE read
  <2>1. s_select \in Masters /\ granted
    BY Selected DEF acknowledge
  <2>2. s_select \in r.valid /\ r.beat.last
    BY <1>2 DEF acknowledge
  <2>3. IsReading
    BY <2>2 DEF ReadFlow
  <2> DEFINE req == reading[s_select].req
             n   == reading[s_select].n
  <2>4. req \in Request /\ n \in Nat
    BY <2>1, <2>3 DEF ReadFlow, Kinds
  <2>5. r.beat = ReadBeats(req)[n]
    BY <2>2, <2>3 DEF ReadFlow, ReadAt, Holds
  <2>6. /\ state = "READ" => n + Count(r) <= req.len
        /\ state = "READ_DROP" => n + Count(r) + axi.len = req.len
    BY <2>3 DEF ReadFlow, ReadAt
  <2>7. axi.len \in Nat /\ req.len \in Int
    BY <2>4, InterconnectAssumption DEF Kinds, Request
  <2> HIDE DEF req, n
  <2>8. r.beat.last <=> n = req.len
    BY <2>4, <2>5, ReadBeatIs, Zenon
  <2>9. Count(r) \in {1, 2}
    BY <2>2 DEF Count
  <2>10. state # "READ" /\ state # "READ_DROP"
    BY <2>2, <2>4, <2>6, <2>7, <2>8, <2>9
  <2>11. QED
    BY <2>3, <2>10 DEF IsReading
<1>3. QED
  BY <1>1, <1>2
-----------------------------------------------------------------------------
(* What the machine does to its registers.                                  *)
LEMMA RegisterStep ==
  ASSUME Machine
  PROVE  /\ state \in {"IDLE", "DECODE", "WRITE", "WRITE_RESP", "WRITE_DROP", "READ",
                       "READ_DROP", "WAIT_IDLE"}
         /\ state = "IDLE" => state' = IF granted THEN "DECODE" ELSE "IDLE"
         /\ state = "DECODE" /\ Match(axi.addr) # {} => state' = IF read THEN "READ" ELSE "WRITE"
         /\ state = "DECODE" /\ Match(axi.addr) = {} =>
              state' = IF read THEN "READ_DROP" ELSE "WRITE_DROP"
         /\ state = "WRITE" => state' = IF LastTaken THEN "WRITE_RESP" ELSE "WRITE"
         /\ state = "WRITE_RESP" => state' = IF TakesB THEN "WAIT_IDLE" ELSE "WRITE_RESP"
         /\ state = "WRITE_DROP" => state' = IF TakesW THEN "WAIT_IDLE" ELSE "WRITE_DROP"
         /\ state = "READ" => state' = IF LastTaken THEN "WAIT_IDLE" ELSE "READ"
         /\ state = "READ_DROP" =>
              state' = IF r.ready /\ axi.len = 0 THEN "WAIT_IDLE" ELSE "READ_DROP"
         /\ state = "WAIT_IDLE" =>
              state' = IF ~granted \/ acknowledge THEN "IDLE" ELSE "WAIT_IDLE"
         /\ axi' = IF state = "IDLE" /\ granted THEN Granted
                   ELSE IF state = "READ_DROP" /\ r.ready THEN [axi EXCEPT !.len = CountDown(@)]
                   ELSE axi
         /\ state = "DECODE" /\ Match(axi.addr) # {} =>
              m_select' = CHOOSE m \in Match(axi.addr) : \A n \in Match(axi.addr) : n <= m
         /\ ~(state = "DECODE" /\ Match(axi.addr) # {}) => m_select' = m_select
         /\ state = "DECODE" /\ Match(axi.addr) = {} /\ ~read => bresp' = "DECERR"
         /\ state = "WRITE_RESP" /\ TakesB => bresp' = "OKAY"
         /\ state \in {"WRITE_DROP", "WAIT_IDLE"} => bresp' = bresp
<1>1. CASE IdleWaits
  BY <1>1 DEF IdleWaits
<1>2. CASE IdleAccepts
  BY <1>2 DEF IdleAccepts, Granted
<1>3. CASE DecodeMatch
  BY <1>3 DEF DecodeMatch
<1>4. CASE DecodeError
  BY <1>4 DEF DecodeError
<1>5. CASE Write
  BY <1>5 DEF Write, LastTaken
<1>6. CASE WriteResp
  BY <1>6 DEF WriteResp
<1>7. CASE WriteDrop
  BY <1>7 DEF WriteDrop
<1>8. CASE Read
  BY <1>8 DEF Read, LastTaken
<1>9. CASE ReadDrop
  BY <1>9 DEF ReadDrop
<1>10. CASE WaitIdle
  BY <1>10 DEF WaitIdle
<1>11. QED
  BY <1>1, <1>2, <1>3, <1>4, <1>5, <1>6, <1>7, <1>8, <1>9, <1>10 DEF Machine

(* A new grant is for a request that is still there on the next edge.       *)
LEMMA NewGrant ==
  ASSUME Wires, Kinds, MastersStep, state # "DECODE", grant' \in request
  PROVE  grant' \in Ports /\ granted' /\ Granted' # None
<1>1. PICK s \in Masters : \/ aw[s] # None /\ grant' = 2 * s
                           \/ ar[s] # None /\ grant' = 2 * s + 1
  BY DEF request
<1>2. ~ArTaken(s) /\ ~AwTaken(s)
  BY DEF Wires, Only, ArTaken, AwTaken
<1>3. ar[s] # None => ar'[s] = ar[s]
  BY <1>2, MasterStep
<1>4. aw[s] # None => aw'[s] = aw[s]
  BY <1>2, MasterStep
<1>5. grant' \in Ports /\ granted'
  BY <1>1, PortNumbers DEF granted, NoPort
<1>6. CASE aw[s] # None /\ grant' = 2 * s
  <2>1. ~read' /\ s_select' = s
    BY <1>5, <1>6, PortNumbers DEF read, s_select
  <2>2. Granted' = aw'[s]
    BY <2>1 DEF Granted
  <2>3. QED
    BY <1>4, <1>5, <1>6, <2>2
<1>7. CASE ar[s] # None /\ grant' = 2 * s + 1
  <2>1. read' /\ s_select' = s
    BY <1>5, <1>7, PortNumbers DEF read, s_select
  <2>2. Granted' = ar'[s]
    BY <2>1 DEF Granted
  <2>3. QED
    BY <1>3, <1>5, <1>7, <2>2
<1>8. QED
  BY <1>1, <1>6, <1>7

LEMMA GrantKept ==
  ASSUME grant' = grant
  PROVE  (granted' <=> granted) /\ (read' <=> read) /\ s_select' = s_select
  BY DEF granted, read, s_select

LEMMA GrantingStep ==
  ASSUME Granting, Wires, Kinds, ReadFlow, Arbiter, Machine, MastersStep
  PROVE  /\ Granting'
         /\ grant' # grant => state \in {"IDLE", "WAIT_IDLE"} /\ state' = "IDLE"
         /\ state \notin {"IDLE", "WAIT_IDLE"} => granted' /\ (read' <=> read) /\ s_select' = s_select
<1>1. CASE granted /\ ~acknowledge /\ grant' = grant
  <2>1. (granted' <=> granted) /\ (read' <=> read) /\ s_select' = s_select
    BY <1>1, GrantKept
  <2>2. state' # "IDLE" /\ (state' = "DECODE" <=> state = "IDLE")
    BY <1>1, RegisterStep
  <2>3. state' \in {"READ", "READ_DROP"} => read
    BY RegisterStep DEF Granting
  <2>4. state' \in {"WRITE", "WRITE_DROP", "WRITE_RESP"} => ~read
    BY RegisterStep DEF Granting
  <2>5. state = "IDLE" => Granted' = Granted /\ Granted # None /\ axi' = Granted
    <3>1. SUFFICES ASSUME state = "IDLE"
                   PROVE  Granted' = Granted /\ Granted # None /\ axi' = Granted
      OBVIOUS
    <3>2. s_select \in Masters /\ ~ArTaken(s_select) /\ ~AwTaken(s_select) /\ Granted # None
      BY <1>1, <3>1, Selected DEF Wires, Only, ArTaken, AwTaken, Granting
    <3>3. CASE read
      <4>1. ar'[s_select] = ar[s_select]
        BY <3>2, <3>3, MasterStep DEF Granted
      <4>2. QED
        BY <1>1, <2>1, <3>1, <3>2, <3>3, <4>1, RegisterStep DEF Granted
    <3>4. CASE ~read
      <4>1. aw'[s_select] = aw[s_select]
        BY <3>2, <3>4, MasterStep DEF Granted
      <4>2. QED
        BY <1>1, <2>1, <3>1, <3>2, <3>4, <4>1, RegisterStep DEF Granted
    <3>5. QED
      BY <3>3, <3>4
  <2>6. Granting'
    BY <1>1, <2>1, <2>2, <2>3, <2>4, <2>5 DEF Granting
  <2>7. QED
    BY <1>1, <2>1, <2>6
<1>2. CASE (~granted \/ acknowledge) /\ (grant' = NoPort \/ grant' \in request)
  <2>1. state \in {"IDLE", "WAIT_IDLE"}
    BY <1>2, AcknowledgeWaits DEF Granting
  <2>2. state' = "IDLE"
    BY <1>2, <2>1, RegisterStep, AcknowledgeWaits DEF Granting
  <2>3. CASE grant' = NoPort
    <3>1. ~granted'
      BY <2>3 DEF granted
    <3>2. QED
      BY <2>1, <2>2, <2>3, <3>1 DEF Granting
  <2>4. CASE grant' \in request
    <3>1. grant' \in Ports /\ granted' /\ Granted' # None
      BY <2>1, <2>4, NewGrant
    <3>2. QED
      BY <2>1, <2>2, <3>1 DEF Granting
  <2>5. QED
    BY <1>2, <2>3, <2>4
<1>3. QED
  BY <1>1, <1>2, ArbiterStep

(* The ready wire of a data path is the one that was announced.             *)
LEMMA PathsReady ==
  ASSUME IsSkid(r), IsSkid(w), DataPaths
  PROVE  IsSkid(r)' /\ IsSkid(w)' /\ (r'.ready <=> R_Early) /\ (w'.ready <=> W_Early)
<1>1. \A k, port, taken, in :
        IsSkid(k) => /\ IsSkid(SkidStep(k, port, taken, in))
                     /\ SkidStep(k, port, taken, in).ready <=> Early(k, port, taken, in)
  <2> SUFFICES ASSUME NEW k, IsSkid(k), NEW port, NEW taken, NEW in
               PROVE  /\ IsSkid(SkidStep(k, port, taken, in))
                      /\ SkidStep(k, port, taken, in).ready <=> Early(k, port, taken, in)
    OBVIOUS
  <2> DEFINE after == SkidStep(k, port, taken, in)
             early == Early(k, port, taken, in)
  <2>1. early \in BOOLEAN
    BY DEF Early
  <2> HIDE DEF after, early
  <2>2. \E v, b, t : after = [valid |-> v, beat |-> b, temp |-> t, ready |-> early]
    BY SkidCases DEF after, early
  <2>3. IsSkid(after) /\ (after.ready <=> early)
    BY <2>1, <2>2 DEF IsSkid
  <2>4. QED
    BY <2>3 DEF after, early
<1>2. /\ IsSkid(SkidStep(r, s_select, s_select \in rready, R_In))
      /\ SkidStep(r, s_select, s_select \in rready, R_In).ready <=> R_Early
  BY <1>1, Zenon DEF R_Early
<1>3. /\ IsSkid(SkidStep(w, m_select, m_select \in m_ready.w, W_In))
      /\ SkidStep(w, m_select, m_select \in m_ready.w, W_In).ready <=> W_Early
  BY <1>1, Zenon DEF W_Early
<1>4. /\ r' = SkidStep(r, s_select, s_select \in rready, R_In)
      /\ w' = SkidStep(w, m_select, m_select \in m_ready.w, W_In)
  BY DEF DataPaths
<1>5. IsSkid(r') /\ (r'.ready <=> R_Early)
  BY <1>2, <1>4, Zenon
<1>6. IsSkid(w') /\ (w'.ready <=> W_Early)
  BY <1>3, <1>4, Zenon
<1>7. QED
  BY <1>5, <1>6 DEF IsSkid

LEMMA WiresStep ==
  ASSUME IInv, Granting, Wires, Kinds, ReadFlow, Next
  PROVE  Wires'
<1>1. /\ grant' # grant => state \in {"IDLE", "WAIT_IDLE"} /\ state' = "IDLE"
      /\ state \notin {"IDLE", "WAIT_IDLE"} => granted' /\ (read' <=> read) /\ s_select' = s_select
  BY GrantingStep DEF Next
<1>2. state' # "IDLE" => (read' <=> read) /\ s_select' = s_select
  BY <1>1, GrantKept
<1>3. /\ state' = "DECODE" <=> state = "IDLE" /\ granted
      /\ state' \in {"WRITE", "WRITE_DROP"} /\ state \in {"IDLE", "DECODE"} =>
           state = "DECODE" /\ ~read
  BY RegisterStep DEF Next
<1>4. /\ out'.s_arready = Only(state' = "DECODE" /\ read', s_select')
      /\ out'.s_awready = Only(state' = "DECODE" /\ ~read', s_select')
  <2>1. /\ out'.s_arready = Only(state = "IDLE" /\ granted /\ read, s_select)
        /\ out'.s_awready = Only(state = "IDLE" /\ granted /\ ~read, s_select)
    BY MasterWires DEF Next
  <2>2. QED
    BY <1>2, <1>3, <2>1 DEF Only
<1>5. out'.s_bvalid = Only(state' = "WAIT_IDLE" /\ ~read', s_select')
  <2>1. out'.s_bvalid = (out.s_bvalid \ bready)
              \cup Only((state = "WRITE_RESP" /\ TakesB) \/ (state = "WRITE_DROP" /\ TakesW),
                        s_select)
    BY MasterWires DEF Next
  <2>2. out.s_bvalid = Only(state = "WAIT_IDLE" /\ ~read, s_select)
    BY DEF Wires
  <2>3. CASE state # "WAIT_IDLE"
    <3>1. state' = "WAIT_IDLE" /\ ~read <=>
            (state = "WRITE_RESP" /\ TakesB) \/ (state = "WRITE_DROP" /\ TakesW)
      BY <2>3, RegisterStep DEF Next, Granting
    <3>2. QED
      BY <1>2, <2>1, <2>2, <2>3, <3>1 DEF Only
  <2>4. CASE state = "WAIT_IDLE"
    <3>1. granted /\ state' = IF acknowledge THEN "IDLE" ELSE "WAIT_IDLE"
      BY <2>4, RegisterStep DEF Next, Granting
    <3>2. CASE read
      BY <1>2, <2>1, <2>2, <2>4, <3>1, <3>2 DEF Only
    <3>3. CASE ~read
      <4>1. acknowledge <=> s_select \in bready
        BY <2>2, <2>4, <3>1, <3>3 DEF acknowledge, Only
      <4>2. QED
        BY <1>2, <2>1, <2>2, <2>4, <3>1, <3>3, <4>1 DEF Only
    <3>4. QED
      BY <3>2, <3>3
  <2>5. QED
    BY <2>3, <2>4
<1>6. /\ out'.s_wready \subseteq Only(state' \in {"WRITE", "WRITE_DROP"}, s_select')
      /\ state' = "WRITE" /\ out'.s_wready # {} => w'.ready
      /\ state' = "READ" /\ out'.m_rready # {} => r'.ready
  <2>1. /\ out'.s_wready =
              Only(\/ state = "DECODE" /\ ~read /\ (Match(axi.addr) # {} => W_Early)
                   \/ state = "WRITE" /\ W_Early /\ ~LastTaken
                   \/ state = "WRITE_DROP" /\ ~TakesW, s_select)
        /\ out'.m_rready =
              Only(\/ state = "DECODE" /\ read /\ Match(axi.addr) # {} /\ R_Early
                   \/ state = "READ" /\ R_Early /\ ~LastTaken, m_select)
    BY MasterWires DEF Next
  <2>2. (r'.ready <=> R_Early) /\ (w'.ready <=> W_Early)
    BY PathsReady DEF Next, Kinds, IInv, Shapes
  <2>3. out'.s_wready # {} => /\ state \in {"DECODE", "WRITE", "WRITE_DROP"}
                              /\ out'.s_wready = {s_select}
                              /\ state' \in {"WRITE", "WRITE_DROP"}
                              /\ state' = "WRITE" => W_Early
    BY <2>1, RegisterStep DEF Next, Only
  <2>4. out'.m_rready # {} => R_Early
    BY <2>1 DEF Only
  <2>5. QED
    BY <1>1, <2>2, <2>3, <2>4 DEF Only
<1>7. rready' \subseteq r'.valid /\ bready' \subseteq out'.s_bvalid /\ m_ready'.w \subseteq w'.valid
  BY ReadyStep DEF Next
<1>8. QED
  BY <1>4, <1>5, <1>6, <1>7 DEF Wires
-----------------------------------------------------------------------------
(* The order of the beats of a read.                                        *)
LEMMA DecodeTarget ==
  ASSUME Kinds, Machine, state = "DECODE"
  PROVE  /\ Match(axi.addr) # {} => /\ m_select' = Target(axi.addr)
                                    /\ Target(axi.addr) \in Slaves
         /\ Match(axi.addr) = {} => m_select' = m_select /\ Target(axi.addr) = M_COUNT
<1>1. axi.addr \in Address
  BY DEF Kinds
<1>2. CASE Match(axi.addr) # {}
  <2>1. Target(axi.addr) \in Slaves /\ Match(axi.addr) = {Target(axi.addr)}
    BY <1>1, <1>2, MatchIsTarget
  <2>2. \A t \in Slaves : t <= t
    BY SlaveNumbers
  <2>3. m_select' = CHOOSE m \in Match(axi.addr) : \A n \in Match(axi.addr) : n <= m
    BY <1>2, RegisterStep
  <2>4. m_select' = Target(axi.addr)
    BY <2>1, <2>2, <2>3
  <2>5. QED
    BY <1>2, <2>1, <2>4
<1>3. CASE Match(axi.addr) = {}
  BY <1>1, <1>3, MatchIsTarget, RegisterStep
<1>4. QED
  BY <1>2, <1>3

LEMMA Targets ==
  \A req \in Request : Target(req.addr) # M_COUNT <=> Target(req.addr) \in Slaves
<1>1. \A req \in Request : req.addr \in Address
  BY DEF Request
<1>2. QED
  BY <1>1, MatchedOrNot

LEMMA ReadingNow ==
  ASSUME Granting, Kinds, ReadFlow, IsReading
  PROVE  \E req \in Request, n \in Nat :
           /\ s_select \in Masters /\ granted /\ req.len \in Nat
           /\ reading[s_select] = [req |-> req, n |-> n] /\ ReadAt(req, n)
<1>1. granted /\ s_select \in Masters
  BY Selected DEF IsReading, read
<1>2. reading[s_select] \in [req : Request, n : Nat]
  BY <1>1 DEF ReadFlow, Kinds
<1>3. PICK req \in Request, n \in Nat : reading[s_select] = [req |-> req, n |-> n]
  BY <1>2
<1>4. ReadAt(req, n)
  BY <1>3 DEF ReadFlow
<1>5. req.len \in Nat
  BY InterconnectAssumption DEF Request
<1>6. QED
  BY <1>1, <1>3, <1>4, <1>5

(* What the read data path does in a step, when a beat enters in its turn.  *)
LEMMA ReadPath ==
  ASSUME Wires, IsSkid(r), DataPaths, NEW req, NEW n \in Nat,
         Holds(r, s_select, ReadBeats(req), n),
         R_In # None /\ r.ready => R_In = ReadBeats(req)[n + Count(r)]
  PROVE  LET now == IF s_select \in rready THEN n + 1 ELSE n
         IN  /\ Holds(r', s_select, ReadBeats(req), now)
             /\ now + Count(r') = n + Count(r) + (IF R_In # None /\ r.ready THEN 1 ELSE 0)
<1> DEFINE beats == ReadBeats(req)
           taken == s_select \in rready
           after == SkidStep(r, s_select, taken, R_In)
           now   == IF taken THEN n + 1 ELSE n
           more  == IF R_In # None /\ r.ready THEN 1 ELSE 0
<1>1. beats[n] # None /\ beats[n + 1] # None
  BY ReadBeatIs
<1>2. taken => r.valid # {}
  BY DEF Wires
<1>3. r' = after
  BY DEF DataPaths
<1>4. taken \in BOOLEAN
  OBVIOUS
<1> HIDE DEF beats, taken
<1>5. R_In # None /\ r.ready => R_In = beats[n + Count(r)]
  BY DEF beats
<1>6. Holds(r, s_select, beats, n)
  BY DEF beats
<1>7. /\ Holds(after, s_select, beats, now)
      /\ now + Count(after) = n + Count(r) + more
  BY <1>1, <1>2, <1>4, <1>5, <1>6, HoldsStep
<1> HIDE DEF after, now, more
<1>8. Holds(r', s_select, beats, now) /\ now + Count(r') = n + Count(r) + more
  BY <1>3, <1>7
<1>9. QED
  BY <1>8 DEF beats, taken, now, more

(* What the master that reads has, after a step.                            *)
LEMMA ReadingSteps ==
  ASSUME Granting, Wires, Kinds, ReadFlow, MastersStep, NEW s \in Masters
  PROVE  /\ state = "DECODE" /\ read /\ s = s_select => reading'[s] = [req |-> axi, n |-> 0]
         /\ IsReading /\ s = s_select =>
              reading'[s] = IF s_select \notin rready THEN reading[s]
                            ELSE IF reading[s].n = reading[s].req.len THEN None
                            ELSE [reading[s] EXCEPT !.n = @ + 1]
         /\ ~(s = s_select /\ (IsReading \/ (state = "DECODE" /\ read))) =>
              reading'[s] = reading[s]
<1>1. ArTaken(s) <=> state = "DECODE" /\ read /\ s = s_select
  BY DEF ArTaken, Wires, Only, Granting, Granted, read
<1>2. RTaken(s) <=> IsReading /\ s = s_select /\ s_select \in rready
  BY DEF RTaken, Wires, ReadFlow, ReadAt, Holds
<1>3. reading'[s] = ReadingStep(s)
  BY MasterStep
<1>4. state = "DECODE" /\ read => axi = ar[s_select]
  BY DEF Granting, Granted
<1>5. state = "DECODE" => ~IsReading
  BY DEF IsReading
<1>6. QED
  BY <1>1, <1>2, <1>3, <1>4, <1>5 DEF ReadingStep

(* Outside of a read.                                                       *)
LEMMA QuietRead ==
  ASSUME Granting, Wires, Kinds, ReadFlow, Arbiter, Machine, MastersStep, DataPaths,
         ~IsReading
  PROVE  /\ r'.valid = {} /\ r'.temp = None
         /\ ~(state = "DECODE" /\ read) => ReadFlow'
<1>1. R_In = None
  BY DEF R_In, TakesR, IsReading, Granting
<1>2. r.valid = {} /\ r.temp = None
  BY DEF ReadFlow
<1>3. r' = SkidStep(r, s_select, s_select \in rready, R_In)
  BY DEF DataPaths
<1>4. r'.valid = {} /\ r'.temp = None
  <2> DEFINE taken == s_select \in rready
             early == Early(r, s_select, taken, R_In)
  <2>1. r' = SkidStep(r, s_select, taken, R_In)
    BY <1>3
  <2>2. IsSkid(r)
    BY DEF Kinds
  <2> HIDE DEF taken
  <2>3. LET next == SkidStep(r, s_select, taken, R_In) IN next.valid = {} /\ next.temp = None
    BY <1>1, <1>2, <2>2, SkidCases
  <2>4. QED
    BY <2>1, <2>3
<1>5. ASSUME ~(state = "DECODE" /\ read) PROVE ReadFlow'
  <2>1. \A s \in Masters : reading'[s] = reading[s]
    BY <1>5, ReadingSteps
  <2>2. \A s \in Masters : reading[s] = None
    BY DEF ReadFlow
  <2>3. ~IsReading'
    <3>1. state' # "IDLE" => (read' <=> read)
      BY GrantingStep, GrantKept
    <3>2. state' \in {"READ", "READ_DROP", "WAIT_IDLE"} => ~read
      BY <1>5, RegisterStep DEF Granting, IsReading
    <3>3. QED
      BY <3>1, <3>2 DEF IsReading
  <2>4. QED
    BY <1>4, <2>1, <2>2, <2>3 DEF ReadFlow
<1>6. QED
  BY <1>4, <1>5

(* A read begins.                                                           *)
LEMMA ReadBegins ==
  ASSUME Granting, Wires, Kinds, ReadFlow, Arbiter, Machine, MastersStep, DataPaths,
         state = "DECODE", read
  PROVE  ReadFlow' /\ s_select \in Masters /\ reading'[s_select] = [req |-> axi, n |-> 0]
         /\ Count(r') = 0
<1>1. ~IsReading
  BY DEF IsReading
<1>2. r'.valid = {} /\ r'.temp = None
  BY <1>1, QuietRead
<1>3. read' /\ s_select' = s_select /\ granted
  BY GrantingStep DEF read
<1>4. s_select \in Masters
  BY <1>3, Selected
<1>5. \A s \in Masters : reading'[s] = IF s = s_select THEN [req |-> axi, n |-> 0] ELSE None
  BY <1>1, ReadingSteps DEF ReadFlow
<1>6. axi' = axi
  BY RegisterStep
<1>7. axi \in Request /\ axi.len \in Nat
  BY <1>4, InterconnectAssumption DEF Granting, Granted, Kinds, Request
<1>8. IsReading'
  BY <1>3, RegisterStep DEF IsReading
<1>9. Count(r') = 0
  BY <1>2 DEF Count
<1>10. ReadAt(axi, 0)'
  <2>1. Holds(r', s_select', ReadBeats(axi'), 0)
    BY <1>2 DEF Holds
  <2>2. /\ state' = "READ" => m_select' = Target(axi.addr)
        /\ state' = "READ_DROP" => Target(axi.addr) = M_COUNT
        /\ state' # "WAIT_IDLE"
    BY RegisterStep, DecodeTarget
  <2>3. QED
    BY <1>6, <1>7, <1>9, <2>1, <2>2 DEF ReadAt
<1>11. reading'[s_select].req = axi /\ reading'[s_select].n = 0
  BY <1>4, <1>5
<1>12. \A s \in Masters : reading'[s] # None <=> s = s_select
  BY <1>5, NoneIsNone, <1>7
<1>13. ReadFlow'
  BY <1>3, <1>6, <1>8, <1>10, <1>11, <1>12 DEF ReadFlow
<1>14. QED
  BY <1>4, <1>5, <1>9, <1>13

(* A read goes on.                                                          *)
LEMMA ReadContinues ==
  ASSUME Granting, Wires, Kinds, ReadFlow, MastersStep, IsReading, IsReading', s_select' = s_select,
         NEW req \in Request, NEW now \in Nat, s_select \in Masters,
         reading'[s_select] = [req |-> req, n |-> now], ReadAt(req, now)'
  PROVE  ReadFlow'
<1>1. \A s \in Masters : s # s_select => reading'[s] = None
  BY ReadingSteps DEF ReadFlow
<1>2. reading'[s_select] # None
  BY NoneIsNone
<1>3. reading'[s_select].req = req /\ reading'[s_select].n = now
  OBVIOUS
<1>4. QED
  BY <1>1, <1>2, <1>3 DEF ReadFlow

(* The beat a slave offers is the one that is due.                          *)
LEMMA BeatOffered ==
  ASSUME IInv, Granting, Wires, Kinds, ReadFlow, SlaveFlow, state = "READ",
         NEW req \in Request, NEW n \in Nat, ReadAt(req, n),
         reading[s_select] = [req |-> req, n |-> n], TakesR
  PROVE  /\ r.ready /\ R_In = ReadBeats(req)[n + Count(r)] /\ R_In # None
         /\ LastTaken <=> n + Count(r) = req.len
<1>1. m_select \in Slaves /\ serving[m_select].ar /\ r.ready
  BY DEF TakesR, IInv, OffersHeld, Wires
<1>2. axi = req /\ m_select = Target(req.addr)
  BY DEF ReadAt
<1>3. /\ serving[m_select].n = n + Count(r)
      /\ serving[m_select].addr = req.addr /\ serving[m_select].len = req.len
  BY <1>1, <1>2 DEF SlaveFlow
<1> DEFINE e == n + Count(r)
<1>4. e \in Nat
  BY DEF Count
<1> HIDE DEF e
<1>5. M_Beat(m_select) = Beat(m_select, req.addr, e, e = req.len, req.id)
  BY <1>2, <1>3, Zenon DEF M_Beat, e
<1>6. Target(req.addr) # M_COUNT
  BY <1>1, <1>2, Targets
<1>7. ReadBeats(req)[e] = M_Beat(m_select)
  BY <1>2, <1>4, <1>5, <1>6, Zenon DEF ReadBeats
<1>8. R_In = M_Beat(m_select)
  BY DEF R_In
<1>9. LastTaken <=> ReadBeats(req)[e].last
  BY <1>7 DEF LastTaken
<1>10. QED
  BY <1>1, <1>4, <1>7, <1>8, <1>9, ReadBeatIs DEF e

LEMMA ReadGoes ==
  ASSUME IInv, Granting, Wires, Kinds, ReadFlow, SlaveFlow, Next, state = "READ"
  PROVE  /\ ReadFlow'
         /\ reading'[s_select].n + Count(r') =
              reading[s_select].n + Count(r) + (IF TakesR THEN 1 ELSE 0)
<1>1. IsReading /\ read' /\ s_select' = s_select
  BY GrantingStep DEF Next, Granting, IsReading
<1>2. PICK req \in Request, n \in Nat :
           /\ s_select \in Masters /\ req.len \in Nat
           /\ reading[s_select] = [req |-> req, n |-> n] /\ ReadAt(req, n)
  BY <1>1, ReadingNow
<1>3. PICK now \in Nat : now = IF s_select \in rready THEN n + 1 ELSE n
  OBVIOUS
<1> DEFINE gone == IF TakesR THEN 1 ELSE 0
<1>4. /\ R_In # None <=> TakesR
      /\ TakesR => r.ready /\ R_In = ReadBeats(req)[n + Count(r)]
                   /\ (LastTaken <=> n + Count(r) = req.len)
  BY <1>2, BeatOffered DEF R_In
<1>5. Holds(r, s_select, ReadBeats(req), n) /\ axi = req /\ m_select = Target(req.addr)
      /\ n + Count(r) <= req.len
  BY <1>2 DEF ReadAt
<1>6. now + Count(r') = n + Count(r) + gone
  BY <1>3, <1>4, <1>5, ReadPath DEF Next, Kinds
<1>7. Holds(r', s_select, ReadBeats(req), now)
  BY <1>3, <1>4, <1>5, ReadPath DEF Next, Kinds
<1>8. s_select \in rready => n # req.len
  BY <1>5, <1>2 DEF Wires, Count
<1>9. reading'[s_select] = [req |-> req, n |-> now]
  <2>1. reading'[s_select] = IF s_select \notin rready THEN reading[s_select]
                            ELSE IF reading[s_select].n = reading[s_select].req.len THEN None
                            ELSE [reading[s_select] EXCEPT !.n = @ + 1]
    BY <1>1, <1>2, ReadingSteps DEF Next
  <2>2. QED
    BY <1>2, <1>3, <1>8, <2>1
<1>10. axi' = axi /\ m_select' = m_select
      /\ state' = IF LastTaken THEN "WAIT_IDLE" ELSE "READ"
  BY RegisterStep DEF Next
<1>11. LastTaken => TakesR
  BY DEF LastTaken
<1>12. Count(r) \in Nat /\ Count(r') \in Nat
  BY DEF Count
<1> HIDE DEF gone
<1>13. ReadAt(req, now)'
  <2>1. state' = "READ" => now + Count(r') <= req.len
    <3>1. state' = "READ" => ~LastTaken
      BY <1>10
    <3>2. CASE TakesR
      <4>1. gone = 1 /\ (~LastTaken => n + Count(r) # req.len)
        BY <1>4, <3>2 DEF gone
      <4>2. QED
        BY <1>2, <1>5, <1>6, <1>12, <3>1, <4>1
    <3>3. CASE ~TakesR
      <4>1. gone = 0
        BY <3>3 DEF gone
      <4>2. QED
        BY <1>2, <1>5, <1>6, <1>12, <4>1
    <3>4. QED
      BY <3>2, <3>3
  <2>2. state' = "WAIT_IDLE" => now + Count(r') = req.len + 1
    BY <1>2, <1>4, <1>6, <1>10, <1>11, <1>12 DEF gone
  <2>3. state' # "READ_DROP"
    BY <1>10
  <2>4. (Holds(r, s_select, ReadBeats(req), now))'
    BY <1>1, <1>7 DEF Holds
  <2>5. axi' = req /\ m_select' = Target(req.addr)
    BY <1>5, <1>10
  <2>6. QED
    BY <2>1, <2>2, <2>3, <2>4, <2>5 DEF ReadAt
<1>14. IsReading'
  BY <1>1, <1>10 DEF IsReading
<1>15. ReadFlow'
  BY <1>1, <1>2, <1>9, <1>12, <1>13, <1>14, ReadContinues DEF Next
<1>16. reading'[s_select].n = now /\ reading[s_select].n = n
  BY <1>2, <1>9
<1>17. QED
  BY <1>6, <1>15, <1>16 DEF gone

(* A read of no slave goes on, and a read ends.                             *)
LEMMA DropGoes ==
  ASSUME Granting, Wires, Kinds, ReadFlow, Next, state = "READ_DROP"
  PROVE  ReadFlow'
<1>1. IsReading /\ read' /\ s_select' = s_select
  BY GrantingStep DEF Next, Granting, IsReading
<1>2. PICK req \in Request, n \in Nat :
           /\ s_select \in Masters /\ req.len \in Nat
           /\ reading[s_select] = [req |-> req, n |-> n] /\ ReadAt(req, n)
  BY <1>1, ReadingNow
<1>3. PICK now \in Nat : now = IF s_select \in rready THEN n + 1 ELSE n
  OBVIOUS
<1>4. /\ Holds(r, s_select, ReadBeats(req), n) /\ Target(req.addr) = M_COUNT
      /\ axi.addr = req.addr /\ axi.id = req.id /\ n + Count(r) + axi.len = req.len
  BY <1>2 DEF ReadAt
<1>5. Count(r) \in Nat /\ Count(r') \in Nat /\ axi.len \in Nat
  BY DEF Count, Kinds
<1> DEFINE gone == IF r.ready THEN 1 ELSE 0
<1>6. R_In # None /\ R_In = ReadBeats(req)[n + Count(r)]
  <2> DEFINE e == n + Count(r)
             last == axi.len = 0
  <2>1. e \in Nat /\ (last <=> e = req.len)
    BY <1>2, <1>4, <1>5
  <2>2. last = (e = req.len)
    BY <2>1
  <2>3. R_In = Beat(M_COUNT, axi.addr, 0, last, axi.id)
    BY DEF R_In, TakesR
  <2> HIDE DEF e, last
  <2>4. ReadBeats(req)[e] = Beat(M_COUNT, req.addr, 0, e = req.len, req.id)
    BY <1>4, <2>1, Zenon DEF ReadBeats
  <2>5. R_In = ReadBeats(req)[e]
    BY <1>4, <2>2, <2>3, <2>4, Zenon
  <2>6. QED
    BY <2>1, <2>5, ReadBeatIs DEF e
<1>7. /\ Holds(r', s_select, ReadBeats(req), now)
      /\ now + Count(r') = n + Count(r) + gone
  BY <1>3, <1>4, <1>6, ReadPath DEF Next, Kinds
<1>8. s_select \in rready => n # req.len
  BY <1>2, <1>4, <1>5 DEF Wires, Count
<1>9. reading'[s_select] = [req |-> req, n |-> now]
  <2>1. reading'[s_select] = IF s_select \notin rready THEN reading[s_select]
                            ELSE IF reading[s_select].n = reading[s_select].req.len THEN None
                            ELSE [reading[s_select] EXCEPT !.n = @ + 1]
    BY <1>1, <1>2, ReadingSteps DEF Next
  <2>2. QED
    BY <1>2, <1>3, <1>8, <2>1
<1>10. /\ state' = IF r.ready /\ axi.len = 0 THEN "WAIT_IDLE" ELSE "READ_DROP"
       /\ axi' = IF r.ready THEN [axi EXCEPT !.len = CountDown(@)] ELSE axi
  BY RegisterStep DEF Next
<1>11. axi.len # 0 => CountDown(axi.len) = axi.len - 1
  <2>1. axi.len <= req.len /\ req.len <= 2 ^ LEN_WIDTH - 1
    BY <1>2, <1>4, <1>5 DEF Request
  <2>2. 2 ^ LEN_WIDTH \in Nat \ {0}
    BY InterconnectAssumption
  <2> DEFINE size == 2 ^ LEN_WIDTH
  <2> HIDE DEF size
  <2>3. \A k \in 0 .. size - 1 : k % size = k
    BY <2>2 DEF size
  <2>4. axi.len # 0 => axi.len - 1 \in 0 .. size - 1
    BY <1>2, <1>5, <2>1, <2>2 DEF size
  <2>5. QED
    BY <2>3, <2>4, Zenon DEF CountDown, size
<1>12. ReadAt(req, now)'
  <2>1. (Holds(r, s_select, ReadBeats(req), now))'
    BY <1>1, <1>7 DEF Holds
  <2>2. state' = "WAIT_IDLE" => now + Count(r') = req.len + 1
    BY <1>2, <1>4, <1>5, <1>7, <1>10
  <2>3. state' = "READ_DROP" => /\ axi'.addr = req.addr /\ axi'.id = req.id
                                /\ now + Count(r') + axi'.len = req.len
    <3>1. CASE r.ready
      <4>1. SUFFICES ASSUME state' = "READ_DROP"
                     PROVE  /\ axi'.addr = req.addr /\ axi'.id = req.id
                            /\ now + Count(r') + axi'.len = req.len
        OBVIOUS
      <4>2. axi.len # 0 /\ axi' = [axi EXCEPT !.len = axi.len - 1]
        BY <1>10, <1>11, <3>1, <4>1
      <4>3. axi \in [id : Nat, addr : Address, len : Nat]
        BY DEF Kinds
      <4>4. axi'.addr = req.addr /\ axi'.id = req.id /\ axi'.len = axi.len - 1
        BY <1>4, <4>2, <4>3
      <4>5. gone = 1
        BY <3>1
      <4> HIDE DEF gone
      <4>6. QED
        BY <1>2, <1>4, <1>5, <1>7, <4>4, <4>5
    <3>2. CASE ~r.ready
      <4>1. axi' = axi /\ gone = 0
        BY <1>10, <3>2
      <4> HIDE DEF gone
      <4>2. QED
        BY <1>2, <1>4, <1>5, <1>7, <4>1
    <3>3. QED
      BY <3>1, <3>2
  <2>4. state' # "READ"
    BY <1>10
  <2>5. QED
    BY <1>4, <2>1, <2>2, <2>3, <2>4 DEF ReadAt
<1>13. IsReading'
  BY <1>1, <1>10 DEF IsReading
<1>14. QED
  BY <1>1, <1>2, <1>9, <1>12, <1>13, ReadContinues DEF Next

LEMMA ReadEnds ==
  ASSUME Granting, Wires, Kinds, ReadFlow, Next, state = "WAIT_IDLE", read
  PROVE  ReadFlow'
<1>1. IsReading
  BY DEF IsReading
<1>2. PICK req \in Request, n \in Nat :
           /\ s_select \in Masters /\ granted /\ req.len \in Nat
           /\ reading[s_select] = [req |-> req, n |-> n] /\ ReadAt(req, n)
  BY <1>1, ReadingNow
<1>3. PICK now \in Nat : now = IF s_select \in rready THEN n + 1 ELSE n
  OBVIOUS
<1>4. Holds(r, s_select, ReadBeats(req), n) /\ n + Count(r) = req.len + 1
  BY <1>2 DEF ReadAt
<1>5. Count(r) \in Nat /\ Count(r') \in Nat
  BY DEF Count
<1>6. R_In = None
  BY DEF R_In, TakesR
<1>7. /\ Holds(r', s_select, ReadBeats(req), now)
      /\ now + Count(r') = req.len + 1
  BY <1>2, <1>3, <1>4, <1>5, <1>6, ReadPath DEF Next, Kinds
<1>8. acknowledge <=> s_select \in rready /\ n = req.len
  <2>1. s_select \in rready => s_select \in r.valid /\ r.beat = ReadBeats(req)[n]
    BY <1>4 DEF Wires, Holds
  <2>2. s_select \in rready => (r.beat.last <=> n = req.len)
    BY <2>1, ReadBeatIs, Zenon
  <2>3. QED
    BY <1>2, <2>1, <2>2 DEF acknowledge
<1>9. reading'[s_select] = IF s_select \notin rready THEN reading[s_select]
                            ELSE IF reading[s_select].n = reading[s_select].req.len THEN None
                            ELSE [reading[s_select] EXCEPT !.n = @ + 1]
  BY <1>1, <1>2, ReadingSteps DEF Next
<1>10. state' = IF acknowledge THEN "IDLE" ELSE "WAIT_IDLE"
  BY <1>2, RegisterStep DEF Next
<1>11. CASE acknowledge
  <2>1. reading'[s_select] = None
    BY <1>2, <1>8, <1>9, <1>11
  <2>2. Count(r') = 0
    BY <1>2, <1>3, <1>5, <1>7, <1>8, <1>11
  <2>3. r'.valid = {} /\ r'.temp = None
    BY <2>2 DEF Count
  <2>4. \A s \in Masters : reading'[s] = None
    BY <1>1, <2>1, ReadingSteps DEF Next, ReadFlow
  <2>5. ~IsReading'
    BY <1>10, <1>11 DEF IsReading
  <2>6. QED
    BY <2>3, <2>4, <2>5 DEF ReadFlow
<1>12. CASE ~acknowledge
  <2>1. state' = "WAIT_IDLE" /\ (read' <=> read) /\ s_select' = s_select
    BY <1>10, <1>12, GrantingStep, GrantKept DEF Next
  <2>2. reading'[s_select] = [req |-> req, n |-> now]
    BY <1>2, <1>3, <1>8, <1>9, <1>12
  <2>3. (Holds(r, s_select, ReadBeats(req), now))'
    BY <1>7, <2>1 DEF Holds
  <2>4. ReadAt(req, now)'
    BY <1>7, <2>1, <2>3 DEF ReadAt
  <2>5. IsReading'
    BY <2>1 DEF IsReading
  <2>6. QED
    BY <1>1, <1>2, <2>1, <2>2, <2>4, <2>5, ReadContinues DEF Next
<1>13. QED
  BY <1>11, <1>12

LEMMA ReadFlowStep ==
  ASSUME IInv, Granting, Wires, Kinds, ReadFlow, SlaveFlow, Next
  PROVE  ReadFlow'
<1>1. CASE state = "DECODE" /\ read
  BY <1>1, ReadBegins DEF Next
<1>2. CASE state = "READ"
  BY <1>2, ReadGoes
<1>3. CASE state = "READ_DROP"
  BY <1>3, DropGoes
<1>4. CASE state = "WAIT_IDLE" /\ read
  BY <1>4, ReadEnds
<1>5. CASE ~IsReading /\ ~(state = "DECODE" /\ read)
  BY <1>5, QuietRead DEF Next
<1>6. QED
  BY <1>1, <1>2, <1>3, <1>4, <1>5 DEF IsReading

(* The slave that is read gives its beats one by one.                       *)
LEMMA SlaveCounts ==
  ASSUME SlavesStep, NEW m \in Slaves
  PROVE  LET given == m \in out.m_rready \cap m_rvalid
             asked == m \in out.m_arvalid \cap m_ready.ar
             job   == serving[m]
         IN  /\ serving'[m].n = IF given THEN (IF job.n = job.len THEN 0 ELSE job.n + 1) ELSE job.n
             /\ serving'[m].addr = IF asked THEN axi.addr ELSE job.addr
             /\ serving'[m].len = IF asked THEN axi.len ELSE job.len
<1>1. serving'[m] = Serve(m)
  BY DEF SlavesStep
<1>2. QED
  BY <1>1 DEF Serve

LEMMA SlaveFlowStep ==
  ASSUME IInv, Granting, Wires, Kinds, ReadFlow, SlaveFlow, Next
  PROVE  SlaveFlow'
<1> SUFFICES ASSUME NEW m \in Slaves
             PROVE  /\ serving'[m].n \in Nat
                    /\ ~serving'[m].ar => serving'[m].n = 0
                    /\ state' = "READ" /\ m = m_select' =>
                         /\ serving'[m].n = reading'[s_select'].n + Count(r')
                         /\ serving'[m].ar => /\ serving'[m].addr = axi'.addr
                                              /\ serving'[m].len = axi'.len
  BY DEF SlaveFlow, Count
<1> DEFINE given == m \in out.m_rready \cap m_rvalid
           asked == m \in out.m_arvalid \cap m_ready.ar
           job   == serving[m]
<1>1. /\ serving'[m].n = IF given THEN (IF job.n = job.len THEN 0 ELSE job.n + 1) ELSE job.n
      /\ serving'[m].addr = IF asked THEN axi.addr ELSE job.addr
      /\ serving'[m].len = IF asked THEN axi.len ELSE job.len
      /\ serving'[m].ar <=> asked \/ (job.ar /\ ~(given /\ job.n = job.len))
  BY SlaveCounts, SlaveStep DEF Next
<1>2. job.n \in Nat /\ (~job.ar => job.n = 0) /\ (given => job.ar)
  BY DEF SlaveFlow, IInv, OffersHeld
<1> HIDE DEF given, asked, job
<1>3. serving'[m].n \in Nat /\ (~serving'[m].ar => serving'[m].n = 0)
  BY <1>1, <1>2
<1>4. ASSUME state' = "READ", m = m_select'
      PROVE  /\ serving'[m].n = reading'[s_select'].n + Count(r')
             /\ serving'[m].ar => serving'[m].addr = axi'.addr /\ serving'[m].len = axi'.len
  <2>1. state \in {"DECODE", "READ"} /\ axi' = axi /\ s_select' = s_select
    BY <1>4, RegisterStep, GrantingStep DEF Next
  <2>2. CASE state = "DECODE"
    <3>1. read
      BY <1>4, <2>2, RegisterStep DEF Next
    <3>2. reading'[s_select].n = 0 /\ Count(r') = 0
      BY <2>2, <3>1, ReadBegins DEF Next
    <3>3. ~job.ar /\ ~asked
      BY <2>2 DEF IInv, BusyInState, ReadIn, NothingOutside, job, asked
    <3>4. QED
      BY <1>1, <1>2, <2>1, <3>2, <3>3
  <2>3. CASE state = "READ"
    <3>1. m_select' = m_select /\ ~LastTaken
      BY <1>4, <2>3, RegisterStep DEF Next
    <3>2. given <=> TakesR
      BY <1>4, <2>3, <3>1 DEF given, TakesR
    <3>3. TakesR => job.n # job.len
      BY <1>4, <2>3, <3>1 DEF LastTaken, M_Beat, Beat, job
    <3>4. job.n = reading[s_select].n + Count(r)
          /\ (job.ar => job.addr = axi.addr /\ job.len = axi.len)
      BY <1>4, <2>3, <3>1 DEF SlaveFlow, job
    <3>5. reading'[s_select].n + Count(r') =
            reading[s_select].n + Count(r) + (IF TakesR THEN 1 ELSE 0)
      BY <2>3, ReadGoes
    <3>6. serving'[m].n = reading'[s_select'].n + Count(r')
      BY <1>1, <1>2, <2>1, <3>2, <3>3, <3>4, <3>5
    <3>7. QED
      BY <1>1, <2>1, <3>4, <3>6
  <2>4. QED
    BY <2>1, <2>2, <2>3
<1>5. QED
  BY <1>3, <1>4
-----------------------------------------------------------------------------
(* The order of the beats of a write.                                       *)
LEMMA NextBeatIs ==
  ASSUME NEW s, NEW served \in BOOLEAN, NEW burst, served => burst \in Bursts,
         NEW next \in Request \cup {None}
  PROVE  LET q   == OpenWrites(served, burst, next)
             due == DueBeat(s, served, burst, next)
         IN  /\ Unsent(q) # {} <=> due # None
             /\ Unsent(q) # {} => NextBeat(s, q) = due
             /\ served /\ burst.sent <= burst.req.len => Lowest(Unsent(q)) = 1
<1> DEFINE q   == OpenWrites(served, burst, next)
           due == DueBeat(s, served, burst, next)
           first == Lowest(Unsent(q))
<1>1. next # None => next.len \in Nat /\ Offer(next).sent = 0 /\ Offer(next).req = next
                     /\ Offer(next).sent <= Offer(next).req.len
  BY InterconnectAssumption DEF Request, Offer
<1>2. served => burst.sent \in Nat /\ burst.req.len \in Nat
  BY InterconnectAssumption DEF Request, Bursts
<1>3. Unsent(q) \in SUBSET Nat
  <2>1. q \in {<<>>, <<burst>>, <<Offer(next)>>, <<burst, Offer(next)>>}
    BY DEF OpenWrites, WithOffer, OnlyOffer
  <2>2. DOMAIN q \subseteq {1, 2}
    BY <2>1
  <2>3. QED
    BY <2>2 DEF Unsent
<1>4. CASE served /\ burst.sent <= burst.req.len
  <2>1. 1 \in DOMAIN q /\ q[1] = burst
    BY <1>4 DEF OpenWrites, WithOffer, OnlyOffer
  <2>2. 1 \in Unsent(q)
    BY <1>4, <2>1 DEF Unsent
  <2>3. \A i \in Unsent(q) : 1 <= i
    BY <1>4 DEF Unsent, OpenWrites, WithOffer, OnlyOffer
  <2>4. first = 1
    BY <1>3, <2>2, <2>3, LowestIsIn
  <2>5. due = WriteBeats(s, burst.req)[burst.sent]
    BY <1>4 DEF DueBeat
  <2>6. WriteBeats(s, burst.req)[burst.sent] =
          Beat(s, burst.req.addr, burst.sent, burst.sent = burst.req.len, burst.req.id)
    BY <1>2, <1>4, Zenon DEF WriteBeats
  <2>7. q[first].req = burst.req /\ q[first].sent = burst.sent
    BY <2>1, <2>4
  <2>8. NextBeat(s, q) = due
    <3> DEFINE job == q[first]
    <3>1. NextBeat(s, q) = Beat(s, job.req.addr, job.sent, job.sent = job.req.len, job.req.id)
      BY DEF NextBeat
    <3>2. job.req = burst.req /\ job.sent = burst.sent
      BY <2>7
    <3> HIDE DEF job
    <3>3. QED
      BY <2>5, <2>6, <3>1, <3>2, Zenon
  <2>9. due # None
    <3> DEFINE n == burst.sent
               req == burst.req
    <3>1. n \in Nat
      BY <1>2, <1>4
    <3>2. due = WriteBeats(s, req)[n]
      BY <2>5
    <3> HIDE DEF n, req, due
    <3>3. WriteBeats(s, req)[n] # None
      BY <3>1, WriteBeatIs
    <3>4. QED
      BY <3>2, <3>3
  <2>10. QED
    BY <1>4, <2>2, <2>4, <2>8, <2>9
<1>5. CASE ~(served /\ burst.sent <= burst.req.len) /\ next = None
  <2>1. Unsent(q) = {}
    BY <1>2, <1>5 DEF Unsent, OpenWrites, WithOffer, OnlyOffer
  <2>2. due = None
    BY <1>5 DEF DueBeat
  <2>3. QED
    BY <1>5, <2>1, <2>2
<1>6. CASE ~(served /\ burst.sent <= burst.req.len) /\ next # None
  <2> DEFINE i == IF served THEN 2 ELSE 1
  <2>1. i \in DOMAIN q /\ q[i] = Offer(next)
    BY <1>6 DEF OpenWrites, WithOffer, OnlyOffer
  <2>2. i \in Unsent(q)
    BY <1>1, <1>6, <2>1 DEF Unsent
  <2>3. \A j \in Unsent(q) : j = i
    BY <1>2, <1>6 DEF Unsent, OpenWrites, WithOffer, OnlyOffer
  <2>4. first = i
    BY <1>3, <2>2, <2>3, LowestIsIn
  <2>5. due = WriteBeats(s, next)[0]
    BY <1>6 DEF DueBeat
  <2>6. WriteBeats(s, next)[0] = Beat(s, next.addr, 0, 0 = next.len, next.id)
    BY Zenon DEF WriteBeats
  <2>7. q[first].req = next /\ q[first].sent = 0
    BY <1>1, <1>6, <2>1, <2>4
  <2>8. NextBeat(s, q) = due
    BY <2>5, <2>6, <2>7, Zenon DEF NextBeat
  <2>9. due # None
    BY <2>5, WriteBeatIs
  <2>10. QED
    BY <1>6, <2>2, <2>8, <2>9
<1>7. QED
  BY <1>4, <1>5, <1>6
-----------------------------------------------------------------------------
(* The writes a master has open.                                            *)
LEMMA WritingNow ==
  ASSUME Granting, Kinds, WriteFlow, IsWriting
  PROVE  \E req \in Request, sent \in Nat, landed \in Nat :
           LET burst == [req |-> req, sent |-> sent, landed |-> landed]
           IN  /\ s_select \in Masters /\ granted /\ req.len \in Nat /\ axi = req
               /\ WriteAt(s_select, req, sent, landed)
               /\ writing[s_select] = OpenWrites(TRUE, burst, aw[s_select])
               /\ wdata[s_select] \in {None, DueBeat(s_select, TRUE, burst, aw[s_select])}
<1>1. granted /\ s_select \in Masters /\ Served(s_select)
  BY Selected DEF IsWriting, Served
<1> DEFINE burst == writing[s_select][1]
<1>2. WriteQueue(s_select, burst)
  BY <1>1 DEF WriteFlow
<1> HIDE DEF burst
<1>3. burst \in Bursts /\ WriteAt(s_select, burst.req, burst.sent, burst.landed)
  BY <1>1, <1>2 DEF WriteQueue
<1>4. PICK req \in Request, sent \in Nat, landed \in Nat :
        burst = [req |-> req, sent |-> sent, landed |-> landed]
  BY <1>3 DEF Bursts
<1>5. WriteAt(s_select, req, sent, landed)
  BY <1>3, <1>4
<1>6. Served(s_select) = TRUE
  BY <1>1 DEF Served
<1>7. /\ writing[s_select] = OpenWrites(TRUE, burst, aw[s_select])
      /\ wdata[s_select] \in {None, DueBeat(s_select, TRUE, burst, aw[s_select])}
  BY <1>2, <1>6 DEF WriteQueue
<1>8. req.len \in Nat /\ axi = req
  BY <1>5, InterconnectAssumption DEF Request, WriteAt
<1>9. QED
  BY <1>1, <1>4, <1>5, <1>7, <1>8

(* What a master sees of a step: its beat is taken, a beat of it lands, it  *)
(* is answered, its request is taken.                                       *)
LEMMA WriteEvents ==
  ASSUME IInv, Granting, Wires, Kinds, ReadFlow, WriteFlow, NEW s \in Masters
  PROVE  /\ WTaken(s) <=> TakesW /\ s = s_select
         /\ (\E m \in Slaves : WLands(m) /\ w.beat.from = s)
              <=> m_select \in m_ready.w /\ s = s_select
         /\ BTaken(s) <=> state = "WAIT_IDLE" /\ ~read /\ acknowledge /\ s = s_select
         /\ AwTaken(s) <=> state = "DECODE" /\ ~read /\ s = s_select
         /\ TakesW \/ m_select \in m_ready.w => IsWriting
<1>1. WTaken(s) <=> TakesW /\ s = s_select
  BY DEF WTaken, TakesW, Wires, Only
<1>2. BTaken(s) <=> state = "WAIT_IDLE" /\ ~read /\ acknowledge /\ s = s_select
  BY DEF BTaken, Wires, Only, acknowledge, Granting
<1>3. AwTaken(s) <=> state = "DECODE" /\ ~read /\ s = s_select
  BY DEF AwTaken, Wires, Only, Granting, Granted
<1>4. TakesW => IsWriting
  BY DEF TakesW, IsWriting, Granting
<1>5. w.valid # {} => /\ IsWriting /\ w.valid = {m_select} /\ m_select \in Slaves
                      /\ w.beat.from = s_select
  <2>1. SUFFICES ASSUME w.valid # {}
                 PROVE  /\ IsWriting /\ w.valid = {m_select} /\ m_select \in Slaves
                        /\ w.beat.from = s_select
    OBVIOUS
  <2>2. IsWriting
    BY <2>1 DEF IInv, NothingOutside, IsWriting, Granting
  <2>3. PICK req \in Request, sent \in Nat, landed \in Nat : WriteAt(s_select, req, sent, landed)
    BY <2>2, WritingNow
  <2>4. w.beat = WriteBeats(s_select, req)[landed] /\ w.valid = {m_select}
    BY <2>1, <2>3 DEF WriteAt, Holds
  <2>5. w.beat.from = s_select
    BY <2>4, WriteBeatIs
  <2>6. QED
    BY <2>2, <2>4, <2>5 DEF Kinds
<1>6. m_ready.w \subseteq w.valid
  BY DEF Wires
<1>7. QED
  BY <1>1, <1>2, <1>3, <1>4, <1>5, <1>6 DEF WLands

(* What the queue of a master is after a step, when its first write is.     *)
LEMMA QueueIs ==
  ASSUME MastersStep, NEW s \in Masters, NEW served \in BOOLEAN, served <=> Served(s)',
         NEW burst, served => burst \in Bursts /\ WriteAt(s, burst.req, burst.sent, burst.landed)',
         aw'[s] \in Request \cup {None},
         writing'[s] = OpenWrites(served, burst, aw'[s]),
         wdata[s] # None /\ ~WTaken(s) => wdata[s] = DueBeat(s, served, burst, aw'[s])
  PROVE  WriteQueue(s, writing[s][1])'
<1>1. PICK head, next : head = writing'[s][1] /\ next = aw'[s]
  OBVIOUS
<1>2. served => head = burst
  BY <1>1 DEF OpenWrites, WithOffer, OnlyOffer
<1> DEFINE due == DueBeat(s, served, burst, next)
<1>3. wdata'[s] \in {None, due}
  <2>1. CASE wdata[s] # None /\ ~WTaken(s)
    BY <1>1, <2>1, MasterStep
  <2>2. CASE ~(wdata[s] # None /\ ~WTaken(s))
    <3>1. wdata'[s] = None \/ (Unsent(writing'[s]) # {} /\ wdata'[s] = NextBeat(s, writing'[s]))
      BY <2>2, MasterStep
    <3>2. Unsent(OpenWrites(served, burst, next)) # {} =>
            NextBeat(s, OpenWrites(served, burst, next)) = due
      BY <1>1, NextBeatIs
    <3>3. QED
      BY <1>1, <3>1, <3>2
  <2>3. QED
    BY <2>1, <2>2
<1>4. Served(s)' = served
  BY DEF Served
<1>5. OpenWrites(served, head, next) = OpenWrites(served, burst, next)
  BY <1>2 DEF OpenWrites, WithOffer, OnlyOffer
<1>6. DueBeat(s, served, head, next) = due
  BY <1>2 DEF DueBeat
<1> HIDE DEF due
<1>7. served => head \in Bursts /\ WriteAt(s, head.req, head.sent, head.landed)'
  BY <1>2
<1>8. /\ writing'[s] = OpenWrites(served, head, next)
      /\ wdata'[s] \in {None, DueBeat(s, served, head, next)}
  BY <1>1, <1>3, <1>5, <1>6
<1>9. WriteQueue(s, head)'
  BY <1>1, <1>4, <1>7, <1>8 DEF WriteQueue
<1>10. QED
  BY <1>1, <1>9
-----------------------------------------------------------------------------
(* How the writes a master has open change in a step.                       *)
LEMMA AwKinds ==
  ASSUME Kinds, MastersStep, NEW s \in Masters
  PROVE  /\ aw'[s] \in WriteRequests[s] \cup {None} /\ aw'[s] \in Request \cup {None}
         /\ aw[s] \in Request \cup {None}
<1>1. WriteRequests[s] \subseteq Request
  BY InterconnectAssumption
<1>2. aw[s] \in WriteRequests[s] \cup {None}
  BY DEF Kinds
<1>3. aw'[s] \in WriteRequests[s] \cup {None}
  BY <1>2, MasterStep
<1>4. QED
  BY <1>1, <1>2, <1>3

SentOneMore(queue)   == [queue EXCEPT ![1].sent = @ + 1]
LandedOneMore(queue) == [queue EXCEPT ![1].landed = @ + 1]

Burst(req, sent, landed) == [req |-> req, sent |-> sent, landed |-> landed]

LEMMA FirstChanges ==
  ASSUME NEW req, NEW sent, NEW landed, NEW next
  PROVE  LET q == WithOffer(Burst(req, sent, landed), next)
         IN  /\ SentOneMore(q) = WithOffer(Burst(req, sent + 1, landed), next)
             /\ LandedOneMore(q) = WithOffer(Burst(req, sent, landed + 1), next)
<1>1. CASE next = None
  BY <1>1 DEF WithOffer, SentOneMore, LandedOneMore, Burst
<1>2. CASE next # None
  BY <1>2 DEF WithOffer, SentOneMore, LandedOneMore, Burst
<1>3. QED
  BY <1>1, <1>2

LEMMA FirstLeaves ==
  ASSUME NEW burst, NEW next
  PROVE  Tail(WithOffer(burst, next)) = OnlyOffer(next)
<1>1. CASE next = None
  BY <1>1 DEF WithOffer, OnlyOffer
<1>2. CASE next # None
  BY <1>2 DEF WithOffer, OnlyOffer
<1>3. QED
  BY <1>1, <1>2

LEMMA Pair ==
  ASSUME NEW b, NEW o
  PROVE  Append(<<b>>, o) = <<b, o>>
<1> DEFINE a == Append(<<b>>, o)
           p == <<b, o>>
<1>1. <<b>> \in Seq({b, o}) /\ Len(<<b>>) = 1
  OBVIOUS
<1>2. p \in Seq({b, o}) /\ Len(p) = 2 /\ p[1] = b /\ p[2] = o
  OBVIOUS
<1>3. a \in Seq({b, o}) /\ Len(a) = 2 /\ a[1] = b /\ a[2] = o
  BY <1>1
<1> HIDE DEF a, p
<1>4. Len(a) = Len(p) /\ \A i \in 1 .. Len(a) : a[i] = p[i]
  BY <1>2, <1>3
<1>5. a = p
  BY <1>2, <1>3, <1>4, SeqEqual
<1>6. QED
  BY <1>5 DEF a, p

LEMMA OfferAdded ==
  ASSUME NEW served \in BOOLEAN, NEW burst, NEW next, next # None
  PROVE  Append(OpenWrites(served, burst, None), Offer(next)) = OpenWrites(served, burst, next)
<1> DEFINE offer == Offer(next)
<1>1. OpenWrites(served, burst, None) = IF served THEN <<burst>> ELSE <<>>
  BY Zenon DEF OpenWrites, WithOffer, OnlyOffer
<1>2. OpenWrites(served, burst, next) = IF served THEN <<burst, offer>> ELSE <<offer>>
  BY Zenon DEF OpenWrites, WithOffer, OnlyOffer
<1> HIDE DEF offer
<1>3. Append(<<burst>>, offer) = <<burst, offer>>
  BY Pair
<1>4. Append(<<>>, offer) = <<offer>>
  OBVIOUS
<1>5. Append(OpenWrites(served, burst, None), offer) = OpenWrites(served, burst, next)
  BY <1>1, <1>2, <1>3, <1>4
<1>6. QED
  BY <1>5 DEF offer

(* A request is offered beside what is open already.                        *)
LEMMA Offered ==
  ASSUME MastersStep, NEW s \in Masters, ~AwTaken(s), NEW served \in BOOLEAN, NEW burst, NEW open,
         open = OpenWrites(served, burst, aw[s]),
         writing'[s] = IF aw'[s] # None /\ (aw[s] = None \/ AwTaken(s))
                       THEN Append(open, Offer(aw'[s])) ELSE open
  PROVE  writing'[s] = OpenWrites(served, burst, aw'[s])
<1>1. CASE aw[s] = None
  <2>1. CASE aw'[s] = None
    BY <1>1, <2>1
  <2>2. CASE aw'[s] # None
    <3>1. writing'[s] = Append(OpenWrites(served, burst, None), Offer(aw'[s]))
      BY <1>1, <2>2
    <3>2. QED
      BY <2>2, <3>1, OfferAdded
  <2>3. QED
    BY <2>1, <2>2
<1>2. CASE aw[s] # None
  <2>1. aw'[s] = aw[s]
    BY <1>2, MasterStep
  <2>2. QED
    BY <1>2, <2>1
<1>3. QED
  BY <1>1, <1>2

LEMMA QueueQuiet ==
  ASSUME IInv, Granting, Wires, Kinds, ReadFlow, WriteFlow, Next, NEW s \in Masters,
         ~Served(s), ~(state = "DECODE" /\ ~read /\ s = s_select), ~Served(s)'
  PROVE  WriteQueue(s, writing[s][1])'
<1>1. ~WTaken(s) /\ ~BTaken(s) /\ ~AwTaken(s) /\ ~(\E m \in Slaves : WLands(m) /\ w.beat.from = s)
  BY WriteEvents DEF Served, IsWriting, acknowledge
<1> DEFINE burst == writing[s][1]
<1>2. /\ writing[s] = OpenWrites(FALSE, burst, aw[s])
      /\ wdata[s] \in {None, DueBeat(s, FALSE, burst, aw[s])}
  <2>1. Served(s) = FALSE
    BY DEF Served
  <2>2. WriteQueue(s, burst)
    BY DEF WriteFlow
  <2>3. QED
    BY <2>1, <2>2 DEF WriteQueue
<1> HIDE DEF burst
<1>3. writing'[s] = IF aw'[s] # None /\ (aw[s] = None \/ AwTaken(s))
                    THEN Append(writing[s], Offer(aw'[s])) ELSE writing[s]
  <2>1. writing'[s] = WritingStep(s)
    BY MasterStep DEF Next
  <2>2. QED
    BY <1>1, <2>1 DEF WritingStep, Offer
<1>4. writing'[s] = OpenWrites(FALSE, burst, aw'[s])
  BY <1>1, <1>2, <1>3, Offered DEF Next
<1>5. wdata[s] # None => wdata[s] = DueBeat(s, FALSE, burst, aw'[s])
  <2>1. SUFFICES ASSUME wdata[s] # None PROVE wdata[s] = DueBeat(s, FALSE, burst, aw'[s])
    OBVIOUS
  <2>2. wdata[s] = DueBeat(s, FALSE, burst, aw[s])
    BY <1>2, <2>1
  <2>3. aw[s] # None
    BY <2>1, <2>2 DEF DueBeat
  <2>4. aw'[s] = aw[s]
    BY <1>1, <2>3, MasterStep DEF Next
  <2>5. QED
    BY <2>2, <2>4
<1>6. QED
  BY <1>4, <1>5, AwKinds, QueueIs DEF Next

(* A write begins.                                                          *)
LEMMA QueueBegins ==
  ASSUME IInv, Granting, Wires, Kinds, ReadFlow, WriteFlow, Next, NEW s \in Masters,
         state = "DECODE", ~read, s = s_select
  PROVE  WriteQueue(s, writing[s][1])'
<1>1. AwTaken(s) /\ ~WTaken(s) /\ ~BTaken(s)
      /\ ~(\E m \in Slaves : WLands(m) /\ w.beat.from = s)
  BY WriteEvents DEF IsWriting
<1>2. aw[s] # None /\ axi = aw[s]
  BY DEF Granting, Granted
<1>3. PICK req : req = aw[s]
  OBVIOUS
<1>4. req \in WriteRequests[s] /\ req \in Request /\ req.len \in Nat
  BY <1>2, <1>3, AwKinds, InterconnectAssumption DEF Next, Request, Kinds
<1>5. /\ granted' /\ ~read' /\ s_select' = s
      /\ axi' = req /\ state' \in {"WRITE", "WRITE_DROP"}
      /\ state' = "WRITE" => m_select' = Target(req.addr)
      /\ state' = "WRITE_DROP" => Target(req.addr) = M_COUNT /\ bresp' = "DECERR"
  BY <1>2, <1>3, GrantingStep, RegisterStep, DecodeTarget DEF Next
<1>6. w'.valid = {} /\ w'.temp = None /\ Count(w') = 0
  <2>1. W_In = None /\ w.temp = None /\ w.valid = {}
    BY DEF W_In, IInv, NothingOutside
  <2>2. w'.valid = {} /\ w'.temp = None
    BY <2>1, WritePath DEF Next
  <2>3. QED
    BY <2>2 DEF Count
<1>7. WriteAt(s, req, 0, 0)'
  <2>1. Holds(w, m_select, WriteBeats(s, req), 0)'
    BY <1>6 DEF Holds
  <2>2. QED
    BY <1>4, <1>5, <1>6, <2>1 DEF WriteAt
<1> DEFINE burst == Offer(req)
           old   == writing[s][1]
<1>8. burst \in Bursts /\ burst.req = req /\ burst.sent = 0 /\ burst.landed = 0
  BY <1>4 DEF Offer, Bursts
<1>9. writing[s] = OpenWrites(FALSE, old, req) /\ wdata[s] \in {None, DueBeat(s, FALSE, old, req)}
  <2>1. Served(s) = FALSE
    BY DEF Served, IsWriting
  <2>2. WriteQueue(s, old)
    BY DEF WriteFlow
  <2>3. QED
    BY <1>3, <2>1, <2>2 DEF WriteQueue
<1> HIDE DEF old
<1>10. req # None
  BY <1>2, <1>3
<1>11. writing[s] = OpenWrites(TRUE, burst, None)
  BY <1>9, <1>10, Zenon DEF OpenWrites, WithOffer, OnlyOffer
<1>12. writing'[s] = OpenWrites(TRUE, burst, aw'[s])
  <2>1. writing'[s] = WritingStep(s)
    BY MasterStep DEF Next
  <2>2. writing'[s] = IF aw'[s] # None THEN Append(writing[s], Offer(aw'[s])) ELSE writing[s]
    BY <1>1, <2>1 DEF WritingStep, Offer
  <2>3. PICK offered : offered = aw'[s]
    OBVIOUS
  <2>4. ASSUME offered # None
        PROVE  Append(OpenWrites(TRUE, burst, None), Offer(offered)) = OpenWrites(TRUE, burst, offered)
    BY <2>4, OfferAdded, Zenon
  <2>5. QED
    BY <1>11, <2>2, <2>3, <2>4, Zenon
<1>13. wdata[s] # None => wdata[s] = DueBeat(s, TRUE, burst, aw'[s])
  <2>1. DueBeat(s, FALSE, old, req) = WriteBeats(s, req)[0]
    BY <1>10 DEF DueBeat
  <2>2. 0 <= burst.req.len
    BY <1>4, <1>8
  <2>3. DueBeat(s, TRUE, burst, aw'[s]) = WriteBeats(s, req)[0]
    BY <1>8, <2>2 DEF DueBeat
  <2>4. QED
    BY <1>9, <2>1, <2>3
<1>14. Served(s)'
  BY <1>5 DEF Served, IsWriting
<1>15. WriteAt(s, burst.req, burst.sent, burst.landed)'
  BY <1>7, <1>8
<1> HIDE DEF burst
<1>16. QED
  BY <1>8, <1>12, <1>13, <1>14, <1>15, AwKinds, QueueIs DEF Next

(* A write that is served goes on.                                          *)
LEMMA QueueServed ==
  ASSUME IInv, Granting, Wires, Kinds, ReadFlow, WriteFlow, Next, IsWriting,
         s_select \in Masters,
         NEW req \in Request, NEW sent \in Nat, NEW landed \in Nat, req.len \in Nat,
         WriteAt(s_select, req, sent, landed),
         writing[s_select] = WithOffer(Burst(req, sent, landed), aw[s_select]),
         wdata[s_select] # None =>
           wdata[s_select] = IF sent <= req.len THEN WriteBeats(s_select, req)[sent]
                             ELSE IF aw[s_select] = None THEN None
                             ELSE WriteBeats(s_select, aw[s_select])[0],
         NEW now \in Nat, now = IF TakesW THEN sent + 1 ELSE sent,
         NEW there \in Nat, there = IF m_select \in m_ready.w THEN landed + 1 ELSE landed,
         NEW served \in BOOLEAN, served <=> ~acknowledge
  PROVE  LET burst == Burst(req, now, there)
         IN  /\ writing'[s_select] = OpenWrites(served, burst, aw'[s_select])
             /\ wdata[s_select] # None /\ ~TakesW =>
                  wdata[s_select] = DueBeat(s_select, served, burst, aw'[s_select])
             /\ TakesW => sent <= req.len /\ wdata[s_select] = WriteBeats(s_select, req)[sent]
<1>1. PICK s \in Masters : s = s_select
  OBVIOUS
<1>2. /\ WTaken(s) <=> TakesW
      /\ (\E m \in Slaves : WLands(m) /\ w.beat.from = s) <=> m_select \in m_ready.w
      /\ BTaken(s) <=> acknowledge
      /\ ~AwTaken(s)
  BY <1>1, WriteEvents, AcknowledgeWaits DEF IsWriting
<1>3. TakesW => sent <= req.len
  BY DEF TakesW, WriteAt
<1>4. acknowledge => sent = req.len + 1 /\ ~TakesW
  BY AcknowledgeWaits DEF WriteAt, TakesW
<1>5. Burst(req, sent, landed) \in Bursts
  BY DEF Burst, Bursts
<1>6. TakesW => Lowest(Unsent(writing[s])) = 1
  <2> DEFINE b == Burst(req, sent, landed)
  <2>1. b.sent = sent /\ b.req = req
    BY DEF Burst
  <2>2. writing[s] = OpenWrites(TRUE, b, aw[s]) /\ aw[s] \in Request \cup {None}
    BY <1>1, AwKinds DEF Next, OpenWrites
  <2> HIDE DEF b
  <2>3. b.sent <= b.req.len => Lowest(Unsent(OpenWrites(TRUE, b, aw[s]))) = 1
    BY <1>5, <2>2, NextBeatIs DEF b
  <2>4. QED
    BY <1>3, <2>1, <2>2, <2>3
<1>7. PICK q1 : q1 = IF WTaken(s) THEN SentOneMore(writing[s]) ELSE writing[s]
  OBVIOUS
<1>8. q1 = WithOffer(Burst(req, now, landed), aw[s])
  <2>1. writing[s] = WithOffer(Burst(req, sent, landed), aw[s])
    BY <1>1
  <2>2. CASE TakesW
    <3>1. q1 = SentOneMore(writing[s]) /\ now = sent + 1
      BY <1>2, <1>7, <2>2
    <3>2. QED
      BY <2>1, <3>1, FirstChanges
  <2>3. CASE ~TakesW
    BY <1>2, <1>7, <2>1, <2>3
  <2>4. QED
    BY <2>2, <2>3
<1>9. PICK q2 : q2 = IF m_select \in m_ready.w THEN LandedOneMore(q1) ELSE q1
  OBVIOUS
<1>10. q2 = WithOffer(Burst(req, now, there), aw[s])
  <2>1. CASE m_select \in m_ready.w
    <3>1. q2 = LandedOneMore(q1) /\ there = landed + 1
      BY <1>9, <2>1
    <3>2. QED
      BY <1>8, <3>1, FirstChanges
  <2>2. CASE m_select \notin m_ready.w
    BY <1>8, <1>9, <2>2
  <2>3. QED
    BY <2>1, <2>2
<1>11. PICK q3 : q3 = IF BTaken(s) THEN Tail(q2) ELSE q2
  OBVIOUS
<1>12. q3 = OpenWrites(served, Burst(req, now, there), aw[s])
  <2>1. CASE acknowledge
    <3>1. ~served /\ q3 = Tail(q2)
      BY <1>2, <1>11, <2>1
    <3>2. q3 = OnlyOffer(aw[s])
      BY <1>10, <3>1, FirstLeaves
    <3>3. QED
      BY <3>1, <3>2 DEF OpenWrites
  <2>2. CASE ~acknowledge
    <3>1. served /\ q3 = q2
      BY <1>2, <1>11, <2>2
    <3>2. QED
      BY <1>10, <3>1 DEF OpenWrites
  <2>3. QED
    BY <2>1, <2>2
<1>13. writing'[s] = IF aw'[s] # None /\ (aw[s] = None \/ AwTaken(s))
                     THEN Append(q3, Offer(aw'[s])) ELSE q3
  <2>1. writing'[s] = WritingStep(s)
    BY MasterStep DEF Next
  <2>2. q1 = IF WTaken(s) THEN [writing[s] EXCEPT ![Lowest(Unsent(writing[s]))].sent = @ + 1]
             ELSE writing[s]
    BY <1>2, <1>6, <1>7 DEF SentOneMore
  <2>3. q2 = IF \E m \in Slaves : WLands(m) /\ w.beat.from = s
             THEN [q1 EXCEPT ![1].landed = @ + 1] ELSE q1
    BY <1>2, <1>9 DEF LandedOneMore
  <2>4. QED
    BY <1>11, <2>1, <2>2, <2>3, Zenon DEF WritingStep, Offer
<1>14. writing'[s] = OpenWrites(served, Burst(req, now, there), aw'[s])
  BY <1>2, <1>12, <1>13, Offered DEF Next
<1>15. wdata[s] # None =>
         wdata[s] = IF sent <= req.len THEN WriteBeats(s, req)[sent]
                    ELSE IF aw[s] = None THEN None ELSE WriteBeats(s, aw[s])[0]
  BY <1>1
<1>16. TakesW => wdata[s] = WriteBeats(s, req)[sent]
  BY <1>1, <1>3, <1>15 DEF TakesW
<1>17. wdata[s] # None /\ ~TakesW => wdata[s] = DueBeat(s, served, Burst(req, now, there), aw'[s])
  <2>1. SUFFICES ASSUME wdata[s] # None, ~TakesW
                 PROVE  wdata[s] = DueBeat(s, served, Burst(req, now, there), aw'[s])
    OBVIOUS
  <2>2. now = sent
    BY <2>1
  <2>3. DueBeat(s, served, Burst(req, now, there), aw'[s]) =
          IF served /\ sent <= req.len THEN WriteBeats(s, req)[sent]
          ELSE IF aw'[s] = None THEN None ELSE WriteBeats(s, aw'[s])[0]
    BY <2>2 DEF DueBeat, Burst
  <2>4. CASE sent <= req.len
    <3>1. served
      BY <1>4, <2>4
    <3>2. QED
      BY <1>1, <1>15, <2>1, <2>3, <2>4, <3>1
  <2>5. CASE ~(sent <= req.len)
    <3>1. wdata[s] = IF aw[s] = None THEN None ELSE WriteBeats(s, aw[s])[0]
      BY <1>1, <1>15, <2>1, <2>5
    <3>2. aw[s] # None
      BY <2>1, <3>1
    <3>3. aw'[s] = aw[s]
      BY <1>2, <3>2, MasterStep DEF Next
    <3>4. QED
      BY <2>3, <2>5, <3>1, <3>2, <3>3
  <2>6. QED
    BY <2>4, <2>5
<1>18. QED
  BY <1>1, <1>3, <1>14, <1>16, <1>17

(* The write data path, and what the registers say of the write.            *)
LEMMA WriteHolds ==
  ASSUME IInv, Wires, Kinds, Next, IsWriting, s_select \in Masters,
         NEW req \in Request, NEW sent \in Nat, NEW landed \in Nat,
         WriteAt(s_select, req, sent, landed),
         TakesW => wdata[s_select] = WriteBeats(s_select, req)[sent],
         NEW there \in Nat, there = IF m_select \in m_ready.w THEN landed + 1 ELSE landed
  PROVE  /\ Holds(w', m_select, WriteBeats(s_select, req), there)
         /\ there + Count(w') = landed + Count(w) + (IF TakesW /\ state = "WRITE" THEN 1 ELSE 0)
<1> DEFINE beats == WriteBeats(s_select, req)
           taken == m_select \in m_ready.w
           after == SkidStep(w, m_select, taken, W_In)
           more  == IF TakesW /\ state = "WRITE" THEN 1 ELSE 0
<1>1. beats[landed] # None /\ beats[landed + 1] # None
  BY WriteBeatIs
<1>2. taken => w.valid # {}
  BY DEF Wires
<1>3. w' = after
  BY DEF Next, DataPaths
<1>4. taken \in BOOLEAN
  OBVIOUS
<1>5. W_In # None <=> TakesW /\ state = "WRITE"
  BY DEF W_In, TakesW
<1>6. W_In # None => w.ready
  BY <1>5 DEF TakesW, Wires
<1>7. W_In # None => W_In = beats[landed + Count(w)]
  BY <1>5 DEF W_In, WriteAt
<1>8. Holds(w, m_select, beats, landed) /\ IsSkid(w)
  BY DEF WriteAt, IInv, Shapes
<1> HIDE DEF beats, taken
<1>9. /\ Holds(after, m_select, beats, IF taken THEN landed + 1 ELSE landed)
      /\ (IF taken THEN landed + 1 ELSE landed) + Count(after) =
           landed + Count(w) + (IF W_In # None /\ w.ready THEN 1 ELSE 0)
  BY <1>1, <1>2, <1>4, <1>6, <1>7, <1>8, HoldsStep
<1>10. there = IF taken THEN landed + 1 ELSE landed
  BY DEF taken
<1>11. more = IF W_In # None /\ w.ready THEN 1 ELSE 0
  BY <1>5, <1>6
<1> HIDE DEF after, more
<1>12. Holds(w', m_select, beats, there) /\ there + Count(w') = landed + Count(w) + more
  BY <1>3, <1>9, <1>10, <1>11
<1>13. QED
  BY <1>12 DEF beats, more

LEMMA WriteAtStep ==
  ASSUME IInv, IInv', Wires, Kinds, Next, IsWriting, ~acknowledge, granted, s_select \in Masters,
         NEW req \in Request, NEW sent \in Nat, NEW landed \in Nat, req.len \in Nat,
         WriteAt(s_select, req, sent, landed),
         TakesW => sent <= req.len /\ wdata[s_select] = WriteBeats(s_select, req)[sent],
         NEW now \in Nat, now = IF TakesW THEN sent + 1 ELSE sent,
         NEW there \in Nat, there = IF m_select \in m_ready.w THEN landed + 1 ELSE landed,
         NEW s, s = s_select
  PROVE  WriteAt(s, req, now, there)'
<1>1. axi' = req /\ req \in WriteRequests[s] /\ m_select' = m_select
  <2>1. axi' = axi /\ m_select' = m_select
    BY RegisterStep DEF Next, IsWriting
  <2>2. QED
    BY <2>1 DEF WriteAt
<1>2. /\ Holds(w', m_select, WriteBeats(s, req), there)
      /\ there + Count(w') = landed + Count(w) + (IF TakesW /\ state = "WRITE" THEN 1 ELSE 0)
  BY WriteHolds
<1>3. Holds(w, m_select, WriteBeats(s, req), there)'
  BY <1>1, <1>2 DEF Holds
<1>4. Count(w) \in Nat /\ Count(w') \in Nat
  BY DEF Count
<1>5. CASE state = "WRITE"
  <2>1. m_select' = Target(req.addr) /\ sent = landed + Count(w) /\ sent <= req.len
    BY <1>1, <1>5 DEF WriteAt
  <2>2. now = there + Count(w')
    BY <1>2, <1>4, <1>5, <2>1
  <2>3. LastTaken <=> TakesW /\ sent = req.len
    <3>1. WriteBeats(s_select, req)[sent].last <=> sent = req.len
      BY WriteBeatIs
    <3>2. TakesW => (wdata[s_select].last <=> sent = req.len)
      BY <3>1
    <3>3. QED
      BY <1>5, <3>2 DEF LastTaken
  <2>4. state' = IF LastTaken THEN "WRITE_RESP" ELSE "WRITE"
    BY <1>5, RegisterStep DEF Next
  <2>5. state' = "WRITE" => now <= req.len
    BY <2>1, <2>3, <2>4
  <2>6. state' = "WRITE_RESP" => now = req.len + 1
    BY <2>3, <2>4
  <2>7. QED
    BY <1>1, <1>3, <2>1, <2>2, <2>4, <2>5, <2>6 DEF WriteAt
<1>6. CASE state = "WRITE_RESP"
  <2>1. ~TakesW /\ now = sent
    BY <1>6 DEF TakesW
  <2>2. m_select' = Target(req.addr) /\ now = req.len + 1 /\ now = there + Count(w')
    BY <1>1, <1>2, <1>4, <1>6, <2>1 DEF WriteAt
  <2>3. state' = IF TakesB THEN "WAIT_IDLE" ELSE "WRITE_RESP"
    BY <1>6, RegisterStep DEF Next
  <2>4. Target(req.addr) # M_COUNT
    BY <1>1, <2>2, Targets DEF Kinds
  <2>5. state' = "WAIT_IDLE" => there = now /\ bresp' = "OKAY"
    <3>1. SUFFICES ASSUME state' = "WAIT_IDLE" PROVE there = now /\ bresp' = "OKAY"
      OBVIOUS
    <3>2. bresp' = "OKAY"
      BY <1>6, <2>3, <3>1, RegisterStep DEF Next
    <3>3. w'.valid = {} /\ w'.temp = None
      BY <3>1 DEF IInv, NothingOutside
    <3>4. Count(w') = 0
      BY <3>3 DEF Count
    <3>5. QED
      BY <2>2, <3>2, <3>4
  <2>6. QED
    BY <1>1, <1>3, <2>2, <2>3, <2>4, <2>5 DEF WriteAt
<1>7. CASE state = "WRITE_DROP"
  <2>1. Target(req.addr) = M_COUNT /\ bresp' = "DECERR" /\ sent = 0
    BY <1>7, RegisterStep DEF Next, WriteAt
  <2>2. req.len = 0
    <3>1. req.addr \in Address
      BY DEF Request
    <3>2. Match(req.addr) = {}
      BY <2>1, <3>1, MatchIsTarget, MatchedOrNot
    <3>3. QED
      BY <1>1, <3>2, DropsAreSingle
  <2>3. state' = IF TakesW THEN "WAIT_IDLE" ELSE "WRITE_DROP"
    BY <1>7, RegisterStep DEF Next
  <2>4. state' = "WAIT_IDLE" => now = req.len + 1
    BY <2>1, <2>2, <2>3
  <2>5. state' = "WRITE_DROP" => now = 0
    BY <2>1, <2>3
  <2>6. QED
    BY <1>1, <1>3, <2>1, <2>3, <2>4, <2>5 DEF WriteAt
<1>8. CASE state = "WAIT_IDLE"
  <2>1. ~TakesW /\ now = sent
    BY <1>8 DEF TakesW
  <2>2. there = landed
    BY <1>8 DEF IInv, NothingOutside, Wires
  <2>3. state' = "WAIT_IDLE" /\ bresp' = bresp
    BY <1>8, RegisterStep DEF Next
  <2>4. QED
    BY <1>1, <1>3, <1>8, <2>1, <2>2, <2>3 DEF WriteAt
<1>9. QED
  BY <1>5, <1>6, <1>7, <1>8 DEF IsWriting

LEMMA QueueGoes ==
  ASSUME IInv, IInv', Granting, Wires, Kinds, ReadFlow, WriteFlow, Next, IsWriting,
         NEW s \in Masters, s = s_select
  PROVE  WriteQueue(s, writing[s][1])'
<1>1. PICK req \in Request, sent \in Nat, landed \in Nat :
        LET burst == [req |-> req, sent |-> sent, landed |-> landed]
        IN  /\ s_select \in Masters /\ granted /\ req.len \in Nat /\ axi = req
            /\ WriteAt(s_select, req, sent, landed)
            /\ writing[s_select] = OpenWrites(TRUE, burst, aw[s_select])
            /\ wdata[s_select] \in {None, DueBeat(s_select, TRUE, burst, aw[s_select])}
  BY WritingNow
<1>2. PICK now \in Nat : now = IF TakesW THEN sent + 1 ELSE sent
  OBVIOUS
<1>3. PICK there \in Nat : there = IF m_select \in m_ready.w THEN landed + 1 ELSE landed
  OBVIOUS
<1>4. PICK burst : burst = Burst(req, now, there)
  OBVIOUS
<1>5. burst \in Bursts /\ burst.req = req /\ burst.sent = now /\ burst.landed = there
  BY <1>4 DEF Burst, Bursts
<1>6. writing[s_select] = WithOffer(Burst(req, sent, landed), aw[s_select])
  BY <1>1 DEF Burst, OpenWrites
<1>7. wdata[s_select] # None =>
        wdata[s_select] = IF sent <= req.len THEN WriteBeats(s_select, req)[sent]
                          ELSE IF aw[s_select] = None THEN None
                          ELSE WriteBeats(s_select, aw[s_select])[0]
  BY <1>1 DEF DueBeat
<1>8. PICK served \in BOOLEAN : served <=> ~acknowledge
  OBVIOUS
<1>9. /\ writing'[s_select] = OpenWrites(served, burst, aw'[s_select])
      /\ wdata[s_select] # None /\ ~TakesW =>
           wdata[s_select] = DueBeat(s_select, served, burst, aw'[s_select])
      /\ TakesW => sent <= req.len /\ wdata[s_select] = WriteBeats(s_select, req)[sent]
  <2>1. s_select \in Masters /\ req.len \in Nat /\ WriteAt(s_select, req, sent, landed)
    BY <1>1
  <2>2. LET b == Burst(req, now, there)
        IN  /\ writing'[s_select] = OpenWrites(served, b, aw'[s_select])
            /\ wdata[s_select] # None /\ ~TakesW =>
                 wdata[s_select] = DueBeat(s_select, served, b, aw'[s_select])
            /\ TakesW => sent <= req.len /\ wdata[s_select] = WriteBeats(s_select, req)[sent]
    BY <1>2, <1>3, <1>6, <1>7, <1>8, <2>1, QueueServed
  <2>3. QED
    BY <1>4, <2>2
<1>10. WTaken(s) <=> TakesW
  BY WriteEvents
<1>11. served => WriteAt(s, burst.req, burst.sent, burst.landed)'
  <2>1. SUFFICES ASSUME served PROVE WriteAt(s, req, now, there)'
    BY <1>5
  <2>2. ~acknowledge
    BY <1>8, <2>1
  <2>3. QED
    BY <1>1, <1>2, <1>3, <1>9, <2>2, WriteAtStep
<1>12. served <=> Served(s)'
  <2>1. CASE acknowledge
    <3>1. state' = "IDLE" /\ ~served
      BY <1>1, <1>8, <2>1, AcknowledgeWaits, RegisterStep DEF Next
    <3>2. QED
      BY <3>1 DEF Served, IsWriting
  <2>2. CASE ~acknowledge
    <3>1. grant' = grant
      BY <1>1, <2>2, ArbiterStep DEF Next
    <3>2. granted' /\ ~read' /\ s_select' = s
      BY <1>1, <3>1, GrantKept DEF IsWriting
    <3>3. state' \in {"WRITE", "WRITE_DROP", "WRITE_RESP", "WAIT_IDLE"}
      BY <1>1, <2>2, RegisterStep DEF Next, IsWriting
    <3>4. QED
      BY <1>8, <2>2, <3>2, <3>3 DEF Served, IsWriting
  <2>3. QED
    BY <2>1, <2>2
<1>13. /\ writing'[s] = OpenWrites(served, burst, aw'[s])
       /\ wdata[s] # None /\ ~WTaken(s) => wdata[s] = DueBeat(s, served, burst, aw'[s])
  BY <1>9, <1>10
<1>14. QED
  BY <1>5, <1>11, <1>12, <1>13, AwKinds, QueueIs DEF Next

LEMMA WriteFlowStep ==
  ASSUME IInv, IInv', Granting, Wires, Kinds, ReadFlow, WriteFlow, Next
  PROVE  WriteFlow'
<1> SUFFICES ASSUME NEW s \in Masters PROVE WriteQueue(s, writing[s][1])'
  BY DEF WriteFlow
<1>1. CASE Served(s)
  BY <1>1, QueueGoes DEF Served
<1>2. CASE state = "DECODE" /\ ~read /\ s = s_select
  BY <1>2, QueueBegins
<1>3. CASE ~Served(s) /\ ~(state = "DECODE" /\ ~read /\ s = s_select)
  <2>1. ~Served(s)'
    <3>1. SUFFICES ASSUME Served(s)' PROVE FALSE
      OBVIOUS
    <3>2. state' # "IDLE" /\ s = s_select' /\ ~read'
          /\ state' \in {"WRITE", "WRITE_DROP", "WRITE_RESP", "WAIT_IDLE"}
      BY <3>1 DEF Served, IsWriting
    <3>3. (granted' <=> granted) /\ ~read /\ s = s_select
      BY <3>2, GrantingStep, GrantKept DEF Next
    <3>4. state \notin {"DECODE", "WRITE", "WRITE_DROP", "WRITE_RESP", "WAIT_IDLE"}
      BY <1>3, <3>3 DEF Served, IsWriting, Granting
    <3>5. state # "READ" /\ state # "READ_DROP"
      BY <3>3 DEF Granting
    <3>6. QED
      BY <3>2, <3>4, <3>5, RegisterStep DEF Next
  <2>2. QED
    BY <1>3, <2>1, QueueQuiet
<1>4. QED
  BY <1>1, <1>2, <1>3
-----------------------------------------------------------------------------
(* The invariant.                                                           *)
LEMMA KindsStep ==
  ASSUME IInv, Granting, Wires, Kinds, ReadFlow, Next
  PROVE  Kinds'
<1>1. IsSkid(r)'
  BY PathsReady DEF Next, Kinds, IInv, Shapes
<1>2. m_select' \in Slaves
  <2>1. CASE state = "DECODE" /\ Match(axi.addr) # {}
    BY <2>1, DecodeTarget DEF Next
  <2>2. CASE ~(state = "DECODE" /\ Match(axi.addr) # {})
    BY <2>2, RegisterStep DEF Next, Kinds
  <2>3. QED
    BY <2>1, <2>2
<1>3. granted /\ state \in {"IDLE", "DECODE"} => s_select \in Masters /\ Granted \in Request
  <2>1. \A s \in Masters : ar[s] \in Request \cup {None} /\ aw[s] \in Request \cup {None}
    BY InterconnectAssumption DEF Kinds
  <2>2. granted => s_select \in Masters
    BY Selected
  <2>3. QED
    BY <2>1, <2>2 DEF Granting, Granted
<1>4. axi' \in [id : Nat, addr : Address, len : Nat]
  <2>1. Request \subseteq [id : Nat, addr : Address, len : Nat]
    BY InterconnectAssumption DEF Request
  <2>2. axi \in [id : Nat, addr : Address, len : Nat]
    BY DEF Kinds
  <2>3. CountDown(axi.len) \in Nat
    <3>1. \A k \in Nat, size \in Nat \ {0} : (k - 1) % size \in Nat
      OBVIOUS
    <3>2. axi.len \in Nat /\ 2 ^ LEN_WIDTH \in Nat \ {0}
      BY <2>2, InterconnectAssumption
    <3>3. QED
      BY <3>1, <3>2, Zenon DEF CountDown
  <2>4. [axi EXCEPT !.len = CountDown(@)] \in [id : Nat, addr : Address, len : Nat]
    BY <2>2, <2>3
  <2>5. \/ state = "IDLE" /\ granted /\ axi' = Granted
        \/ axi' = [axi EXCEPT !.len = CountDown(@)] \/ axi' = axi
    BY RegisterStep DEF Next
  <2>6. QED
    BY <1>3, <2>1, <2>2, <2>4, <2>5
<1>5. ASSUME NEW s \in Masters
      PROVE  /\ ar'[s] \in Request \cup {None} /\ aw'[s] \in WriteRequests[s] \cup {None}
             /\ reading'[s] \in [req : Request, n : Nat] \cup {None}
  <2>1. aw'[s] \in WriteRequests[s] \cup {None}
    BY AwKinds DEF Next
  <2>2. ar'[s] \in Request \cup {None}
    <3>1. ReadRequests[s] \subseteq Request /\ ar[s] \in Request \cup {None}
      BY InterconnectAssumption DEF Kinds
    <3>2. QED
      BY <3>1, MasterStep DEF Next
  <2>3. reading[s] \in [req : Request, n : Nat] \cup {None}
    BY DEF Kinds
  <2>4. CASE state = "DECODE" /\ read /\ s = s_select
    <3>1. reading'[s] = [req |-> axi, n |-> 0] /\ axi \in Request
      BY <1>3, <2>4, ReadingSteps DEF Next, Granting, read
    <3>2. QED
      BY <2>1, <2>2, <3>1
  <2>5. CASE IsReading /\ s = s_select
    <3>1. reading[s] \in [req : Request, n : Nat]
      BY <2>3, <2>5 DEF ReadFlow
    <3>2. reading'[s] \in {reading[s], None, [reading[s] EXCEPT !.n = @ + 1]}
      BY <2>5, ReadingSteps DEF Next
    <3>3. QED
      BY <2>1, <2>2, <3>1, <3>2
  <2>6. CASE ~(s = s_select /\ (IsReading \/ (state = "DECODE" /\ read)))
    <3>1. reading'[s] = reading[s]
      BY <2>6, ReadingSteps DEF Next
    <3>2. QED
      BY <2>1, <2>2, <2>3, <3>1
  <2>7. QED
    BY <2>4, <2>5, <2>6
<1>6. QED
  BY <1>1, <1>2, <1>4, <1>5 DEF Kinds

LEMMA InitOrder == Init => OrderInv
<1> SUFFICES ASSUME Init PROVE OrderInv
  OBVIOUS
<1>1. ~granted /\ state = "IDLE" /\ ~read /\ ~IsReading /\ ~IsWriting /\ s_select = 0
  BY DEF Init, granted, read, IsReading, IsWriting, s_select
<1>2. Granting
  BY <1>1 DEF Init, Granting
<1>3. Wires
  BY <1>1 DEF Init, Wires, Only
<1>4. Kinds
  <2>1. 0 \in Slaves
    BY InterconnectAssumption DEF Slaves
  <2>2. 0 \in Address
    <3>1. 2 ^ ADDR_WIDTH \in Nat \ {0}
      BY InterconnectAssumption
    <3>2. QED
      BY <3>1 DEF Address
  <2>3. IsSkid(r)
    BY DEF Init, IsSkid
  <2>4. axi \in [id : Nat, addr : Address, len : Nat]
    BY <2>2 DEF Init
  <2>5. \A s \in Masters : ar[s] = None /\ aw[s] = None /\ reading[s] = None
    BY DEF Init
  <2>6. QED
    BY <2>1, <2>3, <2>4, <2>5 DEF Init, Kinds
<1>5. ReadFlow
  BY <1>1 DEF Init, ReadFlow
<1>6. SlaveFlow
  BY <1>1 DEF Init, SlaveFlow
<1>7. WriteFlow
  <2> SUFFICES ASSUME NEW s \in Masters PROVE WriteQueue(s, writing[s][1])
    BY DEF WriteFlow
  <2>1. writing[s] = <<>> /\ wdata[s] = None /\ aw[s] = None
    BY DEF Init
  <2>2. ~Served(s)
    BY <1>1 DEF Served
  <2>3. QED
    BY <2>1, <2>2 DEF WriteQueue, OpenWrites, OnlyOffer
<1>8. QED
  BY <1>2, <1>3, <1>4, <1>5, <1>6, <1>7 DEF OrderInv

LEMMA OrderNext == IInv /\ IInv' /\ OrderInv /\ [Next]_vars => OrderInv'
<1>1. ASSUME IInv, IInv', OrderInv, Next PROVE OrderInv'
  <2>1. Granting /\ Wires /\ Kinds /\ ReadFlow /\ SlaveFlow /\ WriteFlow
    BY <1>1 DEF OrderInv
  <2>2. Granting'
    BY <1>1, <2>1, GrantingStep DEF Next
  <2>3. Wires'
    BY <1>1, <2>1, WiresStep
  <2>4. Kinds'
    BY <1>1, <2>1, KindsStep
  <2>5. ReadFlow'
    BY <1>1, <2>1, ReadFlowStep
  <2>6. SlaveFlow'
    BY <1>1, <2>1, SlaveFlowStep
  <2>7. WriteFlow'
    BY <1>1, <2>1, WriteFlowStep
  <2>8. QED
    BY <2>2, <2>3, <2>4, <2>5, <2>6, <2>7 DEF OrderInv
<1>2. ASSUME OrderInv, UNCHANGED vars PROVE OrderInv'
  <2>1. UNCHANGED <<grant, state, m_select, axi, bresp, out, r, w, ar, aw, wdata, rready, bready,
                    m_ready, serving, reading, writing>>
    BY <1>2 DEF vars, machine, masters, slaves
  <2>2. (granted' <=> granted) /\ (read' <=> read) /\ s_select' = s_select
    BY <2>1, GrantKept
  <2>3. (IsReading' <=> IsReading) /\ (IsWriting' <=> IsWriting) /\ Granted' = Granted
    BY <2>1, <2>2 DEF IsReading, IsWriting, Granted
  <2>4. Granting' /\ Wires' /\ Kinds'
    BY <1>2, <2>1, <2>2, <2>3 DEF OrderInv, Granting, Wires, Kinds, IsSkid
  <2>5. ReadFlow' /\ SlaveFlow'
    BY <1>2, <2>1, <2>2, <2>3 DEF OrderInv, ReadFlow, SlaveFlow, ReadAt, Holds
  <2>6. WriteFlow'
    BY <1>2, <2>1, <2>2, <2>3 DEF OrderInv, WriteFlow, WriteQueue, Served, WriteAt, Holds
  <2>7. QED
    BY <2>4, <2>5, <2>6 DEF OrderInv
<1>3. QED
  BY <1>1, <1>2

LEMMA OrderInvariance == Spec => [](IInv /\ OrderInv)
<1>1. Init => IInv /\ OrderInv
  BY InitInv, InitOrder
<1>2. IInv /\ OrderInv /\ [Next]_vars => (IInv /\ OrderInv)'
  BY NextInv, OrderNext
<1>3. QED
  BY <1>1, <1>2, PTL DEF Spec
-----------------------------------------------------------------------------
(* What the masters and the slaves can rely on.                             *)

(* However both sides stall, the beats of a read reach the master that      *)
(* asked, in order, none lost and none twice, with its id, from the slave   *)
(* its address belongs to, or as a decode error of as many beats (672-719,  *)
(* 793-892).                                                                *)
THEOREM ReadsComeWhole == Spec => []ReadsInOrder
<1>1. OrderInv => ReadsInOrder
  <2> SUFFICES ASSUME OrderInv, NEW s \in r.valid
               PROVE  /\ reading[s] # None
                      /\ LET req == reading[s].req  n == reading[s].n
                         IN r.beat = Beat(Target(req.addr), req.addr,
                                          IF Target(req.addr) = M_COUNT THEN 0 ELSE n,
                                          n = req.len, req.id)
    BY Zenon DEF ReadsInOrder
  <2>1. IsReading
    BY DEF OrderInv, ReadFlow
  <2>2. PICK req \in Request, n \in Nat :
          /\ s_select \in Masters
          /\ reading[s_select] = [req |-> req, n |-> n] /\ ReadAt(req, n)
    BY <2>1, ReadingNow DEF OrderInv
  <2>3. s = s_select /\ r.beat = ReadBeats(req)[n]
    BY <2>2 DEF ReadAt, Holds
  <2>4. reading[s].req = req /\ reading[s].n = n /\ reading[s] # None
    BY <2>2, <2>3, NoneIsNone
  <2>5. ReadBeats(req)[n] = Beat(Target(req.addr), req.addr,
                                 IF Target(req.addr) = M_COUNT THEN 0 ELSE n,
                                 n = req.len, req.id)
    BY Zenon DEF ReadBeats
  <2>6. QED
    BY <2>3, <2>4, <2>5, Zenon
<1>2. QED
  BY <1>1, OrderInvariance, PTL

LEMMA FirstOpen ==
  ASSUME NEW burst, NEW next
  PROVE  WithOffer(burst, next) # <<>> /\ Head(WithOffer(burst, next)) = burst
  BY DEF WithOffer

(* However both sides stall, the beats of a write reach the slave its       *)
(* address belongs to, in order, none lost and none twice, and the address  *)
(* that goes with them is its own (618-644, 894-985).                       *)
THEOREM WritesComeWhole == Spec => []WritesInOrder
<1>1. IInv /\ OrderInv => WritesInOrder
  <2> SUFFICES ASSUME IInv, OrderInv PROVE WritesInOrder
    OBVIOUS
  <2>1. CASE w.valid \cup out.m_awvalid = {}
    BY <2>1 DEF WritesInOrder
  <2>2. CASE w.valid \cup out.m_awvalid # {}
    <3>1. state \in {"WRITE", "WRITE_RESP"} /\ IsWriting
      BY <2>2 DEF IInv, NothingOutside, OrderInv, Granting, IsWriting
    <3>2. PICK req \in Request, sent \in Nat, landed \in Nat :
            LET burst == [req |-> req, sent |-> sent, landed |-> landed]
            IN  /\ s_select \in Masters /\ axi = req
                /\ WriteAt(s_select, req, sent, landed)
                /\ writing[s_select] = OpenWrites(TRUE, burst, aw[s_select])
      BY <3>1, WritingNow DEF OrderInv
    <3>3. PICK head : head = Head(writing[s_select])
      OBVIOUS
    <3>4. /\ writing[s_select] # <<>>
          /\ head.req = req /\ head.sent = sent /\ head.landed = landed
      <4>1. PICK burst : burst = [req |-> req, sent |-> sent, landed |-> landed]
        OBVIOUS
      <4>2. writing[s_select] = WithOffer(burst, aw[s_select])
        BY <3>2, <4>1 DEF OpenWrites
      <4>3. head = burst /\ writing[s_select] # <<>>
        BY <3>3, <4>2, FirstOpen
      <4>4. QED
        BY <4>1, <4>3
    <3>5. m_select = Target(req.addr) /\ w.valid \cup out.m_awvalid \subseteq {m_select}
      BY <3>1, <3>2 DEF WriteAt, IInv, NothingOutside
    <3>6. ASSUME NEW m \in w.valid
          PROVE  LET queue == writing[w.beat.from]
                 IN /\ queue # <<>>
                    /\ m = Target(Head(queue).req.addr)
                    /\ w.beat = Beat(w.beat.from, Head(queue).req.addr, Head(queue).landed,
                                     Head(queue).landed = Head(queue).req.len, Head(queue).req.id)
      <4>1. w.beat = WriteBeats(s_select, req)[landed]
        BY <3>2, <3>6 DEF WriteAt, Holds
      <4>2. w.beat.from = s_select
        BY <4>1, WriteBeatIs
      <4>3. WriteBeats(s_select, req)[landed] =
              Beat(s_select, req.addr, landed, landed = req.len, req.id)
        BY Zenon DEF WriteBeats
      <4>4. m = Target(head.req.addr)
        BY <3>4, <3>5, <3>6
      <4>5. w.beat = Beat(s_select, head.req.addr, head.landed, head.landed = head.req.len,
                          head.req.id)
        BY <3>4, <4>1, <4>3, Zenon
      <4>6. QED
        BY <3>3, <3>4, <4>2, <4>4, <4>5, Zenon
    <3>7. ASSUME NEW m \in out.m_awvalid
          PROVE  \E s \in Masters :
                   writing[s] # <<>> /\ Head(writing[s]).req = axi /\ m = Target(axi.addr)
      BY <3>2, <3>3, <3>4, <3>5, <3>7
    <3>8. QED
      BY <3>6, <3>7, Zenon DEF WritesInOrder
  <2>3. QED
    BY <2>1, <2>2
<1>2. QED
  BY <1>1, OrderInvariance, PTL

(* A write is answered when all its beats are in the slave, with its id,    *)
(* and with an error if and only if its address belongs to none (645-671).  *)
THEOREM WritesAnswered == Spec => []WriteAnswered
<1>1. OrderInv => WriteAnswered
  <2> SUFFICES ASSUME OrderInv, NEW s \in out.s_bvalid
               PROVE  /\ writing[s] # <<>>
                      /\ LET burst  == Head(writing[s])
                             mapped == Target(burst.req.addr) # M_COUNT
                         IN /\ burst.sent = burst.req.len + 1 /\ axi.id = burst.req.id
                            /\ mapped => burst.landed = burst.sent
                            /\ bresp = (IF mapped THEN "OKAY" ELSE "DECERR")
    BY Zenon DEF WriteAnswered
  <2>1. state = "WAIT_IDLE" /\ s = s_select /\ IsWriting
    BY DEF OrderInv, Wires, Only, Granting, IsWriting
  <2>2. PICK req \in Request, sent \in Nat, landed \in Nat :
          LET burst == [req |-> req, sent |-> sent, landed |-> landed]
          IN  /\ s_select \in Masters /\ axi = req
              /\ WriteAt(s_select, req, sent, landed)
              /\ writing[s_select] = OpenWrites(TRUE, burst, aw[s_select])
    BY <2>1, WritingNow DEF OrderInv
  <2>3. PICK head : head = Head(writing[s])
    OBVIOUS
  <2>4. /\ writing[s] # <<>>
        /\ head.req = req /\ head.sent = sent /\ head.landed = landed
    <3>1. PICK burst : burst = [req |-> req, sent |-> sent, landed |-> landed]
      OBVIOUS
    <3>2. writing[s] = WithOffer(burst, aw[s])
      BY <2>1, <2>2, <3>1 DEF OpenWrites
    <3>3. head = burst /\ writing[s] # <<>>
      BY <2>3, <3>2, FirstOpen
    <3>4. QED
      BY <3>1, <3>3
  <2> DEFINE mapped == Target(req.addr) # M_COUNT
  <2>5. /\ sent = req.len + 1 /\ axi.id = req.id /\ (mapped => landed = sent)
        /\ bresp = (IF mapped THEN "OKAY" ELSE "DECERR")
    BY <2>1, <2>2 DEF WriteAt
  <2>6. QED
    BY <2>3, <2>4, <2>5
<1>2. QED
  BY <1>1, OrderInvariance, PTL
-----------------------------------------------------------------------------
(* What is left of the types.                                               *)
TypeInv ==
  /\ last_grant \in Ports \cup {NoPort}
  /\ state \in {"IDLE", "DECODE", "WRITE", "WRITE_RESP", "WRITE_DROP", "READ", "READ_DROP",
                "WAIT_IDLE"}
  /\ axi \in Request /\ out.m_rready \subseteq Slaves
  /\ m_rvalid \cup m_bvalid \subseteq Slaves

LEMMA InitTypes == Init => TypeInv
<1>1. 0 \in Address
  <2>1. 2 ^ ADDR_WIDTH \in Nat \ {0}
    BY InterconnectAssumption
  <2>2. QED
    BY <2>1 DEF Address
<1>2. 0 \in 0 .. 2 ^ LEN_WIDTH - 1
  <2>1. 2 ^ LEN_WIDTH \in Nat \ {0}
    BY InterconnectAssumption
  <2>2. QED
    BY <2>1
<1>3. QED
  BY <1>1, <1>2 DEF Init, TypeInv, Request

LEMMA NextTypes == IInv' /\ OrderInv /\ TypeInv /\ [Next]_vars => TypeInv'
<1>1. ASSUME IInv', OrderInv, TypeInv, Next PROVE TypeInv'
  <2>1. last_grant' \in Ports \cup {NoPort}
    BY <1>1, GrantAsked DEF Next, Arbiter, TypeInv
  <2>2. axi' \in Request
    <3>1. axi \in Request
      BY <1>1 DEF TypeInv
    <3>2. state = "IDLE" /\ granted => Granted \in Request
      <4>1. \A s \in Masters : ar[s] \in Request \cup {None} /\ aw[s] \in Request \cup {None}
        BY <1>1, InterconnectAssumption DEF OrderInv, Kinds
      <4>2. QED
        BY <1>1, <4>1, Selected DEF OrderInv, Granting, Granted
    <3>3. CountDown(axi.len) \in 0 .. 2 ^ LEN_WIDTH - 1
      <4>1. \A k \in Nat, size \in Nat \ {0} : (k - 1) % size \in 0 .. size - 1
        OBVIOUS
      <4>2. axi.len \in Nat /\ 2 ^ LEN_WIDTH \in Nat \ {0}
        BY <3>1, InterconnectAssumption DEF Request
      <4>3. QED
        BY <4>1, <4>2, Zenon DEF CountDown
    <3>4. [axi EXCEPT !.len = CountDown(@)] \in Request
      BY <3>1, <3>3 DEF Request
    <3>5. \/ state = "IDLE" /\ granted /\ axi' = Granted
          \/ axi' = [axi EXCEPT !.len = CountDown(@)] \/ axi' = axi
      BY <1>1, RegisterStep DEF Next
    <3>6. QED
      BY <3>1, <3>2, <3>4, <3>5
  <2>3. out'.m_rready \subseteq Slaves
    BY <1>1, MasterWires DEF Next, Only, OrderInv, Kinds
  <2>4. m_rvalid' \cup m_bvalid' \subseteq Slaves
    BY <1>1 DEF IInv, OffersHeld
  <2>5. state' \in {"IDLE", "DECODE", "WRITE", "WRITE_RESP", "WRITE_DROP", "READ",
                    "READ_DROP", "WAIT_IDLE"}
    BY <1>1, RegisterStep DEF Next
  <2>6. QED
    BY <2>1, <2>2, <2>3, <2>4, <2>5 DEF TypeInv
<1>2. ASSUME TypeInv, UNCHANGED vars PROVE TypeInv'
  BY <1>2 DEF TypeInv, vars, machine, slaves
<1>3. QED
  BY <1>1, <1>2

(* Every register and wire has its type: the grant is a port's, the machine *)
(* is in one of its states, what is latched is a request, and each ready or *)
(* valid vector has bits of masters or of slaves only, the data paths' at   *)
(* most one (287-460, 793-985).                                             *)
THEOREM TypeCorrect == Spec => []TypeOK
<1>1. IInv /\ OrderInv /\ TypeInv => TypeOK
  <2> SUFFICES ASSUME IInv, OrderInv, TypeInv PROVE TypeOK
    OBVIOUS
  <2>1. s_select \in Masters /\ m_select \in Slaves
    <3>1. 0 \in Masters
      BY PortNumbers DEF Masters
    <3>2. QED
      BY <3>1, Selected DEF OrderInv, Kinds, s_select
  <2>2. /\ grant \in Ports \cup {NoPort} /\ last_grant \in Ports \cup {NoPort}
        /\ m_select \in Slaves /\ axi \in Request
    BY <2>1 DEF OrderInv, Granting, TypeInv
  <2>3. /\ out.s_awready \cup out.s_arready \cup out.s_wready \cup out.s_bvalid \subseteq Masters
        /\ rready \subseteq r.valid /\ bready \subseteq Masters
    BY <2>1 DEF OrderInv, Wires, Only
  <2>4. out.m_awvalid \cup out.m_arvalid \cup out.m_bready \cup out.m_rready \subseteq Slaves
    BY <2>1 DEF IInv, NothingOutside, TypeInv
  <2>5. r.valid \subseteq {s_select} /\ w.valid \subseteq {m_select}
    <3>1. r.valid # {} => r.valid \subseteq {s_select}
      BY DEF OrderInv, ReadFlow, ReadAt, Holds
    <3>2. QED
      BY <3>1 DEF IInv, NothingOutside
  <2>6. \A x, S : S \subseteq {x} => Cardinality(S) <= 1
    <3> SUFFICES ASSUME NEW x, NEW S, S \subseteq {x} PROVE Cardinality(S) <= 1
      OBVIOUS
    <3>1. S = {} \/ S = {x}
      OBVIOUS
    <3>2. Cardinality({}) = 0 /\ Cardinality({x}) = 1
      BY FS_EmptySet, FS_Singleton
    <3>3. QED
      BY <3>1, <3>2
  <2>7. Cardinality(r.valid) <= 1 /\ Cardinality(w.valid) <= 1
    BY <2>5, <2>6
  <2>8. QED
    <3>1. r.valid \cup rready \cup bready \subseteq Masters
      BY <2>1, <2>3, <2>5
    <3>2. w.valid \cup m_rvalid \cup m_bvalid \subseteq Slaves
      BY <2>1, <2>5 DEF TypeInv
    <3>3. QED
      BY <2>2, <2>3, <2>4, <2>7, <3>1, <3>2 DEF TypeOK, TypeInv
<1>2. Init => IInv /\ OrderInv /\ TypeInv
  BY InitInv, InitOrder, InitTypes
<1>3. IInv /\ OrderInv /\ TypeInv /\ [Next]_vars => (IInv /\ OrderInv /\ TypeInv)'
  BY NextInv, OrderNext, NextTypes
<1>4. QED
  BY <1>1, <1>2, <1>3, PTL DEF Spec
=============================================================================
