------------------------ MODULE VersatSessionProofs ------------------------
(* Theorems about VersatSession, for every number and size of buffers and   *)
(* every size of the blocks.                                                *)
EXTENDS VersatSession, FiniteSetTheorems, TLAPS

USE SizesAssumption

(* Where the buffer of the session and the loop over its blocks are, at     *)
(* each point of the library.  This is what makes TypeOK inductive: no      *)
(* access of a block leaves the buffer, and no subtraction of sizes goes    *)
(* below zero.                                                              *)
SessionHasBuffer ==
  (inside /\ ~corrupt) => cur \in Index /\ bufferState[cur] = "RESERVED"

CallInSession ==
  /\ pc # "client" => inside /\ ~corrupt
  /\ corrupt => inside

LoopInBuffer ==
  (inside /\ ~corrupt) =>
    LET b == interface[cur] IN
    /\ pc = "client" => /\ b.mem + b.maxSize = MaxBlock
                        /\ b.mem < ShaBlock
                        /\ b.size <= b.maxSize
                        /\ b.mem + b.size <= PageSize
    /\ pc \in {"hash", "aes"} => /\ off <= end
                                 /\ end <= MaxBlock /\ end <= PageSize
    /\ pc = "pad" => b.size = 0 /\ b.mem < ShaBlock
    /\ pc = "endaes" => b.size = 0 /\ b.mem < AesBlock
    /\ pc = "hashpad" => off <= end /\ end <= 2 * ShaBlock
    /\ pc = "lost" => PageSize < MaxBlock

Control == SessionHasBuffer /\ CallInSession /\ LoopInBuffer

IInv == TypeOK /\ Control
-----------------------------------------------------------------------------
(* Types of the values the actions build.                                   *)

LEMMA ByteTypes ==
  /\ Junk \in Byte /\ Zero \in Byte /\ X80 \in Byte
  /\ \A n \in Int : LenOf(n) \in Byte /\ Pkcs(n) \in Byte
  /\ \A s \in Nat, n \in Int : Msg(s, n) \in Byte
  BY DEF Junk, Zero, X80, LenOf, Pkcs, Msg, Byte, Kinds

LEMMA BlockTypes == JunkBlock \in ShaData /\ NoData \in AesData
  BY ByteTypes DEF JunkBlock, ShaData, NoData, AesData

LEMMA TermTypes ==
  /\ NoTerm \in Term
  /\ \A s \in Nat : Iv(s) \in Term
  /\ \A s, i \in Nat : Out(s, i) \in Term
  /\ \A b \in AesData : DataOf(b) \in Term
  BY BlockTypes DEF NoTerm, Iv, Out, DataOf, Term

LEMMA BufferTypes ==
  /\ FreshBuffer \in Buffer
  /\ \A b \in Buffer :
       /\ b.mem \in Nat /\ b.size \in Nat /\ b.maxSize \in Nat
       /\ Normalize(b) \in Buffer
       /\ Normalize(b).mem = 0 /\ Normalize(b).size = b.size + b.mem
  /\ \A left \in 0 .. MaxBlock :
       LET b == HideData([mem |-> 0, size |-> left, maxSize |-> MaxBlock]) IN
       /\ b \in Buffer
       /\ b.mem = left /\ b.size = 0 /\ b.maxSize = MaxBlock - left
  BY DEF FreshBuffer, Buffer, Normalize, HideData

LEMMA AsIntType == \A n \in Int : AsInt(n) \in Int
  BY DEF AsInt

LEMMA DivType == \A n \in Nat : n \div AesBlock \in Nat
  OBVIOUS

LEMMA EmptyType == <<>> \in Seq(ShaData) /\ <<>> \in Seq(Result)
  OBVIOUS

LEMMA NewSessionTypes ==
  ASSUME InputTypes, OutputTypes, NEW m \in Modes, NEW ms \in SUBSET Modes,
         NewSession(m, ms)
  PROVE  InputTypes' /\ OutputTypes'
<1>1. InputTypes'
  <2>1. disturbed' \in BOOLEAN
    BY DEF NewSession
  <2>2. QED
    BY <2>1 DEF InputTypes, NewSession
<1>2. OutputTypes'
  BY EmptyType DEF OutputTypes, NewSession
<1>3. QED
  BY <1>1, <1>2

(* Sixteen bytes, or sixty-four, inside the buffer of the session.          *)
LEMMA BlockAtType ==
  ASSUME TypeOK, cur \in Index, NEW a \in Nat
  PROVE  /\ a + ShaBlock <= PageSize => ShaBlockAt(a) \in ShaData
         /\ a + AesBlock <= PageSize => AesBlockAt(a) \in AesData
<1>1. \A c \in Addr : ram[cur][c] \in Byte
  BY DEF TypeOK, LibraryTypes
<1>2. ASSUME a + ShaBlock <= PageSize PROVE ShaBlockAt(a) \in ShaData
  <2>1. \A j \in 0 .. ShaBlock - 1 : a + j \in Addr
    BY <1>2 DEF Addr
  <2>2. QED
    BY <1>1, <2>1 DEF ShaBlockAt, ShaData
<1>3. ASSUME a + AesBlock <= PageSize PROVE AesBlockAt(a) \in AesData
  <2>1. \A j \in 0 .. AesBlock - 1 : a + j \in Addr
    BY <1>3 DEF Addr
  <2>2. QED
    BY <1>1, <2>1 DEF AesBlockAt, AesData
<1>4. QED
  BY <1>2, <1>3

LEMMA RunSHATypes ==
  ASSUME AcceleratorTypes, NEW b \in ShaData, RunSHA(b), UNCHANGED aesvars
  PROVE  AcceleratorTypes'
<1>1. Append(absorbed, stage) \in Seq(ShaData)
  BY DEF AcceleratorTypes
<1>2. absorbed' \in Seq(ShaData)
  BY <1>1 DEF AcceleratorTypes, RunSHA
<1>3. stage' \in ShaData /\ known' \in BOOLEAN
  BY DEF AcceleratorTypes, RunSHA
<1>4. lastResult' \in Term /\ lastValToAdd' \in Term
  BY DEF AcceleratorTypes, aesvars
<1>5. QED
  BY <1>2, <1>3, <1>4 DEF AcceleratorTypes
-----------------------------------------------------------------------------
LEMMA InitInv == Init => IInv
<1> SUFFICES ASSUME Init PROVE IInv
  OBVIOUS
<1>1. LibraryTypes
  <2>1. interface \in [Index -> Buffer]
    BY BufferTypes DEF Init
  <2>2. ram \in [Index -> [Addr -> Byte]]
    BY ByteTypes DEF Init
  <2>3. bufferState \in [Index -> {"FREE", "RESERVED"}] /\ counter \in Term
    BY TermTypes DEF Init
  <2>4. inside \in BOOLEAN
    BY DEF Init
  <2>5. QED
    BY <2>1, <2>2, <2>3, <2>4 DEF Init, LibraryTypes
<1>2. AcceleratorTypes
  BY BlockTypes, TermTypes, EmptyType DEF Init, AcceleratorTypes
<1>3. CallTypes
  <2>1. corrupt \in BOOLEAN
    BY DEF Init
  <2>2. QED
    BY <2>1 DEF Init, CallTypes
<1>4. InputTypes
  <2>1. disturbed \in BOOLEAN
    BY DEF Init
  <2>2. QED
    BY <2>1 DEF Init, InputTypes, Modes
<1>5. OutputTypes
  BY EmptyType DEF Init, OutputTypes
<1>6. Control
  BY DEF Init, Control, SessionHasBuffer, CallInSession, LoopInBuffer
<1>7. QED
  BY <1>1, <1>2, <1>3, <1>4, <1>5, <1>6 DEF IInv, TypeOK

(* A Begin that is accepted holds a buffer that was free, or none.          *)
LEMMA ReserveInv ==
  ASSUME IInv, AtClient, ReserveVersatBuffer, inside' = TRUE, pc' = pc
  PROVE  /\ bufferState' \in [Index -> {"FREE", "RESERVED"}]
         /\ interface' \in [Index -> Buffer]
         /\ cur' \in Index \cup {-1}
         /\ corrupt' \in BOOLEAN
         /\ Control'
<1>1. CASE \E i \in Index :
             /\ IsFirstFree(i) /\ cur' = i
             /\ bufferState' = [bufferState EXCEPT ![i] = "RESERVED"]
             /\ interface' = [interface EXCEPT ![i] = FreshBuffer]
             /\ UNCHANGED corrupt
  <2>1. PICK i \in Index :
             /\ cur' = i
             /\ bufferState' = [bufferState EXCEPT ![i] = "RESERVED"]
             /\ interface' = [interface EXCEPT ![i] = FreshBuffer]
             /\ UNCHANGED corrupt
    BY <1>1
  <2>2. /\ bufferState \in [Index -> {"FREE", "RESERVED"}]
        /\ interface \in [Index -> Buffer] /\ corrupt = FALSE /\ pc = "client"
    BY DEF IInv, TypeOK, LibraryTypes, AtClient, CallTypes
  <2>3. interface'[cur'] = FreshBuffer /\ bufferState'[cur'] = "RESERVED"
    BY <2>1, <2>2
  <2>4. Control'
    BY <2>1, <2>2, <2>3
       DEF Control, SessionHasBuffer, CallInSession, LoopInBuffer, FreshBuffer
  <2>5. QED
    BY <2>1, <2>2, <2>4, BufferTypes
<1>2. CASE cur' = -1 /\ corrupt' = TRUE /\ UNCHANGED <<bufferState, interface>>
  <2>1. corrupt' \in BOOLEAN
    BY <1>2
  <2>2. Control'
    BY <1>2 DEF Control, SessionHasBuffer, CallInSession, LoopInBuffer, AtClient
  <2>3. QED
    BY <1>2, <2>1, <2>2 DEF IInv, TypeOK, LibraryTypes
<1>3. QED
  BY <1>1, <1>2 DEF ReserveVersatBuffer

LEMMA BeginSHAInv == IInv /\ BeginSHA => IInv'
<1> SUFFICES ASSUME IInv, BeginSHA PROVE IInv'
  OBVIOUS
<1>1. /\ bufferState' \in [Index -> {"FREE", "RESERVED"}]
      /\ interface' \in [Index -> Buffer]
      /\ cur' \in Index \cup {-1} /\ corrupt' \in BOOLEAN /\ Control'
  BY ReserveInv DEF BeginSHA, CheckBegin, InitVersatSHA
<1>2. InputTypes' /\ OutputTypes'
  <2>1. mode \in Modes /\ modes \in SUBSET Modes /\ InputTypes /\ OutputTypes
    BY DEF IInv, TypeOK, InputTypes
  <2>2. QED
    BY <2>1, NewSessionTypes DEF BeginSHA, CheckBegin, InitVersatSHA
<1>3. LibraryTypes'
  <2>1. inside' \in BOOLEAN
    BY DEF BeginSHA, CheckBegin, InitVersatSHA
  <2>2. QED
    BY <1>1, <2>1 DEF BeginSHA, CheckBegin, InitVersatSHA, IInv, TypeOK,
       LibraryTypes, NotLoaded, NoBytes
<1>4. AcceleratorTypes'
  BY DEF BeginSHA, CheckBegin, InitVersatSHA, IInv, TypeOK, AcceleratorTypes,
     accvars, shavars, aesvars
<1>5. CallTypes'
  BY <1>1 DEF BeginSHA, CheckBegin, InitVersatSHA, IInv, TypeOK, CallTypes
<1>6. QED
  BY <1>1, <1>2, <1>3, <1>4, <1>5 DEF IInv, TypeOK

LEMMA BeginAESInv ==
  ASSUME IInv, NEW m \in Modes, NEW d \in BOOLEAN, BeginAES(m, d)
  PROVE  IInv'
<1>1. /\ bufferState' \in [Index -> {"FREE", "RESERVED"}]
      /\ interface' \in [Index -> Buffer]
      /\ cur' \in Index \cup {-1} /\ corrupt' \in BOOLEAN /\ Control'
  BY ReserveInv DEF BeginAES, CheckBegin, ExpandKey
<1>2. /\ session \in Nat /\ modes \in SUBSET Modes
      /\ counter \in Term /\ lastResult \in Term /\ lastValToAdd \in Term
  BY DEF IInv, TypeOK, InputTypes, LibraryTypes, AcceleratorTypes
<1>3. InputTypes' /\ OutputTypes'
  <2>1. PICK ms \in SUBSET Modes : NewSession(m, ms)
    BY <1>2 DEF BeginAES, CheckBegin, ExpandKey
  <2>2. QED
    BY <2>1, NewSessionTypes DEF IInv, TypeOK
<1>4. counter' \in Term /\ lastResult' \in Term /\ lastValToAdd' \in Term
  <2>1. Iv(session + 1) \in Term /\ NoTerm \in Term
    BY <1>2, TermTypes
  <2>2. QED
    BY <1>2, <2>1 DEF BeginAES, CheckBegin, ExpandKey
<1>5. LibraryTypes'
  <2>1. inside' \in BOOLEAN
    BY DEF BeginAES, CheckBegin, ExpandKey
  <2>2. union0' \in 0 .. 2
    BY DEF BeginAES, CheckBegin, ExpandKey, TypeOf, Modes
  <2>3. ram' \in [Index -> [Addr -> Byte]] /\ lastByte' \in 0 .. MaxByte
    BY DEF BeginAES, CheckBegin, ExpandKey, IInv, TypeOK, LibraryTypes
  <2>4. lastType' \in {"NONE", "SHA", "AES", "InvAES"} /\ bytesProcessed' \in Int
    BY DEF BeginAES, CheckBegin, ExpandKey, NoBytes
  <2>5. QED
    BY <1>1, <1>4, <2>1, <2>2, <2>3, <2>4 DEF LibraryTypes
<1>6. AcceleratorTypes'
  <2>1. stage' \in ShaData /\ absorbed' \in Seq(ShaData)
    BY BlockTypes, EmptyType DEF BeginAES, CheckBegin, ExpandKey
  <2>2. known' \in BOOLEAN
    BY DEF BeginAES, CheckBegin, ExpandKey
  <2>3. QED
    BY <1>4, <2>1, <2>2 DEF AcceleratorTypes
<1>7. CallTypes'
  BY <1>1 DEF BeginAES, CheckBegin, ExpandKey, IInv, TypeOK, CallTypes
<1>8. QED
  BY <1>1, <1>3, <1>5, <1>6, <1>7 DEF IInv, TypeOK

LEMMA RefusedBeginInv ==
  ASSUME IInv, NEW m \in Modes, RefusedBegin(m)
  PROVE  IInv'
<1>1. Control'
  BY DEF IInv, RefusedBegin, Control, SessionHasBuffer, CallInSession, LoopInBuffer
<1>2. InputTypes'
  <2>1. disturbed' \in BOOLEAN
    BY DEF RefusedBegin
  <2>2. QED
    BY <2>1 DEF IInv, RefusedBegin, TypeOK, InputTypes
<1>3. LibraryTypes'
  <2>1. union0' \in 0 .. 2
    BY DEF RefusedBegin, TypeOf, Modes
  <2>2. QED
    BY <2>1 DEF IInv, RefusedBegin, TypeOK, LibraryTypes
<1>4. AcceleratorTypes' /\ CallTypes' /\ OutputTypes'
  BY DEF IInv, RefusedBegin, TypeOK, AcceleratorTypes, accvars, shavars, aesvars,
         CallTypes, OutputTypes, outputs
<1>5. QED
  BY <1>1, <1>2, <1>3, <1>4 DEF IInv, TypeOK

(* The buffer of the session, and the bounds on its fields.                 *)
LEMMA SessionBuffer ==
  ASSUME IInv, inside, ~corrupt
  PROVE  /\ cur \in Index /\ bufferState[cur] = "RESERVED"
         /\ interface[cur] \in Buffer
         /\ interface[cur].mem \in Nat /\ interface[cur].size \in Nat
         /\ interface[cur].maxSize \in Nat
         /\ pc = "client" =>
              /\ interface[cur].mem + interface[cur].maxSize = MaxBlock
              /\ interface[cur].mem < ShaBlock
              /\ interface[cur].size <= interface[cur].maxSize
              /\ interface[cur].mem + interface[cur].size <= PageSize
<1>1. cur \in Index /\ bufferState[cur] = "RESERVED"
  BY DEF IInv, Control, SessionHasBuffer
<1>2. interface[cur] \in Buffer
  BY <1>1 DEF IInv, TypeOK, LibraryTypes
<1>3. QED
  BY <1>1, <1>2, BufferTypes DEF IInv, Control, LoopInBuffer

LEMMA FillInv ==
  ASSUME IInv, NEW n \in 1 .. MaxBlock, Fill(n)
  PROVE  IInv'
<1> DEFINE b == interface[cur]
           c == [mem |-> b.mem, size |-> b.size + n, maxSize |-> b.maxSize]
<1>1. /\ cur \in Index /\ b.mem \in Nat /\ b.size \in Nat /\ b.maxSize \in Nat
      /\ b.mem + b.maxSize = MaxBlock /\ b.mem < ShaBlock
      /\ pc = "client" /\ ~corrupt /\ inside
  BY SessionBuffer DEF Fill, MayLoad, AtClient
<1>2. c \in Buffer /\ c.mem = b.mem /\ c.size = b.size + n /\ c.maxSize = b.maxSize
  BY <1>1 DEF Buffer
<1>3. interface' = [interface EXCEPT ![cur] = c] /\ UNCHANGED <<cur, pc, inside, corrupt>>
  BY DEF Fill
<1>4. interface \in [Index -> Buffer] /\ session \in Nat /\ fed \in Nat
  BY DEF IInv, TypeOK, LibraryTypes, InputTypes
<1>5. interface' \in [Index -> Buffer] /\ interface'[cur'] = c
  BY <1>1, <1>2, <1>3, <1>4
<1>6. c.size <= c.maxSize /\ c.mem + c.size <= PageSize
  <2>1. n <= b.maxSize - b.size /\ (b.mem + b.size) + n <= PageSize
    BY DEF Fill, MayLoad
  <2> HIDE DEF b, c
  <2>2. QED
    BY <1>1, <1>2, <2>1
<1>7. ram' \in [Index -> [Addr -> Byte]]
  <2> DEFINE new == [a \in Addr |-> IF a \in b.mem + b.size .. b.mem + b.size + n - 1
                               THEN Msg(session, fed + (a - (b.mem + b.size)) + 1)
                               ELSE ram[cur][a]]
  <2>1. ram \in [Index -> [Addr -> Byte]]
    BY DEF IInv, TypeOK, LibraryTypes
  <2>2. ASSUME NEW a \in Addr PROVE new[a] \in Byte
    <3>1. a \in Int /\ fed + (a - (b.mem + b.size)) + 1 \in Int
      BY <1>1, <1>4 DEF Addr
    <3>2. Msg(session, fed + (a - (b.mem + b.size)) + 1) \in Byte
      BY <1>4, <3>1, ByteTypes
    <3>3. ram[cur][a] \in Byte
      BY <1>1, <2>1
    <3>4. QED
      BY <3>2, <3>3
  <2>3. new \in [Addr -> Byte]
    BY <2>2
  <2>4. ram' = [ram EXCEPT ![cur] = new]
    BY DEF Fill
  <2> HIDE DEF new
  <2>5. QED
    BY <1>1, <2>1, <2>3, <2>4
<1> HIDE DEF c, b
<1>8. Control'
  <2>1. SessionHasBuffer' /\ CallInSession'
    BY DEF Fill, MayLoad, IInv, Control, SessionHasBuffer, CallInSession
  <2>2. LoopInBuffer'
    BY <1>1, <1>2, <1>3, <1>5, <1>6 DEF LoopInBuffer
  <2>3. QED
    BY <2>1, <2>2 DEF Control
<1>9. LibraryTypes'
  BY <1>5, <1>7 DEF Fill, IInv, TypeOK, LibraryTypes
<1>10. InputTypes'
  BY DEF Fill, IInv, TypeOK, InputTypes
<1>11. AcceleratorTypes' /\ CallTypes' /\ OutputTypes'
  BY DEF IInv, Fill, TypeOK, AcceleratorTypes, accvars, shavars, aesvars,
         CallTypes, OutputTypes, outputs
<1>12. QED
  BY <1>8, <1>9, <1>10, <1>11 DEF IInv, TypeOK

(* The client is led out of the mapping by a buffer that is mapped shorter  *)
(* than it declares, and in no other way.                                   *)
LEMMA OverrunInv ==
  ASSUME IInv, NEW n \in 1 .. MaxBlock, Overrun(n)
  PROVE  IInv'
<1>1. /\ inside /\ ~corrupt
      /\ interface[cur].mem \in Nat /\ interface[cur].size \in Nat
      /\ interface[cur].maxSize \in Nat
      /\ interface[cur].mem + interface[cur].maxSize = MaxBlock
  BY SessionBuffer DEF Overrun, MayLoad, AtClient
<1>2. PageSize < MaxBlock
  <2>1. /\ n <= interface[cur].maxSize - interface[cur].size
        /\ interface[cur].mem + interface[cur].size + n > PageSize
    BY DEF Overrun, MayLoad
  <2>2. QED
    BY <1>1, <2>1
<1>3. /\ pc' = "lost" /\ UNCHANGED <<libvars, accvars, call, off, end, cur, corrupt>>
      /\ UNCHANGED <<inputs, outputs>>
  BY DEF Overrun
<1>4. Control'
  BY <1>1, <1>2, <1>3
     DEF libvars, IInv, Control, SessionHasBuffer, CallInSession, LoopInBuffer
<1>5. LibraryTypes' /\ AcceleratorTypes' /\ CallTypes'
  BY <1>3 DEF IInv, TypeOK, LibraryTypes, libvars, AcceleratorTypes, accvars,
     shavars, aesvars, CallTypes
<1>6. InputTypes' /\ OutputTypes'
  BY <1>3 DEF IInv, TypeOK, InputTypes, inputs, OutputTypes, outputs
<1>7. QED
  BY <1>4, <1>5, <1>6 DEF IInv, TypeOK

(* ProcessSHA and ProcessAES start over the whole buffer.                   *)
LEMMA EnterInv ==
  ASSUME IInv, NEW c \in {"process", "end"}, EnterSHA(c) \/ EnterAES(c)
  PROVE  IInv'
<1>1. /\ cur \in Index /\ interface[cur] \in Buffer
      /\ interface[cur].mem \in Nat /\ interface[cur].size \in Nat
      /\ interface[cur].maxSize \in Nat
      /\ interface[cur].mem + interface[cur].maxSize = MaxBlock
      /\ interface[cur].size <= interface[cur].maxSize
      /\ interface[cur].mem + interface[cur].size <= PageSize
      /\ ~corrupt /\ inside
  BY SessionBuffer DEF EnterSHA, EnterAES, AtClient
<1>2. /\ interface' = [interface EXCEPT ![cur] = Normalize(@)]
      /\ off' = 0 /\ end' = interface'[cur].size
      /\ pc' \in {"hash", "aes"} /\ call' = c
      /\ UNCHANGED <<cur, inside, corrupt, bufferState>>
  BY DEF EnterSHA, EnterAES
<1>3. interface \in [Index -> Buffer]
  BY DEF IInv, TypeOK, LibraryTypes
<1>4. /\ interface' \in [Index -> Buffer]
      /\ end' = interface[cur].size + interface[cur].mem
  BY <1>1, <1>2, <1>3, BufferTypes
<1>5. end' \in Nat /\ end' <= MaxBlock /\ end' <= PageSize
  BY <1>1, <1>4, SMTT(30)
<1>6. Control'
  <2>1. SessionHasBuffer' /\ CallInSession'
    BY <1>1, <1>2 DEF IInv, Control, SessionHasBuffer, CallInSession
  <2>2. LoopInBuffer'
    BY <1>2, <1>5 DEF LoopInBuffer
  <2>3. QED
    BY <2>1, <2>2 DEF Control
<1>7. LibraryTypes'
  BY <1>4 DEF EnterSHA, EnterAES, IInv, TypeOK, LibraryTypes
<1>8. CallTypes'
  BY <1>2, <1>5 DEF IInv, TypeOK, CallTypes
<1>9. AcceleratorTypes' /\ InputTypes' /\ OutputTypes'
  BY DEF IInv, EnterSHA, EnterAES, TypeOK, AcceleratorTypes, accvars, shavars,
         aesvars, InputTypes, inputs, OutputTypes, outputs
<1>10. QED
  BY <1>6, <1>7, <1>8, <1>9 DEF IInv, TypeOK

LEMMA HashBlockInv == IInv /\ HashBlock => IInv'
<1> SUFFICES ASSUME IInv, HashBlock PROVE IInv'
  OBVIOUS
<1>1. /\ off \in Nat /\ end \in Nat /\ inside /\ ~corrupt /\ cur \in Index
      /\ pc \in {"hash", "hashpad"}
  BY DEF HashBlock, IInv, TypeOK, CallTypes, Control, CallInSession, SessionHasBuffer
<1>2. end <= PageSize /\ off + ShaBlock <= end
  BY <1>1 DEF HashBlock, IInv, Control, LoopInBuffer
<1>3. ShaBlockAt(off) \in ShaData
  BY <1>1, <1>2, BlockAtType DEF IInv
<1>4. AcceleratorTypes' /\ union0' \in 0 .. 2
  <2>1. AcceleratorTypes /\ UNCHANGED aesvars /\ union0 \in 0 .. 2
    BY DEF HashBlock, IInv, TypeOK, LibraryTypes
  <2>2. CASE /\ stage' = ShaBlockAt(off) /\ known' = TRUE /\ absorbed' = <<>>
             /\ union0' = 1
    <3>1. known' \in BOOLEAN
      BY <2>2
    <3>2. QED
      BY <1>3, <2>1, <2>2, <3>1, EmptyType DEF AcceleratorTypes, aesvars
  <2>3. CASE RunSHA(ShaBlockAt(off)) /\ UNCHANGED union0
    BY <1>3, <2>1, <2>3, RunSHATypes
  <2>4. QED
    BY <2>2, <2>3 DEF HashBlock
<1>5. Control'
  <2>1. /\ off' = off + ShaBlock
        /\ UNCHANGED <<end, pc, inside, corrupt, interface, bufferState, cur>>
    BY DEF HashBlock
  <2>2. QED
    BY <1>1, <1>2, <2>1
       DEF IInv, Control, SessionHasBuffer, CallInSession, LoopInBuffer
<1>6. LibraryTypes'
  BY <1>4 DEF HashBlock, IInv, TypeOK, LibraryTypes
<1>7. CallTypes'
  BY <1>1 DEF HashBlock, IInv, TypeOK, CallTypes
<1>8. InputTypes' /\ OutputTypes'
  BY DEF IInv, HashBlock, TypeOK, InputTypes, inputs, OutputTypes, outputs
<1>9. QED
  BY <1>4, <1>5, <1>6, <1>7, <1>8 DEF IInv, TypeOK

(* The bytes left after the loop over blocks move to the front.             *)
LEMMA KeepRestTypes ==
  ASSUME IInv, cur \in Index, end \in Nat, off \in Nat, off <= end,
         end <= MaxBlock, end <= PageSize, KeepRest(end - off), cur' = cur
  PROVE  /\ interface' \in [Index -> Buffer]
         /\ ram' \in [Index -> [Addr -> Byte]]
         /\ interface'[cur'].mem = end - off /\ interface'[cur'].size = 0
         /\ interface'[cur'].maxSize = MaxBlock - (end - off)
<1> DEFINE left == end - off
           b == HideData([mem |-> 0, size |-> left, maxSize |-> MaxBlock])
           moved == [a \in Addr |-> IF a < left THEN ram[cur][off + a] ELSE ram[cur][a]]
<1>1. interface \in [Index -> Buffer] /\ ram \in [Index -> [Addr -> Byte]]
  BY DEF IInv, TypeOK, LibraryTypes
<1>2. left \in 0 .. MaxBlock
  OBVIOUS
<1>3. b \in Buffer /\ b.mem = left /\ b.size = 0 /\ b.maxSize = MaxBlock - left
  BY <1>2, BufferTypes
<1>4. interface' = [interface EXCEPT ![cur] = b] /\ ram' = [ram EXCEPT ![cur] = moved]
  BY DEF KeepRest
<1>5. ASSUME NEW a \in Addr PROVE moved[a] \in Byte
  <2>1. \A x \in Addr : ram[cur][x] \in Byte
    BY <1>1
  <2>2. a < left => off + a \in Addr
    BY DEF Addr
  <2>3. QED
    BY <2>1, <2>2
<1>6. moved \in [Addr -> Byte]
  BY <1>5
<1> HIDE DEF moved, b
<1>7. QED
  BY <1>1, <1>3, <1>4, <1>6

LEMMA FinishProcessSHAInv == IInv /\ FinishProcessSHA => IInv'
<1> SUFFICES ASSUME IInv, FinishProcessSHA PROVE IInv'
  OBVIOUS
<1>1. /\ off \in Nat /\ end \in Nat /\ inside /\ ~corrupt /\ cur \in Index
      /\ off <= end /\ end <= MaxBlock /\ end <= PageSize /\ end < off + ShaBlock
      /\ call \in {"process", "end"} /\ bytesProcessed \in Int
  BY DEF FinishProcessSHA, LoopDone, IInv, TypeOK, CallTypes, LibraryTypes,
         Control, CallInSession, SessionHasBuffer, LoopInBuffer
<1>2. /\ UNCHANGED <<cur, off, end, inside, corrupt, bufferState, call>>
      /\ pc' \in {"pad", "client"} /\ KeepRest(end - off)
  BY <1>1 DEF FinishProcessSHA
<1>3. /\ interface' \in [Index -> Buffer] /\ ram' \in [Index -> [Addr -> Byte]]
      /\ interface'[cur'].mem = end - off /\ interface'[cur'].size = 0
      /\ interface'[cur'].maxSize = MaxBlock - (end - off)
  BY <1>1, <1>2, KeepRestTypes
<1>4. Control'
  <2>1. SessionHasBuffer' /\ CallInSession'
    BY <1>1, <1>2 DEF IInv, Control, SessionHasBuffer, CallInSession
  <2>2. LoopInBuffer'
    BY <1>1, <1>2, <1>3 DEF LoopInBuffer
  <2>3. QED
    BY <2>1, <2>2 DEF Control
<1>5. LibraryTypes'
  <2>1. bytesProcessed' \in Int
    <3>1. bytesProcessed + off \in Int
      BY <1>1
    <3>2. QED
      BY <3>1, AsIntType DEF FinishProcessSHA
  <2>2. QED
    BY <1>3, <2>1 DEF FinishProcessSHA, IInv, TypeOK, LibraryTypes
<1>6. CallTypes'
  BY <1>1, <1>2 DEF IInv, TypeOK, CallTypes
<1>7. AcceleratorTypes' /\ InputTypes' /\ OutputTypes'
  BY DEF IInv, FinishProcessSHA, TypeOK, AcceleratorTypes, accvars, shavars,
         aesvars, InputTypes, inputs, OutputTypes, outputs
<1>8. QED
  BY <1>4, <1>5, <1>6, <1>7 DEF IInv, TypeOK

LEMMA PadSHAInv == IInv /\ PadSHA => IInv'
<1> SUFFICES ASSUME IInv, PadSHA PROVE IInv'
  OBVIOUS
<1> DEFINE b == Normalize(interface[cur])
           inlen == b.size
           size == PaddedSize(inlen)
           padded == [a \in Addr |-> IF a < inlen \/ a >= size THEN ram[cur][a]
                               ELSE IF a = inlen THEN X80
                               ELSE IF a < size - LenField THEN Zero
                               ELSE LenOf(bytesProcessed + inlen)]
<1>1. inside /\ ~corrupt /\ cur \in Index /\ pc = "pad"
  BY DEF PadSHA, IInv, Control, CallInSession, SessionHasBuffer
<1>2. b \in Buffer /\ inlen \in Nat /\ size \in {ShaBlock, 2 * ShaBlock}
  BY <1>1, SessionBuffer, BufferTypes DEF PaddedSize
<1>3. /\ interface' = [interface EXCEPT ![cur] = b]
      /\ ram' = [ram EXCEPT ![cur] = padded]
      /\ off' = 0 /\ end' = size /\ pc' = "hashpad"
      /\ UNCHANGED <<cur, inside, corrupt, bufferState, call>>
  BY DEF PadSHA
<1>4. /\ interface \in [Index -> Buffer] /\ ram \in [Index -> [Addr -> Byte]]
      /\ bytesProcessed \in Int
  BY DEF IInv, TypeOK, LibraryTypes
<1>5. padded \in [Addr -> Byte]
  <2>1. bytesProcessed + inlen \in Int
    BY <1>2, <1>4
  <2>2. LenOf(bytesProcessed + inlen) \in Byte /\ X80 \in Byte /\ Zero \in Byte
    BY <2>1, ByteTypes
  <2>3. \A a \in Addr : ram[cur][a] \in Byte
    BY <1>1, <1>4
  <2>4. \A a \in Addr : padded[a] \in Byte
    BY <2>2, <2>3
  <2>5. QED
    BY <2>4
<1> HIDE DEF padded, b, inlen, size
<1>6. interface' \in [Index -> Buffer] /\ ram' \in [Index -> [Addr -> Byte]]
  BY <1>1, <1>2, <1>3, <1>4, <1>5
<1>7. Control'
  <2>1. SessionHasBuffer' /\ CallInSession'
    BY <1>1, <1>3 DEF IInv, Control, SessionHasBuffer, CallInSession
  <2>2. LoopInBuffer'
    BY <1>2, <1>3 DEF LoopInBuffer
  <2>3. QED
    BY <2>1, <2>2 DEF Control
<1>8. LibraryTypes'
  BY <1>6 DEF PadSHA, IInv, TypeOK, LibraryTypes
<1>9. CallTypes'
  BY <1>2, <1>3 DEF IInv, TypeOK, CallTypes
<1>10. AcceleratorTypes' /\ InputTypes' /\ OutputTypes'
  BY DEF IInv, PadSHA, TypeOK, AcceleratorTypes, accvars, shavars, aesvars,
         InputTypes, inputs, OutputTypes, outputs
<1>11. QED
  BY <1>7, <1>8, <1>9, <1>10 DEF IInv, TypeOK

LEMMA FlushSHAInv == IInv /\ FlushSHA => IInv'
<1> SUFFICES ASSUME IInv, FlushSHA PROVE IInv'
  OBVIOUS
<1>1. AcceleratorTypes'
  <2>1. AcceleratorTypes /\ stage \in ShaData
    BY DEF IInv, TypeOK, AcceleratorTypes
  <2>2. QED
    BY <2>1, RunSHATypes DEF FlushSHA
<1>2. OutputTypes'
  <2>1. digest' \in Seq(ShaData)
    BY <1>1 DEF FlushSHA, AcceleratorTypes
  <2>2. QED
    BY <2>1 DEF FlushSHA, IInv, TypeOK, OutputTypes
<1>3. Control'
  BY DEF FlushSHA, IInv, Control, SessionHasBuffer, CallInSession, LoopInBuffer
<1>4. LibraryTypes'
  <2>1. inside' \in BOOLEAN
    BY DEF FlushSHA
  <2>2. QED
    BY <2>1 DEF FlushSHA, IInv, TypeOK, LibraryTypes
<1>5. CallTypes' /\ InputTypes'
  BY DEF FlushSHA, IInv, TypeOK, CallTypes, InputTypes, inputs
<1>6. QED
  BY <1>1, <1>2, <1>3, <1>4, <1>5 DEF IInv, TypeOK

(* One use of the AES unit.                                                 *)
LEMMA EncryptTypes ==
  ASSUME IInv, NEW data \in AesData, Encrypt(data)
  PROVE  /\ lastValToAdd' \in Term /\ lastResult' \in Term
         /\ Append(results, Encrypted(data)) \in Seq(Result)
<1>1. /\ counter \in Term /\ lastResult \in Term /\ lastValToAdd \in Term
      /\ session \in Nat /\ results \in Seq(Result)
  BY DEF IInv, TypeOK, LibraryTypes, AcceleratorTypes, InputTypes, OutputTypes
<1>2. DataOf(data) \in Term /\ Addition(data) \in Term
  BY <1>1, TermTypes DEF Addition
<1>3. Out(session, Len(results) + 1) \in Term
  <2>1. Len(results) + 1 \in Nat
    BY <1>1
  <2>2. QED
    BY <1>1, <2>1, TermTypes
<1>4. Encrypted(data) \in Result
  BY <1>1, <1>2 DEF Encrypted, Result
<1>5. Append(results, Encrypted(data)) \in Seq(Result)
  BY <1>1, <1>4
<1>6. QED
  BY <1>1, <1>2, <1>3, <1>5, TermTypes DEF Encrypt

LEMMA DecryptTypes ==
  ASSUME IInv, NEW data \in AesData, Decrypt(data)
  PROVE  /\ lastValToAdd' \in Term /\ lastResult' \in Term /\ counter' \in Term
         /\ results' \in Seq(Result)
<1> DEFINE add == IF Type = "CBC" THEN counter ELSE lastValToAdd
           r == [x |-> DataOf(data), pre |-> lastResult, post |-> add]
<1>1. /\ counter \in Term /\ lastResult \in Term /\ lastValToAdd \in Term
      /\ results \in Seq(Result)
  BY DEF IInv, TypeOK, LibraryTypes, AcceleratorTypes, OutputTypes
<1>2. DataOf(data) \in Term /\ add \in Term
  BY <1>1, TermTypes
<1>3. r \in Result
  BY <1>1, <1>2 DEF Result
<1>4. Append(results, r) \in Seq(Result)
  BY <1>1, <1>3
<1>5. QED
  BY <1>1, <1>2, <1>4, TermTypes DEF Decrypt

LEMMA AesStepInv == IInv /\ AesStep => IInv'
<1> SUFFICES ASSUME IInv, AesStep PROVE IInv'
  OBVIOUS
<1> DEFINE data == AesBlockAt(off)
<1>1. /\ off \in Nat /\ end \in Nat /\ inside /\ ~corrupt /\ cur \in Index
      /\ pc = "aes"
  BY DEF AesStep, IInv, TypeOK, CallTypes, Control, CallInSession, SessionHasBuffer
<1>2. end <= PageSize /\ off + AesBlock <= end
  BY <1>1 DEF AesStep, IInv, Control, LoopInBuffer
<1>3. data \in AesData
  BY <1>1, <1>2, BlockAtType DEF IInv
<1>4. /\ lastValToAdd' \in Term /\ lastResult' \in Term /\ counter' \in Term
      /\ results' \in Seq(Result)
  <2>1. CASE /\ Encrypt(data) /\ results' = Append(results, Encrypted(data))
             /\ UNCHANGED counter
    BY <1>3, <2>1, EncryptTypes DEF IInv, TypeOK, LibraryTypes
  <2>2. CASE Decrypt(data)
    BY <1>3, <2>2, DecryptTypes
  <2>3. QED
    BY <2>1, <2>2 DEF AesStep
<1> HIDE DEF data
<1>5. Control'
  <2>1. /\ off' = off + AesBlock
        /\ UNCHANGED <<end, pc, inside, corrupt, interface, bufferState, cur>>
    BY DEF AesStep
  <2>2. QED
    BY <1>1, <1>2, <2>1
       DEF IInv, Control, SessionHasBuffer, CallInSession, LoopInBuffer
<1>6. LibraryTypes'
  BY <1>4 DEF AesStep, IInv, TypeOK, LibraryTypes
<1>7. CallTypes'
  BY <1>1 DEF AesStep, IInv, TypeOK, CallTypes
<1>8. AcceleratorTypes'
  BY <1>4 DEF AesStep, IInv, TypeOK, AcceleratorTypes, shavars
<1>9. InputTypes' /\ OutputTypes'
  BY <1>4 DEF AesStep, IInv, TypeOK, InputTypes, inputs, OutputTypes
<1>10. QED
  BY <1>5, <1>6, <1>7, <1>8, <1>9 DEF IInv, TypeOK

LEMMA FinishProcessAESInv ==
  ASSUME IInv, NEW byte \in 0 .. MaxByte, FinishProcessAES(byte)
  PROVE  IInv'
<1>1. /\ off \in Nat /\ end \in Nat /\ inside /\ ~corrupt /\ cur \in Index
      /\ off <= end /\ end <= MaxBlock /\ end <= PageSize /\ end < off + AesBlock
      /\ call \in {"process", "end"} /\ bytesProcessed \in Int
      /\ lastByte \in 0 .. MaxByte
  BY DEF FinishProcessAES, LoopDone, IInv, TypeOK, CallTypes, LibraryTypes,
         Control, CallInSession, SessionHasBuffer, LoopInBuffer
<1>2. /\ UNCHANGED <<cur, off, end, inside, corrupt, bufferState, call>>
      /\ pc' \in {"endaes", "client"} /\ KeepRest(end - off)
  BY DEF FinishProcessAES
<1>3. /\ interface' \in [Index -> Buffer] /\ ram' \in [Index -> [Addr -> Byte]]
      /\ interface'[cur'].mem = end - off /\ interface'[cur'].size = 0
      /\ interface'[cur'].maxSize = MaxBlock - (end - off)
  BY <1>1, <1>2, KeepRestTypes
<1>4. Control'
  <2>1. SessionHasBuffer' /\ CallInSession'
    BY <1>1, <1>2 DEF IInv, Control, SessionHasBuffer, CallInSession
  <2>2. LoopInBuffer'
    BY <1>1, <1>2, <1>3 DEF LoopInBuffer
  <2>3. QED
    BY <2>1, <2>2 DEF Control
<1>5. LibraryTypes'
  <2>1. bytesProcessed' \in Int
    <3>1. bytesProcessed + off \in Int
      BY <1>1
    <3>2. QED
      BY <3>1, AsIntType DEF FinishProcessAES
  <2>2. lastByte' \in 0 .. MaxByte
    BY <1>1 DEF FinishProcessAES
  <2>3. QED
    BY <1>3, <2>1, <2>2 DEF FinishProcessAES, IInv, TypeOK, LibraryTypes
<1>6. CallTypes'
  BY <1>1, <1>2 DEF IInv, TypeOK, CallTypes
<1>7. OutputTypes'
  <2>1. off \div AesBlock \in Nat /\ Len(results) \in Nat
    <3>1. off \div AesBlock \in Nat
      BY <1>1, DivType
    <3>2. Len(results) \in Nat
      BY DEF IInv, TypeOK, OutputTypes
    <3>3. QED
      BY <3>1, <3>2
  <2>2. written' \in Nat /\ endBlocks' \in Nat
    BY <2>1 DEF FinishProcessAES, IInv, TypeOK, OutputTypes
  <2>3. QED
    BY <2>2 DEF FinishProcessAES, IInv, TypeOK, OutputTypes
<1>8. AcceleratorTypes' /\ InputTypes'
  BY DEF IInv, FinishProcessAES, TypeOK, AcceleratorTypes, accvars, shavars,
         aesvars, InputTypes, inputs
<1>9. QED
  BY <1>4, <1>5, <1>6, <1>7, <1>8 DEF IInv, TypeOK

LEMMA EndEncryptInv == IInv /\ EndEncrypt => IInv'
<1> SUFFICES ASSUME IInv, EndEncrypt PROVE IInv'
  OBVIOUS
<1> DEFINE b == Normalize(interface[cur])
           pad == AesBlock - b.size
           last == [j \in 0 .. AesBlock - 1 |->
                      IF j < b.size THEN ram[cur][j] ELSE Pkcs(pad)]
           c == [mem |-> b.mem, size |-> AesBlock, maxSize |-> b.maxSize]
           filled == [a \in Addr |-> IF a < AesBlock THEN last[a] ELSE ram[cur][a]]
<1>1. inside /\ ~corrupt /\ cur \in Index /\ pc = "endaes"
  BY DEF EndEncrypt, FreeVersatBuffer, IInv, Control, CallInSession,
     SessionHasBuffer
<1>2. b \in Buffer /\ b.size \in Nat /\ b.mem \in Nat /\ b.maxSize \in Nat
  BY <1>1, SessionBuffer, BufferTypes
<1>3. /\ interface \in [Index -> Buffer] /\ ram \in [Index -> [Addr -> Byte]]
      /\ bytesProcessed \in Int /\ bufferState \in [Index -> {"FREE", "RESERVED"}]
  BY DEF IInv, TypeOK, LibraryTypes
<1>4. ASSUME NEW j \in 0 .. AesBlock - 1 PROVE last[j] \in Byte
  <2>1. j \in Addr
    BY DEF Addr
  <2>2. ram[cur][j] \in Byte
    BY <1>1, <1>3, <2>1
  <2>3. pad \in Int
    BY <1>2
  <2>4. Pkcs(pad) \in Byte
    BY <2>3, ByteTypes
  <2>5. QED
    BY <2>2, <2>4
<1>5. last \in AesData
  BY <1>4 DEF AesData
<1>6. filled \in [Addr -> Byte]
  <2>1. ASSUME NEW a \in Addr PROVE filled[a] \in Byte
    <3>1. a < AesBlock => a \in 0 .. AesBlock - 1
      BY DEF Addr
    <3>2. ram[cur][a] \in Byte
      BY <1>1, <1>3
    <3> HIDE DEF last
    <3>3. QED
      BY <1>4, <3>1, <3>2
  <2>2. QED
    BY <2>1
<1>7. c \in Buffer
  BY <1>2 DEF Buffer
<1>8. /\ interface' = [interface EXCEPT ![cur] = c]
      /\ ram' = [ram EXCEPT ![cur] = filled]
      /\ bufferState' = [bufferState EXCEPT ![cur] = "FREE"]
      /\ bytesProcessed' = AsInt(bytesProcessed + AesBlock)
      /\ Encrypt(last) /\ results' = Append(results, Encrypted(last))
      /\ written' = Len(results) + 1 /\ length' = bytesProcessed'
      /\ inside' = FALSE /\ pc' = "client" /\ cur' = -1
  BY DEF EndEncrypt, FreeVersatBuffer, TotalPadding
<1> HIDE DEF last, filled, c, b, pad
<1>9. /\ lastValToAdd' \in Term /\ lastResult' \in Term /\ results' \in Seq(Result)
  BY <1>5, <1>8, EncryptTypes
<1>10. LibraryTypes'
  <2>1. bytesProcessed' \in Int
    <3>1. bytesProcessed + AesBlock \in Int
      BY <1>3
    <3>2. QED
      BY <1>8, <3>1, AsIntType
  <2>2. inside' \in BOOLEAN
    BY <1>8
  <2>3. /\ interface' \in [Index -> Buffer] /\ ram' \in [Index -> [Addr -> Byte]]
        /\ bufferState' \in [Index -> {"FREE", "RESERVED"}]
    BY <1>1, <1>3, <1>6, <1>7, <1>8
  <2>4. QED
    BY <2>1, <2>2, <2>3 DEF EndEncrypt, FreeVersatBuffer, IInv, TypeOK,
       LibraryTypes
<1>11. AcceleratorTypes'
  BY <1>9 DEF EndEncrypt, FreeVersatBuffer, IInv, TypeOK, AcceleratorTypes,
     shavars
<1>12. OutputTypes'
  <2>1. Len(results) + 1 \in Nat /\ length' \in Int
    BY <1>8, <1>10 DEF IInv, TypeOK, OutputTypes, LibraryTypes
  <2>2. QED
    BY <1>8, <1>9, <2>1 DEF EndEncrypt, FreeVersatBuffer, IInv, TypeOK,
       OutputTypes
<1>13. Control'
  BY DEF EndEncrypt, FreeVersatBuffer, IInv, Control, SessionHasBuffer,
     CallInSession, LoopInBuffer
<1>14. CallTypes' /\ InputTypes'
  BY DEF EndEncrypt, FreeVersatBuffer, IInv, TypeOK, CallTypes, InputTypes,
     inputs
<1>15. QED
  BY <1>10, <1>11, <1>12, <1>13, <1>14 DEF IInv, TypeOK

LEMMA EndDecryptInv == IInv /\ EndDecrypt => IInv'
<1> SUFFICES ASSUME IInv, EndDecrypt PROVE IInv'
  OBVIOUS
<1>1. inside /\ ~corrupt /\ cur \in Index
  BY DEF EndDecrypt, IInv, Control, CallInSession, SessionHasBuffer
<1>2. LibraryTypes'
  <2>1. interface' \in [Index -> Buffer]
    BY <1>1, SessionBuffer, BufferTypes DEF EndDecrypt, IInv, TypeOK, LibraryTypes
  <2>2. bytesProcessed' \in Int
    <3>1. bytesProcessed - lastByte \in Int
      BY DEF IInv, TypeOK, LibraryTypes
    <3>2. QED
      BY <3>1, AsIntType DEF EndDecrypt
  <2>3. inside' \in BOOLEAN
    BY DEF EndDecrypt
  <2>4. QED
    BY <2>1, <2>2, <2>3 DEF EndDecrypt, IInv, TypeOK, LibraryTypes
<1>3. OutputTypes'
  <2>1. length' \in Int
    BY <1>2 DEF EndDecrypt, LibraryTypes
  <2>2. QED
    BY <2>1 DEF EndDecrypt, IInv, TypeOK, OutputTypes
<1>4. Control'
  BY DEF EndDecrypt, IInv, Control, SessionHasBuffer, CallInSession, LoopInBuffer
<1>5. AcceleratorTypes' /\ CallTypes' /\ InputTypes'
  BY DEF EndDecrypt, IInv, TypeOK, AcceleratorTypes, accvars, shavars, aesvars,
         CallTypes, InputTypes, inputs
<1>6. QED
  BY <1>2, <1>3, <1>4, <1>5 DEF IInv, TypeOK
-----------------------------------------------------------------------------
LEMMA StutterInv == IInv /\ UNCHANGED vars => IInv'
<1> SUFFICES ASSUME IInv, UNCHANGED vars PROVE IInv'
  OBVIOUS
<1>1. TypeOK'
  BY DEF IInv, vars, libvars, accvars, shavars, aesvars, inputs, outputs, TypeOK,
         LibraryTypes, AcceleratorTypes, CallTypes, InputTypes, OutputTypes
<1>2. Control'
  BY DEF IInv, vars, libvars, Control, SessionHasBuffer, CallInSession, LoopInBuffer
<1>3. QED
  BY <1>1, <1>2 DEF IInv

LEMMA NextInv == IInv /\ [Next]_vars => IInv'
<1> SUFFICES ASSUME IInv, Next PROVE IInv'
  BY StutterInv
<1>1. CASE Client
  BY <1>1, BeginSHAInv, BeginAESInv, RefusedBeginInv, FillInv, OverrunInv, EnterInv
     DEF Client
<1>2. CASE Library
  BY <1>2, HashBlockInv, FinishProcessSHAInv, PadSHAInv, FlushSHAInv, AesStepInv,
     FinishProcessAESInv, EndEncryptInv, EndDecryptInv DEF Library
<1>3. QED
  BY <1>1, <1>2 DEF Next

LEMMA Invariance == Spec => []IInv
  BY InitInv, NextInv, PTL DEF Spec

(* For buffers and blocks of every size, every way of cutting messages, and *)
(* a mapping of every size that holds two SHA blocks, be it less than what  *)
(* AllocateBuffer declares: every access of a block by the library is       *)
(* inside what is mapped behind the buffer of the session, and no size or   *)
(* offset ever goes below zero (versatCrypto.c:158-189, 285-1099).          *)
THEOREM TypeCorrect == Spec => []TypeOK
<1>1. IInv => TypeOK
  BY DEF IInv
<1>2. QED
  BY <1>1, Invariance, PTL

(* The client of a session always has room for another byte, in the buffer  *)
(* that is reserved for it: reading 0 bytes means the end of the file.  And *)
(* what it loads stays in the mapping, unless AllocateBuffer got less than  *)
(* it declares (versatCrypto.c:158-189, 336-368).                           *)
THEOREM RoomLeft == Spec => []BufferRoom
<1>1. IInv => BufferRoom
  <2> SUFFICES ASSUME IInv PROVE BufferRoom
    OBVIOUS
  <2>1. CASE AtClient /\ inside
    <3>1. ~corrupt /\ pc = "client"
      BY <2>1 DEF AtClient
    <3>2. QED
      BY <2>1, <3>1, SessionBuffer DEF BufferRoom
  <2>2. CASE pc = "lost"
    <3>1. PageSize < MaxBlock
      BY <2>2 DEF IInv, Control, CallInSession, LoopInBuffer
    <3>2. QED
      BY <2>2, <3>1 DEF BufferRoom, AtClient
  <2>3. QED
    BY <2>1, <2>2 DEF BufferRoom
<1>2. QED
  BY <1>1, Invariance, PTL
-----------------------------------------------------------------------------
(* Counting the buffers that are not free.                                  *)

LEMMA ReservedFinite ==
  /\ IsFiniteSet(Index) /\ Cardinality(Index) = NBuffers
  /\ IsFiniteSet(Reserved) /\ Cardinality(Reserved) \in Nat
<1>1. IsFiniteSet(Index) /\ Cardinality(Index) = NBuffers
  BY FS_Interval DEF Index
<1>2. Reserved \subseteq Index
  BY DEF Reserved
<1>3. IsFiniteSet(Reserved)
  BY <1>1, <1>2, FS_Subset
<1>4. QED
  BY <1>1, <1>3, FS_CardinalityType

LEMMA ReserveCounts ==
  ASSUME IInv, BufferAccounting, AtClient, ~inside, ReserveVersatBuffer,
         inside' = TRUE, UNCHANGED leaked
  PROVE  BufferAccounting'
<1>1. /\ bufferState \in [Index -> {"FREE", "RESERVED"}] /\ leaked \in Nat
      /\ corrupt = FALSE
  BY DEF IInv, TypeOK, LibraryTypes, OutputTypes, AtClient, CallTypes
<1>2. Cardinality(Reserved) = leaked
  BY <1>1 DEF BufferAccounting
<1>3. CASE \E i \in Index :
             /\ IsFirstFree(i) /\ cur' = i
             /\ bufferState' = [bufferState EXCEPT ![i] = "RESERVED"]
             /\ interface' = [interface EXCEPT ![i] = FreshBuffer]
             /\ UNCHANGED corrupt
  <2>1. PICK i \in Index : /\ bufferState[i] = "FREE" /\ UNCHANGED corrupt
                           /\ bufferState' = [bufferState EXCEPT ![i] = "RESERVED"]
    BY <1>3 DEF IsFirstFree, FreeBuffers
  <2>2. Reserved' = Reserved \cup {i} /\ i \notin Reserved
    BY <1>1, <2>1 DEF Reserved
  <2>3. Cardinality(Reserved') = Cardinality(Reserved) + 1
    BY <2>2, ReservedFinite, FS_AddElement
  <2>4. QED
    BY <1>1, <1>2, <2>1, <2>3 DEF BufferAccounting
<1>4. CASE /\ FreeBuffers = {} /\ corrupt' = TRUE
           /\ UNCHANGED <<bufferState, interface>>
  <2>1. Reserved = Index
    BY <1>1, <1>4 DEF Reserved, FreeBuffers
  <2>2. leaked = NBuffers
    BY <1>2, <2>1, ReservedFinite
  <2>3. Reserved' = Reserved
    BY <1>4 DEF Reserved
  <2>4. QED
    BY <1>2, <1>4, <2>2, <2>3 DEF BufferAccounting
<1>5. QED
  BY <1>3, <1>4 DEF ReserveVersatBuffer

(* The two Ends that keep the buffer, and the one that frees it.            *)
LEMMA KeepingEndCounts ==
  ASSUME IInv, BufferAccounting, inside, ~corrupt, leaked' = leaked + 1,
         inside' = FALSE, UNCHANGED <<bufferState, corrupt>>
  PROVE  BufferAccounting'
<1>1. leaked \in Nat /\ Reserved' = Reserved
  BY DEF IInv, TypeOK, OutputTypes, Reserved
<1>2. QED
  BY <1>1 DEF BufferAccounting

LEMMA FreeingEndCounts ==
  ASSUME IInv, BufferAccounting, EndEncrypt
  PROVE  BufferAccounting'
<1>1. /\ inside /\ ~corrupt /\ cur \in Index /\ bufferState[cur] = "RESERVED"
      /\ bufferState \in [Index -> {"FREE", "RESERVED"}] /\ leaked \in Nat
  BY DEF EndEncrypt, FreeVersatBuffer, IInv, TypeOK, LibraryTypes, OutputTypes,
     Control,
         CallInSession, SessionHasBuffer
<1>2. /\ bufferState' = [bufferState EXCEPT ![cur] = "FREE"]
      /\ inside' = FALSE /\ UNCHANGED <<leaked, corrupt>>
  BY DEF EndEncrypt, FreeVersatBuffer
<1>3. cur \in Reserved /\ Reserved' = Reserved \ {cur}
  BY <1>1, <1>2 DEF Reserved
<1>4. Cardinality(Reserved') = Cardinality(Reserved) - 1
  BY <1>3, ReservedFinite, FS_RemoveElement
<1>5. QED
  BY <1>1, <1>2, <1>4, ReservedFinite DEF BufferAccounting

LEMMA OtherwiseCounts ==
  BufferAccounting /\ UNCHANGED <<bufferState, inside, corrupt, leaked>>
    => BufferAccounting'
  BY DEF BufferAccounting, Reserved

(* Buffers are only ever lost to sessions that ended and kept theirs, and   *)
(* Begin finds none exactly when there were as many of those as buffers     *)
(* (versatCrypto.c:285-323, 482-546, 1051-1099).                            *)
THEOREM BuffersAccounted == Spec => []BufferAccounting
<1>1. Init => BufferAccounting
  <2> SUFFICES ASSUME Init PROVE BufferAccounting
    OBVIOUS
  <2>1. Reserved = {} /\ leaked = 0 /\ inside = FALSE /\ corrupt = FALSE
    BY DEF Init, Reserved
  <2>2. QED
    BY <2>1, FS_EmptySet DEF BufferAccounting
<1>2. IInv /\ BufferAccounting /\ [Next]_vars => BufferAccounting'
  <2> SUFFICES ASSUME IInv, BufferAccounting, [Next]_vars PROVE BufferAccounting'
    OBVIOUS
  <2>1. CASE BeginSHA \/ \E m \in Modes, d \in BOOLEAN : BeginAES(m, d)
    BY <2>1, ReserveCounts DEF BeginSHA, CheckBegin, InitVersatSHA, BeginAES,
       ExpandKey, NewSession
  <2>2. CASE FlushSHA \/ EndDecrypt
    <3>1. inside /\ ~corrupt
      BY <2>2 DEF FlushSHA, EndDecrypt, IInv, Control, CallInSession
    <3>2. QED
      BY <2>2, <3>1, KeepingEndCounts DEF FlushSHA, EndDecrypt
  <2>3. CASE EndEncrypt
    BY <2>3, FreeingEndCounts
  <2>4. CASE \/ \E m \in Modes : RefusedBegin(m)
             \/ \E n \in 1 .. MaxBlock : Fill(n) \/ Overrun(n)
             \/ \E c \in {"process", "end"} : EnterSHA(c) \/ EnterAES(c)
    BY <2>4, OtherwiseCounts DEF RefusedBegin, Fill, Overrun, EnterSHA, EnterAES,
       libvars, outputs
  <2>5. CASE HashBlock \/ FinishProcessSHA \/ PadSHA \/ AesStep
    BY <2>5, OtherwiseCounts DEF HashBlock, FinishProcessSHA, PadSHA, AesStep, outputs
  <2>6. CASE \E byte \in 0 .. MaxByte : FinishProcessAES(byte)
    BY <2>6, OtherwiseCounts DEF FinishProcessAES
  <2>7. CASE UNCHANGED vars
    BY <2>7, OtherwiseCounts DEF vars, libvars, outputs
  <2>8. QED
    BY <2>1, <2>2, <2>3, <2>4, <2>5, <2>6, <2>7 DEF Next, Client, Library
<1>3. QED
  BY <1>1, <1>2, Invariance, PTL DEF Spec
-----------------------------------------------------------------------------
(* What the sessions compute, for every way of cutting a message: the       *)
(* digest, the blocks of the modes of AES, and what the Ends return.        *)
Aes == lastType \in {"AES", "InvAES"}
Active == inside /\ ~corrupt

(* The bytes of the message at the front of the session's buffer, where in  *)
(* the message they begin, and how far the loop over blocks has come.       *)
Held == IF pc \in {"hash", "aes"} THEN end ELSE interface[cur].mem + interface[cur].size
Start == fed - Held
Position == Start + (IF pc \in {"hash", "aes", "hashpad"} THEN off ELSE 0)

CallsMatch ==
  /\ pc \in {"hash", "pad", "hashpad"} => lastType = "SHA"
  /\ pc \in {"aes", "endaes"} => Aes
  /\ inside => lastType # "NONE"

(* The rest of one call is in front of what the client loads for the next,  *)
(* and what was processed before it is counted.                             *)
MessageHeld ==
  Active =>
    /\ Held <= fed
    /\ \A a \in 0 .. Held - 1 : ram[cur][a] = Msg(session, Start + a + 1)
    /\ fed < IntLimit => bytesProcessed = Start

(* One result for each block that the loop has been through, and each of    *)
(* those given to the client, but those of an End.                          *)
ResultsCounted ==
  Active /\ Aes =>
    /\ Len(results) * AesBlock = Position
    /\ pc # "endaes" => written * AesBlock = Start
    /\ pc = "endaes" => (written + endBlocks) * AesBlock = Start

(* What a session may find in the registers of the AES unit, and what it    *)
(* leaves there for its next block.                                         *)
RegistersKept ==
  /\ lastValToAdd = NoTerm
  /\ lastType = "InvAES" => lastResult = NoTerm
  /\ lastType = "AES" /\ "CBC" \notin modes => lastResult = NoTerm
  /\ inside /\ Aes => Type \in modes /\ mode \in modes
  /\ inside /\ Aes /\ ~disturbed => Type = mode /\ (lastType = "InvAES" => mode # "CTR")

(* Block i of a message of n bytes, padded, and what the code adds around   *)
(* the cipher for it: in CTR mode the counter of block 1, for every block.  *)
MessageBlock(s, n, i) ==
  [j \in 0 .. AesBlock - 1 |->
     LET p == (i - 1) * AesBlock + j + 1 IN
     IF p <= n THEN Msg(s, p) ELSE Pkcs(AesBlock - (n % AesBlock))]

ResultFor(s, n, m, type, i) ==
  LET b        == DataOf(MessageBlock(s, n, i))
      previous == IF i = 1 THEN Iv(s) ELSE DataOf(MessageBlock(s, n, i - 1))
  IN
  CASE m = "ECB" -> [x |-> b, pre |-> NoTerm, post |-> NoTerm]
    [] m = "CBC" /\ type = "AES" ->
         [x |-> b, pre |-> IF i = 1 THEN Iv(s) ELSE Out(s, i - 1), post |-> NoTerm]
    [] m = "CBC" /\ type = "InvAES" -> [x |-> b, pre |-> NoTerm, post |-> previous]
    [] m = "CTR" -> [x |-> Iv(s), pre |-> NoTerm, post |-> b]

(* Every block as the code makes it: in CTR mode they all meet the same     *)
(* counter, which is the first of those the mode asks for.                  *)
BlocksAre ==
  NothingInherited /\ Aes /\ ~disturbed =>
    \A i \in 1 .. Len(results) :
      results[i] = ResultFor(session, fed, mode, lastType, i)

Chained ==
  Active /\ Aes /\ ~disturbed =>
    /\ mode = "CBC" /\ lastType = "AES" =>
         lastResult = IF results = <<>> THEN Iv(session) ELSE Out(session, Len(results))
    /\ mode = "CBC" /\ lastType = "InvAES" =>
         counter = IF results = <<>> THEN Iv(session)
                   ELSE DataOf(MessageBlock(session, fed, Len(results)))
    /\ mode = "CTR" => counter = Iv(session)

(* Block i of a message of n bytes with the padding of SHA-256.             *)
PaddedBlock(s, n, i) ==
  [j \in 0 .. ShaBlock - 1 |-> PaddedByte(s, n, (i - 1) * ShaBlock + j + 1)]

(* The SHA unit is one block behind the loop.                               *)
Undisturbed == Active /\ lastType = "SHA" /\ ~disturbed /\ fed < IntLimit

Absorbed ==
  Undisturbed =>
    /\ union0 # 2
    /\ union0 = 0 => Position = 0
    /\ union0 = 1 =>
         /\ known
         /\ (Len(absorbed) + 1) * ShaBlock = Position
         /\ stage = PaddedBlock(session, fed, Len(absorbed) + 1)
         /\ \A i \in 1 .. Len(absorbed) : absorbed[i] = PaddedBlock(session, fed, i)

(* While the last blocks are hashed, the buffer holds the end of the padded *)
(* message.                                                                 *)
PaddingHeld ==
  pc = "hashpad" =>
    /\ interface[cur].mem = 0 /\ interface[cur].size < ShaBlock
    /\ end = PaddedSize(interface[cur].size) /\ off \in {0, ShaBlock, 2 * ShaBlock}
    /\ Undisturbed =>
         /\ PaddedBlocks(fed) * ShaBlock = Start + end
         /\ \A a \in 0 .. end - 1 : ram[cur][a] = PaddedByte(session, fed, Start + a + 1)

(* What is to be proved of the sessions.                                    *)
Outcomes ==
  DigestCorrect /\ EncryptionComplete /\ DecryptionComplete /\ BlocksAre

OutcomeInv ==
  /\ CallsMatch /\ MessageHeld /\ ResultsCounted /\ RegistersKept /\ Chained
  /\ Absorbed /\ PaddingHeld /\ Outcomes
-----------------------------------------------------------------------------
(* Arithmetic on blocks.                                                    *)

LEMMA NextMultiple == \A n, d \in Int : (n + 1) * d = n * d + d
  OBVIOUS

LEMMA FewerBlocks ==
  ASSUME NEW i \in Int, NEW n \in Int, NEW d \in Nat, i <= n
  PROVE  i * d <= n * d
  OBVIOUS

LEMMA BlocksBelow ==
  ASSUME NEW i \in Int, NEW n \in Int, NEW d \in Nat, NEW m \in Int, i <= n, n * d <= m
  PROVE  i * d <= m
<1>1. i * d <= n * d
  BY FewerBlocks
<1>2. \A x, y \in Int : x <= y /\ y <= m => x <= m
  OBVIOUS
<1>3. i * d \in Int /\ n * d \in Int
  OBVIOUS
<1> QED
  BY <1>1, <1>2, <1>3, Zenon

LEMMA BelowAes == \A i, n, m \in Int : i <= n /\ n * AesBlock <= m => i * AesBlock <= m
  BY BlocksBelow

LEMMA BelowSha == \A i, n, m \in Int : i <= n /\ n * ShaBlock <= m => i * ShaBlock <= m
  BY BlocksBelow

LEMMA Quotient ==
  ASSUME NEW d \in Nat \ {0}, NEW q \in Int, NEW r \in 0 .. d - 1
  PROVE  (q * d + r) \div d = q /\ (q * d + r) % d = r
  OBVIOUS

LEMMA QuotientAes ==
  \A q \in Int : \A r \in 0 .. AesBlock - 1 :
    (q * AesBlock + r) \div AesBlock = q /\ (q * AesBlock + r) % AesBlock = r
<1>1. AesBlock \in Nat \ {0}
  OBVIOUS
<1>2. QED
  BY <1>1, Quotient, Zenon

LEMMA QuotientSha ==
  \A q \in Int : \A r \in 0 .. ShaBlock - 1 : (q * ShaBlock + r) \div ShaBlock = q
<1>1. ShaBlock \in Nat \ {0}
  OBVIOUS
<1>2. QED
  BY <1>1, Quotient, Zenon

LEMMA SmallInt == \A n \in -IntLimit .. IntLimit - 1 : AsInt(n) = n
  BY DEF AsInt

(* The types of the variables, for the steps below.                         *)
LEMMA Types ==
  ASSUME TypeOK
  PROVE  /\ interface \in [Index -> Buffer] /\ ram \in [Index -> [Addr -> Byte]]
         /\ lastType \in {"NONE", "SHA", "AES", "InvAES"}
         /\ union0 \in 0 .. 2 /\ lastByte \in 0 .. MaxByte /\ bytesProcessed \in Int
         /\ absorbed \in Seq(ShaData)
         /\ pc \in {"client", "lost", "hash", "pad", "hashpad", "aes", "endaes"}
         /\ call \in {"process", "end"} /\ off \in Nat /\ end \in Nat
         /\ session \in Nat /\ fed \in Nat /\ mode \in Modes /\ modes \in SUBSET Modes
         /\ digest \in Seq(ShaData) /\ results \in Seq(Result) /\ Len(results) \in Nat
         /\ written \in Nat /\ length \in Int /\ endBlocks \in Nat
  BY DEF TypeOK, LibraryTypes, AcceleratorTypes, CallTypes, InputTypes, OutputTypes

(* Two numbers of the session, when it has a buffer.                        *)
LEMMA HeldType ==
  ASSUME IInv, Active
  PROVE  Held \in Nat /\ Start \in Int /\ Position \in Int /\ cur \in Index
<1>1. cur \in Index /\ interface[cur].mem \in Nat /\ interface[cur].size \in Nat
  BY SessionBuffer DEF Active
<1>2. end \in Nat /\ off \in Nat /\ fed \in Nat
  BY Types DEF IInv
<1>3. Held \in Nat
  BY <1>1, <1>2 DEF Held
<1>4. QED
  BY <1>1, <1>2, <1>3 DEF Start, Position
-----------------------------------------------------------------------------
LEMMA InitFollows == Init => OutcomeInv
<1> SUFFICES ASSUME Init PROVE OutcomeInv
  OBVIOUS
<1>1. inside = FALSE /\ lastType = "NONE" /\ pc = "client" /\ lastValToAdd = NoTerm
  BY DEF Init
<1>2. CallsMatch /\ MessageHeld /\ ResultsCounted /\ RegistersKept
  BY <1>1 DEF CallsMatch, MessageHeld, ResultsCounted, RegistersKept, Active, Aes
<1>3. Chained /\ Absorbed /\ PaddingHeld
  BY <1>1 DEF Chained, Absorbed, PaddingHeld, Active, Undisturbed
<1>4. Outcomes
  BY <1>1 DEF Outcomes, DigestCorrect, EncryptionComplete, DecryptionComplete,
              BlocksAre, Aes, ShaDone, AesDone, InvDone
<1>5. QED
  BY <1>2, <1>3, <1>4 DEF OutcomeInv

(* A session starts with nothing in its buffer.                             *)
LEMMA NothingHeld ==
  ASSUME IInv, AtClient, ReserveVersatBuffer, fed' = 0, pc' = pc, ~corrupt'
  PROVE  Held' = 0 /\ Start' = 0 /\ Position' = 0
<1>1. PICK i \in Index : /\ cur' = i
                         /\ interface' = [interface EXCEPT ![i] = FreshBuffer]
  BY DEF ReserveVersatBuffer
<1>2. interface \in [Index -> Buffer]
  BY Types DEF IInv
<1>3. interface'[cur'].mem = 0 /\ interface'[cur'].size = 0
  BY <1>1, <1>2 DEF FreshBuffer
<1>4. pc' = "client"
  BY DEF AtClient
<1>5. Held' = 0
  BY <1>3, <1>4 DEF Held
<1>6. QED
  BY <1>4, <1>5 DEF Start, Position

LEMMA BeginSHAFollows == IInv /\ OutcomeInv /\ BeginSHA => OutcomeInv'
<1> SUFFICES ASSUME IInv, OutcomeInv, BeginSHA PROVE OutcomeInv'
  OBVIOUS
<1>1. /\ inside' = TRUE /\ lastType' = "SHA" /\ pc' = "client" /\ fed' = 0
      /\ union0' = 0 /\ bytesProcessed' = 0 /\ UNCHANGED lastValToAdd
  BY DEF BeginSHA, CheckBegin, InitVersatSHA, AtClient, NewSession, NotLoaded,
     NoBytes, accvars, aesvars
<1>2. ~corrupt' => Held' = 0 /\ Start' = 0 /\ Position' = 0
  BY <1>1, NothingHeld DEF BeginSHA, CheckBegin, InitVersatSHA
<1>3. CallsMatch' /\ ResultsCounted' /\ Chained'
  BY <1>1 DEF CallsMatch, ResultsCounted, Chained, Aes
<1>4. RegistersKept'
  BY <1>1 DEF OutcomeInv, RegistersKept, Aes
<1>5. MessageHeld'
  BY <1>1, <1>2 DEF MessageHeld, Active
<1>6. Absorbed' /\ PaddingHeld'
  BY <1>1, <1>2 DEF Absorbed, PaddingHeld, Undisturbed, Active
<1>7. Outcomes'
  BY <1>1 DEF Outcomes, DigestCorrect, EncryptionComplete, DecryptionComplete,
              BlocksAre, Aes, ShaDone, AesDone, InvDone
<1>8. QED
  BY <1>3, <1>4, <1>5, <1>6, <1>7 DEF OutcomeInv

(* What the registers held for an earlier session is cleared, or is what    *)
(* the mode of this one finds of a session in the same direction.           *)
LEMMA BeginAESFollows ==
  ASSUME IInv, OutcomeInv, NEW m \in Modes, NEW d \in BOOLEAN, BeginAES(m, d)
  PROVE  OutcomeInv'
<1>1. /\ inside' = TRUE /\ pc' = "client" /\ fed' = 0 /\ bytesProcessed' = 0
      /\ lastType' = (IF d THEN "InvAES" ELSE "AES") /\ mode' = m
      /\ session' = session + 1 /\ results' = <<>> /\ written' = 0
      /\ union0' = TypeOf[m] /\ ~(m = "CTR" /\ d)
  BY DEF BeginAES, CheckBegin, ExpandKey, AtClient, NewSession, NoBytes
<1>2. ~corrupt' => Held' = 0 /\ Start' = 0 /\ Position' = 0
  BY <1>1, NothingHeld DEF BeginAES, CheckBegin, ExpandKey
<1>3. CallsMatch' /\ Absorbed' /\ PaddingHeld'
  BY <1>1 DEF CallsMatch, Absorbed, PaddingHeld, Undisturbed
<1>4. MessageHeld'
  BY <1>1, <1>2 DEF MessageHeld, Active
<1>5. ResultsCounted'
  <2>1. Len(results') = 0
    BY <1>1
  <2>2. QED
    BY <1>1, <1>2, <2>1 DEF ResultsCounted, Active
<1>6. Type' = m
  BY <1>1 DEF Type, TypeOf, ModeOf, Modes
<1>7. RegistersKept'
  <2>1. lastValToAdd' = NoTerm
    BY DEF BeginAES, CheckBegin, ExpandKey, OutcomeInv, RegistersKept
  <2>2. m \in modes'
    BY DEF BeginAES, CheckBegin, ExpandKey, NewSession
  <2>3. lastType' = "InvAES" => lastResult' = NoTerm
    BY <1>1 DEF BeginAES, CheckBegin, ExpandKey, OutcomeInv, RegistersKept
  <2>4. lastType' = "AES" /\ "CBC" \notin modes' => lastResult' = NoTerm
    <3>1. SUFFICES ASSUME ~d, "CBC" \notin modes' PROVE lastResult' = NoTerm
      BY <1>1
    <3>2. m # "CBC"
      BY <2>2, <3>1
    <3>3. CASE lastType # "AES"
      BY <3>1, <3>2, <3>3 DEF BeginAES, CheckBegin, ExpandKey
    <3>4. CASE lastType = "AES"
      BY <3>1, <3>2, <3>4 DEF BeginAES, CheckBegin, ExpandKey, NewSession,
         OutcomeInv, RegistersKept
    <3>5. QED
      BY <3>3, <3>4
  <2>5. QED
    BY <1>1, <1>6, <2>1, <2>2, <2>3, <2>4 DEF RegistersKept
<1>8. Chained'
  BY <1>1 DEF BeginAES, CheckBegin, ExpandKey, Chained
<1>9. Outcomes'
  BY <1>1 DEF Outcomes, DigestCorrect, EncryptionComplete, DecryptionComplete,
              BlocksAre, Aes, ShaDone, AesDone, InvDone
<1>10. QED
  BY <1>3, <1>4, <1>5, <1>7, <1>8, <1>9 DEF OutcomeInv

LEMMA RefusedBeginFollows ==
  ASSUME IInv, OutcomeInv, NEW m \in Modes, RefusedBegin(m)
  PROVE  OutcomeInv'
<1>1. /\ disturbed' = (disturbed \/ union0 # TypeOf[m]) /\ inside
      /\ pc = "client" /\ union0' = TypeOf[m] /\ modes' = modes \cup {m}
      /\ UNCHANGED <<inside, pc, interface, cur, corrupt, fed, session, ram, lastType,
                     bytesProcessed, results, endBlocks, written, off, end,
                     lastValToAdd, lastResult, mode>>
  BY DEF RefusedBegin, AtClient, accvars, aesvars, outputs
<1>2. disturbed' \/ (~disturbed /\ ~disturbed' /\ union0' = union0)
  BY <1>1
<1>3. /\ Held' = Held /\ Start' = Start /\ Position' = Position /\ Active' = Active
      /\ Aes' = Aes
  BY <1>1 DEF Held, Start, Position, Active, Aes
<1>4. MessageHeld' /\ ResultsCounted' /\ CallsMatch'
  BY <1>1, <1>3 DEF OutcomeInv, MessageHeld, ResultsCounted, CallsMatch
<1>5. Type' = m
  BY <1>1 DEF Type, TypeOf, ModeOf, Modes
<1>6. Chained' /\ Absorbed' /\ PaddingHeld'
  <2>1. UNCHANGED <<counter, stage, known, absorbed>>
    BY DEF RefusedBegin, accvars, shavars
  <2>2. Undisturbed' => Undisturbed /\ union0' = union0
    BY <1>1, <1>2, <1>3 DEF Undisturbed
  <2>3. QED
    BY <1>1, <1>2, <1>3, <2>1, <2>2
       DEF OutcomeInv, Chained, Absorbed, PaddingHeld
<1>7. union0' = union0 => Type' = Type
  BY <1>1 DEF Type
<1>8. RegistersKept'
  BY <1>1, <1>2, <1>3, <1>5, <1>7 DEF OutcomeInv, RegistersKept
<1>9. Outcomes'
  <2>1. BlocksAre'
    <3>1. SUFFICES ASSUME Aes, ~disturbed' PROVE BlocksAre'
      BY <1>3 DEF BlocksAre
    <3>2. modes' = modes
      BY <1>1, <1>2, <1>5, <1>7, <3>1 DEF OutcomeInv, RegistersKept
    <3>3. QED
      BY <1>1, <1>2, <1>3, <3>1, <3>2
         DEF OutcomeInv, Outcomes, BlocksAre, NothingInherited
  <2>2. inside' = TRUE
    BY <1>1, Types DEF IInv, TypeOK, LibraryTypes
  <2>3. QED
    BY <2>1, <2>2 DEF Outcomes, DigestCorrect, EncryptionComplete,
       DecryptionComplete, ShaDone, AesDone, InvDone
<1>10. QED
  BY <1>4, <1>6, <1>8, <1>9 DEF OutcomeInv
-----------------------------------------------------------------------------
(* The blocks of the message that are full do not change when it grows.     *)

LEMMA FullBlocks ==
  ASSUME NEW s, NEW n \in Nat, NEW n2 \in Nat, n <= n2, NEW i \in Int
  PROVE  /\ i * AesBlock <= n => MessageBlock(s, n, i) = MessageBlock(s, n2, i)
         /\ i * ShaBlock <= n => PaddedBlock(s, n, i) = PaddedBlock(s, n2, i)
<1>1. ASSUME NEW d \in Nat, i * d <= n, NEW j \in 0 .. d - 1
      PROVE  (i - 1) * d + j + 1 <= n
  <2>1. (i - 1) * d = i * d - d /\ i * d \in Int
    OBVIOUS
  <2>2. QED
    BY <1>1, <2>1
<1>2. ASSUME i * AesBlock <= n
      PROVE  MessageBlock(s, n, i) = MessageBlock(s, n2, i)
  <2>1. \A j \in 0 .. AesBlock - 1 : (i - 1) * AesBlock + j + 1 <= n
    BY <1>1, <1>2
  <2>2. \A j \in 0 .. AesBlock - 1 : (i - 1) * AesBlock + j + 1 \in Int
    OBVIOUS
  <2>3. \A j \in 0 .. AesBlock - 1 : (i - 1) * AesBlock + j + 1 <= n2
    BY <2>1, <2>2
  <2>4. QED
    BY <2>1, <2>3 DEF MessageBlock
<1>3. ASSUME i * ShaBlock <= n
      PROVE  PaddedBlock(s, n, i) = PaddedBlock(s, n2, i)
  <2>1. \A j \in 0 .. ShaBlock - 1 : (i - 1) * ShaBlock + j + 1 <= n
    BY <1>1, <1>3
  <2>2. \A j \in 0 .. ShaBlock - 1 : (i - 1) * ShaBlock + j + 1 \in Int
    OBVIOUS
  <2>3. \A j \in 0 .. ShaBlock - 1 : (i - 1) * ShaBlock + j + 1 <= n2
    BY <2>1, <2>2
  <2>4. QED
    BY <2>1, <2>3 DEF PaddedBlock, PaddedByte
<1>4. QED
  BY <1>2, <1>3

LEMMA SamePadded ==
  \A s : \A n, n2 \in Nat, i \in Int :
    n <= n2 /\ i * ShaBlock <= n => PaddedBlock(s, n, i) = PaddedBlock(s, n2, i)
  BY FullBlocks

(* The first counter is the right one, and the only one that is claimed.    *)
LEMMA ExpectedAre ==
  ASSUME Aes, mode \in Modes, NEW i \in Nat,
         results[i] = ResultFor(session, fed, mode, lastType, i)
  PROVE  ResultExpected(i)
<1>1. CASE mode = "CTR"
  <2>1. Ctr(session, 1) = Iv(session)
    BY DEF Ctr, Iv
  <2>2. QED
    BY <1>1, <2>1 DEF ResultExpected, Expected, ResultFor, DataBlock, MessageBlock
<1>2. CASE mode # "CTR"
  BY <1>2 DEF ResultExpected, Expected, ResultFor, DataBlock, MessageBlock, Aes, Modes
<1>3. QED
  BY <1>1, <1>2

LEMMA FullResults ==
  ASSUME NEW s, NEW m, NEW type, NEW n \in Nat, NEW n2 \in Nat, n <= n2,
         NEW i \in Int, i * AesBlock <= n
  PROVE  ResultFor(s, n, m, type, i) = ResultFor(s, n2, m, type, i)
<1>1. (i - 1) * AesBlock <= n
  <2>1. (i - 1) * AesBlock = i * AesBlock - AesBlock /\ i * AesBlock \in Int
    OBVIOUS
  <2>2. QED
    BY <2>1
<1>2. /\ MessageBlock(s, n, i) = MessageBlock(s, n2, i)
      /\ MessageBlock(s, n, i - 1) = MessageBlock(s, n2, i - 1)
  BY <1>1, FullBlocks
<1>3. QED
  BY <1>2 DEF ResultFor

(* A step of a session that leaves the results alone.                       *)
LEMMA OutcomesKept ==
  ASSUME TypeOK, Outcomes, inside' = TRUE, fed' \in Nat, fed <= fed',
         Aes => Len(results) * AesBlock <= fed,
         UNCHANGED <<results, session, mode, modes, lastType, disturbed>>
  PROVE  Outcomes'
<1>1. ASSUME NothingInherited', Aes', ~disturbed', NEW i \in 1 .. Len(results)
      PROVE  results[i] = ResultFor(session, fed', mode, lastType, i)
  <2>1. NothingInherited /\ Aes /\ ~disturbed
    BY <1>1 DEF NothingInherited, Aes
  <2>2. results[i] = ResultFor(session, fed, mode, lastType, i)
    BY <2>1 DEF Outcomes, BlocksAre
  <2>3. i * AesBlock <= fed
    <3>1. Len(results) \in Nat
      BY Types
    <3>2. i \in Int /\ i <= Len(results)
      BY <3>1
    <3>3. Len(results) * AesBlock <= fed /\ AesBlock \in Nat /\ fed \in Int
          /\ Len(results) \in Int
      BY <2>1, <3>1, Types
    <3>4. QED
      BY <3>2, <3>3, BelowAes
  <2>4. QED
    BY <2>2, <2>3, FullResults, Types, SMTT(30)
<1>2. BlocksAre'
  BY <1>1 DEF BlocksAre
<1>3. QED
  BY <1>2 DEF Outcomes, DigestCorrect, EncryptionComplete, DecryptionComplete,
              ShaDone, AesDone, InvDone
-----------------------------------------------------------------------------
(* What the client loads follows what it loaded before.                     *)
LEMMA FillFollows ==
  ASSUME IInv, OutcomeInv, NEW n \in 1 .. MaxBlock, Fill(n)
  PROVE  OutcomeInv'
<1> DEFINE b == interface[cur]
           lo == b.mem + b.size
           new == [a \in Addr |-> IF a \in lo .. lo + n - 1
                               THEN Msg(session, fed + (a - lo) + 1)
                               ELSE ram[cur][a]]
           c == [mem |-> b.mem, size |-> b.size + n, maxSize |-> b.maxSize]
<1>1. /\ cur \in Index /\ b.mem \in Nat /\ b.size \in Nat /\ b.maxSize \in Nat
      /\ b.mem + b.maxSize = MaxBlock /\ pc = "client" /\ ~corrupt /\ inside
  BY SessionBuffer DEF Fill, MayLoad, AtClient
<1>2. /\ interface \in [Index -> Buffer] /\ ram \in [Index -> [Addr -> Byte]]
      /\ fed \in Nat /\ bytesProcessed \in Int /\ Len(results) \in Nat
  BY Types DEF IInv
<1>3. /\ fed' = fed + n /\ n <= b.maxSize - b.size
      /\ UNCHANGED <<cur, pc, inside, corrupt, session, bytesProcessed, results,
                     written, endBlocks, lastType, lastResult, lastValToAdd, counter,
                     union0, mode, modes, disturbed, stage, known, absorbed, off>>
  BY DEF Fill, MayLoad, accvars, aesvars, shavars, outputs
<1>4. interface' = [interface EXCEPT ![cur] = c] /\ ram' = [ram EXCEPT ![cur] = new]
  BY DEF Fill
<1>5. /\ interface'[cur'].mem = b.mem /\ interface'[cur'].size = b.size + n
      /\ ram'[cur'] = new
  BY <1>1, <1>2, <1>3, <1>4
<1>6. Active /\ Held = lo /\ lo \in Nat /\ lo + n <= PageSize
  BY <1>1, <1>3, SMTT(30) DEF Held, Active, Fill
<1>7. \A a \in Addr : new[a] = IF a \in lo .. lo + n - 1
                               THEN Msg(session, fed + (a - lo) + 1) ELSE ram[cur][a]
  OBVIOUS
<1>8. Held' = b.mem + (b.size + n)
  BY <1>1, <1>3, <1>5 DEF Held
<1>21. Held' = lo + n
  BY <1>1, <1>8
<1> HIDE DEF new, c, lo, b
<1>18. Start = fed - lo /\ Start' = Start /\ Start \in Int /\ lo <= fed
  <2>1. Start = fed - lo /\ lo <= fed
    BY <1>6 DEF Start, OutcomeInv, MessageHeld
  <2>2. Start' = (fed + n) - (lo + n)
    BY <1>3, <1>21 DEF Start
  <2>3. QED
    BY <1>2, <1>6, <2>1, <2>2
<1>19. Position' = Start /\ Position = Start
  BY <1>1, <1>3, <1>18 DEF Position
<1>20. MessageHeld'
  <2>1. ASSUME NEW a \in 0 .. lo + n - 1
        PROVE  new[a] = Msg(session, Start + a + 1)
    <3>1. a \in Addr /\ a \in Int /\ a <= lo + n - 1
      BY <1>6 DEF Addr
    <3>2. CASE a < lo
      <4>1. a \in 0 .. Held - 1
        BY <1>6, <3>1, <3>2
      <4>2. ram[cur][a] = Msg(session, Start + a + 1)
        BY <1>6, <4>1 DEF OutcomeInv, MessageHeld
      <4>3. a \notin lo .. lo + n - 1
        BY <3>2, <1>6, <3>1
      <4>4. QED
        BY <1>7, <3>1, <4>2, <4>3
    <3>3. CASE a >= lo
      <4>1. a \in lo .. lo + n - 1
        BY <1>6, <3>1, <3>3
      <4>2. new[a] = Msg(session, fed + (a - lo) + 1)
        BY <1>7, <3>1, <4>1
      <4>3. fed + (a - lo) + 1 = Start + a + 1
        BY <1>2, <1>6, <1>18, <3>1
      <4>4. QED
        BY <4>2, <4>3
    <3>4. QED
      BY <1>6, <3>1, <3>2, <3>3
  <2>2. \A a \in 0 .. Held' - 1 : ram'[cur'][a] = Msg(session', Start' + a + 1)
    <3>1. Held' = lo + n /\ Start' = Start /\ ram'[cur'] = new /\ session' = session
      BY <1>3, <1>5, <1>18, <1>21
    <3>2. ASSUME NEW a \in 0 .. Held' - 1
          PROVE  ram'[cur'][a] = Msg(session', Start' + a + 1)
      <4>1. a \in 0 .. lo + n - 1
        BY <1>6, <3>1
      <4>2. new[a] = Msg(session, Start + a + 1)
        BY <2>1, <4>1
      <4>3. QED
        BY <3>1, <4>2
    <3>3. QED
      BY <3>2
  <2>3. Held' <= fed'
    BY <1>2, <1>3, <1>6, <1>21, <1>18
  <2>4. fed' < IntLimit => bytesProcessed' = Start'
    <3>1. fed' < IntLimit => fed < IntLimit
      BY <1>2, <1>3
    <3>2. QED
      BY <1>3, <1>6, <1>18, <3>1 DEF OutcomeInv, MessageHeld
  <2>5. QED
    BY <2>2, <2>3, <2>4 DEF MessageHeld
<1>9. CallsMatch' /\ PaddingHeld'
  BY <1>1, <1>3 DEF OutcomeInv, CallsMatch, Aes, PaddingHeld
<1>10. ResultsCounted'
  BY <1>3, <1>18, <1>19 DEF OutcomeInv, ResultsCounted, Active, Aes
<1>11. RegistersKept'
  BY <1>3 DEF OutcomeInv, RegistersKept, Type, Aes
<1>12. Aes => Len(results) * AesBlock <= fed
  BY <1>6, <1>19, <1>18, <1>2, <1>1 DEF OutcomeInv, ResultsCounted
<1>13. fed <= fed' /\ fed' \in Nat
  BY <1>2, <1>3
<1>14. Chained'
  <2>1. Aes => MessageBlock(session, fed, Len(results)) =
                 MessageBlock(session, fed', Len(results))
    BY <1>2, <1>12, <1>13, FullBlocks
  <2>2. QED
    BY <1>3, <2>1 DEF OutcomeInv, Chained, Active, Aes
<1>15. Absorbed'
  <2>1. SUFFICES ASSUME Undisturbed' PROVE Absorbed'
    BY DEF Absorbed
  <2>2. Undisturbed
    BY <1>2, <1>3, <2>1 DEF Undisturbed, Active
  <2>3. ASSUME union0 = 1
        PROVE  /\ stage = PaddedBlock(session, fed', Len(absorbed) + 1)
               /\ \A i \in 1 .. Len(absorbed) : absorbed[i] = PaddedBlock(session, fed', i)
    <3>1. Len(absorbed) \in Nat
      BY Types DEF IInv
    <3>2. (Len(absorbed) + 1) * ShaBlock <= fed
      <4>1. (Len(absorbed) + 1) * ShaBlock = fed - lo
        BY <1>18, <1>19, <2>2, <2>3 DEF OutcomeInv, Absorbed
      <4>2. QED
        BY <1>2, <1>6, <4>1
    <3>3. ASSUME NEW i \in 1 .. Len(absorbed) + 1
          PROVE  PaddedBlock(session, fed, i) = PaddedBlock(session, fed', i)
      <4>1. i \in Int /\ i <= Len(absorbed) + 1 /\ Len(absorbed) + 1 \in Int
        BY <3>1
      <4>2. fed \in Int /\ ShaBlock \in Nat /\ fed \in Nat /\ fed' \in Nat /\ fed <= fed'
        BY <1>2, <1>13
      <4>3. i * ShaBlock <= fed
        BY <3>2, <4>1, <4>2, BelowSha
      <4>4. QED
        BY <4>1, <4>2, <4>3, SamePadded
    <3>4. QED
      BY <2>2, <2>3, <3>1, <3>3 DEF OutcomeInv, Absorbed
  <2>4. QED
    BY <1>3, <1>19, <2>2, <2>3 DEF OutcomeInv, Absorbed
<1>16. Outcomes'
  BY <1>1, <1>3, <1>12, <1>13, OutcomesKept DEF IInv, OutcomeInv
<1>17. QED
  BY <1>20, <1>9, <1>10, <1>11, <1>14, <1>15, <1>16 DEF OutcomeInv

(* A client that was led out of the mapping left everything as it was.      *)
LEMMA OverrunFollows ==
  ASSUME IInv, OutcomeInv, NEW n \in 1 .. MaxBlock, Overrun(n)
  PROVE  OutcomeInv'
<1>1. /\ inside /\ pc = "client" /\ pc' = "lost"
      /\ UNCHANGED <<interface, ram, lastType, inside, union0, counter, lastByte,
                     bytesProcessed, stage, known, absorbed, lastResult, lastValToAdd,
                     call, off, end, cur, corrupt, session, fed, mode, modes,
                     disturbed, leaked, digest, results, written, length, endBlocks>>
  BY DEF Overrun, MayLoad, AtClient, libvars, accvars, shavars, aesvars, inputs,
         outputs
<1>2. /\ Held' = Held /\ Start' = Start /\ Position' = Position /\ Aes' = Aes
      /\ Active' = Active /\ Undisturbed' = Undisturbed /\ Type' = Type
  BY <1>1 DEF Held, Start, Position, Aes, Active, Undisturbed, Type
<1>3. CallsMatch' /\ MessageHeld' /\ ResultsCounted' /\ RegistersKept'
  BY <1>1, <1>2 DEF OutcomeInv, CallsMatch, MessageHeld, ResultsCounted, RegistersKept
<1>4. Chained' /\ Absorbed' /\ PaddingHeld'
  BY <1>1, <1>2 DEF OutcomeInv, Chained, Absorbed, PaddingHeld
<1>5. DigestCorrect' /\ EncryptionComplete' /\ DecryptionComplete'
  BY <1>1 DEF OutcomeInv, Outcomes, DigestCorrect, EncryptionComplete, DecryptionComplete,
              ShaDone, AesDone, InvDone
<1>6. BlocksAre'
  BY <1>1, <1>2 DEF OutcomeInv, Outcomes, BlocksAre, NothingInherited
<1>7. QED
  BY <1>3, <1>4, <1>5, <1>6 DEF OutcomeInv, Outcomes

(* A call starts over the rest of the last one and what was loaded since.   *)
LEMMA EnterFollows ==
  ASSUME IInv, OutcomeInv, NEW c \in {"process", "end"}, EnterSHA(c) \/ EnterAES(c)
  PROVE  OutcomeInv'
<1>1. /\ cur \in Index /\ interface[cur] \in Buffer /\ pc = "client"
      /\ ~corrupt /\ inside
  BY SessionBuffer DEF EnterSHA, EnterAES, AtClient
<1>2. /\ interface' = [interface EXCEPT ![cur] = Normalize(@)]
      /\ off' = 0 /\ end' = interface'[cur].size
      /\ pc' = (IF lastType = "SHA" THEN "hash" ELSE "aes")
      /\ lastType # "SHA" => Aes
      /\ UNCHANGED <<cur, inside, corrupt, fed, session, bytesProcessed, results, ram,
                     written, endBlocks, lastType, lastResult, lastValToAdd, counter,
                     union0, mode, modes, disturbed, stage, known, absorbed>>
  BY DEF EnterSHA, EnterAES, accvars, aesvars, shavars, outputs, inputs, Aes
<1>3. interface \in [Index -> Buffer] /\ fed \in Nat /\ TypeOK
  BY Types DEF IInv
<1>4. end' = interface[cur].size + interface[cur].mem
  BY <1>1, <1>2, <1>3, BufferTypes
<1>5. Held' = Held /\ Held \in Nat
  <2>1. Held = interface[cur].mem + interface[cur].size
    BY <1>1 DEF Held
  <2>2. Held' = end'
    BY <1>2 DEF Held
  <2>3. QED
    BY <1>1, <1>4, <2>1, <2>2, BufferTypes
<1>6. Start' = Start /\ Position' = Position /\ Position = Start /\ Start \in Int
  <2>1. Start' = Start /\ Start \in Int
    BY <1>2, <1>3, <1>5 DEF Start
  <2>2. QED
    BY <1>1, <1>2, <2>1 DEF Position
<1>7. Active /\ Active' /\ Aes' = Aes
  BY <1>1, <1>2 DEF Active, Aes
<1>8. CallsMatch' /\ PaddingHeld'
  BY <1>1, <1>2, <1>7 DEF OutcomeInv, CallsMatch, PaddingHeld
<1>9. MessageHeld'
  BY <1>2, <1>5, <1>6, <1>7 DEF OutcomeInv, MessageHeld
<1>10. ResultsCounted'
  BY <1>1, <1>2, <1>6, <1>7 DEF OutcomeInv, ResultsCounted
<1>11. RegistersKept' /\ Chained'
  BY <1>2, <1>7 DEF OutcomeInv, RegistersKept, Chained, Type
<1>12. Absorbed'
  BY <1>2, <1>6, <1>7 DEF OutcomeInv, Absorbed, Undisturbed
<1>13. Aes => Len(results) * AesBlock <= fed
  BY <1>3, <1>5, <1>6, <1>7 DEF OutcomeInv, ResultsCounted, Start
<1>14. Outcomes'
  BY <1>1, <1>2, <1>3, <1>13, OutcomesKept DEF OutcomeInv
<1>15. QED
  BY <1>8, <1>9, <1>10, <1>11, <1>12, <1>14 DEF OutcomeInv
-----------------------------------------------------------------------------
(* The steps of the SHA sessions.                                           *)

LEMMA ShaSessionKept ==
  ASSUME OutcomeInv, inside' = TRUE, lastType' = "SHA", UNCHANGED lastValToAdd
  PROVE  ResultsCounted' /\ RegistersKept' /\ Chained' /\ Outcomes'
<1>1. ResultsCounted' /\ Chained'
  BY DEF ResultsCounted, Chained, Aes
<1>2. RegistersKept'
  BY DEF OutcomeInv, RegistersKept, Aes
<1>3. Outcomes'
  BY DEF Outcomes, DigestCorrect, EncryptionComplete, DecryptionComplete,
         BlocksAre, Aes, ShaDone, AesDone, InvDone
<1>4. QED
  BY <1>1, <1>2, <1>3

(* The rest of a call moves to the front of the buffer.                     *)
LEMMA RestFollows ==
  ASSUME IInv, OutcomeInv, pc \in {"hash", "aes"}, KeepRest(end - off),
         bytesProcessed' = AsInt(bytesProcessed + off),
         pc' \in {"client", "pad", "endaes"},
         UNCHANGED <<cur, inside, corrupt, fed, session>>
  PROVE  /\ MessageHeld' /\ Start' = Start + off /\ Position' = Start + off
         /\ Position = Start + off /\ Active /\ Active' /\ Start \in Nat
<1>1. /\ off \in Nat /\ end \in Nat /\ inside /\ ~corrupt /\ cur \in Index
      /\ off <= end /\ end <= MaxBlock /\ end <= PageSize
  BY DEF IInv, TypeOK, CallTypes, LibraryTypes,
         Control, CallInSession, SessionHasBuffer, LoopInBuffer
<1>2. /\ ram \in [Index -> [Addr -> Byte]] /\ fed \in Nat /\ bytesProcessed \in Int
  BY Types DEF IInv
<1>3. interface'[cur'].mem = end - off /\ interface'[cur'].size = 0
  BY <1>1, KeepRestTypes
<1>4. Active /\ Active' /\ Held = end
  BY <1>1 DEF Active, Held
<1>5. Held' = end - off
  BY <1>1, <1>3 DEF Held
<1>6. Start = fed - end /\ end <= fed /\ Start \in Nat
  BY <1>1, <1>2, <1>4 DEF Start, OutcomeInv, MessageHeld
<1>7. Start' = Start + off
  <2>1. Start' = fed - (end - off)
    BY <1>5 DEF Start
  <2>2. QED
    BY <1>1, <1>2, <1>6, <2>1
<1>8. Position = Start + off /\ Position' = Start + off
  <2>1. Start + off \in Int /\ Start + off + 0 = Start + off
    BY <1>1, <1>6
  <2>2. QED
    BY <1>7, <2>1 DEF Position
<1>9. MessageHeld'
  <2>1. ASSUME NEW a \in 0 .. Held' - 1
        PROVE  ram'[cur'][a] = Msg(session', Start' + a + 1)
    <3>1. a \in Addr /\ a < end - off /\ off + a \in 0 .. Held - 1
      BY <1>1, <1>4, <1>5 DEF Addr
    <3>2. ram[cur][off + a] = Msg(session, Start + (off + a) + 1)
      BY <1>4, <3>1 DEF OutcomeInv, MessageHeld
    <3>3. Start + (off + a) + 1 = Start' + a + 1
      BY <1>1, <1>6, <1>7, <3>1 DEF Addr
    <3>4. ram'[cur][a] = ram[cur][off + a]
      BY <1>1, <1>2, <3>1 DEF KeepRest
    <3>5. QED
      BY <3>2, <3>3, <3>4
  <2>2. Held' <= fed'
    BY <1>1, <1>2, <1>5, <1>6
  <2>3. ASSUME fed' < IntLimit PROVE bytesProcessed' = Start'
    <3>1. bytesProcessed = Start
      BY <1>4, <2>3 DEF OutcomeInv, MessageHeld
    <3>2. Start + off \in 0 .. IntLimit - 1
      BY <1>1, <1>2, <1>6, <2>3
    <3>3. QED
      BY <1>7, <3>1, <3>2, SmallInt
  <2>4. QED
    BY <2>1, <2>2, <2>3 DEF MessageHeld
<1>10. QED
  BY <1>4, <1>6, <1>7, <1>8, <1>9

LEMMA FinishProcessSHAFollows == IInv /\ OutcomeInv /\ FinishProcessSHA => OutcomeInv'
<1> SUFFICES ASSUME IInv, OutcomeInv, FinishProcessSHA PROVE OutcomeInv'
  OBVIOUS
<1>1. /\ pc = "hash" /\ pc' \in {"client", "pad"} /\ KeepRest(end - off)
      /\ bytesProcessed' = AsInt(bytesProcessed + off)
      /\ UNCHANGED <<cur, inside, corrupt, fed, session, lastType, lastValToAdd,
                     union0, known, stage, absorbed, disturbed>>
  BY DEF FinishProcessSHA, accvars, aesvars, shavars, inputs
<1>2. inside /\ lastType = "SHA"
  BY <1>1 DEF IInv, Control, CallInSession, OutcomeInv, CallsMatch
<1>3. MessageHeld' /\ Position' = Position /\ Active' = Active
  BY <1>1, RestFollows DEF Active
<1>4. CallsMatch' /\ PaddingHeld'
  BY <1>1, <1>2 DEF CallsMatch, PaddingHeld
<1>5. Absorbed'
  BY <1>1, <1>3 DEF OutcomeInv, Absorbed, Undisturbed
<1>6. ResultsCounted' /\ RegistersKept' /\ Chained' /\ Outcomes'
  BY <1>1, <1>2, ShaSessionKept, Types DEF IInv
<1>7. QED
  BY <1>3, <1>4, <1>5, <1>6 DEF OutcomeInv

(* A byte of a block that begins at o and ends before e.                    *)
LEMMA InRange ==
  ASSUME NEW o \in Nat, NEW e \in Nat, NEW b \in Nat, NEW i \in 0 .. b - 1, o + b <= e
  PROVE  o + i \in 0 .. e - 1
OBVIOUS

(* The block that the unit loads is the next of the padded message.         *)
LEMMA NextBlock ==
  ASSUME TypeOK, NEW q \in Int, q * ShaBlock = Start + off, Start \in Int,
         \A a \in 0 .. end - 1 : ram[cur][a] = PaddedByte(session, fed, Start + a + 1),
         off + ShaBlock <= end
  PROVE  ShaBlockAt(off) = PaddedBlock(session, fed, q + 1)
<1>1. off \in Nat /\ end \in Nat
  BY Types
<1>2. ASSUME NEW j \in 0 .. ShaBlock - 1
      PROVE  ram[cur][off + j] = PaddedByte(session, fed, (q + 1 - 1) * ShaBlock + j + 1)
  <2>1. off + j \in 0 .. end - 1
    <3>1. ShaBlock \in Nat
      BY SizesAssumption DEF SizesAssumption
    <3>2. QED
      BY <1>1, <3>1, InRange
  <2>2. ram[cur][off + j] = PaddedByte(session, fed, Start + (off + j) + 1)
    BY <2>1
  <2>3. q + 1 - 1 = q
    OBVIOUS
  <2>4. Start + (off + j) + 1 = (Start + off) + j + 1
    BY <1>1
  <2>5. QED
    BY <2>2, <2>3, <2>4
<1>3. QED
  BY <1>2 DEF ShaBlockAt, PaddedBlock

LEMMA HashBlockFollows == IInv /\ OutcomeInv /\ HashBlock => OutcomeInv'
<1> SUFFICES ASSUME IInv, OutcomeInv, HashBlock PROVE OutcomeInv'
  OBVIOUS
<1>1. /\ pc \in {"hash", "hashpad"} /\ off + ShaBlock <= end /\ off' = off + ShaBlock
      /\ UNCHANGED <<interface, ram, lastType, inside, bytesProcessed, lastValToAdd,
                     pc, end, cur, corrupt, session, fed, disturbed>>
  BY DEF HashBlock, aesvars, inputs
<1>2. /\ inside /\ ~corrupt /\ lastType = "SHA" /\ Active /\ Active' /\ cur \in Index
  BY <1>1 DEF IInv, Control, CallInSession, SessionHasBuffer, OutcomeInv, CallsMatch, Active
<1>3. /\ off \in Nat /\ end \in Nat /\ fed \in Nat /\ union0 \in 0 .. 2
      /\ absorbed \in Seq(ShaData) /\ TypeOK /\ Held \in Nat /\ Start \in Int
  BY <1>2, Types, HeldType DEF IInv
<1>4. Held' = Held /\ Start' = Start /\ Undisturbed' = Undisturbed
  BY <1>1 DEF Held, Start, Undisturbed, Active
<1>5. CallsMatch' /\ MessageHeld'
  BY <1>1, <1>2, <1>4 DEF OutcomeInv, CallsMatch, MessageHeld
<1>6. PaddingHeld'
  <2>1. SUFFICES ASSUME pc = "hashpad" PROVE PaddingHeld'
    BY <1>1 DEF PaddingHeld
  <2>2. /\ off \in {0, ShaBlock, 2 * ShaBlock} /\ interface[cur].size < ShaBlock
        /\ end = PaddedSize(interface[cur].size)
    BY <2>1 DEF OutcomeInv, PaddingHeld
  <2>3. end \in {ShaBlock, 2 * ShaBlock}
    BY <2>2 DEF PaddedSize
  <2>4. off' \in {0, ShaBlock, 2 * ShaBlock}
    BY <1>1, <1>3, <2>2, <2>3
  <2>5. QED
    BY <1>1, <1>4, <2>1, <2>4 DEF OutcomeInv, PaddingHeld
<1>7. Position = Start + off /\ Position' = Start + off + ShaBlock
  <2>1. Position' = Start' + off'
    BY <1>1 DEF Position
  <2>2. QED
    BY <1>1, <1>3, <1>4, <2>1 DEF Position
<1>8. Undisturbed =>
        \A a \in 0 .. end - 1 : ram[cur][a] = PaddedByte(session, fed, Start + a + 1)
  <2>1. CASE pc = "hashpad"
    BY <2>1 DEF OutcomeInv, PaddingHeld
  <2>2. CASE pc = "hash"
    <3>1. Held = end
      BY <2>2 DEF Held
    <3>2. ASSUME NEW a \in 0 .. end - 1
          PROVE  ram[cur][a] = PaddedByte(session, fed, Start + a + 1)
      <4>1. ram[cur][a] = Msg(session, Start + a + 1)
        BY <1>2, <3>1 DEF OutcomeInv, MessageHeld
      <4>2. Start + a + 1 <= fed
        BY <1>3, <3>1 DEF Start
      <4>3. QED
        BY <4>1, <4>2 DEF PaddedByte
    <3>3. QED
      BY <3>2
  <2>3. QED
    BY <1>1, <2>1, <2>2
<1>9. Absorbed'
  <2>1. SUFFICES ASSUME Undisturbed PROVE Absorbed'
    BY <1>4 DEF Absorbed
  <2>2. union0 # 2 /\ (union0 = 0 => Position = 0)
        /\ (union0 = 1 => /\ known /\ (Len(absorbed) + 1) * ShaBlock = Position
                          /\ stage = PaddedBlock(session, fed, Len(absorbed) + 1)
                          /\ \A i \in 1 .. Len(absorbed) :
                               absorbed[i] = PaddedBlock(session, fed, i))
    BY <2>1 DEF OutcomeInv, Absorbed
  <2>3. CASE union0 = 0
    <3>1. /\ stage' = ShaBlockAt(off) /\ known' = TRUE /\ absorbed' = <<>> /\ union0' = 1
      BY <2>3 DEF HashBlock, InitialValuesMissing
    <3>2. 0 * ShaBlock = Start + off
      BY <1>7, <2>2, <2>3
    <3>3. stage' = PaddedBlock(session, fed, 0 + 1)
      BY <1>1, <1>3, <1>8, <2>1, <3>1, <3>2, NextBlock
    <3>4. (Len(absorbed') + 1) * ShaBlock = Position'
      BY <1>3, <1>7, <3>1, <3>2
    <3>5. QED
      BY <1>1, <3>1, <3>3, <3>4 DEF Absorbed
  <2>4. CASE union0 = 1
    <3>1. /\ stage' = ShaBlockAt(off) /\ known' = known /\ union0' = 1
          /\ absorbed' = Append(absorbed, stage)
      BY <2>2, <2>4 DEF HashBlock, InitialValuesMissing, RunSHA
    <3> DEFINE l == Len(absorbed)
    <3>2. l \in Nat /\ Len(absorbed') = l + 1
      BY <1>3, <3>1, Types
    <3>3. (l + 1) * ShaBlock = Start + off
      BY <1>7, <2>2, <2>4
    <3>4. stage' = PaddedBlock(session, fed, (l + 1) + 1)
      <4>1. l + 1 \in Int
        BY <3>2
      <4>2. QED
        BY <1>1, <1>3, <1>8, <2>1, <3>1, <3>3, <4>1, NextBlock
    <3>5. (l + 1 + 1) * ShaBlock = Position'
      <4>1. ((l + 1) + 1) * ShaBlock = (l + 1) * ShaBlock + ShaBlock
        BY <3>2, NextMultiple
      <4>2. QED
        BY <1>3, <1>7, <3>3, <4>1
    <3>6. ASSUME NEW i \in 1 .. l + 1 PROVE absorbed'[i] = PaddedBlock(session, fed, i)
      <4>1. CASE i = l + 1
        BY <1>3, <2>2, <2>4, <3>1, <3>2, <4>1
      <4>2. CASE i \in 1 .. l
        BY <1>3, <2>2, <2>4, <3>1, <3>2, <4>2
      <4>3. QED
        BY <3>2, <4>1, <4>2
    <3> HIDE DEF l
    <3>7. QED
      BY <1>1, <2>2, <2>4, <3>1, <3>2, <3>4, <3>5, <3>6 DEF Absorbed
  <2>5. QED
    BY <1>3, <2>2, <2>3, <2>4
<1>10. ResultsCounted' /\ RegistersKept' /\ Chained' /\ Outcomes'
  BY <1>1, <1>2, ShaSessionKept, Types DEF IInv
<1>11. QED
  BY <1>5, <1>6, <1>9, <1>10 DEF OutcomeInv
(* How many blocks the padded message has, when inlen bytes are left behind *)
(* m whole blocks.                                                          *)
LEMMA BlocksOfPadding ==
  ASSUME NEW m \in Nat, NEW inlen \in 0 .. ShaBlock - 1, NEW n \in Int,
         n = m * ShaBlock + inlen
  PROVE  /\ PaddedBlocks(n) \in Int
         /\ PaddedBlocks(n) * ShaBlock = m * ShaBlock + PaddedSize(inlen)
<1>1. /\ m * ShaBlock \in Int /\ (m + 1) * ShaBlock = m * ShaBlock + ShaBlock
      /\ (m + 1 + 1) * ShaBlock = (m + 1) * ShaBlock + ShaBlock
  BY NextMultiple
<1>2. CASE inlen < ShaBlock - LenField
  <2>1. inlen + LenField \in 0 .. ShaBlock - 1 /\ m \in Int
    BY <1>2
  <2>2. (m * ShaBlock + (inlen + LenField)) \div ShaBlock = m
    BY <2>1, QuotientSha
  <2>3. n + LenField = m * ShaBlock + (inlen + LenField)
    BY <1>1
  <2>4. PaddedBlocks(n) = m + 1
    BY <2>2, <2>3 DEF PaddedBlocks
  <2>5. PaddedSize(inlen) = ShaBlock
    BY <1>2 DEF PaddedSize
  <2>6. PaddedBlocks(n) \in Int
    BY <2>4
  <2>7. QED
    BY <1>1, <2>4, <2>5, <2>6, Zenon
<1>3. CASE ~(inlen < ShaBlock - LenField)
  <2>1. inlen + LenField - ShaBlock \in 0 .. ShaBlock - 1 /\ m + 1 \in Int
    BY <1>3
  <2>2. ((m + 1) * ShaBlock + (inlen + LenField - ShaBlock)) \div ShaBlock = m + 1
    BY <2>1, QuotientSha
  <2>3. n + LenField = (m + 1) * ShaBlock + (inlen + LenField - ShaBlock)
    BY <1>1
  <2>4. (n + LenField) \div ShaBlock = m + 1
    BY <2>2, <2>3
  <2>5. PaddedBlocks(n) = m + 1 + 1 /\ m + 1 + 1 \in Int
    BY <2>4 DEF PaddedBlocks
  <2>6. PaddedSize(inlen) = 2 * ShaBlock
    BY <1>3 DEF PaddedSize
  <2>7. (m + 1 + 1) * ShaBlock = m * ShaBlock + 2 * ShaBlock
    BY <1>1
  <2>8. QED
    BY <2>5, <2>6, <2>7, Zenon
<1>4. QED
  BY <1>2, <1>3

LEMMA PadSHAFollows == IInv /\ OutcomeInv /\ PadSHA => OutcomeInv'
<1> SUFFICES ASSUME IInv, OutcomeInv, PadSHA PROVE OutcomeInv'
  OBVIOUS
<1> DEFINE inlen == Normalize(interface[cur]).size
           size == PaddedSize(inlen)
           padded == [a \in Addr |-> IF a < inlen \/ a >= size THEN ram[cur][a]
                               ELSE IF a = inlen THEN X80
                               ELSE IF a < size - LenField THEN Zero
                               ELSE LenOf(bytesProcessed + inlen)]
<1>1. /\ inside /\ ~corrupt /\ cur \in Index /\ pc = "pad" /\ lastType = "SHA"
      /\ Active /\ Active'
  BY DEF PadSHA, IInv, Control, CallInSession, SessionHasBuffer, OutcomeInv, CallsMatch, Active
<1>2. /\ interface[cur] \in Buffer /\ interface[cur].mem \in Nat
      /\ interface[cur].size = 0 /\ interface[cur].mem < ShaBlock
  BY <1>1, SessionBuffer DEF IInv, Control, LoopInBuffer
<1>3. inlen = interface[cur].mem /\ inlen \in 0 .. ShaBlock - 1
  BY <1>2, BufferTypes
<1>4. /\ interface \in [Index -> Buffer] /\ ram \in [Index -> [Addr -> Byte]]
      /\ bytesProcessed \in Int /\ fed \in Nat /\ union0 \in 0 .. 2 /\ TypeOK
      /\ absorbed \in Seq(ShaData)
  BY Types DEF IInv
<1>5. /\ interface' = [interface EXCEPT ![cur] = Normalize(interface[cur])]
      /\ ram' = [ram EXCEPT ![cur] = padded]
      /\ off' = 0 /\ end' = size /\ pc' = "hashpad"
      /\ UNCHANGED <<cur, inside, corrupt, lastType, bytesProcessed, lastValToAdd,
                     fed, session, disturbed, union0, stage, known, absorbed>>
  BY DEF PadSHA, accvars, aesvars, shavars, inputs
<1>6. /\ interface'[cur'].mem = 0 /\ interface'[cur'].size = inlen /\ ram'[cur'] = padded
  BY <1>1, <1>2, <1>4, <1>5, BufferTypes
<1>7. \A a \in Addr : padded[a] = IF a < inlen \/ a >= size THEN ram[cur][a]
                               ELSE IF a = inlen THEN X80
                               ELSE IF a < size - LenField THEN Zero
                               ELSE LenOf(bytesProcessed + inlen)
  OBVIOUS
<1>8. /\ size \in {ShaBlock, 2 * ShaBlock} /\ size = PaddedSize(inlen)
      /\ size \in Int /\ inlen \in Int /\ size <= PageSize
      /\ inlen < size - LenField
  BY <1>3 DEF PaddedSize
<1> HIDE DEF inlen, size, padded
<1>9. Held = inlen /\ Held' = inlen
  BY <1>1, <1>2, <1>3, <1>5, <1>6 DEF Held
<1>10. Start' = Start /\ Start \in Nat /\ fed = Start + inlen
  <2>1. Start = fed - inlen /\ inlen <= fed /\ Start' = Start
    BY <1>1, <1>5, <1>9 DEF Start, OutcomeInv, MessageHeld
  <2>2. QED
    BY <1>4, <1>8, <2>1
<1>11. Position = Start /\ Position' = Start
  BY <1>1, <1>5, <1>10 DEF Position
<1>12. MessageHeld'
  <2>1. ASSUME NEW a \in 0 .. Held' - 1
        PROVE  ram'[cur'][a] = Msg(session', Start' + a + 1)
    <3>1. a \in 0 .. inlen - 1
      BY <1>3, <1>9
    <3>2. a \in Addr
      BY <1>3, <3>1 DEF Addr
    <3>3. ram'[cur'][a] = ram[cur][a]
      <4>1. a < inlen
        BY <1>8, <3>1
      <4>2. QED
        BY <1>6, <1>7, <3>2, <4>1
    <3>4. ram[cur][a] = Msg(session, Start + a + 1)
      BY <1>1, <1>9, <3>1 DEF OutcomeInv, MessageHeld
    <3>5. QED
      BY <1>5, <1>10, <3>3, <3>4
  <2>2. QED
    BY <1>1, <1>4, <1>5, <1>9, <1>10, <2>1 DEF OutcomeInv, MessageHeld
<1>13. CallsMatch'
  BY <1>1, <1>5 DEF CallsMatch
<1>14. Undisturbed' = Undisturbed
  BY <1>1, <1>5 DEF Undisturbed
<1>15. Absorbed'
  BY <1>5, <1>11, <1>14 DEF OutcomeInv, Absorbed
<1>16. PaddingHeld'
  <2>1. off' \in {0, ShaBlock, 2 * ShaBlock} /\ end' = PaddedSize(interface'[cur'].size)
        /\ interface'[cur'].mem = 0 /\ interface'[cur'].size < ShaBlock
    BY <1>3, <1>5, <1>6, <1>8
  <2>2. ASSUME Undisturbed
        PROVE  /\ PaddedBlocks(fed) * ShaBlock = Start + size
               /\ \A a \in 0 .. size - 1 : padded[a] = PaddedByte(session, fed, Start + a + 1)
    <3>1. PICK m \in Nat : Start = m * ShaBlock
      <4>1. union0 # 2 /\ (union0 = 0 => Start = 0)
            /\ (union0 = 1 => (Len(absorbed) + 1) * ShaBlock = Start)
        BY <1>11, <2>2 DEF OutcomeInv, Absorbed
      <4>2. CASE union0 = 0
        <5>1. Start = 0 * ShaBlock
          BY <4>1, <4>2
        <5>2. QED
          BY <5>1
      <4>3. CASE union0 = 1
        <5>1. Len(absorbed) + 1 \in Nat
          BY <1>4
        <5>2. QED
          BY <4>1, <4>3, <5>1
      <4>4. QED
        BY <1>4, <4>1, <4>2, <4>3
    <3>2. /\ PaddedBlocks(fed) \in Int
          /\ PaddedBlocks(fed) * ShaBlock = Start + size
      <4>1. fed = m * ShaBlock + inlen /\ fed \in Int
        BY <1>4, <1>10, <3>1
      <4>2. PaddedBlocks(fed) \in Int
            /\ PaddedBlocks(fed) * ShaBlock = m * ShaBlock + PaddedSize(inlen)
        BY <1>3, <4>1, BlocksOfPadding
      <4>3. QED
        BY <1>8, <3>1, <4>2
    <3>3. bytesProcessed + inlen = fed
      BY <1>1, <1>10, <2>2 DEF OutcomeInv, MessageHeld, Undisturbed
    <3> DEFINE total == PaddedBlocks(fed) * ShaBlock
    <3>6. \A p : PaddedByte(session, fed, p) =
                   IF p <= fed THEN Msg(session, p)
                   ELSE IF p = fed + 1 THEN X80
                   ELSE IF p <= total - LenField THEN Zero ELSE LenOf(fed)
      BY DEF PaddedByte
    <3>7. total = Start + size
      BY <3>2
    <3> HIDE DEF total
    <3>4. ASSUME NEW a \in 0 .. size - 1
          PROVE  padded[a] = PaddedByte(session, fed, Start + a + 1)
      <4>1. a \in Addr /\ a < size /\ a \in Int /\ size \in Int /\ inlen \in Int
        BY <1>8 DEF Addr
      <4>2. CASE a < inlen
        <5>1. a \in 0 .. Held - 1
          BY <1>3, <1>9, <4>1, <4>2
        <5>2. ram[cur][a] = Msg(session, Start + a + 1)
          BY <1>1, <5>1 DEF OutcomeInv, MessageHeld
        <5>3. Start + a + 1 <= fed
          BY <1>3, <1>10, <4>1, <4>2, SMTT(30)
        <5>4. QED
          BY <1>7, <4>1, <4>2, <3>6, <5>2, <5>3
      <4>3. CASE a = inlen
        <5>1. ~(a < inlen \/ a >= size)
          BY <4>1, <4>3
        <5>2. padded[a] = X80
          BY <1>7, <4>1, <4>3, <5>1
        <5>3. Start + a + 1 = fed + 1 /\ ~(Start + a + 1 <= fed)
          BY <1>10, <4>1, <4>3
        <5>4. QED
          BY <3>6, <5>2, <5>3
      <4>4. CASE inlen < a /\ a < size - LenField
        <5>1. ~(a < inlen \/ a >= size) /\ a # inlen
          BY <4>1, <4>4
        <5>2. padded[a] = Zero
          BY <1>7, <4>1, <4>4, <5>1
        <5>3. ~(Start + a + 1 <= fed) /\ Start + a + 1 # fed + 1
          BY <1>10, <4>1, <4>4
        <5>4. Start + a + 1 <= total - LenField
          BY <1>10, <3>7, <4>1, <4>4
        <5>5. QED
          BY <3>6, <5>2, <5>3, <5>4
      <4>5. CASE inlen < a /\ ~(a < size - LenField)
        <5>1. ~(a < inlen \/ a >= size) /\ a # inlen
          BY <4>1, <4>5
        <5>2. padded[a] = LenOf(fed)
          BY <1>7, <3>3, <4>1, <4>5, <5>1
        <5>3. ~(Start + a + 1 <= fed) /\ Start + a + 1 # fed + 1
          BY <1>10, <4>1, <4>5
        <5>4. ~(Start + a + 1 <= total - LenField)
          BY <1>10, <3>7, <4>1, <4>5
        <5>5. QED
          BY <3>6, <5>2, <5>3, <5>4
      <4>6. QED
        BY <4>1, <4>2, <4>3, <4>4, <4>5
    <3>5. QED
      BY <3>2, <3>4, <3>7
  <2>3. QED
    BY <1>5, <1>6, <1>10, <1>14, <2>1, <2>2 DEF PaddingHeld
<1>17. ResultsCounted' /\ RegistersKept' /\ Chained' /\ Outcomes'
  BY <1>1, <1>5, ShaSessionKept, Types DEF IInv
<1>18. QED
  BY <1>12, <1>13, <1>15, <1>16, <1>17 DEF OutcomeInv

(* The last run absorbs the last block, and the digest is that of all.      *)
LEMMA FlushSHAFollows == IInv /\ OutcomeInv /\ FlushSHA => OutcomeInv'
<1> SUFFICES ASSUME IInv, OutcomeInv, FlushSHA PROVE OutcomeInv'
  OBVIOUS
<1>1. /\ pc = "hashpad" /\ inside' = FALSE /\ pc' = "client" /\ digest' = absorbed'
      /\ end < off + ShaBlock
      /\ UNCHANGED <<session, fed, disturbed, lastType, lastValToAdd, lastResult, modes>>
  BY DEF FlushSHA, LoopDone, aesvars, inputs
<1>2. inside /\ ~corrupt /\ lastType = "SHA" /\ Active /\ off <= end
  BY <1>1 DEF IInv, Control, CallInSession, LoopInBuffer, OutcomeInv, CallsMatch, Active
<1>3. /\ off \in Nat /\ end \in Nat /\ fed \in Nat /\ union0 \in 0 .. 2
      /\ absorbed \in Seq(ShaData) /\ Held \in Nat /\ Start \in Int
  BY <1>2, Types, HeldType DEF IInv
<1>4. off = end /\ end > 0
  <2>1. off \in {0, ShaBlock, 2 * ShaBlock} /\ end \in {ShaBlock, 2 * ShaBlock}
    BY <1>1 DEF OutcomeInv, PaddingHeld, PaddedSize
  <2>2. QED
    BY <1>1, <1>2, <2>1
<1>5. Position = Start + end /\ Start >= 0
  BY <1>1, <1>2, <1>3, <1>4 DEF Position, Start, OutcomeInv, MessageHeld
<1>6. ASSUME Undisturbed PROVE digest' = Padded(session, fed)
  <2> DEFINE l == Len(absorbed)
  <2>1. /\ union0 # 2 /\ (union0 = 0 => Position = 0)
        /\ union0 = 1 => /\ known /\ (l + 1) * ShaBlock = Position
                         /\ stage = PaddedBlock(session, fed, l + 1)
                         /\ \A i \in 1 .. l : absorbed[i] = PaddedBlock(session, fed, i)
    BY <1>6 DEF OutcomeInv, Absorbed
  <2>2. union0 = 1
    BY <1>3, <1>4, <1>5, <2>1
  <2>3. digest' = Append(absorbed, stage)
    BY <1>1, <2>1, <2>2 DEF FlushSHA, RunSHA
  <2>4. PaddedBlocks(fed) = l + 1
    <3>1. PaddedBlocks(fed) * ShaBlock = (l + 1) * ShaBlock
      BY <1>1, <1>5, <1>6, <2>1, <2>2 DEF OutcomeInv, PaddingHeld
    <3>2. PaddedBlocks(fed) \in Int /\ l + 1 \in Int
      <4>1. (fed + LenField) \div ShaBlock \in Int
        BY <1>3
      <4>2. QED
        BY <1>3, <4>1 DEF PaddedBlocks
    <3>3. \A x, y \in Int : x * ShaBlock = y * ShaBlock => x = y
      <4>1. ASSUME NEW x \in Int, NEW y \in Int, x * ShaBlock = y * ShaBlock PROVE x = y
        <5>1. (x * ShaBlock + 0) \div ShaBlock = x /\ (y * ShaBlock + 0) \div ShaBlock = y
          BY Quotient
        <5>2. QED
          BY <4>1, <5>1
      <4>2. QED
        BY <4>1
    <3>4. QED
      BY <3>1, <3>2, <3>3
  <2>5. l \in Nat /\ stage \in ShaData
    BY <1>3 DEF IInv, TypeOK, AcceleratorTypes
  <2>6. /\ digest' \in Seq(ShaData) /\ Len(digest') = l + 1
        /\ \A i \in 1 .. l + 1 : digest'[i] = PaddedBlock(session, fed, i)
    <3>1. digest' \in Seq(ShaData) /\ Len(digest') = l + 1
      BY <1>3, <2>3, <2>5
    <3>2. ASSUME NEW i \in 1 .. l + 1 PROVE digest'[i] = PaddedBlock(session, fed, i)
      <4>1. CASE i = l + 1
        BY <1>3, <2>1, <2>2, <2>3, <2>5, <4>1
      <4>2. CASE i \in 1 .. l
        BY <1>3, <2>1, <2>2, <2>3, <2>5, <4>2
      <4>3. QED
        BY <2>5, <4>1, <4>2
    <3>3. QED
      BY <3>1, <3>2
  <2> HIDE DEF l
  <2>7. digest' = [i \in 1 .. l + 1 |-> digest'[i]]
    BY <2>5, <2>6
  <2>8. Padded(session, fed) = [i \in 1 .. l + 1 |-> PaddedBlock(session, fed, i)]
    BY <2>4 DEF Padded, PaddedBlock
  <2>9. QED
    BY <2>6, <2>7, <2>8
<1>7. Outcomes'
  <2>1. DigestCorrect'
    BY <1>1, <1>2, <1>6 DEF DigestCorrect, Undisturbed, ShaDone
  <2>2. QED
    BY <1>1, <1>2, <2>1 DEF Outcomes, EncryptionComplete, DecryptionComplete,
       BlocksAre, Aes, AesDone, InvDone
<1>8. CallsMatch' /\ MessageHeld' /\ ResultsCounted' /\ Chained' /\ Absorbed' /\ PaddingHeld'
  BY <1>1 DEF CallsMatch, MessageHeld, ResultsCounted, Chained, Absorbed, PaddingHeld,
              Active, Undisturbed
<1>9. RegistersKept'
  BY <1>1, <1>2 DEF OutcomeInv, RegistersKept
<1>10. QED
  BY <1>7, <1>8, <1>9 DEF OutcomeInv
-----------------------------------------------------------------------------
(* The steps of the AES sessions.                                           *)

AddsResult(data) ==
  \/ /\ Type = "CTR" \/ lastType = "AES"
     /\ Encrypt(data)
     /\ results' = Append(results, Encrypted(data))
     /\ UNCHANGED counter
  \/ /\ Type # "CTR" /\ lastType = "InvAES"
     /\ Decrypt(data)

LEMMA OneMoreResult ==
  ASSUME TypeOK, NEW data, AddsResult(data)
  PROVE  /\ Len(results') = Len(results) + 1
         /\ \A i \in 1 .. Len(results) : results'[i] = results[i]
         /\ results'[Len(results) + 1] =
              IF Type = "CTR" \/ lastType = "AES" THEN Encrypted(data)
              ELSE [x |-> DataOf(data), pre |-> lastResult,
                    post |-> IF Type = "CBC" THEN counter ELSE lastValToAdd]
<1>1. results \in Seq(Result) /\ Len(results) \in Nat
  BY Types
<1>2. PICK r : /\ results' = Append(results, r)
               /\ r = IF Type = "CTR" \/ lastType = "AES" THEN Encrypted(data)
                      ELSE [x |-> DataOf(data), pre |-> lastResult,
                            post |-> IF Type = "CBC" THEN counter ELSE lastValToAdd]
  <2>1. CASE Type = "CTR" \/ lastType = "AES"
    <3>1. results' = Append(results, Encrypted(data))
      BY <2>1 DEF AddsResult
    <3>2. QED
      BY <2>1, <3>1
  <2>2. CASE ~(Type = "CTR" \/ lastType = "AES")
    <3>1. Decrypt(data)
      BY <2>2 DEF AddsResult
    <3>2. QED
      BY <2>2, <3>1 DEF Decrypt
  <2>3. QED
    BY <2>1, <2>2
<1>3. /\ Len(results') = Len(results) + 1
      /\ \A i \in 1 .. Len(results) : results'[i] = results[i]
      /\ results'[Len(results) + 1] = r
  BY <1>1, <1>2
<1>4. QED
  BY <1>2, <1>3

(* What the mode adds to the next block is in the registers.                *)
LEMMA NextResult ==
  ASSUME IInv, OutcomeInv, Active, Aes, ~disturbed, NothingInherited, NEW data,
         data = MessageBlock(session, fed, Len(results) + 1), AddsResult(data)
  PROVE  results'[Len(results) + 1]
           = ResultFor(session, fed, mode, lastType, Len(results) + 1)
<1> DEFINE l == Len(results)
<1>1. /\ lastType \in {"AES", "InvAES"} /\ mode \in Modes /\ Type = mode
      /\ modes \in SUBSET Modes /\ lastValToAdd = NoTerm
      /\ lastType = "InvAES" => lastResult = NoTerm /\ mode # "CTR"
      /\ lastType = "AES" /\ "CBC" \notin modes => lastResult = NoTerm
  BY Types DEF IInv, OutcomeInv, RegistersKept, Active, Aes
<1>2. l \in Nat /\ TypeOK
  BY Types DEF IInv
<1>3. results'[l + 1] =
        IF Type = "CTR" \/ lastType = "AES" THEN Encrypted(data)
        ELSE [x |-> DataOf(data), pre |-> lastResult,
              post |-> IF Type = "CBC" THEN counter ELSE lastValToAdd]
  BY <1>2, OneMoreResult
<1>4. /\ mode = "CBC" /\ lastType = "AES" =>
           lastResult = IF results = <<>> THEN Iv(session) ELSE Out(session, l)
      /\ mode = "CBC" /\ lastType = "InvAES" =>
           counter = IF results = <<>> THEN Iv(session)
                     ELSE DataOf(MessageBlock(session, fed, l))
      /\ mode = "CTR" => counter = Iv(session)
  BY DEF OutcomeInv, Chained
<1>5. (results = <<>>) <=> (l + 1 = 1)
  <2>1. results \in Seq(Result)
    BY Types DEF IInv
  <2>2. (results = <<>>) <=> (Len(results) = 0)
    BY <2>1
  <2>3. QED
    BY <1>2, <2>2
<1>6. mode # "CBC" => lastResult = NoTerm
  <2>1. SUFFICES ASSUME mode # "CBC" PROVE lastResult = NoTerm
    OBVIOUS
  <2>2. "CBC" \notin modes
    BY <2>1 DEF NothingInherited
  <2>3. QED
    BY <1>1, <2>2
<1>7. l + 1 - 1 = l
  BY <1>2
<1> HIDE DEF l
<1>8. CASE mode = "ECB"
  BY <1>1, <1>3, <1>6, <1>8 DEF ResultFor, Encrypted, Addition, l
<1>9. CASE mode = "CBC" /\ lastType = "AES"
  BY <1>1, <1>3, <1>4, <1>5, <1>7, <1>9 DEF ResultFor, Encrypted, Addition, l
<1>10. CASE mode = "CBC" /\ lastType = "InvAES"
  BY <1>1, <1>3, <1>4, <1>5, <1>7, <1>10 DEF ResultFor, l
<1>11. CASE mode = "CTR"
  BY <1>1, <1>3, <1>4, <1>6, <1>11 DEF ResultFor, Encrypted, Addition, l
<1>12. QED
  BY <1>1, <1>8, <1>9, <1>10, <1>11 DEF Modes

LEMMA ModesFollow ==
  ASSUME IInv, OutcomeInv, Active, Aes, NEW data,
         data = MessageBlock(session, fed, Len(results) + 1), AddsResult(data),
         UNCHANGED <<session, fed, mode, modes, lastType, disturbed>>
  PROVE  BlocksAre'
<1>1. TypeOK /\ Len(results) \in Nat
  BY Types DEF IInv
<1>2. ASSUME NothingInherited', ~disturbed', NEW i \in 1 .. Len(results) + 1
      PROVE  results'[i] = ResultFor(session, fed, mode, lastType, i)
  <2>1. NothingInherited /\ ~disturbed
    BY <1>2 DEF NothingInherited
  <2>2. CASE i = Len(results) + 1
    BY <2>1, <2>2, NextResult
  <2>3. CASE i \in 1 .. Len(results)
    <3>1. results[i] = ResultFor(session, fed, mode, lastType, i)
      BY <2>1, <2>3 DEF OutcomeInv, Outcomes, BlocksAre
    <3>2. results'[i] = results[i]
      BY <1>1, <2>3, OneMoreResult
    <3>3. QED
      BY <3>1, <3>2
  <2>4. QED
    BY <1>1, <1>2, <2>2, <2>3
<1>3. Len(results') = Len(results) + 1
  BY <1>1, OneMoreResult
<1>4. QED
  BY <1>2, <1>3 DEF BlocksAre

(* What the registers hold for the block after it.                          *)
LEMMA RegistersFollow ==
  ASSUME IInv, OutcomeInv, Active, Aes, NEW data, AddsResult(data),
         data = MessageBlock(session, fed, Len(results) + 1),
         UNCHANGED <<session, fed, mode, modes, lastType, disturbed, union0>>
  PROVE  RegistersKept' /\ (inside' => Chained')
<1>1. /\ lastType \in {"AES", "InvAES"} /\ mode \in Modes /\ Type \in modes
      /\ (~disturbed => Type = mode /\ (lastType = "InvAES" => mode # "CTR"))
      /\ lastValToAdd = NoTerm /\ inside /\ mode \in modes
      /\ (lastType = "InvAES" => lastResult = NoTerm)
      /\ (lastType = "AES" /\ "CBC" \notin modes => lastResult = NoTerm)
      /\ Type' = Type
  BY Types DEF IInv, OutcomeInv, RegistersKept, Active, Aes, Type
<1>2. Len(results) \in Nat /\ results' # <<>> /\ Len(results') = Len(results) + 1
  <2>1. Len(results) \in Nat /\ Len(results') = Len(results) + 1
    BY Types, OneMoreResult DEF IInv
  <2>2. Len(results') # 0
    BY <2>1
  <2>3. QED
    BY <2>1, <2>2
<1>3. CASE Type = "CTR" \/ lastType = "AES"
  <2>1. /\ lastValToAdd' = NoTerm /\ UNCHANGED counter
        /\ lastResult' = IF Type = "CBC" THEN Out(session, Len(results) + 1)
                         ELSE lastResult
    BY <1>3 DEF AddsResult, Encrypt
  <2>2. RegistersKept'
    <3>1. lastType' = "InvAES" => lastResult' = NoTerm
      BY <1>1, <1>3, <2>1
    <3>2. lastType' = "AES" /\ "CBC" \notin modes' => lastResult' = NoTerm
      BY <1>1, <2>1
    <3>3. QED
      BY <1>1, <2>1, <3>1, <3>2 DEF RegistersKept
  <2>3. Chained'
    <3>1. SUFFICES ASSUME ~disturbed
                   PROVE  /\ mode = "CBC" /\ lastType = "AES" =>
                               lastResult' = Out(session, Len(results'))
                          /\ mode = "CBC" => lastType # "InvAES"
                          /\ mode = "CTR" => counter' = Iv(session)
      BY <1>2 DEF Chained
    <3>2. QED
      BY <1>1, <1>2, <1>3, <2>1, <3>1 DEF OutcomeInv, Chained
  <2>4. QED
    BY <2>2, <2>3
<1>4. CASE ~(Type = "CTR" \/ lastType = "AES")
  <2>1. /\ lastValToAdd' = NoTerm /\ lastResult' = lastResult
        /\ counter' = IF Type = "CBC" THEN DataOf(data) ELSE counter
    BY <1>4 DEF AddsResult, Decrypt
  <2>2. RegistersKept'
    BY <1>1, <2>1 DEF RegistersKept
  <2>3. Chained'
    <3>1. SUFFICES ASSUME ~disturbed
                   PROVE  /\ mode = "CBC" =>
                               counter' = DataOf(MessageBlock(session, fed, Len(results')))
                          /\ mode # "CTR" /\ lastType # "AES"
      BY <1>2 DEF Chained
    <3>2. QED
      BY <1>1, <1>2, <1>4, <2>1, <3>1
  <2>4. QED
    BY <2>2, <2>3
<1>5. QED
  BY <1>3, <1>4

LEMMA NoOutcomeInside ==
  ASSUME BlocksAre', inside' = TRUE
  PROVE  Outcomes'
  BY DEF Outcomes, DigestCorrect, EncryptionComplete, DecryptionComplete,
         ShaDone, AesDone, InvDone

LEMMA AesStepFollows == IInv /\ OutcomeInv /\ AesStep => OutcomeInv'
<1> SUFFICES ASSUME IInv, OutcomeInv, AesStep PROVE OutcomeInv'
  OBVIOUS
<1> DEFINE data == AesBlockAt(off)
           l == Len(results)
<1>1. /\ pc = "aes" /\ off + AesBlock <= end /\ off' = off + AesBlock
      /\ UNCHANGED <<interface, ram, lastType, inside, bytesProcessed, union0,
                     pc, end, cur, corrupt, session, fed, mode, modes, disturbed,
                     written, endBlocks>>
  BY DEF AesStep, inputs
<1>2. /\ inside /\ ~corrupt /\ Active /\ Active' /\ Aes /\ Aes' /\ cur \in Index
  BY <1>1 DEF IInv, Control, CallInSession, SessionHasBuffer, OutcomeInv, CallsMatch, Active, Aes
<1>3. /\ off \in Nat /\ end \in Nat /\ fed \in Nat /\ TypeOK /\ l \in Nat
      /\ inside' = TRUE
  BY <1>1, <1>2, Types DEF IInv, TypeOK, LibraryTypes
<1>4. Held = end /\ Held' = end
  BY <1>1 DEF Held
<1>5. Start' = Start /\ end <= fed /\ Start \in Nat /\ fed = Start + end
  <2>1. Start' = Start /\ Start = fed - end
    BY <1>1, <1>4 DEF Start
  <2>2. end <= fed
    BY <1>2, <1>4 DEF OutcomeInv, MessageHeld
  <2>3. QED
    BY <1>3, <2>1, <2>2
<1>6. Position = Start + off /\ Position' = Start + off + AesBlock
  <2>1. Position = Start + off /\ Position' = Start + (off + AesBlock)
    BY <1>1, <1>5 DEF Position
  <2>2. QED
    BY <1>3, <1>5, <2>1
<1>7. l * AesBlock = Start + off /\ written * AesBlock = Start
  BY <1>1, <1>2, <1>6 DEF OutcomeInv, ResultsCounted
<1>8. data = MessageBlock(session, fed, l + 1)
  <2>1. ASSUME NEW j \in 0 .. AesBlock - 1
        PROVE  /\ ram[cur][off + j] = Msg(session, (l + 1 - 1) * AesBlock + j + 1)
               /\ (l + 1 - 1) * AesBlock + j + 1 <= fed
    <3>1. off + j \in 0 .. end - 1
      BY <1>1, <1>3
    <3>2. ram[cur][off + j] = Msg(session, Start + (off + j) + 1)
      BY <1>2, <1>4, <3>1 DEF OutcomeInv, MessageHeld
    <3>3. l + 1 - 1 = l
      BY <1>3
    <3>4. Start + (off + j) + 1 = (Start + off) + j + 1
      BY <1>3, <1>5
    <3>5. (Start + off) + j + 1 <= fed
      BY <1>3, <1>5, <3>1
    <3>6. QED
      BY <1>7, <3>2, <3>3, <3>4, <3>5
  <2>2. QED
    BY <2>1 DEF AesBlockAt, MessageBlock
<1>9. AddsResult(data)
  BY DEF AesStep, AddsResult
<1> HIDE DEF data
<1>10. CallsMatch' /\ PaddingHeld' /\ Absorbed'
  BY <1>1, <1>2 DEF CallsMatch, PaddingHeld, Absorbed, Undisturbed, Aes
<1>11. MessageHeld'
  BY <1>1, <1>2, <1>4, <1>5 DEF OutcomeInv, MessageHeld
<1>12. ResultsCounted'
  <2>1. Len(results') = l + 1
    BY <1>3, <1>9, OneMoreResult
  <2>2. (l + 1) * AesBlock = l * AesBlock + AesBlock
    BY <1>3, NextMultiple
  <2>3. Len(results') * AesBlock = Position'
    BY <1>6, <1>7, <2>1, <2>2
  <2>4. QED
    BY <1>1, <1>5, <1>7, <2>3 DEF ResultsCounted
<1>13. RegistersKept' /\ Chained'
  BY <1>1, <1>2, <1>3, <1>8, <1>9, RegistersFollow
<1>14. BlocksAre'
  BY <1>1, <1>2, <1>8, <1>9, ModesFollow
<1>15. Outcomes'
  BY <1>3, <1>14, NoOutcomeInside
<1>16. QED
  BY <1>10, <1>11, <1>12, <1>13, <1>15 DEF OutcomeInv

LEMMA FinishProcessAESFollows ==
  ASSUME IInv, OutcomeInv, NEW byte \in 0 .. MaxByte, FinishProcessAES(byte)
  PROVE  OutcomeInv'
<1>1. /\ pc = "aes" /\ pc' \in {"client", "endaes"} /\ KeepRest(end - off)
      /\ bytesProcessed' = AsInt(bytesProcessed + off)
      /\ UNCHANGED <<cur, inside, corrupt, fed, session, lastType, lastValToAdd, counter,
                     lastResult, union0, mode, modes, disturbed, results>>
      /\ IF pc' = "endaes" THEN endBlocks' = off \div AesBlock /\ UNCHANGED written
         ELSE written' = Len(results)
  BY DEF FinishProcessAES, accvars, aesvars, inputs
<1>2. inside /\ Aes
  BY <1>1 DEF IInv, Control, CallInSession, OutcomeInv, CallsMatch
<1>3. /\ MessageHeld' /\ Start' = Start + off /\ Position' = Start + off
      /\ Position = Start + off /\ Active /\ Active' /\ Start \in Nat
  BY <1>1, RestFollows
<1>4. TypeOK /\ Len(results) \in Nat /\ written \in Nat /\ off \in Nat /\ fed \in Nat
  BY Types DEF IInv
<1>5. Len(results) * AesBlock = Start + off /\ written * AesBlock = Start
  BY <1>1, <1>2, <1>3 DEF OutcomeInv, ResultsCounted
<1>6. CallsMatch' /\ PaddingHeld' /\ Absorbed'
  BY <1>1, <1>2 DEF CallsMatch, PaddingHeld, Absorbed, Undisturbed, Aes
<1>7. ResultsCounted'
  <2>1. CASE pc' = "client"
    BY <1>1, <1>3, <1>5, <2>1 DEF ResultsCounted
  <2>2. CASE pc' = "endaes"
    <3> DEFINE l == Len(results)
               w == written
    <3>1. l \in Int /\ w \in Int /\ l - w \in Int
      BY <1>4
    <3>2. off = (l - w) * AesBlock + 0
      <4>1. (l - w) * AesBlock = l * AesBlock - w * AesBlock
        BY <3>1
      <4>2. off = (Start + off) - Start /\ off + 0 = off
        BY <1>3, <1>4
      <4>3. l * AesBlock = Start + off /\ w * AesBlock = Start
        BY <1>5
      <4>4. (l - w) * AesBlock = off
        BY <4>1, <4>2, <4>3, Zenon
      <4>5. QED
        BY <4>2, <4>4, Zenon
    <3> HIDE DEF l, w
    <3>3. off \div AesBlock = l - w
      <4>1. 0 \in 0 .. AesBlock - 1
        OBVIOUS
      <4>2. ((l - w) * AesBlock + 0) \div AesBlock = l - w
        BY <3>1, <4>1, QuotientAes
      <4>3. QED
        BY <3>2, <4>2
    <3>4. written' + endBlocks' = l
      <4>1. written' = w /\ endBlocks' = l - w
        BY <1>1, <2>2, <3>3 DEF w
      <4>2. QED
        BY <3>1, <4>1
    <3>5. (written' + endBlocks') * AesBlock = Start'
      BY <1>3, <1>5, <3>4 DEF l
    <3>6. Len(results') * AesBlock = Position'
      BY <1>1, <1>3, <1>5
    <3>7. QED
      BY <2>2, <3>5, <3>6 DEF ResultsCounted
  <2>3. QED
    BY <1>1, <2>1, <2>2
<1>8. RegistersKept' /\ Chained'
  BY <1>1, <1>3 DEF OutcomeInv, RegistersKept, Chained, Aes, Type
<1>9. Outcomes'
  <2>1. Len(results) * AesBlock <= fed
    <3>1. off <= end /\ end <= fed /\ Start = fed - end /\ end \in Nat
      <4>1. Held = end
        BY <1>1 DEF Held
      <4>2. QED
        BY <1>1, <1>2, <1>3, <4>1, Types
           DEF Start, OutcomeInv, MessageHeld, IInv, Control, LoopInBuffer, Active
    <3>2. Start + off <= fed
      BY <1>4, <3>1
    <3>3. QED
      BY <1>5, <3>2
  <2>2. inside' = TRUE
    BY <1>1, <1>2, <1>4 DEF TypeOK, LibraryTypes
  <2>3. QED
    BY <1>1, <1>4, <2>1, <2>2, OutcomesKept DEF OutcomeInv
<1>10. QED
  BY <1>3, <1>6, <1>7, <1>8, <1>9 DEF OutcomeInv

(* Where the message ends, when only the rest of a call is in the buffer.   *)
LEMMA Remainder ==
  ASSUME IInv, OutcomeInv, pc = "endaes"
  PROVE  /\ Active /\ Held = interface[cur].mem /\ Held \in 0 .. AesBlock - 1
         /\ interface[cur].size = 0 /\ cur \in Index
         /\ Start \in Nat /\ fed = Start + Held /\ Position = Start
         /\ \A q \in Int : q * AesBlock = Start =>
              fed \div AesBlock = q /\ fed % AesBlock = Held
<1>1. inside /\ ~corrupt /\ Active
  BY DEF IInv, Control, CallInSession, Active
<1>2. /\ interface[cur].mem \in Nat /\ interface[cur].size = 0 /\ cur \in Index
      /\ interface[cur].mem < AesBlock /\ fed \in Nat
  BY <1>1, SessionBuffer, Types DEF IInv, Control, LoopInBuffer
<1>3. Held = interface[cur].mem /\ Held \in 0 .. AesBlock - 1
  BY <1>2 DEF Held
<1>4. Start \in Nat /\ fed = Start + Held
  <2>1. Start = fed - Held /\ Held <= fed
    BY <1>1 DEF Start, OutcomeInv, MessageHeld
  <2>2. QED
    BY <1>2, <1>3, <2>1, SMTT(30)
<1>5. Position = Start
  BY <1>4 DEF Position
<1>6. ASSUME NEW q \in Int, q * AesBlock = Start
      PROVE  fed \div AesBlock = q /\ fed % AesBlock = Held
  <2>1. /\ (q * AesBlock + Held) \div AesBlock = q
        /\ (q * AesBlock + Held) % AesBlock = Held
    BY <1>3, QuotientAes
  <2>2. QED
    BY <1>4, <1>6, <2>1
<1>7. QED
  BY <1>1, <1>2, <1>3, <1>4, <1>5, <1>6

(* The padded block is the last of the message, and with it every block was *)
(* given to the client.                                                     *)
LEMMA EndEncryptFollows == IInv /\ OutcomeInv /\ EndEncrypt => OutcomeInv'
<1> SUFFICES ASSUME IInv, OutcomeInv, EndEncrypt PROVE OutcomeInv'
  OBVIOUS
<1> DEFINE b == Normalize(interface[cur])
           last == [j \in 0 .. AesBlock - 1 |->
                      IF j < b.size THEN ram[cur][j] ELSE Pkcs(AesBlock - b.size)]
           l == Len(results)
<1>1. /\ pc = "endaes" /\ lastType = "AES" /\ inside' = FALSE /\ pc' = "client"
      /\ bytesProcessed' = AsInt(bytesProcessed + AesBlock)
      /\ written' = Len(results) + 1 /\ length' = bytesProcessed'
      /\ UNCHANGED <<lastType, union0, session, fed, mode, modes, disturbed>>
  BY DEF EndEncrypt, FreeVersatBuffer, TotalPadding, inputs
<1>2. AddsResult(last)
  BY DEF EndEncrypt, FreeVersatBuffer, AddsResult
<1>3. /\ Active /\ Held = interface[cur].mem /\ Held \in 0 .. AesBlock - 1
      /\ interface[cur].size = 0 /\ cur \in Index
      /\ Start \in Nat /\ fed = Start + Held /\ Position = Start
  BY <1>1, Remainder
<1>4. Aes /\ TypeOK /\ l \in Nat /\ fed \in Nat
  BY <1>1, Types DEF Aes, IInv
<1>5. l * AesBlock = Start
  BY <1>3, <1>4 DEF OutcomeInv, ResultsCounted
<1>6. fed \div AesBlock = l /\ fed % AesBlock = Held
  BY <1>1, <1>4, <1>5, Remainder
<1>7. b.size = Held
  <2>1. interface[cur] \in Buffer
    BY <1>3, Types DEF IInv
  <2>2. QED
    BY <1>3, <2>1, BufferTypes
<1> HIDE DEF b
<1>8. last = MessageBlock(session, fed, l + 1)
  <2>1. ASSUME NEW j \in 0 .. AesBlock - 1
        PROVE  last[j] = IF (l + 1 - 1) * AesBlock + j + 1 <= fed
                         THEN Msg(session, (l + 1 - 1) * AesBlock + j + 1)
                         ELSE Pkcs(AesBlock - (fed % AesBlock))
    <3>1. (l + 1 - 1) * AesBlock + j + 1 = Start + j + 1
      <4>1. l + 1 - 1 = l
        BY <1>4
      <4>2. QED
        BY <1>5, <4>1
    <3>2. (Start + j + 1 <= fed) <=> (j < Held)
      BY <1>3
    <3>3. j < Held => ram[cur][j] = Msg(session, Start + j + 1)
      <4>1. j < Held => j \in 0 .. Held - 1
        BY <1>3
      <4>2. QED
        BY <1>3, <4>1 DEF OutcomeInv, MessageHeld
    <3>4. QED
      BY <1>6, <1>7, <3>1, <3>2, <3>3
  <2>2. QED
    BY <2>1 DEF MessageBlock
<1> HIDE DEF last
<1>9. RegistersKept'
  BY <1>1, <1>2, <1>3, <1>4, <1>8, RegistersFollow
<1>10. BlocksAre'
  BY <1>1, <1>2, <1>3, <1>4, <1>8, ModesFollow
<1>11. EncryptionComplete'
  <2>1. SUFFICES ASSUME fed + AesBlock < IntLimit
                 PROVE  /\ Len(results') = fed \div AesBlock + 1
                        /\ written' = Len(results')
                        /\ length' = written' * AesBlock
    BY <1>1 DEF EncryptionComplete
  <2>2. Len(results') = l + 1
    BY <1>2, <1>4, OneMoreResult
  <2>3. bytesProcessed = Start
    <3>1. fed < IntLimit
      BY <1>4, <2>1
    <3>2. QED
      BY <1>3, <3>1 DEF OutcomeInv, MessageHeld
  <2>4. AsInt(Start + AesBlock) = Start + AesBlock
    <3>1. Start + AesBlock \in 0 .. IntLimit - 1
      BY <1>3, <1>4, <2>1, SMTT(30)
    <3>2. QED
      BY <3>1, SmallInt
  <2>5. (l + 1) * AesBlock = l * AesBlock + AesBlock
    BY <1>4, NextMultiple
  <2>6. QED
    BY <1>1, <1>5, <1>6, <2>2, <2>3, <2>4, <2>5
<1>12. Outcomes'
  BY <1>1, <1>10, <1>11 DEF Outcomes, DigestCorrect, DecryptionComplete, ShaDone, InvDone
<1>13. CallsMatch' /\ MessageHeld' /\ ResultsCounted' /\ Chained' /\ Absorbed' /\ PaddingHeld'
  BY <1>1 DEF CallsMatch, MessageHeld, ResultsCounted, Chained, Absorbed, PaddingHeld,
              Active, Undisturbed
<1>14. QED
  BY <1>9, <1>12, <1>13 DEF OutcomeInv

LEMMA SameModes ==
  ASSUME BlocksAre,
         UNCHANGED <<results, session, fed, mode, modes, lastType, disturbed>>
  PROVE  BlocksAre'
  BY DEF BlocksAre, NothingInherited, Aes

(* The client has all blocks but those that End found in the buffer.        *)
LEMMA EndDecryptFollows == IInv /\ OutcomeInv /\ EndDecrypt => OutcomeInv'
<1> SUFFICES ASSUME IInv, OutcomeInv, EndDecrypt PROVE OutcomeInv'
  OBVIOUS
<1>1. /\ pc = "endaes" /\ lastType = "InvAES" /\ inside' = FALSE /\ pc' = "client"
      /\ bytesProcessed' = AsInt(bytesProcessed - lastByte) /\ length' = bytesProcessed'
      /\ UNCHANGED <<lastType, union0, session, fed, mode, modes, disturbed, written,
                     results, endBlocks, lastByte, lastResult, lastValToAdd>>
  BY DEF EndDecrypt, inputs, accvars, aesvars
<1>2. /\ Active /\ Held \in 0 .. AesBlock - 1 /\ Start \in Nat /\ fed = Start + Held
  BY <1>1, Remainder
<1>3. /\ Aes /\ TypeOK /\ fed \in Nat /\ written \in Nat /\ endBlocks \in Nat
      /\ lastByte \in 0 .. MaxByte
  BY <1>1, Types DEF Aes, IInv
<1>4. DecryptionComplete'
  <2> DEFINE q == written + endBlocks
  <2>1. SUFFICES ASSUME fed < IntLimit
                 PROVE  /\ written = fed \div AesBlock - endBlocks
                        /\ length' = (fed \div AesBlock) * AesBlock - lastByte
    BY <1>1 DEF DecryptionComplete
  <2>2. q * AesBlock = Start
    BY <1>1, <1>2, <1>3 DEF OutcomeInv, ResultsCounted
  <2>3. q \in Int /\ written = q - endBlocks
    BY <1>3
  <2> HIDE DEF q
  <2>4. fed \div AesBlock = q
    BY <1>1, <2>2, <2>3, Remainder
  <2>5. bytesProcessed = Start
    BY <1>2, <2>1 DEF OutcomeInv, MessageHeld
  <2>6. AsInt(Start - lastByte) = Start - lastByte
    <3>1. Start - lastByte \in -IntLimit .. IntLimit - 1
      BY <1>2, <1>3, <2>1
    <3>2. QED
      BY <3>1, SmallInt
  <2>7. QED
    BY <1>1, <2>2, <2>3, <2>4, <2>5, <2>6
<1>5. BlocksAre'
  BY <1>1, SameModes DEF OutcomeInv, Outcomes
<1>6. Outcomes'
  BY <1>1, <1>4, <1>5 DEF Outcomes, DigestCorrect, EncryptionComplete, ShaDone, AesDone
<1>7. CallsMatch' /\ MessageHeld' /\ ResultsCounted' /\ Chained' /\ Absorbed' /\ PaddingHeld'
  BY <1>1 DEF CallsMatch, MessageHeld, ResultsCounted, Chained, Absorbed, PaddingHeld,
              Active, Undisturbed
<1>8. RegistersKept'
  BY <1>1 DEF OutcomeInv, RegistersKept
<1>9. QED
  BY <1>6, <1>7, <1>8 DEF OutcomeInv
-----------------------------------------------------------------------------
LEMMA StutterFollows == IInv /\ OutcomeInv /\ UNCHANGED vars => OutcomeInv'
<1> SUFFICES ASSUME IInv, OutcomeInv, UNCHANGED vars PROVE OutcomeInv'
  OBVIOUS
<1>1. UNCHANGED <<interface, ram, lastType, inside, union0, counter, lastByte,
                  bytesProcessed, stage, known, absorbed, lastResult, lastValToAdd,
                  pc, call, off, end, cur, corrupt, session, fed, mode, modes,
                  disturbed, leaked, digest, results, written, length, endBlocks>>
  BY DEF vars, libvars, accvars, shavars, aesvars, inputs, outputs
<1>2. /\ Held' = Held /\ Start' = Start /\ Position' = Position /\ Aes' = Aes
      /\ Active' = Active /\ Undisturbed' = Undisturbed /\ Type' = Type
  BY <1>1 DEF Held, Start, Position, Aes, Active, Undisturbed, Type
<1>3. CallsMatch' /\ MessageHeld' /\ ResultsCounted' /\ RegistersKept'
  BY <1>1, <1>2 DEF OutcomeInv, CallsMatch, MessageHeld, ResultsCounted, RegistersKept
<1>4. Chained' /\ Absorbed' /\ PaddingHeld'
  BY <1>1, <1>2 DEF OutcomeInv, Chained, Absorbed, PaddingHeld
<1>5. DigestCorrect' /\ EncryptionComplete' /\ DecryptionComplete'
  BY <1>1 DEF OutcomeInv, Outcomes, DigestCorrect, EncryptionComplete, DecryptionComplete,
              ShaDone, AesDone, InvDone
<1>6. BlocksAre'
  BY <1>1, SameModes DEF OutcomeInv, Outcomes
<1>7. QED
  BY <1>3, <1>4, <1>5, <1>6 DEF OutcomeInv, Outcomes

LEMMA NextFollows == IInv /\ OutcomeInv /\ [Next]_vars => OutcomeInv'
<1> SUFFICES ASSUME IInv, OutcomeInv, Next PROVE OutcomeInv'
  BY StutterFollows
<1>1. CASE Client
  BY <1>1, BeginSHAFollows, BeginAESFollows, RefusedBeginFollows, FillFollows,
     OverrunFollows, EnterFollows DEF Client
<1>2. CASE Library
  BY <1>2, HashBlockFollows, FinishProcessSHAFollows, PadSHAFollows, FlushSHAFollows,
     AesStepFollows, FinishProcessAESFollows, EndEncryptFollows, EndDecryptFollows
     DEF Library
<1>3. QED
  BY <1>1, <1>2 DEF Next

LEMMA SessionsFollow == Spec => [](TypeOK /\ Outcomes)
<1>1. IInv /\ OutcomeInv => TypeOK /\ Outcomes
  BY DEF IInv, OutcomeInv
<1>2. QED
  BY <1>1, InitFollows, NextFollows, Invariance, PTL DEF Spec

(* The digest that EndSHA leaves (versatCrypto.c:482-546) is that of the    *)
(* message with the padding of FIPS 180-4, for blocks of every size,        *)
(* however the client cut the message into calls and whatever earlier       *)
(* sessions left behind, if no refused Begin changed the union in between   *)
(* and the message is shorter than 2^31 bytes.                              *)
THEOREM DigestIsPadded == Spec => []DigestCorrect
<1>1. TypeOK /\ Outcomes => DigestCorrect
  BY DEF Outcomes
<1>2. QED
  BY <1>1, SessionsFollow, PTL

(* EndAES (versatCrypto.c:1071-1098), when encrypting, has given the client *)
(* every block and one of padding, and returns their length.                *)
THEOREM EncryptionReturnsAll == Spec => []EncryptionComplete
<1>1. TypeOK /\ Outcomes => EncryptionComplete
  BY DEF Outcomes
<1>2. QED
  BY <1>1, SessionsFollow, PTL

(* EndAES when decrypting (versatCrypto.c:1061-1069): the client has all    *)
(* blocks but those that were still in the buffer, and the length counts    *)
(* them all, without the padding - whatever byte the last one ends with.    *)
THEOREM DecryptionReturnsAll == Spec => []DecryptionComplete
<1>1. TypeOK /\ Outcomes => DecryptionComplete
  BY DEF Outcomes
<1>2. QED
  BY <1>1, SessionsFollow, PTL

(* Every block of an AES session meets in the accelerator exactly what its  *)
(* mode adds to it (versatCrypto.c:663-1049), whichever sessions came       *)
(* before in the same mode or in ECB; in CTR mode that is said of what is   *)
(* added to all blocks, and of the counter of the first.                    *)
THEOREM ModesRespected == Spec => []BlocksFollowMode
<1>1. TypeOK /\ Outcomes => BlocksFollowMode
  <2> SUFFICES ASSUME TypeOK, Outcomes, NothingInherited, Aes, ~disturbed,
                      NEW i \in 1 .. Len(results)
               PROVE  ResultExpected(i)
    BY DEF BlocksFollowMode, ResultsExpected, Aes
  <2>1. results[i] = ResultFor(session, fed, mode, lastType, i)
    BY DEF Outcomes, BlocksAre
  <2>2. mode \in Modes /\ i \in Nat
    BY Types
  <2>3. QED
    BY <2>1, <2>2, ExpectedAre
<1>2. QED
  BY <1>1, SessionsFollow, PTL
=============================================================================
