--------------------------- MODULE VersatSession ---------------------------
(***************************************************************************)
(* The userspace Versat library (software/src/linux/versatCrypto.c): the   *)
(* Begin / Process / End protocol of SHA-256 and AES, the two physical     *)
(* buffers handed out to the client, the union that SHA and AES share, and *)
(* the registers of the accelerator that survive from one session to the   *)
(* next.                                                                   *)
(*                                                                         *)
(* One process, one thread.  A call of the client is one action, except    *)
(* for the loops over blocks: every run of the accelerator is an action of *)
(* its own, and pc says where the library is.  Block sizes are parameters, *)
(* so 64, 8 and 16 bytes become small numbers in a model.  Bytes carry     *)
(* their provenance instead of a value: which session's message they       *)
(* belong to and at which position, or which part of the padding they are. *)
(***************************************************************************)
EXTENDS Integers, Sequences, FiniteSets

CONSTANTS
  NBuffers,     (* MAX_VERSAT_BUFFERS                                       *)
  MaxBlock,     (* maxBlockSize, the argument of InitVersat                 *)
  PageSize,     (* bytes mapped behind each buffer, at least 4096:          *)
                (* AllocateBuffer goes down to half and less if it must, and *)
                (* declares MaxBlock all the same                           *)
  ShaBlock,     (* 64: bytes of a SHA-256 block                             *)
  LenField,     (* 8: bytes of the length that ends the SHA-256 padding     *)
  AesBlock,     (* 16: bytes of an AES block                                *)
  IntLimit,     (* 2^31: versat.bytesProcessed is an int                    *)
  MaxByte,      (* 255                                                      *)
  MaxSessions,  (* bound of the model: Begin calls that are accepted        *)
  MaxBytes      (* bound of the model: bytes the client loads, per session     *)

ASSUME SizesAssumption ==
  /\ NBuffers \in Nat \ {0}
  /\ ShaBlock \in Nat /\ LenField \in Nat /\ AesBlock \in Nat
  /\ 0 < LenField /\ LenField < ShaBlock
  /\ 1 < AesBlock /\ AesBlock <= ShaBlock
  /\ MaxBlock \in Nat /\ ShaBlock <= MaxBlock
  /\ PageSize \in Nat /\ 2 * ShaBlock <= PageSize
  /\ IntLimit \in Nat \ {0}
  /\ MaxByte \in Nat /\ AesBlock <= MaxByte /\ MaxByte <= IntLimit
  /\ MaxSessions \in Nat /\ MaxBytes \in [1 .. MaxSessions -> Nat]

VARIABLES
  bufferState,     (* versat.bufferState                                    *)
  interface,       (* versat.interface: offset of mem, size and maxSize     *)
  ram,             (* what the physical buffers hold                        *)
  lastType,        (* versat.lastTypeActivated                              *)
  inside,          (* versat.currentlyInside                                *)
  union0,          (* first byte of the union: AES.type, and at the same    *)
                   (* place SHA.initialStateValuesLoaded                    *)
  counter,         (* versat.AES.counter                                    *)
  lastByte,        (* versat.AES.lastByteProcessed                          *)
  bytesProcessed,  (* versat.bytesProcessed                                 *)
  stage,           (* SHA unit: the block it loaded in its last run         *)
  known,           (* SHA unit: its state was set to the initial values ... *)
  absorbed,        (* ... and then took in these blocks                     *)
  lastResult,      (* AES unit: added to the state in the first round       *)
  lastValToAdd,    (* AES unit: added to the state after the last round     *)
  pc,              (* where the library is; "client" outside every call,    *)
                   (* "lost" when the client left the mapping               *)
  call,            (* "process" or "end": the call in progress              *)
  off, end,        (* the library's loop over the blocks of ram[cur]        *)
  cur,             (* index of the buffer the client holds, -1 for none     *)
  corrupt,         (* bufferState[-1] and interface[-1] have been written   *)
  (* What the client did and was given, for the properties:                 *)
  session,         (* Begin calls accepted so far                           *)
  fed,             (* bytes loaded in the session                           *)
  mode,            (* mode of the last AES session                          *)
  modes,           (* modes used since the AES unit was reset               *)
  disturbed,       (* a refused BeginAES changed union0 in the session      *)
  leaked,          (* sessions that ended and kept their buffer             *)
  digest,          (* blocks behind the digest of EndSHA                    *)
  results,         (* results of the AES unit in the session                *)
  written,         (* results the client has written to its file            *)
  length,          (* what EndAES returned                                  *)
  endBlocks        (* whole blocks the last End call processed              *)

libvars == <<bufferState, interface, ram, lastType, inside, union0, counter,
             lastByte, bytesProcessed>>
shavars == <<stage, known, absorbed>>
aesvars == <<lastResult, lastValToAdd>>
accvars == <<shavars, aesvars>>
inputs  == <<session, fed, mode, modes, disturbed>>
outputs == <<leaked, digest, results, written, length, endBlocks>>
vars == <<libvars, accvars, pc, call, off, end, cur, corrupt, inputs, outputs>>

Index == 0 .. NBuffers - 1
Addr  == 0 .. PageSize - 1

Modes == {"ECB", "CBC", "CTR"}

(* AESType: the value of versat.AES.type for each mode, and back.           *)
TypeOf  == [ECB |-> 0, CBC |-> 1, CTR |-> 2]
ModeOf  == [t \in 0 .. 2 |-> CASE t = 0 -> "ECB" [] t = 1 -> "CBC" [] OTHER -> "CTR"]
-----------------------------------------------------------------------------
(* Bytes, blocks and the values the AES unit adds, by provenance.           *)

Kinds == {"junk", "msg", "x80", "zero", "len", "pkcs"}
Byte  == [k : Kinds, s : Nat, n : Int]

Junk      == [k |-> "junk", s |-> 0, n |-> 0]
Zero      == [k |-> "zero", s |-> 0, n |-> 0]
X80       == [k |-> "x80",  s |-> 0, n |-> 0]
LenOf(n)  == [k |-> "len",  s |-> 0, n |-> n]
Pkcs(n)   == [k |-> "pkcs", s |-> 0, n |-> n]
Msg(s, p) == [k |-> "msg",  s |-> s, n |-> p]

ShaData == [0 .. ShaBlock - 1 -> Byte]
AesData == [0 .. AesBlock - 1 -> Byte]

(* A value of a 16-byte register: zero, the IV or counter of session s, n   *)
(* times incremented, the n-th result of session s, or a block of bytes.    *)
Term == [t : {"none", "iv", "out", "data"}, s : Nat, n : Nat, d : AesData]

NoData     == [j \in 0 .. AesBlock - 1 |-> Zero]
NoTerm     == [t |-> "none", s |-> 0, n |-> 0, d |-> NoData]
Iv(s)      == [t |-> "iv",   s |-> s, n |-> 0, d |-> NoData]
Out(s, i)  == [t |-> "out",  s |-> s, n |-> i, d |-> NoData]
DataOf(b)  == [t |-> "data", s |-> 0, n |-> 0, d |-> b]

(* What one use of the AES unit returns: x through the cipher, pre added    *)
(* before it and post after it.                                             *)
Result == [x : Term, pre : Term, post : Term]

ShaBlockAt(a) == [j \in 0 .. ShaBlock - 1 |-> ram[cur][a + j]]
AesBlockAt(a) == [j \in 0 .. AesBlock - 1 |-> ram[cur][a + j]]
JunkBlock     == [j \in 0 .. ShaBlock - 1 |-> Junk]
-----------------------------------------------------------------------------
(* The state InitVersat leaves: everything zero, both buffers allocated.    *)
FreshBuffer == [mem |-> 0, size |-> 0, maxSize |-> MaxBlock]

Init ==
  /\ bufferState = [i \in Index |-> "FREE"]
  /\ interface = [i \in Index |-> FreshBuffer]
  /\ ram = [i \in Index |-> [a \in Addr |-> Junk]]
  /\ lastType = "NONE"
  /\ inside = FALSE
  /\ union0 = 0
  /\ counter = NoTerm
  /\ lastByte = 0
  /\ bytesProcessed = 0
  /\ stage = JunkBlock /\ known = FALSE /\ absorbed = <<>>
  /\ lastResult = NoTerm
  /\ lastValToAdd = NoTerm
  /\ pc = "client"
  /\ call = "process"
  /\ off = 0 /\ end = 0
  /\ cur = -1
  /\ corrupt = FALSE
  /\ session = 0 /\ fed = 0 /\ mode = "ECB" /\ modes = {} /\ disturbed = FALSE
  /\ leaked = 0 /\ digest = <<>> /\ results = <<>>
  /\ written = 0 /\ length = 0 /\ endBlocks = 0
-----------------------------------------------------------------------------
(* Buffers.                                                                 *)

FreeBuffersIgnored == Index
FreeBuffers == {i \in Index : bufferState[i] = "FREE"}

(* GetVersatValidBuffer finds the first free buffer.  With none left it     *)
(* returns -1, and bufferState[-1] and interface[-1] are written: what the  *)
(* program does from there on is not modelled.                              *)
IsFirstFree(i) == i \in FreeBuffers /\ \A j \in FreeBuffers : i <= j

ReserveVersatBuffer ==
  \/ \E i \in Index :
       /\ IsFirstFree(i)
       /\ cur' = i
       /\ bufferState' = [bufferState EXCEPT ![i] = "RESERVED"]
       /\ interface' = [interface EXCEPT ![i] = FreshBuffer]
       /\ UNCHANGED corrupt
  \/ /\ FreeBuffers = {}
     /\ cur' = -1
     /\ corrupt' = TRUE
     /\ UNCHANGED <<bufferState, interface>>

FreeVersatBuffer == bufferState' = [bufferState EXCEPT ![cur] = "FREE"]

HideDataKeepsRoom(b) == [mem |-> b.mem + b.size, size |-> 0, maxSize |-> b.maxSize]
HideData(b) == [mem |-> b.mem + b.size, size |-> 0, maxSize |-> b.maxSize - b.size]

NormalizeBackwards(b) == [mem |-> 0, size |-> b.size - b.mem, maxSize |-> MaxBlock]
Normalize(b) == [mem |-> 0, size |-> b.size + b.mem, maxSize |-> MaxBlock]

(* An int wraps at 2^31.                                                    *)
AsInt(n) == ((n + IntLimit) % (2 * IntLimit)) - IntLimit
-----------------------------------------------------------------------------
(* Begin.                                                                   *)

AtClient == pc = "client" /\ ~corrupt

NewSession(m, ms) ==
  /\ session' = session + 1 /\ fed' = 0 /\ mode' = m /\ modes' = ms
  /\ disturbed' = FALSE
  /\ digest' = <<>> /\ results' = <<>>
  /\ written' = 0 /\ length' = 0 /\ endBlocks' = 0
  /\ UNCHANGED leaked

(* What Begin stores in bytesProcessed, and BeginSHA in                      *)
(* initialStateValuesLoaded.                                                *)
NoBytesForgotten == bytesProcessed
NoBytes == 0
NotLoaded == 0

(* A Begin is let through outside a session only.                           *)
CheckBegin == ~inside /\ inside' = TRUE

(* Sets up constants and the reading unit: nothing that a property          *)
(* distinguishes, besides the type.                                         *)
InitVersatSHA == lastType' = "SHA"

BeginSHA ==
  /\ AtClient
  /\ session < MaxSessions
  /\ CheckBegin
  /\ InitVersatSHA
  /\ union0' = NotLoaded
  /\ bytesProcessed' = NoBytes
  /\ ReserveVersatBuffer
  /\ NewSession(mode, modes)
  /\ UNCHANGED <<ram, counter, lastByte, accvars, pc, call, off, end>>

(* Runs the accelerator once per round key, and with it every unit it has:  *)
(* what the SHA unit held is gone.                                          *)
ExpandKey == stage' = JunkBlock /\ known' = FALSE /\ absorbed' = <<>>

(* InitVersatAES and InitVersatInvAES return early when the accelerator was *)
(* last used for the same direction; otherwise InitVersatAESCommon clears   *)
(* the two registers.                                                       *)
BeginAES(m, isDecryption) ==
  LET type   == IF isDecryption THEN "InvAES" ELSE "AES"
      reset  == lastType # type
      s      == session + 1
  IN
  /\ AtClient
  /\ session < MaxSessions
  /\ ~(m = "CTR" /\ isDecryption)
  /\ CheckBegin
  /\ union0' = TypeOf[m]
  /\ bytesProcessed' = NoBytes
  /\ lastType' = type
  /\ lastValToAdd' = IF reset THEN NoTerm ELSE lastValToAdd
  /\ lastResult' = IF m = "CBC" /\ ~isDecryption THEN Iv(s)
                   ELSE IF reset THEN NoTerm ELSE lastResult
  /\ counter' = IF m = "CTR" \/ (m = "CBC" /\ isDecryption)
                THEN Iv(s) ELSE counter
  /\ ExpandKey
  /\ ReserveVersatBuffer
  /\ NewSession(m, IF reset THEN {m} ELSE modes \cup {m})
  /\ UNCHANGED <<ram, lastByte, pc, call, off, end>>

(* A Begin inside a session is refused by CheckBegin.  BeginSHA changes     *)
(* nothing then; BeginAES_ECB, _CBC and _CTR have already set AES.type.     *)
RefusedBegin(m) ==
  /\ AtClient /\ inside
  /\ union0' = TypeOf[m]
  /\ disturbed' = (disturbed \/ union0 # TypeOf[m])
  /\ modes' = modes \cup {m}
  /\ UNCHANGED <<bufferState, interface, ram, lastType, inside, counter,
                 lastByte, bytesProcessed, accvars, pc, call, off, end, cur,
                 corrupt, session, fed, mode, outputs>>

(* The client may load n bytes as far as maxSize tells it.                  *)
MayLoad(n) ==
  /\ AtClient /\ inside
  /\ n <= interface[cur].maxSize - interface[cur].size
  /\ fed + n <= MaxBytes[session]

(* The client loads n bytes behind those it loaded since the last call.     *)
Fill(n) ==
  LET b  == interface[cur]
      lo == b.mem + b.size
  IN
  /\ MayLoad(n)
  /\ lo + n <= PageSize
  /\ ram' = [ram EXCEPT ![cur] =
               [a \in Addr |-> IF a \in lo .. lo + n - 1
                               THEN Msg(session, fed + (a - lo) + 1)
                               ELSE @[a]]]
  /\ interface' = [interface EXCEPT ![cur] =
                     [mem |-> b.mem, size |-> b.size + n, maxSize |-> b.maxSize]]
  /\ fed' = fed + n
  /\ UNCHANGED <<bufferState, lastType, inside, union0, counter, lastByte,
                 bytesProcessed, accvars, pc, call, off, end, cur, corrupt,
                 session, mode, modes, disturbed, outputs>>

(* AllocateBuffer declares MaxBlock bytes even when it got fewer.  A client *)
(* that trusts maxSize then writes behind the mapping: what the program     *)
(* does from there on is not modelled.                                      *)
Overrun(n) ==
  /\ MayLoad(n)
  /\ interface[cur].mem + interface[cur].size + n > PageSize
  /\ pc' = "lost"
  /\ UNCHANGED <<libvars, accvars, call, off, end, cur, corrupt, inputs, outputs>>
-----------------------------------------------------------------------------
(* ProcessSHA and EndSHA.                                                   *)

(* ProcessSHA, and EndSHA which calls it first.                             *)
EnterSHA(c) ==
  /\ AtClient /\ inside /\ lastType = "SHA"
  /\ interface' = [interface EXCEPT ![cur] = Normalize(@)]
  /\ off' = 0
  /\ end' = interface'[cur].size
  /\ pc' = "hash"
  /\ call' = c
  /\ UNCHANGED <<bufferState, ram, lastType, inside, union0, counter, lastByte,
                 bytesProcessed, accvars, cur, corrupt, inputs, outputs>>

(* The loops over blocks of n bytes: while (inlen >= n).                    *)
LoopDoneOnlyAtEnd(n) == off = end
LoopDone(n) == end < off + n

(* RunAccelerator(1): the unit loads the block at ext_addr and meanwhile    *)
(* absorbs the block it loaded in the run before.                           *)
RunSHA(block) ==
  /\ stage' = block
  /\ absorbed' = IF known THEN Append(absorbed, stage) ELSE absorbed
  /\ UNCHANGED known

(* The first run of a session absorbed a block of an earlier one: the state *)
(* is then overwritten with the initial values.  initialStateValuesLoaded   *)
(* is a bool; over the 2 of AESType_CTR either branch may be taken.         *)
InitialValuesMissing ==
  CASE union0 = 0 -> {TRUE}
    [] union0 = 1 -> {FALSE}
    [] OTHER      -> BOOLEAN

HashBlock ==
  /\ pc \in {"hash", "hashpad"}
  /\ off + ShaBlock <= end
  /\ \/ /\ TRUE \in InitialValuesMissing
        /\ stage' = ShaBlockAt(off)
        /\ known' = TRUE /\ absorbed' = <<>>
        /\ union0' = 1
     \/ /\ FALSE \in InitialValuesMissing
        /\ RunSHA(ShaBlockAt(off))
        /\ UNCHANGED union0
  /\ off' = off + ShaBlock
  /\ UNCHANGED <<bufferState, interface, ram, lastType, inside, counter,
                 lastByte, bytesProcessed, aesvars, pc, call, end, cur, corrupt,
                 inputs, outputs>>

(* What is left after the whole blocks moves to the front of the buffer and *)
(* is hidden from the client.                                               *)
KeepRest(left) ==
  /\ ram' = [ram EXCEPT ![cur] =
               [a \in Addr |-> IF a < left THEN @[off + a] ELSE @[a]]]
  /\ interface' = [interface EXCEPT ![cur] =
               HideData([mem |-> 0, size |-> left, maxSize |-> MaxBlock])]

FinishProcessSHA ==
  /\ pc = "hash"
  /\ LoopDone(ShaBlock)
  /\ KeepRest(end - off)
  /\ bytesProcessed' = AsInt(bytesProcessed + off)
  /\ pc' = IF call = "end" THEN "pad" ELSE "client"
  /\ UNCHANGED <<bufferState, lastType, inside, union0, counter, lastByte,
                 accvars, call, off, end, cur, corrupt, inputs, outputs>>

PaddedSizeOffByOne(inlen) ==
  IF inlen <= ShaBlock - LenField THEN ShaBlock ELSE 2 * ShaBlock
PaddedSize(inlen) ==
  IF inlen < ShaBlock - LenField THEN ShaBlock ELSE 2 * ShaBlock

(* The rest of EndSHA: padding behind the bytes that are left, one block if *)
(* the length still fits behind them and two if not.                        *)
PadSHA ==
  LET b     == Normalize(interface[cur])
      inlen == b.size
      size  == PaddedSize(inlen)
      bytes == bytesProcessed + inlen
  IN
  /\ pc = "pad"
  /\ interface' = [interface EXCEPT ![cur] = b]
  /\ ram' = [ram EXCEPT ![cur] =
               [a \in Addr |-> IF a < inlen \/ a >= size THEN @[a]
                               ELSE IF a = inlen THEN X80
                               ELSE IF a < size - LenField THEN Zero
                               ELSE LenOf(bytes)]]
  /\ off' = 0
  /\ end' = size
  /\ pc' = "hashpad"
  /\ UNCHANGED <<bufferState, lastType, inside, union0, counter, lastByte,
                 bytesProcessed, accvars, call, cur, corrupt, inputs, outputs>>

(* One more run absorbs the last block, then the digest is read.  The       *)
(* buffer is not freed.                                                     *)
FlushSHA ==
  /\ pc = "hashpad"
  /\ LoopDone(ShaBlock)
  /\ RunSHA(stage)
  /\ inside' = FALSE
  /\ pc' = "client"
  /\ cur' = -1
  /\ digest' = absorbed'
  /\ leaked' = leaked + 1
  /\ UNCHANGED <<bufferState, interface, ram, lastType, union0, counter,
                 lastByte, bytesProcessed, aesvars, call, off, end, corrupt,
                 inputs, results, written, length, endBlocks>>
-----------------------------------------------------------------------------
(* ProcessAES and EndAES.                                                   *)

Type == ModeOf[union0]

(* What Encrypt adds after the last round, and what it returns.  A          *)
(* lastAddition is given in CTR mode only.  The register it is written to   *)
(* has no input: the last run, like every run, leaves it cleared.           *)
Addition(data)  == IF Type = "CTR" THEN DataOf(data) ELSE lastValToAdd
Encrypted(data) == [x    |-> IF Type = "CTR" THEN counter ELSE DataOf(data),
                    pre  |-> lastResult,
                    post |-> Addition(data)]

EncryptKeepsResult(data) ==
  /\ lastValToAdd' = NoTerm
  /\ lastResult' = Out(session, Len(results) + 1)

(* Encrypt: in CBC mode the last run also stores the result in lastResult.  *)
Encrypt(data) ==
  /\ lastValToAdd' = NoTerm
  /\ lastResult' = IF Type = "CBC" THEN Out(session, Len(results) + 1)
                   ELSE lastResult

(* Decrypt, and the caller's copy of the block as the next value to add.    *)
Decrypt(data) ==
  LET add == IF Type = "CBC" THEN counter ELSE lastValToAdd IN
  /\ lastValToAdd' = NoTerm
  /\ counter' = IF Type = "CBC" THEN DataOf(data) ELSE counter
  /\ results' = Append(results,
                       [x |-> DataOf(data), pre |-> lastResult, post |-> add])
  /\ UNCHANGED lastResult

EnterAES(c) ==
  /\ AtClient /\ inside /\ lastType \in {"AES", "InvAES"}
  /\ interface' = [interface EXCEPT ![cur] = Normalize(@)]
  /\ off' = 0
  /\ end' = interface'[cur].size
  /\ pc' = "aes"
  /\ call' = c
  /\ UNCHANGED <<bufferState, ram, lastType, inside, union0, counter, lastByte,
                 bytesProcessed, accvars, cur, corrupt, inputs, outputs>>

AesStep ==
  LET data == AesBlockAt(off) IN
  /\ pc = "aes"
  /\ off + AesBlock <= end
  /\ \/ /\ Type = "CTR" \/ lastType = "AES"
        /\ Encrypt(data)
        /\ results' = Append(results, Encrypted(data))
        /\ UNCHANGED counter
     \/ /\ Type # "CTR" /\ lastType = "InvAES"
        /\ Decrypt(data)
  /\ off' = off + AesBlock
  /\ UNCHANGED <<bufferState, interface, ram, lastType, inside, union0,
                 lastByte, bytesProcessed, shavars, pc, call, end, cur, corrupt,
                 inputs, leaked, digest, written, length, endBlocks>>

(* ProcessAES returns, and the client writes outputOffset bytes.  The last  *)
(* byte of the output is any byte, valid padding or not.                    *)
FinishProcessAES(byte) ==
  /\ pc = "aes"
  /\ LoopDone(AesBlock)
  /\ KeepRest(end - off)
  /\ bytesProcessed' = AsInt(bytesProcessed + off)
  /\ lastByte' = IF off > 0 THEN byte ELSE lastByte
  /\ IF call = "end"
     THEN /\ pc' = "endaes"
          /\ endBlocks' = off \div AesBlock
          /\ UNCHANGED written
     ELSE /\ pc' = "client"
          /\ written' = Len(results)
          /\ UNCHANGED endBlocks
  /\ UNCHANGED <<bufferState, lastType, inside, union0, counter, accvars, call,
                 off, end, cur, corrupt, inputs, leaked, digest, results, length>>

(* totalPaddingSize, for a rest of left bytes.  processTwoBlocks is never   *)
(* true: ProcessAES leaves less than a block.                               *)
TotalPaddingOnlyAdded(left) == AesBlock - left
TotalPadding(left) == AesBlock

(* The rest of EndAES when encrypting: what is left is padded to one block, *)
(* the block is encrypted and the buffer freed.                             *)
EndEncrypt ==
  LET b    == Normalize(interface[cur])
      pad  == AesBlock - b.size
      last == [j \in 0 .. AesBlock - 1 |->
                 IF j < b.size THEN ram[cur][j] ELSE Pkcs(pad)]
  IN
  /\ pc = "endaes" /\ lastType = "AES"
  /\ ram' = [ram EXCEPT ![cur] =
               [a \in Addr |-> IF a < AesBlock THEN last[a] ELSE @[a]]]
  /\ interface' = [interface EXCEPT ![cur] =
                     [mem |-> b.mem, size |-> AesBlock, maxSize |-> b.maxSize]]
  /\ bytesProcessed' = AsInt(bytesProcessed + TotalPadding(b.size))
  /\ Encrypt(last)
  /\ results' = Append(results, Encrypted(last))
  /\ written' = Len(results) + 1
  /\ length' = bytesProcessed'
  /\ FreeVersatBuffer
  /\ inside' = FALSE
  /\ pc' = "client"
  /\ cur' = -1
  /\ UNCHANGED <<lastType, union0, counter, lastByte, shavars, call, off, end,
                 corrupt, inputs, leaked, digest, endBlocks>>

(* The rest of EndAES when decrypting: bytesProcessed drops the padding;    *)
(* outputOffset keeps the client's 0 and the buffer is not freed.           *)
EndDecrypt ==
  /\ pc = "endaes" /\ lastType = "InvAES"
  /\ interface' = [interface EXCEPT ![cur] = Normalize(@)]
  /\ bytesProcessed' = AsInt(bytesProcessed - lastByte)
  /\ length' = bytesProcessed'
  /\ leaked' = leaked + 1
  /\ inside' = FALSE
  /\ pc' = "client"
  /\ cur' = -1
  /\ UNCHANGED <<bufferState, ram, lastType, union0, counter, lastByte, accvars,
                 call, off, end, corrupt, inputs, digest, results, written,
                 endBlocks>>
-----------------------------------------------------------------------------
Client ==
  \/ BeginSHA
  \/ \E m \in Modes, isDecryption \in BOOLEAN : BeginAES(m, isDecryption)
  \/ \E m \in Modes : RefusedBegin(m)
  \/ \E n \in 1 .. MaxBlock : Fill(n) \/ Overrun(n)
  \/ \E c \in {"process", "end"} : EnterSHA(c) \/ EnterAES(c)

Library ==
  \/ HashBlock \/ FinishProcessSHA \/ PadSHA \/ FlushSHA
  \/ AesStep
  \/ \E byte \in 0 .. MaxByte : FinishProcessAES(byte)
  \/ EndEncrypt \/ EndDecrypt

Next == Client \/ Library

(* The library runs to the end of a call; the client may stop at any time.  *)
Fairness == WF_vars(Library)

Spec == Init /\ [][Next]_vars /\ Fairness
-----------------------------------------------------------------------------
Buffer == [mem : Nat, size : Nat, maxSize : Nat]
LibraryTypes ==
  /\ bufferState \in [Index -> {"FREE", "RESERVED"}]
  /\ interface \in [Index -> Buffer]
  /\ ram \in [Index -> [Addr -> Byte]]
  /\ lastType \in {"NONE", "SHA", "AES", "InvAES"}
  /\ inside \in BOOLEAN
  /\ union0 \in 0 .. 2
  /\ counter \in Term
  /\ lastByte \in 0 .. MaxByte
  /\ bytesProcessed \in Int

AcceleratorTypes ==
  /\ stage \in ShaData /\ known \in BOOLEAN /\ absorbed \in Seq(ShaData)
  /\ lastResult \in Term /\ lastValToAdd \in Term

CallTypes ==
  /\ pc \in {"client", "lost", "hash", "pad", "hashpad", "aes", "endaes"}
  /\ call \in {"process", "end"}
  /\ off \in Nat /\ end \in 0 .. PageSize
  /\ cur \in Index \cup {-1}
  /\ corrupt \in BOOLEAN

InputTypes ==
  /\ session \in Nat /\ fed \in Nat /\ disturbed \in BOOLEAN
  /\ mode \in Modes /\ modes \in SUBSET Modes

OutputTypes ==
  /\ leaked \in Nat /\ digest \in Seq(ShaData) /\ results \in Seq(Result)
  /\ written \in Nat /\ length \in Int /\ endBlocks \in Nat

(* Every variable has its type: no access of a block leaves what is mapped  *)
(* behind a buffer, and no size or offset goes below zero.                  *)
TypeOK ==
  LibraryTypes /\ AcceleratorTypes /\ CallTypes /\ InputTypes /\ OutputTypes

(* While the client holds a buffer (versatCrypto.c:336-368), the part it    *)
(* sees is exactly what the hidden bytes leave of the declared size, the    *)
(* hidden bytes are fewer than a block, what it loaded is mapped, and there *)
(* is room for at least one byte: with none, FillBufferFromFile would read  *)
(* 0 bytes and take it for the end of the file.  It is led out of the       *)
(* mapping only when AllocateBuffer got less than it declares (174-184).    *)
BufferRoom ==
  /\ (AtClient /\ inside) =>
       LET b == interface[cur] IN
       /\ cur \in Index /\ bufferState[cur] = "RESERVED"
       /\ b.mem + b.maxSize = MaxBlock
       /\ b.mem < ShaBlock
       /\ 0 < b.maxSize
       /\ b.size <= b.maxSize /\ b.mem + b.size <= PageSize
  /\ pc = "lost" => PageSize < MaxBlock

Reserved == {i \in Index : bufferState[i] = "RESERVED"}

(* Every buffer that is not free is held by the session in progress or was  *)
(* kept by a session that ended: EndSHA and the decrypting EndAES never     *)
(* call FreeVersatBuffer (versatCrypto.c:482-546, 1061-1069).  So the       *)
(* library runs out of buffers only after that many such sessions.          *)
BufferAccounting ==
  /\ Cardinality(Reserved) = leaked + (IF inside /\ ~corrupt THEN 1 ELSE 0)
  /\ corrupt => leaked = NBuffers

(* FIPS 180-4 padding of a message of the n bytes session s loaded.         *)
PaddedBlocks(n) == (n + LenField) \div ShaBlock + 1
PaddedByte(s, n, p) ==
  IF p <= n THEN Msg(s, p)
  ELSE IF p = n + 1 THEN X80
  ELSE IF p <= PaddedBlocks(n) * ShaBlock - LenField THEN Zero
  ELSE LenOf(n)
Padded(s, n) ==
  [k \in 1 .. PaddedBlocks(n) |->
     [j \in 0 .. ShaBlock - 1 |-> PaddedByte(s, n, (k - 1) * ShaBlock + j + 1)]]

ShaDone == ~inside /\ lastType = "SHA"
AesDone == ~inside /\ lastType = "AES"
InvDone == ~inside /\ lastType = "InvAES"

(* However the client cut its message into calls, and whatever earlier      *)
(* sessions left in the buffers, in the union and in the accelerator, the   *)
(* digest of EndSHA is that of the padded message, if no refused Begin      *)
(* changed the union in between and the message is shorter than 2^31 bytes. *)
DigestCorrect ==
  (ShaDone /\ ~disturbed /\ fed < IntLimit)
     => digest = Padded(session, fed)

(* Block i of the message, PKCS#7 padding included.                         *)
DataBlock(i) ==
  [j \in 0 .. AesBlock - 1 |->
     LET p == (i - 1) * AesBlock + j + 1 IN
     IF p <= fed THEN Msg(session, p)
     ELSE Pkcs(AesBlock - (fed % AesBlock))]

(* The counter of session s for block i: one more for every block.          *)
Ctr(s, i) == [t |-> "iv", s |-> s, n |-> i - 1, d |-> NoData]

(* What the mode adds around the cipher for block i: see NIST SP 800-38A,   *)
(* and the CBC and CTR functions of software/src/versat_crypto.c (471-548). *)
Expected(i) ==
  LET s        == session
      previous == IF i = 1 THEN Iv(s) ELSE DataOf(DataBlock(i - 1))
  IN
  CASE mode = "ECB" ->
         [x |-> DataOf(DataBlock(i)), pre |-> NoTerm, post |-> NoTerm]
    [] mode = "CBC" /\ lastType = "AES" ->
         [x |-> DataOf(DataBlock(i)),
          pre |-> IF i = 1 THEN Iv(s) ELSE Out(s, i - 1), post |-> NoTerm]
    [] mode = "CBC" /\ lastType = "InvAES" ->
         [x |-> DataOf(DataBlock(i)), pre |-> NoTerm, post |-> previous]
    [] mode = "CTR" ->
         [x |-> Ctr(s, i), pre |-> NoTerm, post |-> DataOf(DataBlock(i))]

(* Block i went through the cipher as its mode says - but for the counter   *)
(* of a later CTR block, which the code forgets to increment (1018, 1084:   *)
(* "TODO: Increment counter"): that is CounterIncremented's, below.         *)
ResultExpected(i) ==
  /\ results[i].pre = Expected(i).pre /\ results[i].post = Expected(i).post
  /\ (mode = "CTR" => i = 1) => results[i].x = Expected(i).x

ResultsExpected ==
  (lastType \in {"AES", "InvAES"} /\ ~disturbed) =>
    \A i \in 1 .. Len(results) : ResultExpected(i)

(* Earlier sessions leave nothing that the mode of this one does not        *)
(* overwrite: they were ECB, or of the same mode, or this one decrypts CBC, *)
(* since the registers were last cleared.                                   *)
NothingInherited ==
  \/ modes \subseteq {mode, "ECB"}
  \/ mode = "CBC" /\ lastType = "InvAES"

(* Every block of an AES session goes through the cipher with exactly what  *)
(* its mode adds before and after it, in the order of the message, however  *)
(* the client cut the message, if the session inherits nothing.  Of the     *)
(* counters of CTR it claims the first one only.                            *)
BlocksFollowMode == NothingInherited => ResultsExpected

(* EndAES when encrypting: the client has been given every block, one more  *)
(* than the message fills, and the returned length says so.                 *)
EncryptionComplete ==
  (AesDone /\ fed + AesBlock < IntLimit) =>
    /\ Len(results) = fed \div AesBlock + 1
    /\ written = Len(results)
    /\ length = written * AesBlock

(* EndAES when decrypting a message of at least a block (1051-1069): the    *)
(* client has been given every block but those that were still in the       *)
(* buffer at End, which outputOffset does not count, whereas the returned   *)
(* length counts all of them, without the padding, which is the last byte   *)
(* that was decrypted.  crypto.c calls End with no whole block left.        *)
DecryptionComplete ==
  (InvDone /\ AesBlock <= fed /\ fed < IntLimit) =>
    /\ written = fed \div AesBlock - endBlocks
    /\ length = (fed \div AesBlock) * AesBlock - lastByte

(* Every call of the library returns to the client.                         *)
CallReturns == (pc \notin {"client", "lost"}) ~> (pc = "client")

-----------------------------------------------------------------------------
(* What the repository says and the code does not do: see the findings.     *)

(* versatCrypto.h:27, "Returns one buffer that can be used to load data".   *)
BeginReturnsBuffer == ~corrupt

(* CTR counts one up for every block, as the bare-metal CTR does, with the  *)
(* test vectors of SP 800-38A (software/src/versat_crypto.c 528-548, 625).  *)
CounterIncremented ==
  (mode = "CTR" /\ lastType = "AES" /\ ~disturbed) =>
    \A i \in 1 .. Len(results) : results[i].x = Expected(i).x
=============================================================================
