---------------------------- MODULE McElieceProofs ----------------------------
(***************************************************************************)
(* Theorems about McEliece's key generation, on the accelerator            *)
(* (VersatMcEliece) and in the KEM (McElieceKem), for every number of rows *)
(* and columns, every matrix and every expansion of a seed.  On the        *)
(* accelerator: types, freedom from races on a row, no stale read by the   *)
(* CPU, and the matrices and the key of the reference elimination.  In the *)
(* KEM: the seed in the secret key gives the key again.  Of both: they     *)
(* make the same key.                                                      *)
(***************************************************************************)
EXTENDS VersatMcEliece, McElieceKem, NaturalsInduction, WellFoundedInduction, TLAPS

USE MatrixAssumption, McElieceAssumption

(* Where the two loops are, at each point of the CPU.                       *)
LoopRange ==
  /\ pc \notin {"begin", "copy", "stopped"} => row < PK_NROWS
  /\ pc = "begin" => tries < MaxTries /\ Idle
  /\ pc = "mask1" => k \in row + 1 .. PK_NROWS
  /\ pc = "loop1" => k \in row + 1 .. PK_NROWS - 1
  /\ pc \in {"mask2", "loop2"} => k \in 0 .. PK_NROWS + 1
  /\ pc = "loop2" => k # row
  /\ pc = "copy" => row = PK_NROWS /\ k \in Rows

(* Which rows the run in progress may still read and write: none is written *)
(* in the first loop, which adds rows below the pivot row; in the second,   *)
(* the row written is two rows or more above the last one the CPU gave.     *)
RunRange ==
  /\ run.write # NoRow => run.write # run.read
  /\ pc \in {"begin", "load", "mask1", "loop1", "check"} => cfg.write = NoRow
  /\ pc \in {"mask1", "loop1", "check"} => run.write = NoRow
  /\ pc \in {"mask1", "loop1"} /\ run.read # NoRow => run.read > row
  /\ pc \in {"mask2", "loop2"} /\ run.write # NoRow => run.write < k - 1

(* Which copies in the CPU's cache are those of the memory.                 *)
Coherent(r) == cache[r] \in {None, mem[r]}

CacheRange ==
  /\ pc = "load" => \A r \in Rows : Coherent(r) /\ (r = run.write => cache[r] = None)
  /\ pc = "copy" =>
       \A r \in Rows : r >= k => Coherent(r) /\ (r = run.write => cache[r] = None)
  /\ pc \in {"mask1", "loop1", "check"} => \A r \in Rows : Coherent(r)
  /\ pc \in {"mask2", "loop2"} => \A r \in Rows : r >= k - 1 => Coherent(r)

IInv == TypeOK /\ LoopRange /\ RunRange /\ CacheRange
-----------------------------------------------------------------------------
(* What the operators on rows and on the cache return.                      *)

LEMMA XorType == \A a, b \in SUBSET Columns : Xor(a, b) \in SUBSET Columns
  BY DEF Xor

LEMMA NoRowOutside == NoRow \notin Rows /\ NoRow \in Int /\ Rows \subseteq Nat
  BY DEF NoRow, Rows

LEMMA ViewType ==
  ASSUME TypeOK, NEW r \in Rows
  PROVE  View(r) \in SUBSET Columns /\ (Coherent(r) => View(r) = mem[r])
<1>1. mem[r] \in SUBSET Columns
  BY DEF TypeOK, Matrices
<1>2. cache[r] \in SUBSET Columns \/ cache[r] = None
  BY DEF TypeOK
<1>3. View(r) = IF cache[r] = None THEN mem[r] ELSE cache[r]
  BY DEF View
<1>4. QED
  BY <1>1, <1>2, <1>3 DEF Coherent

(* Reading rows changes no copy that is there, and makes only right ones.   *)
LEMMA TouchType ==
  ASSUME TypeOK, NEW rows
  PROVE  /\ Touch(rows) \in [Rows -> (SUBSET Columns) \cup {None}]
         /\ \A r \in Rows : Coherent(r) => Touch(rows)[r] \in {None, mem[r]}
<1>1. Touch(rows) = [r \in Rows |-> IF r \in rows THEN View(r) ELSE cache[r]]
  BY DEF Touch
<1>2. \A r \in Rows : View(r) \in SUBSET Columns /\ (Coherent(r) => View(r) = mem[r])
  BY ViewType
<1>3. \A r \in Rows : cache[r] \in (SUBSET Columns) \cup {None}
  BY DEF TypeOK
<1>4. QED
  BY <1>1, <1>2, <1>3 DEF Coherent

LEMMA CpuWritesType ==
  ASSUME TypeOK, NEW r \in Rows, NEW columns \in SUBSET Columns, CpuWrites(r, columns)
  PROVE  /\ mem' \in Matrices
         /\ cache' \in [Rows -> (SUBSET Columns) \cup {None}]
         /\ Coherent(r)'
         /\ \A q \in Rows : Coherent(q) => Coherent(q)'
<1>1. mem \in [Rows -> SUBSET Columns] /\ cache \in [Rows -> (SUBSET Columns) \cup {None}]
  BY DEF TypeOK, Matrices
<1>2. /\ mem' = [mem EXCEPT ![r] = columns]
      /\ cache' = [cache EXCEPT ![r] = IF cache[r] = None THEN None ELSE columns]
  BY DEF CpuWrites
<1>3. mem' \in Matrices /\ cache' \in [Rows -> (SUBSET Columns) \cup {None}]
  BY <1>1, <1>2 DEF Matrices
<1>4. mem'[r] = columns /\ cache'[r] \in {None, columns}
  BY <1>1, <1>2
<1>5. \A q \in Rows \ {r} : mem'[q] = mem[q] /\ cache'[q] = cache[q]
  BY <1>1, <1>2
<1>6. QED
  BY <1>3, <1>4, <1>5 DEF Coherent

LEMMA StartType ==
  ASSUME TypeOK, NEW config \in [read : Rows \cup {NoRow}, write : Rows \cup {NoRow},
                                 in0_wr : BOOLEAN, mask : BOOLEAN],
         StartAccelerator(config)
  PROVE  /\ acc' \in [mat : SUBSET Columns, loaded : SUBSET Columns,
                      computed : SUBSET Columns, writing : SUBSET Columns]
         /\ cfg' = config
         /\ run' = [read |-> config.read, write |-> config.write]
<1>1. /\ acc.mat \in SUBSET Columns /\ acc.loaded \in SUBSET Columns
      /\ acc.computed \in SUBSET Columns
  BY DEF TypeOK
<1>2. Xor(acc.mat, acc.loaded) \in SUBSET Columns /\ Xor(acc.loaded, acc.mat) \in SUBSET Columns
  BY <1>1, XorType
<1>3. QED
  BY <1>1, <1>2 DEF StartAccelerator
-----------------------------------------------------------------------------
LEMMA InitInv == Init => IInv
<1> SUFFICES ASSUME Init PROVE IInv
  OBVIOUS
<1>1. TypeOK
  <2>1. mem \in Matrices /\ copied \in Matrices /\ given \in Matrices
    BY DEF Init, Matrices, NoKey
  <2>2. cache \in [Rows -> (SUBSET Columns) \cup {None}]
    BY DEF Init
  <2>3. acc \in [mat : SUBSET Columns, loaded : SUBSET Columns,
                 computed : SUBSET Columns, writing : SUBSET Columns]
    BY DEF Init
  <2>4. /\ run \in [read : Rows \cup {NoRow}, write : Rows \cup {NoRow}]
        /\ cfg \in [read : Rows \cup {NoRow}, write : Rows \cup {NoRow},
                    in0_wr : BOOLEAN, mask : BOOLEAN]
    BY DEF Init
  <2>5. row \in 0 .. PK_NROWS /\ k \in 0 .. PK_NROWS + 2 /\ tries \in 0 .. MaxTries
    BY DEF Init
  <2>6. QED
    BY <2>1, <2>2, <2>3, <2>4, <2>5 DEF Init, TypeOK
<1>2. LoopRange /\ RunRange /\ CacheRange
  BY DEF Init, LoopRange, RunRange, CacheRange, Idle, NoRow
<1>3. QED
  BY <1>1, <1>2 DEF IInv

LEMMA RunReadsInv == IInv /\ RunReads => IInv'
<1> SUFFICES ASSUME IInv, RunReads PROVE IInv'
  OBVIOUS
<1> USE NoRowOutside DEF IInv
<1>1. TypeOK'
  BY DEF TypeOK, RunReads, cpu, Matrices
<1>2. LoopRange' /\ RunRange'
  BY DEF TypeOK, LoopRange, RunRange, RunReads, cpu, Idle
<1>3. CacheRange'
  BY DEF TypeOK, CacheRange, Coherent, RunReads, cpu
<1>4. QED
  BY <1>1, <1>2, <1>3

LEMMA RunWritesInv == IInv /\ RunWrites => IInv'
<1> SUFFICES ASSUME IInv, RunWrites PROVE IInv'
  OBVIOUS
<1> USE NoRowOutside DEF IInv
<1>1. TypeOK'
  BY DEF TypeOK, RunWrites, cpu, Matrices
<1>2. LoopRange' /\ RunRange'
  <2>1. run' = [run EXCEPT !.write = NoRow] /\ run.write # NoRow /\ UNCHANGED <<cpu, cfg>>
    BY DEF RunWrites
  <2>2. run'.write = NoRow /\ run'.read = run.read
    BY <2>1 DEF TypeOK
  <2>3. pc # "begin"
    BY <2>1 DEF LoopRange, Idle
  <2>4. UNCHANGED <<pc, row, k, tries, cfg>>
    BY <2>1 DEF cpu
  <2>5. LoopRange'
    BY <2>3, <2>4 DEF LoopRange
  <2>6. RunRange'
    BY <2>2, <2>4 DEF RunRange
  <2>7. QED
    BY <2>5, <2>6
<1>3. CacheRange'
  <2>1. run.write \in Rows /\ \A r \in Rows \ {run.write} : mem'[r] = mem[r]
    BY DEF TypeOK, Matrices, RunWrites
  <2>2. pc \notin {"mask1", "loop1", "check"}
    BY DEF RunRange, RunWrites
  <2>3. QED
    BY <2>1, <2>2 DEF TypeOK, CacheRange, Coherent, RunRange, RunWrites, cpu
<1>4. QED
  BY <1>1, <1>2, <1>3

LEMMA GenerateInv == IInv /\ Generate => IInv'
<1> SUFFICES ASSUME IInv, Generate PROVE IInv'
  OBVIOUS
<1> USE NoRowOutside DEF IInv
<1>1. PICK m \in Matrices :
        /\ given' = m /\ mem' = m
        /\ cache' = [r \in Rows |-> IF cache[r] = None THEN None ELSE m[r]]
        /\ cfg' = [cfg EXCEPT !.read = NoRow]
        /\ row' = 0 /\ pc' = "load" /\ tries' = tries + 1
        /\ UNCHANGED <<k, timesCalled, mask, saved1, saved2, acc, run, copied, early>>
  BY DEF Generate, Begin
<1>2. TypeOK'
  BY <1>1 DEF TypeOK, Matrices, LoopRange, Generate
<1>3. LoopRange'
  BY <1>1 DEF LoopRange
<1>4. cfg'.write = cfg.write
  BY <1>1 DEF TypeOK
<1>5. RunRange'
  BY <1>1, <1>4 DEF RunRange, Generate
<1>6. CacheRange'
  BY <1>1 DEF TypeOK, CacheRange, Coherent, LoopRange, Generate, Idle
<1>7. QED
  BY <1>2, <1>3, <1>5, <1>6

LEMMA LoadRowInv == IInv /\ LoadRow => IInv'
<1> SUFFICES ASSUME IInv, LoadRow PROVE IInv'
  OBVIOUS
<1> USE NoRowOutside DEF IInv
<1>1. pc = "load" /\ run = [read |-> NoRow, write |-> NoRow] /\ row \in Rows
  BY DEF LoadRow, MayLoad, Idle, LoopRange, TypeOK, Rows
<1>2. View(row) \in SUBSET Columns
  BY <1>1, ViewType
<1>3. TypeOK'
  <2>1. acc' \in [mat : SUBSET Columns, loaded : SUBSET Columns,
                  computed : SUBSET Columns, writing : SUBSET Columns]
    BY <1>2 DEF LoadRow, TypeOK
  <2>2. cache' \in [Rows -> (SUBSET Columns) \cup {None}]
    BY TouchType DEF LoadRow
  <2>3. k' \in 0 .. PK_NROWS + 2
    BY <1>1 DEF LoadRow, Rows
  <2>4. QED
    BY <2>1, <2>2, <2>3 DEF LoadRow, TypeOK
<1>4. LoopRange'
  BY <1>1 DEF LoadRow, LoopRange, TypeOK, Rows
<1>5. RunRange'
  BY <1>1 DEF LoadRow, RunRange
<1>6. CacheRange'
  BY <1>1, TouchType DEF LoadRow, CacheRange, Coherent
<1>7. QED
  BY <1>3, <1>4, <1>5, <1>6

LEMMA Mask1Inv == IInv /\ Mask1 => IInv'
<1> SUFFICES ASSUME IInv, Mask1 PROVE IInv'
  OBVIOUS
<1> USE NoRowOutside DEF IInv
<1>1. TypeOK'
  <2>1. cache' \in [Rows -> (SUBSET Columns) \cup {None}]
    BY TouchType DEF Mask1
  <2>2. QED
    BY <2>1 DEF Mask1, TypeOK
<1>2. LoopRange' /\ RunRange'
  BY DEF Mask1, LoopRange, RunRange, TypeOK
<1>3. CacheRange'
  BY TouchType DEF Mask1, CacheRange, Coherent
<1>4. QED
  BY <1>1, <1>2, <1>3

(* A call of Loop1 reads row r and writes none.                             *)
LEMMA Loop1Type ==
  ASSUME IInv, pc \in {"mask1", "loop1"}, NEW r \in Rows, NEW first \in BOOLEAN,
         NEW next \in BOOLEAN, Loop1(r, first, next)
  PROVE  /\ acc' \in [mat : SUBSET Columns, loaded : SUBSET Columns,
                      computed : SUBSET Columns, writing : SUBSET Columns]
         /\ cfg' \in [read : Rows \cup {NoRow}, write : Rows \cup {NoRow},
                      in0_wr : BOOLEAN, mask : BOOLEAN]
         /\ cfg'.write = NoRow
         /\ run' = [read |-> r, write |-> NoRow]
         /\ saved1' \in BOOLEAN
<1> DEFINE config == [cfg EXCEPT !.read = r, !.in0_wr = ~first,
                                 !.mask = IF first THEN @ ELSE saved1]
<1>1. cfg \in [read : Rows \cup {NoRow}, write : Rows \cup {NoRow},
               in0_wr : BOOLEAN, mask : BOOLEAN] /\ saved1 \in BOOLEAN
  BY DEF IInv, TypeOK
<1>2. config \in [read : Rows \cup {NoRow}, write : Rows \cup {NoRow},
                  in0_wr : BOOLEAN, mask : BOOLEAN]
  BY <1>1
<1>3. config.write = NoRow /\ config.read = r
  BY <1>1 DEF IInv, RunRange
<1>4. StartAccelerator(config) /\ saved1' = next
  BY DEF Loop1
<1> HIDE DEF config
<1>5. /\ acc' \in [mat : SUBSET Columns, loaded : SUBSET Columns,
                   computed : SUBSET Columns, writing : SUBSET Columns]
      /\ cfg' = config
      /\ run' = [read |-> config.read, write |-> config.write]
  BY <1>2, <1>4, StartType DEF IInv
<1>6. QED
  BY <1>2, <1>3, <1>4, <1>5

LEMMA AddRowInv == IInv /\ AddRow => IInv'
<1> SUFFICES ASSUME IInv, AddRow PROVE IInv'
  OBVIOUS
<1> USE NoRowOutside DEF IInv
<1>1. pc = "loop1" /\ row \in Rows /\ k \in Rows /\ k > row
  BY DEF AddRow, LoopRange, TypeOK, Rows
<1>2. /\ acc' \in [mat : SUBSET Columns, loaded : SUBSET Columns,
                   computed : SUBSET Columns, writing : SUBSET Columns]
      /\ cfg' \in [read : Rows \cup {NoRow}, write : Rows \cup {NoRow},
                   in0_wr : BOOLEAN, mask : BOOLEAN]
      /\ cfg'.write = NoRow
      /\ run' = [read |-> k, write |-> NoRow]
      /\ saved1' \in BOOLEAN
  <2> DEFINE first == k = row + 1
  <2>1. first \in BOOLEAN
    OBVIOUS
  <2>2. Loop1(k, first, mask)
    BY DEF AddRow
  <2>3. mask \in BOOLEAN
    BY DEF TypeOK
  <2> HIDE DEF first, IInv
  <2>4. QED
    BY <1>1, <2>1, <2>2, <2>3, Loop1Type
<1> DEFINE columns == IF mask THEN Xor(View(row), Byte(View(k))) ELSE View(row)
<1>3. columns \in SUBSET Columns
  <2>1. View(row) \in SUBSET Columns /\ View(k) \in SUBSET Columns
    BY <1>1, ViewType
  <2>2. Byte(View(k)) \in SUBSET Columns
    BY <2>1 DEF Byte
  <2>3. QED
    BY <2>1, <2>2, XorType
<1>4. CpuWrites(row, columns)
  BY DEF AddRow
<1>5. /\ mem' \in Matrices
      /\ cache' \in [Rows -> (SUBSET Columns) \cup {None}]
      /\ \A q \in Rows : Coherent(q) => Coherent(q)'
  BY <1>1, <1>3, <1>4, CpuWritesType
<1>6. TypeOK'
  BY <1>1, <1>2, <1>5 DEF AddRow, TypeOK, Rows
<1>7. LoopRange'
  BY <1>1 DEF AddRow, LoopRange, TypeOK, Rows
<1>8. RunRange'
  BY <1>1, <1>2 DEF AddRow, RunRange
<1>9. CacheRange'
  BY <1>1, <1>5 DEF AddRow, CacheRange
<1>10. QED
  BY <1>6, <1>7, <1>8, <1>9

LEMMA AddLastRowInv == IInv /\ AddLastRow => IInv'
<1> SUFFICES ASSUME IInv, AddLastRow PROVE IInv'
  OBVIOUS
<1> USE NoRowOutside
<1> DEFINE last == PK_NROWS - 1
<1>1. pc = "mask1" /\ last \in Rows /\ Loop1(last, FALSE, FALSE)
  <2>1. last \in Rows
    BY DEF Rows
  <2>2. QED
    BY <2>1 DEF AddLastRow
<1> HIDE DEF last
<1>2. /\ acc' \in [mat : SUBSET Columns, loaded : SUBSET Columns,
                   computed : SUBSET Columns, writing : SUBSET Columns]
      /\ cfg' \in [read : Rows \cup {NoRow}, write : Rows \cup {NoRow},
                   in0_wr : BOOLEAN, mask : BOOLEAN]
      /\ cfg'.write = NoRow
      /\ run' = [read |-> last, write |-> NoRow]
      /\ saved1' \in BOOLEAN
  BY <1>1, Loop1Type
<1> USE DEF IInv
<1>3. TypeOK'
  BY <1>1, <1>2 DEF AddLastRow, TypeOK
<1>4. LoopRange'
  BY <1>1 DEF AddLastRow, LoopRange
<1>5. RunRange'
  BY <1>1, <1>2 DEF AddLastRow, RunRange
<1>6. CacheRange'
  BY <1>1 DEF AddLastRow, CacheRange, Coherent
<1>7. QED
  BY <1>3, <1>4, <1>5, <1>6

LEMMA FailInv == IInv /\ Fail => IInv'
<1> SUFFICES ASSUME IInv, Fail PROVE IInv'
  OBVIOUS
<1> USE NoRowOutside DEF IInv
<1>1. cache' \in [Rows -> (SUBSET Columns) \cup {None}]
  BY TouchType DEF Fail
<1>2. pc = "check" /\ Idle /\ pc' = IF tries < MaxTries THEN "begin" ELSE "stopped"
  BY DEF Fail
<1>3. TypeOK'
  BY <1>1, <1>2 DEF Fail, TypeOK
<1>4. LoopRange'
  BY <1>2 DEF Fail, LoopRange, Idle
<1>5. RunRange'
  BY <1>2 DEF Fail, RunRange
<1>6. CacheRange'
  BY <1>2 DEF CacheRange
<1>7. QED
  BY <1>3, <1>4, <1>5, <1>6

LEMMA ReadRowInv == IInv /\ ReadRow => IInv'
<1> SUFFICES ASSUME IInv, ReadRow PROVE IInv'
  OBVIOUS
<1> USE NoRowOutside DEF IInv
<1>1. pc = "check" /\ row \in Rows /\ Idle
  BY DEF ReadRow, LoopRange, TypeOK, Rows
<1>2. acc.mat \in SUBSET Columns /\ CpuWrites(row, acc.mat)
  BY DEF ReadRow, TypeOK
<1>3. /\ mem' \in Matrices
      /\ cache' \in [Rows -> (SUBSET Columns) \cup {None}]
      /\ \A q \in Rows : Coherent(q) => Coherent(q)'
  BY <1>1, <1>2, CpuWritesType
<1>4. TypeOK'
  BY <1>3 DEF ReadRow, TypeOK
<1>5. LoopRange'
  BY <1>1 DEF ReadRow, LoopRange
<1>6. RunRange'
  BY <1>1 DEF ReadRow, RunRange, Idle
<1>7. CacheRange'
  BY <1>1, <1>3 DEF ReadRow, CacheRange
<1>8. QED
  BY <1>4, <1>5, <1>6, <1>7

LEMMA SkipRowInv == IInv /\ SkipRow => IInv'
<1> SUFFICES ASSUME IInv, SkipRow PROVE IInv'
  OBVIOUS
<1> USE NoRowOutside DEF IInv
<1>1. pc = "mask2" /\ k = row /\ row \in Rows
  BY DEF SkipRow, LoopRange, TypeOK, Rows
<1>2. TypeOK'
  BY <1>1 DEF SkipRow, TypeOK, Rows
<1>3. LoopRange'
  BY <1>1 DEF SkipRow, LoopRange, Rows
<1>4. RunRange'
  <2>1. run.write \in Rows \cup {NoRow}
    BY DEF TypeOK
  <2>2. QED
    BY <1>1, <2>1 DEF SkipRow, RunRange, Rows, NoRow
<1>5. CacheRange'
  BY <1>1 DEF SkipRow, CacheRange, Coherent, Rows
<1>6. QED
  BY <1>2, <1>3, <1>4, <1>5

LEMMA Mask2Inv == IInv /\ Mask2 => IInv'
<1> SUFFICES ASSUME IInv, Mask2 PROVE IInv'
  OBVIOUS
<1> USE NoRowOutside DEF IInv
<1>1. TypeOK'
  <2>1. cache' \in [Rows -> (SUBSET Columns) \cup {None}]
    BY TouchType DEF Mask2
  <2>2. QED
    BY <2>1 DEF Mask2, TypeOK
<1>2. LoopRange' /\ RunRange'
  BY DEF Mask2, LoopRange, RunRange, TypeOK
<1>3. CacheRange'
  BY TouchType DEF Mask2, CacheRange, Coherent
<1>4. QED
  BY <1>1, <1>2, <1>3

(* The row that a call of Loop2 writes: at least two above the one it       *)
(* reads, and not the pivot row.                                            *)
LEMMA WriteBehind ==
  ASSUME k \in Int, row \in Int, k # row
  PROVE  ToWrite \in Int /\ ToWrite <= k - 2 /\ ToWrite # row
  BY DEF ToWrite, ToCompute, Before

LEMMA Loop2Inv == IInv /\ Loop2 => IInv'
<1> SUFFICES ASSUME IInv, Loop2 PROVE IInv'
  OBVIOUS
<1> USE NoRowOutside
<1> DEFINE reads    == k < PK_NROWS
           computes == timesCalled >= 1 /\ ToCompute \in Rows
           writes   == timesCalled >= 2 /\ ToWrite >= 0
           config   == [read   |-> IF reads THEN k ELSE NoRow,
                        in0_wr |-> IF reads THEN FALSE ELSE cfg.in0_wr,
                        mask   |-> IF computes THEN saved2 ELSE cfg.mask,
                        write  |-> IF writes THEN ToWrite ELSE NoRow]
<1>1. /\ pc = "loop2" /\ Idle /\ StartAccelerator(config)
      /\ saved2' = mask /\ k' = k + 1
      /\ pc' = IF k = LastCall THEN "clear" ELSE "mask2"
      /\ UNCHANGED <<mem, cache, row, mask, saved1, copied, early, given, tries>>
  BY DEF Loop2
<1>2. k \in 0 .. PK_NROWS + 1 /\ k # row /\ row \in Int
  BY <1>1 DEF IInv, LoopRange, TypeOK
<1>3. writes => ToWrite \in Rows /\ ToWrite <= k - 2
  BY <1>2, WriteBehind DEF Rows
<1>4. reads => k \in Rows
  BY <1>2 DEF Rows
<1>5. cfg.in0_wr \in BOOLEAN /\ cfg.mask \in BOOLEAN /\ saved2 \in BOOLEAN
  BY DEF IInv, TypeOK
<1> HIDE DEF reads, computes, writes
<1>6. config \in [read : Rows \cup {NoRow}, write : Rows \cup {NoRow},
                  in0_wr : BOOLEAN, mask : BOOLEAN]
  BY <1>3, <1>4, <1>5
<1>7. /\ config.write # NoRow => config.write <= k - 2
      /\ config.read # NoRow => config.read = k
  BY <1>3
<1> HIDE DEF config
<1>8. /\ acc' \in [mat : SUBSET Columns, loaded : SUBSET Columns,
                   computed : SUBSET Columns, writing : SUBSET Columns]
      /\ cfg' = config
      /\ run' = [read |-> config.read, write |-> config.write]
  BY <1>1, <1>6, StartType DEF IInv
<1>9. run'.read = config.read /\ run'.write = config.write
  BY <1>8
<1>10. TypeOK'
  <2>1. run' \in [read : Rows \cup {NoRow}, write : Rows \cup {NoRow}]
    BY <1>6, <1>8
  <2>2. k' \in 0 .. PK_NROWS + 2
    BY <1>1, <1>2
  <2>3. QED
    BY <1>1, <1>6, <1>8, <2>1, <2>2 DEF IInv, TypeOK
<1>11. LoopRange'
  BY <1>1, <1>2 DEF IInv, LoopRange, LastCall
<1>12. RunRange'
  <2>1. config.write \in Rows \cup {NoRow}
    BY <1>6
  <2>2. run'.write # NoRow => run'.write # run'.read /\ run'.write < k' - 1
    BY <1>1, <1>2, <1>7, <1>9, <2>1 DEF Rows, NoRow
  <2>3. QED
    BY <1>1, <2>2 DEF RunRange
<1>13. CacheRange'
  <2>1. pc' \in {"mask2", "clear"} /\ mem' = mem /\ cache' = cache
    BY <1>1
  <2>2. \A r \in Rows : r >= k' - 1 => Coherent(r)
    BY <1>1, <1>2 DEF IInv, CacheRange, Rows
  <2>3. QED
    BY <2>1, <2>2 DEF CacheRange, Coherent
<1>14. QED
  BY <1>10, <1>11, <1>12, <1>13 DEF IInv

LEMMA ClearCacheInv == IInv /\ ClearCache => IInv'
<1> SUFFICES ASSUME IInv, ClearCache PROVE IInv'
  OBVIOUS
<1> USE NoRowOutside DEF IInv
<1>1. /\ pc = "clear" /\ row < PK_NROWS /\ row \in Nat
      /\ row' = row + 1 /\ k' = 0
      /\ pc' = IF row + 1 = PK_NROWS THEN "copy" ELSE "load"
  BY DEF ClearCache, LoopRange, TypeOK
<1>2. \A r \in Rows : cache'[r] = None
  BY DEF ClearCache, Cleared
<1>3. /\ cfg' \in [read : Rows \cup {NoRow}, write : Rows \cup {NoRow},
                   in0_wr : BOOLEAN, mask : BOOLEAN]
      /\ cfg'.write = NoRow
  BY DEF ClearCache, TypeOK
<1>4. TypeOK'
  <2>1. cache' \in [Rows -> (SUBSET Columns) \cup {None}]
    BY DEF ClearCache, Cleared
  <2>2. k' \in 0 .. PK_NROWS + 2
    BY <1>1
  <2>3. QED
    BY <1>1, <1>3, <2>1, <2>2 DEF ClearCache, TypeOK
<1>5. LoopRange'
  BY <1>1 DEF LoopRange, Rows
<1>6. RunRange'
  BY <1>1, <1>3 DEF ClearCache, RunRange
<1>7. CacheRange'
  BY <1>1, <1>2 DEF CacheRange, Coherent
<1>8. QED
  BY <1>4, <1>5, <1>6, <1>7

LEMMA SeenType ==
  ASSUME TypeOK, NEW r \in Rows
  PROVE  Seen(r) \subseteq SUBSET Columns
<1>1. View(r) \in SUBSET Columns
  BY ViewType
<1>2. acc.writing \in SUBSET Columns
  BY DEF TypeOK
<1>3. QED
  BY <1>1, <1>2 DEF Seen, Mixes

LEMMA CopyRowInv == IInv /\ CopyRow => IInv'
<1> SUFFICES ASSUME IInv, CopyRow PROVE IInv'
  OBVIOUS
<1> USE NoRowOutside DEF IInv
<1>1. /\ pc = "copy" /\ row = PK_NROWS /\ k \in Rows /\ k \in Nat
      /\ k' = k + 1 /\ pc' = IF k + 1 = PK_NROWS THEN "stopped" ELSE "copy"
      /\ early' = early \cup ({k} \cap {run.write})
      /\ UNCHANGED <<mem, row, timesCalled, mask, saved1, saved2, cfg, acc, run, given, tries>>
  BY DEF CopyRow, LoopRange
<1>2. PICK seen \in Seen(k) : /\ copied' = [copied EXCEPT ![k] = seen]
                              /\ cache' = [cache EXCEPT ![k] = seen]
  BY DEF CopyRow
<1>3. seen \in SUBSET Columns
  BY <1>1, SeenType
<1>4. /\ cache' \in [Rows -> (SUBSET Columns) \cup {None}]
      /\ \A r \in Rows : r # k => cache'[r] = cache[r]
  BY <1>2, <1>3 DEF TypeOK
<1>5. copied' \in Matrices
  BY <1>2, <1>3 DEF TypeOK, Matrices
<1>6. TypeOK'
  <2>1. early' \in SUBSET Rows /\ k' \in 0 .. PK_NROWS + 2
    BY <1>1 DEF TypeOK, Rows
  <2>2. QED
    BY <1>1, <1>4, <1>5, <2>1 DEF TypeOK
<1>7. LoopRange'
  BY <1>1 DEF LoopRange, Rows
<1>8. RunRange'
  BY <1>1 DEF RunRange
<1>9. CacheRange'
  <2>1. \A r \in Rows : r >= k' => r # k /\ r >= k
    BY <1>1
  <2>2. QED
    BY <1>1, <1>4, <2>1 DEF CacheRange, Coherent
<1>10. QED
  BY <1>6, <1>7, <1>8, <1>9

LEMMA StutterInv == IInv /\ UNCHANGED vars => IInv'
  BY DEF vars, cpu, IInv, TypeOK, LoopRange, RunRange, CacheRange, Coherent, Idle
-----------------------------------------------------------------------------
LEMMA NextInv == IInv /\ [Next]_vars => IInv'
  BY RunReadsInv, RunWritesInv, GenerateInv, LoadRowInv, Mask1Inv, AddRowInv, AddLastRowInv,
     FailInv, ReadRowInv, SkipRowInv, Mask2Inv, Loop2Inv, ClearCacheInv, CopyRowInv, StutterInv
  DEF Next, Accelerator, Cpu, Stopped

LEMMA Invariance == Spec => []IInv
  BY InitInv, NextInv, PTL DEF Spec

(* Rows, masks and what the accelerator holds keep their types, and no      *)
(* index of either loop leaves the matrix (1215-1252, 1399-1446).           *)
THEOREM KeyGenerationTypes == Spec => []TypeOK
<1>1. IInv => TypeOK
  BY DEF IInv
<1>2. QED
  BY <1>1, Invariance, PTL

(* The CPU computes with no row of which its cache has an old copy: the     *)
(* cache is cleared after every pivot row, and what the accelerator writes  *)
(* afterwards, before the CPU waits, is in no copy (1399, 1412-1444).       *)
THEOREM NoStaleRead == Spec => []FreshReads
<1>1. IInv => FreshReads
  <2> SUFFICES ASSUME IInv, NEW r \in Reads PROVE View(r) = mem[r]
    BY DEF FreshReads
  <2>1. r \in Rows /\ Coherent(r)
    BY NoRowOutside, SMTT(30) DEF Reads, MayLoad, IInv, TypeOK, LoopRange, CacheRange, Rows
  <2>2. QED
    BY <2>1, ViewType DEF IInv
<1>2. QED
  BY <1>1, Invariance, PTL
-----------------------------------------------------------------------------
(* Induction over the natural numbers, as a statement about a set.          *)
LEMMA AllNumbers ==
  ASSUME NEW T, T \subseteq Nat, 0 \in T, \A n \in T : n + 1 \in T
  PROVE  T = Nat
<1> DEFINE R == {ss \in Nat \X Nat : ss[1] < ss[2]}
<1>1. IsWellFoundedOn(R, Nat)
  BY NatLessThanWellFounded DEF OpToRel
<1>2. \A x, y \in Nat : <<y, x>> \notin R => x <= y
  OBVIOUS
<1> HIDE DEF R
<1>3. ASSUME Nat \ T # {} PROVE FALSE
  <2>1. PICK x \in Nat \ T : \A y \in Nat \ T : <<y, x>> \notin R
    BY <1>1, <1>3, WFMin
  <2>2. x # 0 /\ x - 1 \in Nat /\ ~(x <= x - 1)
    BY <2>1
  <2>3. x - 1 \in T
    BY <1>2, <2>1, <2>2
  <2>4. QED
    BY <2>1, <2>2, <2>3
<1>4. QED
  BY <1>3
-----------------------------------------------------------------------------
(* The reference elimination alone: the equations of its two recursive      *)
(* functions, and the systematic form of the matrix they end with.          *)
LEMMA RowsColumns == Rows \subseteq Columns /\ Rows \subseteq Nat
  BY DEF Rows, Columns
-----------------------------------------------------------------------------
(* The pivot row as the last of the sums of rows that the reference makes.  *)
Differs(matrix, i, sum, r) == (i \in sum) # (i \in matrix[r])

AreSums(matrix, i, sum) ==
  sum = [r \in i .. PK_NROWS - 1 |->
           IF r = i THEN matrix[i]
           ELSE IF (i \in sum[r - 1]) # (i \in matrix[r]) THEN Xor(sum[r - 1], matrix[r])
           ELSE sum[r - 1]]

Sums(matrix, i) == CHOOSE sum : AreSums(matrix, i, sum)

LEMMA PivotIsSum == \A matrix, i : Pivot(matrix, i) = Sums(matrix, i)[PK_NROWS - 1]
  BY DEF Pivot, Sums, AreSums

(* The first n sums.                                                        *)
Begun(matrix, i, n, sum) ==
  /\ sum \in [i .. i + n -> SUBSET Columns]
  /\ sum[i] = matrix[i]
  /\ \A r \in i + 1 .. i + n :
       sum[r] = IF Differs(matrix, i, sum[r - 1], r) THEN Xor(sum[r - 1], matrix[r])
                ELSE sum[r - 1]

LEMMA MoreSums ==
  ASSUME NEW matrix \in Matrices, NEW i \in Rows, NEW n \in Nat,
         i + n + 1 < PK_NROWS, NEW sum, Begun(matrix, i, n, sum)
  PROVE  \E more : Begun(matrix, i, n + 1, more)
<1> DEFINE last == sum[i + n]
           next == IF Differs(matrix, i, last, i + n + 1)
                   THEN Xor(last, matrix[i + n + 1]) ELSE last
           more == [r \in i .. i + n + 1 |-> IF r = i + n + 1 THEN next ELSE sum[r]]
<1>1. i \in Nat /\ i + n \in i .. i + n /\ i + n + 1 \in Rows
  BY DEF Rows
<1>2. last \in SUBSET Columns /\ matrix[i + n + 1] \in SUBSET Columns
  BY <1>1 DEF Begun, Matrices
<1>3. next \in SUBSET Columns
  BY <1>2, XorType
<1> HIDE DEF next
<1>4. more \in [i .. i + (n + 1) -> SUBSET Columns]
  <2>1. \A r \in i .. i + n + 1 : r # i + n + 1 => r \in i .. i + n
    BY <1>1
  <2>2. i + (n + 1) = i + n + 1
    BY <1>1
  <2>3. QED
    BY <1>3, <2>1, <2>2 DEF Begun
<1>5. more[i] = matrix[i]
  BY <1>1 DEF Begun
<1>6. ASSUME NEW r \in i + 1 .. i + (n + 1)
      PROVE  more[r] = IF Differs(matrix, i, more[r - 1], r) THEN Xor(more[r - 1], matrix[r])
                       ELSE more[r - 1]
  <2>1. /\ r - 1 \in i .. i + n + 1 /\ r - 1 # i + n + 1
        /\ r \in i .. i + n + 1
    BY <1>1
  <2>2. more[r - 1] = sum[r - 1]
    BY <2>1
  <2>3. CASE r = i + n + 1
    <3>1. more[r] = next /\ more[r - 1] = last
      BY <1>1, <2>1, <2>2, <2>3
    <3>2. QED
      BY <2>3, <3>1 DEF next
  <2>4. CASE r # i + n + 1
    <3>1. r \in i + 1 .. i + n /\ more[r] = sum[r]
      BY <1>1, <2>1, <2>4
    <3>2. QED
      BY <2>2, <3>1 DEF Begun
  <2>5. QED
    BY <2>3, <2>4
<1> HIDE DEF more
<1>7. Begun(matrix, i, n + 1, more)
  BY <1>4, <1>5, <1>6 DEF Begun
<1>8. QED
  BY <1>7

LEMMA SomeSums ==
  ASSUME NEW matrix \in Matrices, NEW i \in Rows, NEW n \in Nat, i + n < PK_NROWS
  PROVE  \E sum : Begun(matrix, i, n, sum)
<1> DEFINE T == {m \in Nat : i + m < PK_NROWS => \E sum : Begun(matrix, i, m, sum)}
<1>1. 0 \in T
  <2>1. Begun(matrix, i, 0, [r \in i .. i + 0 |-> matrix[i]])
    BY DEF Begun, Matrices, Rows
  <2>2. QED
    BY <2>1
<1>2. ASSUME NEW m \in T PROVE m + 1 \in T
  <2>1. i \in Nat
    BY RowsColumns
  <2>2. SUFFICES ASSUME i + (m + 1) < PK_NROWS
                 PROVE  \E sum : Begun(matrix, i, m + 1, sum)
    OBVIOUS
  <2>3. PICK sum : Begun(matrix, i, m, sum)
    BY <2>1, <2>2
  <2>4. i + m + 1 < PK_NROWS
    BY <2>1, <2>2
  <2>5. QED
    BY <2>3, <2>4, MoreSums
<1>3. T \subseteq Nat
  OBVIOUS
<1> HIDE DEF T
<1>4. T = Nat
  BY <1>1, <1>2, <1>3, AllNumbers
<1>5. QED
  BY <1>4 DEF T

(* The equations of the sums.                                               *)
LEMMA SumsAre ==
  ASSUME NEW matrix \in Matrices, NEW i \in Rows
  PROVE  /\ \A r \in i .. PK_NROWS - 1 : Sums(matrix, i)[r] \in SUBSET Columns
         /\ Sums(matrix, i)[i] = matrix[i]
         /\ \A r \in i + 1 .. PK_NROWS - 1 :
              Sums(matrix, i)[r] =
                IF Differs(matrix, i, Sums(matrix, i)[r - 1], r)
                THEN Xor(Sums(matrix, i)[r - 1], matrix[r])
                ELSE Sums(matrix, i)[r - 1]
<1>1. i \in Nat /\ i <= PK_NROWS - 1 /\ PK_NROWS - 1 - i \in Nat
      /\ i + (PK_NROWS - 1 - i) = PK_NROWS - 1
  BY DEF Rows
<1>2. PICK s : Begun(matrix, i, PK_NROWS - 1 - i, s)
  BY <1>1, SomeSums
<1>3. /\ s \in [i .. PK_NROWS - 1 -> SUBSET Columns]
      /\ s[i] = matrix[i]
      /\ \A r \in i + 1 .. PK_NROWS - 1 :
           s[r] = IF Differs(matrix, i, s[r - 1], r) THEN Xor(s[r - 1], matrix[r])
                  ELSE s[r - 1]
  BY <1>1, <1>2 DEF Begun
<1>4. AreSums(matrix, i, s)
  <2>1. \A r \in i .. PK_NROWS - 1 : r # i => r \in i + 1 .. PK_NROWS - 1
    BY <1>1
  <2>2. QED
    BY <1>3, <2>1 DEF AreSums, Differs
<1>5. AreSums(matrix, i, Sums(matrix, i))
  BY <1>4 DEF Sums
<1> DEFINE t == Sums(matrix, i)
<1>6. /\ t[i] = matrix[i]
      /\ \A r \in i + 1 .. PK_NROWS - 1 :
           t[r] = IF Differs(matrix, i, t[r - 1], r) THEN Xor(t[r - 1], matrix[r])
                  ELSE t[r - 1]
  <2> HIDE DEF t
  <2>1. AreSums(matrix, i, t)
    BY <1>5 DEF t
  <2>2. i \in i .. PK_NROWS - 1
        /\ \A r \in i + 1 .. PK_NROWS - 1 : r \in i .. PK_NROWS - 1 /\ r # i
    BY <1>1
  <2>3. QED
    BY <2>1, <2>2 DEF AreSums, Differs
<1>7. \A r \in i .. PK_NROWS - 1 : t[r] \in SUBSET Columns
  <2> HIDE DEF t
  <2> DEFINE T == {m \in Nat : i + m < PK_NROWS => t[i + m] \in SUBSET Columns}
  <2>1. 0 \in T
    BY <1>1, <1>6 DEF Matrices
  <2>2. ASSUME NEW m \in T, i + (m + 1) < PK_NROWS
        PROVE  t[i + (m + 1)] \in SUBSET Columns
    <3> DEFINE r == i + (m + 1)
    <3>1. r \in i + 1 .. PK_NROWS - 1 /\ r - 1 = i + m /\ i + m < PK_NROWS /\ r \in Rows
      BY <1>1, <2>2 DEF Rows
    <3>2. t[r - 1] \in SUBSET Columns /\ matrix[r] \in SUBSET Columns
      BY <3>1 DEF Matrices
    <3> HIDE DEF r
    <3>3. t[r] \in SUBSET Columns
      BY <1>6, <3>1, <3>2, XorType
    <3>4. QED
      BY <3>3 DEF r
  <2>3. \A m \in T : m + 1 \in T
    BY <2>2
  <2> HIDE DEF T
  <2>4. T = Nat
    BY <2>1, <2>3, AllNumbers DEF T
  <2>5. ASSUME NEW r \in i .. PK_NROWS - 1 PROVE t[r] \in SUBSET Columns
    <3>1. r - i \in Nat /\ i + (r - i) = r /\ r < PK_NROWS
      BY <1>1
    <3>2. r - i \in T
      BY <2>4, <3>1
    <3>3. QED
      BY <3>1, <3>2 DEF T
  <2>6. QED
    BY <2>5
<1>8. QED
  BY <1>6, <1>7

LEMMA PivotType ==
  ASSUME NEW matrix \in Matrices, NEW i \in Rows
  PROVE  Pivot(matrix, i) \in SUBSET Columns
<1>1. PK_NROWS - 1 \in i .. PK_NROWS - 1
  BY DEF Rows
<1>2. QED
  BY <1>1, PivotIsSum, SumsAre
-----------------------------------------------------------------------------
(* One step of the elimination, and the matrices after each.                *)
Step(matrix, n) ==
  IF n \in Pivot(matrix, n) THEN Clear(matrix, n, Pivot(matrix, n)) ELSE NotSystematic

AreReduced(matrix, after) ==
  after = [n \in 0 .. PK_NROWS |->
             IF n = 0 THEN matrix
             ELSE LET before == after[n - 1]  pivot == Pivot(before, n - 1)
                  IN  IF n - 1 \in pivot THEN Clear(before, n - 1, pivot) ELSE NotSystematic]

LEMMA ReducedIs == \A matrix : Reduced(matrix) = CHOOSE after : AreReduced(matrix, after)
  BY DEF Reduced, AreReduced

LEMMA StepType ==
  ASSUME NEW matrix \in Matrices, NEW n \in Rows
  PROVE  Step(matrix, n) \in Matrices
<1>1. Pivot(matrix, n) \in SUBSET Columns
  BY PivotType
<1>2. \A r \in Rows : Xor(matrix[r], Pivot(matrix, n)) \in SUBSET Columns
  BY <1>1, XorType DEF Matrices
<1>3. Clear(matrix, n, Pivot(matrix, n)) \in Matrices
  BY <1>1, <1>2 DEF Clear, Matrices
<1>4. NotSystematic \in Matrices
  BY DEF NotSystematic, Matrices
<1>5. QED
  BY <1>3, <1>4 DEF Step

(* The first n steps.                                                       *)
Stepped(matrix, n, after) ==
  /\ after \in [0 .. n -> Matrices]
  /\ after[0] = matrix
  /\ \A m \in 1 .. n : after[m] = Step(after[m - 1], m - 1)

LEMMA SomeSteps ==
  ASSUME NEW matrix \in Matrices, NEW n \in 0 .. PK_NROWS
  PROVE  \E after : Stepped(matrix, n, after)
<1> DEFINE T == {m \in Nat : m <= PK_NROWS => \E after : Stepped(matrix, m, after)}
<1>1. 0 \in T
  <2>1. Stepped(matrix, 0, [m \in 0 .. 0 |-> matrix])
    BY DEF Stepped
  <2>2. QED
    BY <2>1
<1>2. ASSUME NEW m \in T PROVE m + 1 \in T
  <2>1. SUFFICES ASSUME m + 1 <= PK_NROWS
                 PROVE  \E after : Stepped(matrix, m + 1, after)
    OBVIOUS
  <2>2. PICK after : Stepped(matrix, m, after)
    BY <2>1
  <2> DEFINE next == Step(after[m], m)
             more == [p \in 0 .. m + 1 |-> IF p = m + 1 THEN next ELSE after[p]]
  <2>3. m \in Rows /\ m \in 0 .. m /\ m \in Nat
    BY <2>1 DEF Rows
  <2>4. next \in Matrices
    BY <2>2, <2>3, StepType DEF Stepped
  <2> HIDE DEF next
  <2>5. more \in [0 .. m + 1 -> Matrices]
    <3>1. \A p \in 0 .. m + 1 : p # m + 1 => p \in 0 .. m
      BY <2>3
    <3>2. QED
      BY <2>2, <2>4, <3>1 DEF Stepped
  <2>6. more[0] = matrix
    BY <2>2, <2>3 DEF Stepped
  <2>7. ASSUME NEW p \in 1 .. m + 1 PROVE more[p] = Step(more[p - 1], p - 1)
    <3>1. p - 1 \in 0 .. m + 1 /\ p - 1 # m + 1 /\ p \in 0 .. m + 1
      BY <2>3
    <3>2. more[p - 1] = after[p - 1]
      BY <3>1
    <3>3. CASE p = m + 1
      <4>1. more[p] = next /\ p - 1 = m
        BY <2>3, <3>1, <3>3
      <4>2. QED
        BY <3>2, <4>1 DEF next
    <3>4. CASE p # m + 1
      <4>1. p \in 1 .. m /\ more[p] = after[p]
        BY <2>3, <3>1, <3>4
      <4>2. QED
        BY <2>2, <3>2, <4>1 DEF Stepped
    <3>5. QED
      BY <3>3, <3>4
  <2> HIDE DEF more
  <2>8. Stepped(matrix, m + 1, more)
    BY <2>5, <2>6, <2>7 DEF Stepped
  <2>9. QED
    BY <2>8
<1>3. T \subseteq Nat
  OBVIOUS
<1> HIDE DEF T
<1>4. T = Nat
  BY <1>1, <1>2, <1>3, AllNumbers
<1>5. QED
  BY <1>4 DEF T

(* The equations of the elimination.                                        *)
LEMMA ReducedSteps ==
  ASSUME NEW matrix \in Matrices
  PROVE  /\ \A n \in 0 .. PK_NROWS : Reduced(matrix)[n] \in Matrices
         /\ Reduced(matrix)[0] = matrix
         /\ \A n \in Rows : Reduced(matrix)[n + 1] = Step(Reduced(matrix)[n], n)
<1>1. PICK s : Stepped(matrix, PK_NROWS, s)
  BY SomeSteps
<1>2. AreReduced(matrix, s)
  <2>1. \A n \in 0 .. PK_NROWS : n # 0 => n \in 1 .. PK_NROWS
    OBVIOUS
  <2>2. QED
    BY <1>1, <2>1 DEF AreReduced, Stepped, Step
<1> DEFINE t == Reduced(matrix)
<1>3. AreReduced(matrix, t)
  BY <1>2, ReducedIs
<1> HIDE DEF t
<1>4. t[0] = matrix
  BY <1>3 DEF AreReduced
<1>5. ASSUME NEW n \in Rows PROVE t[n + 1] = Step(t[n], n)
  <2>1. n + 1 \in 0 .. PK_NROWS /\ n + 1 # 0 /\ (n + 1) - 1 = n
    BY DEF Rows
  <2>2. QED
    BY <1>3, <2>1 DEF AreReduced, Step
<1> DEFINE T == {m \in Nat : m <= PK_NROWS => t[m] \in Matrices}
<1>6. 0 \in T
  BY <1>4
<1>7. ASSUME NEW m \in T, m + 1 <= PK_NROWS PROVE t[m + 1] \in Matrices
  <2>1. m \in Rows /\ m <= PK_NROWS
    BY <1>7 DEF Rows
  <2>2. QED
    BY <1>5, <2>1, StepType
<1>8. \A m \in T : m + 1 \in T
  BY <1>7
<1> HIDE DEF T
<1>9. T = Nat
  BY <1>6, <1>8, AllNumbers DEF T
<1>10. \A n \in 0 .. PK_NROWS : t[n] \in Matrices
  BY <1>9 DEF T
<1>11. QED
  BY <1>4, <1>5, <1>10 DEF t
-----------------------------------------------------------------------------
(* The first n rows have their columns: column j holds a 1 in row j only.   *)
Systematised(matrix, n) ==
  \A j \in 0 .. n - 1 : \A r \in Rows : j \in matrix[r] <=> r = j

(* A column that no row from row on holds is not in the pivot row either.   *)
LEMMA SumsKeepClear ==
  ASSUME NEW matrix \in Matrices, NEW i \in Rows, NEW j,
         \A r \in Rows : r >= i => j \notin matrix[r]
  PROVE  j \notin Pivot(matrix, i)
<1> DEFINE t == Sums(matrix, i)
           T == {m \in Nat : i + m < PK_NROWS => j \notin t[i + m]}
<1>1. i \in Nat
  BY RowsColumns
<1>2. \A r \in Rows : r >= i => j \notin matrix[r]
  OBVIOUS
<1>3. /\ t[i] = matrix[i]
      /\ \A r \in i + 1 .. PK_NROWS - 1 :
           t[r] = IF Differs(matrix, i, t[r - 1], r) THEN Xor(t[r - 1], matrix[r])
                  ELSE t[r - 1]
  BY SumsAre
<1> HIDE DEF t
<1>4. 0 \in T
  BY <1>1, <1>2, <1>3
<1>5. ASSUME NEW m \in T, i + (m + 1) < PK_NROWS PROVE j \notin t[i + (m + 1)]
  <2> DEFINE r == i + (m + 1)
  <2>1. /\ r \in i + 1 .. PK_NROWS - 1 /\ r - 1 = i + m /\ i + m < PK_NROWS
        /\ r \in Rows /\ r >= i
    BY <1>1, <1>5 DEF Rows
  <2>2. j \notin t[r - 1] /\ j \notin matrix[r]
    BY <1>2, <2>1
  <2> HIDE DEF r
  <2>3. j \notin t[r]
    BY <1>3, <2>1, <2>2 DEF Xor
  <2>4. QED
    BY <2>3 DEF r
<1>6. \A m \in T : m + 1 \in T
  BY <1>5
<1> HIDE DEF T
<1>7. T = Nat
  BY <1>4, <1>6, AllNumbers DEF T
<1>8. /\ PK_NROWS - 1 - i \in Nat /\ i + (PK_NROWS - 1 - i) = PK_NROWS - 1
      /\ PK_NROWS - 1 < PK_NROWS
  BY <1>1 DEF Rows
<1>9. j \notin t[PK_NROWS - 1]
  BY <1>7, <1>8 DEF T
<1>10. QED
  BY <1>9, PivotIsSum DEF t

LEMMA StepSystematises ==
  ASSUME NEW matrix \in Matrices, NEW n \in Rows,
         Systematised(matrix, n) \/ matrix = NotSystematic
  PROVE  Systematised(Step(matrix, n), n + 1) \/ Step(matrix, n) = NotSystematic
<1> DEFINE p == Pivot(matrix, n)
<1>1. CASE n \notin p
  BY <1>1 DEF Step
<1>2. CASE matrix = NotSystematic
  <2>1. \A r \in Rows : matrix[r] = {}
    BY <1>2 DEF NotSystematic
  <2>2. n \notin p
    BY <2>1, SumsKeepClear
  <2>3. QED
    BY <1>1, <2>2
<1>3. CASE n \in p /\ Systematised(matrix, n)
  <2>1. ASSUME NEW j \in 0 .. n - 1 PROVE j \notin p
    <3>1. n \in Nat /\ j \in Nat /\ j < n
      BY RowsColumns
    <3>2. ASSUME NEW r \in Rows, r >= n PROVE j \notin matrix[r]
      <4>1. r \in Nat /\ r # j
        BY <3>1, <3>2, RowsColumns
      <4>2. j \in matrix[r] <=> r = j
        BY <1>3, <3>2 DEF Systematised
      <4>3. QED
        BY <4>1, <4>2
    <3>3. QED
      BY <3>2, SumsKeepClear
  <2>2. Step(matrix, n) = [r \in Rows |-> IF r = n THEN p
                                          ELSE IF n \in matrix[r] THEN Xor(matrix[r], p)
                                          ELSE matrix[r]]
    BY <1>3 DEF Step, Clear
  <2> HIDE DEF p
  <2>3. ASSUME NEW j \in 0 .. n, NEW r \in Rows
        PROVE  j \in Step(matrix, n)[r] <=> r = j
    <3>1. n \in Nat
      BY RowsColumns
    <3>2. CASE j = n
      BY <1>3, <2>2, <3>2 DEF Xor
    <3>3. CASE j # n
      <4>1. j \in 0 .. n - 1 /\ r \in Nat
        BY <3>1, <3>3, RowsColumns
      <4>2. j \notin p /\ (j \in matrix[r] <=> r = j)
        BY <1>3, <2>1, <4>1 DEF Systematised
      <4>3. QED
        BY <2>2, <3>3, <4>1, <4>2 DEF Xor
    <3>4. QED
      BY <3>2, <3>3
  <2>4. (n + 1) - 1 = n
    BY RowsColumns
  <2>5. QED
    BY <2>3, <2>4 DEF Systematised
<1>4. QED
  BY <1>1, <1>2, <1>3

(* After n rows of a matrix the first n columns are those of the identity   *)
(* matrix, or the elimination has found that it has no systematic form: the *)
(* public key, the columns behind, is taken from a matrix in that form      *)
(* (pk_gen.c, versatCrypto.c 1449).                                         *)
THEOREM SystematicForm ==
  ASSUME NEW matrix \in Matrices, NEW n \in 0 .. PK_NROWS
  PROVE  \/ Reduced(matrix)[n] = NotSystematic
         \/ \A j \in 0 .. n - 1 : \A r \in Rows : j \in Reduced(matrix)[n][r] <=> r = j
<1> DEFINE t == Reduced(matrix)
           T == {m \in Nat : m <= PK_NROWS => Systematised(t[m], m) \/ t[m] = NotSystematic}
<1>1. 0 \in T
  BY DEF Systematised
<1>2. ASSUME NEW m \in T, m + 1 <= PK_NROWS
      PROVE  Systematised(t[m + 1], m + 1) \/ t[m + 1] = NotSystematic
  <2>1. m \in Rows /\ m \in 0 .. PK_NROWS /\ m <= PK_NROWS
    BY <1>2 DEF Rows
  <2>2. t[m] \in Matrices /\ t[m + 1] = Step(t[m], m)
    BY <2>1, ReducedSteps
  <2>3. Systematised(t[m], m) \/ t[m] = NotSystematic
    BY <2>1
  <2> HIDE DEF t, T
  <2>4. QED
    BY <2>1, <2>2, <2>3, StepSystematises
<1>3. \A m \in T : m + 1 \in T
  BY <1>2
<1> HIDE DEF T
<1>4. T = Nat
  BY <1>1, <1>3, AllNumbers DEF T
<1>5. Systematised(t[n], n) \/ t[n] = NotSystematic
  BY <1>4 DEF T
<1>6. QED
  BY <1>5 DEF Systematised

-----------------------------------------------------------------------------
(* The matrix that the reference elimination begins this row with, its      *)
(* pivot row and the sums that lead to it, and the rows that it ends with.  *)
Matrix == Reduced(given)[row]
Pivoted == Pivot(Matrix, row)
Partial(j) == Sums(Matrix, row)[j]
Result(r) == Clear(Matrix, row, Pivoted)[r]

InByte == {c \in Columns : c \div BITS = row \div BITS}

(* Between two pivot rows.                                                  *)
BetweenRows == pc \in {"load", "copy"} => Settled = Matrix

(* In the first loop the accelerator is one row behind the CPU, which keeps *)
(* the byte of the pivot row that the masks depend on.                      *)
Summing ==
  /\ pc \in {"mask1", "loop1", "check"} =>
       /\ \A r \in Rows \ {row} : mem[r] = Matrix[r]
       /\ mem[row] \cap InByte = Partial(k - 1) \cap InByte
  /\ pc \in {"mask1", "loop1"} /\ k = row + 1 => Idle /\ acc.mat = Matrix[row]
  /\ pc \in {"mask1", "loop1"} /\ k # row + 1 =>
       /\ acc.mat = Partial(k - 2)
       /\ run.read \in {k - 1, NoRow}
       /\ run.read = NoRow => acc.loaded = Matrix[k - 1]
       /\ saved1 <=> Differs(Matrix, row, Partial(k - 2), k - 1)
  /\ pc = "loop1" => (mask <=> Differs(Matrix, row, Partial(k - 1), k))
  /\ pc = "check" => k = PK_NROWS /\ acc.mat = Pivoted
  /\ pc \notin {"mask1", "loop1"} \/ k = row + 1 => ~saved1

(* What the last run of the first loop leaves to those of the second.       *)
PivotKept ==
  /\ pc = "check" /\ PK_NROWS = 1 => ~cfg.mask
  /\ pc \in {"mask2", "loop2"} => \/ ~cfg.in0_wr
                                  \/ ~cfg.mask /\ PK_NROWS = 1
                                  \/ timesCalled = 0 /\ PK_NROWS # 1

(* The rows of the last three calls of the second loop: one is read, one    *)
(* computed and one written.                                                *)
Last1 == Before(k)
Last2 == Before(Last1)
Last3 == Before(Last2)

Clearing ==
  /\ pc \in {"mask2", "loop2", "clear"} =>
       /\ row \in Pivoted /\ mem[row] = Pivoted
       /\ timesCalled = IF row < k THEN k - 1 ELSE k
       /\ run.read \in {Last1, NoRow} /\ run.write \in {Last3, NoRow}
       /\ run.read = NoRow /\ Last1 \in Rows => acc.loaded = Matrix[Last1]
       /\ Last2 \in Rows => acc.computed = Result(Last2)
       /\ Last3 \in Rows /\ run.write = Last3 => acc.writing = Result(Last3)
       /\ Last1 \in Rows => (saved2 <=> row \in Matrix[Last1])
       /\ \A r \in Rows \ {row} :
            /\ r > Last3 \/ r = run.write => mem[r] = Matrix[r]
            /\ r <= Last3 /\ r # run.write => mem[r] = Result(r)
  /\ pc \in {"mask2", "loop2"} => acc.mat = Pivoted
  /\ pc = "loop2" => (mask <=> k < PK_NROWS /\ row \in Matrix[k])
  /\ pc = "clear" => k = PK_NROWS + 2

(* While the key is copied, the row that is still to be written is the one  *)
(* before the last, and has in memory what the last pivot row began with.   *)
Copying ==
  /\ pc = "copy" => /\ run.write \in {PK_NROWS - 2, NoRow}
                    /\ run.write # NoRow =>
                         mem[run.write] = Reduced(given)[PK_NROWS - 1][run.write]
                    /\ early \subseteq 0 .. k - 1
  /\ pc \notin {"copy", "stopped"} => early = {}
  /\ pc = "copy" \/ KeyMade => PK_NROWS - 1 \in Reduced(given)[PK_NROWS][PK_NROWS - 1]
  /\ \A r \in Copied : RowCopied(r)

KInv == BetweenRows /\ Summing /\ PivotKept /\ Clearing /\ Copying
-----------------------------------------------------------------------------
(* What the definitions above are made of.                                  *)

LEMMA RowBeforeIs ==
  ASSUME NEW x \in Int, row \in Nat
  PROVE  /\ Before(x) \in Int /\ Before(x) < x /\ Before(x) >= x - 2 /\ Before(x) # row
         /\ \A r \in Int : r < x /\ r # row => r <= Before(x)
         /\ x # row => Before(x + 1) = x
         /\ x = row => Before(x + 1) = Before(x)
  BY DEF Before

LEMMA LastRows ==
  ASSUME IInv, row \in Rows
  PROVE  /\ Last1 \in Int /\ Last2 \in Int /\ Last3 \in Int
         /\ Last3 < Last2 /\ Last2 < Last1 /\ Last1 < k
         /\ Last1 >= k - 2 /\ Last2 >= k - 4 /\ Last3 >= k - 6
         /\ row \notin {Last1, Last2, Last3} /\ row \in Nat /\ k \in Nat
         /\ NoRow \notin {Last1, Last2, Last3}
<1>1. row \in Nat /\ k \in Nat /\ k \in Int
  BY RowsColumns DEF IInv, TypeOK
<1>2. Last1 \in Int /\ Last1 < k /\ Last1 >= k - 2 /\ Last1 # row
  BY <1>1, RowBeforeIs DEF Last1
<1>3. Last2 \in Int /\ Last2 < Last1 /\ Last2 >= Last1 - 2 /\ Last2 # row
  BY <1>1, <1>2, RowBeforeIs DEF Last2
<1>4. Last3 \in Int /\ Last3 < Last2 /\ Last3 >= Last2 - 2 /\ Last3 # row
  BY <1>1, <1>3, RowBeforeIs DEF Last3
<1>5. QED
  BY <1>1, <1>2, <1>3, <1>4 DEF NoRow

LEMMA MatrixType ==
  ASSUME IInv
  PROVE  /\ Matrix \in Matrices /\ Reduced(given)[PK_NROWS] \in Matrices
         /\ row \in Rows => Pivoted \in SUBSET Columns
<1>1. given \in Matrices /\ row \in 0 .. PK_NROWS /\ PK_NROWS \in 0 .. PK_NROWS
  BY DEF IInv, TypeOK
<1>2. Matrix \in Matrices /\ Reduced(given)[PK_NROWS] \in Matrices
  BY <1>1, ReducedSteps DEF Matrix
<1>3. QED
  BY <1>2, PivotType DEF Pivoted

LEMMA PartialIs ==
  ASSUME IInv, row \in Rows
  PROVE  /\ \A j \in row .. PK_NROWS - 1 : Partial(j) \in SUBSET Columns
         /\ Partial(row) = Matrix[row]
         /\ \A j \in row + 1 .. PK_NROWS - 1 :
              Partial(j) = IF Differs(Matrix, row, Partial(j - 1), j)
                           THEN Xor(Partial(j - 1), Matrix[j]) ELSE Partial(j - 1)
         /\ Partial(PK_NROWS - 1) = Pivoted
<1>1. Matrix \in Matrices
  BY MatrixType
<1>2. Pivoted = Sums(Matrix, row)[PK_NROWS - 1]
  BY PivotIsSum DEF Pivoted
<1> HIDE DEF Matrix
<1>3. QED
  BY <1>1, <1>2, SumsAre DEF Partial

LEMMA ResultIs ==
  ASSUME NEW r \in Rows, r # row
  PROVE  Result(r) = IF row \in Matrix[r] THEN Xor(Matrix[r], Pivoted) ELSE Matrix[r]
  BY DEF Result, Clear

(* While a row is worked on, they keep their values.                        *)
LEMMA SameRow ==
  ASSUME UNCHANGED <<given, row>>
  PROVE  /\ Matrix' = Matrix /\ Pivoted' = Pivoted /\ InByte' = InByte
         /\ \A j : Partial(j)' = Partial(j)
         /\ \A r : Result(r)' = Result(r)
<1>1. Matrix' = Matrix
  BY DEF Matrix
<1>2. Pivoted' = Pivoted
  BY <1>1 DEF Pivoted
<1>3. InByte' = InByte
  BY DEF InByte
<1> HIDE DEF Matrix, Pivoted
<1>4. \A j : Partial(j)' = Partial(j)
  BY <1>1 DEF Partial
<1>5. \A r : Result(r)' = Result(r)
  BY <1>1, <1>2 DEF Result
<1>6. QED
  BY <1>1, <1>2, <1>3, <1>4, <1>5

LEMMA ByteXor ==
  \A a, b, p, bits : a \cap bits = p \cap bits => Xor(a, b \cap bits) \cap bits = Xor(p, b) \cap bits
  BY DEF Xor

LEMMA ByteIs ==
  ASSUME NEW columns \in SUBSET Columns
  PROVE  Byte(columns) = columns \cap InByte
  BY DEF Byte, InByte

LEMMA RowInByte == row \in Rows => row \in InByte
  BY RowsColumns DEF InByte

(* What a run computes.                                                     *)
LEMMA StartIs ==
  ASSUME IInv, NEW config, StartAccelerator(config)
  PROVE  /\ acc'.mat = IF config.in0_wr /\ config.mask THEN Xor(acc.mat, acc.loaded) ELSE acc.mat
         /\ acc'.loaded = acc.loaded
         /\ acc'.computed = IF config.mask THEN Xor(acc.loaded, acc.mat) ELSE acc.loaded
         /\ acc'.writing = acc.computed
         /\ run'.read = config.read /\ run'.write = config.write /\ cfg' = config
  BY DEF StartAccelerator

LEMMA ReadsAsStored ==
  ASSUME IInv, pc \in {"mask1", "loop1", "check"}, NEW r \in Rows
  PROVE  View(r) = mem[r]
<1>1. Coherent(r)
  BY DEF IInv, CacheRange
<1>2. QED
  BY <1>1, ViewType DEF IInv

LEMMA SettledIs ==
  ASSUME IInv, run.write = NoRow
  PROVE  Settled = mem
<1>1. mem \in [Rows -> SUBSET Columns] /\ NoRow \notin Rows
  BY NoRowOutside DEF IInv, TypeOK, Matrices
<1>2. \A r \in Rows : r # run.write
  BY <1>1
<1>3. Settled = [r \in Rows |-> mem[r]]
  BY <1>2 DEF Settled
<1>4. QED
  BY <1>1, <1>3

LEMMA InitKey == Init => KInv
<1> SUFFICES ASSUME Init PROVE KInv
  OBVIOUS
<1>1. pc = "begin" /\ early = {} /\ saved1 = FALSE
  BY DEF Init
<1>2. QED
  BY <1>1 DEF KInv, BetweenRows, Summing, PivotKept, Clearing, Copying, Copied, KeyMade

LEMMA RunReadsKey == IInv /\ KInv /\ RunReads => KInv'
<1> SUFFICES ASSUME IInv, KInv, RunReads PROVE KInv'
  OBVIOUS
<1>1. /\ run.read \in Rows /\ run.read # NoRow
      /\ run'.read = NoRow /\ run'.write = run.write
      /\ acc'.loaded = mem[run.read] /\ acc'.mat = acc.mat
      /\ acc'.computed = acc.computed /\ acc'.writing = acc.writing
      /\ UNCHANGED <<mem, cache, pc, row, k, timesCalled, mask, saved1, saved2, copied, early, given, tries,
                     cfg>>
  BY DEF RunReads, cpu, IInv, TypeOK
<1>2. UNCHANGED <<given, row>>
  BY <1>1
<1> USE <1>2, SameRow
<1>3. BetweenRows'
  <2>1. Settled' = Settled
    BY <1>1 DEF Settled
  <2>2. QED
    BY <1>1, <2>1 DEF KInv, BetweenRows
<1>4. Summing'
  <2>1. CASE pc \in {"mask1", "loop1"}
    <3>1. k # row + 1
      BY <1>1, <2>1 DEF KInv, Summing, Idle
    <3>2. run.read = k - 1 /\ run.read > row /\ run.read # row
      BY <1>1, <2>1, <3>1 DEF KInv, Summing, IInv, RunRange, TypeOK, Rows
    <3>3. mem[run.read] = Matrix[k - 1]
      BY <1>1, <2>1, <3>2 DEF KInv, Summing
    <3>4. QED
      BY <1>1, <2>1, <3>1, <3>3 DEF KInv, Summing
  <2>2. CASE pc \notin {"mask1", "loop1"}
    BY <1>1, <2>2 DEF KInv, Summing
  <2>3. QED
    BY <2>1, <2>2
<1>5. PivotKept'
  BY <1>1 DEF KInv, PivotKept
<1>6. Clearing'
  <2>1. /\ Last1' = Last1 /\ Last2' = Last2 /\ Last3' = Last3
    BY <1>1 DEF Last1, Last2, Last3, Before
  <2>2. CASE pc \in {"mask2", "loop2", "clear"}
    <3>1. row \in Rows
      BY <2>2 DEF IInv, TypeOK, LoopRange, Rows
    <3>2. run.read = Last1 /\ Last1 > Last3 /\ Last1 # row
      BY <1>1, <2>2, <3>1, LastRows DEF KInv, Clearing
    <3>3. mem[run.read] = Matrix[Last1]
      BY <1>1, <2>2, <3>2 DEF KInv, Clearing
    <3>4. QED
      BY <1>1, <2>1, <2>2, <3>2, <3>3 DEF KInv, Clearing
  <2>3. CASE pc \notin {"mask2", "loop2", "clear"}
    BY <1>1, <2>3 DEF Clearing
  <2>4. QED
    BY <2>2, <2>3
<1>7. Copying'
  BY <1>1 DEF KInv, Copying, Copied, KeyMade, RowCopied
<1>8. QED
  BY <1>3, <1>4, <1>5, <1>6, <1>7 DEF KInv

LEMMA RunWritesKey == IInv /\ KInv /\ RunWrites => KInv'
<1> SUFFICES ASSUME IInv, KInv, RunWrites PROVE KInv'
  OBVIOUS
<1>1. /\ run.write \in Rows /\ run.write # NoRow
      /\ run'.write = NoRow /\ run'.read = run.read
      /\ mem' = [mem EXCEPT ![run.write] = acc.writing]
      /\ mem \in [Rows -> SUBSET Columns]
      /\ UNCHANGED <<acc, cache, pc, row, k, timesCalled, mask, saved1, saved2, copied, early, given, tries,
                     cfg>>
  BY DEF RunWrites, cpu, IInv, TypeOK, Matrices
<1>2. /\ mem'[run.write] = acc.writing
      /\ \A r \in Rows \ {run.write} : mem'[r] = mem[r]
  BY <1>1
<1>3. pc \notin {"begin", "mask1", "loop1", "check"}
  BY <1>1 DEF IInv, RunRange, LoopRange, Idle
<1>4. UNCHANGED <<given, row>>
  BY <1>1
<1> USE <1>4, SameRow
<1>5. BetweenRows'
  <2>1. \A r \in Rows : r # run'.write
    BY <1>1, NoRowOutside
  <2>2. Settled' = [r \in Rows |-> mem'[r]]
    BY <2>1 DEF Settled
  <2>3. Settled = [r \in Rows |-> mem'[r]]
    BY <1>2 DEF Settled
  <2>4. QED
    BY <1>1, <2>2, <2>3 DEF KInv, BetweenRows
<1>6. Summing'
  BY <1>1, <1>3 DEF KInv, Summing
<1>7. PivotKept'
  BY <1>1 DEF KInv, PivotKept
<1>8. Clearing'
  <2>1. /\ Last1' = Last1 /\ Last2' = Last2 /\ Last3' = Last3
    BY <1>1 DEF Last1, Last2, Last3, Before
  <2>2. CASE pc \in {"mask2", "loop2", "clear"}
    <3>1. row \in Rows
      BY <2>2 DEF IInv, TypeOK, LoopRange, Rows
    <3>2. run.write = Last3 /\ Last3 # row /\ Last3 # NoRow /\ Last3 \in Int
      BY <1>1, <2>2, <3>1, LastRows DEF KInv, Clearing
    <3>3. mem'[Last3] = Result(Last3)
      BY <1>1, <1>2, <2>2, <3>2 DEF KInv, Clearing
    <3>4. \A r \in Rows \ {row} :
            /\ r > Last3 => mem'[r] = Matrix[r]
            /\ r <= Last3 => mem'[r] = Result(r)
      <4> SUFFICES ASSUME NEW r \in Rows \ {row}
                   PROVE  /\ r > Last3 => mem'[r] = Matrix[r]
                          /\ r <= Last3 => mem'[r] = Result(r)
        OBVIOUS
      <4>1. CASE r = Last3
        BY <3>2, <3>3, <4>1
      <4>2. CASE r # Last3
        BY <1>2, <2>2, <3>2, <4>2 DEF KInv, Clearing
      <4>3. QED
        BY <4>1, <4>2
    <3>5. mem'[row] = mem[row]
      BY <1>2, <3>1, <3>2
    <3>6. \A r \in Rows : r # run'.write
      BY <1>1, NoRowOutside
    <3>7. QED
      BY <1>1, <2>1, <2>2, <3>2, <3>4, <3>5, <3>6 DEF KInv, Clearing
  <2>3. CASE pc \notin {"mask2", "loop2", "clear"}
    BY <1>1, <2>3 DEF Clearing
  <2>4. QED
    BY <2>2, <2>3
<1>9. Copying'
  BY <1>1 DEF KInv, Copying, Copied, KeyMade, RowCopied
<1>10. QED
  BY <1>5, <1>6, <1>7, <1>8, <1>9 DEF KInv

LEMMA GenerateKey == IInv /\ KInv /\ Generate => KInv'
<1> SUFFICES ASSUME IInv, KInv, Generate PROVE KInv'
  OBVIOUS
<1>1. PICK m \in Matrices :
        /\ given' = m /\ mem' = m /\ row' = 0 /\ pc' = "load"
        /\ UNCHANGED <<k, timesCalled, mask, saved1, saved2, acc, run, copied, early>>
  BY DEF Generate, Begin
<1>2. run' = [read |-> NoRow, write |-> NoRow] /\ early = {} /\ ~saved1
  BY <1>1 DEF Generate, IInv, LoopRange, Idle, KInv, Copying, Summing
<1>3. Settled' = m
  <2>1. \A r \in Rows : r # run'.write
    BY <1>2, NoRowOutside
  <2>2. Settled' = [r \in Rows |-> m[r]]
    BY <1>1, <2>1 DEF Settled
  <2>3. QED
    BY <2>2 DEF Matrices
<1>4. Matrix' = m
  BY <1>1, ReducedSteps DEF Matrix
<1>5. QED
  BY <1>1, <1>2, <1>3, <1>4
  DEF KInv, BetweenRows, Summing, PivotKept, Clearing, Copying, Copied, KeyMade

LEMMA LoadRowKey == IInv /\ KInv /\ LoadRow => KInv'
<1> SUFFICES ASSUME IInv, KInv, LoadRow PROVE KInv'
  OBVIOUS
<1>1. /\ pc = "load" /\ run = [read |-> NoRow, write |-> NoRow] /\ row \in Rows
      /\ pc' = "mask1" /\ k' = row + 1
      /\ acc' = [acc EXCEPT !.mat = View(row)]
      /\ UNCHANGED <<mem, row, timesCalled, mask, saved1, saved2, cfg, run, copied, early, given, tries>>
  BY DEF LoadRow, MayLoad, Idle, IInv, LoopRange, TypeOK, Rows
<1>2. UNCHANGED <<given, row>>
  BY <1>1
<1> USE <1>2, SameRow
<1>3. mem = Matrix
  <2>1. run.write = NoRow
    BY <1>1
  <2>2. Settled = Matrix
    BY <1>1 DEF KInv, BetweenRows
  <2>3. QED
    BY <2>1, <2>2, SettledIs
<1>4. View(row) = mem[row]
  <2>1. Coherent(row)
    BY <1>1 DEF IInv, CacheRange
  <2>2. QED
    BY <1>1, <2>1, ViewType DEF IInv
<1>5. acc'.mat = Matrix[row]
  BY <1>1, <1>3, <1>4 DEF IInv, TypeOK
<1>6. BetweenRows'
  BY <1>1 DEF KInv, BetweenRows
<1>7. Summing'
  <2>1. Partial(row) = Matrix[row] /\ (row + 1) - 1 = row
    BY <1>1, PartialIs, RowsColumns
  <2>2. Idle'
    BY <1>1 DEF Idle
  <2>3. ~saved1'
    BY <1>1 DEF KInv, Summing
  <2>4. mem'[row'] \cap InByte' = Partial(k - 1)' \cap InByte'
    BY <1>1, <1>3, <2>1
  <2>5. QED
    BY <1>1, <1>3, <1>5, <2>2, <2>3, <2>4 DEF Summing
<1>8. PivotKept' /\ Clearing'
  BY <1>1 DEF PivotKept, Clearing
<1>9. Copying'
  BY <1>1 DEF KInv, Copying, Copied, KeyMade
<1>10. QED
  BY <1>6, <1>7, <1>8, <1>9 DEF KInv

LEMMA Mask1Key == IInv /\ KInv /\ Mask1 => KInv'
<1> SUFFICES ASSUME IInv, KInv, Mask1 PROVE KInv'
  OBVIOUS
<1>1. /\ pc = "mask1" /\ row \in Rows /\ k \in Rows /\ k \in row + 1 .. PK_NROWS - 1
      /\ pc' = "loop1" /\ mask' = ((row \in View(row)) # (row \in View(k)))
      /\ UNCHANGED <<mem, row, k, timesCalled, saved1, saved2, cfg, acc, run, copied, early, given, tries>>
  BY DEF Mask1, IInv, LoopRange, TypeOK, Rows
<1>2. UNCHANGED <<given, row>>
  BY <1>1
<1> USE <1>2, SameRow
<1>3. View(row) = mem[row] /\ View(k) = mem[k]
  BY <1>1, ReadsAsStored
<1>4. mem[k] = Matrix[k]
  <2>1. k # row
    BY <1>1, RowsColumns
  <2>2. QED
    BY <1>1, <2>1 DEF KInv, Summing
<1>5. row \in mem[row] <=> row \in Partial(k - 1)
  <2>1. mem[row] \cap InByte = Partial(k - 1) \cap InByte
    BY <1>1 DEF KInv, Summing
  <2>2. QED
    BY <1>1, <2>1, RowInByte
<1>6. mask' <=> Differs(Matrix, row, Partial(k - 1), k)
  <2>1. mask' = ((row \in mem[row]) # (row \in Matrix[k]))
    BY <1>1, <1>3, <1>4, Zenon
  <2>2. (row \in mem[row]) = (row \in Partial(k - 1))
    BY <1>5
  <2>3. mask' = ((row \in Partial(k - 1)) # (row \in Matrix[k]))
    BY <2>1, <2>2, Zenon
  <2>4. QED
    BY <2>3, Zenon DEF Differs
<1>7. BetweenRows'
  BY <1>1 DEF KInv, BetweenRows
<1>8. Summing'
  <2>1. Idle' <=> Idle
    BY <1>1 DEF Idle
  <2>2. Partial(k - 1)' = Partial(k - 1) /\ Partial(k - 2)' = Partial(k - 2)
    BY <1>1 DEF Partial
  <2>3. QED
    BY <1>1, <1>6, <2>1, <2>2 DEF KInv, Summing
<1>9. PivotKept' /\ Clearing'
  BY <1>1 DEF PivotKept, Clearing
<1>10. Copying'
  BY <1>1 DEF KInv, Copying, Copied, KeyMade
<1>11. QED
  BY <1>7, <1>8, <1>9, <1>10 DEF KInv

(* What the accelerator has when the CPU is back for row k: all rows but    *)
(* the last are added, and that one is added by the run that begins now.    *)
LEMMA Summed ==
  ASSUME IInv, KInv, pc \in {"mask1", "loop1"}, Idle
  PROVE  /\ (IF k # row + 1 /\ saved1 THEN Xor(acc.mat, acc.loaded) ELSE acc.mat) = Partial(k - 1)
         /\ k = row + 1 => ~saved1
<1>1. row \in Rows /\ row \in Nat /\ k \in row + 1 .. PK_NROWS
  BY DEF IInv, LoopRange, TypeOK, Rows
<1>2. run.read = NoRow
  BY DEF Idle
<1>3. CASE k = row + 1
  <2>1. acc.mat = Matrix[row] /\ k - 1 = row
    BY <1>1, <1>3 DEF KInv, Summing
  <2>2. ~saved1
    BY <1>3 DEF KInv, Summing
  <2>3. QED
    BY <1>1, <1>3, <2>1, <2>2, PartialIs
<1>4. CASE k # row + 1
  <2>1. k - 1 \in row + 1 .. PK_NROWS - 1 /\ (k - 1) - 1 = k - 2
    BY <1>1, <1>4
  <2>2. /\ acc.mat = Partial(k - 2) /\ acc.loaded = Matrix[k - 1]
        /\ saved1 <=> Differs(Matrix, row, Partial(k - 2), k - 1)
    BY <1>2, <1>4 DEF KInv, Summing
  <2>3. Partial(k - 1) = IF Differs(Matrix, row, Partial(k - 2), k - 1)
                         THEN Xor(Partial(k - 2), Matrix[k - 1]) ELSE Partial(k - 2)
    BY <1>1, <2>1, PartialIs
  <2>4. QED
    BY <1>4, <2>2, <2>3
<1>5. QED
  BY <1>3, <1>4

LEMMA Loop1Is ==
  ASSUME IInv, NEW r \in Rows, NEW first \in BOOLEAN, NEW next \in BOOLEAN,
         Loop1(r, first, next)
  PROVE  /\ Idle
         /\ acc'.mat = IF ~first /\ saved1 THEN Xor(acc.mat, acc.loaded) ELSE acc.mat
         /\ run'.read = r
         /\ cfg'.mask <=> IF first THEN cfg.mask ELSE saved1
         /\ saved1' = next
<1> DEFINE config == [cfg EXCEPT !.read = r, !.in0_wr = ~first,
                                 !.mask = IF first THEN @ ELSE saved1]
<1>1. cfg \in [read : Rows \cup {NoRow}, write : Rows \cup {NoRow},
               in0_wr : BOOLEAN, mask : BOOLEAN] /\ saved1 \in BOOLEAN
  BY DEF IInv, TypeOK
<1>2. config.read = r /\ (config.in0_wr <=> ~first)
      /\ (config.mask <=> IF first THEN cfg.mask ELSE saved1)
  BY <1>1
<1>3. StartAccelerator(config) /\ saved1' = next /\ Idle
  BY DEF Loop1
<1> HIDE DEF config
<1>4. /\ acc'.mat = IF config.in0_wr /\ config.mask THEN Xor(acc.mat, acc.loaded) ELSE acc.mat
      /\ run'.read = config.read /\ cfg' = config
  BY <1>3, StartIs
<1>5. config.in0_wr /\ config.mask <=> ~first /\ saved1
  BY <1>2
<1>6. acc'.mat = IF ~first /\ saved1 THEN Xor(acc.mat, acc.loaded) ELSE acc.mat
  BY <1>4, <1>5
<1>7. QED
  BY <1>2, <1>3, <1>4, <1>6

LEMMA AddRowKey == IInv /\ KInv /\ AddRow => KInv'
<1> SUFFICES ASSUME IInv, KInv, AddRow PROVE KInv'
  OBVIOUS
<1>1. /\ pc = "loop1" /\ row \in Rows /\ row \in Nat /\ k \in Rows
      /\ k \in row + 1 .. PK_NROWS - 1
      /\ pc' = "mask1" /\ k' = k + 1
      /\ UNCHANGED <<row, timesCalled, mask, saved2, copied, early, given, tries>>
  BY RowsColumns DEF AddRow, IInv, LoopRange, TypeOK, Rows
<1>2. UNCHANGED <<given, row>>
  BY <1>1
<1> USE <1>2, SameRow
<1>3. mask \in BOOLEAN /\ (mask <=> Differs(Matrix, row, Partial(k - 1), k))
  BY <1>1 DEF KInv, Summing, IInv, TypeOK
<1>4. /\ Idle /\ run'.read = k /\ saved1' = mask
      /\ acc'.mat = IF k # row + 1 /\ saved1 THEN Xor(acc.mat, acc.loaded) ELSE acc.mat
  <2> DEFINE first == k = row + 1
  <2>1. Loop1(k, first, mask) /\ first \in BOOLEAN
    BY DEF AddRow
  <2> HIDE DEF first
  <2>2. /\ Idle /\ run'.read = k /\ saved1' = mask
        /\ acc'.mat = IF ~first /\ saved1 THEN Xor(acc.mat, acc.loaded) ELSE acc.mat
    BY <1>1, <1>3, <2>1, Loop1Is
  <2>3. QED
    BY <2>2 DEF first
<1>5. acc'.mat = Partial(k - 1)
  BY <1>1, <1>4, Summed
<1>6. k' - 1 = k /\ k' - 2 = k - 1 /\ k' # row + 1
  BY <1>1
<1>7. View(row) = mem[row] /\ View(k) = mem[k] /\ mem[k] = Matrix[k]
      /\ mem[k] \in SUBSET Columns /\ mem \in [Rows -> SUBSET Columns]
  <2>1. View(row) = mem[row] /\ View(k) = mem[k]
    BY <1>1, ReadsAsStored
  <2>2. k # row
    BY <1>1
  <2>3. mem[k] = Matrix[k]
    BY <1>1, <2>2 DEF KInv, Summing
  <2>4. mem \in [Rows -> SUBSET Columns]
    BY DEF IInv, TypeOK, Matrices
  <2>5. QED
    BY <1>1, <2>1, <2>3, <2>4
<1>8. mem' = [mem EXCEPT ![row] = IF mask THEN Xor(mem[row], Matrix[k] \cap InByte)
                                  ELSE mem[row]]
  BY <1>7, ByteIs DEF AddRow, CpuWrites
<1>9. \A r \in Rows \ {row} : mem'[r] = Matrix[r]
  <2>1. \A r \in Rows \ {row} : mem[r] = Matrix[r]
    BY <1>1 DEF KInv, Summing
  <2>2. QED
    BY <1>7, <1>8, <2>1
<1>10. mem'[row] \cap InByte = Partial(k) \cap InByte
  <2>1. mem'[row] = IF mask THEN Xor(mem[row], Matrix[k] \cap InByte) ELSE mem[row]
    BY <1>1, <1>7, <1>8
  <2>2. mem[row] \cap InByte = Partial(k - 1) \cap InByte
    BY <1>1 DEF KInv, Summing
  <2>3. Partial(k) = IF mask THEN Xor(Partial(k - 1), Matrix[k]) ELSE Partial(k - 1)
    BY <1>1, <1>3, PartialIs
  <2>4. Xor(mem[row], Matrix[k] \cap InByte) \cap InByte = Xor(Partial(k - 1), Matrix[k]) \cap InByte
    BY <2>2, ByteXor
  <2>5. QED
    BY <2>1, <2>2, <2>3, <2>4
<1>11. BetweenRows'
  BY <1>1 DEF KInv, BetweenRows
<1>12. Summing'
  <2>1. saved1' <=> Differs(Matrix, row, Partial(k - 1), k)
    BY <1>3, <1>4
  <2>2. Partial(k - 1)' = Partial(k) /\ Partial(k - 2)' = Partial(k - 1)
    BY <1>1, <1>6 DEF Partial
  <2>3. mem'[row'] \cap InByte' = Partial(k - 1)' \cap InByte'
    BY <1>1, <1>10, <2>2
  <2>4. \A r \in Rows \ {row'} : mem'[r] = Matrix'[r]
    BY <1>1, <1>9
  <2>5. run'.read \in {k' - 1, NoRow} /\ run'.read # NoRow
    BY <1>1, <1>4, <1>6, NoRowOutside
  <2>6. acc'.mat = Partial(k - 2)'
    BY <1>5, <1>6, <2>2
  <2>7. saved1' <=> Differs(Matrix, row, Partial(k - 2), k - 1)'
    BY <1>1, <1>6, <2>1 DEF Differs
  <2>8. QED
    BY <1>1, <1>6, <2>3, <2>4, <2>5, <2>6, <2>7 DEF Summing
<1>13. PivotKept' /\ Clearing'
  BY <1>1 DEF PivotKept, Clearing
<1>14. Copying'
  BY <1>1 DEF KInv, Copying, Copied, KeyMade
<1>15. QED
  BY <1>11, <1>12, <1>13, <1>14 DEF KInv

LEMMA AddLastRowKey == IInv /\ KInv /\ AddLastRow => KInv'
<1> SUFFICES ASSUME IInv, KInv, AddLastRow PROVE KInv'
  OBVIOUS
<1> DEFINE last == PK_NROWS - 1
<1>1. /\ pc = "mask1" /\ row \in Rows /\ row \in Nat /\ k = PK_NROWS /\ last \in Rows
      /\ pc' = "check"
      /\ UNCHANGED <<mem, cache, row, k, timesCalled, mask, saved2, copied, early, given, tries>>
  BY DEF AddLastRow, IInv, LoopRange, TypeOK, Rows
<1>2. UNCHANGED <<given, row>>
  BY <1>1
<1> USE <1>2, SameRow
<1>3. Loop1(last, FALSE, FALSE)
  BY DEF AddLastRow
<1> HIDE DEF last
<1>4. /\ Idle
      /\ acc'.mat = IF saved1 THEN Xor(acc.mat, acc.loaded) ELSE acc.mat
      /\ cfg'.mask <=> saved1
      /\ saved1' = FALSE
  BY <1>1, <1>3, Loop1Is
<1>5. acc'.mat = Pivoted
  <2>1. k = row + 1 => ~saved1
    BY <1>1, <1>4, Summed
  <2>2. (IF k # row + 1 /\ saved1 THEN Xor(acc.mat, acc.loaded) ELSE acc.mat) = Partial(k - 1)
    BY <1>1, <1>4, Summed
  <2>3. Partial(k - 1) = Pivoted
    BY <1>1, PartialIs
  <2>4. QED
    BY <1>4, <2>1, <2>2, <2>3
<1>6. BetweenRows'
  BY <1>1 DEF KInv, BetweenRows
<1>7. Summing'
  <2>1. \A r \in Rows \ {row} : mem[r] = Matrix[r]
    BY <1>1 DEF KInv, Summing
  <2>2. mem[row] \cap InByte = Partial(k - 1) \cap InByte
    BY <1>1 DEF KInv, Summing
  <2>3. Partial(k - 1)' = Partial(k - 1)
    BY <1>1
  <2>4. QED
    BY <1>1, <1>4, <1>5, <2>1, <2>2, <2>3 DEF Summing
<1>8. PivotKept'
  <2>1. PK_NROWS = 1 => k = row + 1
    BY <1>1 DEF Rows
  <2>2. k = row + 1 => ~saved1
    BY <1>1, <1>4, Summed
  <2>3. QED
    BY <1>1, <1>4, <2>1, <2>2 DEF PivotKept
<1>9. Clearing'
  BY <1>1 DEF Clearing
<1>10. Copying'
  BY <1>1 DEF KInv, Copying, Copied, KeyMade
<1>11. QED
  BY <1>6, <1>7, <1>8, <1>9, <1>10 DEF KInv

(* What the CPU sees of the pivot row when it looks for the pivot.          *)
LEMMA PivotSeen ==
  ASSUME IInv, KInv, pc = "check"
  PROVE  /\ row \in Rows /\ row \in Nat /\ acc.mat = Pivoted
         /\ View(row) = mem[row]
         /\ row \in mem[row] <=> row \in Pivoted
<1>1. row \in Rows /\ row \in Nat
  BY DEF IInv, LoopRange, TypeOK, Rows
<1>2. k = PK_NROWS /\ acc.mat = Pivoted /\ mem[row] \cap InByte = Partial(k - 1) \cap InByte
  BY DEF KInv, Summing
<1>3. Partial(PK_NROWS - 1) = Pivoted
  BY <1>1, PartialIs
<1>4. QED
  BY <1>1, <1>2, <1>3, RowInByte, ReadsAsStored

LEMMA FailKey == IInv /\ KInv /\ Fail => KInv'
<1> SUFFICES ASSUME IInv, KInv, Fail PROVE KInv'
  OBVIOUS
<1>1. /\ pc = "check" /\ pc' \in {"begin", "stopped"}
      /\ UNCHANGED <<mem, row, k, timesCalled, mask, saved1, saved2, cfg, acc, run, copied, early, given,
                     tries>>
  BY DEF Fail
<1>2. row # PK_NROWS /\ early' = {} /\ ~saved1'
  BY <1>1 DEF KInv, Copying, Summing, IInv, LoopRange, TypeOK
<1>3. QED
  BY <1>1, <1>2 DEF KInv, BetweenRows, Summing, PivotKept, Clearing, Copying, Copied, KeyMade

LEMMA ReadRowKey == IInv /\ KInv /\ ReadRow => KInv'
<1> SUFFICES ASSUME IInv, KInv, ReadRow PROVE KInv'
  OBVIOUS
<1>1. /\ pc = "check" /\ run = [read |-> NoRow, write |-> NoRow] /\ row \in View(row)
      /\ mem' = [mem EXCEPT ![row] = acc.mat]
      /\ k' = 0 /\ timesCalled' = 0 /\ pc' = "mask2"
      /\ UNCHANGED <<row, mask, saved1, saved2, cfg, acc, run, copied, early, given, tries>>
  BY DEF ReadRow, CpuWrites, Idle
<1>2. UNCHANGED <<given, row>>
  BY <1>1
<1> USE <1>2, SameRow
<1>3. row \in Rows /\ row \in Nat /\ acc.mat = Pivoted /\ row \in Pivoted
  BY <1>1, PivotSeen
<1>4. mem'[row] = Pivoted /\ \A r \in Rows \ {row} : mem'[r] = Matrix[r]
  <2>1. \A r \in Rows \ {row} : mem[r] = Matrix[r]
    BY <1>1 DEF KInv, Summing
  <2>2. mem \in [Rows -> SUBSET Columns]
    BY DEF IInv, TypeOK, Matrices
  <2>3. QED
    BY <1>1, <1>3, <2>1, <2>2
<1>5. Last1' = -1 /\ Last2' = -2 /\ Last3' = -3
  BY <1>1, <1>3 DEF Last1, Last2, Last3, Before
<1>6. BetweenRows'
  BY <1>1 DEF KInv, BetweenRows
<1>7. Summing'
  BY <1>1 DEF KInv, Summing
<1>8. PivotKept'
  BY <1>1 DEF KInv, PivotKept
<1>9. Clearing'
  <2>1. run'.read = NoRow /\ run'.write = NoRow
    BY <1>1
  <2>2. -1 \notin Rows /\ -2 \notin Rows /\ -3 \notin Rows /\ ~(row < 0)
        /\ \A r \in Rows : r > -3
    BY <1>3 DEF Rows
  <2>3. QED
    BY <1>1, <1>3, <1>4, <1>5, <2>1, <2>2 DEF Clearing
<1>10. Copying'
  BY <1>1 DEF KInv, Copying, Copied, KeyMade
<1>11. QED
  BY <1>6, <1>7, <1>8, <1>9, <1>10 DEF KInv

LEMMA SkipRowKey == IInv /\ KInv /\ SkipRow => KInv'
<1> SUFFICES ASSUME IInv, KInv, SkipRow PROVE KInv'
  OBVIOUS
<1>1. /\ pc = "mask2" /\ k = row /\ row \in Rows /\ row \in Nat /\ k' = k + 1
      /\ UNCHANGED <<mem, cache, pc, row, timesCalled, mask, saved1, saved2, cfg, acc, run, copied, early,
                     given, tries>>
  BY DEF SkipRow, IInv, LoopRange, TypeOK, Rows
<1>2. UNCHANGED <<given, row>>
  BY <1>1
<1> USE <1>2, SameRow
<1>3. Last1' = Last1 /\ Last2' = Last2 /\ Last3' = Last3
  BY <1>1 DEF Last1, Last2, Last3, Before
<1>4. BetweenRows' /\ Summing' /\ PivotKept'
  BY <1>1 DEF KInv, BetweenRows, Summing, PivotKept
<1>5. Clearing'
  <2>1. timesCalled' = IF row < k' THEN k' - 1 ELSE k'
    BY <1>1 DEF KInv, Clearing
  <2>2. QED
    BY <1>1, <1>3, <2>1 DEF KInv, Clearing
<1>6. Copying'
  BY <1>1 DEF KInv, Copying, Copied, KeyMade
<1>7. QED
  BY <1>4, <1>5, <1>6 DEF KInv

LEMMA Mask2Key == IInv /\ KInv /\ Mask2 => KInv'
<1> SUFFICES ASSUME IInv, KInv, Mask2 PROVE KInv'
  OBVIOUS
<1>1. /\ pc = "mask2" /\ k # row /\ row \in Rows /\ k \in Nat
      /\ pc' = "loop2" /\ mask' = (k < PK_NROWS /\ row \in View(k))
      /\ UNCHANGED <<mem, row, k, timesCalled, saved1, saved2, cfg, acc, run, copied, early, given, tries>>
  BY DEF Mask2, IInv, LoopRange, TypeOK, Rows
<1>2. UNCHANGED <<given, row>>
  BY <1>1
<1> USE <1>2, SameRow
<1>3. Last1' = Last1 /\ Last2' = Last2 /\ Last3' = Last3
  BY <1>1 DEF Last1, Last2, Last3, Before
<1>4. k < PK_NROWS => View(k) = Matrix[k]
  <2> SUFFICES ASSUME k < PK_NROWS PROVE View(k) = Matrix[k]
    OBVIOUS
  <2>1. k \in Rows /\ k >= k - 1
    BY <1>1 DEF Rows
  <2>2. Coherent(k)
    BY <1>1, <2>1 DEF IInv, CacheRange
  <2>3. k > Last3
    BY <1>1, LastRows
  <2>4. mem[k] = Matrix[k]
    BY <1>1, <2>1, <2>3 DEF KInv, Clearing
  <2>5. QED
    BY <2>1, <2>2, <2>4, ViewType DEF IInv
<1>5. mask' <=> k < PK_NROWS /\ row \in Matrix[k]
  BY <1>1, <1>4
<1>6. BetweenRows' /\ Summing' /\ PivotKept'
  BY <1>1 DEF KInv, BetweenRows, Summing, PivotKept
<1>7. Clearing'
  BY <1>1, <1>3, <1>5 DEF KInv, Clearing
<1>8. Copying'
  BY <1>1 DEF KInv, Copying, Copied, KeyMade
<1>9. QED
  BY <1>6, <1>7, <1>8 DEF KInv

(* The calls made before the one for row k, by the rows that they had.      *)
LEMMA CallsMade ==
  ASSUME IInv, KInv, pc \in {"mask2", "loop2"}, row \in Rows, k # row
  PROVE  /\ timesCalled >= 1 /\ ToCompute \in Rows <=> Last1 \in Rows
         /\ timesCalled >= 2 /\ ToWrite >= 0 <=> Last2 >= 0
         /\ ToWrite = Last2 /\ ToCompute = Last1
         /\ timesCalled = 0 => k <= 1 /\ (k = 1 => row = 0)
<1>1. /\ row \in Nat /\ k \in Nat
      /\ timesCalled = IF row < k THEN k - 1 ELSE k
  BY LastRows DEF KInv, Clearing
<1>2. ToCompute = Last1 /\ ToWrite = Last2
  BY DEF ToCompute, ToWrite, Last1, Last2
<1>3. Last1 >= 0 => timesCalled >= 1
  BY <1>1 DEF Last1, Before
<1>4. Last2 >= 0 => timesCalled >= 2
  BY <1>1 DEF Last2, Last1, Before
<1>5. Last1 \in Rows => Last1 >= 0
  BY DEF Rows
<1>6. timesCalled = 0 => k <= 1 /\ (k = 1 => row = 0)
  BY <1>1
<1>7. QED
  BY <1>2, <1>3, <1>4, <1>5, <1>6

LEMMA Loop2Key == IInv /\ KInv /\ Loop2 => KInv'
<1> SUFFICES ASSUME IInv, KInv, Loop2 PROVE KInv'
  OBVIOUS
<1> DEFINE reads    == k < PK_NROWS
           computes == timesCalled >= 1 /\ ToCompute \in Rows
           writes   == timesCalled >= 2 /\ ToWrite >= 0
           config   == [read   |-> IF reads THEN k ELSE NoRow,
                        in0_wr |-> IF reads THEN FALSE ELSE cfg.in0_wr,
                        mask   |-> IF computes THEN saved2 ELSE cfg.mask,
                        write  |-> IF writes THEN ToWrite ELSE NoRow]
<1>1. /\ pc = "loop2" /\ run = [read |-> NoRow, write |-> NoRow] /\ StartAccelerator(config)
      /\ saved2' = mask /\ k' = k + 1 /\ timesCalled' = timesCalled + 1
      /\ pc' = IF k = LastCall THEN "clear" ELSE "mask2"
      /\ UNCHANGED <<mem, cache, row, mask, saved1, copied, early, given, tries>>
  BY DEF Loop2, Idle
<1>2. UNCHANGED <<given, row>>
  BY <1>1
<1>3. row \in Rows /\ row \in Nat /\ k \in 0 .. PK_NROWS + 1 /\ k \in Nat /\ k # row
  BY <1>1 DEF IInv, LoopRange, TypeOK, Rows
<1>4. /\ computes <=> Last1 \in Rows
      /\ writes <=> Last2 >= 0
      /\ ToWrite = Last2
      /\ timesCalled = 0 => k <= 1 /\ (k = 1 => row = 0)
  BY <1>1, <1>3, CallsMade
<1>5. cfg.in0_wr \in BOOLEAN /\ cfg.mask \in BOOLEAN /\ saved2 \in BOOLEAN /\ mask \in BOOLEAN
  BY DEF IInv, TypeOK
<1> HIDE DEF computes, writes
<1>6. /\ config.read = IF reads THEN k ELSE NoRow
      /\ config.write = IF writes THEN Last2 ELSE NoRow
      /\ config.in0_wr <=> ~reads /\ cfg.in0_wr
      /\ config.mask <=> IF computes THEN saved2 ELSE cfg.mask
  BY <1>4, <1>5
<1> HIDE DEF config
<1>7. /\ acc'.mat = IF config.in0_wr /\ config.mask THEN Xor(acc.mat, acc.loaded) ELSE acc.mat
      /\ acc'.computed = IF config.mask THEN Xor(acc.loaded, acc.mat) ELSE acc.loaded
      /\ acc'.writing = acc.computed
      /\ run'.read = config.read /\ run'.write = config.write /\ cfg' = config
  BY <1>1, StartIs
<1>8. /\ Last1' = k /\ Last2' = Last1 /\ Last3' = Last2
  <2>1. k' - 1 = k
    BY <1>1, <1>3
  <2>2. Before(k)' = k
    BY <1>1, <1>2, <1>3, <2>1 DEF Before
  <2>3. Last1' = k
    BY <2>2 DEF Last1
  <2>4. Last2' = Last1
    BY <1>2, <2>3 DEF Last2, Last1, Before
  <2>5. Last3' = Last2
    BY <1>2, <2>4 DEF Last3, Last2, Before
  <2>6. QED
    BY <2>3, <2>4, <2>5
<1>9. /\ Last3 < Last2 /\ Last2 < Last1 /\ Last1 < k /\ Last1 \in Int /\ Last2 \in Int
      /\ Last3 \in Int /\ row \notin {Last1, Last2, Last3} /\ NoRow \notin {Last1, Last2, Last3}
      /\ Last1 >= k - 2
  BY <1>3, LastRows
<1> USE <1>2, SameRow
<1>10. acc.mat = Pivoted /\ row \in Pivoted /\ mem[row] = Pivoted
       /\ timesCalled = IF row < k THEN k - 1 ELSE k
  BY <1>1 DEF KInv, Clearing
<1>11. ~(config.in0_wr /\ config.mask) /\ (~config.in0_wr \/ (~config.mask /\ PK_NROWS = 1))
  <2>1. \/ ~cfg.in0_wr
        \/ ~cfg.mask /\ PK_NROWS = 1
        \/ timesCalled = 0 /\ PK_NROWS # 1
    BY <1>1 DEF KInv, PivotKept
  <2>2. CASE ~cfg.in0_wr
    BY <1>6, <2>2
  <2>3. CASE ~cfg.mask /\ PK_NROWS = 1
    <3>1. row = 0 /\ ~(Last1 \in Rows)
      BY <1>3, <1>9, <2>3 DEF Rows
    <3>2. ~computes
      BY <1>4, <3>1
    <3>3. QED
      BY <1>6, <2>3, <3>2
  <2>4. CASE timesCalled = 0 /\ PK_NROWS # 1
    <3>1. k <= 1 /\ PK_NROWS > 1
      BY <1>4, <2>4
    <3>2. reads
      BY <1>3, <3>1
    <3>3. QED
      BY <1>6, <3>2
  <2>5. QED
    BY <2>1, <2>2, <2>3, <2>4
<1>12. acc'.mat = Pivoted
  BY <1>7, <1>10, <1>11
<1>13. Last1 \in Rows => acc'.computed = Result(Last1)
  <2> SUFFICES ASSUME Last1 \in Rows PROVE acc'.computed = Result(Last1)
    OBVIOUS
  <2>1. acc.loaded = Matrix[Last1] /\ (saved2 <=> row \in Matrix[Last1])
    BY <1>1 DEF KInv, Clearing
  <2>2. config.mask <=> row \in Matrix[Last1]
    BY <1>4, <1>6, <2>1
  <2>3. acc'.computed = IF row \in Matrix[Last1] THEN Xor(Matrix[Last1], Pivoted)
                        ELSE Matrix[Last1]
    BY <1>7, <1>10, <2>1, <2>2
  <2>4. QED
    BY <1>9, <2>3, ResultIs
<1>14. Last2 \in Rows => acc'.writing = Result(Last2)
  BY <1>1, <1>7 DEF KInv, Clearing
<1>15. /\ run'.read \in {k, NoRow} /\ (run'.read = NoRow => k \notin Rows)
       /\ run'.write \in {Last2, NoRow}
       /\ run'.write = NoRow => ~(Last2 >= 0)
  BY <1>3, <1>4, <1>6, <1>7, <1>9, NoRowOutside DEF Rows
<1>16. ASSUME NEW r \in Rows \ {row}
       PROVE  /\ r > Last2 \/ r = run'.write => mem[r] = Matrix[r]
              /\ r <= Last2 /\ r # run'.write => mem[r] = Result(r)
  <2>1. r \in Nat /\ run.write = NoRow /\ r # NoRow
    BY <1>1, NoRowOutside
  <2>2. /\ r > Last3 => mem[r] = Matrix[r]
        /\ r <= Last3 => mem[r] = Result(r)
    BY <1>1, <2>1 DEF KInv, Clearing
  <2>3. r > Last2 \/ r = run'.write => r > Last3
    BY <1>9, <1>15, <2>1
  <2>4. r <= Last2 /\ r # run'.write => r <= Last3
    <3> SUFFICES ASSUME r <= Last2, r # run'.write PROVE r <= Last3
      OBVIOUS
    <3>1. Last2 >= 0 /\ r # Last2
      BY <1>9, <1>15, <2>1
    <3>2. r < Last2 /\ r # row
      BY <1>9, <2>1, <3>1
    <3>3. QED
      BY <1>3, <1>9, <2>1, <3>2, RowBeforeIs DEF Last3
  <2>5. QED
    BY <2>2, <2>3, <2>4
<1>17. BetweenRows'
  BY <1>1 DEF KInv, BetweenRows
<1>18. Summing'
  BY <1>1 DEF KInv, Summing
<1>19. PivotKept'
  BY <1>1, <1>7, <1>11 DEF PivotKept
<1>20. Clearing'
  <2>1. timesCalled' = IF row' < k' THEN k' - 1 ELSE k'
    BY <1>1, <1>3, <1>10
  <2>2. Last1' \in Rows => (saved2' <=> row \in Matrix[k])
    <3>1. mask <=> k < PK_NROWS /\ row \in Matrix[k]
      BY <1>1 DEF KInv, Clearing
    <3>2. QED
      BY <1>1, <1>8, <3>1 DEF Rows
  <2>3. pc' = "clear" => k' = PK_NROWS + 2
    BY <1>1, <1>3 DEF LastCall
  <2>4. pc' \in {"mask2", "clear"} /\ mem' = mem /\ row' = row
    BY <1>1
  <2>5. /\ row \in Pivoted' /\ mem'[row'] = Pivoted'
        /\ run'.read \in {Last1', NoRow} /\ run'.write \in {Last3', NoRow}
        /\ run'.read = NoRow /\ Last1' \in Rows => acc'.loaded = Matrix'[Last1']
    BY <1>8, <1>10, <1>15, <2>4
  <2>6. Last2' \in Rows => acc'.computed = Result(Last2)'
    <3>1. Result(Last2)' = Result(Last1)
      BY <1>2, <1>8, SameRow DEF Result
    <3>2. QED
      BY <1>8, <1>13, <3>1
  <2>7. Last3' \in Rows /\ run'.write = Last3' => acc'.writing = Result(Last3)'
    <3>1. Result(Last3)' = Result(Last2)
      BY <1>2, <1>8, SameRow DEF Result
    <3>2. QED
      BY <1>8, <1>14, <3>1
  <2>8. \A r \in Rows \ {row'} :
            /\ r > Last3' \/ r = run'.write => mem'[r] = Matrix'[r]
            /\ r <= Last3' /\ r # run'.write => mem'[r] = Result(r)'
    BY <1>8, <1>16, <2>4
  <2>9. QED
    BY <1>8, <1>12, <2>1, <2>2, <2>3, <2>4, <2>5, <2>6, <2>7, <2>8 DEF Clearing
<1>21. Copying'
  BY <1>1 DEF KInv, Copying, Copied, KeyMade
<1>22. QED
  BY <1>17, <1>18, <1>19, <1>20, <1>21 DEF KInv

LEMMA ClearCacheKey == IInv /\ KInv /\ ClearCache => KInv'
<1> SUFFICES ASSUME IInv, KInv, ClearCache PROVE KInv'
  OBVIOUS
<1>1. /\ pc = "clear" /\ row \in Rows /\ row \in Nat /\ k = PK_NROWS + 2
      /\ row' = row + 1 /\ k' = 0
      /\ pc' = IF row + 1 = PK_NROWS THEN "copy" ELSE "load"
      /\ UNCHANGED <<mem, timesCalled, mask, saved1, saved2, acc, run, copied, early, given, tries>>
  BY DEF ClearCache, IInv, LoopRange, TypeOK, Rows, KInv, Clearing
<1>2. row \in Pivoted
  BY <1>1 DEF KInv, Clearing
<1>3. Last3 = Before(PK_NROWS) /\ Last3 # row
  <2>1. Last1 = PK_NROWS + 1
    BY <1>1 DEF Last1, Before, Rows
  <2>2. Last2 = PK_NROWS
    BY <1>1, <2>1 DEF Last2, Before, Rows
  <2>3. QED
    BY <1>1, <2>2, LastRows DEF Last3
<1>4. ASSUME NEW r \in Rows, r # row
      PROVE  (IF r = run.write THEN acc.writing ELSE mem[r]) = Result(r)
  <2>1. r <= Last3
    <3>1. r \in Int /\ r < PK_NROWS /\ PK_NROWS \in Int
      BY DEF Rows
    <3>2. QED
      BY <1>1, <1>3, <1>4, <3>1, RowBeforeIs
  <2>2. r # run.write => mem[r] = Result(r)
    BY <1>1, <1>4, <2>1 DEF KInv, Clearing
  <2>3. r = run.write => run.write = Last3 /\ acc.writing = Result(r)
    BY <1>1, NoRowOutside DEF KInv, Clearing
  <2>4. QED
    BY <2>2, <2>3
<1>5. (IF row = run.write THEN acc.writing ELSE mem[row]) = Pivoted
  <2>1. run.write \in {Last3, NoRow} /\ mem[row] = Pivoted
    BY <1>1 DEF KInv, Clearing
  <2>2. row # run.write
    BY <1>1, <1>3, <2>1, NoRowOutside
  <2>3. QED
    BY <2>1, <2>2
<1>6. Settled = Clear(Matrix, row, Pivoted)
  <2>1. Result(row) = Pivoted
    BY <1>1 DEF Result, Clear
  <2>2. \A r \in Rows : (IF r = run.write THEN acc.writing ELSE mem[r]) = Result(r)
    BY <1>4, <1>5, <2>1
  <2>3. Clear(Matrix, row, Pivoted) = [r \in Rows |-> Result(r)]
    BY DEF Result, Clear
  <2>4. Settled = [r \in Rows |-> Result(r)]
    BY <2>2 DEF Settled
  <2>5. QED
    BY <2>3, <2>4
<1>7. Matrix' = Settled
  <2>1. given \in Matrices
    BY DEF IInv, TypeOK
  <2>2. Reduced(given)[row + 1] = Step(Matrix, row)
    BY <1>1, <2>1, ReducedSteps DEF Matrix
  <2>3. Step(Matrix, row) = Clear(Matrix, row, Pivoted)
    BY <1>2 DEF Step, Pivoted
  <2>4. QED
    BY <1>1, <1>6, <2>2, <2>3 DEF Matrix
<1>8. Settled' = Settled
  BY <1>1 DEF Settled
<1>9. BetweenRows'
  BY <1>1, <1>7, <1>8 DEF KInv, BetweenRows
<1>10. Summing' /\ PivotKept' /\ Clearing'
  BY <1>1 DEF KInv, Summing, PivotKept, Clearing
<1>11. Copying'
  <2>1. early' = {} /\ Copied' = {}
    BY <1>1 DEF KInv, Copying, Copied, KeyMade
  <2>2. CASE pc' = "copy"
    <3>1. row = PK_NROWS - 1 /\ row + 1 = PK_NROWS
      BY <1>1, <2>2
    <3>2. run.write \in {PK_NROWS - 2, NoRow}
      <4>1. Before(PK_NROWS) = PK_NROWS - 2
        BY <3>1 DEF Before
      <4>2. QED
        BY <1>1, <1>3, <4>1 DEF KInv, Clearing
    <3>3. run.write # NoRow => mem[run.write] = Matrix[run.write]
      <4>1. run.write # NoRow => run.write \in Rows \ {row}
        BY <1>1, <1>3 DEF KInv, Clearing, IInv, TypeOK
      <4>2. QED
        BY <1>1, <4>1 DEF KInv, Clearing
    <3>4. Matrix = Reduced(given)[PK_NROWS - 1]
      BY <3>1 DEF Matrix
    <3>5. PK_NROWS - 1 \in Reduced(given)[PK_NROWS][PK_NROWS - 1]
      <4>1. Reduced(given)[PK_NROWS] = Clear(Matrix, row, Pivoted)
        BY <1>1, <1>6, <1>7, <3>1 DEF Matrix
      <4>2. Clear(Matrix, row, Pivoted)[row] = Pivoted
        BY <1>1 DEF Clear
      <4>3. QED
        BY <1>2, <3>1, <4>1, <4>2
    <3>6. given' = given /\ run' = run /\ mem' = mem
      BY <1>1
    <3>7. QED
      BY <2>1, <2>2, <3>2, <3>3, <3>4, <3>5, <3>6 DEF Copying
  <2>3. CASE pc' # "copy"
    BY <1>1, <2>1, <2>3 DEF Copying, KeyMade
  <2>4. QED
    BY <2>2, <2>3
<1>12. QED
  BY <1>9, <1>10, <1>11 DEF KInv

LEMMA CopyRowKey == IInv /\ KInv /\ CopyRow => KInv'
<1> SUFFICES ASSUME IInv, KInv, CopyRow PROVE KInv'
  OBVIOUS
<1>1. /\ pc = "copy" /\ row = PK_NROWS /\ k \in Rows /\ k \in Nat
      /\ k' = k + 1 /\ pc' = IF k + 1 = PK_NROWS THEN "stopped" ELSE "copy"
      /\ early' = early \cup ({k} \cap {run.write})
      /\ UNCHANGED <<mem, row, timesCalled, mask, saved1, saved2, cfg, acc, run, given, tries>>
  BY RowsColumns DEF CopyRow, IInv, LoopRange
<1>2. PICK seen \in Seen(k) : copied' = [copied EXCEPT ![k] = seen]
  BY DEF CopyRow
<1>3. copied'[k] = seen /\ \A r \in Rows \ {k} : copied'[r] = copied[r]
  BY <1>1, <1>2 DEF IInv, TypeOK, Matrices
<1>4. View(k) = mem[k]
  <2>1. k >= k
    BY <1>1
  <2>2. Coherent(k)
    BY <1>1, <2>1 DEF IInv, CacheRange
  <2>3. QED
    BY <1>1, <2>2, ViewType DEF IInv
<1>5. (IF k = run.write THEN acc.writing ELSE mem[k]) = Reduced(given)[PK_NROWS][k]
  <2>1. Settled = Reduced(given)[PK_NROWS]
    BY <1>1 DEF KInv, BetweenRows, Matrix
  <2>2. Settled[k] = IF k = run.write THEN acc.writing ELSE mem[k]
    BY <1>1 DEF Settled
  <2>3. QED
    BY <2>1, <2>2
<1>6. k \notin early
  BY <1>1 DEF KInv, Copying
<1>7. ASSUME NEW r, r = k PROVE RowCopied(r)'
  <2>1. CASE run.write = k
    <3>1. k \in early' /\ k = PK_NROWS - 2
      BY <1>1, <2>1, NoRowOutside DEF KInv, Copying
    <3>2. mem[k] = Reduced(given)[PK_NROWS - 1][k]
      BY <1>1, <2>1, NoRowOutside DEF KInv, Copying
    <3>3. seen \in Mixes(Reduced(given)[PK_NROWS - 1][k], Reduced(given)[PK_NROWS][k])
      BY <1>4, <1>5, <2>1, <3>2 DEF Seen
    <3>4. copied'[r] = seen /\ r \in early' /\ r = PK_NROWS - 2 /\ given' = given
      BY <1>1, <1>3, <1>7, <3>1
    <3>5. seen \in Mixes(Reduced(given)[PK_NROWS - 1][r], Reduced(given)[PK_NROWS][r])
      BY <1>7, <3>3
    <3>6. QED
      BY <3>4, <3>5 DEF RowCopied, Mixes
  <2>2. CASE run.write # k
    <3>1. k \notin early' /\ seen = Reduced(given)[PK_NROWS][k]
      BY <1>1, <1>4, <1>5, <1>6, <2>2 DEF Seen
    <3>2. copied'[r] = Reduced(given)[PK_NROWS][r] /\ r \notin early' /\ given' = given
      BY <1>1, <1>3, <1>7, <3>1
    <3>3. QED
      BY <3>2 DEF RowCopied
  <2>3. QED
    BY <2>1, <2>2
<1>8. ASSUME NEW r \in 0 .. k - 1 PROVE RowCopied(r)'
  <2>1. r \in Rows \ {k}
    BY <1>1 DEF Rows
  <2>2. RowCopied(r)
    BY <1>1 DEF KInv, Copying, Copied
  <2>3. copied'[r] = copied[r] /\ (r \in early' <=> r \in early) /\ given' = given
    BY <1>1, <1>3, <2>1
  <2>4. QED
    BY <2>2, <2>3 DEF RowCopied, Mixes
<1>9. Copied' = 0 .. k
  <2>1. CASE k + 1 = PK_NROWS
    BY <1>1, <2>1 DEF Copied, KeyMade, Rows
  <2>2. CASE k + 1 # PK_NROWS
    BY <1>1, <2>2 DEF Copied
  <2>3. QED
    BY <2>1, <2>2
<1>10. Copying'
  <2>1. \A r \in Copied' : RowCopied(r)'
    <3>1. \A r \in 0 .. k : r = k \/ r \in 0 .. k - 1
      BY <1>1
    <3>2. QED
      BY <1>7, <1>8, <1>9, <3>1
  <2>2. early \subseteq 0 .. k - 1
    BY <1>1 DEF KInv, Copying
  <2>3. early' \subseteq 0 .. k' - 1
    BY <1>1, <2>2
  <2>4. PK_NROWS - 1 \in Reduced(given')[PK_NROWS][PK_NROWS - 1]
    BY <1>1 DEF KInv, Copying
  <2>5. QED
    BY <1>1, <2>1, <2>3, <2>4 DEF KInv, Copying
<1>11. BetweenRows'
  <2>1. Settled' = Settled /\ Matrix' = Matrix
    BY <1>1 DEF Settled, Matrix
  <2>2. QED
    BY <1>1, <2>1 DEF KInv, BetweenRows
<1>12. Summing' /\ PivotKept' /\ Clearing'
  BY <1>1 DEF KInv, Summing, PivotKept, Clearing
<1>13. QED
  BY <1>10, <1>11, <1>12 DEF KInv

LEMMA StutterKey == IInv /\ KInv /\ UNCHANGED vars => KInv'
<1> SUFFICES ASSUME IInv, KInv, UNCHANGED vars PROVE KInv'
  OBVIOUS
<1>1. UNCHANGED <<mem, pc, row, k, timesCalled, mask, saved1, saved2, cfg, acc, run, copied, early, given>>
  BY DEF vars, cpu
<1>2. /\ Last1' = Last1 /\ Last2' = Last2 /\ Last3' = Last3 /\ Settled' = Settled
      /\ Idle' <=> Idle
  BY <1>1 DEF Last1, Last2, Last3, Before, Settled, Idle
<1>3. UNCHANGED <<given, row>>
  BY <1>1
<1>4. /\ Matrix' = Matrix /\ Pivoted' = Pivoted /\ InByte' = InByte
      /\ \A j : Partial(j)' = Partial(j)
      /\ \A r : Result(r)' = Result(r)
  BY <1>3, SameRow
<1>5. BetweenRows' /\ PivotKept'
  BY <1>1, <1>2, <1>4 DEF KInv, BetweenRows, PivotKept
<1>6. Summing'
  BY <1>1, <1>2, <1>4 DEF KInv, Summing
<1>7. Clearing'
  BY <1>1, <1>2, <1>4 DEF KInv, Clearing
<1>8. Copying'
  BY <1>1 DEF KInv, Copying, Copied, KeyMade, RowCopied
<1>9. QED
  BY <1>5, <1>6, <1>7, <1>8 DEF KInv

LEMMA NextKey == IInv /\ KInv /\ [Next]_vars => KInv'
  BY RunReadsKey, RunWritesKey, GenerateKey, LoadRowKey, Mask1Key, AddRowKey, AddLastRowKey,
     FailKey, ReadRowKey, SkipRowKey, Mask2Key, Loop2Key, ClearCacheKey, CopyRowKey, StutterKey
  DEF Next, Accelerator, Cpu, Stopped

LEMMA KeyInvariance == Spec => [](IInv /\ KInv)
<1>1. IInv /\ KInv /\ [Next]_vars => (IInv /\ KInv)'
  BY NextInv, NextKey
<1>2. Init => IInv /\ KInv
  BY InitInv, InitKey
<1>3. QED
  BY <1>1, <1>2, PTL DEF Spec

(* After every pivot row the matrix in memory, with the row that is still   *)
(* being written, is that of the reference elimination: the accelerator's   *)
(* two loops, each one or two rows behind the CPU, compute what pk_gen.c    *)
(* computes, for every matrix and every timing of the runs (1380-1446).     *)
THEOREM EliminationFollows == Spec => []RowsReduced
<1>1. IInv /\ KInv => RowsReduced
  BY DEF KInv, BetweenRows, RowsReduced, Matrix
<1>2. QED
  BY <1>1, KeyInvariance, PTL

(* A run of the accelerator writes no row that the CPU is using or that it  *)
(* is reading itself, and reads no pivot row that the CPU is updating, for  *)
(* every number of rows and every timing - but for row PK_NROWS - 2, which  *)
(* the last run may be writing while it is copied into the key (1196-1252,  *)
(* 1399, 1448-1450).                                                        *)
THEOREM NoRowRace == Spec => []NoRace
<1>1. ASSUME IInv, KInv PROVE NoRace
  <2>1. run.write # NoRow => run.write # run.read
    BY <1>1 DEF IInv, RunRange
  <2>2. run.write \in Reads => pc = "copy" /\ run.write = PK_NROWS - 2
    <3>1. CASE pc = "copy"
      <4>1. Reads = {k} /\ k # NoRow
        BY <1>1, <3>1, NoRowOutside DEF Reads, MayLoad, IInv, LoopRange
      <4>2. run.write \in {PK_NROWS - 2, NoRow}
        BY <1>1, <3>1 DEF KInv, Copying
      <4>3. QED
        BY <3>1, <4>1, <4>2
    <3>2. CASE pc # "copy"
      <4>1. Reads \subseteq Rows
        BY <1>1, <3>2 DEF Reads, MayLoad, IInv, TypeOK, LoopRange, Rows
      <4>2. run.write # NoRow => run.write \notin Reads
        BY <1>1, <3>2, NoRowOutside DEF Reads, MayLoad, Idle, IInv, TypeOK, RunRange
      <4>3. QED
        BY <4>1, <4>2, NoRowOutside
    <3>3. QED
      BY <3>1, <3>2
  <2>3. run.read # NoRow /\ pc \in {"mask1", "loop1"} => run.read # row
    BY <1>1, NoRowOutside DEF IInv, TypeOK, RunRange
  <2>4. QED
    BY <2>1, <2>2, <2>3 DEF NoRace
<1>2. IInv /\ KInv => NoRace
  BY <1>1
<1>3. QED
  BY <1>2, KeyInvariance, PTL

(* The public key is made of the rows that the reference elimination ends   *)
(* with, and key generation gives a matrix up exactly when that has no      *)
(* pivot in the row (1406-1409, 1448-1450).  The one exception is the       *)
(* code's: of row PK_NROWS - 2, copied while the last run writes it, the    *)
(* key has a mix of the last two steps of the elimination.                  *)
THEOREM KeyAsReference == Spec => []KeyCorrect
<1>1. IInv /\ KInv => KeyCorrect
  BY PivotSeen DEF KInv, Copying, KeyCorrect, Matrix, Pivoted
<1>2. QED
  BY <1>1, KeyInvariance, PTL

(* A key's rows come from a matrix in systematic form: their first columns  *)
(* are those of the identity matrix (1449), but for a row that is copied    *)
(* while the last run writes it.                                            *)
THEOREM KeySystematic ==
  Spec => [](KeyMade => \A r, j \in Rows : r \notin early => (j \in copied[r] <=> r = j))
<1>1. ASSUME IInv, KInv, KeyMade, NEW r \in Rows, NEW j \in Rows, r \notin early
      PROVE  j \in copied[r] <=> r = j
  <2>1. copied[r] = Reduced(given)[PK_NROWS][r] /\ given \in Matrices
    BY <1>1 DEF KInv, Copying, Copied, KeyMade, RowCopied, IInv, TypeOK
  <2>2. Reduced(given)[PK_NROWS] # NotSystematic
    <3>1. PK_NROWS - 1 \in Reduced(given)[PK_NROWS][PK_NROWS - 1] /\ PK_NROWS - 1 \in Rows
      BY <1>1 DEF KInv, Copying, Rows
    <3>2. QED
      BY <3>1 DEF NotSystematic
  <2>3. j \in 0 .. PK_NROWS - 1 /\ PK_NROWS \in 0 .. PK_NROWS
    BY DEF Rows
  <2>4. QED
    BY <2>1, <2>2, <2>3, SystematicForm
<1>2. IInv /\ KInv =>
        (KeyMade => \A r, j \in Rows : r \notin early => (j \in copied[r] <=> r = j))
  BY <1>1
<1>3. QED
  BY <1>2, KeyInvariance, PTL

-----------------------------------------------------------------------------
(* The KEM: the matrix that is eliminated, and the secret key as a record.  *)
LEMMA FilledType ==
  ASSUME NEW irr, NEW perm
  PROVE  ParityCheck(irr, perm) \in Matrices
  BY DEF ParityCheck, Matrices, Rows, Columns

Secret(n, irr, bits, s, pivots) ==
  [seed |-> n, irr |-> irr, bits |-> bits, s |-> s, pivots |-> pivots]
IsSecret(x) == \E n, irr, bits, s, pivots : x = Secret(n, irr, bits, s, pivots)

LEMMA SecretFields ==
  ASSUME NEW n, NEW irr, NEW bits, NEW s, NEW pivots, NEW v
  PROVE  /\ Secret(n, irr, bits, s, pivots).seed = n
         /\ Secret(n, irr, bits, s, pivots).irr = irr
         /\ [Secret(n, irr, bits, s, pivots) EXCEPT !.seed = v] = Secret(v, irr, bits, s, pivots)
         /\ [Secret(n, irr, bits, s, pivots) EXCEPT !.irr = v] = Secret(n, v, bits, s, pivots)
  BY DEF Secret

Completed(x, b, t, p) == [x EXCEPT !.bits = b, !.s = t, !.pivots = p]

LEMMA SecretCompleted ==
  ASSUME NEW n, NEW irr, NEW bits, NEW s, NEW pivots, NEW b, NEW t, NEW p
  PROVE  Completed(Secret(n, irr, bits, s, pivots), b, t, p) = Secret(n, irr, b, t, p)
<1>1. [Secret(n, irr, bits, s, pivots) EXCEPT !.bits = b] = Secret(n, irr, b, s, pivots)
  BY DEF Secret
<1>2. [Secret(n, irr, b, s, pivots) EXCEPT !.s = t] = Secret(n, irr, b, t, pivots)
  BY DEF Secret
<1>3. [Secret(n, irr, b, t, pivots) EXCEPT !.pivots = p] = Secret(n, irr, b, t, p)
  BY DEF Secret
<1>4. QED
  BY <1>1, <1>2, <1>3 DEF Completed

-----------------------------------------------------------------------------
(* What each variable was made from, as soon as it has its value in this    *)
(* round, in terms of the seed in the secret key.                           *)
PolynomialOfSeed == sk.irr = genpoly_gen(expanded.f) /\ sk.irr # NoPolynomial
PermutationOfSeed == pi = PermutationOf(expanded.perm) /\ pi # NoPermutation

(* The first rows are eliminated, and the last of them has its pivot.       *)
RowsOfSeed ==
  /\ eliminated \in 0 .. PK_NROWS
  /\ mat = Reduced(ParityCheck(sk.irr, pi))[eliminated]
  /\ eliminated # 0 => eliminated - 1 \in mat[eliminated - 1]

KemInv ==
  /\ IsSecret(sk)
  /\ stage # "keypair" => expanded = Expansion[sk.seed]
  /\ stage \in {"permutation", "matrix", "eliminate"} => PolynomialOfSeed
  /\ stage \in {"matrix", "eliminate"} => PermutationOfSeed
  /\ stage = "eliminate" => RowsOfSeed
  /\ HasKey => KeyOfSeed

LEMMA KemInitInv == KemInit => KemInv
<1> SUFFICES ASSUME KemInit PROVE KemInv
  OBVIOUS
<1>1. stage = "keypair" /\ sk = NoSecret
  BY DEF KemInit
<1>2. sk = Secret(0, NoPolynomial, {}, {}, {})
  BY <1>1 DEF NoSecret, Secret
<1>3. QED
  BY <1>1, <1>2 DEF KemInv, IsSecret, HasKey

LEMMA ExpandInv == KemInv /\ Expand => KemInv'
<1> SUFFICES ASSUME KemInv, Expand PROVE KemInv'
  OBVIOUS
<1>1. /\ stage' = "polynomial"
      /\ expanded' = Expansion[seed]
      /\ sk' = [sk EXCEPT !.seed = seed]
  BY DEF Expand
<1>2. PICK n, irr, bits, s, pivots : sk = Secret(n, irr, bits, s, pivots)
  BY DEF KemInv, IsSecret
<1>3. sk' = Secret(seed, irr, bits, s, pivots)
  BY <1>1, <1>2, SecretFields
<1>4. sk'.seed = seed
  BY <1>3, SecretFields
<1>5. QED
  BY <1>1, <1>3, <1>4 DEF KemInv, IsSecret, HasKey

LEMMA NoIrreducibleInv == KemInv /\ NoIrreducible => KemInv'
  BY DEF KemInv, NoIrreducible, IsSecret, HasKey

LEMMA IrreducibleInv == KemInv /\ Irreducible => KemInv'
<1> SUFFICES ASSUME KemInv, Irreducible PROVE KemInv'
  OBVIOUS
<1> DEFINE polynomial == genpoly_gen(expanded.f)
<1>1. /\ stage = "polynomial" /\ stage' = "permutation"
      /\ sk' = [sk EXCEPT !.irr = polynomial] /\ polynomial # NoPolynomial
      /\ expanded' = expanded
  BY DEF Irreducible
<1>2. polynomial' = polynomial
  BY <1>1
<1> HIDE DEF polynomial
<1>3. PICK n, irr, bits, s, pivots : sk = Secret(n, irr, bits, s, pivots)
  BY DEF KemInv, IsSecret
<1>4. sk' = Secret(n, polynomial, bits, s, pivots)
  BY <1>1, <1>3, SecretFields
<1>5. sk'.irr = polynomial /\ sk'.seed = sk.seed
  BY <1>3, <1>4, SecretFields
<1>6. PolynomialOfSeed'
  BY <1>1, <1>2, <1>5 DEF PolynomialOfSeed, polynomial, NoPolynomial
<1>7. QED
  BY <1>1, <1>4, <1>5, <1>6 DEF KemInv, IsSecret, HasKey

LEMMA NotAPermutationInv == KemInv /\ NotAPermutation => KemInv'
  BY DEF KemInv, NotAPermutation, IsSecret, HasKey

LEMMA APermutationInv == KemInv /\ APermutation => KemInv'
<1> SUFFICES ASSUME KemInv, APermutation PROVE KemInv'
  OBVIOUS
<1>1. /\ stage = "permutation" /\ stage' = "matrix"
      /\ pi' = PermutationOf(expanded.perm) /\ pi' # NoPermutation
      /\ expanded' = expanded /\ sk' = sk
  BY DEF APermutation
<1>2. PolynomialOfSeed'
  BY <1>1 DEF KemInv, PolynomialOfSeed
<1>3. PermutationOfSeed'
  BY <1>1 DEF PermutationOfSeed
<1>4. QED
  BY <1>1, <1>2, <1>3 DEF KemInv, IsSecret, HasKey

LEMMA FillMatrixInv ==
  ASSUME KemInv, FillMatrix
  PROVE  KemInv'
<1>1. /\ stage = "matrix" /\ stage' = "eliminate"
      /\ mat' = ParityCheck(sk.irr, pi) /\ eliminated' = 0
      /\ UNCHANGED <<expanded, sk, pi>>
  BY DEF FillMatrix
<1>2. PolynomialOfSeed' /\ PermutationOfSeed'
  BY <1>1 DEF KemInv, PolynomialOfSeed, PermutationOfSeed
<1>3. Reduced(ParityCheck(sk.irr, pi))[0] = ParityCheck(sk.irr, pi)
  BY FilledType, ReducedSteps
<1>4. RowsOfSeed'
  BY <1>1, <1>3 DEF RowsOfSeed
<1>5. QED
  BY <1>1, <1>2, <1>4 DEF KemInv, IsSecret, HasKey

LEMMA EliminateInv ==
  ASSUME KemInv, Eliminate
  PROVE  KemInv'
<1> DEFINE filled == ParityCheck(sk.irr, pi)
           pivot == Pivot(mat, eliminated)
<1>1. /\ stage = "eliminate" /\ eliminated < PK_NROWS
      /\ UNCHANGED <<expanded, sk, pi>>
      /\ IF eliminated \in pivot
         THEN mat' = Clear(mat, eliminated, pivot) /\ eliminated' = eliminated + 1 /\ stage' = stage
         ELSE stage' = "keypair"
  BY DEF Eliminate
<1>2. CASE eliminated \notin pivot
  <2>1. stage' = "keypair" /\ sk' = sk
    BY <1>1, <1>2
  <2>2. QED
    BY <2>1 DEF KemInv, IsSecret, HasKey
<1>3. CASE eliminated \in pivot
  <2>1. mat' = Clear(mat, eliminated, pivot) /\ eliminated' = eliminated + 1 /\ stage' = "eliminate"
    BY <1>1, <1>3
  <2>2. /\ eliminated \in 0 .. PK_NROWS /\ mat = Reduced(filled)[eliminated]
        /\ PolynomialOfSeed /\ PermutationOfSeed
    BY <1>1 DEF KemInv, RowsOfSeed
  <2>3. eliminated \in Rows /\ eliminated' \in 0 .. PK_NROWS /\ eliminated' # 0 /\ eliminated' - 1 = eliminated
    BY <1>1, <2>1, <2>2 DEF Rows
  <2>4. filled \in Matrices /\ filled' = filled
    BY <1>1, FilledType
  <2>5. Reduced(filled)[eliminated + 1] = Step(Reduced(filled)[eliminated], eliminated)
    BY <2>3, <2>4, ReducedSteps
  <2>6. mat' = Reduced(filled)[eliminated']
    BY <1>3, <2>1, <2>2, <2>5 DEF Step
  <2>7. mat'[eliminated] = pivot
    BY <2>1, <2>3 DEF Clear
  <2> HIDE DEF pivot
  <2>8. RowsOfSeed'
    BY <1>1, <1>3, <2>3, <2>4, <2>6, <2>7 DEF RowsOfSeed
  <2>9. PolynomialOfSeed' /\ PermutationOfSeed'
    BY <1>1, <2>2 DEF PolynomialOfSeed, PermutationOfSeed
  <2>10. QED
    BY <1>1, <2>1, <2>8, <2>9 DEF KemInv, IsSecret, HasKey
<1>4. QED
  BY <1>2, <1>3

LEMMA AcceptInv ==
  ASSUME KemInv, Accept
  PROVE  KemInv'
<1> DEFINE bits == controlbits(pi)
           key  == PublicPart(mat)
           nums == expanded.s
           order == 0 .. 31
<1>1. /\ stage = "eliminate" /\ stage' = "enc" /\ eliminated = PK_NROWS
      /\ pk' = key
      /\ sk' = Completed(sk, bits, nums, order)
      /\ UNCHANGED <<expanded, pi, mat>>
  BY DEF Accept, Completed
<1> HIDE DEF bits, key, nums, order
<1>2. PolynomialOfSeed /\ PermutationOfSeed /\ RowsOfSeed /\ expanded = Expansion[sk.seed]
  BY <1>1 DEF KemInv
<1>3. PICK n, irr, b, s, pivots : sk = Secret(n, irr, b, s, pivots)
  BY DEF KemInv, IsSecret
<1>4. sk' = Secret(n, irr, bits, nums, order)
  BY <1>1, <1>3, SecretCompleted
<1>5. sk'.seed = n /\ sk.seed = n /\ sk.irr = irr
  BY <1>3, <1>4, SecretFields
<1>6. /\ irr = genpoly_gen(Expansion[n].f) /\ irr # NoPolynomial
      /\ pi = PermutationOf(Expansion[n].perm) /\ pi # NoPermutation
      /\ mat = Reduced(ParityCheck(irr, pi))[PK_NROWS]
  BY <1>1, <1>2, <1>5 DEF PolynomialOfSeed, PermutationOfSeed, RowsOfSeed
<1>7. mat # NotSystematic
  <2>1. PK_NROWS - 1 \in mat[PK_NROWS - 1] /\ PK_NROWS - 1 \in Rows
    BY <1>1, <1>2 DEF RowsOfSeed, Rows
  <2>2. NotSystematic[PK_NROWS - 1] = {}
    BY <2>1 DEF NotSystematic
  <2>3. QED
    BY <2>1, <2>2
<1>8. bits = controlbits(PermutationOf(Expansion[n].perm)) /\ nums = Expansion[n].s
  BY <1>2, <1>5, <1>6 DEF bits, nums
<1>9. key = PublicPart(mat)
  BY DEF key
<1>10. KeyOfSeed'
  BY <1>1, <1>4, <1>5, <1>6, <1>7, <1>8, <1>9 DEF KeyOfSeed, Secret, order
<1>11. QED
  BY <1>1, <1>2, <1>4, <1>5, <1>10 DEF KemInv, IsSecret

(* The steps that leave the key pair and what it was made from alone.       *)
LEMMA KeyKept ==
  ASSUME KemInv, UNCHANGED <<expanded, sk, pk, pi, mat, eliminated>>,
         \/ stage' = stage
         \/ HasKey /\ HasKey'
  PROVE  KemInv'
<1>1. IsSecret(sk)' /\ (KeyOfSeed => KeyOfSeed')
  BY DEF KemInv, IsSecret, KeyOfSeed
<1>2. /\ PolynomialOfSeed => PolynomialOfSeed'
      /\ PermutationOfSeed => PermutationOfSeed'
      /\ RowsOfSeed => RowsOfSeed'
  BY DEF PolynomialOfSeed, PermutationOfSeed, RowsOfSeed
<1>3. CASE stage' = stage
  BY <1>1, <1>2, <1>3 DEF KemInv, HasKey
<1>4. CASE HasKey /\ HasKey'
  BY <1>1, <1>4 DEF KemInv, HasKey
<1>5. QED
  BY <1>3, <1>4

LEMMA CallsKeepKey ==
  ASSUME KemInv,
         \/ \E nums \in Draws : DrawAgain(nums) \/ crypto_kem_enc(nums)
         \/ \E c : crypto_kem_dec(c)
         \/ UNCHANGED kemVars
  PROVE  KemInv'
<1>1. ASSUME NEW nums, DrawAgain(nums) PROVE KemInv'
  <2>1. UNCHANGED <<stage, expanded, sk, pk, pi, mat, eliminated>>
    BY <1>1 DEF DrawAgain, kemVars
  <2>2. QED
    BY <2>1, KeyKept
<1>2. ASSUME NEW nums, crypto_kem_enc(nums) PROVE KemInv'
  <2>1. UNCHANGED <<expanded, sk, pk, pi, mat, eliminated>> /\ stage = "enc" /\ stage' = "sent"
    BY <1>2 DEF crypto_kem_enc
  <2>2. QED
    BY <2>1, KeyKept DEF HasKey
<1>3. ASSUME NEW c, crypto_kem_dec(c) PROVE KemInv'
  <2>1. /\ UNCHANGED <<expanded, sk, pk, pi, mat, eliminated>>
        /\ stage \in {"enc", "sent"} /\ stage' = "done"
    BY <1>3 DEF crypto_kem_dec
  <2>2. QED
    BY <2>1, KeyKept DEF HasKey
<1>4. ASSUME UNCHANGED kemVars PROVE KemInv'
  <2>1. UNCHANGED <<stage, expanded, sk, pk, pi, mat, eliminated>>
    BY <1>4 DEF kemVars
  <2>2. QED
    BY <2>1, KeyKept
<1>5. QED
  BY <1>1, <1>2, <1>3, <1>4

LEMMA KemInvariance == KemSpec => []KemInv
<1>1. KemInv /\ [KemNext]_kemVars => KemInv'
  BY ExpandInv, NoIrreducibleInv, IrreducibleInv, NotAPermutationInv, APermutationInv,
     FillMatrixInv, EliminateInv, AcceptInv, CallsKeepKey
  DEF KemNext
<1>2. QED
  BY <1>1, KemInitInv, PTL DEF KemSpec

(* The seed in the secret key gives the whole key again in one round, in    *)
(* which neither the polynomial nor the permutation nor a eliminated fails, for    *)
(* every expansion and however many rounds failed before (operations.c      *)
(* 86-131).                                                                 *)
THEOREM SeedKept == KemSpec => []SeedRegenerates
<1>1. KemInv => SeedRegenerates
  BY DEF KemInv, SeedRegenerates, HasKey
<1>2. QED
  BY <1>1, KemInvariance, PTL

(* The accelerator makes the KEM's key: if it is given the matrix that the  *)
(* seed in the secret key determines, the columns of each row behind the    *)
(* identity matrix are those of the KEM's public key (versatCrypto.c 1449,  *)
(* pk_gen.c 170-172) - of each row but one that the last run was writing    *)
(* when it was copied.                                                      *)
THEOREM AcceleratorMakesTheKey ==
  Spec /\ KemSpec =>
    [](/\ HasKey
       /\ KeyMade
       /\ given = ParityCheck(sk.irr, PermutationOf(Expansion[sk.seed].perm))
       => \A r \in Rows : r \notin early => pk[r] = PublicPart(copied)[r])
<1>1. ASSUME KeyCorrect, KemInv, HasKey, KeyMade,
             given = ParityCheck(sk.irr, PermutationOf(Expansion[sk.seed].perm)),
             NEW r \in Rows, r \notin early
      PROVE  pk[r] = PublicPart(copied)[r]
  <2>1. copied[r] = Reduced(given)[PK_NROWS][r]
    BY <1>1 DEF KeyCorrect, Copied, KeyMade, RowCopied
  <2>2. pk = PublicPart(Reduced(given)[PK_NROWS])
    BY <1>1 DEF KemInv, KeyOfSeed
  <2>3. QED
    BY <2>1, <2>2 DEF PublicPart, Rows
<1>2. KeyCorrect /\ KemInv =>
        (/\ HasKey
         /\ KeyMade
         /\ given = ParityCheck(sk.irr, PermutationOf(Expansion[sk.seed].perm))
         => \A r \in Rows : r \notin early => pk[r] = PublicPart(copied)[r])
  BY <1>1
<1>3. QED
  BY <1>2, KeyAsReference, KemInvariance, PTL
=============================================================================
