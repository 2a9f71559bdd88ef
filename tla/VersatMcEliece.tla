--------------------------- MODULE VersatMcEliece ---------------------------
(***************************************************************************)
(* McEliece key generation on the accelerator                              *)
(* (software/src/linux/versatCrypto.c 1103-1527): the matrix is in memory  *)
(* that the CPU and the accelerator share, the pivot row in the            *)
(* accelerator.  A run of the accelerator goes on while the CPU prepares   *)
(* the next one; it reads one row from memory, computes with the row read  *)
(* by the run before, and writes the result of the run before that.        *)
(*                                                                         *)
(* External: the accelerator (module McEliece of versatSpec.txt 2901-2917, *)
(* VRead and VWrite with their two halves each; a run takes the            *)
(* configuration of its start), and the CPU's write-through cache, which   *)
(* keeps a row that was read until it is cleared.  A mask of 0 or 255 is a *)
(* Boolean.  The making of the matrix from the secret key is left out.     *)
(***************************************************************************)
EXTENDS Systematic

CONSTANTS
  BITS,            (* columns of a byte                                     *)
  FirstMatrices,   (* matrices key generation may begin with,               *)
  NextMatrices,    (* or go on with when it begins again                    *)
  MaxTries         (* bound: times it begins                                *)

ASSUME McElieceAssumption ==
  /\ BITS \in Nat \ {0} /\ MaxTries \in Nat \ {0}
  /\ FirstMatrices \cup NextMatrices \subseteq Matrices

VARIABLES
  mem,             (* the matrix in memory                                  *)
  cache,           (* the CPU's copies of rows, or None                     *)
  pc, row, k,      (* where Versat_pk_gen is                                *)
  timesCalled,     (* its index, of calls of Loop2 for this row             *)
  mask,            (* mask for the run that is next                         *)
  saved1, saved2,  (* savedMask of Loop1 and of Loop2                       *)
  cfg,             (* the accelerator's configuration                       *)
  acc,             (* its memories                                          *)
  run,             (* rows that the run in progress has yet to read, write  *)
  copied,          (* the matrix that the public key is copied from         *)
  (* For the properties:                                                    *)
  early,           (* rows copied while the last run was writing them       *)
  given,           (* the matrix that this try began with                   *)
  tries

cpu  == <<pc, row, k, timesCalled, mask, saved1, saved2, copied, early, given, tries>>
vars == <<mem, cache, cpu, cfg, acc, run>>

NoRow == -9
None  == {NoRow}

NoByte(columns) == {}

(* The byte of a row that holds column row.                                 *)
Byte(columns) == {c \in columns : c \div BITS = row \div BITS}

View(r) == IF cache[r] = None THEN mem[r] ELSE cache[r]

Touch(rows) == [r \in Rows |-> IF r \in rows THEN View(r) ELSE cache[r]]

Idle == run = [read |-> NoRow, write |-> NoRow]
-----------------------------------------------------------------------------
(* The accelerator.                                                         *)

(* A run begins: the halves of VRead and VWrite swap, the data flows.       *)
StartAccelerator(config) ==
  LET in == acc.loaded
      b  == IF config.mask THEN Xor(acc.mat, in) ELSE acc.mat
      d  == IF config.mask THEN Xor(in, acc.mat) ELSE in
  IN /\ acc' = [mat |-> IF config.in0_wr THEN b ELSE acc.mat,
                loaded |-> acc.loaded, computed |-> d, writing |-> acc.computed]
     /\ run' = [read |-> config.read, write |-> config.write]
     /\ cfg' = config

RunReads ==
  /\ run.read # NoRow
  /\ acc' = [acc EXCEPT !.loaded = mem[run.read]]
  /\ run' = [run EXCEPT !.read = NoRow]
  /\ UNCHANGED <<mem, cache, cpu, cfg>>

RunWrites ==
  /\ run.write # NoRow
  /\ mem' = [mem EXCEPT ![run.write] = acc.writing]
  /\ run' = [run EXCEPT !.write = NoRow]
  /\ UNCHANGED <<acc, cache, cpu, cfg>>
-----------------------------------------------------------------------------
(* The CPU.  It writes through its cache.                                   *)
CpuWrites(r, columns) ==
  /\ mem' = [mem EXCEPT ![r] = columns]
  /\ cache' = [cache EXCEPT ![r] = IF @ = None THEN None ELSE columns]

(* Versat_pk_gen fills the matrix.                                          *)
Begin(matrices) ==
  \E m \in matrices :
    /\ given' = m
    /\ mem' = m
    /\ cache' = [r \in Rows |-> IF cache[r] = None THEN None ELSE m[r]]
    /\ cfg' = [cfg EXCEPT !.read = NoRow]
    /\ row' = 0 /\ pc' = "load" /\ tries' = tries + 1
    /\ UNCHANGED <<k, timesCalled, mask, saved1, saved2, acc, run, copied, early>>

Generate == /\ pc = "begin"
            /\ Begin(IF tries = 0 THEN FirstMatrices ELSE NextMatrices)

LoadAtOnce == pc = "load"

(* EndAccelerator comes before VersatLoadRow: the row may be the one that   *)
(* the last run writes.                                                     *)
MayLoad == pc = "load" /\ Idle

LoadRow ==
  /\ MayLoad
  /\ acc' = [acc EXCEPT !.mat = View(row)]
  /\ cache' = Touch({row})
  /\ k' = row + 1
  /\ pc' = "mask1"
  /\ UNCHANGED <<mem, row, timesCalled, mask, saved1, saved2, cfg, run, copied, early, given, tries>>

Mask1 ==
  /\ pc = "mask1" /\ k < PK_NROWS
  /\ mask' = ((row \in View(row)) # (row \in View(k)))
  /\ cache' = Touch({row, k})
  /\ pc' = "loop1"
  /\ UNCHANGED <<mem, row, k, timesCalled, saved1, saved2, cfg, acc, run, copied, early, given, tries>>

Loop1(r, first, next) ==
  /\ Idle
  /\ StartAccelerator([cfg EXCEPT !.read = r, !.in0_wr = ~first,
                                  !.mask = IF first THEN @ ELSE saved1])
  /\ saved1' = next

(* The CPU keeps the byte of the pivot row that it needs up to date itself. *)
AddRow ==
  /\ pc = "loop1"
  /\ Loop1(k, k = row + 1, mask)
  /\ CpuWrites(row, IF mask THEN Xor(View(row), Byte(View(k))) ELSE View(row))
  /\ k' = k + 1
  /\ pc' = "mask1"
  /\ UNCHANGED <<row, timesCalled, mask, saved2, copied, early, given, tries>>

AddLastRow ==
  /\ pc = "mask1" /\ k = PK_NROWS
  /\ Loop1(PK_NROWS - 1, FALSE, FALSE)
  /\ pc' = "check"
  /\ UNCHANGED <<mem, cache, row, k, timesCalled, mask, saved2, copied, early, given, tries>>

(* No pivot: begin again with another matrix.                               *)
Fail ==
  /\ pc = "check" /\ Idle /\ row \notin View(row)
  /\ pc' = IF tries < MaxTries THEN "begin" ELSE "stopped"
  /\ cache' = Touch({row})
  /\ UNCHANGED <<mem, row, k, timesCalled, mask, saved1, saved2, cfg, acc, run, copied, early, given, tries>>

ReadRow ==
  /\ pc = "check" /\ Idle /\ row \in View(row)
  /\ CpuWrites(row, acc.mat)
  /\ k' = 0 /\ timesCalled' = 0
  /\ pc' = "mask2"
  /\ UNCHANGED <<row, mask, saved1, saved2, cfg, acc, run, copied, early, given, tries>>

SkipRow ==
  /\ pc = "mask2" /\ k = row
  /\ k' = k + 1
  /\ UNCHANGED <<mem, cache, pc, row, timesCalled, mask, saved1, saved2, cfg, acc, run, copied,
                 early, given, tries>>

(* In the two last calls there is no row left to read.                      *)
Mask2 ==
  /\ pc = "mask2" /\ k # row
  /\ mask' = (k < PK_NROWS /\ row \in View(k))
  /\ cache' = Touch({k} \cap Rows)
  /\ pc' = "loop2"
  /\ UNCHANGED <<mem, row, k, timesCalled, saved1, saved2, cfg, acc, run, copied, early, given, tries>>

RowBefore(r) == r - 1

(* The row before r, without the pivot row.                                 *)
Before(r) == IF r - 1 = row THEN r - 2 ELSE r - 1

ToCompute == Before(k)
ToWrite   == Before(ToCompute)

LastCall == PK_NROWS + 1

Loop2 ==
  /\ pc = "loop2" /\ Idle
  /\ LET reads    == k < PK_NROWS
         computes == timesCalled >= 1 /\ ToCompute \in Rows
         writes   == timesCalled >= 2 /\ ToWrite >= 0
     IN StartAccelerator([read   |-> IF reads THEN k ELSE NoRow,
                          in0_wr |-> IF reads THEN FALSE ELSE cfg.in0_wr,
                          mask   |-> IF computes THEN saved2 ELSE cfg.mask,
                          write  |-> IF writes THEN ToWrite ELSE NoRow])
  /\ saved2' = mask
  /\ k' = k + 1 /\ timesCalled' = timesCalled + 1
  /\ pc' = IF k = LastCall THEN "clear" ELSE "mask2"
  /\ UNCHANGED <<mem, cache, row, mask, saved1, copied, early, given, tries>>

Kept == cache

Cleared == [r \in Rows |-> None]

(* The last run is still in progress here.                                  *)
ClearCache ==
  /\ pc = "clear"
  /\ cfg' = [cfg EXCEPT !.write = NoRow]
  /\ cache' = Cleared
  /\ row' = row + 1 /\ k' = 0
  /\ pc' = IF row + 1 = PK_NROWS THEN "copy" ELSE "load"
  /\ UNCHANGED <<mem, timesCalled, mask, saved1, saved2, acc, run, copied, early, given, tries>>

(* What the CPU can read of a row that the run is writing meanwhile: where  *)
(* its old and its new contents differ, either.                             *)
Mixes(old, new) == {seen \in SUBSET (old \cup new) : old \cap new \subseteq seen}

Seen(r) == IF run.write = r THEN Mixes(View(r), acc.writing) ELSE {View(r)}

(* There is no EndAccelerator before or in this loop: the last run may be   *)
(* in progress at any of its rows.                                          *)
CopyRow ==
  /\ pc = "copy"
  /\ \E seen \in Seen(k) : /\ copied' = [copied EXCEPT ![k] = seen]
                           /\ cache' = [cache EXCEPT ![k] = seen]
  /\ early' = early \cup ({k} \cap {run.write})
  /\ k' = k + 1
  /\ pc' = IF k + 1 = PK_NROWS THEN "stopped" ELSE "copy"
  /\ UNCHANGED <<mem, row, timesCalled, mask, saved1, saved2, cfg, acc, run, given, tries>>
-----------------------------------------------------------------------------
NoKey == [r \in Rows |-> {}]

Init ==
  /\ mem = [r \in Rows |-> {}] /\ cache = [r \in Rows |-> None]
  /\ pc = "begin" /\ row = 0 /\ k = 0 /\ timesCalled = 0 /\ mask = FALSE
  /\ saved1 = FALSE /\ saved2 = FALSE
  /\ cfg = [read |-> NoRow, write |-> NoRow, in0_wr |-> FALSE, mask |-> FALSE]
  /\ \E junk \in {{}, Columns} :
       acc = [mat |-> junk, loaded |-> junk, computed |-> junk, writing |-> junk]
  /\ run = [read |-> NoRow, write |-> NoRow]
  /\ copied = NoKey /\ early = {} /\ given = mem /\ tries = 0

Accelerator == RunReads \/ RunWrites
Cpu == \/ Generate \/ LoadRow \/ Mask1 \/ AddRow \/ AddLastRow \/ Fail \/ ReadRow
       \/ SkipRow \/ Mask2 \/ Loop2 \/ ClearCache \/ CopyRow

Stopped == pc = "stopped" /\ Idle /\ UNCHANGED vars

Next == Accelerator \/ Cpu \/ Stopped

Spec == Init /\ [][Next]_vars
-----------------------------------------------------------------------------
TypeOK ==
  /\ mem \in Matrices /\ copied \in Matrices /\ given \in Matrices
  /\ cache \in [Rows -> (SUBSET Columns) \cup {None}]
  /\ pc \in {"begin", "load", "mask1", "loop1", "check", "mask2", "loop2", "clear", "copy",
             "stopped"}
  /\ row \in 0 .. PK_NROWS /\ k \in 0 .. PK_NROWS + 2
  /\ {mask, saved1, saved2} \subseteq BOOLEAN
  /\ run \in [read : Rows \cup {NoRow}, write : Rows \cup {NoRow}]
  /\ cfg \in [read : Rows \cup {NoRow}, write : Rows \cup {NoRow},
              in0_wr : BOOLEAN, mask : BOOLEAN]
  /\ acc \in [mat : SUBSET Columns, loaded : SUBSET Columns, computed : SUBSET Columns,
              writing : SUBSET Columns]
  /\ early \in SUBSET Rows /\ tries \in 0 .. MaxTries

(* After every pivot row the matrix, with what the run in progress is about *)
(* to write, is the one of the reference elimination, whatever the last row *)
(* or the last try left in the accelerator and in the masks (1380-1446).    *)
Settled == [r \in Rows |-> IF r = run.write THEN acc.writing ELSE mem[r]]

RowsReduced == pc \in {"load", "copy"} => Settled = Reduced(given)[row]

(* The rows of the key that are copied, and what each is.                   *)
KeyMade == pc = "stopped" /\ row = PK_NROWS

Copied == IF pc = "copy" THEN 0 .. k - 1 ELSE IF KeyMade THEN Rows ELSE {}

RowCopied(r) ==
  IF r \notin early
  THEN copied[r] = Reduced(given)[PK_NROWS][r]
  ELSE /\ r = PK_NROWS - 2
       /\ copied[r] \in Mixes(Reduced(given)[PK_NROWS - 1][r], Reduced(given)[PK_NROWS][r])

(* The public key is made of the rows of the reference elimination, and key *)
(* generation begins again exactly when that has no pivot (1406-1409, 1448- *)
(* 1450) - with one exception, which is the code's: nothing waits for the   *)
(* last write, of row PK_NROWS - 2, and if that is still going on when the  *)
(* row is copied, the key has a mix of the row before and after the last    *)
(* step of the elimination.                                                 *)
KeyCorrect ==
  /\ \A r \in Copied : RowCopied(r)
  /\ pc = "check" /\ Idle =>
       ((row \in mem[row]) <=> row \in Pivot(Reduced(given)[row], row))

(* The rows that the CPU is reading (1379-1450).                            *)
Reads ==
  CASE pc \in {"mask1", "loop1"} -> {row, k} \cap Rows
    [] pc = "mask2" -> ({k} \cap Rows) \ {row}
    [] MayLoad -> {row}
    [] pc = "copy" -> {k}
    [] OTHER -> {}

(* The CPU never computes with a row that the accelerator has changed in    *)
(* memory since the CPU cached it, nor copies one into the key (1412-1450). *)
FreshReads == \A r \in Reads : View(r) = mem[r]

(* A run never writes the row that it reads or one that the CPU is reading, *)
(* but for the last run, of which row PK_NROWS - 2 is copied unsynchronised *)
(* (1448), and it never reads the row that the CPU is changing.             *)
NoRace ==
  /\ run.write # NoRow => run.write # run.read
  /\ run.write \in Reads => pc = "copy" /\ run.write = PK_NROWS - 2
  /\ run.read # NoRow /\ pc \in {"mask1", "loop1"} => run.read # row

=============================================================================
