----------------------------- MODULE Systematic -----------------------------
(***************************************************************************)
(* The Gaussian elimination of the McEliece reference code                 *)
(* (crypto/McEliece/pk_gen.c): what key generation on the accelerator must *)
(* compute.  A row is the set of the columns that hold a 1, a matrix a     *)
(* function from row numbers to rows.                                      *)
(***************************************************************************)
EXTENDS Integers

CONSTANTS PK_NROWS, SYS_N   (* rows and columns                             *)

ASSUME MatrixAssumption ==
  PK_NROWS \in Nat \ {0} /\ SYS_N \in Nat /\ PK_NROWS <= SYS_N

Rows     == 0 .. PK_NROWS - 1
Columns  == 0 .. SYS_N - 1
Matrices == [Rows -> SUBSET Columns]

Xor(a, b) == (a \ b) \cup (b \ a)

(* The pivot row: every row below is added that differs from it, so far, in *)
(* its column.                                                              *)
Pivot(matrix, row) ==
  LET sum[k \in row .. PK_NROWS - 1] ==
        IF k = row THEN matrix[row]
        ELSE IF (row \in sum[k - 1]) # (row \in matrix[k]) THEN Xor(sum[k - 1], matrix[k])
        ELSE sum[k - 1]
  IN  sum[PK_NROWS - 1]

(* Its column is cleared in all the other rows.                             *)
Clear(matrix, row, pivot) ==
  [k \in Rows |-> IF k = row THEN pivot
                  ELSE IF row \in matrix[k] THEN Xor(matrix[k], pivot)
                  ELSE matrix[k]]

NotSystematic == [k \in Rows |-> {}]

(* The matrix after its first n rows; NotSystematic from the row on that    *)
(* has no pivot.                                                            *)
Reduced(matrix) ==
  LET after[n \in 0 .. PK_NROWS] ==
        IF n = 0 THEN matrix
        ELSE LET before == after[n - 1]  pivot == Pivot(before, n - 1)
             IN  IF n - 1 \in pivot THEN Clear(before, n - 1, pivot) ELSE NotSystematic
  IN  after
=============================================================================
