----------------------------- MODULE GemmKernel -----------------------------
(***************************************************************************)
(* The kernels of Project5's matmul.c as operators on flat buffers: which  *)
(* branch a call takes, which cells of the temporary product an iteration  *)
(* of a parallel loop stores, and what it stores there.  The index         *)
(* expressions are the source's, so that a call whose leading dimensions   *)
(* or shape the code does not expect gives the value the code gives.       *)
(*                                                                         *)
(* A call carries, besides its arguments, the build it is made in: avx2 or *)
(* neon, the #define chosen at the top of matmul.c.  __m256d holds four    *)
(* doubles, float64x2_t two.                                               *)
(***************************************************************************)
EXTENDS Blas

Lanes(c) == IF c.build = "avx2" THEN 4 ELSE 2

Buffer(len) == 0..(len - 1)

\* The branch that walks A by rows; the other one walks A by columns.
RowPath(c) == \/ c.layout = "RowMajor" /\ c.ta = "NoTrans"
              \/ c.layout = "ColMajor" /\ c.ta = "Trans"

RowTimesRow(c) == RowPath(c) /\ c.tb = "NoTrans"
RowTimesCol(c) == RowPath(c) /\ c.tb = "Trans"

\* Trans: the m x n matrix in buffer X, transposed in place.
Trans(X, m, n) == [x \in DOMAIN X |-> X[(x % m) * n + (x \div m)]]

\* Lines 481 and 504: the last branch transposes B where it lies.
Flip(c, b) == IF ~RowPath(c) /\ c.tb = "NoTrans" THEN Trans(b, c.k, c.n) ELSE b

(***************************************************************************)
(* matmul_SIMD_dotAdd_oneline: lane j of the row P[p], .., P[p+m-1] times   *)
(* the m x n matrix Q.  Only the n \div Lanes full vectors of a row are      *)
(* computed and stored.                                                    *)
(***************************************************************************)
Oneline(P, p, Q, j, m, n) ==
  SumFunction([i \in 0..(m - 1) |-> P[p + i] * Q[j + i * n]])

(***************************************************************************)
(* matmul_SIMD_dotAdd: the dot product of P[p..] and Q[q..] added to s.  On *)
(* AVX2 the two hadd leave the vector sum twice in the register, the       *)
(* scalar tail is added once, and everything is halved.  On NEON a block   *)
(* of four is stepped over but only its first vector of two is loaded.     *)
(* The loop bound k - 3 is unsigned: the operator is for k >= 3.           *)
(***************************************************************************)
DotAdd(build, P, p, Q, q, s, k) ==
  LET blocks == 4 * (k \div 4)
      Term(i) == P[p + i] * Q[q + i]
  IN  IF build = "avx2"
      THEN (s + 2 * SumFunction([i \in 0..(blocks - 1) |-> Term(i)])
              + SumFunction([i \in 0..((k % 4) - 1) |-> Term(k - 1 - i)])) \div 2
      ELSE s + SumFunction([i \in 0..(blocks - 1) |-> IF i % 4 < 2 THEN Term(i) ELSE 0])

\* The first parallel loop: its iterations, and the stores of one iteration.
RowsIters(c)  == IF RowPath(c) THEN c.m ELSE c.n
RowsStores(c) == IF RowTimesCol(c) THEN c.n
                 ELSE (IF RowPath(c) THEN c.n ELSE c.m) \div Lanes(c)

\* Variant: the rows of sum are laid out with the inner dimension as stride.
SumCellsByInner(c, r, s) ==
  IF RowTimesCol(c) THEN {r * c.k + s}
  ELSE {r * c.k + (Lanes(c) * s + v) : v \in 0..(Lanes(c) - 1)}

\* The cells of sum that store s of iteration r writes.
SumCells(c, r, s) ==
  IF RowTimesCol(c) THEN {r * c.ldc + s}
  ELSE {r * (IF RowPath(c) THEN c.n ELSE c.m) + (Lanes(c) * s + v) : v \in 0..(Lanes(c) - 1)}

\* What it leaves in cell x, when b is the buffer B as the loop finds it.
SumValue(c, b, sum, r, s, x) ==
  CASE RowTimesRow(c) -> Oneline(c.A, c.lda * r, b, x - c.n * r, c.m, c.n)
    [] RowTimesCol(c) -> DotAdd(c.build, c.A, r * c.lda, b, s * c.ldb, sum[x], c.k)
    [] OTHER          -> Oneline(b, c.k * r, c.A, x - r * c.m, c.n, c.m)

\* The second parallel loop: C = alpha * sum + beta * C.
ScaleIters(c)  == IF RowPath(c) THEN c.m * c.n ELSE c.m
ScaleStores(c) == IF RowPath(c) THEN 1 ELSE c.n

\* Variant: C[i] is assigned in the inner loop, as matrix_mul does at line 189.
ScaleCellOfRow(c, r, s) == r

ScaleCell(c, r, s)   == IF RowPath(c) THEN r ELSE r * c.n + s
ScaleSource(c, r, s) == IF RowPath(c) THEN r ELSE s * c.n + r
ScaleValue(c, sum, C, r, s) ==
  c.alpha * sum[ScaleSource(c, r, s)] + c.beta * C[ScaleCell(c, r, s)]
=============================================================================
