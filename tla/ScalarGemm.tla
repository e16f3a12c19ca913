----------------------------- MODULE ScalarGemm -----------------------------
(***************************************************************************)
(* The two multiplications of matmul.c without threads or vectors (lines   *)
(* 53-195), as functions of their call: what they leave in the buffers.    *)
(* Both add the products to a temporary sum, cell by cell, and then scale  *)
(* it into C.                                                              *)
(***************************************************************************)
EXTENDS GemmKernel

\* The steps <<i, j, l>> of a triple loop, in whatever order it makes them.
Steps(c) == Buffer(c.m) \X Buffer(c.n) \X Buffer(c.k)

\* What they leave in sum: step w adds term[w] to the cell at[w].
Accumulated(c, at, term) ==
  [x \in Buffer(c.m * c.n) |->
     SumFunction([w \in {v \in Steps(c) : at[v] = x} |-> term[w]])]

Scaled(c, sum) == [x \in DOMAIN c.C |-> c.alpha * sum[x] + c.beta * c.C[x]]

(***************************************************************************)
(* matrix_easy_mul: whichever of A and B does not suit the dot product is  *)
(* transposed where it lies, as m x n and k x n, and again at the end.     *)
(***************************************************************************)
FlipsA(c) == ~RowPath(c)

\* Variant: the two cases of B are swapped.
FlipsBIfTransposed(c) == c.tb = "Trans"

FlipsB(c) == c.tb = "NoTrans"

EasyMul(c) ==
  LET A1 == IF FlipsA(c) THEN Trans(c.A, c.m, c.n) ELSE c.A
      B1 == IF FlipsB(c) THEN Trans(c.B, c.k, c.n) ELSE c.B
      sum == Accumulated(c, [w \in Steps(c) |-> w[1] * c.ldc + w[2]],
                            [w \in Steps(c) |-> A1[w[1] * c.lda + w[3]] * B1[w[2] * c.ldb + w[3]]])
  IN  [A |-> IF FlipsA(c) THEN Trans(A1, c.m, c.n) ELSE c.A,
       B |-> IF FlipsB(c) THEN Trans(B1, c.k, c.n) ELSE c.B,
       C |-> Scaled(c, sum)]

(***************************************************************************)
(* matrix_mul: one loop nest for each of the four cases.  In the last one  *)
(* C[i] is assigned in the loop over j (line 189): the first m cells get   *)
(* what belongs to the last column.                                        *)
(***************************************************************************)
RowRow(c) ==
  Accumulated(c, [w \in Steps(c) |-> c.ldc * w[1] + w[2]],
                 [w \in Steps(c) |-> c.A[w[1] * c.lda + w[3]] * c.B[w[3] * c.ldb + w[2]]])

RowCol(c) ==
  Accumulated(c, [w \in Steps(c) |-> w[1] * c.ldc + w[2]],
                 [w \in Steps(c) |-> c.A[w[1] * c.lda + w[3]] * c.B[w[2] * c.ldb + w[3]]])

ColRow(c) ==
  Accumulated(c, [w \in Steps(c) |-> w[1] * c.ldc + w[2]],
                 [w \in Steps(c) |-> c.A[w[3] * c.lda + w[1]] * c.B[w[2] + c.ldb * w[3]]])

ColCol(c) ==
  Accumulated(c, [w \in Steps(c) |-> w[1] + w[2] * c.ldc],
                 [w \in Steps(c) |-> c.A[w[3] * c.lda + w[1]] * c.B[w[2] * c.ldb + w[3]]])

MatrixMul(c) ==
  CASE RowTimesRow(c)                     -> Scaled(c, RowRow(c))
    [] RowTimesCol(c)                     -> Scaled(c, RowCol(c))
    [] ~RowPath(c) /\ c.tb = "NoTrans"    -> Scaled(c, ColRow(c))
    [] OTHER ->
         [x \in DOMAIN c.C |->
            IF x < c.m THEN c.alpha * ColCol(c)[(c.n - 1) * c.n + x] + c.beta * c.C[x * c.n + c.n - 1]
                       ELSE c.C[x]]
=============================================================================
