-------------------------------- MODULE Blas --------------------------------
(***************************************************************************)
(* What a call of the CBLAS routine dgemm means.  The program compares its *)
(* own product with cblas_dgemm (Project5, main.c:44 and cal_error), so    *)
(* this is the reference every multiplication of matmul.c is checked       *)
(* against.  CBLAS itself is not part of the repository.                   *)
(*                                                                         *)
(* A call is a record with the arguments' names of matmul.h:               *)
(*   layout, ta, tb, m, n, k, alpha, A, lda, B, ldb, beta, C, ldc          *)
(* where A, B and C are the flat buffers, functions on 0..length-1.        *)
(* Doubles are modelled by integers: the properties concern which terms    *)
(* are added where, never how a sum of doubles is rounded.                 *)
(***************************************************************************)
EXTENDS Integers, Functions

RowMajor(c) == c.layout = "RowMajor"

\* The element (i, l) of op(A) and the element (l, j) of op(B).
OpA(c, i, l) == IF RowMajor(c) <=> (c.ta = "NoTrans")
                THEN c.A[i * c.lda + l] ELSE c.A[l * c.lda + i]
OpB(c, l, j) == IF RowMajor(c) <=> (c.tb = "NoTrans")
                THEN c.B[l * c.ldb + j] ELSE c.B[j * c.ldb + l]

\* The element (i, j) of op(A) op(B).
Product(c, i, j) == SumFunction([l \in 0..(c.k - 1) |-> OpA(c, i, l) * OpB(c, l, j)])

\* The row and the column of the element of C at address x.
RowOf(c, x) == IF RowMajor(c) THEN x \div c.ldc ELSE x % c.ldc
ColOf(c, x) == IF RowMajor(c) THEN x % c.ldc ELSE x \div c.ldc

\* alpha op(A) op(B) + beta C, as a buffer.
Gemm(c) ==
  [x \in DOMAIN c.C |->
     c.alpha * Product(c, RowOf(c, x), ColOf(c, x)) + c.beta * c.C[x]]
=============================================================================
