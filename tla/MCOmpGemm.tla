----------------------------- MODULE MCOmpGemm -----------------------------
(***************************************************************************)
(* Calls of matrix_SIMD_final_mul for TLC.  The entries of the matrices    *)
(* are pairwise different, so that a wrong index gives a wrong product,    *)
(* and those of A are even, so that the halving of DotAdd is exact.        *)
(***************************************************************************)
EXTENDS MatmulVersions

CallOf(build, layout, ta, tb, m, n, k, lda, ldb) ==
  [build |-> build, layout |-> layout, ta |-> ta, tb |-> tb, m |-> m, n |-> n, k |-> k,
   alpha |-> 3, beta |-> 2, lda |-> lda, ldb |-> ldb, ldc |-> n,
   A |-> [x \in Buffer(m * k) |-> 2 * (x * x + x + 1)],
   B |-> [x \in Buffer(k * n) |-> 1 + x * (x + 5)],
   C |-> [x \in Buffer(m * n) |-> 1000 + x]]

\* A call as a C programmer writes it: row-major, dense matrices.
Dense(build, ta, tb, m, n, k) ==
  CallOf(build, "RowMajor", ta, tb, m, n, k,
         IF ta = "NoTrans" THEN k ELSE m, IF tb = "NoTrans" THEN n ELSE k)

\* The shapes each branch supports, not all of them square.
Shapes ==
  {Dense("avx2", "NoTrans", "NoTrans", 2, 4, 2), Dense("avx2", "NoTrans", "Trans", 2, 3, 4),
   Dense("avx2", "Trans", "NoTrans", 4, 4, 4), Dense("avx2", "Trans", "Trans", 4, 4, 4),
   Dense("neon", "NoTrans", "NoTrans", 3, 4, 3), Dense("neon", "Trans", "NoTrans", 2, 2, 2),
   Dense("neon", "Trans", "Trans", 2, 2, 2)}

\* Shapes that GEMM allows and a branch does not expect.
LongInner == {Dense("avx2", "NoTrans", "NoTrans", 2, 4, 3)}
WideB     == {Dense("avx2", "Trans", "NoTrans", 4, 2, 4)}
Unexpected ==
  LongInner \cup WideB \cup
  {Dense("avx2", "NoTrans", "NoTrans", 2, 5, 2),      \* a column beyond the vectors
   Dense("avx2", "NoTrans", "Trans", 2, 2, 5),        \* a tail of the dot product
   Dense("avx2", "Trans", "Trans", 4, 2, 2),          \* a product that is not square
   Dense("neon", "NoTrans", "Trans", 2, 2, 4),        \* the NEON dot product
   CallOf("avx2", "ColMajor", "Trans", "NoTrans", 4, 4, 4, 4, 4)}

\* Supported is the boundary between the two.
ASSUME SupportedShapes == \A c \in Shapes : Supported(c)
ASSUME UnexpectedShapes == \A c \in Unexpected : ~Supported(c)
\* matrix_mul has none of these restrictions, except for two transposed matrices.
ASSUME ScalarShapes ==
  \A c \in Unexpected :
    c.layout = "RowMajor" /\ (c.ta = "NoTrans" \/ c.tb = "NoTrans") => MatrixMul(c) = Gemm(c)
=============================================================================
