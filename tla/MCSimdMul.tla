----------------------------- MODULE MCSimdMul -----------------------------
(***************************************************************************)
(* A^T B with two vectors in each build: for AVX2 1 x 3 times 3 x 8, two   *)
(* vectors in a row, for NEON 2 x 3 times 3 x 2, one vector in each row.   *)
(***************************************************************************)
EXTENDS SimdMul

MCCall(b) ==
  LET m == IF b = "avx2" THEN 1 ELSE 2
      n == IF b = "avx2" THEN 8 ELSE 2
  IN  [build |-> b, layout |-> "RowMajor", ta |-> "Trans", tb |-> "NoTrans",
       m |-> m, n |-> n, k |-> K, alpha |-> 3, beta |-> 2, lda |-> m, ldb |-> n, ldc |-> n,
       A |-> [x \in Buffer(m * K) |-> x * x + x + 1],
       B |-> [x \in Buffer(K * n) |-> 1 + x * (x + 5)],
       C |-> [x \in Buffer(m * n) |-> 1000 + x]]

\* The bounds of the second part of ProductUnlessLost are not empty ones.
ASSUME PositiveCalls == \A b \in Builds : Positive(MCCall(b))
=============================================================================
