--------------------------- MODULE MatmulVersions ---------------------------
(***************************************************************************)
(* The versions of the multiplication in matmul.c next to each other: for  *)
(* the same call, what the parallel one (OmpGemm) leaves in C and what the *)
(* two scalar ones (ScalarGemm) do.                                        *)
(***************************************************************************)
EXTENDS OmpGemm, ScalarGemm

Square(c) == c.m = c.n /\ c.n = c.k

\* What transposing in place with the wrong shape leaves right.
EasyShape(c) == Square(c) \/ (RowPath(c) /\ (c.tb = "Trans" \/ c.n = c.k))

(***************************************************************************)
(* However the team interleaves, the parallel multiplication ends with the *)
(* C that matrix_mul computes from the same arguments, unless both         *)
(* matrices are transposed: then matrix_mul leaves all but m cells of C    *)
(* alone (line 189).  matrix_easy_mul agrees where its transpositions in   *)
(* place undo each other, and gives A and B back.                          *)
(***************************************************************************)
ScalarVersionsAgree ==
  phase = "done" /\ call.layout = "RowMajor" =>
    /\ call.ta = "NoTrans" \/ call.tb = "NoTrans" => MatrixMul(call) = C
    /\ call.ta = "Trans" /\ call.tb = "Trans" =>
         \A x \in DOMAIN C : x >= call.m => MatrixMul(call)[x] = call.C[x]
    /\ EasyShape(call) => EasyMul(call) = [A |-> call.A, B |-> call.B, C |-> C]
=============================================================================
