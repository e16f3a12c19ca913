------------------------------ MODULE DgemmCall ------------------------------
(***************************************************************************)
(* What a caller of matrix_SIMD_final_mul may rely on: the call returns    *)
(* once, C then holds the GEMM of the values the function was called with, *)
(* and B, declared const double *, is what it was.  Nothing of the         *)
(* threads, of the temporary product or of the order of the stores is      *)
(* visible.                                                                *)
(***************************************************************************)
CONSTANTS Calls,      \* the calls: records with the buffers B and C
          Gemm(_)     \* alpha op(A) op(B) + beta C of a call

VARIABLES call, returned, B, C

vars == <<call, returned, B, C>>

Init ==
  /\ call \in Calls
  /\ returned = FALSE
  /\ B = call.B
  /\ C = call.C

Return ==
  /\ ~returned
  /\ returned' = TRUE
  /\ C' = Gemm(call)
  /\ UNCHANGED <<call, B>>

Next == Return

\* What is promised of the result, and that the call returns at all.
Safe == Init /\ [][Next]_vars
Spec == Safe /\ WF_vars(Next)
=============================================================================
