------------------------------ MODULE SimdMul ------------------------------
(***************************************************************************)
(* matrix_SIMD_mul (matmul.c:331-424) for A^T B, its third branch: sum is  *)
(* computed by matmul_SIMD_addDotToMatrix (module AddDot) and then scaled  *)
(* into C.  (Its other branches are those of matrix_SIMD_final_mul, module *)
(* OmpGemm, statement by statement.)                                       *)
(*                                                                         *)
(* AddDot says how often each product is in a vector; here is what these   *)
(* vectors are worth and where they lie: vector v holds the lanes of row   *)
(* v \div moor from column Lanes * (v % moor) on, and goes to the cells of *)
(* sum from Lanes * v on.                                                  *)
(***************************************************************************)
EXTENDS AddDot, GemmKernel

CONSTANT Call(_)      \* the arguments in each build

\* The shapes the branch expects: dense row-major matrices whose rows consist
\* of whole vectors.
Shaped(c) ==
  /\ c.layout = "RowMajor" /\ c.ta = "Trans" /\ c.tb = "NoTrans"
  /\ {c.m, c.n} \subseteq Nat \ {0} /\ c.k = K /\ c.n % Lanes(c) = 0
  /\ c.lda = c.m /\ c.ldb = c.n /\ c.ldc = c.n
  /\ {c.alpha, c.beta} \subseteq Int
  /\ c.A \in [Buffer(c.m * c.k) -> Int]
  /\ c.B \in [Buffer(c.k * c.n) -> Int]
  /\ c.C \in [Buffer(c.m * c.n) -> Int]

\* Each call is made in its build, and result has room for its product.
ASSUME SimdMulAssumption ==
  \A b \in Builds : /\ Call(b).build = b /\ Shaped(Call(b))
                   /\ Call(b).m * (Call(b).n \div Lanes(Call(b))) = Slots

VARIABLES returned, C

Arguments == Call(build)

moor == Arguments.n \div Lanes(Arguments)

\* Variant: A is read as if it were not transposed.
ProductInUntransposed(v, j, l) ==
  Arguments.A[((v \div moor) * Arguments.k) + l]
  * Arguments.B[(Lanes(Arguments) * (v % moor)) + j + (l * Arguments.n)]

\* What iteration l adds to lane j of vector v.
ProductIn(v, j, l) ==
  Arguments.A[(v \div moor) + (l * Arguments.m)]
  * Arguments.B[(Lanes(Arguments) * (v % moor)) + j + (l * Arguments.n)]

\* The buffer sum as the second loop reads it.
SumAt(x) ==
  LET v == x \div Lanes(Arguments)
  IN  SumFunction([l \in Terms |-> sum[v][l] * ProductIn(v, x % Lanes(Arguments), l)])

MulInit == Init /\ returned = FALSE /\ C = Arguments.C

AddDotStep(t) == Worker(t) /\ UNCHANGED <<returned, C>>
AddDotSerial == Serial /\ UNCHANGED <<returned, C>>

\* The loop over the cells of C (lines 395-396); its iterations touch one
\* cell each, so their order does not matter.
Scale ==
  /\ phase = "done" /\ ~returned
  /\ C' = [x \in DOMAIN C |-> Arguments.alpha * SumAt(x) + Arguments.beta * C[x]]
  /\ returned' = TRUE
  /\ UNCHANGED vars

Ended == returned /\ UNCHANGED <<vars, returned, C>>

MulNext == AddDotSerial \/ Scale \/ (\E t \in Threads : AddDotStep(t)) \/ Ended

MulSpec ==
  /\ MulInit /\ [][MulNext]_<<vars, returned, C>>
  /\ WF_<<vars, returned, C>>(AddDotSerial \/ Scale)
  /\ \A t \in Threads : WF_<<vars, returned, C>>(AddDotStep(t))
-----------------------------------------------------------------------------
\* main.c fills the matrices with rand.
Positive(c) ==
  c.alpha > 0 /\ (\A x \in DOMAIN c.A : c.A[x] > 0) /\ (\A x \in DOMAIN c.B : c.B[x] > 0)

(***************************************************************************)
(* The product is the GEMM of the arguments whenever the race overwrote no *)
(* store; when it did, every cell still has between one and all of its     *)
(* terms, each once: with positive matrices a cell is too small, never too *)
(* large, and never empty (line 288).                                      *)
(***************************************************************************)
ProductUnlessLost ==
  returned =>
    /\ ~lost => C = Gemm(Arguments)
    /\ Positive(Arguments) =>
         \A x \in DOMAIN C :
           /\ C[x] <= Gemm(Arguments)[x]
           /\ C[x] > Arguments.beta * Arguments.C[x]

(***************************************************************************)
(* The multiplication returns, for every schedule of the racing loop.      *)
(***************************************************************************)
MulReturns == <>returned
=============================================================================
