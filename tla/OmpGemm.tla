------------------------------ MODULE OmpGemm ------------------------------
(***************************************************************************)
(* One call of matrix_SIMD_final_mul (Project5, matmul.c:426-506) executed *)
(* by an OpenMP team.  Each of its branches has the same form:             *)
(*                                                                         *)
(*   enter   transpose B in place when the last branch needs it, allocate  *)
(*           and clear the temporary product sum                           *)
(*   rows    #pragma omp parallel for schedule(dynamic): one row (column)  *)
(*           of the product per iteration, stored vector by vector         *)
(*   scale   #pragma omp parallel for schedule(dynamic): C from sum        *)
(*   leave   free sum, transpose B again                                   *)
(*                                                                         *)
(* Threads take the next iteration of the current loop one by one (dynamic *)
(* schedule, chunk 1) and the implicit barrier at the end of a loop waits  *)
(* for all of them.  A step is one store: the stores of different threads  *)
(* interleave in every order.                                              *)
(***************************************************************************)
EXTENDS GemmKernel

CONSTANTS Threads,    \* the OpenMP team
          Calls       \* the calls considered

VARIABLES call,       \* the arguments of the call
          phase,      \* which part of the function runs
          next,       \* the next iteration the schedule hands out
          iter,       \* the iteration each thread is in, or Idle
          pos,        \* the stores it has made in it
          sum,        \* the temporary product; empty when not allocated
          B, C        \* the caller's buffers

vars == <<call, phase, next, iter, pos, sum, B, C>>

Idle == -1
Phases == {"enter", "rows", "scale", "done"}

Iters(p)  == IF p = "rows" THEN RowsIters(call)  ELSE ScaleIters(call)
Stores(p) == IF p = "rows" THEN RowsStores(call) ELSE ScaleStores(call)

NoBuffer == [x \in {} |-> 0]

Init ==
  /\ call \in Calls
  /\ phase = "enter"
  /\ next = 0
  /\ iter = [t \in Threads |-> Idle]
  /\ pos = [t \in Threads |-> 0]
  /\ sum = NoBuffer
  /\ B = call.B
  /\ C = call.C

Enter ==
  /\ phase = "enter"
  /\ phase' = "rows"
  /\ B' = Flip(call, B)
  /\ sum' = [x \in Buffer(call.m * call.n) |-> 0]
  /\ UNCHANGED <<call, next, iter, pos, C>>

\* An idle thread takes the next iteration; one without stores ends at once.
Take(t) ==
  /\ phase \in {"rows", "scale"}
  /\ iter[t] = Idle
  /\ next < Iters(phase)
  /\ next' = next + 1
  /\ iter' = [iter EXCEPT ![t] = IF Stores(phase) > 0 THEN next ELSE Idle]
  /\ pos' = [pos EXCEPT ![t] = 0]
  /\ UNCHANGED <<call, phase, sum, B, C>>

\* The thread has made a store; after the last one its iteration is over.
Advance(t) ==
  /\ pos' = [pos EXCEPT ![t] = @ + 1]
  /\ iter' = [iter EXCEPT ![t] = IF pos[t] + 1 < Stores(phase) THEN @ ELSE Idle]

StoreSum(t) ==
  /\ phase = "rows"
  /\ iter[t] # Idle
  /\ sum' = [x \in DOMAIN sum |->
               IF x \in SumCells(call, iter[t], pos[t])
               THEN SumValue(call, B, sum, iter[t], pos[t], x)
               ELSE sum[x]]
  /\ Advance(t)
  /\ UNCHANGED <<call, phase, next, B, C>>

StoreC(t) ==
  /\ phase = "scale"
  /\ iter[t] # Idle
  /\ C' = [C EXCEPT ![ScaleCell(call, iter[t], pos[t])] =
                      ScaleValue(call, sum, C, iter[t], pos[t])]
  /\ Advance(t)
  /\ UNCHANGED <<call, phase, next, sum, B>>

\* Variant: nowait, the loop is left while iterations are still running.
LoopHandedOut == next >= Iters(phase)

\* The implicit barrier at the end of a parallel loop.
LoopOver == next >= Iters(phase) /\ \A t \in Threads : iter[t] = Idle

EndRows ==
  /\ phase = "rows" /\ LoopOver
  /\ phase' = "scale"
  /\ next' = 0
  /\ UNCHANGED <<call, iter, pos, sum, B, C>>

\* Variants: sum is not freed, B is not transposed back.
LeaveWithoutFree ==
  /\ phase = "scale" /\ LoopOver
  /\ phase' = "done"
  /\ B' = Flip(call, B)
  /\ UNCHANGED <<call, next, iter, pos, sum, C>>
LeaveWithoutTrans ==
  /\ phase = "scale" /\ LoopOver
  /\ phase' = "done"
  /\ sum' = NoBuffer
  /\ UNCHANGED <<call, next, iter, pos, B, C>>

Leave ==
  /\ phase = "scale" /\ LoopOver
  /\ phase' = "done"
  /\ sum' = NoBuffer
  /\ B' = Flip(call, B)
  /\ UNCHANGED <<call, next, iter, pos, C>>

Worker(t) == Take(t) \/ StoreSum(t) \/ StoreC(t)
Master == Enter \/ EndRows \/ Leave

\* The call has returned; nothing happens any more.
Returned == phase = "done" /\ UNCHANGED vars

Next == Master \/ (\E t \in Threads : Worker(t)) \/ Returned

\* Every thread of the team is scheduled by the operating system again and
\* again, and the thread that called the function executes its serial parts.
Fairness == WF_vars(Master) /\ \A t \in Threads : WF_vars(Worker(t))

Spec == Init /\ [][Next]_vars /\ Fairness
-----------------------------------------------------------------------------
(***************************************************************************)
(* The calls for which the function computes GEMM.  The loops of Oneline   *)
(* run over m where the inner dimension is k (lines 445 and 490), line 499 *)
(* reads sum as if it had n rows, only whole vectors are stored, the       *)
(* leading dimensions are ignored in places, and the column-major layout   *)
(* is never written.  main.c:19-24 passes m = n = k = lda = ldb = ldc, a   *)
(* multiple of the vector length.                                          *)
(***************************************************************************)
Supported(c) ==
  /\ c.build \in {"avx2", "neon"}
  /\ c.layout = "RowMajor" /\ c.ta \in {"NoTrans", "Trans"} /\ c.tb \in {"NoTrans", "Trans"}
  /\ {c.m, c.n, c.k} \subseteq Nat \ {0} /\ {c.lda, c.ldb} \subseteq Nat /\ c.ldc = c.n
  /\ {c.alpha, c.beta} \subseteq Int
  /\ c.A \in [DOMAIN c.A -> Int]
  /\ c.B \in [Buffer(c.k * c.n) -> Int]
  /\ c.C \in [Buffer(c.m * c.n) -> Int]
  /\ RowTimesRow(c) =>
       /\ c.k = c.m /\ c.ldb = c.n /\ c.n % Lanes(c) = 0
       /\ \A i, l \in 0..(c.m - 1) : i * c.lda + l \in DOMAIN c.A
  /\ RowTimesCol(c) =>
       /\ c.build = "avx2" /\ c.k % 4 = 0
       /\ \A i \in 0..(c.m - 1), l \in 0..(c.k - 1) : i * c.lda + l \in DOMAIN c.A
       /\ \A j \in 0..(c.n - 1), l \in 0..(c.k - 1) : j * c.ldb + l \in DOMAIN c.B
  /\ ~RowPath(c) =>
       /\ c.k = c.n /\ c.m = c.n /\ c.lda = c.m /\ c.ldb = c.n /\ c.m % Lanes(c) = 0
       /\ DOMAIN c.A = Buffer(c.m * c.k)

TypeOK ==
  /\ call \in Calls
  /\ phase \in Phases
  /\ next \in 0..Iters(phase)
  /\ iter \in [Threads -> {Idle} \cup Nat]
  /\ pos \in [Threads -> Nat]
  /\ DOMAIN sum = IF phase \in {"rows", "scale"} THEN Buffer(call.m * call.n) ELSE {}
  /\ DOMAIN B = DOMAIN call.B
  /\ DOMAIN C = DOMAIN call.C

\* The cells thread t writes before it takes another iteration.
StillToWrite(t) ==
  UNION {IF phase = "rows" THEN SumCells(call, iter[t], s) ELSE {ScaleCell(call, iter[t], s)} :
           s \in pos[t]..(Stores(phase) - 1)}

(***************************************************************************)
(* No two threads of the team ever have a store to the same cell ahead of  *)
(* them: the loops need no lock and no atomic (lines 440-446, 459-468,     *)
(* 485-491 on sum and 447-451, 469-473, 492-502 on C).                     *)
(***************************************************************************)
NoSharedStore ==
  \A t, u \in Threads :
    t # u /\ iter[t] # Idle /\ iter[u] # Idle => StillToWrite(t) \cap StillToWrite(u) = {}

(***************************************************************************)
(* When the second loop starts to read sum, the whole product is there,    *)
(* whichever thread computed which part and in whatever order: each cell   *)
(* was computed, once, from B as the branch needs it.                      *)
(***************************************************************************)
ProductBeforeScale ==
  phase = "scale" =>
    \A i \in 0..(call.m - 1), j \in 0..(call.n - 1) :
      sum[IF RowPath(call) THEN i * call.n + j ELSE j * call.m + i] = Product(call, i, j)

(***************************************************************************)
(* Every cell of C goes from the caller's value to its final value in one  *)
(* store: beta is never applied twice and no cell shows a partial product. *)
(***************************************************************************)
OldOrFinal == \A x \in DOMAIN C : C[x] \in {call.C[x], Gemm(call)[x]}

(***************************************************************************)
(* The call implements DgemmCall: to the caller, who can look at B and C   *)
(* only when the function has returned, C changes in one step to the GEMM  *)
(* of the arguments, and B is never changed.                               *)
(***************************************************************************)
Abstract == INSTANCE DgemmCall WITH
  returned <- phase = "done",
  B <- IF phase = "done" THEN B ELSE call.B,
  C <- IF phase = "done" THEN C ELSE call.C

Implements == Abstract!Spec

(***************************************************************************)
(* What the repository says of the function: it is GEMM (README.md:7) of   *)
(* a const double *B (matmul.h:22-25).                                     *)
(***************************************************************************)
ResultIsGemm == phase = "done" => C = Gemm(call)
BRestored == phase = "done" => B = call.B
=============================================================================
