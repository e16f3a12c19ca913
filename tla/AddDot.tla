------------------------------- MODULE AddDot -------------------------------
(***************************************************************************)
(* matmul_SIMD_addDotToMatrix (Project5, matmul.c:270-329): the product as *)
(* a sum of K outer products, one per iteration of a parallel for.  The    *)
(* iterations ADD to the same vectors result[slot], and the addition       *)
(*                                                                         *)
(*     result[slot] = _mm256_add_pd(result[slot], ..)                      *)
(*                                                                         *)
(* is a load and a store: two threads can load the same old value.         *)
(*                                                                         *)
(* The value of a vector is abstracted to the terms it contains: a         *)
(* function from the iterations to the number of times the product of that *)
(* iteration was added.                                                    *)
(***************************************************************************)
EXTENDS Integers

CONSTANTS Builds,     \* the builds considered: "avx2" or "neon", a #define of matmul.c
          Threads,    \* the OpenMP team
          Master,     \* the thread that called the function
          Slots,      \* the vectors of result: m * (n \div Lanes)
          K           \* the inner dimension

ASSUME AddDotAssumption ==
  /\ Builds \subseteq {"avx2", "neon"}
  /\ Master \in Threads
  /\ Slots \in Nat \ {0}
  /\ K \in Nat \ {0}

VARIABLES build,      \* the build that runs
          phase,      \* "dot", "copy" or "done"
          todo,       \* the iterations not handed out yet
          iter,       \* the iteration each thread is in, or Idle
          pos,        \* the vector it works on
          reg,        \* what it loaded, or Nothing
          result,     \* the shared accumulators
          sum,        \* the caller's buffer, vector by vector
          lost,       \* history: a store has overwritten another thread's
          last        \* history: the iteration that stored each vector last

vars == <<build, phase, todo, iter, pos, reg, result, sum, lost, last>>

Terms == 0..(K - 1)
SlotSet == 0..(Slots - 1)
Vectors == [Terms -> Nat]
Zero == [l \in Terms |-> 0]
Idle == -1
Nothing == [l \in {} |-> 0]

\* Variant: the accumulators are not cleared after aligned_alloc.
InitNotCleared ==
  /\ build \in Builds
  /\ phase = "dot"
  /\ todo = Terms
  /\ iter = [t \in Threads |-> Idle]
  /\ pos = [t \in Threads |-> 0]
  /\ reg = [t \in Threads |-> Nothing]
  /\ result = [x \in SlotSet |-> [l \in Terms |-> 1]]
  /\ sum = [x \in SlotSet |-> Zero]
  /\ lost = FALSE
  /\ last = [x \in SlotSet |-> Idle]

Init ==
  /\ build \in Builds
  /\ phase = "dot"
  /\ todo = Terms
  /\ iter = [t \in Threads |-> Idle]
  /\ pos = [t \in Threads |-> 0]
  /\ reg = [t \in Threads |-> Nothing]
  /\ result = [x \in SlotSet |-> Zero]
  /\ sum = [x \in SlotSet |-> Zero]
  /\ lost = FALSE
  /\ last = [x \in SlotSet |-> Idle]

\* schedule(dynamic) hands the iterations out in order (line 280); the NEON
\* loop has no schedule clause, so which thread runs what is left open.
HandsOut(l) == l \in todo /\ (build = "avx2" => \A o \in todo : l <= o)

\* Variant: the loop counts from 1 to K.
TakeFromOne(t) ==
  /\ phase = "dot" /\ iter[t] = Idle
  /\ \E l \in todo :
       /\ HandsOut(l)
       /\ todo' = todo \ {l}
       /\ iter' = [iter EXCEPT ![t] = l + 1]
  /\ pos' = [pos EXCEPT ![t] = 0]
  /\ UNCHANGED <<build, phase, reg, result, sum, lost, last>>

Take(t) ==
  /\ phase = "dot" /\ iter[t] = Idle
  /\ \E l \in todo :
       /\ HandsOut(l)
       /\ todo' = todo \ {l}
       /\ iter' = [iter EXCEPT ![t] = l]
  /\ pos' = [pos EXCEPT ![t] = 0]
  /\ UNCHANGED <<build, phase, reg, result, sum, lost, last>>

Load(t) ==
  /\ phase = "dot" /\ iter[t] # Idle /\ reg[t] = Nothing
  /\ reg' = [reg EXCEPT ![t] = result[pos[t]]]
  /\ UNCHANGED <<build, phase, todo, iter, pos, result, sum, lost, last>>

\* Variant: the result of the addition is not used.
AddedNothing(t) == reg[t]

Added(t) == [reg[t] EXCEPT ![iter[t]] = @ + 1]

Store(t) ==
  /\ phase = "dot" /\ iter[t] # Idle /\ reg[t] # Nothing
  /\ result' = [result EXCEPT ![pos[t]] = Added(t)]
  /\ lost' = (lost \/ result[pos[t]] # reg[t])
  /\ last' = [last EXCEPT ![pos[t]] = iter[t]]
  /\ reg' = [reg EXCEPT ![t] = Nothing]
  /\ pos' = [pos EXCEPT ![t] = @ + 1]
  /\ iter' = [iter EXCEPT ![t] = IF pos[t] + 1 < Slots THEN @ ELSE Idle]
  /\ UNCHANGED <<build, phase, todo, sum>>

\* Variant: nowait, the copy starts while iterations are still running.
EndDotNoWait ==
  /\ phase = "dot" /\ todo = {}
  /\ phase' = "copy"
  /\ pos' = [t \in Threads |-> 0]
  /\ UNCHANGED <<build, todo, iter, reg, result, sum, lost, last>>

\* The barrier of the parallel for, and the start of the copy loop.
EndDot ==
  /\ phase = "dot" /\ todo = {}
  /\ \A t \in Threads : iter[t] = Idle
  /\ phase' = "copy"
  /\ pos' = [t \in Threads |-> 0]
  /\ UNCHANGED <<build, todo, iter, reg, result, sum, lost, last>>

(***************************************************************************)
(* Copying result to sum: the caller alone on AVX2 (line 293); on NEON the *)
(* whole team, each thread copying everything, because the directive is    *)
(* parallel without for (line 321).                                        *)
(***************************************************************************)
Copiers == IF build = "avx2" THEN {Master} ELSE Threads

\* Variant: the copying loop does not advance.
CopyInPlace(t) ==
  /\ phase = "copy" /\ t \in Copiers /\ pos[t] < Slots
  /\ sum' = [sum EXCEPT ![pos[t]] = result[pos[t]]]
  /\ UNCHANGED <<build, phase, todo, iter, pos, reg, result, lost, last>>

Copy(t) ==
  /\ phase = "copy" /\ t \in Copiers /\ pos[t] < Slots
  /\ sum' = [sum EXCEPT ![pos[t]] = result[pos[t]]]
  /\ pos' = [pos EXCEPT ![t] = @ + 1]
  /\ UNCHANGED <<build, phase, todo, iter, reg, result, lost, last>>

Leave ==
  /\ phase = "copy"
  /\ \A t \in Copiers : pos[t] = Slots
  /\ phase' = "done"
  /\ UNCHANGED <<build, todo, iter, pos, reg, result, sum, lost, last>>

Worker(t) == Take(t) \/ Load(t) \/ Store(t) \/ Copy(t)
Serial == EndDot \/ Leave
Returned == phase = "done" /\ UNCHANGED vars

Next == Serial \/ (\E t \in Threads : Worker(t)) \/ Returned

Fairness == WF_vars(Serial) /\ \A t \in Threads : WF_vars(Worker(t))

Spec == Init /\ [][Next]_vars /\ Fairness
-----------------------------------------------------------------------------
TypeOK ==
  /\ build \in Builds
  /\ phase \in {"dot", "copy", "done"}
  /\ todo \subseteq Terms
  /\ iter \in [Threads -> {Idle} \cup Terms]
  /\ pos \in [Threads -> 0..Slots]
  /\ reg \in [Threads -> {Nothing} \cup Vectors]
  /\ result \in [SlotSet -> Vectors]
  /\ sum \in [SlotSet -> Vectors]
  /\ lost \in BOOLEAN
  /\ last \in [SlotSet -> {Idle} \cup Terms]

\* The thread running iteration l has stored vector x, or l is over.
Passed(l, x) == l \notin todo /\ \A t \in Threads : iter[t] = l => x < pos[t]

(***************************************************************************)
(* Even with the data race no product is ever counted twice, and none      *)
(* appears before its iteration stored it: a thread can lose the work of   *)
(* others but never repeat it (line 288).                                  *)
(***************************************************************************)
AtMostOnce ==
  \A x \in SlotSet, l \in Terms :
    result[x][l] <= 1 /\ (result[x][l] = 1 => Passed(l, x))

(***************************************************************************)
(* The race is the only defect: as long as no store has overwritten a      *)
(* value its thread had not loaded, every vector contains exactly the      *)
(* products of the iterations that passed it, and what the function        *)
(* returns is complete.                                                    *)
(***************************************************************************)
ExactUnlessLost ==
  ~lost => /\ \A x \in SlotSet, l \in Terms : result[x][l] = IF Passed(l, x) THEN 1 ELSE 0
           /\ phase = "done" => sum = [x \in SlotSet |-> [l \in Terms |-> 1]]

(***************************************************************************)
(* The iteration that stores a vector last is in it, once: whatever the    *)
(* race of line 288 loses, it is the work of others.  An iteration that    *)
(* passed a vector leaves it with a last writer, and what the function     *)
(* returns contains the last writer of every vector.                       *)
(***************************************************************************)
LastWriterCounts ==
  /\ \A x \in SlotSet :
       /\ (\E l \in Terms : Passed(l, x)) => last[x] # Idle
       /\ last[x] # Idle => Passed(last[x], x) /\ result[x][last[x]] = 1
  /\ phase = "done" => \A x \in SlotSet : last[x] # Idle /\ sum[x][last[x]] = 1

(***************************************************************************)
(* The sum of the outer products: "n*m matrices, summed" (the comment at   *)
(* line 384 on the branch that calls the function).                        *)
(***************************************************************************)
Complete == phase = "done" => sum = [x \in SlotSet |-> [l \in Terms |-> 1]]
=============================================================================
