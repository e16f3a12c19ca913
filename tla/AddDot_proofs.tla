---------------------------- MODULE AddDot_proofs ----------------------------
(***************************************************************************)
(* Proofs about AddDot for every team, every shape and either build.       *)
(***************************************************************************)
EXTENDS AddDot, TLAPS

\* Threads run different iterations, none of them still to be handed out.
Distinct ==
  \A t \in Threads :
    iter[t] # Idle => /\ iter[t] \notin todo
                      /\ pos[t] < Slots
                      /\ \A u \in Threads : u # t => iter[u] # iter[t]

\* A loaded vector has the terms a stored one may have.
LoadedOnce ==
  \A t \in Threads :
    reg[t] # Nothing =>
      /\ iter[t] # Idle
      /\ \A l \in Terms : reg[t][l] <= 1 /\ (reg[t][l] = 1 => Passed(l, pos[t]))

\* After the barrier every iteration is over.
Quiet == phase # "dot" => todo = {} /\ \A t \in Threads : iter[t] = Idle

Copied ==
  /\ phase = "copy" => \A t \in Copiers : \A x \in 0..(pos[t] - 1) : sum[x] = result[x]
  /\ phase = "done" => sum = result

ExactResult ==
  ~lost => \A x \in SlotSet, l \in Terms : result[x][l] = IF Passed(l, x) THEN 1 ELSE 0

\* Who passed a vector left it with a last writer, which is in it.
LastInResult ==
  \A x \in SlotSet :
    /\ (\E l \in Terms : Passed(l, x)) => last[x] # Idle
    /\ last[x] # Idle => Passed(last[x], x) /\ result[x][last[x]] = 1

IInv == /\ TypeOK
        /\ Distinct
        /\ LoadedOnce
        /\ Quiet
        /\ Copied
        /\ AtMostOnce
        /\ ExactResult
        /\ LastInResult

\* Where nothing is stored and nobody passes a vector, the last writers stay.
LEMMA KeepsLast ==
  ASSUME IInv, UNCHANGED <<last, result>>,
         \A l \in Terms, x \in SlotSet : Passed(l, x)' <=> Passed(l, x)
  PROVE  LastInResult'
<1> SUFFICES ASSUME NEW x \in SlotSet
             PROVE  /\ (\E l \in Terms : Passed(l, x)') => last[x] # Idle
                    /\ last[x] # Idle => Passed(last[x], x)' /\ result[x][last[x]] = 1
  BY DEF LastInResult
<1>1. last[x] \in {Idle} \cup Terms
  BY DEF IInv, TypeOK
<1>2. \A l \in Terms : l = last[x] => Passed(last[x], x)' = Passed(l, x)'
  BY DEF Passed
<1> QED BY <1>1, <1>2 DEF IInv, LastInResult

LEMMA NothingIsNoVector == Nothing \notin Vectors
<1>1. 0 \in Terms
  BY AddDotAssumption DEF Terms
<1>2. ASSUME Nothing \in Vectors PROVE FALSE
  <2>1. DOMAIN Nothing = Terms
    BY <1>2 DEF Vectors
  <2>2. DOMAIN Nothing = {}
    BY DEF Nothing
  <2> QED
    BY <1>1, <2>1, <2>2
<1> QED
  BY <1>2

LEMMA InitInv == Init => IInv
<1> SUFFICES ASSUME Init PROVE IInv
  OBVIOUS
<1> USE AddDotAssumption DEF Init
<1>1. TypeOK
  <2>1. Zero \in Vectors
    BY DEF Zero, Vectors
  <2>2. 0 \in 0..Slots
    OBVIOUS
  <2> QED
    BY <2>1, <2>2 DEF TypeOK
<1>2. \A x \in SlotSet, l \in Terms : result[x][l] = 0 /\ ~Passed(l, x)
  BY DEF Zero, Passed
<1>3. Distinct /\ LoadedOnce /\ Quiet /\ Copied
  BY DEF Distinct, LoadedOnce, Quiet, Copied
<1>4. AtMostOnce /\ ExactResult /\ LastInResult
  BY <1>2 DEF AtMostOnce, ExactResult, LastInResult
<1> QED
  BY <1>1, <1>3, <1>4 DEF IInv

\* Taking an iteration changes no vector, and nothing has passed by it.
LEMMA TakeInv == ASSUME IInv, NEW t \in Threads, Take(t) PROVE IInv'
<1> USE AddDotAssumption DEF Take
<1> PICK l \in todo : /\ HandsOut(l)
                      /\ todo' = todo \ {l}
                      /\ iter' = [iter EXCEPT ![t] = l]
  OBVIOUS
<1>1. l \in Terms /\ l # Idle
  BY DEF IInv, TypeOK, Terms, Idle
<1>2. TypeOK'
  BY <1>1 DEF IInv, TypeOK
<1>3. Distinct'
  BY <1>1 DEF IInv, TypeOK, Distinct
<1>4. \A k \in Terms, x \in SlotSet : Passed(k, x)' <=> Passed(k, x)
  <2> TAKE k \in Terms, x \in SlotSet
  <2>1. /\ iter'[t] = l /\ pos'[t] = 0
        /\ \A u \in Threads : u # t => iter'[u] = iter[u] /\ pos'[u] = pos[u]
    BY DEF IInv, TypeOK
  <2>2. CASE k = l
    <3>1. ~Passed(l, x) /\ ~Passed(l, x)'
      BY <2>1 DEF Passed, SlotSet
    <3> QED
      BY <2>2, <3>1
  <2>3. CASE k # l
    <3>1. k \in todo' <=> k \in todo
      BY <2>3
    <3>2. iter[t] # k /\ iter'[t] # k
      BY <2>1, <2>3 DEF Terms, Idle
    <3> QED
      BY <2>1, <3>1, <3>2 DEF Passed
  <2> QED
    BY <2>2, <2>3
<1>5. LoadedOnce'
  <2> SUFFICES ASSUME NEW u \in Threads, reg'[u] # Nothing
               PROVE  /\ iter'[u] # Idle
                      /\ \A k \in Terms : reg'[u][k] <= 1 /\ (reg'[u][k] = 1 => Passed(k, pos[u])')
    BY DEF LoadedOnce, IInv, TypeOK
  <2>1. u # t /\ iter[u] # Idle
    BY DEF IInv, LoadedOnce
  <2>2. pos'[u] = pos[u] /\ iter'[u] = iter[u] /\ pos[u] \in SlotSet
    BY <2>1 DEF IInv, TypeOK, Distinct, SlotSet
  <2> QED
    BY <2>1, <2>2, <1>4 DEF IInv, LoadedOnce
<1>6. Quiet' /\ Copied'
  BY DEF IInv, Quiet, Copied
<1>7. AtMostOnce' /\ ExactResult' /\ LastInResult'
  BY <1>4, KeepsLast DEF IInv, AtMostOnce, ExactResult
<1> QED
  BY <1>2, <1>3, <1>5, <1>6, <1>7 DEF IInv

LEMMA LoadInv == ASSUME IInv, NEW t \in Threads, Load(t) PROVE IInv'
<1> USE AddDotAssumption DEF Load
<1>1. pos[t] \in SlotSet /\ result[pos[t]] \in Vectors
  BY DEF IInv, TypeOK, Distinct, SlotSet
<1>2. TypeOK'
  BY <1>1 DEF IInv, TypeOK
<1>3. \A k, x : Passed(k, x)' <=> Passed(k, x)
  BY DEF Passed
<1>4. LoadedOnce'
  BY <1>1, <1>3 DEF IInv, TypeOK, LoadedOnce, AtMostOnce
<1>5. Distinct' /\ Quiet' /\ Copied'
  BY DEF IInv, Distinct, Quiet, Copied
<1>6. AtMostOnce' /\ ExactResult' /\ LastInResult'
  BY <1>3 DEF IInv, AtMostOnce, ExactResult, LastInResult
<1> QED
  BY <1>2, <1>4, <1>5, <1>6 DEF IInv

(***************************************************************************)
(* A store makes its iteration pass one more vector, and writes a vector   *)
(* with the terms it had loaded and its own, which was not among them.     *)
(***************************************************************************)
LEMMA StoreInv == ASSUME IInv, NEW t \in Threads, Store(t) PROVE IInv'
<1> USE AddDotAssumption DEF Store
<1> PICK x, k : x = pos[t] /\ k = iter[t]
  OBVIOUS
<1>1. /\ x \in SlotSet /\ x < Slots /\ x \in Nat /\ k \in Terms /\ reg[t] \in Vectors
      /\ k \notin todo
      /\ reg[t][k] \in Nat
  BY DEF IInv, TypeOK, Distinct, SlotSet, Vectors, Idle
<1>2. /\ result'[x] = Added(t)
      /\ \A y \in SlotSet : y # x => result'[y] = result[y]
  BY <1>1 DEF IInv, TypeOK
<1>3. /\ Added(t) \in Vectors
      /\ Added(t)[k] = reg[t][k] + 1
      /\ \A l \in Terms : l # k => Added(t)[l] = reg[t][l]
  BY <1>1 DEF Added, Vectors
<1>4. TypeOK'
  <2>1. result' \in [SlotSet -> Vectors]
    BY <1>1, <1>3 DEF IInv, TypeOK
  <2>2. pos' \in [Threads -> 0..Slots]
    <3>1. pos[t] + 1 \in 0..Slots
      BY <1>1
    <3> QED
      BY <3>1 DEF IInv, TypeOK
  <2>3. iter' \in [Threads -> {Idle} \cup Terms]
    BY DEF IInv, TypeOK
  <2> QED
    BY <2>1, <2>2, <2>3 DEF IInv, TypeOK
<1>5. Distinct'
  <2> SUFFICES ASSUME NEW u \in Threads, iter'[u] # Idle
               PROVE  /\ iter'[u] \notin todo' /\ pos'[u] < Slots
                      /\ \A v \in Threads : v # u => iter'[v] # iter'[u]
    BY DEF Distinct
  <2>1. \A v \in Threads : iter'[v] = iter[v] \/ iter'[v] = Idle
    BY DEF IInv, TypeOK
  <2>2. iter'[u] = iter[u] /\ iter[u] # Idle
    BY <2>1
  <2>3. pos'[u] < Slots
    BY <2>2, <1>1 DEF IInv, TypeOK, Distinct
  <2> QED
    BY <2>1, <2>2, <2>3 DEF IInv, TypeOK, Distinct
<1>6. /\ ~Passed(k, x)
      /\ Passed(k, x)'
      /\ \A l \in Terms, y \in SlotSet :
           (l # k \/ y # x) => (Passed(l, y)' <=> Passed(l, y))
  <2>1. ~Passed(k, x)
    BY <1>1 DEF Passed
  <2>2. \A u \in Threads : u # t => iter'[u] = iter[u] /\ pos'[u] = pos[u] /\ iter[u] # k
    BY DEF IInv, TypeOK, Distinct
  <2>3. /\ pos'[t] = x + 1
        /\ iter'[t] = IF x + 1 < Slots THEN k ELSE Idle
        /\ k # Idle
    BY DEF IInv, TypeOK
  <2>4. Passed(k, x)'
    BY <1>1, <2>2, <2>3 DEF Passed
  <2>5. ASSUME NEW l \in Terms, NEW y \in SlotSet, l # k PROVE Passed(l, y)' <=> Passed(l, y)
    <3>1. \A u \in Threads : iter[u] = l => u # t
      BY <2>5
    <3>2. \A u \in Threads : iter'[u] = l => u # t
      BY <2>3, <2>5 DEF Idle, Terms
    <3> QED
      BY <2>2, <3>1, <3>2 DEF Passed
  <2>6. ASSUME NEW y \in SlotSet, y # x PROVE Passed(k, y)' <=> Passed(k, y)
    <3>1. Passed(k, y) <=> y < x
      BY <1>1, <2>2 DEF Passed
    <3>2. CASE x + 1 < Slots
      <4>1. Passed(k, y)' <=> y < x + 1
        BY <1>1, <2>2, <2>3, <3>2 DEF Passed
      <4> QED
        BY <3>1, <4>1, <2>6, <1>1 DEF SlotSet
    <3>3. CASE ~(x + 1 < Slots)
      <4>1. y < x
        BY <3>3, <2>6, <1>1 DEF SlotSet
      <4>2. Passed(k, y)'
        BY <1>1, <2>2, <2>3, <3>3 DEF Passed
      <4> QED
        BY <3>1, <4>1, <4>2
    <3> QED
      BY <3>2, <3>3
  <2> QED
    BY <2>1, <2>4, <2>5, <2>6
<1>7. \A l \in Terms : reg[t][l] \in Nat /\ reg[t][l] <= 1 /\ (reg[t][l] = 1 => Passed(l, x))
  BY <1>1 DEF IInv, LoadedOnce, Vectors
<1>8. reg[t][k] = 0
  BY <1>1, <1>6, <1>7
<1>9. \A l \in Terms : result'[x][l] <= 1 /\ (result'[x][l] = 1 => Passed(l, x)')
  BY <1>1, <1>2, <1>3, <1>6, <1>7, <1>8
<1>10. LoadedOnce'
  <2> SUFFICES ASSUME NEW u \in Threads, reg'[u] # Nothing
               PROVE  /\ iter'[u] # Idle
                      /\ \A l \in Terms : reg'[u][l] <= 1 /\ (reg'[u][l] = 1 => Passed(l, pos[u])')
    BY DEF LoadedOnce
  <2>1. u # t /\ reg'[u] = reg[u] /\ iter'[u] = iter[u] /\ pos'[u] = pos[u]
    BY DEF IInv, TypeOK
  <2>2. pos[u] \in SlotSet
    BY <2>1 DEF IInv, TypeOK, LoadedOnce, Distinct, SlotSet
  <2>3. \A l \in Terms : Passed(l, pos[u]) => Passed(l, pos[u])'
    BY <1>1, <1>6, <2>1, <2>2
  <2> QED
    BY <2>1, <2>3 DEF IInv, LoadedOnce
<1>11. Quiet' /\ Copied'
  BY DEF IInv, Quiet, Copied
<1>12. AtMostOnce'
  BY <1>1, <1>2, <1>6, <1>9 DEF IInv, AtMostOnce
<1>13. ExactResult'
  <2> SUFFICES ASSUME ~lost', NEW y \in SlotSet, NEW l \in Terms
               PROVE  result'[y][l] = IF Passed(l, y)' THEN 1 ELSE 0
    BY DEF ExactResult
  <2>1. ~lost /\ result[x] = reg[t]
    OBVIOUS
  <2>2. result[y][l] = IF Passed(l, y) THEN 1 ELSE 0
    BY <2>1 DEF IInv, ExactResult
  <2>3. CASE y # x
    BY <2>2, <2>3, <1>1, <1>2, <1>6
  <2>4. CASE y = x /\ l # k
    BY <2>1, <2>2, <2>4, <1>1, <1>2, <1>3, <1>6
  <2>5. CASE y = x /\ l = k
    <3>1. result'[x][k] = 1
      BY <1>2, <1>3, <1>8
    <3> QED
      BY <2>5, <3>1, <1>6
  <2> QED
    BY <2>3, <2>4, <2>5
<1>14. LastInResult'
  <2> SUFFICES ASSUME NEW y \in SlotSet
               PROVE  /\ (\E l \in Terms : Passed(l, y)') => last'[y] # Idle
                      /\ last'[y] # Idle => Passed(last[y], y)' /\ result'[y][last'[y]] = 1
    BY DEF LastInResult
  <2>1. CASE y = x
    <3>1. last'[x] = k /\ k # Idle
      BY <1>1 DEF IInv, TypeOK, Terms, Idle
    <3>2. result'[x][k] = 1
      BY <1>2, <1>3, <1>8
    <3>3. Passed(last[x], x)'
      BY <3>1, <1>6 DEF Passed
    <3> QED BY <2>1, <3>1, <3>2, <3>3
  <2>2. CASE y # x
    <3>1. last'[y] = last[y] /\ last[y] \in {Idle} \cup Terms /\ result'[y] = result[y]
      BY <2>2, <1>1, <1>2 DEF IInv, TypeOK
    <3>2. /\ (\E l \in Terms : Passed(l, y)) => last[y] # Idle
          /\ last[y] # Idle => Passed(last[y], y) /\ result[y][last[y]] = 1
      BY DEF IInv, LastInResult
    <3>3. \A l \in Terms : Passed(l, y)' <=> Passed(l, y)
      BY <2>2, <1>6
    <3>4. last[y] # Idle => Passed(last[y], y)'
      <4>1. \A l \in Terms : l = last[y] => Passed(last[y], y)' = Passed(l, y)'
        BY <3>1 DEF Passed
      <4> QED BY <4>1, <3>1, <3>2, <3>3
    <3> QED BY <3>1, <3>2, <3>3, <3>4
  <2> QED
    BY <2>1, <2>2
<1> QED
  BY <1>4, <1>5, <1>10, <1>11, <1>12, <1>13, <1>14 DEF IInv

LEMMA EndDotInv == ASSUME IInv, EndDot PROVE IInv'
<1> USE AddDotAssumption DEF EndDot
<1>1. TypeOK'
  BY DEF IInv, TypeOK
<1>2. \A l \in Terms, x \in SlotSet : Passed(l, x) /\ Passed(l, x)'
  BY DEF Passed, Terms, Idle
<1>3. \A t \in Threads : reg[t] = Nothing
  BY DEF IInv, LoadedOnce
<1>4. Distinct' /\ LoadedOnce' /\ Quiet' /\ Copied'
  BY <1>3 DEF IInv, Distinct, LoadedOnce, Quiet, Copied, Copiers
<1>5. AtMostOnce' /\ ExactResult' /\ LastInResult'
  BY <1>2, KeepsLast DEF IInv, AtMostOnce, ExactResult
<1> QED
  BY <1>1, <1>4, <1>5 DEF IInv

LEMMA CopyInv == ASSUME IInv, NEW t \in Threads, Copy(t) PROVE IInv'
<1> USE AddDotAssumption DEF Copy
<1>1. pos[t] \in SlotSet /\ pos[t] \in Nat
  BY DEF IInv, TypeOK, SlotSet
<1>2. TypeOK'
  BY <1>1 DEF IInv, TypeOK, SlotSet
<1>3. \A l \in Terms, x \in SlotSet : Passed(l, x) /\ Passed(l, x)'
  BY DEF IInv, Quiet, Passed, Terms, Idle
<1>4. \A u \in Threads : reg[u] = Nothing
  BY DEF IInv, LoadedOnce, Quiet
<1>5. Distinct' /\ LoadedOnce' /\ Quiet'
  BY <1>4 DEF IInv, Distinct, LoadedOnce, Quiet
<1>6. Copied'
  <2> SUFFICES ASSUME NEW u \in Copiers, NEW x \in 0..(pos'[u] - 1)
               PROVE  sum'[x] = result[x]
    BY DEF Copied, Copiers
  <2>1. u \in Threads
    BY DEF Copiers
  <2>2. x \in SlotSet
    BY <1>2, <2>1 DEF TypeOK, SlotSet
  <2>3. CASE x = pos[t]
    BY <2>3, <2>2 DEF IInv, TypeOK
  <2>4. CASE x # pos[t]
    <3>1. x \in 0..(pos[u] - 1)
      BY <2>1, <2>4, <1>1 DEF IInv, TypeOK
    <3> QED
      BY <3>1, <2>2, <2>4 DEF IInv, TypeOK, Copied
  <2> QED
    BY <2>3, <2>4
<1>7. AtMostOnce' /\ ExactResult' /\ LastInResult'
  BY <1>3, KeepsLast DEF IInv, AtMostOnce, ExactResult
<1> QED
  BY <1>2, <1>5, <1>6, <1>7 DEF IInv

LEMMA LeaveInv == ASSUME IInv, Leave PROVE IInv'
<1> USE AddDotAssumption DEF Leave
<1>1. TypeOK'
  BY DEF IInv, TypeOK
<1>2. \A l, x : Passed(l, x)' <=> Passed(l, x)
  BY DEF Passed
<1>3. Distinct' /\ LoadedOnce' /\ Quiet'
  BY <1>2 DEF IInv, Distinct, LoadedOnce, Quiet
<1>4. Copied'
  <2>1. Master \in Copiers
    BY DEF Copiers
  <2>2. \A x \in SlotSet : sum[x] = result[x]
    BY <2>1 DEF IInv, Copied, SlotSet
  <2> QED
    BY <2>2 DEF IInv, TypeOK, Copied
<1>5. AtMostOnce' /\ ExactResult' /\ LastInResult'
  BY <1>2 DEF IInv, AtMostOnce, ExactResult, LastInResult
<1> QED
  BY <1>1, <1>3, <1>4, <1>5 DEF IInv

LEMMA NextInv == IInv /\ [Next]_vars => IInv'
<1> SUFFICES ASSUME IInv, [Next]_vars PROVE IInv'
  OBVIOUS
<1>1. CASE EndDot
  BY <1>1, EndDotInv
<1>2. CASE Leave
  BY <1>2, LeaveInv
<1>3. ASSUME NEW t \in Threads, Worker(t) PROVE IInv'
  BY <1>3, TakeInv, LoadInv, StoreInv, CopyInv DEF Worker
<1>4. CASE UNCHANGED vars
  BY <1>4 DEF vars, IInv, TypeOK, Distinct, LoadedOnce, Quiet, Copied, AtMostOnce,
              ExactResult, LastInResult, Passed, Copiers
<1> QED
  BY <1>1, <1>2, <1>3, <1>4 DEF Next, Serial, Returned

\* Without a lost store the copy is complete when the function returns.
LEMMA ExactAtReturn == IInv => ExactUnlessLost
<1> SUFFICES ASSUME IInv, ~lost PROVE phase = "done" => sum = [x \in SlotSet |-> [l \in Terms |-> 1]]
  BY DEF ExactUnlessLost, IInv, ExactResult
<1> HAVE phase = "done"
<1>1. \A x \in SlotSet, l \in Terms : Passed(l, x)
  BY DEF IInv, Quiet, Passed, Terms, Idle
<1>2. \A x \in SlotSet : result[x] = [l \in Terms |-> 1]
  BY <1>1 DEF IInv, TypeOK, Vectors, ExactResult
<1>3. sum = result /\ result \in [SlotSet -> Vectors]
  BY DEF IInv, Copied, TypeOK
<1> QED
  BY <1>2, <1>3

\* After the barrier every vector has a last writer, and the copy keeps it.
LEMMA LastAtReturn == IInv => LastWriterCounts
<1> SUFFICES ASSUME IInv, phase = "done", NEW x \in SlotSet
             PROVE  last[x] # Idle /\ sum[x][last[x]] = 1
  BY DEF LastWriterCounts, IInv, LastInResult
<1>1. 0 \in Terms /\ Passed(0, x)
  BY AddDotAssumption DEF IInv, Quiet, Passed, Terms, Idle
<1>2. last[x] # Idle /\ result[x][last[x]] = 1
  BY <1>1 DEF IInv, LastInResult
<1>3. sum = result
  BY DEF IInv, Copied
<1> QED BY <1>2, <1>3

\* Every state of the function satisfies the inductive invariant.
THEOREM Invariance == Spec => []IInv
BY InitInv, NextInv, PTL DEF Spec

\* The variables of the model of matmul_SIMD_addDotToMatrix keep their types.
THEOREM TypeCorrect == Spec => []TypeOK
<1>1. IInv => TypeOK
  BY DEF IInv
<1> QED
  BY Invariance, <1>1, PTL

\* The data race of line 288 never counts a product twice.
THEOREM NeverTwice == Spec => []AtMostOnce
<1>1. IInv => AtMostOnce
  BY DEF IInv
<1> QED
  BY Invariance, <1>1, PTL

\* If no store overwrote another one, the function returns the whole sum.
THEOREM RaceIsTheOnlyDefect == Spec => []ExactUnlessLost
BY Invariance, ExactAtReturn, PTL

\* Whatever the race loses, the last writer of a vector is in it, and in
\* what the function returns.
THEOREM LastWriter == Spec => []LastWriterCounts
BY Invariance, LastAtReturn, PTL
-----------------------------------------------------------------------------
(***************************************************************************)
(* A team of one thread: nobody stores between its load and its store.     *)
(***************************************************************************)
NothingLost == ~lost /\ \A t \in Threads : reg[t] # Nothing => reg[t] = result[pos[t]]

LEMMA NothingLostStep ==
  ASSUME \A t, u \in Threads : t = u, IInv, NothingLost, [Next]_vars PROVE NothingLost'
<1>1. CASE Serial
  <2>1. \A t \in Threads : reg[t] = Nothing
    BY <1>1 DEF Serial, EndDot, Leave, IInv, LoadedOnce, Quiet
  <2> QED
    BY <1>1, <2>1 DEF Serial, EndDot, Leave, NothingLost
<1>2. ASSUME NEW t \in Threads, Worker(t) PROVE NothingLost'
  <2>1. Threads = {t}
    OBVIOUS
  <2>2. CASE Take(t)
    <3>1. reg[t] = Nothing
      BY <2>2 DEF Take, IInv, LoadedOnce
    <3> QED
      BY <2>1, <2>2, <3>1 DEF Take, NothingLost
  <2>3. CASE Load(t)
    BY <2>1, <2>3 DEF Load, NothingLost, IInv, TypeOK
  <2>4. CASE Store(t)
    BY <2>1, <2>4 DEF Store, NothingLost, IInv, TypeOK
  <2>5. CASE Copy(t)
    <3>1. reg[t] = Nothing
      BY <2>5 DEF Copy, IInv, LoadedOnce, Quiet
    <3> QED
      BY <2>1, <2>5, <3>1 DEF Copy, NothingLost
  <2> QED
    BY <1>2, <2>2, <2>3, <2>4, <2>5 DEF Worker
<1>3. CASE UNCHANGED vars
  BY <1>3 DEF vars, NothingLost
<1> QED
  BY <1>1, <1>2, <1>3 DEF Next, Returned

\* Run by a single thread (Use_openMP not defined) the function is exact.
THEOREM SerialIsComplete ==
  ASSUME \A t, u \in Threads : t = u PROVE Spec => []Complete
<1>1. Init => NothingLost
  BY DEF Init, NothingLost
<1>2. IInv /\ NothingLost /\ [Next]_vars => NothingLost'
  BY NothingLostStep
<1>3. IInv /\ NothingLost => Complete
  BY ExactAtReturn DEF NothingLost, ExactUnlessLost, Complete
<1> QED
  BY Invariance, <1>1, <1>2, <1>3, PTL DEF Spec
=============================================================================
