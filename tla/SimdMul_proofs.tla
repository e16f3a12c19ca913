--------------------------- MODULE SimdMul_proofs ---------------------------
(***************************************************************************)
(* Proofs about matrix_SIMD_mul (module SimdMul), for every team, shape    *)
(* and call.                                                               *)
(*                                                                         *)
(* The multiplication runs the loop of AddDot step by step, so that the    *)
(* invariant of AddDot_proofs holds in it.  When that loop is done, a      *)
(* vector holds each of its products at most once, and at least one; with  *)
(* nothing lost it holds all of them.  The rest is where the lanes of the  *)
(* vectors lie in the product, and a comparison of sums term by term.      *)
(***************************************************************************)
EXTENDS SimdMul, AddDot_proofs, BufferTheorems

mul == <<vars, returned, C>>

Scaled == [x \in DOMAIN Arguments.C |-> Arguments.alpha * SumAt(x) + Arguments.beta * Arguments.C[x]]

MulInv ==
  /\ IInv
  /\ returned \in BOOLEAN
  /\ IF returned THEN phase = "done" /\ C = Scaled ELSE C = Arguments.C
-----------------------------------------------------------------------------
LEMMA CallShape ==
  ASSUME IInv
  PROVE  Shaped(Arguments) /\ Arguments.m * moor = Slots /\ Lanes(Arguments) \in {2, 4}
<1>1. build \in Builds
  BY DEF IInv, TypeOK
<1> QED BY <1>1, SimdMulAssumption DEF Arguments, moor, Lanes

(***************************************************************************)
(* Lane x % Lanes of vector x \div Lanes is the element of row x \div n    *)
(* and column x % n.                                                       *)
(***************************************************************************)
Lane(w, m, q, x, v, y) ==
  /\ {w, m, q} \subseteq Nat \ {0}
  /\ x \in 0..(m * (q * w) - 1) /\ v \in Nat /\ y \in 0..(w - 1) /\ x = v * w + y

Placed(w, m, q, x, v, y) ==
  /\ v \in 0..(m * q - 1)
  /\ v \div q = x \div (q * w) /\ x \div (q * w) \in 0..(m - 1)
  /\ w * (v % q) + y = x % (q * w)

LEMMA LaneAddress ==
  ASSUME NEW w, NEW m, NEW q, NEW x, NEW v, NEW y, Lane(w, m, q, x, v, y)
  PROVE  Placed(w, m, q, x, v, y)
<1>1. PICK n : n = q * w
  OBVIOUS
<1>2. /\ w \in Nat \ {0} /\ m \in Nat \ {0} /\ q \in Nat \ {0} /\ n \in Nat \ {0}
       /\ x \in 0..(m * n - 1) /\ v \in Nat /\ y \in 0..(w - 1) /\ x = v * w + y
  BY <1>1 DEF Lane
<1>3. PICK i, j : i = v \div q /\ j = v % q
  OBVIOUS
<1>4. i \in Nat /\ j \in 0..(q - 1) /\ v = i * q + j
  BY <1>2, <1>3, DivMod
<1>5. PICK z : z = j * w + y
  OBVIOUS
<1>6. z \in 0..(n - 1)
  BY <1>1, <1>2, <1>4, <1>5, StrideRange
<1>7. x = i * n + z
  <2>1. v * w = (i * q) * w + j * w
    <3>1. PICK k : k = i * q
      OBVIOUS
    <3>2. k \in Nat /\ v = k + j
      BY <1>2, <1>4, <3>1
    <3> QED BY <1>2, <1>4, <3>1, <3>2
  <2>2. (i * q) * w = i * n
    BY <1>2, <1>1, <1>4
  <2> QED BY <1>2, <2>1, <2>2, <1>4, <1>5
<1>8. x \div n = i /\ x % n = z
  <2>1. n \in Nat \ {0}
    BY <1>2
  <2> QED BY <2>1, <1>4, <1>6, <1>7, StrideSplit
<1>9. i \in 0..(m - 1)
  BY <1>2, <1>8, StrideCover
<1>10. v \in 0..(m * q - 1)
  BY <1>2, <1>4, <1>9, StrideRange
<1> QED BY <1>2, <1>1, <1>3, <1>4, <1>5, <1>8, <1>9, <1>10 DEF Placed

\* What an iteration adds is the product of the elements of its row and column.
LEMMA ProductOfLane ==
  ASSUME IInv, NEW x \in DOMAIN Arguments.C, NEW l \in Terms
  PROVE  LET p == ProductIn(x \div Lanes(Arguments), x % Lanes(Arguments), l)
         IN  /\ p = OpA(Arguments, RowOf(Arguments, x), l) * OpB(Arguments, l, ColOf(Arguments, x))
             /\ p \in Int
             /\ Positive(Arguments) => p > 0
<1>1. PICK c, w : c = Arguments /\ w = Lanes(Arguments)
  OBVIOUS
<1>2. Shaped(c) /\ w \in {2, 4}
  BY <1>1, CallShape
<1>3. /\ c.m \in Nat \ {0} /\ c.n \in Nat \ {0} /\ c.k = K /\ c.n % w = 0 /\ c.lda = c.m
      /\ c.ldb = c.n /\ c.ldc = c.n /\ RowMajor(c) /\ c.ta = "Trans" /\ c.tb = "NoTrans"
  BY <1>1, <1>2 DEF Shaped, RowMajor
<1>4. x \in 0..(c.m * c.n - 1)
  BY <1>1, <1>2 DEF Shaped, Buffer
<1>5. PICK v, i, j : v = x \div w /\ i = x \div c.n /\ j = x % c.n
  OBVIOUS
<1>6. PICK r : r = moor
  OBVIOUS
<1>7. v \div r = i /\ i \in 0..(c.m - 1) /\ w * (v % r) + (x % w) = j /\ j \in 0..(c.n - 1)
  <2>1. PICK m, n : m = c.m /\ n = c.n
    OBVIOUS
  <2>2. m \in Nat \ {0} /\ n \in Nat \ {0} /\ n % w = 0 /\ x \in 0..(m * n - 1)
    BY <1>3, <1>4, <2>1
  <2>3. r = n \div w
    BY <1>1, <1>6, <2>1 DEF moor
  <2>4. i = x \div n /\ j = x % n
    BY <1>5, <2>1
  <2>5. w \in {2, 4}
    BY <1>2
  <2>6. /\ v \div r = x \div n /\ x \div n \in 0..(m - 1)
        /\ w * (v % r) + (x % w) = x % n /\ x % n \in 0..(n - 1)
    <3>1. PICK y : y = x % w
      OBVIOUS
    <3>2. w \in Nat \ {0} /\ r \in Nat \ {0} /\ n = r * w
      BY <2>2, <2>3, <2>5
    <3>a. x \in Nat /\ v = x \div w
      BY <2>2, <1>5
    <3>b. v \in Nat /\ y \in 0..(w - 1) /\ x = v * w + y
      BY <3>2, <3>a, <3>1, DivMod
    <3>3. x % n \in 0..(n - 1)
      BY <2>2
    <3>4. Lane(w, m, r, x, v, y)
      BY <2>2, <3>2, <3>b DEF Lane
    <3>5. /\ v \div r = x \div (r * w) /\ x \div (r * w) \in 0..(m - 1)
          /\ w * (v % r) + y = x % (r * w)
      BY <3>4, LaneAddress DEF Placed
    <3> QED BY <3>1, <3>2, <3>3, <3>5, Zenon
  <2> QED BY <1>5, <2>1, <2>3, <2>4, <2>6
<1>8. l \in 0..(c.k - 1) /\ l \in Nat
  BY <1>3, AddDotAssumption DEF Terms
<1>9. i + (l * c.m) = l * c.m + i /\ j + (l * c.n) = l * c.n + j
  BY <1>3, <1>7, <1>8
<1>10. l * c.m + i \in 0..(c.k * c.m - 1) /\ l * c.n + j \in 0..(c.k * c.n - 1)
  <2>1. c.k \in Nat
    BY <1>3, AddDotAssumption
  <2> QED BY <2>1, <1>3, <1>7, <1>8, StrideRange
<1>11. l * c.m + i \in DOMAIN c.A /\ l * c.n + j \in DOMAIN c.B
  <2>1. c.k * c.m = c.m * c.k
    BY <1>3, AddDotAssumption
  <2> QED BY <2>1, <1>2, <1>10 DEF Shaped, Buffer
<1>12. PICK p, q : p = c.A[l * c.m + i] /\ q = c.B[l * c.n + j]
  OBVIOUS
<1>13. p \in Int /\ q \in Int /\ (Positive(c) => p > 0 /\ q > 0)
  BY <1>2, <1>11, <1>12 DEF Shaped, Positive
<1>14. ProductIn(v, x % w, l) = p * q
  BY <1>1, <1>6, <1>7, <1>9, <1>12, Zenon DEF ProductIn
<1>15. OpA(c, RowOf(c, x), l) * OpB(c, l, ColOf(c, x)) = p * q
  BY <1>3, <1>5, <1>12 DEF OpA, OpB, RowOf, ColOf
<1>16. p * q \in Int /\ (p > 0 /\ q > 0 => p * q > 0)
  BY <1>13
<1> QED BY <1>1, <1>5, <1>13, <1>14, <1>15, <1>16
-----------------------------------------------------------------------------
\* The vectors when the loop is done.
LEMMA FinalVectors ==
  ASSUME IInv, phase = "done", NEW v \in SlotSet
  PROVE  /\ \A l \in Terms : sum[v][l] \in {0, 1}
         /\ \E l \in Terms : sum[v][l] = 1
         /\ ~lost => \A l \in Terms : sum[v][l] = 1
<1>1. sum = result /\ result \in [SlotSet -> Vectors]
  BY DEF IInv, TypeOK, Copied
<1>2. \A l \in Terms : sum[v][l] \in Nat /\ sum[v][l] <= 1
  BY <1>1 DEF IInv, AtMostOnce, Vectors
<1>3. \A l \in Terms : Passed(l, v)
  BY DEF IInv, Quiet, Passed, Terms, Idle
<1>4. last[v] # Idle /\ sum[v][last[v]] = 1
  BY LastAtReturn DEF LastWriterCounts
<1>5. last[v] \in Terms
  BY <1>4 DEF IInv, TypeOK
<1>6. ~lost => \A l \in Terms : result[v][l] = 1
  BY <1>3 DEF IInv, ExactResult
<1> QED BY <1>1, <1>2, <1>4, <1>5, <1>6

LEMMA TermsFinite == IsFiniteSet(Terms)
BY FS_Interval, AddDotAssumption DEF Terms

(***************************************************************************)
(* A cell of sum against the element of the product.                       *)
(***************************************************************************)
LEMMA CellValue ==
  ASSUME IInv, phase = "done", NEW x \in DOMAIN Arguments.C,
         NEW g, g = Product(Arguments, RowOf(Arguments, x), ColOf(Arguments, x))
  PROVE  /\ SumAt(x) \in Int /\ g \in Int
         /\ ~lost => SumAt(x) = g
         /\ Positive(Arguments) => 0 < SumAt(x) /\ SumAt(x) <= g
<1>1. PICK c, w, v : c = Arguments /\ w = Lanes(Arguments) /\ v = x \div w
  OBVIOUS
<1>2. Shaped(c) /\ w \in {2, 4} /\ c.m * moor = Slots
  BY <1>1, CallShape
<1>3. v \in SlotSet
  <2>1. c.m \in Nat \ {0} /\ c.n \in Nat \ {0} /\ c.n % w = 0 /\ x \in 0..(c.m * c.n - 1)
    BY <1>1, <1>2 DEF Shaped, Buffer
  <2>2. PICK q, m, n : q = moor /\ m = c.m /\ n = c.n
    OBVIOUS
  <2>3. q = n \div w /\ m \in Nat \ {0} /\ n \in Nat \ {0} /\ n % w = 0 /\ x \in 0..(m * n - 1)
    BY <1>1, <2>1, <2>2 DEF moor
  <2>4. v \in 0..(m * q - 1)
    <3>1. w \in {2, 4} /\ v = x \div w
      BY <1>1, <1>2
    <3>2. PICK y : y = x % w
      OBVIOUS
    <3>3. w \in Nat \ {0} /\ q \in Nat \ {0} /\ n = q * w
      BY <2>3, <3>1
    <3>a. x \in Nat /\ v = x \div w
      BY <2>3, <3>1
    <3>b. v \in Nat /\ y \in 0..(w - 1) /\ x = v * w + y
      BY <3>3, <3>a, <3>2, DivMod
    <3>4. Lane(w, m, q, x, v, y)
      BY <2>3, <3>3, <3>b DEF Lane
    <3> QED BY <3>4, LaneAddress DEF Placed
  <2> QED BY <2>2, <2>3, <2>4, <1>2 DEF SlotSet
<1>4. PICK f : f = [l \in Terms |-> sum[v][l] * ProductIn(v, x % w, l)]
  OBVIOUS
<1>5. PICK p : p = [l \in Terms |-> OpA(c, RowOf(c, x), l) * OpB(c, l, ColOf(c, x))]
  OBVIOUS
<1>6. SumAt(x) = SumFunctionOnSet(f, Terms)
  BY <1>1, <1>4, SumOver DEF SumAt
<1>7. g = SumFunctionOnSet(p, Terms)
  <2>1. Terms = 0..(c.k - 1)
    BY <1>1, <1>2 DEF Terms, Shaped
  <2> QED BY <1>1, <2>1, <1>5, SumOver DEF Product
<1>8. \A l \in Terms : p[l] = ProductIn(v, x % w, l) /\ p[l] \in Int /\ (Positive(c) => p[l] > 0)
  BY <1>1, <1>5, ProductOfLane
<1>9. \A l \in Terms : f[l] = sum[v][l] * p[l] /\ sum[v][l] \in {0, 1}
  BY <1>1, <1>3, <1>4, <1>8, FinalVectors
<1>10. \A l \in Terms : f[l] \in Int /\ (sum[v][l] = 1 => f[l] = p[l]) /\ (sum[v][l] # 1 => f[l] = 0)
  <2> TAKE l \in Terms
  <2>1. PICK z : z = p[l]
    OBVIOUS
  <2>2. z \in Int /\ 0 * z = 0 /\ 1 * z = z
    BY <2>1, <1>8
  <2> QED BY <2>1, <2>2, <1>9
<1>11. SumAt(x) \in Int /\ g \in Int
  BY <1>6, <1>7, <1>8, <1>10, SumInt, TermsFinite
<1>12. ASSUME ~lost  PROVE SumAt(x) = g
  <2>1. \A l \in Terms : f[l] = p[l]
    BY <1>3, <1>10, <1>12, FinalVectors
  <2> QED BY <2>1, <1>6, <1>7, SumCongruence, TermsFinite
<1>13. ASSUME Positive(c)  PROVE 0 < SumAt(x) /\ SumAt(x) <= g
  <2>1. \A l \in Terms : f[l] \in Int /\ p[l] \in Int /\ f[l] <= p[l] /\ f[l] \in Nat
    BY <1>8, <1>10, <1>13
  <2>2. SumAt(x) <= g
    BY <2>1, <1>6, <1>7, SumMonotone, TermsFinite
  <2>3. PICK l \in Terms : sum[v][l] = 1
    BY <1>3, FinalVectors
  <2>4. f[l] \in Int /\ f[l] > 0
    BY <2>3, <1>8, <1>10, <1>13
  <2>5. SumFunctionOnSet(f, Terms) = f[l] + SumFunctionOnSet(f, Terms \ {l})
    BY <2>1, SumRemove, TermsFinite
  <2>6. SumFunctionOnSet(f, Terms \ {l}) \in Nat
    <3>1. IsFiniteSet(Terms \ {l})
      BY TermsFinite, FS_RemoveElement
    <3> QED BY <3>1, <2>1, SumNat
  <2> QED BY <2>2, <2>4, <2>5, <2>6, <1>6
<1> QED BY <1>1, <1>11, <1>12, <1>13

LEMMA InvProduct == ASSUME MulInv PROVE ProductUnlessLost
<1> SUFFICES ASSUME returned
             PROVE  /\ ~lost => C = Gemm(Arguments)
                    /\ Positive(Arguments) =>
                         \A x \in DOMAIN C : /\ C[x] <= Gemm(Arguments)[x]
                                             /\ C[x] > Arguments.beta * Arguments.C[x]
  BY DEF ProductUnlessLost
<1> PICK c : c = Arguments
  OBVIOUS
<1>1. IInv /\ phase = "done" /\ C = Scaled
  BY DEF MulInv
<1>2. Shaped(c)
  BY <1>1, CallShape
<1>3. ASSUME NEW x \in DOMAIN c.C
      PROVE  LET g == Product(c, RowOf(c, x), ColOf(c, x))
             IN  /\ C[x] = c.alpha * SumAt(x) + c.beta * c.C[x]
                 /\ Gemm(c)[x] = c.alpha * g + c.beta * c.C[x]
                 /\ ~lost => SumAt(x) = g
                 /\ SumAt(x) \in Int /\ g \in Int /\ c.beta * c.C[x] \in Int /\ c.alpha \in Int
                 /\ Positive(c) => 0 < SumAt(x) /\ SumAt(x) <= g /\ c.alpha > 0
  <2>1. C[x] = c.alpha * SumAt(x) + c.beta * c.C[x]
    BY <1>1 DEF Scaled
  <2>2. Gemm(c)[x] = c.alpha * Product(c, RowOf(c, x), ColOf(c, x)) + c.beta * c.C[x]
    BY DEF Gemm
  <2>3. c.alpha \in Int /\ c.beta * c.C[x] \in Int
    BY <1>2 DEF Shaped
  <2>4. Positive(c) => c.alpha > 0
    BY DEF Positive
  <2> QED BY <1>1, <2>1, <2>2, <2>3, <2>4, CellValue
<1>4. DOMAIN C = DOMAIN c.C
  BY <1>1 DEF Scaled
<1>5. ASSUME ~lost  PROVE C = Gemm(c)
  <2>1. \A x \in DOMAIN c.C : C[x] = Gemm(c)[x]
    BY <1>3, <1>5
  <2>2. C = [x \in DOMAIN c.C |-> C[x]]
    BY <1>1 DEF Scaled
  <2>3. Gemm(c) = [x \in DOMAIN c.C |-> Gemm(c)[x]]
    BY DEF Gemm
  <2> QED BY <2>1, <2>2, <2>3
<1>6. ASSUME Positive(c), NEW x \in DOMAIN C
      PROVE  C[x] <= Gemm(c)[x] /\ C[x] > c.beta * c.C[x]
  <2>1. PICK s, g, d : /\ s = SumAt(x) /\ g = Product(c, RowOf(c, x), ColOf(c, x))
                       /\ d = c.beta * c.C[x]
    OBVIOUS
  <2>2. PICK a : a = c.alpha
    OBVIOUS
  <2>3. /\ C[x] = a * s + d /\ Gemm(c)[x] = a * g + d
        /\ s \in Int /\ g \in Int /\ d \in Int /\ a \in Int
        /\ 0 < s /\ s <= g /\ a > 0
    BY <1>3, <1>4, <1>6, <2>1, <2>2
  <2>4. a * s <= a * g /\ a * s > 0 /\ a * s \in Int /\ a * g \in Int
    BY <2>3
  <2> QED BY <2>1, <2>3, <2>4
<1> QED BY <1>5, <1>6
-----------------------------------------------------------------------------
LEMMA MulInitInv == MulInit => MulInv
BY InitInv DEF MulInit, MulInv

LEMMA MulNextInv == MulInv /\ [MulNext]_mul => MulInv'
<1> SUFFICES ASSUME MulInv, [MulNext]_mul PROVE MulInv'
  OBVIOUS
<1>1. [Next]_vars
  BY DEF MulNext, AddDotSerial, AddDotStep, Scale, Ended, Next, mul
<1>2. IInv'
  BY <1>1, NextInv DEF MulInv
<1>3. build' = build
  BY <1>1 DEF Next, Serial, Worker, Returned, EndDot, Leave, Take, Load, Store, Copy, vars
<1>4. Arguments' = Arguments
  BY <1>3 DEF Arguments
<1>5. CASE AddDotSerial \/ \E t \in Threads : AddDotStep(t)
  <2>1. phase # "done" /\ returned' = returned /\ C' = C
    BY <1>5 DEF AddDotSerial, AddDotStep, Serial, Worker, EndDot, Leave, Take, Load, Store, Copy
  <2> QED BY <1>2, <1>4, <2>1 DEF MulInv
<1>6. CASE Scale
  <2>1. C = Arguments.C /\ phase = "done" /\ phase' = phase /\ returned' = TRUE
    BY <1>6 DEF Scale, MulInv, vars
  <2>2. C' = Scaled
    BY <1>6, <2>1 DEF Scale, Scaled
  <2>3. Scaled' = Scaled
    BY <1>4, <1>6 DEF Scale, Scaled, SumAt, ProductIn, moor, vars
  <2> QED BY <1>2, <2>1, <2>2, <2>3 DEF MulInv
<1>7. CASE Ended \/ UNCHANGED mul
  <2>1. UNCHANGED <<vars, returned, C>>
    BY <1>7 DEF Ended, mul
  <2>2. Scaled' = Scaled
    BY <1>4, <2>1 DEF Scaled, SumAt, ProductIn, moor, vars
  <2> QED BY <1>2, <1>4, <2>1, <2>2 DEF MulInv, vars
<1> QED BY <1>5, <1>6, <1>7 DEF MulNext

(***************************************************************************)
(* The multiplication, on its way and at its end, satisfies the invariant. *)
(***************************************************************************)
THEOREM MulInvariance == MulSpec => []MulInv
BY MulInitInv, MulNextInv, PTL DEF MulSpec, mul

\* The loop of matrix_SIMD_mul is the one of AddDot: what is proved of
\* matmul_SIMD_addDotToMatrix holds while the multiplication runs it.
THEOREM RunsAddDot == MulSpec => Init /\ [][Next]_vars
<1>1. MulInit => Init
  BY DEF MulInit
<1>2. [MulNext]_mul => [Next]_vars
  BY DEF MulNext, AddDotSerial, AddDotStep, Scale, Ended, Next, mul
<1> QED BY <1>1, <1>2, PTL DEF MulSpec, mul

\* matrix_SIMD_mul returns the GEMM unless a store was lost, and then each
\* cell is too small but not empty.
THEOREM ProductCorrect == MulSpec => []ProductUnlessLost
BY MulInvariance, InvProduct, PTL
=============================================================================
