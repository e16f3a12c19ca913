--------------------------- MODULE BufferTheorems ---------------------------
(***************************************************************************)
(* Facts that the proofs about several components share: addresses in      *)
(* buffers that hold a matrix row by row, and the sums over index sets     *)
(* (SumFunctionOnSet and SumFunction of the community modules) that stand  *)
(* for the loops of the program.                                           *)
(*                                                                         *)
(* A sum is by definition a recursive function over the subsets of its     *)
(* index set.  No fact here takes an operator as a parameter: instead of   *)
(* an induction, a smallest counterexample is contradicted.                *)
(***************************************************************************)
EXTENDS Integers, Functions, FiniteSets, FiniteSetTheorems, WellFoundedInduction, TLAPS
-----------------------------------------------------------------------------
(***************************************************************************)
(* Arithmetic of row-by-row addresses.                                     *)
(***************************************************************************)
LEMMA StrideUnique ==
  ASSUME NEW w \in Nat, NEW a \in Nat, NEW b \in Nat,
         NEW x \in 0..(w - 1), NEW y \in 0..(w - 1), a * w + x = b * w + y
  PROVE  a = b /\ x = y
<1>1. ASSUME NEW p \in Nat, NEW q \in Nat, p > q PROVE p * w >= q * w + w
  BY <1>1
<1> QED
  BY <1>1

LEMMA StrideSplit ==
  ASSUME NEW w \in Nat \ {0}, NEW a \in Nat, NEW x \in 0..(w - 1)
  PROVE  (a * w + x) \div w = a /\ (a * w + x) % w = x
OBVIOUS

LEMMA StrideRange ==
  ASSUME NEW w \in Nat, NEW h \in Nat, NEW a \in 0..(h - 1), NEW x \in 0..(w - 1)
  PROVE  a * w + x \in 0..(h * w - 1)
<1>1. a * w + w <= h * w
  OBVIOUS
<1>2. a * w \in Nat
  OBVIOUS
<1> QED
  BY <1>1, <1>2

LEMMA DivMod ==
  ASSUME NEW w \in Nat \ {0}, NEW x \in Nat
  PROVE  /\ x \div w \in Nat /\ x % w \in 0..(w - 1)
         /\ x = (x \div w) * w + (x % w)
OBVIOUS

LEMMA StrideCover ==
  ASSUME NEW w \in Nat \ {0}, NEW h \in Nat, NEW x \in 0..(h * w - 1)
  PROVE  /\ x \div w \in 0..(h - 1)
         /\ x % w \in 0..(w - 1)
         /\ x = (x \div w) * w + (x % w)
<1>1. x % w \in 0..(w - 1) /\ x = (x \div w) * w + (x % w)
  OBVIOUS
<1>2. x \div w \in Nat
  OBVIOUS
<1>3. ASSUME x \div w >= h PROVE FALSE
  <2>1. (x \div w) * w >= h * w
    BY <1>2, <1>3
  <2> QED
    BY <1>1, <2>1
<1> QED
  BY <1>1, <1>2, <1>3
-----------------------------------------------------------------------------
(***************************************************************************)
(* Every nonempty set of natural numbers has a least element.              *)
(***************************************************************************)
LEMMA LeastNatural ==
  ASSUME NEW T, T \subseteq Nat, T # {}
  PROVE  \E n \in T : \A k \in T : n <= k
<1>1. IsWellFoundedOn(OpToRel(<, Nat), Nat)
  BY NatLessThanWellFounded
<1>2. PICK n \in T : \A k \in T : ~(<<k, n>> \in OpToRel(<, Nat))
  BY <1>1, WFMin, Zenon
<1>3. ASSUME NEW k \in T  PROVE n <= k
  <2>1. n \in Nat /\ k \in Nat /\ <<k, n>> \notin OpToRel(<, Nat)
    BY <1>2
  <2> QED BY <2>1 DEF OpToRel
<1> QED BY <1>3

(***************************************************************************)
(* Every nonempty set of subsets of a finite set has a minimal element.    *)
(***************************************************************************)
LEMMA LeastSet ==
  ASSUME NEW S, IsFiniteSet(S), NEW T, T \subseteq SUBSET S, T # {}
  PROVE  \E s \in T : \A u \in SUBSET s : u # s => u \notin T
<1>1. IsWellFoundedOn(StrictSubsetOrdering(S), FiniteSubsetsOf(S))
  BY FS_StrictSubsetOrderingWellFounded
<1>2. FiniteSubsetsOf(S) = SUBSET S
  BY FS_FiniteSubsetsOfFinite
<1>3. PICK s \in T : \A u \in T : ~(<<u, s>> \in StrictSubsetOrdering(S))
  BY <1>1, <1>2, WFMin, Zenon
<1>4. ASSUME NEW u \in SUBSET s, u # s, u \in T  PROVE FALSE
  BY <1>3, <1>4 DEF StrictSubsetOrdering
<1> QED BY <1>4
(***************************************************************************)
(* A set that has the first number of an interval, and with each number    *)
(* the next, has all of them.                                              *)
(***************************************************************************)
LEMMA Upward ==
  ASSUME NEW a \in Int, NEW b \in Int, NEW T, a \in T,
         \A q \in a..(b - 1) : q \in T => q + 1 \in T
  PROVE  \A q \in a..b : q \in T
<1> SUFFICES ASSUME NEW q \in a..b, q \notin T  PROVE FALSE
  OBVIOUS
<1>1. PICK N : N = {n \in Nat : a + n <= b /\ a + n \notin T}
  OBVIOUS
<1>2. N \subseteq Nat /\ q - a \in N
  BY <1>1
<1>3. N # {}
  BY <1>2
<1>4. PICK n \in N : \A k \in N : n <= k
  BY <1>2, <1>3, LeastNatural, Zenon
<1>5. n \in Nat /\ a + n <= b /\ a + n \notin T
  BY <1>1, <1>4
<1>6. n # 0
  BY <1>5
<1>7. n - 1 \in Nat /\ n - 1 \notin N /\ (a + (n - 1)) + 1 = a + n
  BY <1>2, <1>4, <1>5, <1>6
<1>8. a + (n - 1) \in T
  BY <1>1, <1>5, <1>7
<1>9. a + (n - 1) \in a..(b - 1)
  BY <1>5, <1>7
<1> QED BY <1>5, <1>7, <1>8, <1>9

(***************************************************************************)
(* A function on an interval can be defined from its first value upward.   *)
(***************************************************************************)
Recurs(F, a, b, z, G) == F = [q \in a..b |-> IF q = a THEN z ELSE G[<<q, F[q - 1]>>]]

LEMMA RecursionExists ==
  ASSUME NEW a \in Int, NEW b \in Int, a <= b, NEW V, NEW z \in V,
         NEW G \in [((a + 1)..b) \X V -> V]
  PROVE  \E F \in [a..b -> V] : Recurs(F, a, b, z, G)
<1>1. PICK T : T = {n \in a..b : \E F \in [a..n -> V] : Recurs(F, a, n, z, G)}
  OBVIOUS
<1>2. a \in T
  <2>1. PICK F : F = [q \in a..a |-> z]
    OBVIOUS
  <2>2. F \in [a..a -> V] /\ Recurs(F, a, a, z, G)
    BY <2>1 DEF Recurs
  <2> QED BY <2>2, <1>1
<1>3. ASSUME NEW n \in a..(b - 1), n \in T  PROVE n + 1 \in T
  <2>1. PICK F \in [a..n -> V] : Recurs(F, a, n, z, G)
    BY <1>1, <1>3
  <2>2. PICK m : m = n + 1
    OBVIOUS
  <2>3. m \in (a + 1)..b /\ m - 1 = n /\ m \in a..b
    BY <2>2
  <2>4. PICK H : H = [q \in a..m |-> IF q = m THEN G[<<m, F[n]>>] ELSE F[q]]
    OBVIOUS
  <2>5. H \in [a..m -> V]
    <3>1. F[n] \in V /\ <<m, F[n]>> \in ((a + 1)..b) \X V
      BY <2>3
    <3>2. \A q \in a..m : q # m => q \in a..n
      BY <2>3
    <3> QED BY <2>4, <3>1, <3>2
  <2>6. ASSUME NEW q \in a..m
        PROVE  H[q] = IF q = a THEN z ELSE G[<<q, H[q - 1]>>]
    <3>1. F = [y \in a..n |-> IF y = a THEN z ELSE G[<<y, F[y - 1]>>]]
      BY <2>1 DEF Recurs
    <3>2. CASE q = m
      <4>1. H[q] = G[<<m, F[n]>>] /\ H[n] = F[n] /\ q # a /\ q - 1 = n
        BY <2>3, <2>4, <3>2
      <4> QED BY <4>1, <3>2
    <3>3. CASE q # m
      <4>1. q \in a..n /\ H[q] = F[q]
        BY <2>3, <2>4, <3>3
      <4>2. q # a => H[q - 1] = F[q - 1]
        BY <2>3, <2>4, <4>1
      <4> QED BY <3>1, <4>1, <4>2
    <3> QED BY <3>2, <3>3
  <2>7. Recurs(H, a, m, z, G)
    BY <2>4, <2>6 DEF Recurs
  <2> QED BY <1>1, <2>2, <2>3, <2>5, <2>7
<1>4. \A q \in a..b : q \in T
  BY <1>2, <1>3, Upward
<1>5. b \in T
  BY <1>4
<1> QED BY <1>1, <1>5
\* There is only one.
LEMMA RecursionUnique ==
  ASSUME NEW m \in Nat, NEW n \in Nat, m <= n, NEW z, NEW G,
         NEW F, Recurs(F, 0, m, z, G), NEW H, Recurs(H, 0, n, z, G)
  PROVE  \A q \in 0..m : F[q] = H[q]
<1>1. PICK T : T = {q \in 0..m : F[q] = H[q]}
  OBVIOUS
<1>2. /\ \A q \in 0..m : F[q] = IF q = 0 THEN z ELSE G[<<q, F[q - 1]>>]
      /\ \A q \in 0..n : H[q] = IF q = 0 THEN z ELSE G[<<q, H[q - 1]>>]
  <2>1. F = [q \in 0..m |-> IF q = 0 THEN z ELSE G[<<q, F[q - 1]>>]]
    BY DEF Recurs
  <2>2. H = [q \in 0..n |-> IF q = 0 THEN z ELSE G[<<q, H[q - 1]>>]]
    BY DEF Recurs
  <2>3. \A q \in 0..m : F[q] = IF q = 0 THEN z ELSE G[<<q, F[q - 1]>>]
    BY <2>1
  <2> QED BY <2>2, <2>3
<1>3. 0 \in T
  <2>1. 0 \in 0..m /\ 0 \in 0..n
    OBVIOUS
  <2>2. F[0] = z /\ H[0] = z
    BY <1>2, <2>1
  <2> QED BY <1>1, <2>1, <2>2
<1>4. ASSUME NEW q \in 0..(m - 1), q \in T  PROVE q + 1 \in T
  <2>1. q + 1 \in 0..m /\ q + 1 \in 0..n /\ q + 1 # 0 /\ (q + 1) - 1 = q
    OBVIOUS
  <2>2. F[q + 1] = G[<<q + 1, F[q]>>] /\ H[q + 1] = G[<<q + 1, H[q]>>]
    BY <1>2, <2>1
  <2> QED BY <1>1, <1>4, <2>1, <2>2
<1>5. \A q \in 0..m : q \in T
  BY <1>3, <1>4, Upward
<1> QED BY <1>1, <1>5

(***************************************************************************)
(* The same on all natural numbers.                                        *)
(***************************************************************************)
NatRecurs(F, z, G) == F = [n \in Nat |-> IF n = 0 THEN z ELSE G[<<n, F[n - 1]>>]]

LEMMA NatRecursionExists ==
  ASSUME NEW V, NEW z \in V, NEW G \in [(Nat \ {0}) \X V -> V]
  PROVE  \E F \in [Nat -> V] : NatRecurs(F, z, G)
<1> DEFINE Good(n, F) == F \in [0..n -> V] /\ Recurs(F, 0, n, z, G)
<1>1. ASSUME NEW n \in Nat  PROVE \E F : Good(n, F)
  <2>1. PICK H : H = [p \in (1..n) \X V |-> G[p]]
    OBVIOUS
  <2>2. H \in [((0 + 1)..n) \X V -> V]
    BY <2>1
  <2>3. PICK F \in [0..n -> V] : Recurs(F, 0, n, z, H)
    <3>1. 0 \in Int /\ n \in Int /\ 0 <= n
      OBVIOUS
    <3> QED BY <2>2, <3>1, RecursionExists, Zenon
  <2>4. F = [q \in 0..n |-> IF q = 0 THEN z ELSE H[<<q, F[q - 1]>>]]
    BY <2>3 DEF Recurs
  <2>5. \A q \in 0..n : q # 0 => H[<<q, F[q - 1]>>] = G[<<q, F[q - 1]>>]
    <3> SUFFICES ASSUME NEW q \in 0..n, q # 0  PROVE H[<<q, F[q - 1]>>] = G[<<q, F[q - 1]>>]
      OBVIOUS
    <3>1. q \in 1..n /\ F[q - 1] \in V
      BY <2>3
    <3>2. <<q, F[q - 1]>> \in (1..n) \X V
      BY <3>1
    <3> QED BY <2>1, <3>2
  <2>6. F = [q \in 0..n |-> IF q = 0 THEN z ELSE G[<<q, F[q - 1]>>]]
    BY <2>4, <2>5
  <2> QED BY <2>3, <2>6 DEF Recurs
<1>2. PICK P : P = [n \in Nat |-> CHOOSE F : Good(n, F)]
  OBVIOUS
<1>3. \A n \in Nat : Good(n, P[n])
  <2> SUFFICES ASSUME NEW n \in Nat  PROVE Good(n, P[n])
    OBVIOUS
  <2>1. \E F : Good(n, F)
    BY <1>1
  <2>2. Good(n, CHOOSE F : Good(n, F))
    <3> HIDE DEF Good
    <3> QED BY <2>1
  <2>3. P[n] = CHOOSE F : Good(n, F)
    BY <1>2
  <2> HIDE DEF Good
  <2> QED BY <2>2, <2>3
<1>4. PICK F : F = [n \in Nat |-> P[n][n]]
  OBVIOUS
<1>5. F \in [Nat -> V]
  <2>1. ASSUME NEW n \in Nat  PROVE P[n][n] \in V
    <3>1. P[n] \in [0..n -> V] /\ n \in 0..n
      BY <1>3
    <3> QED BY <3>1
  <2> QED BY <1>4, <2>1
<1>6. ASSUME NEW n \in Nat  PROVE F[n] = IF n = 0 THEN z ELSE G[<<n, F[n - 1]>>]
  <2>1. P[n] = [q \in 0..n |-> IF q = 0 THEN z ELSE G[<<q, P[n][q - 1]>>]]
    BY <1>3 DEF Recurs
  <2>2. F[n] = P[n][n] /\ n \in 0..n
    BY <1>4
  <2>3. P[n][n] = IF n = 0 THEN z ELSE G[<<n, P[n][n - 1]>>]
    BY <2>1, <2>2
  <2>4. ASSUME n # 0  PROVE P[n][n - 1] = F[n - 1]
    <3>1. PICK m : m = n - 1
      OBVIOUS
    <3>2. m \in Nat /\ m <= n /\ m \in 0..m
      BY <2>4, <3>1
    <3>3. Recurs(P[m], 0, m, z, G) /\ Recurs(P[n], 0, n, z, G)
      BY <1>3, <3>2
    <3>4. \A q \in 0..m : P[m][q] = P[n][q]
      BY <3>2, <3>3, RecursionUnique
    <3> QED BY <1>4, <3>1, <3>2, <3>4
  <2> QED BY <2>2, <2>3, <2>4
<1>7. F = [n \in Nat |-> IF n = 0 THEN z ELSE G[<<n, F[n - 1]>>]]
  <2>1. \A n \in Nat : F[n] = IF n = 0 THEN z ELSE G[<<n, F[n - 1]>>]
    BY <1>6
  <2>2. F = [n \in Nat |-> F[n]]
    BY <1>5
  <2> QED BY <2>1, <2>2
<1> QED BY <1>5, <1>7 DEF NatRecurs
-----------------------------------------------------------------------------
Pick(s) == CHOOSE x \in s : TRUE

\* g gives every subset of T the sum of f over it.
IsSum(f, T, g) ==
  g = [s \in SUBSET T |-> IF s = {} THEN 0 ELSE f[Pick(s)] + g[s \ {Pick(s)}]]

LEMMA SumDef == ASSUME NEW f, NEW S
  PROVE SumFunctionOnSet(f, S) = (CHOOSE g : IsSum(f, S, g))[S]
BY DEF SumFunctionOnSet, FoldFunctionOnSet, MapThenFoldSet, IsSum, Pick

LEMMA IsSumAt ==
  ASSUME NEW f, NEW T, NEW g, IsSum(f, T, g), NEW s \in SUBSET T
  PROVE  g[s] = IF s = {} THEN 0 ELSE f[Pick(s)] + g[s \ {Pick(s)}]
BY DEF IsSum

(***************************************************************************)
(* The sums over the subsets of a finite set are unique,                   *)
(***************************************************************************)
LEMMA SumUnique ==
  ASSUME NEW f, NEW T, IsFiniteSet(T), NEW U \in SUBSET T,
         NEW g, IsSum(f, T, g), NEW h, IsSum(f, U, h)
  PROVE  \A s \in SUBSET U : g[s] = h[s]
<1> SUFFICES ASSUME NEW z \in SUBSET U, g[z] # h[z]  PROVE FALSE
  OBVIOUS
<1>1. PICK B : B = {s \in SUBSET U : g[s] # h[s]}
  OBVIOUS
<1>2. PICK s \in B : \A u \in SUBSET s : u # s => u \notin B
  <2>1. IsFiniteSet(U)
    BY FS_Subset
  <2>2. B \subseteq SUBSET U /\ B # {}
    BY <1>1
  <2> QED BY <2>1, <2>2, LeastSet, Zenon
<1>3. s \in SUBSET U /\ s \in SUBSET T /\ g[s] # h[s]
  BY <1>1, <1>2
<1>4. s # {}
  BY <1>3, IsSumAt
<1>5. Pick(s) \in s
  BY <1>4 DEF Pick
<1>6. g[s \ {Pick(s)}] = h[s \ {Pick(s)}]
  BY <1>1, <1>2, <1>3, <1>5
<1> QED BY <1>3, <1>4, <1>6, IsSumAt

(***************************************************************************)
(* and they exist.                                                         *)
(***************************************************************************)
LEMMA SumExists ==
  ASSUME NEW f, NEW T, IsFiniteSet(T)
  PROVE  \E g : IsSum(f, T, g)
<1> SUFFICES ASSUME ~\E g : IsSum(f, T, g)  PROVE FALSE
  OBVIOUS
<1>1. PICK B : B = {s \in SUBSET T : ~\E g : IsSum(f, s, g)}
  OBVIOUS
<1>2. B \subseteq SUBSET T /\ B # {}
  BY <1>1
<1>3. PICK s \in B : \A u \in SUBSET s : u # s => u \notin B
  BY <1>2, LeastSet, Zenon
<1>4. s \in SUBSET T /\ ~\E g : IsSum(f, s, g)
  BY <1>1, <1>3
<1> DEFINE G(u) == CHOOSE g : IsSum(f, u, g)
           h == [u \in SUBSET s |-> IF u = {} THEN 0
                                    ELSE f[Pick(u)] + G(u \ {Pick(u)})[u \ {Pick(u)}]]
<1>5. ASSUME NEW u \in SUBSET s, u # s  PROVE IsSum(f, u, G(u))
  <2>1. \E g : IsSum(f, u, g)
    BY <1>1, <1>3, <1>4, <1>5
  <2> QED BY <2>1
<1>6. ASSUME NEW u \in SUBSET s, u # {}
      PROVE  h[u \ {Pick(u)}] = G(u \ {Pick(u)})[u \ {Pick(u)}]
  <2>1. PICK v : v = u \ {Pick(u)}
    OBVIOUS
  <2>2. Pick(u) \in u
    BY <1>6 DEF Pick
  <2>3. v \in SUBSET s /\ v # s /\ IsFiniteSet(v)
    BY <2>1, <2>2, <1>4, FS_Subset
  <2>4. IsSum(f, v, G(v))
    BY <2>3, <1>5
  <2>5. CASE v = {}
    <3>1. h[v] = 0
      BY <2>5
    <3>2. G(v)[v] = 0
      BY <2>4, <2>5, IsSumAt
    <3> QED BY <3>1, <3>2, <2>1
  <2>6. CASE v # {}
    <3>1. PICK w : w = v \ {Pick(v)}
      OBVIOUS
    <3>2. Pick(v) \in v
      BY <2>6 DEF Pick
    <3>3. w \in SUBSET v /\ w \in SUBSET s /\ w # s
      BY <3>1, <3>2, <2>3
    <3>4. IsSum(f, w, G(w))
      BY <3>3, <1>5
    <3>5. G(v)[w] = G(w)[w]
      <4> HIDE DEF G
      <4> QED BY <3>3, <3>4, <2>4, <2>3, SumUnique
    <3>6. G(v)[v] = f[Pick(v)] + G(v)[w]
      <4> HIDE DEF G
      <4> QED BY <2>4, <2>6, <3>1, IsSumAt
    <3>7. h[v] = f[Pick(v)] + G(w)[w]
      <4> HIDE DEF G
      <4> QED BY <2>3, <2>6, <3>1
    <3> QED BY <3>5, <3>6, <3>7, <2>1
  <2> QED BY <2>5, <2>6
<1>7. IsSum(f, s, h)
  <2> HIDE DEF G
  <2>1. h = [u \in SUBSET s |-> IF u = {} THEN 0 ELSE f[Pick(u)] + h[u \ {Pick(u)}]]
    BY <1>6
  <2> HIDE DEF h
  <2> QED BY <2>1 DEF IsSum
<1> QED BY <1>7, <1>4
-----------------------------------------------------------------------------
(***************************************************************************)
(* The sum over a finite set is that over the set without one of its       *)
(* elements, and the value there.                                          *)
(***************************************************************************)
LEMMA SumPick ==
  ASSUME NEW f, NEW S, IsFiniteSet(S)
  PROVE  SumFunctionOnSet(f, S)
           = IF S = {} THEN 0 ELSE f[Pick(S)] + SumFunctionOnSet(f, S \ {Pick(S)})
<1>1. PICK g : g = CHOOSE h : IsSum(f, S, h)
  OBVIOUS
<1>2. IsSum(f, S, g)
  BY <1>1, SumExists
<1>3. SumFunctionOnSet(f, S) = g[S]
  BY <1>1, SumDef
<1>4. g[S] = IF S = {} THEN 0 ELSE f[Pick(S)] + g[S \ {Pick(S)}]
  BY <1>2, IsSumAt
<1>5. ASSUME S # {}  PROVE SumFunctionOnSet(f, S \ {Pick(S)}) = g[S \ {Pick(S)}]
  <2>1. PICK U : U = S \ {Pick(S)}
    OBVIOUS
  <2>2. U \in SUBSET S /\ IsFiniteSet(U)
    BY <2>1, FS_Subset
  <2>3. PICK k : k = CHOOSE h : IsSum(f, U, h)
    OBVIOUS
  <2>4. IsSum(f, U, k)
    BY <2>2, <2>3, SumExists
  <2>5. SumFunctionOnSet(f, U) = k[U]
    BY <2>3, SumDef
  <2>6. g[U] = k[U]
    BY <2>2, <2>4, <1>2, SumUnique
  <2> QED BY <2>1, <2>5, <2>6
<1> QED BY <1>3, <1>4, <1>5

LEMMA SumEmpty == ASSUME NEW f PROVE SumFunctionOnSet(f, {}) = 0
BY SumPick, FS_EmptySet

(***************************************************************************)
(* A sum of integers is one; it does not matter which element is taken out *)
(* first.                                                                  *)
(***************************************************************************)
LEMMA SumInt ==
  ASSUME NEW f, NEW S, IsFiniteSet(S), \A x \in S : f[x] \in Int
  PROVE  SumFunctionOnSet(f, S) \in Int
<1> SUFFICES ASSUME SumFunctionOnSet(f, S) \notin Int  PROVE FALSE
  OBVIOUS
<1>1. PICK B : B = {s \in SUBSET S : SumFunctionOnSet(f, s) \notin Int}
  OBVIOUS
<1>2. B \subseteq SUBSET S /\ B # {}
  BY <1>1
<1>3. PICK s \in B : \A u \in SUBSET s : u # s => u \notin B
  BY <1>2, LeastSet, Zenon
<1>4. s \in SUBSET S /\ SumFunctionOnSet(f, s) \notin Int /\ IsFiniteSet(s)
  BY <1>1, <1>3, FS_Subset
<1>5. s # {}
  BY <1>4, SumEmpty
<1>6. Pick(s) \in s
  BY <1>5 DEF Pick
<1>7. SumFunctionOnSet(f, s \ {Pick(s)}) \in Int
  BY <1>1, <1>3, <1>4, <1>6
<1> QED BY <1>4, <1>5, <1>6, <1>7, SumPick

LEMMA SumRemove ==
  ASSUME NEW f, NEW S, IsFiniteSet(S), \A x \in S : f[x] \in Int, NEW e \in S
  PROVE  SumFunctionOnSet(f, S) = f[e] + SumFunctionOnSet(f, S \ {e})
<1> SUFFICES ASSUME SumFunctionOnSet(f, S) # f[e] + SumFunctionOnSet(f, S \ {e})  PROVE FALSE
  OBVIOUS
<1>1. PICK B : B = {s \in SUBSET S : \E q \in s :
                      SumFunctionOnSet(f, s) # f[q] + SumFunctionOnSet(f, s \ {q})}
  OBVIOUS
<1>2. B \subseteq SUBSET S /\ B # {}
  BY <1>1
<1>3. PICK s \in B : \A u \in SUBSET s : u # s => u \notin B
  BY <1>2, LeastSet, Zenon
<1>4. s \in SUBSET S /\ IsFiniteSet(s)
  BY <1>1, <1>3, FS_Subset
<1>5. PICK q \in s : SumFunctionOnSet(f, s) # f[q] + SumFunctionOnSet(f, s \ {q})
  BY <1>1, <1>3
<1>6. PICK p : p = Pick(s)
  OBVIOUS
<1>7. p \in s /\ SumFunctionOnSet(f, s) = f[p] + SumFunctionOnSet(f, s \ {p})
  BY <1>4, <1>6, SumPick DEF Pick
<1>8. p # q
  BY <1>4, <1>5, <1>7
<1>9. PICK u : u = s \ {q}
  OBVIOUS
<1>10. PICK v : v = s \ {p}
  OBVIOUS
<1>11. PICK w : w = v \ {q}
  OBVIOUS
<1>12. IsFiniteSet(u) /\ IsFiniteSet(v) /\ IsFiniteSet(w)
  BY <1>4, <1>9, <1>10, <1>11, FS_RemoveElement
<1>13. SumFunctionOnSet(f, v) = f[q] + SumFunctionOnSet(f, w)
  BY <1>1, <1>3, <1>4, <1>5, <1>7, <1>8, <1>10, <1>11
<1>14. SumFunctionOnSet(f, u) = f[p] + SumFunctionOnSet(f, w)
  <2>1. u \in SUBSET s /\ u # s /\ p \in u /\ w = u \ {p}
    BY <1>7, <1>8, <1>9, <1>10, <1>11
  <2>2. u \notin B /\ u \in SUBSET S
    BY <2>1, <1>3, <1>4
  <2> QED BY <2>1, <2>2, <1>1
<1>15. f[p] \in Int /\ f[q] \in Int /\ SumFunctionOnSet(f, w) \in Int
  BY <1>4, <1>7, <1>10, <1>11, <1>12, SumInt
<1> QED BY <1>4, <1>5, <1>7, <1>9, <1>10, <1>13, <1>14, <1>15

\* Sums over the same set of functions that agree there are equal.
LEMMA SumCongruence ==
  ASSUME NEW f, NEW g, NEW S, IsFiniteSet(S), \A x \in S : f[x] = g[x]
  PROVE  SumFunctionOnSet(f, S) = SumFunctionOnSet(g, S)
<1> SUFFICES ASSUME SumFunctionOnSet(f, S) # SumFunctionOnSet(g, S)  PROVE FALSE
  OBVIOUS
<1>1. PICK B : B = {s \in SUBSET S : SumFunctionOnSet(f, s) # SumFunctionOnSet(g, s)}
  OBVIOUS
<1>2. B \subseteq SUBSET S /\ B # {}
  BY <1>1
<1>3. PICK s \in B : \A u \in SUBSET s : u # s => u \notin B
  BY <1>2, LeastSet, Zenon
<1>4. s \in SUBSET S /\ IsFiniteSet(s) /\ SumFunctionOnSet(f, s) # SumFunctionOnSet(g, s)
  BY <1>1, <1>3, FS_Subset
<1>5. s # {}
  BY <1>4, SumEmpty
<1>6. PICK p : p = Pick(s)
  OBVIOUS
<1>7. PICK w : w = s \ {p}
  OBVIOUS
<1>8. p \in s /\ p \in S /\ w \in SUBSET S /\ w \in SUBSET s /\ w # s /\ IsFiniteSet(w)
  BY <1>4, <1>5, <1>6, <1>7, FS_Subset DEF Pick
<1>9. SumFunctionOnSet(f, s) = f[p] + SumFunctionOnSet(f, w)
  BY <1>4, <1>5, <1>6, <1>7, SumPick
<1>10. SumFunctionOnSet(g, s) = g[p] + SumFunctionOnSet(g, w)
  BY <1>4, <1>5, <1>6, <1>7, SumPick
<1>11. SumFunctionOnSet(f, w) = SumFunctionOnSet(g, w)
  BY <1>1, <1>3, <1>8
<1> QED BY <1>4, <1>8, <1>9, <1>10, <1>11

\* The sum of the sums of two functions.
LEMMA SumPlus ==
  ASSUME NEW f, NEW g, NEW h, NEW S, IsFiniteSet(S),
         \A x \in S : f[x] \in Int /\ g[x] \in Int /\ h[x] = f[x] + g[x]
  PROVE  SumFunctionOnSet(h, S) = SumFunctionOnSet(f, S) + SumFunctionOnSet(g, S)
<1> SUFFICES ASSUME SumFunctionOnSet(h, S) # SumFunctionOnSet(f, S) + SumFunctionOnSet(g, S)  PROVE FALSE
  OBVIOUS
<1>1. PICK B : B = {s \in SUBSET S : SumFunctionOnSet(h, s) # SumFunctionOnSet(f, s) + SumFunctionOnSet(g, s)}
  OBVIOUS
<1>2. B \subseteq SUBSET S /\ B # {}
  BY <1>1
<1>3. PICK s \in B : \A u \in SUBSET s : u # s => u \notin B
  BY <1>2, LeastSet, Zenon
<1>4. s \in SUBSET S /\ IsFiniteSet(s) /\ SumFunctionOnSet(h, s) # SumFunctionOnSet(f, s) + SumFunctionOnSet(g, s)
  BY <1>1, <1>3, FS_Subset
<1>5. s # {}
  <2>1. ASSUME s = {}
        PROVE  SumFunctionOnSet(h, s) = 0 /\ SumFunctionOnSet(f, s) = 0 /\ SumFunctionOnSet(g, s) = 0
    BY <2>1, SumEmpty
  <2> QED BY <2>1, <1>4
<1>6. PICK p : p = Pick(s)
  OBVIOUS
<1>7. PICK w : w = s \ {p}
  OBVIOUS
<1>8. p \in s /\ p \in S /\ w \in SUBSET S /\ w \in SUBSET s /\ w # s /\ IsFiniteSet(w)
  BY <1>4, <1>5, <1>6, <1>7, FS_Subset DEF Pick
<1>9. SumFunctionOnSet(f, s) = f[p] + SumFunctionOnSet(f, w)
  BY <1>4, <1>5, <1>6, <1>7, SumPick
<1>10. SumFunctionOnSet(g, s) = g[p] + SumFunctionOnSet(g, w)
  BY <1>4, <1>5, <1>6, <1>7, SumPick
<1>11. SumFunctionOnSet(h, s) = h[p] + SumFunctionOnSet(h, w)
  BY <1>4, <1>5, <1>6, <1>7, SumPick
<1>12. SumFunctionOnSet(h, w) = SumFunctionOnSet(f, w) + SumFunctionOnSet(g, w)
  BY <1>1, <1>3, <1>8
<1>13. f[p] \in Int /\ g[p] \in Int /\ h[p] = f[p] + g[p]
  BY <1>8
<1>14. SumFunctionOnSet(f, w) \in Int /\ SumFunctionOnSet(g, w) \in Int
  BY <1>8, SumInt
<1> QED BY <1>4, <1>9, <1>10, <1>11, <1>12, <1>13, <1>14

\* A factor that all terms have.
LEMMA SumTimes ==
  ASSUME NEW f, NEW h, NEW c \in Int, NEW S, IsFiniteSet(S),
         \A x \in S : f[x] \in Int /\ h[x] = c * f[x]
  PROVE  SumFunctionOnSet(h, S) = c * SumFunctionOnSet(f, S)
<1> SUFFICES ASSUME SumFunctionOnSet(h, S) # c * SumFunctionOnSet(f, S)  PROVE FALSE
  OBVIOUS
<1>1. PICK B : B = {s \in SUBSET S : SumFunctionOnSet(h, s) # c * SumFunctionOnSet(f, s)}
  OBVIOUS
<1>2. B \subseteq SUBSET S /\ B # {}
  BY <1>1
<1>3. PICK s \in B : \A u \in SUBSET s : u # s => u \notin B
  BY <1>2, LeastSet, Zenon
<1>4. s \in SUBSET S /\ IsFiniteSet(s) /\ SumFunctionOnSet(h, s) # c * SumFunctionOnSet(f, s)
  BY <1>1, <1>3, FS_Subset
<1>5. s # {}
  <2>1. c * 0 = 0
    OBVIOUS
  <2> QED BY <2>1, <1>4, SumEmpty
<1>6. PICK p : p = Pick(s)
  OBVIOUS
<1>7. PICK w : w = s \ {p}
  OBVIOUS
<1>8. p \in s /\ p \in S /\ w \in SUBSET S /\ w \in SUBSET s /\ w # s /\ IsFiniteSet(w)
  BY <1>4, <1>5, <1>6, <1>7, FS_Subset DEF Pick
<1>9. SumFunctionOnSet(f, s) = f[p] + SumFunctionOnSet(f, w)
  BY <1>4, <1>5, <1>6, <1>7, SumPick
<1>10. SumFunctionOnSet(h, s) = h[p] + SumFunctionOnSet(h, w)
  BY <1>4, <1>5, <1>6, <1>7, SumPick
<1>11. SumFunctionOnSet(h, w) = c * SumFunctionOnSet(f, w)
  BY <1>1, <1>3, <1>8
<1>12. PICK q \in Int : q = SumFunctionOnSet(f, w)
  BY <1>8, SumInt
<1>13. PICK d \in Int : d = f[p]
  BY <1>8
<1>14. c * (d + q) = c * d + c * q
  OBVIOUS
<1> QED BY <1>4, <1>8, <1>9, <1>10, <1>11, <1>12, <1>13, <1>14

\* Greater terms have a greater sum.
LEMMA SumMonotone ==
  ASSUME NEW f, NEW g, NEW S, IsFiniteSet(S),
         \A x \in S : f[x] \in Int /\ g[x] \in Int /\ f[x] <= g[x]
  PROVE  SumFunctionOnSet(f, S) <= SumFunctionOnSet(g, S)
<1> SUFFICES ASSUME ~(SumFunctionOnSet(f, S) <= SumFunctionOnSet(g, S))  PROVE FALSE
  OBVIOUS
<1>1. PICK B : B = {s \in SUBSET S : ~(SumFunctionOnSet(f, s) <= SumFunctionOnSet(g, s))}
  OBVIOUS
<1>2. B \subseteq SUBSET S /\ B # {}
  BY <1>1
<1>3. PICK s \in B : \A u \in SUBSET s : u # s => u \notin B
  BY <1>2, LeastSet, Zenon
<1>4. s \in SUBSET S /\ IsFiniteSet(s) /\ ~(SumFunctionOnSet(f, s) <= SumFunctionOnSet(g, s))
  BY <1>1, <1>3, FS_Subset
<1>5. s # {}
  BY <1>4, SumEmpty
<1>6. PICK p : p = Pick(s)
  OBVIOUS
<1>7. PICK w : w = s \ {p}
  OBVIOUS
<1>8. p \in s /\ p \in S /\ w \in SUBSET S /\ w \in SUBSET s /\ w # s /\ IsFiniteSet(w)
  BY <1>4, <1>5, <1>6, <1>7, FS_Subset DEF Pick
<1>9. SumFunctionOnSet(f, s) = f[p] + SumFunctionOnSet(f, w)
  BY <1>4, <1>5, <1>6, <1>7, SumPick
<1>10. SumFunctionOnSet(g, s) = g[p] + SumFunctionOnSet(g, w)
  BY <1>4, <1>5, <1>6, <1>7, SumPick
<1>11. SumFunctionOnSet(f, w) <= SumFunctionOnSet(g, w)
  BY <1>1, <1>3, <1>8
<1>12. f[p] \in Int /\ g[p] \in Int /\ f[p] <= g[p]
  BY <1>8
<1>13. SumFunctionOnSet(f, w) \in Int /\ SumFunctionOnSet(g, w) \in Int
  BY <1>8, SumInt
<1> QED BY <1>4, <1>9, <1>10, <1>11, <1>12, <1>13

\* A sum of zeros is zero.
LEMMA SumZero ==
  ASSUME NEW f, NEW S, IsFiniteSet(S), \A x \in S : f[x] = 0
  PROVE  SumFunctionOnSet(f, S) = 0
<1> SUFFICES ASSUME SumFunctionOnSet(f, S) # 0  PROVE FALSE
  OBVIOUS
<1>1. PICK B : B = {s \in SUBSET S : SumFunctionOnSet(f, s) # 0}
  OBVIOUS
<1>2. B \subseteq SUBSET S /\ B # {}
  BY <1>1
<1>3. PICK s \in B : \A u \in SUBSET s : u # s => u \notin B
  BY <1>2, LeastSet, Zenon
<1>4. s \in SUBSET S /\ IsFiniteSet(s) /\ SumFunctionOnSet(f, s) # 0
  BY <1>1, <1>3, FS_Subset
<1>5. s # {}
  BY <1>4, SumEmpty
<1>6. PICK p : p = Pick(s)
  OBVIOUS
<1>7. PICK w : w = s \ {p}
  OBVIOUS
<1>8. p \in s /\ p \in S /\ w \in SUBSET S /\ w \in SUBSET s /\ w # s /\ IsFiniteSet(w)
  BY <1>4, <1>5, <1>6, <1>7, FS_Subset DEF Pick
<1>9. SumFunctionOnSet(f, s) = f[p] + SumFunctionOnSet(f, w)
  BY <1>4, <1>5, <1>6, <1>7, SumPick
<1>10. SumFunctionOnSet(f, w) = 0
  BY <1>1, <1>3, <1>8
<1> QED BY <1>4, <1>8, <1>9, <1>10

\* A sum of natural numbers is one.
LEMMA SumNat ==
  ASSUME NEW f, NEW S, IsFiniteSet(S), \A x \in S : f[x] \in Nat
  PROVE  SumFunctionOnSet(f, S) \in Nat
<1> SUFFICES ASSUME SumFunctionOnSet(f, S) \notin Nat  PROVE FALSE
  OBVIOUS
<1>1. PICK B : B = {s \in SUBSET S : SumFunctionOnSet(f, s) \notin Nat}
  OBVIOUS
<1>2. B \subseteq SUBSET S /\ B # {}
  BY <1>1
<1>3. PICK s \in B : \A u \in SUBSET s : u # s => u \notin B
  BY <1>2, LeastSet, Zenon
<1>4. s \in SUBSET S /\ IsFiniteSet(s) /\ SumFunctionOnSet(f, s) \notin Nat
  BY <1>1, <1>3, FS_Subset
<1>5. s # {}
  BY <1>4, SumEmpty
<1>6. PICK p : p = Pick(s)
  OBVIOUS
<1>7. PICK w : w = s \ {p}
  OBVIOUS
<1>8. p \in s /\ p \in S /\ w \in SUBSET S /\ w \in SUBSET s /\ w # s /\ IsFiniteSet(w)
  BY <1>4, <1>5, <1>6, <1>7, FS_Subset DEF Pick
<1>9. SumFunctionOnSet(f, s) = f[p] + SumFunctionOnSet(f, w)
  BY <1>4, <1>5, <1>6, <1>7, SumPick
<1>10. SumFunctionOnSet(f, w) \in Nat
  BY <1>1, <1>3, <1>8
<1> QED BY <1>4, <1>8, <1>9, <1>10

\* The sum over two sets that have no element in common.
LEMMA SumDisjoint ==
  ASSUME NEW f, NEW S, IsFiniteSet(S), NEW T, IsFiniteSet(T), S \cap T = {},
         \A x \in S \cup T : f[x] \in Int
  PROVE  SumFunctionOnSet(f, S \cup T) = SumFunctionOnSet(f, S) + SumFunctionOnSet(f, T)
<1> SUFFICES ASSUME SumFunctionOnSet(f, S \cup T) # SumFunctionOnSet(f, S) + SumFunctionOnSet(f, T)  PROVE FALSE
  OBVIOUS
<1>1. PICK B : B = {s \in SUBSET S : SumFunctionOnSet(f, s \cup T) # SumFunctionOnSet(f, s) + SumFunctionOnSet(f, T)}
  OBVIOUS
<1>2. B \subseteq SUBSET S /\ B # {}
  BY <1>1
<1>3. PICK s \in B : \A u \in SUBSET s : u # s => u \notin B
  BY <1>2, LeastSet, Zenon
<1>4. s \in SUBSET S /\ IsFiniteSet(s) /\ SumFunctionOnSet(f, s \cup T) # SumFunctionOnSet(f, s) + SumFunctionOnSet(f, T)
  BY <1>1, <1>3, FS_Subset
<1>5. s # {}
  <2>1. SumFunctionOnSet(f, T) \in Int
    BY SumInt
  <2>2. CASE s = {}
    <3>1. s \cup T = T
      BY <2>2
    <3> QED BY <2>1, <2>2, <3>1, <1>4, SumEmpty
  <2> QED BY <2>2
<1>6. PICK p : p = Pick(s)
  OBVIOUS
<1>7. PICK w : w = s \ {p}
  OBVIOUS
<1>8. p \in s /\ p \in S /\ w \in SUBSET S /\ w \in SUBSET s /\ w # s /\ IsFiniteSet(w)
  BY <1>4, <1>5, <1>6, <1>7, FS_Subset DEF Pick
<1>9. SumFunctionOnSet(f, s) = f[p] + SumFunctionOnSet(f, w)
  BY <1>4, <1>5, <1>6, <1>7, SumPick
<1>10. SumFunctionOnSet(f, s \cup T) = f[p] + SumFunctionOnSet(f, w \cup T)
  <2>1. PICK v : v = s \cup T
    OBVIOUS
  <2>2. p \in v /\ v \ {p} = w \cup T /\ IsFiniteSet(v) /\ \A x \in v : f[x] \in Int
    BY <2>1, <1>4, <1>7, <1>8, FS_Union
  <2> QED BY <2>1, <2>2, SumRemove
<1>11. SumFunctionOnSet(f, w \cup T) = SumFunctionOnSet(f, w) + SumFunctionOnSet(f, T)
  BY <1>1, <1>3, <1>8
<1>12. f[p] \in Int
  BY <1>8
<1>13. SumFunctionOnSet(f, w) \in Int /\ SumFunctionOnSet(f, T) \in Int
  BY <1>8, SumInt
<1> QED BY <1>4, <1>9, <1>10, <1>11, <1>12, <1>13

\* Terms that are zero can be left out.
LEMMA SumSupport ==
  ASSUME NEW f, NEW S, IsFiniteSet(S), NEW T \in SUBSET S,
         \A x \in S : f[x] \in Int, \A x \in S \ T : f[x] = 0
  PROVE  SumFunctionOnSet(f, S) = SumFunctionOnSet(f, T)
<1>1. PICK U : U = S \ T
  OBVIOUS
<1>2. IsFiniteSet(T) /\ IsFiniteSet(U) /\ T \cap U = {} /\ S = T \cup U
  BY <1>1, FS_Subset
<1>3. SumFunctionOnSet(f, T \cup U) = SumFunctionOnSet(f, T) + SumFunctionOnSet(f, U)
  BY <1>2, SumDisjoint
<1>4. SumFunctionOnSet(f, U) = 0
  BY <1>1, <1>2, SumZero
<1>5. SumFunctionOnSet(f, T) \in Int
  BY <1>2, SumInt
<1> QED BY <1>2, <1>3, <1>4, <1>5

(***************************************************************************)
(* Sums over two sets that correspond to each other, term by term.         *)
(***************************************************************************)
Corresponds(f, S, g, T, b) ==
  /\ b \in [S -> T]
  /\ \A x, y \in S : b[x] = b[y] => x = y
  /\ \A z \in T : \E x \in S : b[x] = z
  /\ \A x \in S : f[x] \in Int /\ g[b[x]] = f[x]

LEMMA SumReindex ==
  ASSUME NEW f, NEW g, NEW S, IsFiniteSet(S), NEW T, NEW b, Corresponds(f, S, g, T, b)
  PROVE  SumFunctionOnSet(f, S) = SumFunctionOnSet(g, T)
<1> USE DEF Corresponds
<1> DEFINE Img(s) == {b[x] : x \in s}
<1> SUFFICES ASSUME SumFunctionOnSet(f, S) # SumFunctionOnSet(g, T)  PROVE FALSE
  OBVIOUS
<1>1. Img(S) = T /\ IsFiniteSet(T)
  <2>1. b \in Surjection(S, T)
    BY DEF Surjection
  <2> QED BY <2>1, FS_Surjection
<1>2. PICK B : B = {s \in SUBSET S : SumFunctionOnSet(f, s) # SumFunctionOnSet(g, Img(s))}
  OBVIOUS
<1>3. B \subseteq SUBSET S /\ B # {}
  BY <1>1, <1>2
<1>4. PICK s \in B : \A u \in SUBSET s : u # s => u \notin B
  BY <1>3, LeastSet, Zenon
<1>5. s \in SUBSET S /\ IsFiniteSet(s) /\ SumFunctionOnSet(f, s) # SumFunctionOnSet(g, Img(s))
  BY <1>2, <1>4, FS_Subset
<1>6. s # {}
  <2>1. ASSUME s = {}  PROVE Img(s) = {}
    BY <2>1
  <2> QED BY <2>1, <1>5, SumEmpty
<1>7. PICK p : p = Pick(s)
  OBVIOUS
<1>8. PICK w : w = s \ {p}
  OBVIOUS
<1>9. p \in s /\ p \in S /\ w \in SUBSET S /\ w \in SUBSET s /\ w # s /\ IsFiniteSet(w)
  BY <1>5, <1>6, <1>7, <1>8, FS_Subset DEF Pick
<1>10. SumFunctionOnSet(f, s) = f[p] + SumFunctionOnSet(f, w)
  BY <1>5, <1>6, <1>7, <1>8, SumPick
<1>11. PICK v : v = Img(s)
  OBVIOUS
<1>12. v \subseteq T /\ b[p] \in v /\ v \ {b[p]} = Img(w) /\ \A z \in v : g[z] \in Int
  BY <1>5, <1>8, <1>9, <1>11
<1>13. IsFiniteSet(v)
  BY <1>1, <1>12, FS_Subset
<1>14. SumFunctionOnSet(g, v) = g[b[p]] + SumFunctionOnSet(g, Img(w))
  <2> HIDE DEF Img
  <2> QED BY <1>12, <1>13, SumRemove
<1>15. SumFunctionOnSet(f, w) = SumFunctionOnSet(g, Img(w))
  BY <1>2, <1>4, <1>9
<1>16. g[b[p]] = f[p]
  BY <1>9
<1> QED
  <2> HIDE DEF Img
  <2> QED BY <1>5, <1>10, <1>11, <1>14, <1>15, <1>16
-----------------------------------------------------------------------------
(***************************************************************************)
(* Sums over intervals: the last and the first term.                       *)
(***************************************************************************)
LEMMA SumLast ==
  ASSUME NEW f, NEW m \in Int, NEW n \in Int, m <= n, \A x \in m..n : f[x] \in Int
  PROVE  SumFunctionOnSet(f, m..n) = SumFunctionOnSet(f, m..(n - 1)) + f[n]
<1>1. IsFiniteSet(m..n) /\ IsFiniteSet(m..(n - 1))
  BY FS_Interval
<1>2. n \in m..n /\ (m..n) \ {n} = m..(n - 1)
  OBVIOUS
<1>3. SumFunctionOnSet(f, m..n) = f[n] + SumFunctionOnSet(f, (m..n) \ {n})
  BY <1>1, <1>2, SumRemove
<1>4. SumFunctionOnSet(f, m..(n - 1)) \in Int /\ f[n] \in Int
  BY <1>1, <1>2, SumInt
<1>5. PICK u, v : u = SumFunctionOnSet(f, m..n) /\ v = SumFunctionOnSet(f, m..(n - 1))
  OBVIOUS
<1>6. u = f[n] + v /\ v \in Int /\ f[n] \in Int
  BY <1>2, <1>3, <1>4, <1>5, Zenon
<1>7. u = v + f[n]
  BY <1>6
<1> QED BY <1>5, <1>7, Zenon

LEMMA SumFirst ==
  ASSUME NEW f, NEW m \in Int, NEW n \in Int, m <= n, \A x \in m..n : f[x] \in Int
  PROVE  SumFunctionOnSet(f, m..n) = f[m] + SumFunctionOnSet(f, (m + 1)..n)
<1>1. IsFiniteSet(m..n)
  BY FS_Interval
<1>2. m \in m..n /\ (m..n) \ {m} = (m + 1)..n
  OBVIOUS
<1> QED BY <1>1, <1>2, SumRemove

\* A sum over an interval with its bounds moved.
Shifted(f, g, m, n, d) ==
  /\ m \in Int /\ n \in Int /\ d \in Int
  /\ \A x \in m..n : f[x] \in Int /\ g[x + d] = f[x]

LEMMA SumShift ==
  ASSUME NEW f, NEW g, NEW m, NEW n, NEW d, Shifted(f, g, m, n, d)
  PROVE  SumFunctionOnSet(f, m..n) = SumFunctionOnSet(g, (m + d)..(n + d))
<1> USE DEF Shifted
<1>1. IsFiniteSet(m..n) /\ IsFiniteSet((m + d)..(n + d))
  BY FS_Interval
<1>2. PICK b : b = [x \in m..n |-> x + d]
  OBVIOUS
<1>3. b \in [m..n -> (m + d)..(n + d)] /\ \A x, y \in m..n : b[x] = b[y] => x = y
  BY <1>2
<1>4. ASSUME NEW z \in (m + d)..(n + d)  PROVE \E x \in m..n : b[x] = z
  <2>1. z - d \in m..n /\ b[z - d] = z
    BY <1>2
  <2> QED BY <2>1
<1>5. \A x \in m..n : f[x] \in Int /\ g[b[x]] = f[x]
  BY <1>2
<1>6. PICK S, T : S = m..n /\ T = (m + d)..(n + d)
  OBVIOUS
<1>7. SumFunctionOnSet(f, S) = SumFunctionOnSet(g, T)
  <2>1. IsFiniteSet(S) /\ IsFiniteSet(T) /\ b \in [S -> T]
    BY <1>1, <1>3, <1>6, Zenon
  <2>2. \A x, y \in S : b[x] = b[y] => x = y
    BY <1>3, <1>6, Zenon
  <2>3. \A z \in T : \E x \in S : b[x] = z
    BY <1>4, <1>6, Zenon
  <2>4. \A x \in S : f[x] \in Int /\ g[b[x]] = f[x]
    BY <1>5, <1>6, Zenon
  <2>5. Corresponds(f, S, g, T, b)
    BY <2>1, <2>2, <2>3, <2>4 DEF Corresponds
  <2> QED BY <2>1, <2>5, SumReindex
<1> QED BY <1>6, <1>7, Zenon
-----------------------------------------------------------------------------
\* SumFunction sums a function over its domain.
LEMMA SumOver ==
  ASSUME NEW f, NEW S, DOMAIN f = S
  PROVE  SumFunction(f) = SumFunctionOnSet(f, S)
BY DEF SumFunction
=============================================================================
