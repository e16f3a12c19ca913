--------------------------- MODULE OmpGemm_proofs ---------------------------
(***************************************************************************)
(* Proofs about OmpGemm for every team and every set of supported calls.   *)
(*                                                                         *)
(* The argument: the cells that the stores of the first loop write are     *)
(* pairwise disjoint and cover sum (CellsDisjoint, CellsCover), so that in *)
(* any order of the stores a cell holds 0 before its store and the value   *)
(* of the kernel after it; the barrier then makes sum complete before the  *)
(* second loop reads it, whose stores are disjoint and cover C in turn.    *)
(***************************************************************************)
EXTENDS MatmulVersions, BufferTheorems

AllSupported == \A c \in Calls : Supported(c)

\* The length of the rows in which sum is laid out.
Width(c) == IF RowPath(c) THEN c.n ELSE c.m

\* The element of the product that cell x of sum is for.
ProductAt(c, x) == Product(c, IF RowPath(c) THEN x \div c.n ELSE x % c.m,
                              IF RowPath(c) THEN x % c.n ELSE x \div c.m)
-----------------------------------------------------------------------------
LEMMA LanesType == ASSUME NEW c, Supported(c) PROVE Lanes(c) \in {2, 4}
BY DEF Lanes, Supported

\* Lane v of vector s is within a row that consists of whole vectors.
LEMMA VectorRange ==
  ASSUME NEW lanes \in {2, 4}, NEW w \in Nat \ {0}, w % lanes = 0,
         NEW s \in 0..((w \div lanes) - 1), NEW v \in 0..(lanes - 1)
  PROVE  lanes * s + v \in 0..(w - 1)
OBVIOUS

LEMMA VectorCover ==
  ASSUME NEW lanes \in {2, 4}, NEW w \in Nat \ {0}, w % lanes = 0, NEW x \in 0..(w - 1)
  PROVE  /\ x \div lanes \in 0..((w \div lanes) - 1)
         /\ x % lanes \in 0..(lanes - 1)
         /\ x = lanes * (x \div lanes) + (x % lanes)
OBVIOUS

LEMMA VectorCount ==
  ASSUME NEW lanes \in {2, 4}, NEW w \in Nat \ {0}, w % lanes = 0
  PROVE  w \div lanes \in Nat \ {0}
OBVIOUS
-----------------------------------------------------------------------------
(***************************************************************************)
(* The two loops of a supported call.                                      *)
(***************************************************************************)
LEMMA LoopTypes ==
  ASSUME NEW c, Supported(c)
  PROVE  /\ RowsIters(c) \in Nat \ {0} /\ RowsStores(c) \in Nat \ {0}
         /\ ScaleIters(c) \in Nat /\ ScaleStores(c) \in Nat \ {0}
         /\ Width(c) \in Nat \ {0}
         /\ c.m * c.n = RowsIters(c) * Width(c)
<1>1. c.m \in Nat \ {0} /\ c.n \in Nat \ {0} /\ c.m * c.n \in Nat
  BY DEF Supported
<1>2. RowTimesCol(c) => RowPath(c)
  BY DEF RowTimesCol
<1>3. CASE RowTimesCol(c)
  BY <1>1, <1>2, <1>3 DEF RowsIters, RowsStores, ScaleIters, ScaleStores, Width
<1>4. CASE ~RowTimesCol(c) /\ RowPath(c)
  <2>1. RowTimesRow(c)
    BY <1>4 DEF Supported, RowTimesRow, RowTimesCol
  <2>2. c.n \div Lanes(c) \in Nat \ {0}
    BY <1>1, <2>1, VectorCount, LanesType DEF Supported
  <2> QED
    BY <1>1, <1>4, <2>2 DEF RowsIters, RowsStores, ScaleIters, ScaleStores, Width
<1>5. CASE ~RowPath(c)
  <2>1. c.m \div Lanes(c) \in Nat \ {0}
    BY <1>1, <1>5, VectorCount, LanesType DEF Supported
  <2>2. c.m * c.n = c.n * c.m
    BY <1>1
  <2> QED
    BY <1>1, <1>2, <1>5, <2>1, <2>2 DEF RowsIters, RowsStores, ScaleIters, ScaleStores, Width
<1> QED
  BY <1>3, <1>4, <1>5

\* A cell of iteration r and store s lies in row r of sum, at a column of s.
LEMMA CellsInRow ==
  ASSUME NEW c, Supported(c), NEW r \in Nat, NEW s \in 0..(RowsStores(c) - 1),
         NEW x \in SumCells(c, r, s)
  PROVE  \E y \in 0..(Width(c) - 1) :
           /\ x = r * Width(c) + y
           /\ IF RowTimesCol(c) THEN y = s ELSE \E v \in 0..(Lanes(c) - 1) : y = Lanes(c) * s + v
<1>1. CASE RowTimesCol(c)
  BY <1>1 DEF RowTimesCol, SumCells, Width, RowsStores, Supported
<1>2. CASE ~RowTimesCol(c)
  <2>1. PICK v \in 0..(Lanes(c) - 1) : x = r * Width(c) + (Lanes(c) * s + v)
    BY <1>2 DEF SumCells, Width
  <2>2. Width(c) % Lanes(c) = 0 /\ Width(c) \in Nat \ {0} /\ RowsStores(c) = Width(c) \div Lanes(c)
    BY <1>2 DEF Supported, Width, RowsStores, RowTimesRow, RowTimesCol
  <2>3. Lanes(c) * s + v \in 0..(Width(c) - 1)
    BY <2>2, VectorRange, LanesType
  <2> QED
    BY <1>2, <2>1, <2>3
<1> QED
  BY <1>1, <1>2

\* Different stores of the first loop write different cells.
LEMMA CellsDisjoint ==
  ASSUME NEW c, Supported(c),
         NEW r \in Nat, NEW q \in Nat,
         NEW s \in 0..(RowsStores(c) - 1), NEW u \in 0..(RowsStores(c) - 1),
         NEW x, x \in SumCells(c, r, s), x \in SumCells(c, q, u)
  PROVE  r = q /\ s = u
<1>1. Width(c) \in Nat \ {0} /\ RowsStores(c) \in Nat
  BY LoopTypes
<1>2. PICK y \in 0..(Width(c) - 1) :
         /\ x = r * Width(c) + y
         /\ IF RowTimesCol(c) THEN y = s ELSE \E v \in 0..(Lanes(c) - 1) : y = Lanes(c) * s + v
  BY CellsInRow
<1>3. PICK z \in 0..(Width(c) - 1) :
         /\ x = q * Width(c) + z
         /\ IF RowTimesCol(c) THEN z = u ELSE \E v \in 0..(Lanes(c) - 1) : z = Lanes(c) * u + v
  BY CellsInRow
<1>4. r = q /\ y = z
  BY <1>1, <1>2, <1>3, StrideUnique
<1>5. s = u
  BY <1>1, <1>2, <1>3, <1>4, LanesType
<1> QED
  BY <1>4, <1>5

\* Every cell of sum is written by some store.
LEMMA CellsCover ==
  ASSUME NEW c, Supported(c), NEW x \in Buffer(c.m * c.n)
  PROVE  \E r \in 0..(RowsIters(c) - 1), s \in 0..(RowsStores(c) - 1) : x \in SumCells(c, r, s)
<1> DEFINE w == Width(c)
           r == x \div w
           y == x % w
<1>1. w \in Nat \ {0} /\ RowsIters(c) \in Nat /\ x \in 0..(RowsIters(c) * w - 1)
  BY LoopTypes DEF Buffer
<1>2. r \in 0..(RowsIters(c) - 1) /\ y \in 0..(w - 1) /\ x = r * w + y
  BY <1>1, StrideCover
<1>3. CASE RowTimesCol(c)
  BY <1>2, <1>3 DEF RowTimesCol, SumCells, Width, RowsStores, Supported
<1>4. CASE ~RowTimesCol(c)
  <2>1. w % Lanes(c) = 0 /\ RowsStores(c) = w \div Lanes(c)
    BY <1>4 DEF Supported, Width, RowsStores, RowTimesRow, RowTimesCol
  <2>2. /\ y \div Lanes(c) \in 0..(RowsStores(c) - 1)
        /\ y % Lanes(c) \in 0..(Lanes(c) - 1)
        /\ y = Lanes(c) * (y \div Lanes(c)) + (y % Lanes(c))
    <3>1. PICK lanes \in {2, 4} : lanes = Lanes(c)
      BY LanesType
    <3>2. w % lanes = 0 /\ y \in 0..(w - 1)
      BY <1>2, <2>1, <3>1
    <3> HIDE DEF w, r, y
    <3>3. /\ y \div lanes \in 0..((w \div lanes) - 1)
          /\ y % lanes \in 0..(lanes - 1)
          /\ y = lanes * (y \div lanes) + (y % lanes)
      BY <1>1, <3>2, VectorCover
    <3> QED
      BY <2>1, <3>1, <3>3
  <2>3. x \in SumCells(c, r, y \div Lanes(c))
    BY <1>2, <1>4, <2>2 DEF SumCells, Width
  <2> QED
    BY <1>2, <2>2, <2>3
<1> QED
  BY <1>3, <1>4

\* Different stores of the second loop write different cells of C.
LEMMA ScaleDisjoint ==
  ASSUME NEW c, Supported(c), NEW r \in Nat, NEW q \in Nat,
         NEW s \in 0..(ScaleStores(c) - 1), NEW u \in 0..(ScaleStores(c) - 1),
         ScaleCell(c, r, s) = ScaleCell(c, q, u)
  PROVE  r = q /\ s = u
<1>1. c.n \in Nat
  BY DEF Supported
<1>2. CASE RowPath(c)
  BY <1>2 DEF ScaleCell, ScaleStores
<1>3. CASE ~RowPath(c)
  BY <1>1, <1>3, StrideUnique DEF ScaleCell, ScaleStores
<1> QED
  BY <1>2, <1>3

LEMMA ScaleCover ==
  ASSUME NEW c, Supported(c), NEW x \in Buffer(c.m * c.n)
  PROVE  \E r \in 0..(ScaleIters(c) - 1), s \in 0..(ScaleStores(c) - 1) : ScaleCell(c, r, s) = x
<1>1. c.n \in Nat \ {0} /\ c.m \in Nat
  BY DEF Supported
<1>2. CASE RowPath(c)
  BY <1>2 DEF ScaleCell, ScaleStores, ScaleIters, Buffer
<1>3. CASE ~RowPath(c)
  <2>1. x \div c.n \in 0..(c.m - 1) /\ x % c.n \in 0..(c.n - 1) /\ x = (x \div c.n) * c.n + (x % c.n)
    BY <1>1, StrideCover DEF Buffer
  <2> QED
    BY <1>3, <2>1 DEF ScaleCell, ScaleStores, ScaleIters
<1> QED
  BY <1>2, <1>3

LEMMA ScaleRange ==
  ASSUME NEW c, Supported(c), NEW r \in 0..(ScaleIters(c) - 1), NEW s \in 0..(ScaleStores(c) - 1)
  PROVE  ScaleCell(c, r, s) \in Buffer(c.m * c.n) /\ ScaleSource(c, r, s) \in Buffer(c.m * c.n)
<1>1. c.n \in Nat \ {0} /\ c.m \in Nat \ {0}
  BY DEF Supported
<1>2. CASE RowPath(c)
  BY <1>2 DEF ScaleCell, ScaleSource, ScaleStores, ScaleIters, Buffer
<1>3. CASE ~RowPath(c)
  <2>1. c.m = c.n
    BY <1>3 DEF Supported
  <2>2. r \in 0..(c.m - 1) /\ s \in 0..(c.n - 1)
    BY <1>3 DEF ScaleIters, ScaleStores
  <2>3. r * c.n + s \in 0..(c.m * c.n - 1) /\ s * c.n + r \in 0..(c.m * c.n - 1)
    BY <1>1, <2>1, <2>2, StrideRange
  <2> QED
    BY <1>3, <2>3 DEF ScaleCell, ScaleSource, Buffer
<1> QED
  BY <1>2, <1>3
-----------------------------------------------------------------------------
(***************************************************************************)
(* The kernels compute the product.                                        *)
(***************************************************************************)
LEMMA Branches ==
  ASSUME NEW c, Supported(c)
  PROVE  /\ RowMajor(c)
         /\ RowPath(c) <=> c.ta = "NoTrans"
         /\ RowTimesRow(c) <=> c.ta = "NoTrans" /\ c.tb = "NoTrans"
         /\ RowTimesCol(c) <=> c.ta = "NoTrans" /\ c.tb = "Trans"
         /\ c.ta \in {"NoTrans", "Trans"} /\ c.tb \in {"NoTrans", "Trans"}
BY DEF Supported, RowMajor, RowPath, RowTimesRow, RowTimesCol

LEMMA RowRowValue ==
  ASSUME NEW c, Supported(c), RowTimesRow(c),
         NEW r \in Nat, NEW y \in 0..(c.n - 1)
  PROVE  Oneline(c.A, c.lda * r, c.B, y, c.m, c.n) = Product(c, r, y)
<1>1. c.k = c.m /\ c.ldb = c.n /\ c.n \in Nat /\ c.lda \in Nat /\ c.m \in Nat
  BY DEF Supported
<1>2. \A i \in 0..(c.m - 1) : c.A[c.lda * r + i] * c.B[y + i * c.n] = OpA(c, r, i) * OpB(c, i, y)
  <2> TAKE i \in 0..(c.m - 1)
  <2>1. OpA(c, r, i) = c.A[r * c.lda + i] /\ OpB(c, i, y) = c.B[i * c.ldb + y]
    BY Branches DEF OpA, OpB
  <2>2. c.lda * r + i = r * c.lda + i /\ y + i * c.n = i * c.ldb + y
    BY <1>1
  <2> QED
    BY <2>1, <2>2
<1>3. [i \in 0..(c.m - 1) |-> c.A[c.lda * r + i] * c.B[y + i * c.n]]
      = [l \in 0..(c.k - 1) |-> OpA(c, r, l) * OpB(c, l, y)]
  BY <1>1, <1>2
<1> QED
  BY <1>3 DEF Oneline, Product

LEMMA ColumnValue ==
  ASSUME NEW c, Supported(c), ~RowPath(c),
         NEW r \in 0..(c.n - 1), NEW y \in 0..(c.m - 1)
  PROVE  Oneline(Flip(c, c.B), c.k * r, c.A, y, c.n, c.m) = Product(c, y, r)
<1> DEFINE b == Flip(c, c.B)
<1>1. /\ c.k = c.n /\ c.m = c.n /\ c.lda = c.m /\ c.ldb = c.n
      /\ c.n \in Nat \ {0} /\ c.m \in Nat \ {0} /\ c.k \in Nat \ {0}
      /\ c.A \in [Buffer(c.m * c.k) -> Int] /\ c.B \in [Buffer(c.k * c.n) -> Int]
  BY DEF Supported
<1>2. \A l \in 0..(c.n - 1) : b[c.k * r + l] * c.A[y + l * c.m] = OpA(c, y, l) * OpB(c, l, r)
  <2> TAKE l \in 0..(c.n - 1)
  <2>1. OpA(c, y, l) = c.A[l * c.lda + y]
    BY Branches DEF OpA
  <2>2. y + l * c.m = l * c.lda + y
    BY <1>1
  <2>3. l * c.lda + y \in Buffer(c.m * c.k)
    BY <1>1, StrideRange DEF Buffer
  <2>4. c.k * r + l \in Buffer(c.k * c.n) /\ c.k * r + l = r * c.k + l
    <3>1. l \in 0..(c.k - 1) /\ c.k * c.n = c.n * c.k /\ c.k * r = r * c.k
      BY <1>1
    <3>2. r * c.k + l \in 0..(c.n * c.k - 1)
      BY <1>1, <3>1, StrideRange
    <3> QED
      BY <3>1, <3>2 DEF Buffer
  <2>5. b[c.k * r + l] = OpB(c, l, r) /\ OpB(c, l, r) \in Int
    <3>1. CASE c.tb = "Trans"
      <4>1. b = c.B /\ OpB(c, l, r) = c.B[r * c.ldb + l]
        BY <3>1, Branches DEF Flip, OpB
      <4> QED
        BY <4>1, <2>4, <1>1
    <3>2. CASE c.tb = "NoTrans"
      <4>1. b = Trans(c.B, c.k, c.n) /\ OpB(c, l, r) = c.B[l * c.ldb + r]
        BY <3>2, Branches DEF Flip, OpB
      <4>2. (c.k * r + l) % c.k = l /\ (c.k * r + l) \div c.k = r
        BY <1>1, <2>4, StrideSplit
      <4>3. b[c.k * r + l] = c.B[l * c.n + r]
        BY <1>1, <2>4, <4>1, <4>2 DEF Trans
      <4>4. l * c.n + r \in Buffer(c.k * c.n)
        BY <1>1, StrideRange DEF Buffer
      <4> QED
        BY <1>1, <4>1, <4>3, <4>4
    <3> QED
      BY <3>1, <3>2, Branches
  <2>6. c.A[l * c.lda + y] \in Int
    BY <1>1, <2>3
  <2> QED
    BY <2>1, <2>2, <2>5, <2>6
<1>3. [i \in 0..(c.n - 1) |-> b[c.k * r + i] * c.A[y + i * c.m]]
      = [l \in 0..(c.k - 1) |-> OpA(c, y, l) * OpB(c, l, r)]
  BY <1>1, <1>2
<1> QED
  BY <1>3 DEF Oneline, Product

\* The dot product with all its terms in blocks of four: the vector sum lies
\* twice in the register, and is halved.
LEMMA DotValue ==
  ASSUME NEW c, Supported(c), RowTimesCol(c),
         NEW r \in 0..(c.m - 1), NEW s \in 0..(c.n - 1)
  PROVE  DotAdd(c.build, c.A, r * c.lda, c.B, s * c.ldb, 0, c.k) = Product(c, r, s)
<1>1. PICK p, q : p = r * c.lda /\ q = s * c.ldb
  OBVIOUS
<1>2. c.build = "avx2" /\ c.k \in Nat \ {0} /\ c.k % 4 = 0 /\ c.lda \in Nat /\ c.ldb \in Nat
  BY DEF Supported
<1>3. p \in Nat /\ q \in Nat /\ r \in Nat /\ s \in Nat
  BY <1>1, <1>2
<1>4. 4 * (c.k \div 4) = c.k
  BY <1>2
<1>5. PICK f : f = [i \in 0..(c.k - 1) |-> c.A[p + i] * c.B[q + i]]
  OBVIOUS
<1>6. PICK g : g = [i \in 0..-1 |-> c.A[p + (c.k - 1 - i)] * c.B[q + (c.k - 1 - i)]]
  OBVIOUS
<1>7. DotAdd("avx2", c.A, p, c.B, q, 0, c.k) = (0 + 2 * SumFunction(f) + SumFunction(g)) \div 2
  <2>1. (c.k % 4) - 1 = -1
    BY <1>2
  <2> QED BY <1>4, <1>5, <1>6, <2>1, Zenon DEF DotAdd
<1>8. \A i \in 0..(c.k - 1) : f[i] \in Int
  <2> TAKE i \in 0..(c.k - 1)
  <2>1. p + i \in DOMAIN c.A /\ q + i \in DOMAIN c.B
    BY <1>1 DEF Supported
  <2>2. c.A[p + i] \in Int /\ c.B[q + i] \in Int
    BY <2>1 DEF Supported
  <2> QED BY <1>5, <2>2
<1>9. SumFunction(f) \in Int
  <2>1. DOMAIN f = 0..(c.k - 1) /\ IsFiniteSet(0..(c.k - 1))
    BY <1>2, <1>5, FS_Interval
  <2> QED BY <2>1, <1>8, SumOver, SumInt
<1>10. SumFunction(g) = 0
  <2>1. DOMAIN g = {}
    BY <1>6
  <2> QED BY <2>1, SumOver, SumEmpty
<1>11. DotAdd("avx2", c.A, p, c.B, q, 0, c.k) = SumFunction(f)
  BY <1>7, <1>9, <1>10
<1>12. Product(c, r, s) = SumFunction(f)
  <2>1. RowMajor(c) /\ c.ta = "NoTrans" /\ c.tb # "NoTrans"
    BY DEF Supported, RowTimesCol, RowPath, RowMajor
  <2>2. \A i \in 0..(c.k - 1) : OpA(c, r, i) = c.A[p + i] /\ OpB(c, i, s) = c.B[q + i]
    BY <2>1, <1>1 DEF OpA, OpB
  <2>3. f = [i \in 0..(c.k - 1) |-> OpA(c, r, i) * OpB(c, i, s)]
    BY <1>5, <2>2
  <2> QED BY <2>3 DEF Product
<1> QED BY <1>1, <1>2, <1>11, <1>12

LEMMA KernelValue ==
  ASSUME NEW c, Supported(c),
         NEW r \in 0..(RowsIters(c) - 1), NEW s \in 0..(RowsStores(c) - 1),
         NEW x \in SumCells(c, r, s), NEW f, f[x] = 0
  PROVE  SumValue(c, Flip(c, c.B), f, r, s, x) = ProductAt(c, x)
<1>1. c.n \in Nat \ {0} /\ c.m \in Nat \ {0} /\ r \in Nat
  BY LoopTypes DEF Supported
<1>2. PICK y \in 0..(Width(c) - 1) :
         /\ x = r * Width(c) + y
         /\ IF RowTimesCol(c) THEN y = s ELSE \E v \in 0..(Lanes(c) - 1) : y = Lanes(c) * s + v
  BY <1>1, CellsInRow
<1>3. CASE RowTimesRow(c)
  <2>1. RowPath(c) /\ Flip(c, c.B) = c.B /\ Width(c) = c.n
    BY <1>3 DEF RowTimesRow, Flip, Width
  <2>2. x = r * c.n + y /\ x - c.n * r = y /\ y \in 0..(c.n - 1)
    BY <1>1, <1>2, <2>1
  <2>3. x \div c.n = r /\ x % c.n = y
    BY <1>1, <2>2, StrideSplit
  <2>4. SumValue(c, Flip(c, c.B), f, r, s, x) = Oneline(c.A, c.lda * r, c.B, y, c.m, c.n)
    BY <1>3, <2>1, <2>2 DEF SumValue, RowTimesRow, RowTimesCol
  <2>5. ProductAt(c, x) = Product(c, r, y)
    BY <2>1, <2>3 DEF ProductAt
  <2> QED
    BY <1>1, <1>3, <2>2, <2>4, <2>5, RowRowValue
<1>4. CASE RowTimesCol(c)
  <2>1. RowPath(c) /\ Flip(c, c.B) = c.B /\ Width(c) = c.n /\ ~RowTimesRow(c)
    BY <1>4 DEF RowTimesCol, RowTimesRow, Flip, Width
  <2>2. x = r * c.n + s /\ s \in 0..(c.n - 1) /\ r \in 0..(c.m - 1)
    BY <1>2, <1>4, <2>1 DEF RowsIters
  <2>3. x \div c.n = r /\ x % c.n = s
    <3>1. (r * c.n + s) \div c.n = r /\ (r * c.n + s) % c.n = s
      BY <1>1, <2>2, StrideSplit
    <3> QED
      BY <2>2, <3>1
  <2>4. SumValue(c, Flip(c, c.B), f, r, s, x) = DotAdd(c.build, c.A, r * c.lda, c.B, s * c.ldb, 0, c.k)
    BY <1>4, <2>1 DEF SumValue
  <2>5. ProductAt(c, x) = Product(c, r, s)
    BY <2>1, <2>3 DEF ProductAt
  <2> QED
    BY <1>4, <2>2, <2>4, <2>5, DotValue
<1>5. CASE ~RowPath(c)
  <2>1. Width(c) = c.m /\ r \in 0..(c.n - 1) /\ ~RowTimesCol(c) /\ ~RowTimesRow(c)
    BY <1>5 DEF Width, RowsIters, RowTimesCol, RowTimesRow
  <2>2. x = r * c.m + y /\ x - r * c.m = y /\ y \in 0..(c.m - 1)
    BY <1>1, <1>2, <2>1
  <2>3. x \div c.m = r /\ x % c.m = y
    BY <1>1, <2>2, StrideSplit
  <2>4. SumValue(c, Flip(c, c.B), f, r, s, x) = Oneline(Flip(c, c.B), c.k * r, c.A, y, c.n, c.m)
    BY <2>1, <2>2 DEF SumValue
  <2>5. ProductAt(c, x) = Product(c, y, r)
    BY <1>5, <2>3 DEF ProductAt
  <2> QED
    BY <1>5, <2>1, <2>2, <2>4, <2>5, ColumnValue
<1> QED
  BY <1>3, <1>4, <1>5, Branches

\* Scaling a cell of the complete product gives the cell of the GEMM.
LEMMA ScaledValue ==
  ASSUME NEW c, Supported(c),
         NEW r \in 0..(ScaleIters(c) - 1), NEW s \in 0..(ScaleStores(c) - 1),
         NEW f, \A x \in Buffer(c.m * c.n) : f[x] = ProductAt(c, x),
         NEW C0, C0[ScaleCell(c, r, s)] = c.C[ScaleCell(c, r, s)]
  PROVE  ScaleValue(c, f, C0, r, s) = Gemm(c)[ScaleCell(c, r, s)]
<1> DEFINE x == ScaleCell(c, r, s)
           z == ScaleSource(c, r, s)
<1>1. x \in Buffer(c.m * c.n) /\ z \in Buffer(c.m * c.n)
  BY ScaleRange
<1>2. c.n \in Nat \ {0} /\ c.m \in Nat \ {0} /\ c.ldc = c.n /\ c.C \in [Buffer(c.m * c.n) -> Int]
  BY DEF Supported
<1>3. ScaleValue(c, f, C0, r, s) = c.alpha * ProductAt(c, z) + c.beta * c.C[x]
  BY <1>1 DEF ScaleValue
<1>4. Gemm(c)[x] = c.alpha * Product(c, x \div c.n, x % c.n) + c.beta * c.C[x]
  BY <1>1, <1>2, Branches DEF Gemm, RowOf, ColOf
<1>5. ProductAt(c, z) = Product(c, x \div c.n, x % c.n)
  <2>1. CASE RowPath(c)
    BY <2>1 DEF ProductAt, ScaleCell, ScaleSource
  <2>2. CASE ~RowPath(c)
    <3>1. c.m = c.n /\ r \in 0..(c.n - 1) /\ s \in 0..(c.n - 1)
      BY <2>2 DEF Supported, ScaleIters, ScaleStores
    <3>2. x = r * c.n + s /\ z = s * c.n + r
      BY <2>2 DEF ScaleCell, ScaleSource
    <3>3. x \div c.n = r /\ x % c.n = s /\ z \div c.m = s /\ z % c.m = r
      <4>1. r \in Nat /\ s \in Nat
        BY <3>1
      <4>2. (r * c.n + s) \div c.n = r /\ (r * c.n + s) % c.n = s
        BY <1>2, <3>1, <4>1, StrideSplit
      <4>3. (s * c.n + r) \div c.n = s /\ (s * c.n + r) % c.n = r
        BY <1>2, <3>1, <4>1, StrideSplit
      <4> QED
        BY <3>1, <3>2, <4>2, <4>3
    <3> QED
      BY <2>2, <3>3 DEF ProductAt
  <2> QED
    BY <2>1, <2>2
<1> QED
  BY <1>3, <1>4, <1>5
-----------------------------------------------------------------------------
\* A square matrix transposed where it lies, and transposed again.
LEMMA TransSquare ==
  ASSUME NEW n \in Nat \ {0}, NEW X, X = [x \in Buffer(n * n) |-> X[x]]
  PROVE  /\ \A i, j \in 0..(n - 1) : Trans(X, n, n)[i * n + j] = X[j * n + i]
         /\ Trans(Trans(X, n, n), n, n) = X
<1>1. PICK Y : Y = Trans(X, n, n)
  OBVIOUS
<1>2. Y = [x \in Buffer(n * n) |-> X[(x % n) * n + (x \div n)]]
  BY <1>1 DEF Trans
<1>3. ASSUME NEW i \in 0..(n - 1), NEW j \in 0..(n - 1)
      PROVE  i * n + j \in Buffer(n * n) /\ Y[i * n + j] = X[j * n + i]
  <2>1. i * n + j \in 0..(n * n - 1)
    BY StrideRange
  <2>2. PICK x : x = i * n + j
    OBVIOUS
  <2>3. i \in Nat
    OBVIOUS
  <2>4. x \div n = i /\ x % n = j
    BY <2>2, <2>3, StrideSplit
  <2>5. Y[x] = X[(x % n) * n + (x \div n)]
    BY <1>2, <2>1, <2>2 DEF Buffer
  <2> QED BY <2>1, <2>2, <2>4, <2>5 DEF Buffer
<1>4. Trans(Y, n, n) = [x \in Buffer(n * n) |-> Y[(x % n) * n + (x \div n)]]
  BY <1>2 DEF Trans
<1>5. ASSUME NEW x \in Buffer(n * n)  PROVE Y[(x % n) * n + (x \div n)] = X[x]
  <2>1. PICK i, j : i = x \div n /\ j = x % n
    OBVIOUS
  <2>2. i \in 0..(n - 1) /\ j \in 0..(n - 1) /\ x = i * n + j
    BY <2>1, StrideCover DEF Buffer
  <2>3. Y[j * n + i] = X[i * n + j]
    BY <1>3, <2>2
  <2> QED BY <2>1, <2>2, <2>3, Zenon
<1>6. Trans(Y, n, n) = X
  BY <1>4, <1>5, Zenon
<1> QED BY <1>1, <1>3, <1>6

(***************************************************************************)
(* The scalar versions: what a triple loop adds to a cell of sum is the    *)
(* element of the product, in whatever order the loops run.                *)
(***************************************************************************)
\* The steps of a triple loop that add to the cell of row i and column j.
LEMMA StepsOfCell ==
  ASSUME NEW c, {c.m, c.n, c.k} \subseteq Nat \ {0}, NEW at,
         \A w \in Steps(c) : at[w] = w[1] * c.n + w[2],
         NEW i \in 0..(c.m - 1), NEW j \in 0..(c.n - 1)
  PROVE  {v \in Steps(c) : at[v] = i * c.n + j} = {<<i, j, l>> : l \in 0..(c.k - 1)}
<1>1. ASSUME NEW l \in 0..(c.k - 1)
      PROVE  <<i, j, l>> \in Steps(c) /\ at[<<i, j, l>>] = i * c.n + j
  <2>1. <<i, j, l>> \in Steps(c)
    BY DEF Steps, Buffer
  <2> QED BY <2>1
<1>2. ASSUME NEW v \in Steps(c), at[v] = i * c.n + j
      PROVE  \E l \in 0..(c.k - 1) : v = <<i, j, l>>
  <2>1. /\ v[1] \in 0..(c.m - 1) /\ v[2] \in 0..(c.n - 1) /\ v[3] \in 0..(c.k - 1)
        /\ v = <<v[1], v[2], v[3]>>
    BY DEF Steps, Buffer
  <2>2. v[1] * c.n + v[2] = i * c.n + j
    BY <1>2
  <2>3. PICK w, p, q : w = c.n /\ p = v[1] /\ q = v[2]
    OBVIOUS
  <2>4. w \in Nat /\ p \in Nat /\ i \in Nat /\ q \in 0..(w - 1) /\ j \in 0..(w - 1) /\ p * w + q = i * w + j
    BY <2>1, <2>2, <2>3
  <2>5. p = i /\ q = j
    BY <2>4, StrideUnique
  <2> QED BY <2>1, <2>3, <2>5
<1> QED BY <1>1, <1>2

LEMMA ProductByLoops ==
  ASSUME NEW c, {c.m, c.n, c.k} \subseteq Nat \ {0}, NEW at, NEW term,
         \A w \in Steps(c) : at[w] = w[1] * c.n + w[2],
         \A w \in Steps(c) : /\ term[w] = OpA(c, w[1], w[3]) * OpB(c, w[3], w[2])
                             /\ term[w] \in Int,
         NEW i \in 0..(c.m - 1), NEW j \in 0..(c.n - 1)
  PROVE  Accumulated(c, at, term)[i * c.n + j] = Product(c, i, j)
<1>1. PICK x, V : x = i * c.n + j /\ V = {v \in Steps(c) : at[v] = i * c.n + j}
  OBVIOUS
<1>2. PICK L : L = 0..(c.k - 1)
  OBVIOUS
<1>3. PICK f, g, b : /\ f = [w \in V |-> term[w]]
                     /\ g = [l \in L |-> OpA(c, i, l) * OpB(c, l, j)]
                     /\ b = [l \in L |-> <<i, j, l>>]
  OBVIOUS
<1>4. V = {<<i, j, l>> : l \in L}
  <2>1. {v \in Steps(c) : at[v] = i * c.n + j} = {<<i, j, l>> : l \in 0..(c.k - 1)}
    BY StepsOfCell
  <2> QED BY <2>1, <1>1, <1>2, Zenon
<1>5. b \in [L -> V] /\ (\A l, e \in L : b[l] = b[e] => l = e) /\ \A z \in V : \E l \in L : b[l] = z
  <2>1. b = [l \in L |-> <<i, j, l>>]
    BY <1>3
  <2>2. b \in [L -> V]
    BY <2>1, <1>4
  <2>3. ASSUME NEW l \in L, NEW e \in L, b[l] = b[e]  PROVE l = e
    <3>1. <<i, j, l>> = <<i, j, e>>
      BY <2>1, <2>3
    <3> QED BY <3>1
  <2>4. \A z \in V : \E l \in L : b[l] = z
    BY <2>1, <1>4
  <2> QED BY <2>2, <2>3, <2>4
<1>6. \A l \in L : g[l] \in Int /\ f[b[l]] = g[l]
  <2> TAKE l \in L
  <2>1. <<i, j, l>> \in Steps(c) /\ <<i, j, l>> \in V
    BY <1>2, <1>4 DEF Steps, Buffer
  <2>2. term[<<i, j, l>>] = OpA(c, i, l) * OpB(c, l, j) /\ term[<<i, j, l>>] \in Int
    BY <2>1
  <2> QED BY <1>3, <2>1, <2>2
<1>7. IsFiniteSet(L)
  BY <1>2, FS_Interval
<1>8. SumFunctionOnSet(g, L) = SumFunctionOnSet(f, V)
  <2>1. Corresponds(g, L, f, V, b)
    BY <1>5, <1>6 DEF Corresponds
  <2> QED BY <2>1, <1>7, SumReindex
<1>9. SumFunction(g) = SumFunctionOnSet(g, L) /\ SumFunction(f) = SumFunctionOnSet(f, V)
  BY <1>3, SumOver
<1>10. Accumulated(c, at, term)[x] = SumFunction(f)
  <2>1. x \in Buffer(c.m * c.n)
    <3>1. PICK m, n : m = c.m /\ n = c.n
      OBVIOUS
    <3>2. m \in Nat /\ n \in Nat /\ i \in 0..(m - 1) /\ j \in 0..(n - 1)
      BY <3>1
    <3>3. i * n + j \in 0..(m * n - 1)
      BY <3>2, StrideRange
    <3> QED BY <3>1, <3>3, <1>1 DEF Buffer
  <2> QED BY <2>1, <1>1, <1>3 DEF Accumulated
<1>11. Product(c, i, j) = SumFunction(g)
  BY <1>2, <1>3 DEF Product
<1> QED BY <1>1, <1>8, <1>9, <1>10, <1>11

\* Such a triple loop, scaled into C, is the GEMM.
LEMMA LoopsAreGemm ==
  ASSUME NEW c, {c.m, c.n, c.k} \subseteq Nat \ {0}, RowMajor(c), c.ldc = c.n,
         DOMAIN c.C = Buffer(c.m * c.n), NEW at, NEW term,
         \A w \in Steps(c) : at[w] = w[1] * c.n + w[2],
         \A w \in Steps(c) : /\ term[w] = OpA(c, w[1], w[3]) * OpB(c, w[3], w[2])
                             /\ term[w] \in Int
  PROVE  Scaled(c, Accumulated(c, at, term)) = Gemm(c)
<1>1. PICK s : s = Accumulated(c, at, term)
  OBVIOUS
<1>2. ASSUME NEW x \in DOMAIN c.C
      PROVE  s[x] = Product(c, RowOf(c, x), ColOf(c, x))
  <2>1. PICK m, n, i, j : m = c.m /\ n = c.n /\ i = x \div n /\ j = x % n
    OBVIOUS
  <2>2. m \in Nat \ {0} /\ n \in Nat \ {0} /\ x \in 0..(m * n - 1)
    BY <2>1 DEF Buffer
  <2>3. i \in 0..(m - 1) /\ j \in 0..(n - 1) /\ x = i * n + j
    BY <2>1, <2>2, StrideCover
  <2>4. i \in 0..(c.m - 1) /\ j \in 0..(c.n - 1) /\ x = i * c.n + j
    BY <2>1, <2>3
  <2>5. Accumulated(c, at, term)[i * c.n + j] = Product(c, i, j)
    BY <2>4, ProductByLoops
  <2>6. RowOf(c, x) = i /\ ColOf(c, x) = j
    BY <2>1 DEF RowOf, ColOf
  <2> QED BY <1>1, <2>4, <2>5, <2>6, Zenon
<1>3. Scaled(c, s) = [x \in DOMAIN c.C |-> c.alpha * s[x] + c.beta * c.C[x]]
  BY DEF Scaled
<1>4. Gemm(c) = [x \in DOMAIN c.C |->
                   c.alpha * Product(c, RowOf(c, x), ColOf(c, x)) + c.beta * c.C[x]]
  BY DEF Gemm
<1> QED BY <1>1, <1>2, <1>3, <1>4, Zenon

\* The element of A or of B at an address that a supported call reads.
LEMMA ElementA ==
  ASSUME NEW c, Supported(c), NEW i \in 0..(c.m - 1), NEW l \in 0..(c.k - 1)
  PROVE  /\ OpA(c, i, l) = IF RowPath(c) THEN c.A[i * c.lda + l] ELSE c.A[l * c.m + i]
         /\ OpA(c, i, l) \in Int
<1>1. /\ RowMajor(c) /\ (RowPath(c) <=> c.ta = "NoTrans") /\ c.A \in [DOMAIN c.A -> Int]
      /\ {c.m, c.n, c.k} \subseteq Nat \ {0}
  BY DEF Supported, RowMajor, RowPath
<1>2. CASE RowPath(c)
  <2>1. i * c.lda + l \in DOMAIN c.A
    BY <1>2 DEF Supported, RowTimesRow, RowTimesCol
  <2>2. OpA(c, i, l) = c.A[i * c.lda + l]
    BY <1>1, <1>2 DEF OpA
  <2> QED BY <1>1, <1>2, <2>1, <2>2
<1>3. CASE ~RowPath(c)
  <2>1. c.lda = c.m /\ DOMAIN c.A = Buffer(c.m * c.k) /\ c.m = c.k
    BY <1>3 DEF Supported
  <2>2. PICK n : n = c.m
    OBVIOUS
  <2>3. n \in Nat /\ i \in 0..(n - 1) /\ l \in 0..(n - 1)
    BY <1>1, <2>1, <2>2
  <2>4. l * n + i \in 0..(n * n - 1)
    BY <2>3, StrideRange
  <2>5. l * c.m + i \in DOMAIN c.A
    BY <2>1, <2>2, <2>4 DEF Buffer
  <2>6. OpA(c, i, l) = c.A[l * c.m + i]
    BY <1>1, <1>3, <2>1 DEF OpA
  <2> QED BY <1>1, <1>3, <2>5, <2>6
<1> QED BY <1>2, <1>3

LEMMA ElementB ==
  ASSUME NEW c, Supported(c), NEW j \in 0..(c.n - 1), NEW l \in 0..(c.k - 1)
  PROVE  /\ OpB(c, l, j) = IF c.tb = "NoTrans" THEN c.B[l * c.n + j] ELSE c.B[j * c.ldb + l]
         /\ c.tb = "NoTrans" => c.ldb = c.n
         /\ OpB(c, l, j) \in Int
<1>1. /\ RowMajor(c) /\ c.B \in [Buffer(c.k * c.n) -> Int] /\ c.tb \in {"NoTrans", "Trans"}
      /\ {c.m, c.n, c.k} \subseteq Nat \ {0}
  BY DEF Supported, RowMajor
<1>2. c.tb = "NoTrans" => c.ldb = c.n
  BY DEF Supported, RowTimesRow
<1>3. PICK k, n : k = c.k /\ n = c.n
  OBVIOUS
<1>4. k \in Nat /\ n \in Nat /\ l \in 0..(k - 1) /\ j \in 0..(n - 1)
  BY <1>1, <1>3
<1>5. CASE c.tb = "NoTrans"
  <2>1. l * n + j \in 0..(k * n - 1)
    BY <1>4, StrideRange
  <2>2. l * c.n + j \in DOMAIN c.B
    BY <1>1, <1>3, <2>1 DEF Buffer
  <2>3. OpB(c, l, j) = c.B[l * c.n + j]
    BY <1>1, <1>2, <1>5 DEF OpB
  <2> QED BY <1>1, <1>2, <1>5, <2>2, <2>3
<1>6. CASE c.tb = "Trans"
  <2>1. j * c.ldb + l \in DOMAIN c.B
    <3>1. CASE RowPath(c)
      BY <1>6, <3>1 DEF Supported, RowTimesCol
    <3>2. CASE ~RowPath(c)
      <4>1. k = n /\ c.ldb = n
        BY <1>3, <3>2 DEF Supported
      <4>2. j * n + l \in 0..(n * n - 1)
        BY <1>4, <4>1, StrideRange
      <4> QED BY <1>1, <1>3, <4>1, <4>2 DEF Buffer
    <3> QED BY <3>1, <3>2
  <2>2. OpB(c, l, j) = c.B[j * c.ldb + l]
    BY <1>1, <1>6 DEF OpB
  <2> QED BY <1>1, <1>2, <1>6, <2>1, <2>2
<1> QED BY <1>1, <1>5, <1>6

\* What a supported call says of its loops.
LEMMA SupportedLoops ==
  ASSUME NEW c, Supported(c)
  PROVE  /\ {c.m, c.n, c.k} \subseteq Nat \ {0} /\ RowMajor(c) /\ c.ldc = c.n
         /\ DOMAIN c.C = Buffer(c.m * c.n)
         /\ \A w \in Steps(c) : /\ w[1] \in 0..(c.m - 1) /\ w[2] \in 0..(c.n - 1) /\ w[3] \in 0..(c.k - 1)
                                /\ c.ldc * w[1] + w[2] = w[1] * c.n + w[2]
                                /\ OpA(c, w[1], w[3]) \in Int /\ OpB(c, w[3], w[2]) \in Int
                                /\ OpA(c, w[1], w[3]) * OpB(c, w[3], w[2]) \in Int
<1>1. {c.m, c.n, c.k} \subseteq Nat \ {0} /\ RowMajor(c) /\ c.ldc = c.n /\ DOMAIN c.C = Buffer(c.m * c.n)
  BY DEF Supported, RowMajor
<1>2. ASSUME NEW w \in Steps(c)
      PROVE  /\ w[1] \in 0..(c.m - 1) /\ w[2] \in 0..(c.n - 1) /\ w[3] \in 0..(c.k - 1)
             /\ c.ldc * w[1] + w[2] = w[1] * c.n + w[2]
             /\ OpA(c, w[1], w[3]) \in Int /\ OpB(c, w[3], w[2]) \in Int
             /\ OpA(c, w[1], w[3]) * OpB(c, w[3], w[2]) \in Int
  <2>1. w[1] \in 0..(c.m - 1) /\ w[2] \in 0..(c.n - 1) /\ w[3] \in 0..(c.k - 1)
    BY DEF Steps, Buffer
  <2>2. c.ldc * w[1] + w[2] = w[1] * c.n + w[2]
    BY <1>1, <2>1
  <2>3. OpA(c, w[1], w[3]) \in Int /\ OpB(c, w[3], w[2]) \in Int
    BY <2>1, ElementA, ElementB
  <2> QED BY <2>1, <2>2, <2>3
<1> QED BY <1>1, <1>2

(***************************************************************************)
(* matrix_mul computes the GEMM unless both matrices are transposed,       *)
(***************************************************************************)
LEMMA MatrixMulGemm ==
  ASSUME NEW c, Supported(c), c.ta = "NoTrans" \/ c.tb = "NoTrans"
  PROVE  MatrixMul(c) = Gemm(c)
<1>1. /\ RowPath(c) <=> c.ta = "NoTrans"
      /\ c.tb \in {"NoTrans", "Trans"}
  BY DEF Supported, RowPath
<1>2. CASE RowTimesRow(c)
  <2>1. PICK at, term :
          /\ at = [w \in Steps(c) |-> c.ldc * w[1] + w[2]]
          /\ term = [w \in Steps(c) |-> c.A[w[1] * c.lda + w[3]] * c.B[w[3] * c.ldb + w[2]]]
    OBVIOUS
  <2>2. MatrixMul(c) = Scaled(c, Accumulated(c, at, term))
    <3>1. MatrixMul(c) = Scaled(c, RowRow(c))
      <4>1. RowTimesRow(c) /\ ~RowTimesCol(c) /\ RowPath(c)
        BY <1>2 DEF RowTimesRow, RowTimesCol
      <4> QED BY <4>1 DEF MatrixMul
    <3> QED BY <2>1, <3>1 DEF RowRow
  <2>3. \A w \in Steps(c) : at[w] = w[1] * c.n + w[2]
    BY <2>1, SupportedLoops
  <2>4. \A w \in Steps(c) : /\ term[w] = OpA(c, w[1], w[3]) * OpB(c, w[3], w[2])
                            /\ term[w] \in Int
    <3> TAKE w \in Steps(c)
    <3>1. OpA(c, w[1], w[3]) = c.A[w[1] * c.lda + w[3]] /\ OpB(c, w[3], w[2]) = c.B[w[3] * c.ldb + w[2]]
      BY <1>2, SupportedLoops, ElementA, ElementB DEF RowTimesRow
    <3> QED BY <2>1, <3>1, SupportedLoops
  <2> QED BY <2>2, <2>3, <2>4, SupportedLoops, LoopsAreGemm
<1>3. CASE RowTimesCol(c)
  <2>1. PICK at, term :
          /\ at = [w \in Steps(c) |-> w[1] * c.ldc + w[2]]
          /\ term = [w \in Steps(c) |-> c.A[w[1] * c.lda + w[3]] * c.B[w[2] * c.ldb + w[3]]]
    OBVIOUS
  <2>2. MatrixMul(c) = Scaled(c, Accumulated(c, at, term))
    BY <1>3, <2>1 DEF MatrixMul, RowCol, RowTimesRow, RowTimesCol
  <2>3. \A w \in Steps(c) : at[w] = w[1] * c.n + w[2]
    BY <2>1, SupportedLoops
  <2>4. \A w \in Steps(c) : /\ term[w] = OpA(c, w[1], w[3]) * OpB(c, w[3], w[2])
                            /\ term[w] \in Int
    <3> TAKE w \in Steps(c)
    <3>1. OpA(c, w[1], w[3]) = c.A[w[1] * c.lda + w[3]] /\ OpB(c, w[3], w[2]) = c.B[w[2] * c.ldb + w[3]]
      BY <1>3, SupportedLoops, ElementA, ElementB DEF RowTimesCol
    <3> QED BY <2>1, <3>1, SupportedLoops
  <2> QED BY <2>2, <2>3, <2>4, SupportedLoops, LoopsAreGemm
<1>4. CASE ~RowPath(c)
  <2>1. c.tb = "NoTrans"
    BY <1>1, <1>4
  <2>2. PICK at, term :
          /\ at = [w \in Steps(c) |-> w[1] * c.ldc + w[2]]
          /\ term = [w \in Steps(c) |-> c.A[w[3] * c.lda + w[1]] * c.B[w[2] + c.ldb * w[3]]]
    OBVIOUS
  <2>3. MatrixMul(c) = Scaled(c, Accumulated(c, at, term))
    <3>1. MatrixMul(c) = Scaled(c, ColRow(c))
      BY <1>4, <2>1 DEF MatrixMul, RowTimesRow, RowTimesCol
    <3> QED BY <2>2, <3>1 DEF ColRow
  <2>4. \A w \in Steps(c) : at[w] = w[1] * c.n + w[2]
    BY <2>2, SupportedLoops
  <2>5. \A w \in Steps(c) : /\ term[w] = OpA(c, w[1], w[3]) * OpB(c, w[3], w[2])
                            /\ term[w] \in Int
    <3> TAKE w \in Steps(c)
    <3>1. OpA(c, w[1], w[3]) = c.A[w[3] * c.lda + w[1]]
      BY <1>4, SupportedLoops, ElementA DEF Supported
    <3>2. OpB(c, w[3], w[2]) = c.B[w[3] * c.n + w[2]] /\ c.ldb = c.n
      BY <2>1, SupportedLoops, ElementB
    <3>3. w[2] + c.ldb * w[3] = w[3] * c.n + w[2]
      BY <3>2, SupportedLoops
    <3> QED BY <2>2, <3>1, <3>2, <3>3, SupportedLoops
  <2> QED BY <2>3, <2>4, <2>5, SupportedLoops, LoopsAreGemm
<1> QED BY <1>1, <1>2, <1>3, <1>4, Branches

\* and then it leaves the cells from the m-th on alone.
LEMMA MatrixMulRest ==
  ASSUME NEW c, Supported(c), c.ta = "Trans", c.tb = "Trans",
         NEW x \in DOMAIN c.C, x >= c.m
  PROVE  MatrixMul(c)[x] = c.C[x]
<1>1. ~RowPath(c) /\ c.tb # "NoTrans"
  BY DEF Supported, RowPath
<1>2. ~(x < c.m)
  BY DEF Supported, Buffer
<1>3. MatrixMul(c) =
         [y \in DOMAIN c.C |->
            IF y < c.m THEN c.alpha * ColCol(c)[(c.n - 1) * c.n + y] + c.beta * c.C[y * c.n + c.n - 1]
                       ELSE c.C[y]]
  BY <1>1 DEF MatrixMul, RowTimesRow, RowTimesCol
<1> QED BY <1>2, <1>3

\* Where matrix_easy_mul transposes a matrix, that is square and dense.
LEMMA FlippedSquare ==
  ASSUME NEW c, Supported(c), EasyShape(c), NEW n, n = c.n
  PROVE  /\ n \in Nat \ {0}
         /\ FlipsA(c) => /\ c.m = n /\ c.k = n /\ c.lda = n
                         /\ c.A = [x \in Buffer(n * n) |-> c.A[x]]
         /\ FlipsB(c) => c.k = n /\ c.ldb = n /\ c.B = [x \in Buffer(n * n) |-> c.B[x]]
<1>1. n \in Nat \ {0} /\ c.A \in [DOMAIN c.A -> Int] /\ c.B \in [Buffer(c.k * n) -> Int]
  BY DEF Supported
<1>2. ASSUME FlipsA(c)
      PROVE  /\ c.m = n /\ c.k = n /\ c.lda = n
             /\ c.A = [x \in Buffer(n * n) |-> c.A[x]]
  <2>1. c.m = n /\ c.k = n /\ c.lda = n /\ DOMAIN c.A = Buffer(n * n)
    BY <1>2 DEF Supported, FlipsA
  <2> QED BY <1>1, <2>1
<1>3. ASSUME FlipsB(c)
      PROVE  c.k = n /\ c.ldb = n /\ c.B = [x \in Buffer(n * n) |-> c.B[x]]
  <2>1. c.tb = "NoTrans"
    BY <1>3 DEF FlipsB
  <2>2. c.k = n /\ c.ldb = n
    BY <2>1 DEF Supported, EasyShape, Square, RowTimesRow
  <2> QED BY <1>1, <2>2
<1> QED BY <1>1, <1>2, <1>3

(***************************************************************************)
(* matrix_easy_mul computes the GEMM where its transpositions undo each    *)
(* other, and gives A and B back.                                          *)
(***************************************************************************)
LEMMA EasyMulGemm ==
  ASSUME NEW c, Supported(c), EasyShape(c)
  PROVE  EasyMul(c) = [A |-> c.A, B |-> c.B, C |-> Gemm(c)]
<1>1. PICK n, A1, B1 : /\ n = c.n
                       /\ A1 = IF FlipsA(c) THEN Trans(c.A, c.m, c.n) ELSE c.A
                       /\ B1 = IF FlipsB(c) THEN Trans(c.B, c.k, c.n) ELSE c.B
  OBVIOUS
<1>2. /\ n \in Nat \ {0}
      /\ FlipsA(c) => /\ c.m = n /\ c.k = n /\ c.lda = n
                      /\ c.A = [x \in Buffer(n * n) |-> c.A[x]]
      /\ FlipsB(c) => c.k = n /\ c.ldb = n /\ c.B = [x \in Buffer(n * n) |-> c.B[x]]
  BY <1>1, FlippedSquare
<1>3. PICK at, term :
        /\ at = [w \in Steps(c) |-> w[1] * c.ldc + w[2]]
        /\ term = [w \in Steps(c) |-> A1[w[1] * c.lda + w[3]] * B1[w[2] * c.ldb + w[3]]]
  OBVIOUS
<1>4. ASSUME NEW i \in 0..(c.m - 1), NEW l \in 0..(c.k - 1)
      PROVE  A1[i * c.lda + l] = OpA(c, i, l)
  <2>1. CASE FlipsA(c)
    <3>1. A1 = Trans(c.A, n, n) /\ c.lda = n /\ c.m = n /\ i \in 0..(n - 1) /\ l \in 0..(n - 1)
      BY <1>1, <1>2, <2>1
    <3>2. Trans(c.A, n, n)[i * n + l] = c.A[l * n + i]
      BY <1>2, <2>1, <3>1, TransSquare
    <3>3. OpA(c, i, l) = c.A[l * c.m + i]
      BY <2>1, ElementA DEF FlipsA
    <3> QED BY <3>1, <3>2, <3>3
  <2>2. CASE ~FlipsA(c)
    BY <1>1, <2>2, ElementA DEF FlipsA
  <2> QED BY <2>1, <2>2
<1>5. ASSUME NEW j \in 0..(c.n - 1), NEW l \in 0..(c.k - 1)
      PROVE  B1[j * c.ldb + l] = OpB(c, l, j)
  <2>1. CASE FlipsB(c)
    <3>1. B1 = Trans(c.B, n, n) /\ c.ldb = n /\ j \in 0..(n - 1) /\ l \in 0..(n - 1)
      BY <1>1, <1>2, <2>1
    <3>2. Trans(c.B, n, n)[j * n + l] = c.B[l * n + j]
      BY <1>2, <2>1, <3>1, TransSquare
    <3>3. OpB(c, l, j) = c.B[l * n + j]
      BY <1>1, <2>1, ElementB DEF FlipsB
    <3> QED BY <3>1, <3>2, <3>3
  <2>2. CASE ~FlipsB(c)
    BY <1>1, <2>2, ElementB DEF FlipsB
  <2> QED BY <2>1, <2>2
<1>6. \A w \in Steps(c) : at[w] = w[1] * c.n + w[2]
  BY <1>3, SupportedLoops
<1>7. \A w \in Steps(c) : /\ term[w] = OpA(c, w[1], w[3]) * OpB(c, w[3], w[2])
                          /\ term[w] \in Int
  <2> TAKE w \in Steps(c)
  <2>1. OpA(c, w[1], w[3]) = A1[w[1] * c.lda + w[3]] /\ OpB(c, w[3], w[2]) = B1[w[2] * c.ldb + w[3]]
    BY <1>4, <1>5, SupportedLoops
  <2> QED BY <1>3, <2>1, SupportedLoops
<1>8. Scaled(c, Accumulated(c, at, term)) = Gemm(c)
  BY <1>6, <1>7, SupportedLoops, LoopsAreGemm
<1>9. (IF FlipsA(c) THEN Trans(A1, c.m, c.n) ELSE c.A) = c.A
  <2>1. CASE FlipsA(c)
    <3>1. Trans(Trans(c.A, n, n), n, n) = c.A
      BY <1>2, <2>1, TransSquare
    <3> QED BY <1>1, <1>2, <2>1, <3>1
  <2> QED BY <2>1
<1>10. (IF FlipsB(c) THEN Trans(B1, c.k, c.n) ELSE c.B) = c.B
  <2>1. CASE FlipsB(c)
    <3>1. Trans(Trans(c.B, n, n), n, n) = c.B
      BY <1>2, <2>1, TransSquare
    <3> QED BY <1>1, <1>2, <2>1, <3>1
  <2> QED BY <2>1
<1>11. EasyMul(c) = [A |-> IF FlipsA(c) THEN Trans(A1, c.m, c.n) ELSE c.A,
                     B |-> IF FlipsB(c) THEN Trans(B1, c.k, c.n) ELSE c.B,
                     C |-> Scaled(c, Accumulated(c, at, term))]
  BY <1>1, <1>3, Zenon DEF EasyMul
<1> QED BY <1>8, <1>9, <1>10, <1>11, Zenon

-----------------------------------------------------------------------------
(***************************************************************************)
(* The inductive invariant.                                                *)
(***************************************************************************)

\* Store s of iteration r of the current loop has been made.
Done(r, s) == r < next /\ \A t \in Threads : iter[t] = r => s < pos[t]

\* Threads work in different iterations that have been handed out.
WorkInv ==
  \A t \in Threads :
    iter[t] # Idle => /\ phase \in {"rows", "scale"}
                      /\ iter[t] < next
                      /\ pos[t] < Stores(phase)
                      /\ \A u \in Threads : u # t => iter[u] # iter[t]

EnterInv == phase = "enter" => next = 0 /\ B = call.B /\ C = call.C

RowsInv ==
  phase = "rows" =>
    /\ B = Flip(call, call.B)
    /\ C = call.C
    /\ \A r \in 0..(RowsIters(call) - 1), s \in 0..(RowsStores(call) - 1) :
         \A x \in SumCells(call, r, s) :
           sum[x] = IF Done(r, s) THEN ProductAt(call, x) ELSE 0

ScaleInv ==
  phase = "scale" =>
    /\ B = Flip(call, call.B)
    /\ \A x \in Buffer(call.m * call.n) : sum[x] = ProductAt(call, x)
    /\ \A r \in 0..(ScaleIters(call) - 1), s \in 0..(ScaleStores(call) - 1) :
         LET x == ScaleCell(call, r, s)
         IN  C[x] = IF Done(r, s) THEN Gemm(call)[x] ELSE call.C[x]

DoneInv == phase = "done" => B = call.B /\ C = Gemm(call)

IsBuffer == C = [x \in Buffer(call.m * call.n) |-> C[x]]

IInv == TypeOK /\ WorkInv /\ EnterInv /\ RowsInv /\ ScaleInv /\ DoneInv /\ IsBuffer

\* What a state of the invariant knows of its call.
LEMMA CallFacts ==
  ASSUME AllSupported, IInv
  PROVE  /\ Supported(call)
         /\ DOMAIN C = Buffer(call.m * call.n)
         /\ Iters(phase) \in Nat /\ Stores(phase) \in Nat \ {0}
<1>1. Supported(call)
  BY DEF AllSupported, IInv, TypeOK
<1>2. DOMAIN C = Buffer(call.m * call.n)
  BY <1>1 DEF IInv, TypeOK, Supported
<1>3. Iters(phase) \in Nat /\ Stores(phase) \in Nat \ {0}
  BY <1>1, LoopTypes DEF Iters, Stores
<1> QED
  BY <1>1, <1>2, <1>3

\* Transposing a square B twice gives it back.
LEMMA FlipTwice ==
  ASSUME NEW c, Supported(c) PROVE Flip(c, Flip(c, c.B)) = c.B
<1>1. CASE RowPath(c) \/ c.tb # "NoTrans"
  BY <1>1 DEF Flip
<1>2. CASE ~RowPath(c) /\ c.tb = "NoTrans"
  <2>1. PICK n : n = c.n
    OBVIOUS
  <2>2. c.k = n /\ n \in Nat \ {0} /\ c.B = [x \in Buffer(n * n) |-> c.B[x]]
    BY <1>2, <2>1 DEF Supported
  <2>3. Trans(Trans(c.B, n, n), n, n) = c.B
    BY <2>2, TransSquare
  <2> QED
    BY <1>2, <2>1, <2>2, <2>3 DEF Flip
<1> QED
  BY <1>1, <1>2

LEMMA InitInv == ASSUME AllSupported, Init PROVE IInv
<1> USE DEF Init
<1>1. Supported(call)
  BY DEF AllSupported
<1>2. Iters(phase) \in Nat
  BY <1>1, LoopTypes DEF Iters
<1>3. TypeOK
  BY <1>2 DEF TypeOK, Phases, NoBuffer
<1>4. IsBuffer
  BY <1>1 DEF IsBuffer, Supported
<1> QED
  BY <1>3, <1>4 DEF IInv, WorkInv, EnterInv, RowsInv, ScaleInv, DoneInv

\* An iteration that is handed out has made no store yet.
LEMMA TakeDone ==
  ASSUME AllSupported, IInv, NEW t \in Threads, Take(t)
  PROVE  \A r, s \in Nat : Done(r, s)' <=> Done(r, s)
<1> TAKE r, s \in Nat
<1>1. Stores(phase) > 0 /\ next \in Nat /\ iter[t] = Idle
  BY CallFacts DEF IInv, TypeOK, Take
<1>2. /\ iter'[t] = next /\ pos'[t] = 0 /\ next' = next + 1
      /\ \A u \in Threads : u # t => iter'[u] = iter[u] /\ pos'[u] = pos[u]
  BY <1>1 DEF IInv, TypeOK, Take
<1>3. CASE r = next
  BY <1>1, <1>2, <1>3 DEF Done
<1>4. CASE r # next
  <2>1. iter[t] # r /\ iter'[t] # r
    BY <1>1, <1>2, <1>4 DEF Idle
  <2>2. r < next' <=> r < next
    BY <1>1, <1>2, <1>4
  <2> QED
    BY <1>2, <2>1, <2>2 DEF Done
<1> QED
  BY <1>3, <1>4

\* A store is made once, and it is the only one that has been made since.
LEMMA AdvanceDone ==
  ASSUME AllSupported, IInv, NEW t \in Threads, iter[t] # Idle, Advance(t),
         UNCHANGED <<call, phase, next>>,
         NEW k, k = iter[t], NEW j, j = pos[t]
  PROVE  /\ k \in 0..(Iters(phase) - 1) /\ j \in 0..(Stores(phase) - 1)
         /\ ~Done(k, j)
         /\ \A r \in Nat, s \in 0..(Stores(phase) - 1) :
              Done(r, s)' <=> Done(r, s) \/ (r = k /\ s = j)
<1>1. /\ k \in Nat /\ j \in Nat /\ k < next /\ j < Stores(phase) /\ next \in 0..Iters(phase)
      /\ Stores(phase) \in Nat /\ Iters(phase) \in Nat
  BY CallFacts DEF IInv, TypeOK, WorkInv
<1>2. /\ pos'[t] = j + 1
      /\ iter'[t] = IF j + 1 < Stores(phase) THEN k ELSE Idle
      /\ \A u \in Threads : u # t => iter'[u] = iter[u] /\ pos'[u] = pos[u] /\ iter[u] # k
  BY DEF Advance, IInv, TypeOK, WorkInv
<1>3. ~Done(k, j)
  BY <1>1 DEF Done
<1>4. ASSUME NEW r \in Nat, NEW s \in 0..(Stores(phase) - 1), r # k
      PROVE  Done(r, s)' <=> Done(r, s)
  <2>1. iter[t] # r /\ iter'[t] # r
    BY <1>2, <1>4 DEF Idle
  <2> QED
    BY <1>2, <2>1 DEF Done
<1>5. ASSUME NEW s \in 0..(Stores(phase) - 1)
      PROVE  Done(k, s)' <=> s < j + 1
  <2>1. CASE j + 1 < Stores(phase)
    BY <1>1, <1>2, <2>1 DEF Done
  <2>2. CASE ~(j + 1 < Stores(phase))
    <3>1. iter'[t] # k
      BY <1>1, <1>2, <2>2 DEF Idle
    <3>2. Done(k, s)'
      BY <1>1, <1>2, <3>1 DEF Done
    <3> QED
      BY <1>1, <2>2, <3>2
  <2> QED
    BY <2>1, <2>2
<1>6. ASSUME NEW s \in 0..(Stores(phase) - 1)
      PROVE  Done(k, s) <=> s < j
  BY <1>1, <1>2 DEF Done
<1>7. \A r \in Nat, s \in 0..(Stores(phase) - 1) :
        Done(r, s)' <=> Done(r, s) \/ (r = k /\ s = j)
  <2> TAKE r \in Nat, s \in 0..(Stores(phase) - 1)
  <2>1. CASE r # k
    BY <1>4, <2>1
  <2>2. CASE r = k
    BY <1>1, <1>5, <1>6, <2>2
  <2> QED
    BY <2>1, <2>2
<1> QED
  BY <1>1, <1>3, <1>7

\* A step that advances a thread keeps the threads apart.
LEMMA AdvanceWork ==
  ASSUME AllSupported, IInv, NEW t \in Threads, iter[t] # Idle, Advance(t),
         UNCHANGED <<call, phase, next>>
  PROVE  /\ WorkInv'
         /\ iter' \in [Threads -> {Idle} \cup Nat] /\ pos' \in [Threads -> Nat]
         /\ next' \in 0..Iters(phase)'
<1>1. iter' \in [Threads -> {Idle} \cup Nat] /\ pos' \in [Threads -> Nat]
  BY DEF Advance, IInv, TypeOK
<1>2. Stores(phase)' = Stores(phase) /\ Iters(phase)' = Iters(phase)
  BY DEF Stores, Iters
<1>3. WorkInv'
  <2> SUFFICES ASSUME NEW u \in Threads, iter'[u] # Idle
               PROVE  /\ phase' \in {"rows", "scale"}
                      /\ iter'[u] < next'
                      /\ pos'[u] < Stores(phase)'
                      /\ \A v \in Threads : v # u => iter'[v] # iter'[u]
    BY DEF WorkInv
  <2>1. \A v \in Threads : iter'[v] = iter[v] \/ iter'[v] = Idle
    BY DEF Advance, IInv, TypeOK
  <2>2. iter'[u] = iter[u] /\ iter[u] # Idle
    BY <2>1
  <2>3. pos'[u] < Stores(phase)
    BY <2>2 DEF Advance, IInv, TypeOK, WorkInv
  <2> QED
    BY <1>2, <2>1, <2>2, <2>3 DEF IInv, WorkInv
<1> QED
  BY <1>1, <1>2, <1>3 DEF IInv, TypeOK
-----------------------------------------------------------------------------
(***************************************************************************)
(* The invariant is preserved by every action.                             *)
(***************************************************************************)
LEMMA EnterStep == ASSUME AllSupported, IInv, Enter PROVE IInv'
<1> USE DEF Enter
<1>1. Supported(call)
  BY CallFacts
<1>2. next = 0 /\ B = call.B /\ C = call.C /\ \A t \in Threads : iter[t] = Idle
  BY DEF IInv, EnterInv, WorkInv
<1>3. TypeOK'
  <2>1. Iters(phase)' \in Nat
    BY <1>1, LoopTypes DEF Iters
  <2>2. DOMAIN Flip(call, B) = DOMAIN B
    BY DEF Flip, Trans
  <2> QED
    BY <1>2, <2>1, <2>2 DEF IInv, TypeOK, Phases
<1>4. WorkInv'
  BY <1>2 DEF WorkInv
<1>5. RowsInv'
  <2> SUFFICES ASSUME NEW r \in 0..(RowsIters(call) - 1), NEW s \in 0..(RowsStores(call) - 1),
                      NEW x \in SumCells(call, r, s)
               PROVE  sum'[x] = 0 /\ ~Done(r, s)'
    BY <1>2 DEF RowsInv
  <2>1. x \in Buffer(call.m * call.n)
    <3>1. r \in Nat /\ Width(call) \in Nat /\ RowsIters(call) \in Nat
      BY <1>1, LoopTypes
    <3>2. PICK y \in 0..(Width(call) - 1) : x = r * Width(call) + y
      BY <1>1, <3>1, CellsInRow
    <3>3. x \in 0..(RowsIters(call) * Width(call) - 1)
      BY <3>1, <3>2, StrideRange
    <3> QED
      BY <1>1, <3>3, LoopTypes DEF Buffer
  <2> QED
    BY <1>2, <2>1 DEF Done
<1> QED
  BY <1>2, <1>3, <1>4, <1>5 DEF IInv, EnterInv, ScaleInv, DoneInv, IsBuffer

LEMMA TakeStep == ASSUME AllSupported, IInv, NEW t \in Threads, Take(t) PROVE IInv'
<1>1. Supported(call) /\ Stores(phase) > 0 /\ Iters(phase) \in Nat
  BY CallFacts
<1>2. next \in Nat /\ next < Iters(phase) /\ Iters(phase)' = Iters(phase)
  BY DEF Take, IInv, TypeOK, Iters
<1>3. TypeOK'
  BY <1>1, <1>2 DEF Take, IInv, TypeOK
<1>4. WorkInv'
  <2>1. Stores(phase)' = Stores(phase)
    BY DEF Take, Stores
  <2> QED
    BY <1>1, <1>2, <2>1 DEF Take, IInv, TypeOK, WorkInv
<1>5. RowsInv'
  <2>1. ASSUME phase = "rows", NEW r \in 0..(RowsIters(call) - 1), NEW s \in 0..(RowsStores(call) - 1)
        PROVE  Done(r, s)' <=> Done(r, s)
    BY TakeDone
  <2> QED
    BY <2>1 DEF Take, IInv, RowsInv
<1>6. ScaleInv'
  <2>1. ASSUME phase = "scale", NEW r \in 0..(ScaleIters(call) - 1), NEW s \in 0..(ScaleStores(call) - 1)
        PROVE  Done(r, s)' <=> Done(r, s)
    BY TakeDone
  <2> QED
    BY <2>1 DEF Take, IInv, ScaleInv
<1>7. EnterInv' /\ DoneInv' /\ IsBuffer'
  BY DEF Take, IInv, EnterInv, DoneInv, IsBuffer
<1> QED
  BY <1>3, <1>4, <1>5, <1>6, <1>7 DEF IInv

LEMMA StoreSumStep == ASSUME AllSupported, IInv, NEW t \in Threads, StoreSum(t) PROVE IInv'
<1>1. /\ Supported(call)
      /\ phase = "rows" /\ iter[t] # Idle /\ Advance(t)
      /\ UNCHANGED <<call, phase, next, B, C>>
      /\ Iters(phase) = RowsIters(call) /\ Stores(phase) = RowsStores(call)
  BY CallFacts DEF StoreSum, Iters, Stores
<1> PICK k, j : k = iter[t] /\ j = pos[t]
  OBVIOUS
<1>2. /\ k \in 0..(RowsIters(call) - 1) /\ j \in 0..(RowsStores(call) - 1)
      /\ ~Done(k, j)
      /\ \A r \in Nat, s \in 0..(RowsStores(call) - 1) :
           Done(r, s)' <=> Done(r, s) \/ (r = k /\ s = j)
  BY <1>1, AdvanceDone
<1>3. sum' = [x \in DOMAIN sum |->
                IF x \in SumCells(call, k, j) THEN SumValue(call, B, sum, k, j, x) ELSE sum[x]]
  BY DEF StoreSum
<1>4. TypeOK'
  <2>1. DOMAIN sum' = DOMAIN sum
    BY <1>3
  <2> QED
    BY <1>1, <2>1, AdvanceWork DEF IInv, TypeOK
<1>5. RowsInv'
  <2> SUFFICES ASSUME NEW r \in 0..(RowsIters(call) - 1), NEW s \in 0..(RowsStores(call) - 1),
                      NEW x \in SumCells(call, r, s)
               PROVE  sum'[x] = IF Done(r, s)' THEN ProductAt(call, x) ELSE 0
    BY <1>1 DEF RowsInv, IInv
  <2>1. sum[x] = IF Done(r, s) THEN ProductAt(call, x) ELSE 0
    BY <1>1 DEF IInv, RowsInv
  <2>2. r \in Nat /\ k \in Nat
    BY <1>2
  <2>3. x \in DOMAIN sum
    <3>1. Width(call) \in Nat /\ RowsIters(call) \in Nat
      BY <1>1, LoopTypes
    <3>2. PICK y \in 0..(Width(call) - 1) : x = r * Width(call) + y
      BY <1>1, <2>2, CellsInRow
    <3>3. x \in 0..(RowsIters(call) * Width(call) - 1)
      BY <3>1, <3>2, StrideRange
    <3>4. x \in Buffer(call.m * call.n)
      BY <1>1, <3>3, LoopTypes DEF Buffer
    <3> QED
      BY <1>1, <3>4 DEF IInv, TypeOK
  <2>4. CASE r = k /\ s = j
    <3>1. sum[x] = 0
      BY <1>2, <2>1, <2>4
    <3>2. B = Flip(call, call.B)
      BY <1>1 DEF IInv, RowsInv
    <3>3. SumValue(call, B, sum, k, j, x) = ProductAt(call, x)
      BY <1>1, <1>2, <2>4, <3>1, <3>2, KernelValue
    <3> QED
      BY <1>2, <1>3, <2>2, <2>3, <2>4, <3>3
  <2>5. CASE ~(r = k /\ s = j)
    <3>1. x \notin SumCells(call, k, j)
      BY <1>1, <1>2, <2>2, <2>5, CellsDisjoint
    <3>2. Done(r, s)' <=> Done(r, s)
      BY <1>2, <2>2, <2>5
    <3> QED
      BY <1>3, <2>1, <2>3, <3>1, <3>2
  <2> QED
    BY <2>4, <2>5
<1>6. EnterInv' /\ ScaleInv' /\ DoneInv' /\ IsBuffer'
  BY <1>1 DEF IInv, EnterInv, ScaleInv, DoneInv, IsBuffer
<1> QED
  BY <1>1, <1>4, <1>5, <1>6, AdvanceWork DEF IInv

LEMMA StoreCStep == ASSUME AllSupported, IInv, NEW t \in Threads, StoreC(t) PROVE IInv'
<1>1. /\ Supported(call)
      /\ phase = "scale" /\ iter[t] # Idle /\ Advance(t)
      /\ UNCHANGED <<call, phase, next, sum, B>>
      /\ Iters(phase) = ScaleIters(call) /\ Stores(phase) = ScaleStores(call)
      /\ DOMAIN C = Buffer(call.m * call.n)
  BY CallFacts DEF StoreC, Iters, Stores
<1> PICK k, j : k = iter[t] /\ j = pos[t]
  OBVIOUS
<1>2. /\ k \in 0..(ScaleIters(call) - 1) /\ j \in 0..(ScaleStores(call) - 1)
      /\ ~Done(k, j)
      /\ \A r \in Nat, s \in 0..(ScaleStores(call) - 1) :
           Done(r, s)' <=> Done(r, s) \/ (r = k /\ s = j)
  BY <1>1, AdvanceDone
<1>3. C' = [C EXCEPT ![ScaleCell(call, k, j)] = ScaleValue(call, sum, C, k, j)]
  BY DEF StoreC
<1>4. TypeOK'
  <2>1. DOMAIN C' = DOMAIN C
    BY <1>3
  <2> QED
    BY <1>1, <2>1, AdvanceWork DEF IInv, TypeOK
<1>5. ScaleInv'
  <2> SUFFICES ASSUME NEW r \in 0..(ScaleIters(call) - 1), NEW s \in 0..(ScaleStores(call) - 1),
                      NEW x, x = ScaleCell(call, r, s)
               PROVE  C'[x] = IF Done(r, s)' THEN Gemm(call)[x] ELSE call.C[x]
    BY <1>1 DEF ScaleInv, IInv
  <2>1. C[x] = IF Done(r, s) THEN Gemm(call)[x] ELSE call.C[x]
    BY <1>1 DEF IInv, ScaleInv
  <2>2. r \in Nat /\ k \in Nat /\ x \in DOMAIN C
    BY <1>1, <1>2, ScaleRange
  <2>3. CASE r = k /\ s = j
    <3>1. C[x] = call.C[x]
      BY <1>2, <2>1, <2>3
    <3>2. \A y \in Buffer(call.m * call.n) : sum[y] = ProductAt(call, y)
      BY <1>1 DEF IInv, ScaleInv
    <3>3. ScaleValue(call, sum, C, k, j) = Gemm(call)[x]
      BY <1>1, <1>2, <2>3, <3>1, <3>2, ScaledValue
    <3> QED
      BY <1>2, <1>3, <2>2, <2>3, <3>3
  <2>4. CASE ~(r = k /\ s = j)
    <3>1. x # ScaleCell(call, k, j)
      BY <1>1, <1>2, <2>2, <2>4, ScaleDisjoint
    <3>2. Done(r, s)' <=> Done(r, s)
      BY <1>2, <2>2, <2>4
    <3> QED
      BY <1>3, <2>1, <2>2, <3>1, <3>2
  <2> QED
    BY <2>3, <2>4
<1>6. IsBuffer'
  BY <1>1, <1>3 DEF IsBuffer
<1>7. EnterInv' /\ RowsInv' /\ DoneInv'
  BY <1>1 DEF IInv, EnterInv, RowsInv, DoneInv
<1> QED
  BY <1>1, <1>4, <1>5, <1>6, <1>7, AdvanceWork DEF IInv

\* At a barrier every store of the loop has been made.
LEMMA AllDone ==
  ASSUME AllSupported, IInv, LoopOver, NEW r \in 0..(Iters(phase) - 1), NEW s \in Nat
  PROVE  Done(r, s)
<1>1. next \in 0..Iters(phase) /\ Iters(phase) \in Nat
  BY CallFacts DEF IInv, TypeOK
<1> QED
  BY <1>1 DEF LoopOver, Done, Idle

LEMMA EndRowsStep == ASSUME AllSupported, IInv, EndRows PROVE IInv'
<1> USE DEF EndRows
<1>1. Supported(call) /\ Iters(phase) = RowsIters(call)
  BY CallFacts DEF Iters
<1>2. TypeOK'
  <2>1. Iters(phase)' \in Nat
    BY <1>1, LoopTypes DEF Iters
  <2> QED
    BY <2>1 DEF IInv, TypeOK, Phases
<1>3. WorkInv'
  BY DEF WorkInv, LoopOver
<1>4. ScaleInv'
  <2>1. ASSUME NEW x \in Buffer(call.m * call.n) PROVE sum[x] = ProductAt(call, x)
    <3>1. PICK r \in 0..(RowsIters(call) - 1), s \in 0..(RowsStores(call) - 1) :
             x \in SumCells(call, r, s)
      BY <1>1, CellsCover
    <3>2. Done(r, s)
      BY <1>1, AllDone
    <3> QED
      BY <3>1, <3>2 DEF IInv, RowsInv
  <2>2. B = Flip(call, call.B) /\ C = call.C
    BY DEF IInv, RowsInv
  <2>3. \A r \in 0..(ScaleIters(call) - 1), s \in 0..(ScaleStores(call) - 1) : ~Done(r, s)'
    BY DEF Done
  <2> QED
    BY <2>1, <2>2, <2>3 DEF ScaleInv
<1>5. EnterInv' /\ RowsInv' /\ DoneInv' /\ IsBuffer'
  BY DEF IInv, EnterInv, RowsInv, DoneInv, IsBuffer
<1> QED
  BY <1>2, <1>3, <1>4, <1>5 DEF IInv

\* When the second loop is over C is the GEMM, and B is transposed back.
LEMMA LeaveResult ==
  ASSUME AllSupported, IInv, Leave PROVE C = Gemm(call) /\ B' = call.B
<1>1. Supported(call) /\ Iters(phase) = ScaleIters(call) /\ phase = "scale"
  BY CallFacts DEF Iters, Leave
<1>2. ASSUME NEW x \in Buffer(call.m * call.n) PROVE C[x] = Gemm(call)[x]
  <2>1. PICK r \in 0..(ScaleIters(call) - 1), s \in 0..(ScaleStores(call) - 1) :
           ScaleCell(call, r, s) = x
    BY <1>1, ScaleCover
  <2>2. Done(r, s)
    BY <1>1, AllDone DEF Leave
  <2> QED
    BY <1>1, <2>1, <2>2 DEF IInv, ScaleInv
<1>3. DOMAIN call.C = Buffer(call.m * call.n)
  BY <1>1 DEF Supported
<1>4. C = Gemm(call)
  BY <1>2, <1>3 DEF IInv, IsBuffer, Gemm
<1>5. B' = call.B
  BY <1>1, FlipTwice DEF Leave, IInv, ScaleInv
<1> QED
  BY <1>4, <1>5

LEMMA LeaveStep == ASSUME AllSupported, IInv, Leave PROVE IInv'
<1> USE DEF Leave
<1>1. C = Gemm(call) /\ B' = call.B
  BY LeaveResult
<1>2. TypeOK'
  <2>1. Iters(phase)' = Iters(phase)
    BY DEF Iters
  <2> QED
    BY <1>1, <2>1 DEF IInv, TypeOK, Phases, NoBuffer
<1>3. WorkInv'
  BY DEF WorkInv, LoopOver
<1> QED
  BY <1>1, <1>2, <1>3 DEF IInv, EnterInv, RowsInv, ScaleInv, DoneInv, IsBuffer

LEMMA NextStep == ASSUME AllSupported, IInv, [Next]_vars PROVE IInv'
<1>1. CASE Master
  BY <1>1, EnterStep, EndRowsStep, LeaveStep DEF Master
<1>2. ASSUME NEW t \in Threads, Worker(t) PROVE IInv'
  BY <1>2, TakeStep, StoreSumStep, StoreCStep DEF Worker
<1>3. CASE UNCHANGED vars
  BY <1>3 DEF vars, IInv, TypeOK, WorkInv, EnterInv, RowsInv, ScaleInv, DoneInv, IsBuffer,
              Done, Iters, Stores
<1> QED
  BY <1>1, <1>2, <1>3 DEF Next, Returned
-----------------------------------------------------------------------------
(***************************************************************************)
(* What the invariant says of the properties of OmpGemm.                   *)
(***************************************************************************)
LEMMA InvApart == ASSUME AllSupported, IInv PROVE NoSharedStore
<1> SUFFICES ASSUME NEW t \in Threads, NEW u \in Threads, t # u, iter[t] # Idle, iter[u] # Idle,
                    NEW x, x \in StillToWrite(t), x \in StillToWrite(u)
             PROVE  FALSE
  BY DEF NoSharedStore
<1>1. /\ iter[t] # iter[u] /\ iter[t] \in Nat /\ iter[u] \in Nat
      /\ pos[t] \in Nat /\ pos[u] \in Nat
      /\ phase \in {"rows", "scale"} /\ Supported(call)
  BY CallFacts DEF IInv, TypeOK, WorkInv
<1>2. CASE phase = "rows"
  <2>1. PICK s \in pos[t]..(RowsStores(call) - 1) : x \in SumCells(call, iter[t], s)
    BY <1>2 DEF StillToWrite, Stores
  <2>2. PICK r \in pos[u]..(RowsStores(call) - 1) : x \in SumCells(call, iter[u], r)
    BY <1>2 DEF StillToWrite, Stores
  <2>3. s \in 0..(RowsStores(call) - 1) /\ r \in 0..(RowsStores(call) - 1)
    BY <1>1, <2>1, <2>2
  <2> QED
    BY <1>1, <2>1, <2>2, <2>3, CellsDisjoint
<1>3. CASE phase = "scale"
  <2>1. PICK s \in pos[t]..(ScaleStores(call) - 1) : x = ScaleCell(call, iter[t], s)
    BY <1>3 DEF StillToWrite, Stores
  <2>2. PICK r \in pos[u]..(ScaleStores(call) - 1) : x = ScaleCell(call, iter[u], r)
    BY <1>3 DEF StillToWrite, Stores
  <2>3. s \in 0..(ScaleStores(call) - 1) /\ r \in 0..(ScaleStores(call) - 1)
    BY <1>1, <2>1, <2>2
  <2> QED
    BY <1>1, <2>1, <2>2, <2>3, ScaleDisjoint
<1> QED
  BY <1>1, <1>2, <1>3

LEMMA InvProduct == ASSUME AllSupported, IInv PROVE ProductBeforeScale
<1> SUFFICES ASSUME phase = "scale", NEW i \in 0..(call.m - 1), NEW j \in 0..(call.n - 1)
             PROVE  sum[IF RowPath(call) THEN i * call.n + j ELSE j * call.m + i] = Product(call, i, j)
  BY DEF ProductBeforeScale
<1>1. Supported(call) /\ call.m \in Nat \ {0} /\ call.n \in Nat \ {0} /\ i \in Nat /\ j \in Nat
  BY CallFacts DEF Supported
<1>2. \A x \in Buffer(call.m * call.n) : sum[x] = ProductAt(call, x)
  BY DEF IInv, ScaleInv
<1>3. CASE RowPath(call)
  <2>1. i * call.n + j \in Buffer(call.m * call.n)
    BY <1>1, StrideRange DEF Buffer
  <2>2. (i * call.n + j) \div call.n = i /\ (i * call.n + j) % call.n = j
    BY <1>1, StrideSplit
  <2> QED
    BY <1>2, <1>3, <2>1, <2>2 DEF ProductAt
<1>4. CASE ~RowPath(call)
  <2>1. j * call.m + i \in Buffer(call.m * call.n)
    <3>1. j * call.m + i \in 0..(call.n * call.m - 1)
      BY <1>1, StrideRange
    <3>2. call.n * call.m = call.m * call.n
      BY <1>1
    <3> QED
      BY <3>1, <3>2 DEF Buffer
  <2>2. (j * call.m + i) \div call.m = j /\ (j * call.m + i) % call.m = i
    BY <1>1, StrideSplit
  <2> QED
    BY <1>2, <1>4, <2>1, <2>2 DEF ProductAt
<1> QED
  BY <1>3, <1>4

LEMMA InvOldOrFinal == ASSUME AllSupported, IInv PROVE OldOrFinal
<1> SUFFICES ASSUME NEW x \in DOMAIN C PROVE C[x] \in {call.C[x], Gemm(call)[x]}
  BY DEF OldOrFinal
<1>1. Supported(call) /\ x \in Buffer(call.m * call.n)
  BY CallFacts
<1>2. CASE phase = "scale"
  <2>1. PICK r \in 0..(ScaleIters(call) - 1), s \in 0..(ScaleStores(call) - 1) :
           ScaleCell(call, r, s) = x
    BY <1>1, ScaleCover
  <2> QED
    BY <1>2, <2>1 DEF IInv, ScaleInv
<1>3. CASE phase # "scale"
  BY <1>3 DEF IInv, TypeOK, Phases, EnterInv, RowsInv, DoneInv
<1> QED
  BY <1>2, <1>3

LEMMA InvVersions == ASSUME AllSupported, IInv PROVE ScalarVersionsAgree
<1> SUFFICES ASSUME phase = "done"
             PROVE  /\ call.ta = "NoTrans" \/ call.tb = "NoTrans" => MatrixMul(call) = C
                    /\ call.ta = "Trans" /\ call.tb = "Trans" =>
                         \A x \in DOMAIN C : x >= call.m => MatrixMul(call)[x] = call.C[x]
                    /\ EasyShape(call) => EasyMul(call) = [A |-> call.A, B |-> call.B, C |-> C]
  BY DEF ScalarVersionsAgree
<1>1. Supported(call) /\ C = Gemm(call) /\ DOMAIN C = DOMAIN call.C
  BY CallFacts DEF IInv, DoneInv, TypeOK
<1>2. call.ta = "NoTrans" \/ call.tb = "NoTrans" => MatrixMul(call) = C
  BY <1>1, MatrixMulGemm
<1>3. call.ta = "Trans" /\ call.tb = "Trans" =>
        \A x \in DOMAIN C : x >= call.m => MatrixMul(call)[x] = call.C[x]
  BY <1>1, MatrixMulRest
<1>4. EasyShape(call) => EasyMul(call) = [A |-> call.A, B |-> call.B, C |-> C]
  BY <1>1, EasyMulGemm
<1> QED BY <1>2, <1>3, <1>4

\* Every step is the return of the abstract call, or invisible to the caller.
LEMMA StepImplements ==
  ASSUME AllSupported, IInv, IInv', [Next]_vars PROVE [Abstract!Next]_(Abstract!vars)
<1>1. CASE Leave
  <2>1. C = Gemm(call) /\ B' = call.B
    BY <1>1, LeaveResult
  <2> QED
    BY <1>1, <2>1 DEF Leave, Abstract!Next, Abstract!Return
<1>2. CASE ~Leave
  <2>1. UNCHANGED <<call, phase = "done">> /\ (phase = "done" => UNCHANGED <<B, C>>)
    BY <1>2 DEF Next, Master, Worker, Returned, Enter, Take, StoreSum, StoreC, EndRows, vars
  <2> QED
    BY <2>1 DEF Abstract!vars
<1> QED
  BY <1>1, <1>2

\* The inductive invariant holds in every state of a supported call.
THEOREM Invariance == ASSUME AllSupported PROVE Spec => []IInv
<1>1. Init => IInv
  BY InitInv
<1>2. IInv /\ [Next]_vars => IInv'
  BY NextStep
<1> QED
  BY <1>1, <1>2, PTL DEF Spec

\* The variables of the model of matrix_SIMD_final_mul keep their types.
THEOREM TypeCorrect == ASSUME AllSupported PROVE Spec => []TypeOK
<1>1. IInv => TypeOK
  BY DEF IInv
<1> QED
  BY <1>1, Invariance, PTL

\* No two threads of the team ever have a store to the same cell ahead.
THEOREM NoRace == ASSUME AllSupported PROVE Spec => []NoSharedStore
<1>1. IInv => NoSharedStore
  BY InvApart
<1> QED
  BY <1>1, Invariance, PTL

\* The second loop finds the whole product in sum, whatever the schedule.
THEOREM BarrierSeparates == ASSUME AllSupported PROVE Spec => []ProductBeforeScale
<1>1. IInv => ProductBeforeScale
  BY InvProduct
<1> QED
  BY <1>1, Invariance, PTL

\* A cell of C is stored once: beta is never applied twice.
THEOREM StoredOnce == ASSUME AllSupported PROVE Spec => []OldOrFinal
<1>1. IInv => OldOrFinal
  BY InvOldOrFinal
<1> QED
  BY <1>1, Invariance, PTL

\* The function returns the GEMM of its arguments and leaves B as it was.
THEOREM Correct == ASSUME AllSupported PROVE Spec => [](ResultIsGemm /\ BRestored)
<1>1. IInv => ResultIsGemm /\ BRestored
  BY DEF IInv, DoneInv, ResultIsGemm, BRestored
<1> QED
  BY <1>1, Invariance, PTL

\* The scalar versions of the multiplication compute what the parallel one does.
THEOREM VersionsAgree == ASSUME AllSupported PROVE Spec => []ScalarVersionsAgree
<1>1. IInv => ScalarVersionsAgree
  BY InvVersions
<1> QED
  BY <1>1, Invariance, PTL

\* The parallel function implements the one-step call of DgemmCall.
THEOREM Refinement == ASSUME AllSupported PROVE Spec => Abstract!Safe
<1>1. Init => Abstract!Init
  BY DEF Init, Abstract!Init
<1>2. IInv /\ IInv' /\ [Next]_vars => [Abstract!Next]_(Abstract!vars)
  BY StepImplements
<1> QED
  BY <1>1, <1>2, Invariance, PTL DEF Spec, Abstract!Safe
=============================================================================
