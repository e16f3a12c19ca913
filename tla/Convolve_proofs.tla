-------------------------- MODULE Convolve_proofs --------------------------
(***************************************************************************)
(* cov, proved: for every image, kernel, stride, padding, vector length    *)
(* and team, and every interleaving of the threads.                        *)
(*                                                                         *)
(* The sections: the positions of p1, p2 and p3 are read off the loop      *)
(* counters, and p1 * p2 summed over a place is the convolution there      *)
(* (ConvolutionSum, PlaceSum; ScalarSum for the sequential version); the   *)
(* chunks of the static schedule partition the iterations; what loading,   *)
(* storing and the tails do to a buffer; the sums over the points of a     *)
(* place, with and without lost ones; then the inductive invariant IInv,   *)
(* one lemma per step, and the theorems at the end.                        *)
(***************************************************************************)
EXTENDS Convolve, BufferTheorems
-----------------------------------------------------------------------------
(***************************************************************************)
(* Sizes and addresses.                                                    *)
(***************************************************************************)
LEMMA ProductNat == ASSUME NEW x \in Nat, NEW y \in Nat PROVE x * y \in Nat
OBVIOUS

LEMMA CallTypes ==
  ASSUME NEW c, Shaped(c)
  PROVE  /\ c.rows \in Nat \ {0} /\ c.cols \in Nat \ {0} /\ c.size \in Nat \ {0} /\ c.krows \in Nat \ {0}
         /\ c.kcols \in Nat \ {0} /\ c.team \in Nat \ {0}
         /\ c.stride[1] \in Nat \ {0} /\ c.stride[2] \in Nat \ {0}
         /\ c.padding[1] \in Nat /\ c.padding[2] \in Nat
BY DEF Shaped

LEMMA CallSizes ==
  ASSUME NEW c, Shaped(c)
  PROVE  /\ OutRows(c) \in Nat /\ OutCols(c) \in Nat /\ Places(c) \in Nat
         /\ Points(c) \in Nat \ {0} /\ Pixels(c) \in Nat /\ Cells(c) \in Nat
         /\ Places(c) = c.size * (OutRows(c) * OutCols(c))
<1>1. OutRows(c) \in Nat
  <2>1. PICK n, d : n = c.rows + 2 * c.padding[1] - c.krows + 1 /\ d = c.stride[1]
    OBVIOUS
  <2>2. PICK a, b, e : a = c.rows /\ b = c.padding[1] /\ e = c.krows
    OBVIOUS
  <2>3. a \in Nat /\ b \in Nat /\ e \in Nat /\ e <= a + 2 * b /\ d \in Nat \ {0} /\ n = a + 2 * b - e + 1
    BY <2>1, <2>2, CallTypes DEF Shaped
  <2>4. n \in Nat
    BY <2>3
  <2>5. n \div d \in Nat
    BY <2>3, <2>4
  <2> QED BY <2>1, <2>5 DEF OutRows
<1>2. OutCols(c) \in Nat
  <2>1. PICK n, d : n = c.cols + 2 * c.padding[2] - c.kcols + 1 /\ d = c.stride[2]
    OBVIOUS
  <2>2. PICK a, b, e : a = c.cols /\ b = c.padding[2] /\ e = c.kcols
    OBVIOUS
  <2>3. a \in Nat /\ b \in Nat /\ e \in Nat /\ e <= a + 2 * b /\ d \in Nat \ {0} /\ n = a + 2 * b - e + 1
    BY <2>1, <2>2, CallTypes DEF Shaped
  <2>4. n \in Nat
    BY <2>3
  <2>5. n \div d \in Nat
    BY <2>3, <2>4
  <2> QED BY <2>1, <2>5 DEF OutCols
<1>3. PICK r, o, s : r = OutRows(c) /\ o = OutCols(c) /\ s = c.size
  OBVIOUS
<1>4. r \in Nat /\ o \in Nat /\ s \in Nat
  BY <1>1, <1>2, <1>3, CallTypes
<1>5. Places(c) = (s * r) * o
  BY <1>3 DEF Places
<1>6. (s * r) * o = s * (r * o) /\ (s * r) * o \in Nat
  BY <1>4
<1>7. Places(c) \in Nat /\ Places(c) = c.size * (OutRows(c) * OutCols(c))
  BY <1>3, <1>5, <1>6
<1>8. Points(c) \in Nat \ {0}
  BY CallTypes DEF Points
<1>9. Pixels(c) \in Nat
  BY <1>7, <1>8, ProductNat DEF Pixels
<1>10. Cells(c) \in Nat
  BY <1>9 DEF Cells, Channels
<1> QED BY <1>1, <1>2, <1>7, <1>8, <1>9, <1>10

(***************************************************************************)
(* The cell of channel h of point p at place k.                            *)
(***************************************************************************)
CellOf(c, k, p, h) == 3 * (Points(c) * k + p) + h

InCall(c, k, p, h) == k \in 0..(Places(c) - 1) /\ p \in 0..(Points(c) - 1) /\ h \in 0..2

LEMMA CellPosition ==
  ASSUME NEW c, Shaped(c), NEW k, NEW p, NEW h, InCall(c, k, p, h),
         NEW q, q = CellOf(c, k, p, h)
  PROVE  /\ q \in 0..(Cells(c) - 1)
         /\ Points(c) * k + p \in 0..(Pixels(c) - 1)
         /\ q \div (Channels * Points(c)) = k /\ (q \div Channels) % Points(c) = p /\ q % Channels = h
<1>1. PICK n, w : n = Places(c) /\ w = Points(c)
  OBVIOUS
<1>2. n \in Nat /\ w \in Nat \ {0} /\ k \in 0..(n - 1) /\ p \in 0..(w - 1) /\ h \in 0..2 /\ k \in Nat /\ p \in Nat
  BY <1>1, CallSizes DEF InCall
<1>3. PICK x : x = k * w + p
  OBVIOUS
<1>4. x \in 0..(n * w - 1) /\ x \in Nat /\ w * k + p = x
  BY <1>2, <1>3, StrideRange
<1>5. x \div w = k /\ x % w = p
  BY <1>2, <1>3, StrideSplit
<1>6. q = x * 3 + h
  BY <1>1, <1>2, <1>4 DEF CellOf
<1>7. q \div 3 = x /\ q % 3 = h
  BY <1>2, <1>4, <1>6
<1>8. q \in 0..((n * w) * 3 - 1)
  <2>1. PICK N : N = n * w
    OBVIOUS
  <2>2. N \in Nat /\ x \in 0..(N - 1)
    BY <2>1, <1>2, <1>4, ProductNat
  <2>3. x * 3 + h \in 0..(N * 3 - 1)
    BY <2>2, <1>2
  <2> QED BY <2>1, <2>3, <1>6
<1>9. q \div (3 * w) = k
  <2>1. PICK v, y : v = 3 * w /\ y = 3 * p + h
    OBVIOUS
  <2>2. v \in Nat \ {0} /\ y \in 0..(v - 1)
    BY <2>1, <1>2
  <2>3. q = k * v + y
    <3>1. PICK z : z = k * w
      OBVIOUS
    <3>2. z \in Nat /\ x = z + p /\ k * v = 3 * z
      BY <3>1, <2>1, <1>2, <1>3, ProductNat
    <3> QED BY <3>2, <2>1, <1>2, <1>6
  <2>4. (k * v + y) \div v = k
    BY <2>2, <1>2, StrideSplit
  <2> QED BY <2>1, <2>3, <2>4
<1> QED BY <1>1, <1>4, <1>5, <1>7, <1>8, <1>9 DEF Cells, Pixels, Channels

\* The kernel of a place, and the address of a weight.
LEMMA KernelOfPlace ==
  ASSUME NEW c, Shaped(c), NEW k \in 0..(Places(c) - 1)
  PROVE  KernelAt(c, k) \in 0..(c.size - 1)
<1>1. PICK n, w : n = c.size /\ w = OutRows(c) * OutCols(c)
  OBVIOUS
<1>2. n \in Nat \ {0} /\ w \in Nat /\ k \in 0..(n * w - 1)
  BY <1>1, CallSizes, CallTypes, ProductNat
<1>3. w # 0
  BY <1>2
<1>4. k \div w \in 0..(n - 1)
  BY <1>2, <1>3, StrideCover
<1> QED BY <1>1, <1>4 DEF KernelAt

LEMMA WeightAddress ==
  ASSUME NEW c, Shaped(c), NEW s \in 0..(c.size - 1), NEW p \in 0..(Points(c) - 1), NEW h \in 0..2
  PROVE  /\ Channels * (s * Points(c) + p) + h \in DOMAIN c.kernel
         /\ ((s * c.krows + (p \div c.kcols)) * c.kcols + (p % c.kcols)) * Channels + h
              = Channels * (s * Points(c) + p) + h
         /\ p \div c.kcols \in 0..(c.krows - 1) /\ p % c.kcols \in 0..(c.kcols - 1)
<1>1. PICK n, a, b, i, j : n = c.size /\ a = c.krows /\ b = c.kcols /\ i = p \div b /\ j = p % b
  OBVIOUS
<1>2. /\ n \in Nat \ {0} /\ a \in Nat \ {0} /\ b \in Nat \ {0} /\ s \in 0..(n - 1) /\ p \in 0..(a * b - 1)
      /\ Points(c) = a * b
  BY <1>1, CallTypes DEF Points
<1>3. i \in 0..(a - 1) /\ j \in 0..(b - 1) /\ p = i * b + j
  BY <1>1, <1>2, StrideCover
<1>4. PICK u, x : u = a * b /\ x = s * u + p
  OBVIOUS
<1>5. u \in Nat /\ x \in 0..(n * u - 1)
  BY <1>2, <1>4, StrideRange, ProductNat
<1>6. (s * a + i) * b + j = x
  <2>1. PICK y : y = s * a
    OBVIOUS
  <2>2. y \in Nat /\ (y + i) * b = y * b + i * b
    BY <2>1, <1>2, <1>3
  <2>3. y * b = s * u
    BY <2>1, <1>2, <1>4
  <2>4. PICK v, e : v = s * u /\ e = i * b
    OBVIOUS
  <2>5. v \in Nat /\ e \in Nat /\ p = e + j /\ x = v + p /\ (y + i) * b = v + e
    BY <2>2, <2>3, <2>4, <1>2, <1>3, <1>4, <1>5, ProductNat
  <2> QED BY <2>1, <2>5, <1>3
<1>7. DOMAIN c.kernel = 0..((n * u) * 3 - 1)
  <2>1. DOMAIN c.kernel = 0..(n * a * b * 3 - 1)
    BY <1>1 DEF Shaped, Channels
  <2>2. n * a * b = n * u
    BY <1>2, <1>4
  <2> QED BY <2>1, <2>2
<1>8. Channels * x + h \in DOMAIN c.kernel
  <2>1. PICK N : N = n * u
    OBVIOUS
  <2>2. N \in Nat /\ x \in 0..(N - 1)
    BY <2>1, <1>2, <1>5, ProductNat
  <2>3. 3 * x + h \in 0..(N * 3 - 1)
    BY <2>2
  <2> QED BY <2>1, <2>3, <1>7 DEF Channels
<1>9. ((s * a + i) * b + j) * Channels + h = Channels * x + h
  BY <1>5, <1>6 DEF Channels
<1> QED BY <1>1, <1>2, <1>3, <1>4, <1>8, <1>9

\* The address of a pixel inside the image.
LEMMA PixelAddress ==
  ASSUME NEW c, Proper(c), NEW x, NEW y, Inside(c, x, y), NEW h \in 0..2
  PROVE  /\ Channels * (c.cols * x + y) + h \in DOMAIN c.image
         /\ x * c.cols * Channels + y * Channels + h = Channels * (c.cols * x + y) + h
<1>1. PICK m, n, z : m = c.rows /\ n = c.cols /\ z = x * n + y
  OBVIOUS
<1>2. m \in Nat \ {0} /\ n \in Nat \ {0} /\ x \in 0..(m - 1) /\ y \in 0..(n - 1)
  BY <1>1, CallTypes DEF Proper, Inside
<1>3. z \in 0..(m * n - 1) /\ n * x + y = z
  BY <1>1, <1>2, StrideRange
<1>4. PICK N : N = m * n
  OBVIOUS
<1>5. N \in Nat /\ z \in 0..(N - 1)
  BY <1>2, <1>3, <1>4, ProductNat
<1>6. DOMAIN c.image = 0..(N * 3 - 1)
  BY <1>1, <1>4 DEF Proper, Channels
<1>7. 3 * z + h \in 0..(N * 3 - 1)
  BY <1>5
<1>8. x * n * 3 + y * 3 + h = 3 * z + h
  <2>1. PICK v : v = x * n
    OBVIOUS
  <2>2. v \in Nat /\ z = v + y
    BY <2>1, <1>1, <1>2, ProductNat
  <2>3. v * 3 + y * 3 + h = 3 * z + h
    BY <2>2, <1>2
  <2> QED BY <2>1, <2>3
<1> QED BY <1>1, <1>3, <1>6, <1>7, <1>8 DEF Channels
-----------------------------------------------------------------------------
(***************************************************************************)
(* What cov gathers is what the convolution adds up.                       *)
(***************************************************************************)
\* The term of the convolution at place k for the point w of its window.
Term(c, k, w) ==
  Padded(c, c.stride[1] * ((k \div OutCols(c)) % OutRows(c)) + w[1] - c.padding[1],
            c.stride[2] * (k % OutCols(c)) + w[2] - c.padding[2], w[3])
  * c.kernel[((KernelAt(c, k) * c.krows + w[1]) * c.kcols + w[2]) * Channels + w[3]]

WindowPoint(c, p, h) == <<p \div c.kcols, p % c.kcols, h>>

LEMMA Gathered ==
  ASSUME NEW c, Proper(c), NEW k, NEW p, NEW h, InCall(c, k, p, h), NEW q, q = CellOf(c, k, p, h)
  PROVE  /\ P1(c)[q] \in Int /\ P2(c)[q] \in Int
         /\ P1(c)[q] * P2(c)[q] = Term(c, k, WindowPoint(c, p, h))
         /\ AddedAt(c, q) = Term(c, k, WindowPoint(c, p, h))
<1>1. Shaped(c) /\ k \in 0..(Places(c) - 1) /\ p \in 0..(Points(c) - 1) /\ h \in 0..2
  BY DEF Proper, InCall
<1>2. /\ q \in 0..(Cells(c) - 1)
      /\ q \div (Channels * Points(c)) = k /\ (q \div Channels) % Points(c) = p /\ q % Channels = h
      /\ q \div PerPlace(c) = k
  <2>1. /\ q \in 0..(Cells(c) - 1)
        /\ q \div (Channels * Points(c)) = k /\ (q \div Channels) % Points(c) = p /\ q % Channels = h
    BY <1>1, CellPosition
  <2>2. Points(c) * Channels = Channels * Points(c)
    BY <1>1, CallSizes DEF Channels
  <2> QED BY <2>1, <2>2 DEF PerPlace
<1>3. PICK x, y, s : x = RowAt(c, k, p) /\ y = ColAt(c, k, p) /\ s = KernelAt(c, k)
  OBVIOUS
<1>4. PICK i, j, K : /\ i = Channels * (c.cols * x + y) + h /\ j = Channels * (s * Points(c) + p) + h
                     /\ K = c.kernel
  OBVIOUS
<1>5. /\ P1(c)[q] = IF Inside(c, x, y) THEN c.image[i] ELSE 0
      /\ P2(c)[q] = IF Inside(c, x, y) THEN K[j] ELSE 0
  BY <1>2, <1>3, <1>4, Zenon DEF P1, P2
<1>6. AddedAt(c, q) = IF Inside(c, x, y) THEN c.image[i] * K[j] ELSE 0
  BY <1>2, <1>3, <1>4, Zenon DEF AddedAt
<1>7. /\ j \in DOMAIN K
      /\ ((s * c.krows + (p \div c.kcols)) * c.kcols + (p % c.kcols)) * Channels + h = j
  BY <1>1, <1>3, <1>4, KernelOfPlace, WeightAddress
<1>8. K[j] \in Int
  BY <1>1, <1>4, <1>7 DEF Shaped
<1>9. Term(c, k, WindowPoint(c, p, h)) = Padded(c, x, y, h) * K[j]
  BY <1>3, <1>4, <1>7 DEF Term, WindowPoint, RowAt, ColAt
<1>10. CASE Inside(c, x, y)
  <2>1. c.image[i] \in Int /\ Padded(c, x, y, h) = c.image[i]
    <3>1. /\ Channels * (c.cols * x + y) + h \in DOMAIN c.image
          /\ x * c.cols * Channels + y * Channels + h = Channels * (c.cols * x + y) + h
      BY <1>1, <1>10, PixelAddress
    <3>2. i \in DOMAIN c.image /\ x * c.cols * Channels + y * Channels + h = i
      BY <3>1, <1>4, Zenon
    <3>3. Padded(c, x, y, h) = c.image[i]
      BY <3>2, <1>10, Zenon DEF Padded
    <3> QED BY <3>2, <3>3 DEF Proper
  <2> QED BY <2>1, <1>5, <1>6, <1>8, <1>9, <1>10
<1>11. CASE ~Inside(c, x, y)
  <2>1. Padded(c, x, y, h) = 0
    BY <1>11 DEF Padded
  <2>2. PICK z : z = K[j]
    OBVIOUS
  <2>3. z \in Int /\ 0 * z = 0
    BY <2>2, <1>8
  <2> QED BY <2>1, <2>2, <2>3, <1>5, <1>6, <1>9, <1>11
<1> QED BY <1>10, <1>11

\* The product of the weights and the pixels in every cell, what the three
\* channels of a pixel add up to, and these values for one place.
ExactCell(c) == [q \in 0..(Cells(c) - 1) |-> P1(c)[q] * P2(c)[q]]
ExactPixel(c) ==
  [x \in 0..(Pixels(c) - 1) |-> ExactCell(c)[3 * x] + ExactCell(c)[3 * x + 1] + ExactCell(c)[3 * x + 2]]
CellsOf(c, k) == [e \in 0..(PerPlace(c) - 1) |-> ExactCell(c)[PerPlace(c) * k + e]]
PixelsOf(c, k) == [p \in 0..(Points(c) - 1) |-> ExactPixel(c)[Points(c) * k + p]]

LEMMA CellOfPlace ==
  ASSUME NEW c, Proper(c), NEW k \in 0..(Places(c) - 1), NEW e \in 0..(PerPlace(c) - 1)
  PROVE  /\ InCall(c, k, e \div 3, e % 3)
         /\ PerPlace(c) * k + e = CellOf(c, k, e \div 3, e % 3)
         /\ PerPlace(c) * k + e \in 0..(Cells(c) - 1)
         /\ (PerPlace(c) * k + e) \div PerPlace(c) = k /\ (PerPlace(c) * k + e) % PerPlace(c) = e
         /\ CellsOf(c, k)[e] \in Int
         /\ CellsOf(c, k)[e] = Term(c, k, WindowPoint(c, e \div 3, e % 3))
         /\ AddedAt(c, PerPlace(c) * k + e) = CellsOf(c, k)[e]
<1>1. PICK p, h, w : p = e \div 3 /\ h = e % 3 /\ w = Points(c)
  OBVIOUS
<1>2. Shaped(c) /\ w \in Nat \ {0} /\ PerPlace(c) = w * 3 /\ k \in Nat
  BY <1>1, CallSizes DEF Proper, PerPlace, Channels
<1>3. p \in 0..(w - 1) /\ h \in 0..2 /\ e = 3 * p + h
  BY <1>1, <1>2
<1>4. InCall(c, k, p, h)
  BY <1>1, <1>3 DEF InCall
<1>5. (w * 3) * k + e = 3 * (w * k + p) + h
  <2>1. PICK z : z = w * k
    OBVIOUS
  <2>2. z \in Nat /\ (w * 3) * k = 3 * z
    BY <2>1, <1>2, ProductNat
  <2> QED BY <2>1, <2>2, <1>3
<1>6. PICK q : q = PerPlace(c) * k + e
  OBVIOUS
<1>7. q = CellOf(c, k, p, h)
  BY <1>1, <1>2, <1>5, <1>6 DEF CellOf
<1>8. q \in 0..(Cells(c) - 1)
  BY <1>2, <1>4, <1>7, CellPosition
<1>9. q \div PerPlace(c) = k /\ q % PerPlace(c) = e
  <2>1. PICK v : v = w * 3
    OBVIOUS
  <2>2. v \in Nat \ {0} /\ e \in 0..(v - 1) /\ v * k = k * v
    BY <2>1, <1>2
  <2>3. (k * v + e) \div v = k /\ (k * v + e) % v = e
    BY <2>2, <1>2, StrideSplit
  <2> QED BY <2>1, <2>2, <2>3, <1>2, <1>6
<1>10. /\ P1(c)[q] \in Int /\ P2(c)[q] \in Int
       /\ P1(c)[q] * P2(c)[q] = Term(c, k, WindowPoint(c, p, h))
       /\ AddedAt(c, q) = Term(c, k, WindowPoint(c, p, h))
  BY <1>4, <1>7, Gathered
<1>11. CellsOf(c, k)[e] = P1(c)[q] * P2(c)[q]
  BY <1>6, <1>8 DEF CellsOf, ExactCell
<1>12. P1(c)[q] * P2(c)[q] \in Int
  BY <1>10
<1> QED BY <1>1, <1>4, <1>6, <1>7, <1>8, <1>9, <1>10, <1>11, <1>12

(***************************************************************************)
(* The convolution at a place is the sum of its cells:                     *)
(***************************************************************************)
LEMMA ConvolutionSum ==
  ASSUME NEW c, Proper(c), NEW k \in 0..(Places(c) - 1)
  PROVE  Convolution(c)[k] = SumFunctionOnSet(CellsOf(c, k), 0..(PerPlace(c) - 1))
<1>1. Shaped(c) /\ Points(c) \in Nat \ {0} /\ PerPlace(c) = Points(c) * 3
  BY CallSizes DEF Proper, PerPlace, Channels
<1>2. PICK S, W, g, f, b : /\ S = 0..(PerPlace(c) - 1) /\ W = Window(c) /\ g = CellsOf(c, k)
                           /\ f = [w \in Window(c) |-> Term(c, k, w)]
                           /\ b = [e \in 0..(PerPlace(c) - 1) |-> WindowPoint(c, e \div 3, e % 3)]
  OBVIOUS
<1>3. Convolution(c)[k] = SumFunctionOnSet(f, W)
  <2>1. Convolution(c)[k] = ConvolvedAt(c, KernelAt(c, k), (k \div OutCols(c)) % OutRows(c), k % OutCols(c))
    BY DEF Convolution, KernelAt
  <2>2. Convolution(c)[k] = SumFunction(f)
    BY <2>1, <1>2, Zenon DEF ConvolvedAt, Term
  <2> QED BY <2>2, <1>2, SumOver
<1>4. ASSUME NEW e \in S
      PROVE  /\ e \div 3 \in 0..(Points(c) - 1) /\ e % 3 \in 0..2
             /\ b[e] = <<(e \div 3) \div c.kcols, (e \div 3) % c.kcols, e % 3>>
             /\ b[e] \in W /\ g[e] \in Int /\ f[b[e]] = g[e]
  <2>1. e \div 3 \in 0..(Points(c) - 1) /\ e % 3 \in 0..2
    BY <1>1, <1>2
  <2>2. b[e] = WindowPoint(c, e \div 3, e % 3)
    BY <1>2
  <2>3. b[e] \in W
    <3>1. PICK p, s : p = e \div 3 /\ s = 0
      OBVIOUS
    <3>2. p \in 0..(Points(c) - 1) /\ s \in 0..(c.size - 1)
      BY <3>1, <2>1, <1>1, CallTypes
    <3>3. p \div c.kcols \in 0..(c.krows - 1) /\ p % c.kcols \in 0..(c.kcols - 1)
      BY <3>2, <2>1, <1>1, WeightAddress
    <3> QED BY <1>2, <2>1, <2>2, <3>1, <3>3 DEF Window, WindowPoint, Channels
  <2>4. g[e] \in Int /\ g[e] = Term(c, k, b[e])
    BY <1>2, <2>2, CellOfPlace
  <2>5. f[b[e]] = Term(c, k, b[e])
    BY <1>2, <2>3
  <2> QED BY <2>1, <2>2, <2>3, <2>4, <2>5 DEF WindowPoint
<1>5. \A d, e \in S : b[d] = b[e] => d = e
  <2> TAKE d \in S, e \in S
  <2> SUFFICES ASSUME b[d] = b[e]  PROVE d = e
    OBVIOUS
  <2>1. PICK u, v, w : u = d \div 3 /\ v = e \div 3 /\ w = c.kcols
    OBVIOUS
  <2>2. u \in Nat /\ v \in Nat /\ w \in Nat \ {0}
    BY <2>1, <1>1, <1>4, CallTypes
  <2>3. u \div w = v \div w /\ u % w = v % w /\ d % 3 = e % 3
    BY <2>1, <1>4
  <2>4. u = (u \div w) * w + (u % w) /\ v = (v \div w) * w + (v % w)
    BY <2>2, DivMod
  <2>5. u = v
    BY <2>3, <2>4, Zenon
  <2>6. d \in Nat /\ e \in Nat
    BY <1>1, <1>2
  <2>7. d = (d \div 3) * 3 + (d % 3) /\ e = (e \div 3) * 3 + (e % 3)
    BY <2>6
  <2> QED BY <2>1, <2>3, <2>5, <2>7, Zenon
<1>6. ASSUME NEW z \in W  PROVE \E e \in S : b[e] = z
  <2>1. PICK i, j, h : z = <<i, j, h>> /\ i \in 0..(c.krows - 1) /\ j \in 0..(c.kcols - 1) /\ h \in 0..2
    BY <1>2 DEF Window, Channels
  <2>2. PICK m, n, p : m = c.krows /\ n = c.kcols /\ p = i * n + j
    OBVIOUS
  <2>3. m \in Nat \ {0} /\ n \in Nat \ {0} /\ i \in 0..(m - 1) /\ i \in Nat /\ j \in 0..(n - 1) /\ Points(c) = m * n
    BY <2>1, <2>2, <1>1, CallTypes DEF Points
  <2>4. p \in 0..(Points(c) - 1) /\ p \div n = i /\ p % n = j
    BY <2>2, <2>3, StrideRange, StrideSplit
  <2>5. PICK e : e = 3 * p + h
    OBVIOUS
  <2>6. e \in S /\ e \div 3 = p /\ e % 3 = h
    <3>1. PICK w : w = Points(c)
      OBVIOUS
    <3>2. w \in Nat \ {0} /\ p \in 0..(w - 1) /\ h \in 0..2 /\ S = 0..(w * 3 - 1)
      BY <3>1, <2>1, <2>4, <1>1, <1>2
    <3> QED BY <3>2, <2>5
  <2>7. b[e] = z
    BY <2>1, <2>2, <2>4, <2>6, <1>4
  <2> QED BY <2>6, <2>7
<1>7. Corresponds(g, S, f, W, b)
  <2>1. b \in [S -> W]
    BY <1>2, <1>4
  <2> QED BY <2>1, <1>4, <1>5, <1>6 DEF Corresponds
<1>8. IsFiniteSet(S)
  BY <1>1, <1>2, FS_Interval
<1>9. SumFunctionOnSet(g, S) = SumFunctionOnSet(f, W)
  BY <1>7, <1>8, SumReindex
<1> QED BY <1>2, <1>3, <1>9

\* The channels of a point are cells.
LEMMA PixelOfPlace ==
  ASSUME NEW c, Proper(c), NEW k \in 0..(Places(c) - 1), NEW p \in 0..(Points(c) - 1)
  PROVE  /\ \A h \in 0..2 : 3 * p + h \in 0..(PerPlace(c) - 1)
         /\ \A h \in 0..2 : CellsOf(c, k)[3 * p + h] \in Int
         /\ PixelsOf(c, k)[p] = CellsOf(c, k)[3 * p] + CellsOf(c, k)[3 * p + 1] + CellsOf(c, k)[3 * p + 2]
         /\ PixelsOf(c, k)[p] \in Int
<1>1. PICK w : w = Points(c)
  OBVIOUS
<1>2. w \in Nat \ {0} /\ PerPlace(c) = w * 3 /\ k \in Nat /\ p \in 0..(w - 1) /\ p \in Nat
  BY <1>1, CallSizes DEF Proper, PerPlace, Channels
<1>3. PICK g, f, x : g = ExactCell(c) /\ f = CellsOf(c, k) /\ x = w * k + p
  OBVIOUS
<1>4. x \in 0..(Pixels(c) - 1) /\ x \in Nat
  <2>1. InCall(c, k, p, 0)
    BY DEF InCall
  <2>2. Points(c) * k + p \in 0..(Pixels(c) - 1)
    BY <2>1, CellPosition DEF Proper
  <2> QED BY <2>2, <1>1, <1>2, <1>3
<1>5. ASSUME NEW h \in 0..2
      PROVE  /\ 3 * p + h \in 0..(PerPlace(c) - 1)
             /\ f[3 * p + h] \in Int /\ f[3 * p + h] = g[3 * x + h]
  <2>1. PICK e : e = 3 * p + h
    OBVIOUS
  <2>2. e \in 0..(w * 3 - 1)
    BY <2>1, <1>2
  <2>3. (w * 3) * k + e = 3 * x + h
    <3>1. PICK z : z = w * k
      OBVIOUS
    <3>2. z \in Nat /\ (w * 3) * k = 3 * z /\ x = z + p
      BY <3>1, <1>2, <1>3, ProductNat
    <3> QED BY <3>2, <2>1, <1>2
  <2>4. e \in 0..(PerPlace(c) - 1)
    BY <2>2, <1>2
  <2>5. f[e] \in Int
    BY <2>4, <1>3, CellOfPlace
  <2>6. f[e] = g[PerPlace(c) * k + e]
    BY <2>4, <1>3 DEF CellsOf
  <2> QED BY <2>1, <2>3, <2>4, <2>5, <2>6, <1>2
<1>6. PixelsOf(c, k)[p] = g[3 * x] + g[3 * x + 1] + g[3 * x + 2]
  <2>1. PixelsOf(c, k)[p] = ExactPixel(c)[x]
    BY <1>1, <1>3 DEF PixelsOf
  <2> QED BY <2>1, <1>3, <1>4 DEF ExactPixel
<1>7. 3 * p + 0 = 3 * p /\ 3 * x + 0 = 3 * x
  BY <1>2, <1>4
<1>8. f[3 * p] = g[3 * x] /\ f[3 * p + 1] = g[3 * x + 1] /\ f[3 * p + 2] = g[3 * x + 2]
  BY <1>5, <1>7
<1>9. f[3 * p] \in Int /\ f[3 * p + 1] \in Int /\ f[3 * p + 2] \in Int
  BY <1>5, <1>7
<1> QED BY <1>3, <1>5, <1>6, <1>8, <1>9

\* A sum without its last three terms.
LEMMA SumLastThree ==
  ASSUME NEW g, NEW m \in Nat, \A e \in 0..(m + 2) : g[e] \in Int
  PROVE  /\ SumFunctionOnSet(g, 0..(m - 1)) \in Int
         /\ SumFunctionOnSet(g, 0..(m + 2)) = SumFunctionOnSet(g, 0..(m - 1)) + g[m] + g[m + 1] + g[m + 2]
<1>1. PICK a, b, z : a = m + 1 /\ b = m + 2 /\ z = m - 1
  OBVIOUS
<1>2. a \in Nat /\ b \in Nat /\ z \in Int /\ b - 1 = a /\ a - 1 = m
  BY <1>1
<1>3. (\A e \in 0..b : g[e] \in Int) /\ (\A e \in 0..a : g[e] \in Int) /\ (\A e \in 0..m : g[e] \in Int)
  BY <1>1
<1>4. /\ SumFunctionOnSet(g, 0..b) = SumFunctionOnSet(g, 0..(b - 1)) + g[b]
      /\ SumFunctionOnSet(g, 0..a) = SumFunctionOnSet(g, 0..(a - 1)) + g[a]
      /\ SumFunctionOnSet(g, 0..m) = SumFunctionOnSet(g, 0..(m - 1)) + g[m]
  BY <1>2, <1>3, SumLast
<1>5. SumFunctionOnSet(g, 0..z) \in Int
  <2>1. \A e \in 0..z : g[e] \in Int
    BY <1>1
  <2>2. IsFiniteSet(0..z)
    BY <1>2, FS_Interval
  <2> QED BY <2>1, <2>2, SumInt
<1> QED BY <1>1, <1>2, <1>4, <1>5

(***************************************************************************)
(* so that the sum of its pixels is the same one,                          *)
(***************************************************************************)
LEMMA PlaceSum ==
  ASSUME NEW c, Proper(c), NEW k \in 0..(Places(c) - 1)
  PROVE  Convolution(c)[k] = SumFunctionOnSet(PixelsOf(c, k), 0..(Points(c) - 1))
<1>1. PICK w, f, g : w = Points(c) /\ f = PixelsOf(c, k) /\ g = CellsOf(c, k)
  OBVIOUS
<1>2. w \in Nat \ {0} /\ PerPlace(c) = w * 3
  BY <1>1, CallSizes DEF Proper, PerPlace, Channels
<1>3. PICK T : T = {n \in 0..w : SumFunctionOnSet(f, 0..(n - 1)) = SumFunctionOnSet(g, 0..(3 * n - 1))}
  OBVIOUS
<1>4. 0 \in T
  <2>1. 0..(0 - 1) = {} /\ 0..(3 * 0 - 1) = {}
    OBVIOUS
  <2>2. 0 \in 0..w
    BY <1>2
  <2>3. SumFunctionOnSet(f, 0..(0 - 1)) = SumFunctionOnSet(g, 0..(3 * 0 - 1))
    BY <2>1, SumEmpty
  <2> QED BY <2>2, <2>3, <1>3
<1>5. ASSUME NEW n \in 0..(w - 1), n \in T  PROVE n + 1 \in T
  <2>1. \A p \in 0..n : f[p] \in Int
    BY <1>1, <1>2, PixelOfPlace
  <2>2. \A e \in 0..(w * 3 - 1) : g[e] \in Int
    BY <1>1, <1>2, CellOfPlace
  <2>3. PICK m : m = 3 * n
    OBVIOUS
  <2>4. m \in Nat /\ n \in Nat /\ m + 2 <= w * 3 - 1
    BY <2>3, <1>2
  <2>5. \A e \in 0..(m + 2) : g[e] \in Int
    BY <2>2, <2>4, <1>2
  <2>6. f[n] = g[m] + g[m + 1] + g[m + 2] /\ g[m] \in Int /\ g[m + 1] \in Int /\ g[m + 2] \in Int
    BY <1>1, <1>2, <2>3, <2>4, <2>5, PixelOfPlace
  <2>7. SumFunctionOnSet(f, 0..n) = SumFunctionOnSet(f, 0..(n - 1)) + f[n]
    BY <2>1, <2>4, SumLast
  <2>8. PICK z : z = SumFunctionOnSet(g, 0..(m - 1))
    OBVIOUS
  <2>9. z \in Int /\ SumFunctionOnSet(g, 0..(m + 2)) = z + g[m] + g[m + 1] + g[m + 2]
    BY <2>4, <2>5, <2>8, SumLastThree
  <2>10. SumFunctionOnSet(f, 0..(n - 1)) = z
    BY <1>3, <1>5, <2>3, <2>8
  <2>11. SumFunctionOnSet(f, 0..n) = SumFunctionOnSet(g, 0..(m + 2))
    BY <2>6, <2>7, <2>9, <2>10
  <2>12. 3 * (n + 1) - 1 = m + 2 /\ n + 1 - 1 = n /\ n + 1 \in 0..w
    BY <1>2, <2>3, <2>4
  <2> QED BY <1>3, <2>11, <2>12
<1>6. \A n \in 0..w : n \in T
  BY <1>2, <1>4, <1>5, Upward
<1>7. w \in T
  BY <1>2, <1>6
<1>8. SumFunctionOnSet(f, 0..(w - 1)) = SumFunctionOnSet(g, 0..(3 * w - 1))
  BY <1>3, <1>7
<1>9. 3 * w = PerPlace(c)
  BY <1>2
<1> QED BY <1>1, <1>8, <1>9, ConvolutionSum

(***************************************************************************)
(* and the sequential version's running sum ends with it too.              *)
(***************************************************************************)
AddUp(c, S) ==
  S = [q \in 0..Cells(c) |->
         IF q = 0 THEN 0
         ELSE (IF (q - 1) % PerPlace(c) = 0 THEN 0 ELSE S[q - 1]) + AddedAt(c, q - 1)]

LEMMA AddedInt ==
  ASSUME NEW c, Proper(c), NEW q \in 0..(Cells(c) - 1)
  PROVE  AddedAt(c, q) \in Int
<1>1. PICK n, w : n = Places(c) /\ w = PerPlace(c)
  OBVIOUS
<1>2. n \in Nat /\ w \in Nat \ {0} /\ Cells(c) = n * w
  <2>1. PICK u : u = Points(c)
    OBVIOUS
  <2>2. n \in Nat /\ u \in Nat \ {0} /\ w = u * 3 /\ Cells(c) = (n * u) * 3
    BY <1>1, <2>1, CallSizes DEF Proper, PerPlace, Channels, Cells, Pixels
  <2>3. (n * u) * 3 = n * (u * 3)
    BY <2>2
  <2> QED BY <2>2, <2>3
<1>3. PICK k, e : k = q \div w /\ e = q % w
  OBVIOUS
<1>4. k \in 0..(n - 1) /\ e \in 0..(w - 1) /\ q = k * w + e
  BY <1>2, <1>3, StrideCover
<1>5. q = w * k + e
  BY <1>2, <1>4
<1>6. AddedAt(c, w * k + e) \in Int
  BY <1>1, <1>4, CellOfPlace
<1> QED BY <1>5, <1>6

LEMMA ScalarLoop ==
  ASSUME NEW c, Proper(c)
  PROVE  \E S : AddUp(c, S) /\ ScalarCov(c) = [k \in 0..(Places(c) - 1) |-> S[PerPlace(c) * (k + 1)]]
<1>1. PICK n, w : n = Cells(c) /\ w = PerPlace(c)
  OBVIOUS
<1>2. n \in Nat
  BY <1>1, CallSizes DEF Proper
<1>3. PICK G : G = [qv \in (1..n) \X Int |->
                     (IF (qv[1] - 1) % w = 0 THEN 0 ELSE qv[2]) + AddedAt(c, qv[1] - 1)]
  OBVIOUS
<1>4. G \in [((0 + 1)..n) \X Int -> Int]
  <2>1. ASSUME NEW qv \in (1..n) \X Int
        PROVE (IF (qv[1] - 1) % w = 0 THEN 0 ELSE qv[2]) + AddedAt(c, qv[1] - 1) \in Int
    <3>1. PICK q : q = qv[1] - 1
      OBVIOUS
    <3>2. q \in 0..(n - 1)
      BY <2>1, <3>1, <1>2
    <3>3. AddedAt(c, q) \in Int
      BY <3>2, <1>1, AddedInt
    <3> QED BY <2>1, <3>1, <3>3
  <2>2. 0 + 1 = 1
    OBVIOUS
  <2> QED BY <2>1, <2>2, <1>3
<1>5. PICK F \in [0..n -> Int] : Recurs(F, 0, n, 0, G)
  <2>1. 0 \in Int /\ n \in Int /\ 0 <= n
    BY <1>2
  <2> QED BY <2>1, <1>4, RecursionExists, Zenon
<1>6. AddUp(c, F)
  <2>1. ASSUME NEW q \in 0..n, q # 0
        PROVE G[<<q, F[q - 1]>>] = (IF (q - 1) % w = 0 THEN 0 ELSE F[q - 1]) + AddedAt(c, q - 1)
    BY <2>1, <1>2, <1>3, <1>5
  <2>2. F = [q \in 0..n |-> IF q = 0 THEN 0 ELSE G[<<q, F[q - 1]>>]]
    BY <1>5 DEF Recurs
  <2> QED BY <2>1, <2>2, <1>1 DEF AddUp
<1>7. PICK S : S = CHOOSE U : AddUp(c, U)
  OBVIOUS
<1>8. AddUp(c, S)
  BY <1>6, <1>7
<1>9. ScalarCov(c) = [k \in 0..(Places(c) - 1) |-> S[PerPlace(c) * (k + 1)]]
  BY <1>7 DEF ScalarCov, AddUp
<1> QED BY <1>8, <1>9

LEMMA ScalarSum ==
  ASSUME NEW c, Proper(c), NEW k \in 0..(Places(c) - 1)
  PROVE  ScalarCov(c)[k] = Convolution(c)[k]
<1>1. PICK w, f, n : w = PerPlace(c) /\ f = CellsOf(c, k) /\ n = Cells(c)
  OBVIOUS
<1>2. w \in Nat \ {0} /\ k \in Nat /\ n \in Nat
  BY <1>1, CallSizes DEF Proper, PerPlace, Channels
<1>3. PICK S : AddUp(c, S) /\ ScalarCov(c) = [j \in 0..(Places(c) - 1) |-> S[PerPlace(c) * (j + 1)]]
  BY ScalarLoop
<1>4. PICK b : b = w * k
  OBVIOUS
<1>5. b \in Nat /\ w * (k + 1) = b + w
  BY <1>2, <1>4, ProductNat
<1>6. ASSUME NEW e \in 0..(w - 1)
      PROVE  /\ f[e] \in Int
             /\ S[b + e + 1] = (IF e = 0 THEN 0 ELSE S[b + e]) + f[e]
  <2>1. f[e] \in Int /\ AddedAt(c, b + e) = f[e] /\ b + e \in 0..(n - 1) /\ (b + e) % w = e
    BY <1>1, <1>4, CellOfPlace
  <2>2. PICK q : q = b + e + 1
    OBVIOUS
  <2>3. q \in 0..n /\ q # 0 /\ q - 1 = b + e
    BY <2>1, <2>2, <1>2, <1>5
  <2>4. S[q] = (IF (q - 1) % w = 0 THEN 0 ELSE S[q - 1]) + AddedAt(c, q - 1)
    BY <2>3, <1>1, <1>3 DEF AddUp
  <2> QED BY <2>1, <2>2, <2>3, <2>4
<1>7. PICK T : T = {e \in 1..w : S[b + e] = SumFunctionOnSet(f, 0..(e - 1))}
  OBVIOUS
<1>8. 1 \in T
  <2>1. S[b + 0 + 1] = 0 + f[0] /\ f[0] \in Int
    BY <1>2, <1>6
  <2>2. b + 0 + 1 = b + 1 /\ 0 + f[0] = f[0]
    BY <2>1, <1>5
  <2>3. SumFunctionOnSet(f, 0..0) = SumFunctionOnSet(f, 0..(0 - 1)) + f[0]
    <3>1. \A x \in 0..0 : f[x] \in Int
      BY <2>1
    <3>2. 0 \in Int /\ 0 <= 0
      OBVIOUS
    <3> QED BY <3>1, <3>2, SumLast, Zenon
  <2>4. 0..(0 - 1) = {}
    OBVIOUS
  <2>5. SumFunctionOnSet(f, 0..(0 - 1)) = 0
    BY <2>4, SumEmpty
  <2>6. SumFunctionOnSet(f, 0..0) = f[0]
    BY <2>2, <2>3, <2>5
  <2>7. 1 - 1 = 0 /\ 1 \in 1..w
    BY <1>2
  <2> QED BY <2>1, <2>2, <2>6, <2>7, <1>7
<1>9. ASSUME NEW e \in 1..(w - 1), e \in T  PROVE e + 1 \in T
  <2>1. e \in 0..(w - 1) /\ e # 0 /\ e \in Nat
    BY <1>2
  <2>2. S[b + e + 1] = S[b + e] + f[e]
    BY <2>1, <1>6
  <2>3. S[b + e] = SumFunctionOnSet(f, 0..(e - 1))
    BY <1>7, <1>9
  <2>4. SumFunctionOnSet(f, 0..e) = SumFunctionOnSet(f, 0..(e - 1)) + f[e]
    <3>1. \A x \in 0..e : f[x] \in Int
      BY <1>2, <1>6
    <3> QED BY <3>1, <2>1, SumLast
  <2>5. b + (e + 1) = b + e + 1 /\ e + 1 - 1 = e /\ e + 1 \in 1..w
    BY <2>1, <1>2, <1>5
  <2> QED BY <2>2, <2>3, <2>4, <2>5, <1>7
<1>10. \A e \in 1..w : e \in T
  BY <1>2, <1>8, <1>9, Upward
<1>11. S[b + w] = SumFunctionOnSet(f, 0..(w - 1))
  BY <1>2, <1>7, <1>10
<1>12. ScalarCov(c)[k] = S[b + w]
  BY <1>1, <1>3, <1>5
<1> QED BY <1>1, <1>11, <1>12, ConvolutionSum

-----------------------------------------------------------------------------
(***************************************************************************)
(* The places at which a kernel fits, along one dimension.                 *)
(***************************************************************************)
LEMMA PlacesThatFit ==
  ASSUME NEW d \in Nat \ {0}, NEW extent \in Nat, NEW kernel \in Nat \ {0}, kernel <= extent
  PROVE  Cardinality({i \in 0..extent : d * i + kernel <= extent})
           = IF (extent - kernel + 1) % d = 0 THEN (extent - kernel + 1) \div d
             ELSE (extent - kernel + 1) \div d + 1
<1>1. PICK z, q, r : z = extent - kernel /\ q = z \div d /\ r = z % d
  OBVIOUS
<1>2. z \in Nat /\ q \in Nat /\ r \in 0..(d - 1) /\ z = q * d + r
  <2>1. z \in Nat
    BY <1>1
  <2> QED BY <2>1, <1>1, DivMod
<1>3. \A i \in 0..extent : d * i + kernel <= extent <=> i \in 0..q
  <2> TAKE i \in 0..extent
  <2>1. CASE i <= q
    <3>1. PICK a, b : a = d * i /\ b = q * d
      OBVIOUS
    <3>2. a \in Nat /\ b \in Nat /\ a <= b
      BY <2>1, <3>1, <1>2
    <3> QED BY <2>1, <3>1, <3>2, <1>1, <1>2
  <2>2. CASE i > q
    <3>1. PICK a, b, e : a = d * i /\ b = q * d /\ e = i - (q + 1)
      OBVIOUS
    <3>2. e \in Nat /\ i = e + (q + 1)
      BY <2>2, <3>1, <1>2
    <3>3. d * i = d * e + d * (q + 1) /\ d * (q + 1) = b + d /\ d * e \in Nat /\ b \in Nat
      BY <3>1, <3>2, <1>2
    <3>4. d * i >= b + d
      BY <3>3
    <3> QED BY <2>2, <3>1, <3>3, <3>4, <1>1, <1>2
  <2> QED BY <2>1, <2>2, <1>2
<1>4. 0..q \subseteq 0..extent
  <2>1. q <= z
    BY <1>1, <1>2
  <2> QED BY <2>1, <1>1, <1>2
<1>5. {i \in 0..extent : d * i + kernel <= extent} = 0..q
  BY <1>3, <1>4
<1>6. Cardinality(0..q) = q + 1
  BY <1>2, FS_Interval
<1>7. extent - kernel + 1 = q * d + r + 1
  BY <1>1, <1>2
<1>8. CASE r = d - 1
  <2>1. (q + 1) * d = q * d + d
    BY <1>2
  <2>2. q * d + r + 1 = (q + 1) * d + 0
    <3>1. PICK a : a = q * d
      OBVIOUS
    <3>2. a \in Nat
      BY <3>1, <1>2
    <3> QED BY <3>1, <3>2, <2>1, <1>8
  <2>3. ((q + 1) * d + 0) \div d = q + 1 /\ ((q + 1) * d + 0) % d = 0
    <3>1. q + 1 \in Nat /\ 0 \in 0..(d - 1)
      BY <1>2
    <3> QED BY <3>1, StrideSplit
  <2> QED BY <2>2, <2>3, <1>5, <1>6, <1>7
<1>9. CASE r # d - 1
  <2>1. r + 1 \in 0..(d - 1) /\ r + 1 # 0
    BY <1>2, <1>9
  <2>2. (q * d + (r + 1)) \div d = q /\ (q * d + (r + 1)) % d = r + 1
    BY <2>1, <1>2, StrideSplit
  <2>3. q * d + r + 1 = q * d + (r + 1)
    BY <1>2
  <2> QED BY <2>1, <2>2, <2>3, <1>5, <1>6, <1>7
<1> QED BY <1>8, <1>9

LEMMA Geometry == ASSUME Shaped(call) PROVE PlacesCovered
<1>1. PICK a, b, e, d : /\ a = call.rows + 2 * call.padding[1] /\ b = call.krows
                        /\ e = call.cols + 2 * call.padding[2] /\ d = call.kcols
  OBVIOUS
<1>2. /\ a \in Nat /\ b \in Nat \ {0} /\ b <= a /\ call.stride[1] \in Nat \ {0}
      /\ e \in Nat /\ d \in Nat \ {0} /\ d <= e /\ call.stride[2] \in Nat \ {0}
  <2>1. a \in Nat /\ e \in Nat
    BY <1>1, CallTypes
  <2> QED BY <2>1, <1>1, CallTypes DEF Shaped
<1>3. Cardinality({i \in 0..a : call.stride[1] * i + b <= a})
        = IF (a - b + 1) % call.stride[1] = 0 THEN OutRows(call) ELSE OutRows(call) + 1
  <2>1. Cardinality({i \in 0..a : call.stride[1] * i + b <= a})
          = IF (a - b + 1) % call.stride[1] = 0 THEN (a - b + 1) \div call.stride[1]
            ELSE (a - b + 1) \div call.stride[1] + 1
    BY <1>2, PlacesThatFit, Zenon
  <2>2. OutRows(call) = (a - b + 1) \div call.stride[1]
    <3>1. PICK n : n = call.rows + 2 * call.padding[1] - call.krows + 1
      OBVIOUS
    <3>2. n = a - b + 1
      <4>1. PICK x, y : x = call.rows /\ y = call.padding[1]
        OBVIOUS
      <4>2. x \in Nat /\ y \in Nat /\ b \in Nat /\ a = x + 2 * y /\ n = x + 2 * y - b + 1
        BY <4>1, <3>1, <1>1, <1>2, CallTypes
      <4> QED BY <4>2
    <3>3. OutRows(call) = n \div call.stride[1]
      BY <3>1 DEF OutRows
    <3> QED BY <3>2, <3>3
  <2> QED BY <2>1, <2>2, Zenon
<1>4. Cardinality({i \in 0..e : call.stride[2] * i + d <= e})
        = IF (e - d + 1) % call.stride[2] = 0 THEN OutCols(call) ELSE OutCols(call) + 1
  <2>1. Cardinality({i \in 0..e : call.stride[2] * i + d <= e})
          = IF (e - d + 1) % call.stride[2] = 0 THEN (e - d + 1) \div call.stride[2]
            ELSE (e - d + 1) \div call.stride[2] + 1
    BY <1>2, PlacesThatFit, Zenon
  <2>2. OutCols(call) = (e - d + 1) \div call.stride[2]
    <3>1. PICK n : n = call.cols + 2 * call.padding[2] - call.kcols + 1
      OBVIOUS
    <3>2. n = e - d + 1
      <4>1. PICK x, y : x = call.cols /\ y = call.padding[2]
        OBVIOUS
      <4>2. x \in Nat /\ y \in Nat /\ d \in Nat /\ e = x + 2 * y /\ n = x + 2 * y - d + 1
        BY <4>1, <3>1, <1>1, <1>2, CallTypes
      <4> QED BY <4>2
    <3>3. OutCols(call) = n \div call.stride[2]
      BY <3>1 DEF OutCols
    <3> QED BY <3>2, <3>3
  <2> QED BY <2>1, <2>2, Zenon
<1>5. 2 # 1
  OBVIOUS
<1> QED BY <1>1, <1>3, <1>4, <1>5, Zenon DEF PlacesCovered

-----------------------------------------------------------------------------
(***************************************************************************)
(* The static schedule of n iterations: First for a team; what is done     *)
(* when the threads are at the iterations it; and that all are in their    *)
(* own chunk.                                                              *)
(***************************************************************************)
ChunkStart(team, t, n) ==
  LET q == n \div team
      r == n % team
  IN  t * q + (IF t < r THEN t ELSE r)

DoneBy(team, it, n) ==
  {v \in 0..(n - 1) : \E t \in 0..(team - 1) : ChunkStart(team, t, n) <= v /\ v < it[t]}

InChunks(team, it, n) ==
  /\ it \in [0..(team - 1) -> Nat]
  /\ \A t \in 0..(team - 1) : ChunkStart(team, t, n) <= it[t] /\ it[t] <= ChunkStart(team, t + 1, n)

LEMMA FirstIsStart == ASSUME NEW t, NEW n PROVE First(t, n) = ChunkStart(call.team, t, n)
BY DEF First, ChunkStart

LEMMA ScheduleEnds ==
  ASSUME NEW team \in Nat \ {0}, NEW n \in Nat
  PROVE  /\ ChunkStart(team, 0, n) = 0 /\ ChunkStart(team, team, n) = n
         /\ \A t \in 0..team : ChunkStart(team, t, n) \in Nat
<1>1. PICK q, r : q = n \div team /\ r = n % team
  OBVIOUS
<1>2. q \in Nat /\ r \in 0..(team - 1) /\ n = q * team + r
  BY <1>1, DivMod
<1>3. \A t : ChunkStart(team, t, n) = t * q + (IF t < r THEN t ELSE r)
  BY <1>1 DEF ChunkStart
<1>4. 0 * q + (IF 0 < r THEN 0 ELSE r) = 0
  BY <1>2
<1>5. team * q + (IF team < r THEN team ELSE r) = n
  <2>1. team * q = q * team /\ ~(team < r)
    BY <1>2
  <2> QED BY <2>1, <1>2
<1>6. ASSUME NEW t \in 0..team  PROVE t * q + (IF t < r THEN t ELSE r) \in Nat
  <2>1. t * q \in Nat
    BY <1>2
  <2> QED BY <2>1, <1>2
<1> QED BY <1>3, <1>4, <1>5, <1>6

LEMMA ScheduleOrder ==
  ASSUME NEW team \in Nat \ {0}, NEW n \in Nat, NEW t \in 0..team, NEW u \in 0..team, t <= u
  PROVE  ChunkStart(team, t, n) <= ChunkStart(team, u, n)
<1>1. PICK q, r : q = n \div team /\ r = n % team
  OBVIOUS
<1>2. q \in Nat /\ r \in 0..(team - 1)
  BY <1>1, DivMod
<1>3. \A s : ChunkStart(team, s, n) = s * q + (IF s < r THEN s ELSE r)
  BY <1>1 DEF ChunkStart
<1>4. PICK a, b : a = t * q /\ b = u * q
  OBVIOUS
<1>5. a \in Nat /\ b \in Nat /\ a <= b
  <2>1. PICK d : d = u - t
    OBVIOUS
  <2>2. d \in Nat /\ u = d + t
    BY <2>1
  <2>3. b = d * q + a /\ d * q \in Nat /\ a \in Nat
    BY <2>2, <1>2, <1>4
  <2> QED BY <2>3
<1>6. a + (IF t < r THEN t ELSE r) <= b + (IF u < r THEN u ELSE r)
  BY <1>2, <1>5
<1> QED BY <1>3, <1>4, <1>6

\* Nothing is done when all threads are at the start of their chunks,
LEMMA NothingDone ==
  ASSUME NEW team \in Nat \ {0}, NEW n \in Nat,
         NEW it, it = [t \in 0..(team - 1) |-> ChunkStart(team, t, n)]
  PROVE  InChunks(team, it, n) /\ DoneBy(team, it, n) = {}
<1>1. ASSUME NEW t \in 0..(team - 1)
      PROVE  /\ it[t] = ChunkStart(team, t, n) /\ it[t] \in Nat
             /\ it[t] <= ChunkStart(team, t + 1, n)
  <2>1. t \in 0..team /\ t + 1 \in 0..team /\ t <= t + 1
    OBVIOUS
  <2> QED BY <2>1, ScheduleEnds, ScheduleOrder
<1>2. InChunks(team, it, n)
  BY <1>1 DEF InChunks
<1>3. \A t \in 0..(team - 1), v \in 0..(n - 1) : ~(ChunkStart(team, t, n) <= v /\ v < it[t])
  BY <1>1
<1> QED BY <1>2, <1>3 DEF DoneBy

\* every iteration is done when all threads are at their ends,
LEMMA AllDone ==
  ASSUME NEW team \in Nat \ {0}, NEW n \in Nat, NEW it, InChunks(team, it, n),
         \A t \in 0..(team - 1) : ~(it[t] < ChunkStart(team, t + 1, n))
  PROVE  DoneBy(team, it, n) = 0..(n - 1)
<1>1. ASSUME NEW v \in 0..(n - 1)
      PROVE  \E t \in 0..(team - 1) : ChunkStart(team, t, n) <= v /\ v < it[t]
  <2>1. PICK T : T = {t \in 0..team : v < ChunkStart(team, t, n)}
    OBVIOUS
  <2>2. T \subseteq Nat /\ team \in T
    BY <2>1, ScheduleEnds
  <2>3. PICK m \in T : \A k \in T : m <= k
    BY <2>2, LeastNatural
  <2>4. m \in 0..team /\ m # 0 /\ v < ChunkStart(team, m, n)
    BY <2>1, <2>3, ScheduleEnds
  <2>5. PICK t : t = m - 1
    OBVIOUS
  <2>6. t \in 0..(team - 1) /\ t \in 0..team /\ t + 1 = m /\ t \notin T
    BY <2>3, <2>4, <2>5
  <2>7. ChunkStart(team, t, n) <= v
    <3>1. ChunkStart(team, t, n) \in Nat
      BY <2>6, ScheduleEnds
    <3> QED BY <3>1, <2>1, <2>6
  <2>8. it[t] = ChunkStart(team, m, n)
    <3>1. it[t] <= ChunkStart(team, m, n) /\ it[t] \in Nat /\ ~(it[t] < ChunkStart(team, m, n))
      BY <2>6 DEF InChunks
    <3>2. ChunkStart(team, m, n) \in Nat
      BY <2>4, ScheduleEnds
    <3> QED BY <3>1, <3>2
  <2> QED BY <2>4, <2>6, <2>7, <2>8
<1> QED BY <1>1 DEF DoneBy

\* and a thread does one that none has done.
Behind(team, it, n, t) == it[t] < ChunkStart(team, t + 1, n)
OneOn(it, t) == [it EXCEPT ![t] = @ + 1]

LEMMA OneMoreDone ==
  ASSUME NEW team \in Nat \ {0}, NEW n \in Nat, NEW it, InChunks(team, it, n),
         NEW t \in 0..(team - 1), Behind(team, it, n, t)
  PROVE  /\ it[t] \in 0..(n - 1) /\ it[t] \notin DoneBy(team, it, n)
         /\ InChunks(team, OneOn(it, t), n)
         /\ DoneBy(team, OneOn(it, t), n) = DoneBy(team, it, n) \cup {it[t]}
<1>1. PICK v : v = it[t]
  OBVIOUS
<1>2. \A u \in 0..(team - 1) : /\ it[u] \in Nat /\ ChunkStart(team, u, n) <= it[u]
                               /\ it[u] <= ChunkStart(team, u + 1, n)
  BY DEF InChunks
<1>3. \A u \in 0..team : ChunkStart(team, u, n) \in Nat
  BY ScheduleEnds
<1>4. v \in 0..(n - 1)
  <2>1. t + 1 \in 0..team /\ team \in 0..team /\ t + 1 <= team
    OBVIOUS
  <2>2. ChunkStart(team, t + 1, n) <= n
    BY <2>1, ScheduleEnds, ScheduleOrder
  <2>3. ChunkStart(team, t + 1, n) \in Nat /\ v \in Nat /\ v < ChunkStart(team, t + 1, n)
    BY <2>1, <1>1, <1>2, <1>3 DEF Behind
  <2> QED BY <2>2, <2>3
<1>5. ASSUME NEW u \in 0..(team - 1), ChunkStart(team, u, n) <= v, v < it[u]  PROVE FALSE
  <2>1. u \in Nat /\ t \in Nat /\ u + 1 \in 0..team /\ t + 1 \in 0..team /\ u \in 0..team /\ t \in 0..team
    OBVIOUS
  <2>2. CASE u = t
    BY <2>2, <1>1, <1>2, <1>5
  <2>3. CASE u < t
    <3>1. ChunkStart(team, u + 1, n) <= ChunkStart(team, t, n)
      <4>1. u + 1 <= t
        BY <2>1, <2>3
      <4> QED BY <4>1, <2>1, ScheduleOrder
    <3>2. it[u] <= ChunkStart(team, u + 1, n) /\ ChunkStart(team, t, n) <= v /\ it[u] \in Nat
      BY <1>1, <1>2
    <3> QED BY <3>1, <3>2, <2>1, <1>3, <1>4, <1>5
  <2>4. CASE t < u
    <3>1. ChunkStart(team, t + 1, n) <= ChunkStart(team, u, n)
      <4>1. t + 1 <= u
        BY <2>1, <2>4
      <4> QED BY <4>1, <2>1, ScheduleOrder
    <3>2. v < ChunkStart(team, t + 1, n)
      BY <1>1 DEF Behind
    <3> QED BY <3>1, <3>2, <2>1, <1>3, <1>4, <1>5
  <2> QED BY <2>1, <2>2, <2>3, <2>4
<1>6. v \notin DoneBy(team, it, n)
  BY <1>5 DEF DoneBy
<1>7. PICK ix : ix = OneOn(it, t)
  OBVIOUS
<1>8. /\ ix \in [0..(team - 1) -> Nat] /\ ix[t] = v + 1
      /\ \A u \in 0..(team - 1) : u # t => ix[u] = it[u]
  BY <1>1, <1>7 DEF InChunks, OneOn
<1>9. InChunks(team, ix, n)
  <2>1. ChunkStart(team, t, n) <= v + 1 /\ v + 1 <= ChunkStart(team, t + 1, n)
    <3>1. t \in 0..team /\ t + 1 \in 0..team
      OBVIOUS
    <3>2. ChunkStart(team, t, n) \in Nat /\ ChunkStart(team, t + 1, n) \in Nat /\ v \in Nat
      BY <3>1, <1>3, <1>4
    <3>3. ChunkStart(team, t, n) <= v /\ v < ChunkStart(team, t + 1, n)
      BY <1>1, <1>2 DEF Behind
    <3> QED BY <3>2, <3>3
  <2>2. ASSUME NEW u \in 0..(team - 1)
        PROVE ChunkStart(team, u, n) <= ix[u] /\ ix[u] <= ChunkStart(team, u + 1, n)
    <3>1. CASE u = t
      BY <3>1, <2>1, <1>8
    <3>2. CASE u # t
      BY <3>2, <1>2, <1>8
    <3> QED BY <3>1, <3>2
  <2> QED BY <2>2, <1>8 DEF InChunks
<1>10. ASSUME NEW x \in 0..(n - 1)
       PROVE  (\E u \in 0..(team - 1) : ChunkStart(team, u, n) <= x /\ x < ix[u])
                <=> (\E u \in 0..(team - 1) : ChunkStart(team, u, n) <= x /\ x < it[u]) \/ x = v
  <2>1. x < v + 1 <=> x < v \/ x = v
    BY <1>4
  <2>2. ChunkStart(team, t, n) <= v
    BY <1>1, <1>2
  <2>3. ASSUME NEW u \in 0..(team - 1), ChunkStart(team, u, n) <= x, x < ix[u]
        PROVE x = v \/ x < it[u]
    BY <2>1, <2>3, <1>1, <1>8
  <2>4. ASSUME NEW u \in 0..(team - 1), ChunkStart(team, u, n) <= x, x < it[u]
        PROVE x < ix[u]
    BY <2>1, <2>4, <1>1, <1>8
  <2>5. x = v => ChunkStart(team, t, n) <= x /\ x < ix[t]
    BY <2>1, <2>2, <1>8
  <2> QED BY <2>3, <2>4, <2>5
<1>11. DoneBy(team, ix, n) = DoneBy(team, it, n) \cup {v}
  BY <1>4, <1>10 DEF DoneBy
<1> QED BY <1>1, <1>4, <1>6, <1>7, <1>9, <1>11

-----------------------------------------------------------------------------
(***************************************************************************)
(* Vectors of a buffer, and the tail behind the last whole one.            *)
(***************************************************************************)
Floats == [0..(Lanes - 1) -> Int]                 \* vectors without unset floats

\* Of the n cells of f, those of the vectors S are set and the others are not;
\* they have the values of g, except in the vectors D.
Stored(f, n, S) == \A x \in 0..(n - 1) : f[x] = Garbage <=> x \div Lanes \notin S

Kept(f, g, n, S, D) ==
  \A x \in 0..(n - 1) :
    x \div Lanes \notin D => f[x] = IF x \div Lanes \in S THEN g[x] ELSE Garbage

\* The cells of n that are left behind the vectors and their tail are unset.
TailsUnset(f, n) == \A x \in 0..(n - 1) : f[x] = Garbage <=> x \in Left(n)

Tailed(f, g, n, D) ==
  \A x \in 0..(n - 1) : x \div Lanes \notin D => f[x] = IF x \in Left(n) THEN Garbage ELSE g[x]

LEMMA LanesType == Lanes \in Nat \ {0} /\ Garbage \notin Int
BY ConvolveAssumption

LEMMA WholeTail ==
  ASSUME NEW n \in Nat
  PROVE  /\ Whole(n) \in Nat /\ TailAt(n) \in 0..n /\ TailAt(n) = Whole(n) * Lanes
         /\ \A x \in 0..(n - 1) : x \div Lanes \in 0..(Whole(n) - 1) <=> x < TailAt(n)
<1>1. PICK L, q, r : L = Lanes /\ q = n \div L /\ r = n % L
  OBVIOUS
<1>2. L \in Nat \ {0} /\ q \in Nat /\ r \in 0..(L - 1) /\ n = q * L + r /\ Whole(n) = q /\ TailAt(n) = n - r
  BY <1>1, LanesType, DivMod DEF Whole, TailAt
<1>3. PICK e : e = q * L
  OBVIOUS
<1>4. e \in Nat /\ n = e + r
  BY <1>2, <1>3, ProductNat
<1>5. ASSUME NEW x \in 0..(n - 1)  PROVE x \div L \in 0..(q - 1) <=> x < e
  <2>1. PICK a, b : a = x \div L /\ b = x % L
    OBVIOUS
  <2>2. a \in Nat /\ b \in 0..(L - 1) /\ x = a * L + b
    <3>1. x \in Nat
      OBVIOUS
    <3> QED BY <3>1, <2>1, <1>2, DivMod
  <2>3. CASE x < e
    <3>1. x \in 0..(q * L - 1)
      BY <2>3, <1>3, <1>4
    <3>2. x \div L \in 0..(q - 1)
      BY <3>1, <1>2, StrideCover
    <3> QED BY <2>3, <3>2
  <2>4. CASE a \in 0..(q - 1)
    <3>1. a * L + b \in 0..(q * L - 1)
      BY <2>2, <2>4, <1>2, StrideRange
    <3>2. x < e
      BY <3>1, <2>2, <1>3, <1>4
    <3> QED BY <2>1, <2>4, <3>2
  <2> QED BY <2>1, <2>3, <2>4
<1>6. e = n - r /\ n - r \in 0..n
  BY <1>2, <1>4
<1>7. \A x \in 0..(n - 1) : x \div L \in 0..(q - 1) <=> x < n - r
  BY <1>5, <1>6
<1> QED BY <1>1, <1>2, <1>3, <1>6, <1>7, Zenon

\* The cells of vector v.
LEMMA VectorCell ==
  ASSUME NEW n \in Nat, NEW v \in 0..(Whole(n) - 1), NEW l \in 0..(Lanes - 1)
  PROVE  v * Lanes + l \in 0..(n - 1)
<1>1. PICK L, q : L = Lanes /\ q = Whole(n)
  OBVIOUS
<1>2. L \in Nat \ {0} /\ q \in Nat /\ v * L + l \in 0..(q * L - 1)
  BY <1>1, LanesType, WholeTail, StrideRange
<1>3. q * L \in 0..n
  BY <1>1, WholeTail
<1> QED BY <1>1, <1>2, <1>3

LEMMA CellVector ==
  ASSUME NEW x \in Nat
  PROVE  x \div Lanes \in Nat /\ x % Lanes \in 0..(Lanes - 1) /\ (x \div Lanes) * Lanes + (x % Lanes) = x
BY LanesType, DivMod

\* Loading a vector.
LEMMA VecType ==
  ASSUME NEW f, NEW n \in Nat, NEW v \in 0..(Whole(n) - 1)
  PROVE  /\ f \in Buffer(n) => Vec(f, v) \in Buffer(Lanes)
         /\ f \in Buffer(n) /\ (\A x \in 0..(n - 1) : f[x] # Garbage) => Vec(f, v) \in Floats
<1>1. \A l \in 0..(Lanes - 1) : v * Lanes + l \in 0..(n - 1)
  BY VectorCell
<1>2. f \in Buffer(n) => \A l \in 0..(Lanes - 1) : f[v * Lanes + l] \in Int \cup {Garbage}
  BY <1>1 DEF Buffer
<1> QED BY <1>1, <1>2 DEF Vec, Buffer, Floats

LEMMA VecOps ==
  ASSUME NEW r \in Buffer(Lanes), NEW q \in Buffer(Lanes)
  PROVE  /\ VAdd(r, q) \in Buffer(Lanes) /\ VMul(r, q) \in Buffer(Lanes)
         /\ r \in Floats /\ q \in Floats => VAdd(r, q) \in Floats /\ VMul(r, q) \in Floats
<1>1. \A x, y \in Int \cup {Garbage} : Plus(x, y) \in Int \cup {Garbage} /\ Times(x, y) \in Int \cup {Garbage}
  BY DEF Plus, Times
<1>2. \A x, y \in Int : Plus(x, y) \in Int /\ Times(x, y) \in Int
  BY LanesType DEF Plus, Times
<1> QED BY <1>1, <1>2 DEF VAdd, VMul, Buffer, Floats

\* Storing one.
LEMMA PutType ==
  ASSUME NEW n \in Nat, NEW f \in Buffer(n), NEW v, NEW r \in Buffer(Lanes)
  PROVE  /\ Put(f, v, r) \in Buffer(n)
         /\ \A x \in 0..(n - 1) : Put(f, v, r)[x] = IF x \div Lanes = v THEN r[x % Lanes] ELSE f[x]
<1>1. DOMAIN f = 0..(n - 1) /\ \A x \in 0..(n - 1) : f[x] \in Int \cup {Garbage}
  BY DEF Buffer
<1>2. ASSUME NEW x \in 0..(n - 1)  PROVE r[x % Lanes] \in Int \cup {Garbage}
  <2>1. x \in Nat
    OBVIOUS
  <2>2. x % Lanes \in 0..(Lanes - 1)
    BY <2>1, CellVector
  <2> QED BY <2>2 DEF Buffer
<1> QED BY <1>1, <1>2 DEF Put, Buffer

LEMMA StoredPut ==
  ASSUME NEW n \in Nat, NEW f \in Buffer(n), NEW D, Stored(f, n, D), NEW v, NEW r \in Floats
  PROVE  Stored(Put(f, v, r), n, D \cup {v})
<1>1. r \in Buffer(Lanes) /\ \A l \in 0..(Lanes - 1) : r[l] # Garbage
  BY LanesType DEF Buffer, Floats
<1>2. \A x \in 0..(n - 1) : Put(f, v, r)[x] = IF x \div Lanes = v THEN r[x % Lanes] ELSE f[x]
  BY <1>1, PutType
<1>3. ASSUME NEW x \in 0..(n - 1)  PROVE x % Lanes \in 0..(Lanes - 1)
  <2>1. x \in Nat
    OBVIOUS
  <2> QED BY <2>1, CellVector
<1> QED BY <1>1, <1>2, <1>3 DEF Stored

LEMMA KeptPut ==
  ASSUME NEW n \in Nat, NEW f \in Buffer(n), NEW g, NEW S, NEW D, Kept(f, g, n, S, D),
         NEW E, D \subseteq E, NEW v, NEW r \in Buffer(Lanes),
         v \notin E => \A l \in 0..(Lanes - 1) : r[l] = g[v * Lanes + l]
  PROVE  Kept(Put(f, v, r), g, n, S \cup {v}, E)
<1>1. \A x \in 0..(n - 1) : Put(f, v, r)[x] = IF x \div Lanes = v THEN r[x % Lanes] ELSE f[x]
  BY PutType
<1>2. ASSUME NEW x \in 0..(n - 1), x \div Lanes = v, v \notin E
      PROVE r[x % Lanes] = g[x]
  <2>1. x % Lanes \in 0..(Lanes - 1) /\ v * Lanes + (x % Lanes) = x
    <3>1. x \in Nat
      OBVIOUS
    <3> QED BY <3>1, <1>2, CellVector
  <2> QED BY <2>1, <1>2
<1> QED BY <1>1, <1>2 DEF Kept

\* The tail behind a loop that has stored every whole vector.
LEMMA TailWrites ==
  ASSUME NEW n \in Nat, NEW f \in Buffer(n), NEW v, TailAt(n) # n => v \in Int \cup {Garbage}
  PROVE  /\ WithTail(f, n, v) \in Buffer(n)
         /\ \A x \in 0..(n - 1) : x < TailAt(n) => WithTail(f, n, v)[x] = f[x]
<1>1. TailAt(n) \in 0..n
  BY WholeTail
<1>2. CASE TailAt(n) = n
  BY <1>2 DEF WithTail
<1>3. CASE TailAt(n) # n
  BY <1>1, <1>3 DEF WithTail, Buffer
<1> QED BY <1>2, <1>3

LEMMA TailStored ==
  ASSUME NEW n \in Nat, NEW f \in Buffer(n), NEW v, TailAt(n) # n => v \in Int,
         Stored(f, n, 0..(Whole(n) - 1))
  PROVE  TailsUnset(WithTail(f, n, v), n)
<1>1. PICK e : e = TailAt(n)
  OBVIOUS
<1>2. e \in 0..n /\ \A x \in 0..(n - 1) : x \div Lanes \in 0..(Whole(n) - 1) <=> x < e
  BY <1>1, WholeTail
<1>3. \A x \in 0..(n - 1) : f[x] = Garbage <=> ~(x < e)
  BY <1>2 DEF Stored
<1>4. CASE e = n
  <2>1. WithTail(f, n, v) = f /\ Left(n) = {}
    BY <1>1, <1>4 DEF WithTail, Left
  <2>2. \A x \in 0..(n - 1) : x < e
    BY <1>4
  <2> QED BY <2>1, <2>2, <1>3 DEF TailsUnset
<1>5. CASE e # n
  <2>1. WithTail(f, n, v) = [f EXCEPT ![e] = v] /\ Left(n) = (e + 1)..(n - 1) /\ v # Garbage
    BY <1>1, <1>5, LanesType DEF WithTail, Left
  <2>2. \A x \in 0..(n - 1) : WithTail(f, n, v)[x] = IF x = e THEN v ELSE f[x]
    BY <2>1 DEF Buffer
  <2>3. \A x \in 0..(n - 1) : x \in (e + 1)..(n - 1) <=> ~(x < e) /\ x # e
    BY <1>2
  <2> QED BY <2>1, <2>2, <2>3, <1>3 DEF TailsUnset
<1> QED BY <1>4, <1>5

LEMMA KeptTail ==
  ASSUME NEW n \in Nat, NEW f \in Buffer(n), NEW g, NEW D, Kept(f, g, n, 0..(Whole(n) - 1), D),
         NEW v, TailAt(n) # n => v = g[TailAt(n)]
  PROVE  Tailed(WithTail(f, n, v), g, n, D)
<1>1. PICK e : e = TailAt(n)
  OBVIOUS
<1>2. e \in 0..n /\ \A x \in 0..(n - 1) : x \div Lanes \in 0..(Whole(n) - 1) <=> x < e
  BY <1>1, WholeTail
<1>3. \A x \in 0..(n - 1) : x \div Lanes \notin D => f[x] = IF x < e THEN g[x] ELSE Garbage
  BY <1>2 DEF Kept
<1>4. CASE e = n
  <2>1. WithTail(f, n, v) = f /\ Left(n) = {}
    BY <1>1, <1>4 DEF WithTail, Left
  <2>2. \A x \in 0..(n - 1) : x < e
    BY <1>4
  <2> QED BY <2>1, <2>2, <1>3 DEF Tailed
<1>5. CASE e # n
  <2>1. WithTail(f, n, v) = [f EXCEPT ![e] = v] /\ Left(n) = (e + 1)..(n - 1) /\ v = g[e]
    BY <1>1, <1>5 DEF WithTail, Left
  <2>2. \A x \in 0..(n - 1) : WithTail(f, n, v)[x] = IF x = e THEN v ELSE f[x]
    BY <2>1 DEF Buffer
  <2>3. \A x \in 0..(n - 1) : x \in (e + 1)..(n - 1) <=> ~(x < e) /\ x # e
    BY <1>2
  <2>4. \A x \in 0..(n - 1) : x \div Lanes \notin D =>
          WithTail(f, n, v)[x] = IF x \in (e + 1)..(n - 1) THEN Garbage ELSE g[x]
    BY <2>1, <2>2, <2>3, <1>3
  <2> QED BY <2>1, <2>4 DEF Tailed
<1> QED BY <1>4, <1>5

LEMMA TailInside == ASSUME NEW n \in Nat, TailAt(n) # n PROVE TailAt(n) \in 0..(n - 1)
<1>1. TailAt(n) \in 0..n
  BY WholeTail
<1> QED BY <1>1

\* A buffer that nothing was stored to.
LEMMA UnsetBuffer ==
  ASSUME NEW n \in Nat
  PROVE  Unset(n) \in Buffer(n) /\ Stored(Unset(n), n, {})
BY DEF Unset, Buffer, Stored

\* Nothing is stored yet, and so nothing is wrong.
LEMMA NothingKept ==
  ASSUME NEW n \in Nat, NEW f, Stored(f, n, {}), NEW g, NEW D
  PROVE  Kept(f, g, n, {}, D)
BY DEF Stored, Kept

\* No tail: everything is set.
LEMMA NoTail ==
  ASSUME NEW n \in Nat, NEW f, TailsUnset(f, n), Left(n) = {}
  PROVE  \A x \in 0..(n - 1) : f[x] # Garbage
BY DEF TailsUnset
-----------------------------------------------------------------------------
(***************************************************************************)
(* What the loop bodies compute, of right values.                          *)
(***************************************************************************)
LEMMA CellInt ==
  ASSUME NEW c, Proper(c), NEW q \in 0..(Cells(c) - 1)
  PROVE  /\ P1(c)[q] \in Int /\ P2(c)[q] \in Int
         /\ ExactCell(c)[q] \in Int /\ Times(P1(c)[q], P2(c)[q]) = ExactCell(c)[q]
<1>1. PICK n, w : n = Places(c) /\ w = Points(c)
  OBVIOUS
<1>2. n \in Nat /\ w \in Nat \ {0} /\ Cells(c) = (n * w) * 3 /\ q \in Nat /\ q \in 0..((n * w) * 3 - 1)
  BY <1>1, CallSizes DEF Proper, Cells, Pixels, Channels
<1>3. PICK N, y, h : N = n * w /\ y = q \div 3 /\ h = q % 3
  OBVIOUS
<1>4. N \in Nat /\ q \in 0..(N * 3 - 1)
  BY <1>2, <1>3, ProductNat
<1>5. y \in 0..(N - 1) /\ h \in 0..2 /\ q = 3 * y + h
  BY <1>3, <1>4
<1>6. PICK k, p : k = y \div w /\ p = y % w
  OBVIOUS
<1>7. k \in 0..(n - 1) /\ p \in 0..(w - 1) /\ y = k * w + p /\ k \in Nat
  <2>1. y \in 0..(n * w - 1)
    BY <1>3, <1>5
  <2>2. k \in 0..(n - 1) /\ p \in 0..(w - 1) /\ y = k * w + p
    BY <2>1, <1>2, <1>6, StrideCover
  <2> QED BY <2>2, <1>2
<1>8. q = CellOf(c, k, p, h)
  <2>1. k * w = w * k
    BY <1>2, <1>7
  <2> QED BY <2>1, <1>1, <1>5, <1>7, Zenon DEF CellOf
<1>9. InCall(c, k, p, h)
  BY <1>1, <1>5, <1>7 DEF InCall
<1>10. P1(c)[q] \in Int /\ P2(c)[q] \in Int
  BY <1>8, <1>9, Gathered
<1>11. ExactCell(c)[q] = P1(c)[q] * P2(c)[q]
  BY DEF ExactCell
<1>12. Times(P1(c)[q], P2(c)[q]) = P1(c)[q] * P2(c)[q]
  BY <1>10, LanesType DEF Times
<1> QED BY <1>10, <1>11, <1>12

\* The three cells of a pixel.
LEMMA PixelCells ==
  ASSUME NEW c, Proper(c), NEW x \in 0..(Pixels(c) - 1), NEW h \in 0..2
  PROVE  3 * x + h \in 0..(Cells(c) - 1)
<1>1. PICK N : N = Pixels(c)
  OBVIOUS
<1>2. N \in Nat /\ Cells(c) = N * 3 /\ x \in 0..(N - 1)
  BY <1>1, CallSizes DEF Proper, Cells, Channels
<1> QED BY <1>2

LEMMA ExactPixelValue ==
  ASSUME NEW c, Proper(c), NEW x \in 0..(Pixels(c) - 1)
  PROVE  Plus(Plus(ExactCell(c)[3 * x + 0], ExactCell(c)[3 * x + 1]), ExactCell(c)[3 * x + 2])
           = ExactPixel(c)[x]
<1>1. PICK a, b, d : a = ExactCell(c)[3 * x] /\ b = ExactCell(c)[3 * x + 1] /\ d = ExactCell(c)[3 * x + 2]
  OBVIOUS
<1>2. a \in Int /\ b \in Int /\ d \in Int /\ 3 * x + 0 = 3 * x
  <2>1. 3 * x + 0 = 3 * x
    OBVIOUS
  <2> QED BY <2>1, <1>1, PixelCells, CellInt
<1>3. ExactPixel(c)[x] = a + b + d
  BY <1>1 DEF ExactPixel
<1>4. Plus(Plus(a, b), d) = a + b + d
  BY <1>2, LanesType DEF Plus
<1> QED BY <1>1, <1>2, <1>3, <1>4

(***************************************************************************)
(* The sums over the points of a place: the value of point p of place k    *)
(* is f[p].                                                                *)
(***************************************************************************)
PointsAt(k) == [p \in 0..(Points(call) - 1) |-> Point(p)[k]]

\* S is the serial sum of f from 0.
SerialSum(w, f, S) == S = [p \in 0..w |-> IF p = 0 THEN 0 ELSE Plus(S[p - 1], f[p - 1])]

LEMMA PointsType ==
  ASSUME Shaped(call), sum \in Buffer(Pixels(call)), NEW k \in 0..(Places(call) - 1)
  PROVE  /\ \A p \in 0..(Points(call) - 1) : /\ Points(call) * k + p \in 0..(Pixels(call) - 1)
                                             /\ Point(p)[k] = sum[Points(call) * k + p]
                                             /\ PointsAt(k)[p] = Point(p)[k]
         /\ PointsAt(k) \in Buffer(Points(call))
<1>1. ASSUME NEW p \in 0..(Points(call) - 1)
      PROVE  /\ Points(call) * k + p \in 0..(Pixels(call) - 1)
             /\ Point(p)[k] = sum[Points(call) * k + p]
             /\ PointsAt(k)[p] = Point(p)[k] /\ Point(p)[k] \in Int \cup {Garbage}
  <2>1. InCall(call, k, p, 0)
    BY DEF InCall
  <2>2. Points(call) * k + p \in 0..(Pixels(call) - 1)
    BY <2>1, CellPosition
  <2>3. Point(p)[k] = sum[Points(call) * k + p] /\ PointsAt(k)[p] = Point(p)[k]
    BY DEF Point, PointsAt
  <2> QED BY <2>2, <2>3 DEF Buffer
<1>2. PointsAt(k) \in Buffer(Points(call))
  BY <1>1 DEF PointsAt, Buffer
<1> QED BY <1>1, <1>2

LEMMA SerialExists ==
  ASSUME NEW w \in Nat, NEW f \in Buffer(w)
  PROVE  \E S \in [0..w -> Int \cup {Garbage}] : SerialSum(w, f, S)
<1>1. PICK V : V = Int \cup {Garbage}
  OBVIOUS
<1>2. PICK G : G = [qv \in ((0 + 1)..w) \X V |-> Plus(qv[2], f[qv[1] - 1])]
  OBVIOUS
<1>3. G \in [((0 + 1)..w) \X V -> V]
  <2>1. ASSUME NEW q \in (0 + 1)..w, NEW v \in V  PROVE Plus(v, f[q - 1]) \in V
    <3>1. q - 1 \in 0..(w - 1)
      OBVIOUS
    <3>2. f[q - 1] \in V
      BY <3>1, <1>1 DEF Buffer
    <3> QED BY <3>2, <1>1 DEF Plus
  <2> QED BY <2>1, <1>2
<1>4. PICK S \in [0..w -> V] : Recurs(S, 0, w, 0, G)
  <2>1. 0 \in Int /\ w \in Int /\ 0 <= w /\ 0 \in V
    BY <1>1
  <2> QED BY <2>1, <1>3, RecursionExists, Zenon
<1>5. SerialSum(w, f, S)
  <2>1. ASSUME NEW q \in 0..w, q # 0  PROVE G[<<q, S[q - 1]>>] = Plus(S[q - 1], f[q - 1])
    <3>1. q \in (0 + 1)..w /\ S[q - 1] \in V
      BY <2>1, <1>4
    <3> QED BY <3>1, <1>2
  <2>2. S = [q \in 0..w |-> IF q = 0 THEN 0 ELSE G[<<q, S[q - 1]>>]]
    BY <1>4 DEF Recurs
  <2> QED BY <2>1, <2>2 DEF SerialSum
<1> QED BY <1>1, <1>4, <1>5

LEMMA SerialValue ==
  ASSUME Shaped(call), sum \in Buffer(Pixels(call)), NEW k \in 0..(Places(call) - 1)
  PROVE  \E S : SerialSum(Points(call), PointsAt(k), S) /\ SumOfPoints(k) = S[Points(call)]
<1>1. PICK w, f : w = Points(call) /\ f = PointsAt(k)
  OBVIOUS
<1>2. w \in Nat /\ f \in Buffer(w) /\ \A p \in 0..(w - 1) : f[p] = Point(p)[k]
  BY <1>1, CallSizes, PointsType
<1>3. \A S : SerialSum(w, f, S) <=> S = [p \in 0..w |-> IF p = 0 THEN 0 ELSE Plus(S[p - 1], Point(p - 1)[k])]
  <2> TAKE S
  <2>1. [p \in 0..w |-> IF p = 0 THEN 0 ELSE Plus(S[p - 1], f[p - 1])]
          = [p \in 0..w |-> IF p = 0 THEN 0 ELSE Plus(S[p - 1], Point(p - 1)[k])]
    <3>1. \A p \in 0..w : p # 0 => p - 1 \in 0..(w - 1)
      BY <1>2
    <3>2. \A p \in 0..w : p # 0 => f[p - 1] = Point(p - 1)[k]
      BY <3>1, <1>2
    <3> QED BY <3>2
  <2> QED BY <2>1, Zenon DEF SerialSum
<1>4. PICK F : SerialSum(w, f, F)
  BY <1>2, SerialExists
<1>5. PICK S : S = CHOOSE T : T = [p \in 0..w |-> IF p = 0 THEN 0 ELSE Plus(T[p - 1], Point(p - 1)[k])]
  OBVIOUS
<1>6. F = [p \in 0..w |-> IF p = 0 THEN 0 ELSE Plus(F[p - 1], Point(p - 1)[k])]
  BY <1>3, <1>4
<1>7. S = [p \in 0..w |-> IF p = 0 THEN 0 ELSE Plus(S[p - 1], Point(p - 1)[k])]
  BY <1>5, <1>6, Zenon
<1>8. SerialSum(w, f, S)
  BY <1>3, <1>7
<1>9. SumOfPoints(k) = S[w]
  BY <1>1, <1>5 DEF SumOfPoints
<1> QED BY <1>1, <1>8, <1>9

\* The sum of the values of f at D, unset if one of them is.
TotalOf(f, D) == IF \E p \in D : f[p] = Garbage THEN Garbage ELSE SumFunctionOnSet(f, D)

\* One value more.
LEMMA TotalStep ==
  ASSUME NEW w \in Nat, NEW f \in Buffer(w), NEW D \in SUBSET (0..(w - 1)),
         NEW i \in 0..(w - 1), i \notin D
  PROVE  TotalOf(f, D \cup {i}) = Plus(TotalOf(f, D), f[i])
<1>1. \A p \in 0..(w - 1) : f[p] # Garbage => f[p] \in Int
  BY DEF Buffer
<1>2. CASE \E p \in D \cup {i} : f[p] = Garbage
  <2>1. TotalOf(f, D \cup {i}) = Garbage
    BY <1>2 DEF TotalOf
  <2>2. TotalOf(f, D) = Garbage \/ f[i] = Garbage
    BY <1>2 DEF TotalOf
  <2> QED BY <2>1, <2>2 DEF Plus
<1>3. CASE \A p \in D \cup {i} : f[p] # Garbage
  <2>1. PICK E, s : E = D \cup {i} /\ s = SumFunctionOnSet(f, D)
    OBVIOUS
  <2>2. IsFiniteSet(E) /\ IsFiniteSet(D) /\ i \in E /\ E \ {i} = D
    <3>1. IsFiniteSet(0..(w - 1))
      BY FS_Interval
    <3>2. E \subseteq 0..(w - 1) /\ i \in E /\ E \ {i} = D
      BY <2>1
    <3> QED BY <3>1, <3>2, FS_Subset
  <2>3. \A p \in E : f[p] \in Int
    BY <2>1, <1>1, <1>3
  <2>4. SumFunctionOnSet(f, E) = f[i] + s
    <3>1. \A e \in E : SumFunctionOnSet(f, E) = f[e] + SumFunctionOnSet(f, E \ {e})
      BY <2>2, <2>3, SumRemove
    <3>2. SumFunctionOnSet(f, E) = f[i] + SumFunctionOnSet(f, E \ {i})
      BY <2>2, <3>1, Zenon
    <3> QED BY <3>2, <2>1, <2>2
  <2>5. s \in Int
    <3>1. \A p \in D : f[p] \in Int
      BY <2>1, <2>3
    <3> QED BY <3>1, <2>1, <2>2, SumInt
  <2>6. TotalOf(f, E) = f[i] + s /\ TotalOf(f, D) = s
    BY <2>1, <2>4, <1>3 DEF TotalOf
  <2> QED BY <2>1, <2>2, <2>3, <2>5, <2>6, LanesType DEF Plus
<1> QED BY <1>2, <1>3

LEMMA TotalEmpty == ASSUME NEW f PROVE TotalOf(f, {}) = 0
BY SumEmpty DEF TotalOf

\* It is unset only if a point is, and else the sum of them.
LEMMA SerialResult ==
  ASSUME NEW w \in Nat, NEW f \in Buffer(w), NEW S, SerialSum(w, f, S)
  PROVE  /\ S[w] \in Int \cup {Garbage}
         /\ (\A p \in 0..(w - 1) : f[p] # Garbage) => S[w] \in Int
         /\ S[w] = TotalOf(f, 0..(w - 1))
<1>1. \A q \in 0..(w - 1) : S[q + 1] = Plus(S[q], f[q]) /\ f[q] \in Int \cup {Garbage}
  <2> TAKE q \in 0..(w - 1)
  <2>1. PICK x : x = q + 1
    OBVIOUS
  <2>2. x \in 0..w /\ x # 0 /\ x - 1 = q
    BY <2>1
  <2>3. S[x] = IF x = 0 THEN 0 ELSE Plus(S[x - 1], f[x - 1])
    BY <2>2, Zenon DEF SerialSum
  <2> QED BY <2>1, <2>2, <2>3 DEF Buffer
<1>2. S[0] = 0 /\ w \in 0..w /\ 0 \in 0..w
  BY DEF SerialSum
<1>3. S[w] \in Int \cup {Garbage}
  <2>1. PICK T : T = {q \in 0..w : S[q] \in Int \cup {Garbage}}
    OBVIOUS
  <2>2. 0 \in T
    BY <2>1, <1>2
  <2>3. \A q \in 0..(w - 1) : q \in T => q + 1 \in T
    BY <2>1, <1>1 DEF Plus
  <2>4. w \in T
    BY <2>2, <2>3, <1>2, Upward
  <2> QED BY <2>1, <2>4
<1>4. ASSUME \A p \in 0..(w - 1) : f[p] # Garbage  PROVE S[w] \in Int
  <2>1. PICK T : T = {q \in 0..w : S[q] \in Int}
    OBVIOUS
  <2>2. 0 \in T
    BY <2>1, <1>2
  <2>3. \A q \in 0..(w - 1) : q \in T => q + 1 \in T
    BY <2>1, <1>1, <1>4, LanesType DEF Plus
  <2>4. w \in T
    BY <2>2, <2>3, <1>2, Upward
  <2> QED BY <2>1, <2>4
<1>5. S[w] = TotalOf(f, 0..(w - 1))
  <2>1. PICK T : T = {q \in 0..w : S[q] = TotalOf(f, 0..(q - 1))}
    OBVIOUS
  <2>2. 0 \in T
    <3>1. 0..(0 - 1) = {}
      OBVIOUS
    <3>2. TotalOf(f, 0..(0 - 1)) = 0
      BY <3>1, TotalEmpty
    <3> QED BY <3>2, <2>1, <1>2
  <2>3. ASSUME NEW q \in 0..(w - 1), q \in T  PROVE q + 1 \in T
    <3>1. PICK D : D = 0..(q - 1)
      OBVIOUS
    <3>2. D \in SUBSET (0..(w - 1)) /\ q \notin D /\ D \cup {q} = 0..q
      BY <3>1
    <3>3. TotalOf(f, D \cup {q}) = Plus(TotalOf(f, D), f[q])
      BY <3>2, TotalStep
    <3>4. S[q + 1] = TotalOf(f, 0..q)
      BY <3>1, <3>2, <3>3, <2>1, <2>3, <1>1
    <3>5. q + 1 \in 0..w /\ q + 1 - 1 = q
      OBVIOUS
    <3> QED BY <2>1, <3>4, <3>5
  <2>4. w \in T
    BY <2>2, <2>3, <1>2, Upward
  <2> QED BY <2>1, <2>4
<1> QED BY <1>3, <1>4, <1>5

(***************************************************************************)
(* The sets of sums of one to n values of f; and Sums(k) with the sets it  *)
(* is built from, that is, those of PointsAt(k).                           *)
(***************************************************************************)
ValuesOf(w, f) == {f[p] : p \in 0..(w - 1)}
Adding(w, f, U) == U \cup {Plus(v, f[p]) : v \in U, p \in 0..(w - 1)}
OwnSums(w, f, S) == S = [n \in 1..w |-> IF n = 1 THEN ValuesOf(w, f) ELSE Adding(w, f, S[n - 1])]

PointValues(k) == {Point(p)[k] : p \in 0..(Points(call) - 1)}
AddingPoints(k, U) == U \cup {Plus(v, Point(p)[k]) : v \in U, p \in 0..(Points(call) - 1)}
SumsTo(k) == CHOOSE S : S = [n \in 1..Points(call) |-> IF n = 1 THEN PointValues(k) ELSE AddingPoints(k, S[n - 1])]

LEMMA AddingValue ==
  ASSUME NEW w \in Nat \ {0}, NEW f, NEW U
  PROVE  /\ U \subseteq Adding(w, f, U)
         /\ \A v \in U, p \in 0..(w - 1) : Plus(v, f[p]) \in Adding(w, f, U)
         /\ \A x \in Adding(w, f, U) : x \in U \/ \E v \in U, p \in 0..(w - 1) : x = Plus(v, f[p])
BY DEF Adding

LEMMA AddingType ==
  ASSUME NEW w \in Nat \ {0}, NEW f \in Buffer(w), NEW U \in SUBSET (Int \cup {Garbage})
  PROVE  Adding(w, f, U) \in SUBSET (Int \cup {Garbage})
<1>1. \A p \in 0..(w - 1) : f[p] \in Int \cup {Garbage}
  BY DEF Buffer
<1>2. \A v \in U, p \in 0..(w - 1) : Plus(v, f[p]) \in Int \cup {Garbage}
  BY <1>1 DEF Plus
<1>3. \A x \in Adding(w, f, U) : x \in U \/ \E v \in U, p \in 0..(w - 1) : x = Plus(v, f[p])
  BY DEF Adding
<1>4. \A x \in Adding(w, f, U) : x \in Int \cup {Garbage}
  BY <1>2, <1>3
<1> QED BY <1>4

LEMMA OwnSumsExist ==
  ASSUME NEW w \in Nat \ {0}, NEW f \in Buffer(w)
  PROVE  \E S : OwnSums(w, f, S)
<1>1. PICK V, z : V = SUBSET (Int \cup {Garbage}) /\ z = ValuesOf(w, f)
  OBVIOUS
<1>2. PICK G : G = [qv \in ((1 + 1)..w) \X V |-> Adding(w, f, qv[2])]
  OBVIOUS
<1>3. z \in V
  BY <1>1 DEF Buffer, ValuesOf
<1>4. G \in [((1 + 1)..w) \X V -> V]
  BY <1>1, <1>2, AddingType
<1>5. PICK S \in [1..w -> V] : Recurs(S, 1, w, z, G)
  <2>1. 1 \in Int /\ w \in Int /\ 1 <= w
    OBVIOUS
  <2> QED BY <2>1, <1>3, <1>4, RecursionExists, Zenon
<1>6. OwnSums(w, f, S)
  <2>1. ASSUME NEW q \in 1..w, q # 1  PROVE G[<<q, S[q - 1]>>] = Adding(w, f, S[q - 1])
    <3>1. q \in (1 + 1)..w /\ S[q - 1] \in V
      BY <2>1, <1>5
    <3> QED BY <3>1, <1>2
  <2>2. S = [q \in 1..w |-> IF q = 1 THEN z ELSE G[<<q, S[q - 1]>>]]
    BY <1>5 DEF Recurs
  <2> QED BY <2>1, <2>2, <1>1 DEF OwnSums
<1> QED BY <1>6

LEMMA SumsValue ==
  ASSUME Shaped(call), sum \in Buffer(Pixels(call)), NEW k \in 0..(Places(call) - 1)
  PROVE  Sums(k) = SumsTo(k)[Points(call)] /\ OwnSums(Points(call), PointsAt(k), SumsTo(k))
<1>1. PICK w, f : w = Points(call) /\ f = PointsAt(k)
  OBVIOUS
<1>2. w \in Nat \ {0} /\ f \in Buffer(w) /\ \A p \in 0..(w - 1) : f[p] = Point(p)[k]
  BY <1>1, CallSizes, PointsType
<1>3. ValuesOf(w, f) = PointValues(k)
  BY <1>1, <1>2 DEF ValuesOf, PointValues
<1>4. ASSUME NEW U  PROVE Adding(w, f, U) = AddingPoints(k, U)
  <2>1. \A x : x \in AddingPoints(k, U) <=> x \in U \/ \E v \in U, p \in 0..(w - 1) : x = Plus(v, Point(p)[k])
    BY <1>1 DEF AddingPoints
  <2>2. \A x : x \in Adding(w, f, U) <=> x \in U \/ \E v \in U, p \in 0..(w - 1) : x = Plus(v, f[p])
    BY DEF Adding
  <2>3. \A x : (\E v \in U, p \in 0..(w - 1) : x = Plus(v, f[p]))
                 <=> (\E v \in U, p \in 0..(w - 1) : x = Plus(v, Point(p)[k]))
    BY <1>2
  <2>4. \A x : x \in Adding(w, f, U) <=> x \in AddingPoints(k, U)
    BY <2>1, <2>2, <2>3
  <2> QED BY <2>4
<1>5. \A S : OwnSums(w, f, S)
               <=> S = [n \in 1..w |-> IF n = 1 THEN PointValues(k) ELSE AddingPoints(k, S[n - 1])]
  BY <1>3, <1>4 DEF OwnSums
<1>6. PICK F : OwnSums(w, f, F)
  BY <1>2, OwnSumsExist
<1>7. F = [n \in 1..w |-> IF n = 1 THEN PointValues(k) ELSE AddingPoints(k, F[n - 1])]
  BY <1>5, <1>6
<1>8. PICK S : S = SumsTo(k)
  OBVIOUS
<1>9. S = CHOOSE T : T = [n \in 1..w |-> IF n = 1 THEN PointValues(k) ELSE AddingPoints(k, T[n - 1])]
  BY <1>1, <1>8, Zenon DEF SumsTo
<1>10. S = [n \in 1..w |-> IF n = 1 THEN PointValues(k) ELSE AddingPoints(k, S[n - 1])]
  BY <1>7, <1>9, Zenon
<1>11. OwnSums(w, f, S)
  BY <1>5, <1>10
<1>12. Sums(k) = SumsTo(k)[Points(call)]
  BY DEF Sums, SumsTo, PointValues, AddingPoints
<1> QED BY <1>1, <1>8, <1>11, <1>12

\* A value added to nothing, and to a sum.
LEMMA OwnSumsStep ==
  ASSUME NEW w \in Nat \ {0}, NEW f \in Buffer(w), NEW S, OwnSums(w, f, S), NEW p \in 0..(w - 1)
  PROVE  /\ Plus(0, f[p]) \in S[1]
         /\ \A m \in 1..(w - 1) : \A v \in S[m] : Plus(v, f[p]) \in S[m + 1]
<1>1. f[p] \in Int \cup {Garbage} /\ Plus(0, f[p]) = f[p]
  <2>1. f[p] \in Int \cup {Garbage}
    BY DEF Buffer
  <2> QED BY <2>1, LanesType DEF Plus
<1>2. S[1] = ValuesOf(w, f)
  BY DEF OwnSums
<1>3. ASSUME NEW m \in 1..(w - 1), NEW v, v \in S[m]  PROVE Plus(v, f[p]) \in S[m + 1]
  <2>1. PICK x : x = m + 1
    OBVIOUS
  <2>2. x \in 1..w /\ x # 1 /\ x - 1 = m
    BY <2>1
  <2>3. S[x] = IF x = 1 THEN ValuesOf(w, f) ELSE Adding(w, f, S[x - 1])
    BY <2>2, Zenon DEF OwnSums
  <2>4. S[x] = Adding(w, f, S[m])
    BY <2>2, <2>3
  <2> QED BY <2>1, <2>4, <1>3, AddingValue
<1> QED BY <1>1, <1>2, <1>3 DEF ValuesOf

-----------------------------------------------------------------------------
(***************************************************************************)
(* The inductive invariant.  While a loop runs, every thread is in its own *)
(* chunk, and between two iterations or at one that is left to it;         *)
(***************************************************************************)
Looping == stage \in {"mul", "add", "acc"}
Done == DoneBy(call.team, iter, Iterations)

Chunked ==
  Looping => /\ InChunks(call.team, iter, Iterations)
             /\ \A t \in Team : pc[t] # 1 => Running(t)

Turn ==
  /\ stage \in {"mul", "add"} => place = 0
  /\ stage = "acc" => place < Whole(Places(call))

(***************************************************************************)
(* whatever the threads do to each other's registers, what they store is   *)
(* set, and the cells that are set are those of the iterations done: a     *)
(* register that a thread has passed the assignment of (statement s) holds *)
(* a value that some thread computed;                                      *)
(***************************************************************************)
Ready(t, s, r) == pc[t] > s => reg[r] \in Floats

MulWritten ==
  build # "scalar" =>
    /\ stage = "mul" => /\ Stored(p3, Cells(call), Done)
                        /\ \A t \in Team : Ready(t, 1, "a") /\ Ready(t, 2, "b") /\ Ready(t, 3, "c")
    /\ stage # "mul" => TailsUnset(p3, Cells(call))

AddWritten ==
  build # "scalar" /\ Left(Cells(call)) = {} =>
    /\ stage = "mul" => Stored(sum, Pixels(call), {})
    /\ stage = "add" => /\ Stored(sum, Pixels(call), Done)
                        /\ \A t \in Team : /\ Ready(t, 1, "aa") /\ Ready(t, 2, "bb") /\ Ready(t, 3, "cc")
                                           /\ Ready(t, 4, "m") /\ Ready(t, 5, "n")
    /\ stage \in {"place", "acc", "done"} => TailsUnset(sum, Pixels(call))

AccWritten ==
  build = "avx2" /\ Left(Cells(call)) = {} /\ Left(Pixels(call)) = {} =>
    /\ stage # "done" => Stored(finaldata, Places(call), 0..(place - 1))
    /\ stage = "acc" => reg["cc"] \in Floats /\ \A t \in Team : Ready(t, 1, "aa")
    /\ stage = "done" => TailsUnset(data, Places(call))

(***************************************************************************)
(* a register that a thread still uses for a vector that no other thread   *)
(* has disturbed holds what the thread put there, and what is stored for   *)
(* such a vector is computed from the buffer before: the products, the     *)
(* pixels added up from them, and the sums of the pixels of a place.  cc   *)
(* is the sum over the points done so far;                                 *)
(***************************************************************************)
MulHolds(t) ==
  /\ pc[t] \in {2, 3} => reg["a"] = Vec(P1(call), iter[t])
  /\ pc[t] = 3 => reg["b"] = Vec(P2(call), iter[t])
  /\ pc[t] = 4 => reg["c"] = VMul(Vec(P1(call), iter[t]), Vec(P2(call), iter[t]))

MulExact ==
  build # "scalar" =>
    /\ stage = "mul" => /\ Kept(p3, ExactCell(call), Cells(call), Done, disturbed["mul"])
                        /\ \A t \in Team : iter[t] \notin disturbed["mul"] => MulHolds(t)
    /\ stage # "mul" => Tailed(p3, ExactCell(call), Cells(call), disturbed["mul"])

Added == [y \in 0..(Pixels(call) - 1) |-> Plus(Plus(Channel(0)[y], Channel(1)[y]), Channel(2)[y])]

AddTerms(v) ==
  [aa |-> Vec(Channel(0), v), bb |-> Vec(Channel(1), v), cc |-> Vec(Channel(2), v),
   m |-> VAdd(Vec(Channel(0), v), Vec(Channel(1), v)),
   n |-> VAdd(VAdd(Vec(Channel(0), v), Vec(Channel(1), v)), Vec(Channel(2), v))]

AddHolds(t, T) ==
  /\ pc[t] \in 2..4 => reg["aa"] = T.aa
  /\ pc[t] \in 3..4 => reg["bb"] = T.bb
  /\ pc[t] \in 4..5 => reg["cc"] = T.cc
  /\ pc[t] = 5 => reg["m"] = T.m
  /\ pc[t] = 6 => reg["n"] = T.n

AddExact ==
  build # "scalar" =>
    /\ stage = "mul" => Stored(sum, Pixels(call), {})
    /\ stage = "add" => /\ Kept(sum, Added, Pixels(call), Done, disturbed["add"])
                        /\ \A t \in Team : iter[t] \notin disturbed["add"] => AddHolds(t, AddTerms(iter[t]))
    /\ stage \in {"place", "acc", "done"} => Tailed(sum, Added, Pixels(call), disturbed["add"])

TotalAt(k, D) == TotalOf(PointsAt(k), D)

PlaceSums ==
  [k \in 0..(Places(call) - 1) |->
     IF build = "neon" /\ k < TailAt(Places(call)) THEN Garbage ELSE TotalAt(k, 0..(Points(call) - 1))]

AccExact ==
  /\ build = "scalar" /\ stage = "done" => \A k \in 0..(Places(call) - 1) : data[k] = Convolution(call)[k]
  /\ build # "scalar" =>
       /\ stage \in {"mul", "add"} => Stored(finaldata, Places(call), {})
       /\ stage \in {"place", "acc"} =>
            Kept(finaldata, PlaceSums, Places(call), 0..(place - 1), disturbed["acc"])
       /\ stage = "acc" /\ place \notin disturbed["acc"] =>
            /\ \A t \in Team : pc[t] = 2 => reg["aa"] = Vec(Point(iter[t]), place)
            /\ \A l \in 0..(Lanes - 1) :
                 reg["cc"][l] = IF build = "neon" THEN Garbage ELSE TotalAt(place * Lanes + l, Done)
       /\ stage = "done" => Tailed(data, PlaceSums, Places(call), disturbed["acc"])

(***************************************************************************)
(* and even with the race, cc adds up values of its own places, as many as *)
(* there are iterations done.                                              *)
(***************************************************************************)
OwnPoints ==
  build = "avx2" =>
    /\ \A k \in 0..(place * Lanes - 1) : finaldata[k] \in Sums(k)
    /\ stage = "acc" =>
         /\ \A t \in Team : pc[t] = 2 => \E p \in 0..(Points(call) - 1) : reg["aa"] = Vec(Point(p), place)
         /\ \A l \in 0..(Lanes - 1) :
              IF Done = {} THEN reg["cc"][l] = 0
              ELSE reg["cc"][l] \in SumsTo(place * Lanes + l)[Cardinality(Done)]

IInv ==
  /\ TypeOK
  /\ Chunked /\ Turn
  /\ MulWritten /\ AddWritten /\ AccWritten
  /\ MulExact /\ AddExact /\ AccExact
  /\ OwnPoints

-----------------------------------------------------------------------------
LEMMA LoopSizes ==
  ASSUME Shaped(call)
  PROVE  /\ Whole(Cells(call)) \in Nat /\ Whole(Pixels(call)) \in Nat /\ Whole(Places(call)) \in Nat
         /\ Iterations \in Nat
<1>1. Whole(Cells(call)) \in Nat /\ Whole(Pixels(call)) \in Nat /\ Whole(Places(call)) \in Nat
  BY CallSizes, WholeTail
<1> QED BY <1>1, CallSizes DEF Iterations

LEMMA IterationsOf ==
  /\ stage = "mul" => Iterations = Whole(Cells(call))
  /\ stage = "add" => Iterations = Whole(Pixels(call))
  /\ stage = "acc" => Iterations = Points(call)
BY DEF Iterations

LEMMA RunningIs == ASSUME NEW t PROVE Running(t) <=> iter[t] < ChunkStart(call.team, t + 1, Iterations)
BY FirstIsStart DEF Running

\* A loop at its start, and at its end.
LEMMA LoopStarts ==
  ASSUME NEW c, Shaped(c), NEW n \in Nat, NEW it, it = [t \in 0..(c.team - 1) |-> ChunkStart(c.team, t, n)]
  PROVE  InChunks(c.team, it, n) /\ DoneBy(c.team, it, n) = {}
BY CallTypes, NothingDone

LEMMA StartingIs == ASSUME NEW n PROVE Starting(n) = [t \in 0..(call.team - 1) |-> ChunkStart(call.team, t, n)]
BY FirstIsStart DEF Starting, Team

LEMMA LoopEnds ==
  ASSUME Shaped(call), TypeOK, Chunked, Looping, LoopOver
  PROVE  Done = 0..(Iterations - 1) /\ \A t \in Team : pc[t] = 1
<1>1. \A t \in Team : ~(iter[t] < ChunkStart(call.team, t + 1, Iterations))
  BY RunningIs DEF LoopOver
<1>2. Done = 0..(Iterations - 1)
  BY <1>1, LoopSizes, CallTypes, AllDone DEF Done, Chunked, Team
<1> QED BY <1>2 DEF Chunked, LoopOver

(***************************************************************************)
(* The initial values: nothing is stored.                                  *)
(***************************************************************************)
Fresh ==
  /\ stage = "mul" /\ place = 0
  /\ iter = Starting(Whole(Cells(call)))
  /\ pc = [t \in Team |-> 1]
  /\ reg = [r \in Names |-> IF r \in {"c", "n"} /\ build = "avx2" THEN Zero ELSE Unset(Lanes)]
  /\ p3 = Unset(Cells(call)) /\ sum = Unset(Pixels(call))
  /\ finaldata = Unset(Places(call)) /\ data = Unset(Places(call))
  /\ disturbed = [s \in Loops |-> {}]

LEMMA FreshInv ==
  ASSUME build \in Builds, call \in Calls, Shaped(call), Fresh
  PROVE  IInv
<1>1. PICK n, N, m : n = Cells(call) /\ N = Pixels(call) /\ m = Places(call)
  OBVIOUS
<1>2. n \in Nat /\ N \in Nat /\ m \in Nat /\ Whole(n) \in Nat /\ Whole(m) \in Nat /\ Shaped(call)
  BY <1>1, CallSizes, LoopSizes
<1>3. Iterations = Whole(n)
  BY <1>1, IterationsOf DEF Fresh
<1>4. InChunks(call.team, iter, Whole(n)) /\ DoneBy(call.team, iter, Whole(n)) = {}
  BY <1>1, <1>2, LoopStarts, StartingIs DEF Fresh
<1>5. Done = {}
  BY <1>3, <1>4 DEF Done
<1>6. \A t \in Team : pc[t] = 1
  BY DEF Fresh
<1>7. TypeOK
  <2>1. iter \in [Team -> Nat]
    BY <1>4 DEF InChunks, Team
  <2>2. pc \in [Team -> 1..Body]
    BY DEF Fresh, Body
  <2>3. reg \in [Names -> Buffer(Lanes)]
    <3>1. Zero \in Buffer(Lanes) /\ Unset(Lanes) \in Buffer(Lanes)
      BY LanesType, UnsetBuffer DEF Zero, Buffer
    <3> QED BY <3>1 DEF Fresh
  <2>4. p3 \in Buffer(n) /\ sum \in Buffer(N) /\ finaldata \in Buffer(m) /\ data \in Buffer(m)
    BY <1>1, <1>2, UnsetBuffer DEF Fresh
  <2>5. place \in 0..Whole(m) /\ stage = "mul" /\ disturbed \in [Loops -> SUBSET Nat]
    <3>1. 0 \in 0..Whole(m)
      BY <1>2
    <3> QED BY <3>1 DEF Fresh
  <2> QED BY <2>1, <2>2, <2>3, <2>4, <2>5, <1>1 DEF TypeOK
<1>8. Chunked /\ Turn
  BY <1>3, <1>4, <1>6 DEF Chunked, Turn, Fresh
<1>9. MulWritten /\ AddWritten
  <2>1. Stored(p3, n, {}) /\ Stored(sum, N, {})
    BY <1>1, <1>2, UnsetBuffer DEF Fresh
  <2>2. stage = "mul"
    BY DEF Fresh
  <2>3. \A t \in Team : Ready(t, 1, "a") /\ Ready(t, 2, "b") /\ Ready(t, 3, "c")
    BY <1>6 DEF Ready
  <2> QED BY <2>1, <2>2, <2>3, <1>1, <1>5 DEF MulWritten, AddWritten
<1>10. AccWritten
  <2>1. Stored(finaldata, m, {})
    BY <1>1, <1>2, UnsetBuffer DEF Fresh
  <2>2. 0..(place - 1) = {} /\ stage = "mul"
    BY DEF Fresh
  <2> QED BY <2>1, <2>2, <1>1 DEF AccWritten
<1>11. MulExact /\ AddExact /\ AccExact
  <2>1. Stored(p3, n, {}) /\ Stored(sum, N, {}) /\ Stored(finaldata, m, {})
    BY <1>1, <1>2, UnsetBuffer DEF Fresh
  <2>2. stage = "mul" /\ \A t \in Team : pc[t] \notin {2, 3} /\ pc[t] # 3 /\ pc[t] # 4
    BY <1>6 DEF Fresh
  <2>3. Kept(p3, ExactCell(call), n, Done, disturbed["mul"])
    BY <2>1, <1>2, <1>5, NothingKept
  <2>4. MulExact
    BY <2>2, <2>3, <1>1 DEF MulExact, MulHolds
  <2> QED BY <2>1, <2>2, <2>4, <1>1 DEF AddExact, AccExact
<1>12. OwnPoints
  <2>1. 0..(place * Lanes - 1) = {} /\ stage = "mul"
    <3>1. 0 * Lanes = 0
      BY LanesType
    <3>2. 0..(0 - 1) = {}
      OBVIOUS
    <3> QED BY <3>1, <3>2 DEF Fresh
  <2> QED BY <2>1 DEF OwnPoints
<1> QED BY <1>7, <1>8, <1>9, <1>10, <1>11, <1>12 DEF IInv

-----------------------------------------------------------------------------
(***************************************************************************)
(* A statement of a loop body, whatever it computes: the thread stays in   *)
(* its chunk and advances, the others stay where they are, and what they   *)
(* use stays as it is if their vectors are not disturbed.                  *)
(***************************************************************************)
Disturbs(t) ==
  /\ disturbed' \in [Loops -> SUBSET Nat]
  /\ disturbed[stage] \subseteq disturbed'[stage]
  /\ \A s \in Loops : s # stage => disturbed'[s] = disturbed[s]
  /\ \A u \in Team \ {t} : Vector(u) \notin disturbed'[stage] => \A r \in InUse(u) : reg'[r] = reg[r]

Moved(t) ==
  /\ Chunked' /\ iter' \in [Team -> Nat] /\ pc' \in [Team -> 1..Body]
  /\ iter[t] \in 0..(Iterations - 1) /\ iter[t] \notin Done
  /\ pc[t] # Body => Done' = Done /\ iter' = iter /\ pc'[t] = pc[t] + 1
  /\ pc[t] = Body => Done' = Done \cup {iter[t]} /\ pc'[t] = 1
  /\ \A u \in Team \ {t} : iter'[u] = iter[u] /\ pc'[u] = pc[u]
  /\ Disturbs(t)

LEMMA BodyStep ==
  ASSUME Shaped(call), TypeOK, Chunked, Looping, NEW t \in Team, Running(t),
         Advance(t, Body), UNCHANGED <<call, stage>>
  PROVE  Moved(t)
<1>1. PICK n, team : n = Iterations /\ team = call.team
  OBVIOUS
<1>2. n \in Nat /\ team \in Nat \ {0} /\ Team = 0..(team - 1) /\ t \in 0..(team - 1)
  BY <1>1, LoopSizes, CallTypes DEF Team
<1>3. Iterations' = n /\ call'.team = team /\ Team' = Team
  BY <1>1 DEF Iterations, Team
<1>4. InChunks(team, iter, n) /\ iter[t] < ChunkStart(team, t + 1, n)
  BY <1>1, RunningIs DEF Chunked
<1>5. /\ iter[t] \in 0..(n - 1) /\ iter[t] \notin DoneBy(team, iter, n)
      /\ InChunks(team, OneOn(iter, t), n)
      /\ DoneBy(team, OneOn(iter, t), n) = DoneBy(team, iter, n) \cup {iter[t]}
  <2>1. PICK it : it = iter
    OBVIOUS
  <2>2. InChunks(team, it, n) /\ Behind(team, it, n, t)
    BY <2>1, <1>4 DEF Behind
  <2>3. /\ it[t] \in 0..(n - 1) /\ it[t] \notin DoneBy(team, it, n)
        /\ InChunks(team, OneOn(it, t), n)
        /\ DoneBy(team, OneOn(it, t), n) = DoneBy(team, it, n) \cup {it[t]}
    BY <2>2, <1>2, OneMoreDone
  <2> QED BY <2>1, <2>3
<1>6. Done = DoneBy(team, iter, n) /\ Done' = DoneBy(team, iter', n)
  BY <1>1, <1>3 DEF Done
<1>7. iter \in [Team -> Nat] /\ pc \in [Team -> 1..Body]
  BY DEF TypeOK
<1>8. /\ pc' = [pc EXCEPT ![t] = IF pc[t] = Body THEN 1 ELSE pc[t] + 1]
      /\ iter' = [iter EXCEPT ![t] = IF pc[t] = Body THEN iter[t] + 1 ELSE iter[t]]
  BY DEF Advance
<1>9. Body \in Nat \ {0}
  BY DEF Body
<1>10. /\ pc' \in [Team -> 1..Body] /\ iter' \in [Team -> Nat]
       /\ \A u \in Team \ {t} : iter'[u] = iter[u] /\ pc'[u] = pc[u]
  <2>1. (IF pc[t] = Body THEN 1 ELSE pc[t] + 1) \in 1..Body
    BY <1>7, <1>9
  <2>2. (IF pc[t] = Body THEN iter[t] + 1 ELSE iter[t]) \in Nat
    BY <1>7
  <2> QED BY <2>1, <2>2, <1>7, <1>8
<1>11. Disturbs(t)
  <2>1. PICK V : V = {Vector(u) : u \in Overwritten(t)}
    OBVIOUS
  <2>2. disturbed' = [disturbed EXCEPT ![stage] = disturbed[stage] \cup V]
    BY <2>1 DEF Advance
  <2>3. stage \in Loops /\ disturbed \in [Loops -> SUBSET Nat]
    BY DEF Looping, Loops, TypeOK
  <2>4. V \in SUBSET Nat
    <3>1. \A u \in Team : Vector(u) \in Nat
      <4>1. place \in Nat
        BY LoopSizes DEF TypeOK
      <4> QED BY <4>1, <1>7 DEF Vector
    <3> QED BY <3>1, <2>1 DEF Overwritten
  <2>5. disturbed'[stage] = disturbed[stage] \cup V
    BY <2>2, <2>3
  <2>6. \A u \in Team \ {t} : \A r \in InUse(u) : reg'[r] # reg[r] => Vector(u) \in V
    BY <2>1 DEF Overwritten
  <2> QED BY <2>2, <2>3, <2>4, <2>5, <2>6 DEF Disturbs
<1>12. CASE pc[t] # Body
  <2>1. iter' = iter /\ pc'[t] = pc[t] + 1
    BY <1>7, <1>8, <1>12
  <2>2. Chunked'
    <3>1. \A u \in Team : pc'[u] # 1 => iter[u] < ChunkStart(team, u + 1, n)
      <4> TAKE u \in Team
      <4>1. CASE u = t
        BY <4>1, <1>4
      <4>2. CASE u # t
        BY <4>2, <1>1, <1>10, RunningIs DEF Chunked
      <4> QED BY <4>1, <4>2
    <3>2. \A u : Running(u)' <=> iter'[u] < ChunkStart(team, u + 1, n)
      BY <1>3 DEF Running, First, ChunkStart
    <3>3. \A u \in Team : pc'[u] # 1 => Running(u)'
      BY <2>1, <3>1, <3>2
    <3> QED BY <2>1, <3>3, <1>3, <1>4 DEF Chunked
  <2> QED BY <2>1, <2>2, <1>1, <1>5, <1>6, <1>10, <1>11, <1>12 DEF Moved
<1>13. CASE pc[t] = Body
  <2>1. iter' = OneOn(iter, t) /\ pc'[t] = 1
    BY <1>7, <1>8, <1>13 DEF OneOn
  <2>2. Chunked'
    <3>1. \A u \in Team : u # t /\ pc'[u] # 1 => iter'[u] < ChunkStart(team, u + 1, n)
      BY <1>1, <1>10, RunningIs DEF Chunked
    <3>2. \A u : Running(u)' <=> iter'[u] < ChunkStart(team, u + 1, n)
      BY <1>3 DEF Running, First, ChunkStart
    <3>3. \A u \in Team : pc'[u] # 1 => Running(u)'
      BY <2>1, <3>1, <3>2
    <3> QED BY <2>1, <3>3, <1>3, <1>5 DEF Chunked
  <2> QED BY <2>1, <2>2, <1>1, <1>5, <1>6, <1>10, <1>11, <1>13 DEF Moved
<1> QED BY <1>12, <1>13

(***************************************************************************)
(* What a statement does to registers: r is set to a vector and the others *)
(* stay.                                                                   *)
(***************************************************************************)
LEMMA SetReg ==
  ASSUME TypeOK, NEW r \in Names, NEW v \in Buffer(Lanes), Set(r, v)
  PROVE  /\ reg' \in [Names -> Buffer(Lanes)] /\ reg'[r] = v
         /\ \A q \in Names : q # r => reg'[q] = reg[q]
BY DEF TypeOK, Set

-----------------------------------------------------------------------------
(***************************************************************************)
(* The first loop.                                                         *)
(***************************************************************************)
LEMMA MulVectors ==
  ASSUME Proper(call), NEW v \in 0..(Whole(Cells(call)) - 1)
  PROVE  /\ Vec(P1(call), v) \in Floats /\ Vec(P2(call), v) \in Floats
         /\ VMul(Vec(P1(call), v), Vec(P2(call), v)) \in Floats
         /\ \A l \in 0..(Lanes - 1) :
              VMul(Vec(P1(call), v), Vec(P2(call), v))[l] = ExactCell(call)[v * Lanes + l]
<1>1. PICK n : n = Cells(call)
  OBVIOUS
<1>2. n \in Nat /\ v \in 0..(Whole(n) - 1)
  BY <1>1, CallSizes DEF Proper
<1>3. ASSUME NEW l \in 0..(Lanes - 1)
      PROVE  /\ P1(call)[v * Lanes + l] \in Int /\ P2(call)[v * Lanes + l] \in Int
             /\ Times(P1(call)[v * Lanes + l], P2(call)[v * Lanes + l]) = ExactCell(call)[v * Lanes + l]
  <2>1. PICK x : x = v * Lanes + l
    OBVIOUS
  <2>2. x \in 0..(Cells(call) - 1)
    BY <2>1, <1>1, <1>2, VectorCell
  <2> QED BY <2>1, <2>2, CellInt
<1>4. Vec(P1(call), v) \in Floats /\ Vec(P2(call), v) \in Floats
  BY <1>3 DEF Vec, Floats
<1>5. VMul(Vec(P1(call), v), Vec(P2(call), v)) \in Floats
  <2>1. Vec(P1(call), v) \in Buffer(Lanes) /\ Vec(P2(call), v) \in Buffer(Lanes)
    BY <1>4 DEF Floats, Buffer
  <2> QED BY <2>1, <1>4, VecOps
<1>6. \A l \in 0..(Lanes - 1) :
        VMul(Vec(P1(call), v), Vec(P2(call), v))[l] = Times(P1(call)[v * Lanes + l], P2(call)[v * Lanes + l])
  BY DEF VMul, Vec
<1> QED BY <1>3, <1>4, <1>5, <1>6

LEMMA FloatsSet == ASSUME NEW r \in Floats PROVE r \in Buffer(Lanes)
BY DEF Floats, Buffer

\* The sums of the points are those of the values in the buffer sum.
LEMMA SumsSame ==
  ASSUME UNCHANGED <<call, sum>>
  PROVE  /\ \A k : Sums(k)' = Sums(k) /\ SumsTo(k)' = SumsTo(k)
         /\ \A p : Point(p)' = Point(p)
BY DEF Sums, SumsTo, PointValues, AddingPoints, Point

LEMMA TotalsSame ==
  ASSUME UNCHANGED <<call, build, sum>>
  PROVE  /\ PlaceSums' = PlaceSums
         /\ \A k : PointsAt(k)' = PointsAt(k)
<1>1. \A k : PointsAt(k)' = PointsAt(k)
  BY DEF PointsAt, Point
<1> QED BY <1>1 DEF PlaceSums, TotalAt, TotalOf

\* What a thread in the first loop has in use.
LEMMA MulUses ==
  ASSUME stage = "mul", NEW u, pc[u] \in 1..4
  PROVE  /\ Vector(u) = iter[u]
         /\ pc[u] \in {2, 3} => "a" \in InUse(u)
         /\ pc[u] = 3 => "b" \in InUse(u)
         /\ pc[u] = 4 => "c" \in InUse(u)
BY DEF Vector, InUse

LEMMA MulTyped ==
  ASSUME IInv, Proper(call), NEW t \in Team, Mul(t)
  PROVE  /\ Moved(t) /\ UNCHANGED <<build, call, stage, place, sum, finaldata, data>>
         /\ stage = "mul" /\ Body = 4 /\ pc[t] \in 1..4
         /\ iter[t] \in 0..(Whole(Cells(call)) - 1)
<1>1. stage = "mul" /\ Body = 4 /\ Looping /\ Advance(t, Body) /\ Running(t)
  BY DEF Mul, Body, Looping
<1>2. UNCHANGED <<build, call, stage, place, sum, finaldata, data>>
  BY DEF Mul
<1>3. Shaped(call) /\ TypeOK /\ Chunked /\ UNCHANGED <<call, stage>>
  BY <1>2 DEF IInv, Proper
<1>4. Moved(t)
  BY <1>1, <1>3, BodyStep, Zenon
<1>5. pc[t] \in 1..4
  BY <1>1 DEF IInv, TypeOK
<1>6. iter[t] \in 0..(Iterations - 1) /\ Iterations = Whole(Cells(call))
  BY <1>1, <1>4, IterationsOf DEF Moved
<1> QED BY <1>1, <1>2, <1>4, <1>5, <1>6

\* What Mul(t) leaves alone.
LEMMA MulRest ==
  ASSUME IInv, Proper(call), NEW t \in Team, Mul(t)
  PROVE  Turn' /\ AddWritten' /\ AccWritten' /\ AddExact' /\ AccExact' /\ OwnPoints'
<1>1. UNCHANGED <<build, call, stage, place, sum, finaldata, data>> /\ stage = "mul"
  BY MulTyped
<1>2. Turn'
  BY <1>1 DEF IInv, Turn
<1>3. AddWritten'
  BY <1>1 DEF IInv, AddWritten
<1>4. AccWritten'
  BY <1>1 DEF IInv, AccWritten
<1>5. AddExact' /\ AccExact'
  BY <1>1 DEF IInv, AddExact, AccExact
<1>6. OwnPoints'
  <2>1. \A k : Sums(k)' = Sums(k)
    BY <1>1, SumsSame
  <2> QED BY <1>1, <2>1 DEF IInv, OwnPoints
<1> QED BY <1>2, <1>3, <1>4, <1>5, <1>6

\* The three statements that set a register, and the one that stores.
LEMMA MulLoads ==
  ASSUME IInv, Proper(call), NEW t \in Team, Mul(t), pc[t] # 4
  PROVE  reg' \in [Names -> Buffer(Lanes)] /\ p3' = p3 /\ MulWritten' /\ MulExact'
<1>1. /\ Moved(t) /\ UNCHANGED <<build, call, stage, place, sum, finaldata, data>>
      /\ stage = "mul" /\ Body = 4 /\ pc[t] \in 1..4 /\ iter[t] \in 0..(Whole(Cells(call)) - 1)
  BY MulTyped
<1>2. PICK v, A, B : v = iter[t] /\ A = Vec(P1(call), v) /\ B = Vec(P2(call), v)
  OBVIOUS
<1>3. A \in Floats /\ B \in Floats /\ VMul(A, B) \in Floats
  BY <1>1, <1>2, MulVectors
<1>4. p3' = p3 /\ Done' = Done /\ iter' = iter /\ pc'[t] = pc[t] + 1 /\ Team' = Team
  BY <1>1 DEF Mul, Moved, Team
<1>5. \A u \in Team \ {t} : pc'[u] = pc[u]
  BY <1>1 DEF Moved
<1>6. build # "scalar" => /\ Stored(p3, Cells(call), Done)
                          /\ \A u \in Team : Ready(u, 1, "a") /\ Ready(u, 2, "b") /\ Ready(u, 3, "c")
  BY <1>1 DEF IInv, MulWritten
<1>7. ASSUME build # "scalar" /\ pc[t] = 3  PROVE VMul(reg["a"], reg["b"]) \in Floats
  <2>1. reg["a"] \in Floats /\ reg["b"] \in Floats
    BY <1>6, <1>7 DEF Ready
  <2> QED BY <2>1, FloatsSet, VecOps
<1>8. PICK R, r, val : R = reg' /\ r = (CASE pc[t] = 1 -> "a" [] pc[t] = 2 -> "b" [] OTHER -> "c")
                       /\ val = (CASE pc[t] = 1 -> A [] pc[t] = 2 -> B [] OTHER -> VMul(reg["a"], reg["b"]))
  OBVIOUS
<1>9. Set(r, val)
  BY <1>1, <1>2, <1>8 DEF Mul
<1>10. r \in Names /\ val \in Buffer(Lanes)
  <2>1. A \in Buffer(Lanes) /\ B \in Buffer(Lanes)
    BY <1>3, FloatsSet
  <2>2. VMul(reg["a"], reg["b"]) \in Buffer(Lanes)
    <3>1. reg["a"] \in Buffer(Lanes) /\ reg["b"] \in Buffer(Lanes)
      BY DEF IInv, TypeOK, Names
    <3> QED BY <3>1, VecOps
  <2> QED BY <2>1, <2>2, <1>8 DEF Names
<1>11. R \in [Names -> Buffer(Lanes)] /\ R[r] = val /\ \A q \in Names : q # r => R[q] = reg[q]
  BY <1>8, <1>9, <1>10, SetReg DEF IInv
<1>12. {"a", "b", "c"} \subseteq Names
  BY DEF Names
<1>13. /\ pc[t] = 1 => R["a"] = A /\ R["b"] = reg["b"] /\ R["c"] = reg["c"]
       /\ pc[t] = 2 => R["b"] = B /\ R["a"] = reg["a"] /\ R["c"] = reg["c"]
       /\ pc[t] = 3 => R["c"] = VMul(reg["a"], reg["b"]) /\ R["a"] = reg["a"] /\ R["b"] = reg["b"]
  BY <1>1, <1>8, <1>11, <1>12
<1>14. pc[t] \in 1..3
  BY <1>1
<1>15. MulWritten'
  <2>1. ASSUME build # "scalar", NEW u \in Team
        PROVE  /\ pc'[u] > 1 => R["a"] \in Floats
               /\ pc'[u] > 2 => R["b"] \in Floats
               /\ pc'[u] > 3 => R["c"] \in Floats
    <3>1. /\ pc[u] > 1 => reg["a"] \in Floats
          /\ pc[u] > 2 => reg["b"] \in Floats
          /\ pc[u] > 3 => reg["c"] \in Floats
      BY <1>6, <2>1 DEF Ready
    <3>2. CASE u = t
      BY <3>1, <3>2, <2>1, <1>3, <1>4, <1>7, <1>13, <1>14
    <3>3. CASE u # t
      BY <3>1, <3>3, <2>1, <1>3, <1>5, <1>7, <1>13, <1>14
    <3> QED BY <3>2, <3>3
  <2> QED BY <2>1, <1>1, <1>4, <1>6, <1>8 DEF MulWritten, Ready
<1>16. MulExact'
  <2>1. disturbed["mul"] \subseteq disturbed'["mul"]
    BY <1>1 DEF Moved, Disturbs
  <2>2. ASSUME build # "scalar"  PROVE Kept(p3, ExactCell(call), Cells(call), Done, disturbed'["mul"])
    BY <2>1, <2>2, <1>1 DEF IInv, MulExact, Kept
  <2>3. ASSUME build # "scalar", NEW u \in Team, iter[u] \notin disturbed'["mul"]
        PROVE  /\ pc'[u] \in {2, 3} => R["a"] = Vec(P1(call), iter[u])
               /\ pc'[u] = 3 => R["b"] = Vec(P2(call), iter[u])
               /\ pc'[u] = 4 => R["c"] = VMul(Vec(P1(call), iter[u]), Vec(P2(call), iter[u]))
    <3>1. /\ pc[u] \in {2, 3} => reg["a"] = Vec(P1(call), iter[u])
          /\ pc[u] = 3 => reg["b"] = Vec(P2(call), iter[u])
          /\ pc[u] = 4 => reg["c"] = VMul(Vec(P1(call), iter[u]), Vec(P2(call), iter[u]))
      BY <2>1, <2>3, <1>1 DEF IInv, MulExact, MulHolds
    <3>2. CASE u = t
      BY <3>1, <3>2, <1>2, <1>4, <1>13, <1>14
    <3>3. CASE u # t
      <4>1. pc[u] \in 1..4 /\ pc'[u] = pc[u]
        BY <3>3, <1>1, <1>5 DEF IInv, TypeOK
      <4>2. \A q \in InUse(u) : R[q] = reg[q]
        BY <3>3, <4>1, <2>3, <1>1, <1>8, MulUses DEF Moved, Disturbs
      <4> QED BY <3>1, <4>1, <4>2, <1>1, MulUses
    <3> QED BY <3>2, <3>3
  <2> QED BY <2>2, <2>3, <1>1, <1>4, <1>8 DEF MulExact, MulHolds
<1> QED BY <1>4, <1>8, <1>11, <1>15, <1>16

LEMMA MulStores ==
  ASSUME IInv, Proper(call), NEW t \in Team, Mul(t), pc[t] = 4
  PROVE  reg' = reg /\ p3' \in Buffer(Cells(call)) /\ MulWritten' /\ MulExact'
<1>1. /\ Moved(t) /\ UNCHANGED <<build, call, stage, place, sum, finaldata, data>>
      /\ stage = "mul" /\ Body = 4 /\ iter[t] \in 0..(Whole(Cells(call)) - 1)
  BY MulTyped
<1>2. PICK v, n : v = iter[t] /\ n = Cells(call)
  OBVIOUS
<1>3. n \in Nat /\ v \in 0..(Whole(n) - 1) /\ p3 \in Buffer(n) /\ reg["c"] \in Buffer(Lanes)
  BY <1>1, <1>2, CallSizes DEF Proper, IInv, TypeOK, Names
<1>4. reg' = reg /\ p3' = Put(p3, v, reg["c"]) /\ Team' = Team
  BY <1>1, <1>2 DEF Mul, Team
<1>5. Done' = Done \cup {v} /\ pc'[t] = 1
  BY <1>1, <1>2 DEF Moved
<1>6. \A u \in Team \ {t} : pc'[u] = pc[u] /\ iter'[u] = iter[u]
  BY <1>1 DEF Moved
<1>7. p3' \in Buffer(n)
  BY <1>3, <1>4, PutType
<1>8. MulWritten'
  <2>1. ASSUME build # "scalar"  PROVE Stored(p3', n, Done')
    <3>1. Stored(p3, n, Done) /\ reg["c"] \in Floats
      BY <2>1, <1>1, <1>2 DEF IInv, MulWritten, Ready
    <3> QED BY <3>1, <1>3, <1>4, <1>5, StoredPut
  <2>2. ASSUME build # "scalar", NEW u \in Team
        PROVE  /\ pc'[u] > 1 => reg["a"] \in Floats
               /\ pc'[u] > 2 => reg["b"] \in Floats
               /\ pc'[u] > 3 => reg["c"] \in Floats
    <3>1. /\ pc[u] > 1 => reg["a"] \in Floats
          /\ pc[u] > 2 => reg["b"] \in Floats
          /\ pc[u] > 3 => reg["c"] \in Floats
      BY <1>1, <2>2 DEF IInv, MulWritten, Ready
    <3>2. CASE u = t
      BY <3>2, <1>5
    <3>3. CASE u # t
      BY <3>1, <3>3, <1>6
    <3> QED BY <3>2, <3>3
  <2> QED BY <2>1, <2>2, <1>1, <1>2, <1>4 DEF MulWritten, Ready
<1>9. MulExact'
  <2>1. disturbed["mul"] \subseteq disturbed'["mul"]
    BY <1>1 DEF Moved, Disturbs
  <2>2. ASSUME build # "scalar"  PROVE Kept(p3', ExactCell(call), n, Done', disturbed'["mul"])
    <3>1. /\ Kept(p3, ExactCell(call), n, Done, disturbed["mul"])
          /\ v \notin disturbed["mul"] => reg["c"] = VMul(Vec(P1(call), v), Vec(P2(call), v))
      BY <2>2, <1>1, <1>2 DEF IInv, MulExact, MulHolds
    <3>2. v \notin disturbed'["mul"] =>
            \A l \in 0..(Lanes - 1) : reg["c"][l] = ExactCell(call)[v * Lanes + l]
      BY <3>1, <2>1, <1>2, <1>3, MulVectors
    <3> QED BY <3>1, <3>2, <2>1, <1>3, <1>4, <1>5, KeptPut
  <2>3. ASSUME build # "scalar", NEW u \in Team, iter'[u] \notin disturbed'["mul"]
        PROVE  /\ pc'[u] \in {2, 3} => reg["a"] = Vec(P1(call), iter'[u])
               /\ pc'[u] = 3 => reg["b"] = Vec(P2(call), iter'[u])
               /\ pc'[u] = 4 => reg["c"] = VMul(Vec(P1(call), iter'[u]), Vec(P2(call), iter'[u]))
    <3>1. CASE u = t
      BY <3>1, <1>5
    <3>2. CASE u # t
      BY <3>2, <2>1, <2>3, <1>1, <1>6 DEF IInv, MulExact, MulHolds
    <3> QED BY <3>1, <3>2
  <2> QED BY <2>2, <2>3, <1>1, <1>2, <1>4 DEF MulExact, MulHolds
<1> QED BY <1>2, <1>4, <1>7, <1>8, <1>9

LEMMA MulStep ==
  ASSUME IInv, Proper(call), NEW t \in Team, Mul(t)
  PROVE  IInv'
<1>1. /\ Moved(t) /\ UNCHANGED <<build, call, stage, place, sum, finaldata, data>>
      /\ stage = "mul" /\ Body = 4
  BY MulTyped
<1>2. reg' \in [Names -> Buffer(Lanes)] /\ p3' \in Buffer(Cells(call)) /\ MulWritten' /\ MulExact'
  <2>1. CASE pc[t] # 4
    BY <2>1, MulLoads DEF IInv, TypeOK
  <2>2. CASE pc[t] = 4
    BY <2>2, MulStores DEF IInv, TypeOK
  <2> QED BY <2>1, <2>2
<1>3. TypeOK'
  <2>1. TypeOK
    BY DEF IInv
  <2>2. Body' = Body /\ Team' = Team
    BY <1>1 DEF Body, Team
  <2>3. /\ iter' \in [Team -> Nat] /\ pc' \in [Team -> 1..Body]
        /\ disturbed' \in [Loops -> SUBSET Nat]
    BY <1>1 DEF Moved, Disturbs
  <2> QED BY <2>1, <2>2, <2>3, <1>1, <1>2 DEF TypeOK
<1>4. Chunked'
  BY <1>1 DEF Moved
<1> QED BY <1>2, <1>3, <1>4, MulRest DEF IInv

LEMMA EndMulStep == ASSUME IInv, Proper(call), EndMul PROVE IInv'
<1>1. /\ stage = "mul" /\ LoopOver /\ stage' = "add" /\ iter' = Starting(Whole(Pixels(call)))
      /\ UNCHANGED <<build, call, place, pc, reg, sum, finaldata, data, disturbed>>
  BY DEF EndMul
<1>2. PICK n, N, x, v : /\ n = Cells(call) /\ N = Pixels(call) /\ x = TailAt(n)
                        /\ v = Times(P1(call)[x], P2(call)[x])
  OBVIOUS
<1>3. p3' = WithTail(p3, n, v)
  BY <1>2 DEF EndMul
<1>4. Shaped(call) /\ n \in Nat /\ N \in Nat /\ Whole(N) \in Nat /\ p3 \in Buffer(n)
  BY <1>2, CallSizes, LoopSizes DEF Proper, IInv, TypeOK
<1>5. Done = 0..(Whole(n) - 1) /\ \A t \in Team : pc[t] = 1
  BY <1>1, <1>2, <1>4, LoopEnds, IterationsOf DEF IInv, Looping
<1>6. TailAt(n) # n => v = ExactCell(call)[x] /\ v \in Int
  <2>1. TailAt(n) # n => x \in 0..(n - 1)
    BY <1>2, <1>4, TailInside
  <2> QED BY <2>1, <1>2, CellInt
<1>7. p3' \in Buffer(n)
  BY <1>3, <1>4, <1>6, TailWrites
<1>8. Iterations' = Whole(N)
  BY <1>1, <1>2 DEF Iterations
<1>9. InChunks(call.team, iter', Whole(N)) /\ DoneBy(call.team, iter', Whole(N)) = {}
  <2>1. iter' = [t \in 0..(call.team - 1) |-> ChunkStart(call.team, t, Whole(N))]
    BY <1>1, <1>2, StartingIs
  <2>2. PICK c, it : c = call /\ it = iter'
    OBVIOUS
  <2>3. InChunks(c.team, it, Whole(N)) /\ DoneBy(c.team, it, Whole(N)) = {}
    BY <2>1, <2>2, <1>4, LoopStarts
  <2> QED BY <2>2, <2>3
<1>10. Done' = {} /\ Team' = Team
  BY <1>1, <1>8, <1>9 DEF Done, Team
<1>11. TypeOK'
  <2>1. TypeOK
    BY DEF IInv
  <2>2. iter' \in [Team -> Nat]
    BY <1>9 DEF InChunks, Team
  <2>3. pc' \in [Team -> 1..Body']
    <3>1. Body' = 6 /\ pc \in [Team -> 1..Body]
      BY <2>1, <1>1 DEF Body, TypeOK
    <3>2. \A t \in Team : pc[t] \in 1..6
      BY <1>5
    <3> QED BY <3>1, <3>2, <1>1
  <2> QED BY <2>1, <2>2, <2>3, <1>1, <1>2, <1>7, <1>10 DEF TypeOK
<1>12. Chunked'
  BY <1>1, <1>5, <1>8, <1>9, <1>10 DEF Chunked
<1>13. Turn'
  BY <1>1 DEF IInv, Turn
<1>14. MulWritten'
  <2>1. ASSUME build # "scalar"  PROVE TailsUnset(p3', n)
    <3>1. Stored(p3, n, 0..(Whole(n) - 1))
      BY <2>1, <1>1, <1>2, <1>5 DEF IInv, MulWritten
    <3> QED BY <3>1, <1>3, <1>4, <1>6, TailStored
  <2> QED BY <2>1, <1>1, <1>2 DEF MulWritten
<1>15. AddWritten'
  <2>1. \A t \in Team, s \in 1..5 : ~(pc[t] > s)
    BY <1>5
  <2>2. 1 \in 1..5 /\ 2 \in 1..5 /\ 3 \in 1..5 /\ 4 \in 1..5 /\ 5 \in 1..5
    OBVIOUS
  <2>3. build # "scalar" /\ Left(Cells(call)) = {} => Stored(sum, N, {})
    BY <1>1, <1>2 DEF IInv, AddWritten
  <2> QED BY <2>1, <2>2, <2>3, <1>1, <1>2, <1>10 DEF AddWritten, Ready
<1>16. AccWritten'
  BY <1>1 DEF IInv, AccWritten
<1>17. MulExact' /\ AddExact' /\ AccExact'
  <2>1. ASSUME build # "scalar"  PROVE Tailed(p3', ExactCell(call), n, disturbed["mul"])
    <3>1. Kept(p3, ExactCell(call), n, 0..(Whole(n) - 1), disturbed["mul"])
      BY <2>1, <1>1, <1>2, <1>5 DEF IInv, MulExact
    <3>2. TailAt(n) # n => v = ExactCell(call)[TailAt(n)]
      BY <1>2, <1>6
    <3> QED BY <3>1, <3>2, <1>3, <1>4, KeptTail
  <2>2. MulExact'
    BY <2>1, <1>1, <1>2 DEF MulExact
  <2>3. ASSUME build # "scalar"  PROVE Kept(sum, Added', N, {}, disturbed["add"])
    <3>1. Stored(sum, N, {})
      BY <2>3, <1>1, <1>2 DEF IInv, AddExact
    <3> QED BY <3>1, <1>4, NothingKept
  <2>4. AddExact'
    <3>1. \A t \in Team : pc[t] \notin 2..4 /\ pc[t] \notin 3..4 /\ pc[t] \notin 4..5 /\ pc[t] # 5 /\ pc[t] # 6
      BY <1>5
    <3> QED BY <3>1, <2>3, <1>1, <1>2, <1>10 DEF AddExact, AddHolds
  <2>5. AccExact'
    BY <1>1 DEF IInv, AccExact
  <2> QED BY <2>2, <2>4, <2>5
<1>18. OwnPoints'
  <2>1. \A k : Sums(k)' = Sums(k)
    BY <1>1, SumsSame
  <2> QED BY <1>1, <2>1 DEF IInv, OwnPoints
<1> QED BY <1>11, <1>12, <1>13, <1>14, <1>15, <1>16, <1>17, <1>18 DEF IInv
-----------------------------------------------------------------------------
(***************************************************************************)
(* The second loop.                                                        *)
(***************************************************************************)
LEMMA ChannelsSame == ASSUME UNCHANGED <<call, p3>> PROVE Added' = Added /\ \A h : Channel(h)' = Channel(h)
BY DEF Channel, Added

LEMMA ChannelVectors ==
  ASSUME IInv, Proper(call), NEW v \in 0..(Whole(Pixels(call)) - 1), NEW h \in 0..2
  PROVE  /\ Vec(Channel(h), v) \in Buffer(Lanes)
         /\ TailsUnset(p3, Cells(call)) /\ Left(Cells(call)) = {} => Vec(Channel(h), v) \in Floats
         /\ \A l \in 0..(Lanes - 1) : /\ v * Lanes + l \in 0..(Pixels(call) - 1)
                                      /\ Vec(Channel(h), v)[l] = p3[3 * (v * Lanes + l) + h]
<1>1. PICK n, N : n = Cells(call) /\ N = Pixels(call)
  OBVIOUS
<1>2. n \in Nat /\ N \in Nat /\ p3 \in Buffer(n)
  BY <1>1, CallSizes DEF Proper, IInv, TypeOK
<1>3. \A x \in 0..(N - 1) : 3 * x + h \in 0..(n - 1)
  BY <1>1, PixelCells
<1>4. \A x \in 0..(N - 1) : Channel(h)[x] = p3[3 * x + h]
  BY <1>1 DEF Channel, Channels
<1>5. Channel(h) \in Buffer(N)
  <2>1. \A x \in 0..(N - 1) : p3[3 * x + h] \in Int \cup {Garbage}
    BY <1>2, <1>3 DEF Buffer
  <2> QED BY <2>1, <1>1, <1>4 DEF Channel, Buffer
<1>6. ASSUME TailsUnset(p3, n), Left(n) = {}  PROVE Vec(Channel(h), v) \in Floats
  <2>1. \A q \in 0..(n - 1) : p3[q] # Garbage
    BY <1>2, <1>6, NoTail
  <2>2. \A x \in 0..(N - 1) : Channel(h)[x] # Garbage
    BY <2>1, <1>3, <1>4
  <2> QED BY <2>2, <1>1, <1>2, <1>5, VecType
<1>7. \A l \in 0..(Lanes - 1) : v * Lanes + l \in 0..(N - 1)
  BY <1>1, <1>2, VectorCell
<1>8. \A l \in 0..(Lanes - 1) : Vec(Channel(h), v)[l] = p3[3 * (v * Lanes + l) + h]
  BY <1>4, <1>7 DEF Vec
<1> QED BY <1>1, <1>2, <1>5, <1>6, <1>7, <1>8, VecType

\* The pixel added up from the three cells, and its vector.
LEMMA AddedValue ==
  ASSUME NEW x \in 0..(Pixels(call) - 1)
  PROVE  Added[x] = Plus(Plus(p3[3 * x + 0], p3[3 * x + 1]), p3[3 * x + 2])
<1>1. /\ Channel(0)[x] = p3[3 * x + 0] /\ Channel(1)[x] = p3[3 * x + 1]
      /\ Channel(2)[x] = p3[3 * x + 2]
  BY DEF Channel, Channels
<1> QED BY <1>1 DEF Added

LEMMA AddedVector ==
  ASSUME IInv, Proper(call), NEW v \in 0..(Whole(Pixels(call)) - 1)
  PROVE  \A l \in 0..(Lanes - 1) : AddTerms(v).n[l] = Added[v * Lanes + l]
<1> SUFFICES ASSUME NEW l \in 0..(Lanes - 1)
             PROVE AddTerms(v).n[l] = Added[v * Lanes + l]
  OBVIOUS
<1>1. PICK x : x = v * Lanes + l
  OBVIOUS
<1>2. /\ x \in 0..(Pixels(call) - 1)
      /\ Vec(Channel(0), v)[l] = p3[3 * x + 0]
      /\ Vec(Channel(1), v)[l] = p3[3 * x + 1]
      /\ Vec(Channel(2), v)[l] = p3[3 * x + 2]
  BY <1>1, ChannelVectors
<1>3. AddTerms(v).n[l] = Plus(Plus(Vec(Channel(0), v)[l], Vec(Channel(1), v)[l]), Vec(Channel(2), v)[l])
  BY DEF AddTerms, VAdd
<1> QED BY <1>1, <1>2, <1>3, AddedValue

\* What a thread in the second loop has in use.
LEMMA AddUses ==
  ASSUME stage = "add", NEW u, pc[u] \in 1..6
  PROVE  /\ Vector(u) = iter[u]
         /\ pc[u] \in 2..4 => "aa" \in InUse(u)
         /\ pc[u] \in 3..4 => "bb" \in InUse(u)
         /\ pc[u] \in 4..5 => "cc" \in InUse(u)
         /\ pc[u] = 5 => "m" \in InUse(u)
         /\ pc[u] = 6 => "n" \in InUse(u)
BY DEF Vector, InUse

LEMMA AddTyped ==
  ASSUME IInv, Proper(call), NEW t \in Team, Add(t)
  PROVE  /\ Moved(t) /\ UNCHANGED <<build, call, stage, place, p3, finaldata, data>>
         /\ stage = "add" /\ Body = 6 /\ pc[t] \in 1..6
         /\ iter[t] \in 0..(Whole(Pixels(call)) - 1)
<1>1. stage = "add" /\ Body = 6 /\ Looping /\ Advance(t, Body) /\ Running(t)
  BY DEF Add, Body, Looping
<1>2. UNCHANGED <<build, call, stage, place, p3, finaldata, data>>
  BY DEF Add
<1>3. Shaped(call) /\ TypeOK /\ Chunked /\ UNCHANGED <<call, stage>>
  BY <1>2 DEF IInv, Proper
<1>4. Moved(t)
  BY <1>1, <1>3, BodyStep, Zenon
<1>5. pc[t] \in 1..6
  BY <1>1 DEF IInv, TypeOK
<1>6. iter[t] \in 0..(Iterations - 1) /\ Iterations = Whole(Pixels(call))
  BY <1>1, <1>4, IterationsOf DEF Moved
<1> QED BY <1>1, <1>2, <1>4, <1>5, <1>6

LEMMA AddRest ==
  ASSUME IInv, Proper(call), NEW t \in Team, Add(t)
  PROVE  Turn' /\ MulWritten' /\ AccWritten' /\ MulExact' /\ AccExact' /\ OwnPoints'
<1>1. /\ UNCHANGED <<build, call, stage, place, p3, finaldata, data>> /\ stage = "add"
      /\ disturbed'["mul"] = disturbed["mul"]
  BY AddTyped DEF Moved, Disturbs, Loops
<1>2. Turn'
  BY <1>1 DEF IInv, Turn
<1>3. MulWritten'
  BY <1>1 DEF IInv, MulWritten
<1>4. AccWritten'
  BY <1>1 DEF IInv, AccWritten
<1>5. MulExact' /\ AccExact'
  BY <1>1 DEF IInv, MulExact, AccExact
<1>6. OwnPoints'
  <2>1. place' = 0
    BY <1>1 DEF IInv, Turn
  <2>2. 0..(place' * Lanes - 1) = {}
    <3>1. 0 * Lanes = 0 /\ 0..(0 - 1) = {}
      BY LanesType
    <3> QED BY <2>1, <3>1
  <2> QED BY <1>1, <2>2 DEF OwnPoints
<1> QED BY <1>2, <1>3, <1>4, <1>5, <1>6

\* The five statements that set a register, and the one that stores.
AddReady(u) ==
  Ready(u, 1, "aa") /\ Ready(u, 2, "bb") /\ Ready(u, 3, "cc") /\ Ready(u, 4, "m") /\ Ready(u, 5, "n")

LEMMA AddState ==
  ASSUME IInv, stage = "add"
  PROVE  /\ build # "scalar" /\ Left(Cells(call)) = {} =>
              /\ TailsUnset(p3, Cells(call)) /\ Stored(sum, Pixels(call), Done)
              /\ \A u \in Team : AddReady(u)
         /\ build # "scalar" =>
              /\ Kept(sum, Added, Pixels(call), Done, disturbed["add"])
              /\ \A u \in Team : iter[u] \notin disturbed["add"] => AddHolds(u, AddTerms(iter[u]))
BY DEF IInv, MulWritten, AddWritten, AddExact, AddReady

LEMMA AddStateNext ==
  ASSUME UNCHANGED <<build, call, stage, p3>>, stage = "add",
         build # "scalar" /\ Left(Cells(call)) = {} =>
           Stored(sum', Pixels(call), Done') /\ \A u \in Team : AddReady(u)',
         build # "scalar" =>
           /\ Kept(sum', Added, Pixels(call), Done', disturbed'["add"])
           /\ \A u \in Team : iter'[u] \notin disturbed'["add"] => AddHolds(u, AddTerms(iter[u]))'
  PROVE  AddWritten' /\ AddExact'
<1>1. Team' = Team /\ Added' = Added
  BY ChannelsSame DEF Team
<1>2. AddWritten'
  BY <1>1 DEF AddWritten, AddReady
<1>3. AddExact'
  BY <1>1 DEF AddExact
<1> QED BY <1>2, <1>3

\* A thread whose vector is not disturbed keeps what it holds.
LEMMA AddKeeps ==
  ASSUME IInv, NEW t \in Team, Moved(t), stage = "add", UNCHANGED <<call, p3>>,
         NEW u \in Team \ {t}, iter[u] \notin disturbed'["add"], AddHolds(u, AddTerms(iter[u]))
  PROVE  AddHolds(u, AddTerms(iter[u]))'
<1>1. pc[u] \in 1..6 /\ pc'[u] = pc[u] /\ iter'[u] = iter[u]
  BY DEF IInv, TypeOK, Body, Moved
<1>2. \A r \in InUse(u) : reg'[r] = reg[r]
  BY <1>1, AddUses DEF Moved, Disturbs
<1>3. /\ pc[u] \in 2..4 => reg'["aa"] = reg["aa"]
      /\ pc[u] \in 3..4 => reg'["bb"] = reg["bb"]
      /\ pc[u] \in 4..5 => reg'["cc"] = reg["cc"]
      /\ pc[u] = 5 => reg'["m"] = reg["m"]
      /\ pc[u] = 6 => reg'["n"] = reg["n"]
  BY <1>1, <1>2, AddUses
<1>4. AddTerms(iter[u])' = AddTerms(iter[u])
  BY <1>1, ChannelsSame DEF AddTerms
<1> QED BY <1>1, <1>3, <1>4 DEF AddHolds

LEMMA AddLoads ==
  ASSUME IInv, Proper(call), NEW t \in Team, Add(t), pc[t] # 6
  PROVE  reg' \in [Names -> Buffer(Lanes)] /\ sum' = sum /\ AddWritten' /\ AddExact'
<1>1. /\ Moved(t) /\ UNCHANGED <<build, call, stage, place, p3, finaldata, data>>
      /\ stage = "add" /\ Body = 6 /\ pc[t] \in 1..6 /\ iter[t] \in 0..(Whole(Pixels(call)) - 1)
  BY AddTyped
<1>2. PICK v, T : v = iter[t] /\ T = AddTerms(v)
  OBVIOUS
<1>3. /\ sum' = sum /\ Done' = Done /\ iter' = iter /\ pc'[t] = pc[t] + 1 /\ Team' = Team
      /\ \A u : AddTerms(u)' = AddTerms(u)
  BY <1>1, ChannelsSame DEF Add, Moved, Team, AddTerms
<1>4. (\A u \in Team \ {t} : pc'[u] = pc[u]) /\ disturbed["add"] \subseteq disturbed'["add"]
  BY <1>1 DEF Moved, Disturbs
<1>5. /\ T.aa \in Buffer(Lanes) /\ T.bb \in Buffer(Lanes) /\ T.cc \in Buffer(Lanes)
      /\ T.m = VAdd(T.aa, T.bb) /\ T.n = VAdd(T.m, T.cc)
      /\ TailsUnset(p3, Cells(call)) /\ Left(Cells(call)) = {} =>
           T.aa \in Floats /\ T.bb \in Floats /\ T.cc \in Floats
  BY <1>1, <1>2, ChannelVectors DEF AddTerms
<1>6. PICK R, r, val :
        /\ R = reg'
        /\ r = (CASE pc[t] = 1 -> "aa" [] pc[t] = 2 -> "bb" [] pc[t] = 3 -> "cc" [] pc[t] = 4 -> "m" [] OTHER -> "n")
        /\ val = (CASE pc[t] = 1 -> T.aa [] pc[t] = 2 -> T.bb [] pc[t] = 3 -> T.cc
                    [] pc[t] = 4 -> VAdd(reg["aa"], reg["bb"]) [] OTHER -> VAdd(reg["m"], reg["cc"]))
  OBVIOUS
<1>7. pc[t] \in 1..5
  BY <1>1
<1>8. Set(r, val)
  <2>1. T.aa = Vec(Channel(0), v) /\ T.bb = Vec(Channel(1), v) /\ T.cc = Vec(Channel(2), v)
    BY <1>2 DEF AddTerms
  <2> QED BY <2>1, <1>2, <1>6, <1>7 DEF Add
<1>9. /\ reg["aa"] \in Buffer(Lanes) /\ reg["bb"] \in Buffer(Lanes) /\ reg["cc"] \in Buffer(Lanes)
      /\ reg["m"] \in Buffer(Lanes) /\ reg["n"] \in Buffer(Lanes)
  BY DEF IInv, TypeOK, Names
<1>10. VAdd(reg["aa"], reg["bb"]) \in Buffer(Lanes) /\ VAdd(reg["m"], reg["cc"]) \in Buffer(Lanes)
  BY <1>9, VecOps
<1>11. r \in Names /\ val \in Buffer(Lanes)
  BY <1>5, <1>6, <1>7, <1>10 DEF Names
<1>12. R \in [Names -> Buffer(Lanes)] /\ R[r] = val /\ \A q \in Names : q # r => R[q] = reg[q]
  BY <1>6, <1>8, <1>11, SetReg DEF IInv
<1>13. {"aa", "bb", "cc", "m", "n"} \subseteq Names
  BY DEF Names
<1>14. /\ pc[t] = 1 => R["aa"] = T.aa
       /\ pc[t] # 1 => R["aa"] = reg["aa"]
       /\ pc[t] = 2 => R["bb"] = T.bb
       /\ pc[t] # 2 => R["bb"] = reg["bb"]
       /\ pc[t] = 3 => R["cc"] = T.cc
       /\ pc[t] # 3 => R["cc"] = reg["cc"]
       /\ pc[t] = 4 => R["m"] = VAdd(reg["aa"], reg["bb"])
       /\ pc[t] # 4 => R["m"] = reg["m"]
       /\ pc[t] = 5 => R["n"] = VAdd(reg["m"], reg["cc"])
       /\ pc[t] # 5 => R["n"] = reg["n"]
  BY <1>6, <1>7, <1>12, <1>13
<1>15. ASSUME build # "scalar", Left(Cells(call)) = {}  PROVE \A u \in Team : AddReady(u)'
  <2>1. \A u \in Team : /\ pc[u] > 1 => reg["aa"] \in Floats
                        /\ pc[u] > 2 => reg["bb"] \in Floats
                        /\ pc[u] > 3 => reg["cc"] \in Floats
                        /\ pc[u] > 4 => reg["m"] \in Floats
                        /\ pc[u] > 5 => reg["n"] \in Floats
    BY <1>1, <1>15, AddState DEF AddReady, Ready
  <2>2. T.aa \in Floats /\ T.bb \in Floats /\ T.cc \in Floats
    BY <1>1, <1>5, <1>15, AddState
  <2>3. pc[t] = 4 => VAdd(reg["aa"], reg["bb"]) \in Floats
    BY <2>1, <1>9, VecOps
  <2>4. pc[t] = 5 => VAdd(reg["m"], reg["cc"]) \in Floats
    BY <2>1, <1>9, VecOps
  <2>5. ASSUME NEW u \in Team
        PROVE  /\ pc'[u] > 1 => R["aa"] \in Floats
               /\ pc'[u] > 2 => R["bb"] \in Floats
               /\ pc'[u] > 3 => R["cc"] \in Floats
               /\ pc'[u] > 4 => R["m"] \in Floats
               /\ pc'[u] > 5 => R["n"] \in Floats
    <3>1. CASE u = t
      BY <3>1, <2>1, <2>2, <2>3, <2>4, <1>3, <1>7, <1>14
    <3>2. CASE u # t
      BY <3>2, <2>1, <2>2, <2>3, <2>4, <1>4, <1>7, <1>14
    <3> QED BY <3>1, <3>2
  <2> QED BY <2>5, <1>6 DEF AddReady, Ready
<1>16. ASSUME build # "scalar", NEW u \in Team, iter'[u] \notin disturbed'["add"]
       PROVE  AddHolds(u, AddTerms(iter[u]))'
  <2>1. AddHolds(u, AddTerms(iter[u])) /\ iter'[u] = iter[u]
    BY <1>1, <1>3, <1>4, <1>16, AddState
  <2>2. CASE u = t
    <3>1. /\ pc[t] \in 2..4 => reg["aa"] = T.aa
          /\ pc[t] \in 3..4 => reg["bb"] = T.bb
          /\ pc[t] \in 4..5 => reg["cc"] = T.cc
          /\ pc[t] = 5 => reg["m"] = T.m
      BY <2>1, <2>2, <1>2 DEF AddHolds
    <3>2. /\ pc'[t] \in 2..4 => R["aa"] = T.aa
          /\ pc'[t] \in 3..4 => R["bb"] = T.bb
          /\ pc'[t] \in 4..5 => R["cc"] = T.cc
          /\ pc'[t] = 5 => R["m"] = T.m
          /\ pc'[t] = 6 => R["n"] = T.n
      BY <3>1, <1>3, <1>5, <1>7, <1>14
    <3>3. AddTerms(iter[t])' = T
      BY <1>2, <1>3, ChannelsSame, <1>1 DEF AddTerms
    <3> QED BY <3>2, <3>3, <2>2, <1>6 DEF AddHolds
  <2>3. CASE u # t
    BY <2>1, <2>3, <1>1, <1>16, AddKeeps
  <2> QED BY <2>2, <2>3
<1>17. build # "scalar" /\ Left(Cells(call)) = {} => Stored(sum', Pixels(call), Done')
  BY <1>1, <1>3, AddState
<1>18. ASSUME build # "scalar"  PROVE Kept(sum', Added, Pixels(call), Done', disturbed'["add"])
  <2>1. Kept(sum, Added, Pixels(call), Done, disturbed["add"])
    BY <1>1, <1>18, AddState
  <2> QED BY <2>1, <1>3, <1>4 DEF Kept
<1>19. AddWritten' /\ AddExact'
  BY <1>1, <1>15, <1>16, <1>17, <1>18, AddStateNext, Zenon
<1> QED BY <1>3, <1>6, <1>12, <1>19

LEMMA AddStores ==
  ASSUME IInv, Proper(call), NEW t \in Team, Add(t), pc[t] = 6
  PROVE  reg' = reg /\ sum' \in Buffer(Pixels(call)) /\ AddWritten' /\ AddExact'
<1>1. /\ Moved(t) /\ UNCHANGED <<build, call, stage, place, p3, finaldata, data>>
      /\ stage = "add" /\ Body = 6 /\ iter[t] \in 0..(Whole(Pixels(call)) - 1)
  BY AddTyped
<1>2. PICK v, n : v = iter[t] /\ n = Pixels(call)
  OBVIOUS
<1>3. n \in Nat /\ v \in 0..(Whole(n) - 1) /\ sum \in Buffer(n) /\ reg["n"] \in Buffer(Lanes)
  BY <1>1, <1>2, CallSizes DEF Proper, IInv, TypeOK, Names
<1>4. reg' = reg /\ sum' = Put(sum, v, reg["n"]) /\ Team' = Team
  BY <1>1, <1>2 DEF Add, Team
<1>5. Done' = Done \cup {v} /\ pc'[t] = 1
  BY <1>1, <1>2 DEF Moved
<1>6. /\ \A u \in Team \ {t} : pc'[u] = pc[u] /\ iter'[u] = iter[u]
      /\ disturbed["add"] \subseteq disturbed'["add"]
  BY <1>1 DEF Moved, Disturbs
<1>7. sum' \in Buffer(n)
  BY <1>3, <1>4, PutType
<1>8. ASSUME build # "scalar", Left(Cells(call)) = {}
      PROVE  Stored(sum', n, Done') /\ \A u \in Team : AddReady(u)'
  <2>1. Stored(sum, n, Done) /\ \A u \in Team : AddReady(u)
    BY <1>1, <1>2, <1>8, AddState
  <2>2. reg["n"] \in Floats
    BY <2>1, <1>1 DEF AddReady, Ready
  <2>3. Stored(sum', n, Done')
    BY <2>1, <2>2, <1>3, <1>4, <1>5, StoredPut
  <2>4. ASSUME NEW u \in Team  PROVE AddReady(u)'
    <3>1. CASE u = t
      BY <3>1, <1>5 DEF AddReady, Ready
    <3>2. CASE u # t
      BY <3>2, <2>1, <1>4, <1>6 DEF AddReady, Ready
    <3> QED BY <3>1, <3>2
  <2> QED BY <2>3, <2>4
<1>9. ASSUME build # "scalar"
      PROVE  /\ Kept(sum', Added, n, Done', disturbed'["add"])
             /\ \A u \in Team : iter'[u] \notin disturbed'["add"] => AddHolds(u, AddTerms(iter[u]))'
  <2>1. /\ Kept(sum, Added, n, Done, disturbed["add"])
        /\ \A u \in Team : iter[u] \notin disturbed["add"] => AddHolds(u, AddTerms(iter[u]))
    BY <1>1, <1>2, <1>9, AddState
  <2>2. v \notin disturbed'["add"] => \A l \in 0..(Lanes - 1) : reg["n"][l] = Added[v * Lanes + l]
    <3>1. v \notin disturbed'["add"] => reg["n"] = AddTerms(v).n
      BY <2>1, <1>1, <1>2, <1>6 DEF AddHolds
    <3> QED BY <3>1, <1>2, <1>3, AddedVector
  <2>3. Kept(sum', Added, n, Done', disturbed'["add"])
    BY <2>1, <2>2, <1>3, <1>4, <1>5, <1>6, KeptPut
  <2>4. ASSUME NEW u \in Team, iter'[u] \notin disturbed'["add"]  PROVE AddHolds(u, AddTerms(iter[u]))'
    <3>1. CASE u = t
      BY <3>1, <1>5 DEF AddHolds
    <3>2. CASE u # t
      BY <3>2, <2>1, <2>4, <1>1, <1>6, AddKeeps
    <3> QED BY <3>1, <3>2
  <2> QED BY <2>3, <2>4
<1>10. AddWritten' /\ AddExact'
  BY <1>1, <1>2, <1>8, <1>9, AddStateNext, Zenon
<1> QED BY <1>2, <1>4, <1>7, <1>10

LEMMA AddStep ==
  ASSUME IInv, Proper(call), NEW t \in Team, Add(t)
  PROVE  IInv'
<1>1. /\ Moved(t) /\ UNCHANGED <<build, call, stage, place, p3, finaldata, data>>
      /\ stage = "add" /\ Body = 6
  BY AddTyped
<1>2. reg' \in [Names -> Buffer(Lanes)] /\ sum' \in Buffer(Pixels(call)) /\ AddWritten' /\ AddExact'
  <2>1. CASE pc[t] # 6
    BY <2>1, AddLoads DEF IInv, TypeOK
  <2>2. CASE pc[t] = 6
    BY <2>2, AddStores DEF IInv, TypeOK
  <2> QED BY <2>1, <2>2
<1>3. TypeOK'
  <2>1. TypeOK
    BY DEF IInv
  <2>2. Body' = Body /\ Team' = Team
    BY <1>1 DEF Body, Team
  <2>3. /\ iter' \in [Team -> Nat] /\ pc' \in [Team -> 1..Body]
        /\ disturbed' \in [Loops -> SUBSET Nat]
    BY <1>1 DEF Moved, Disturbs
  <2> QED BY <2>1, <2>2, <2>3, <1>1, <1>2 DEF TypeOK
<1>4. Chunked'
  BY <1>1 DEF Moved
<1> QED BY <1>2, <1>3, <1>4, AddRest DEF IInv

LEMMA EndAddStep == ASSUME IInv, Proper(call), EndAdd PROVE IInv'
<1>1. /\ stage = "add" /\ LoopOver /\ stage' = "place"
      /\ UNCHANGED <<build, call, place, iter, pc, reg, p3, finaldata, data, disturbed>>
  BY DEF EndAdd
<1>2. PICK n, x, v : /\ n = Pixels(call) /\ x = TailAt(n)
                     /\ v = Plus(Plus(Channel(0)[x], Channel(1)[x]), Channel(2)[x])
  OBVIOUS
<1>3. sum' = WithTail(sum, n, v)
  BY <1>2 DEF EndAdd
<1>4. Shaped(call) /\ n \in Nat /\ sum \in Buffer(n) /\ p3 \in Buffer(Cells(call)) /\ Cells(call) \in Nat
  BY <1>2, CallSizes DEF Proper, IInv, TypeOK
<1>5. Done = 0..(Whole(n) - 1) /\ \A t \in Team : pc[t] = 1
  BY <1>1, <1>2, <1>4, LoopEnds, IterationsOf DEF IInv, Looping
<1>6. ASSUME TailAt(n) # n
      PROVE  /\ v \in Int \cup {Garbage}
             /\ v = Added[x]
             /\ TailsUnset(p3, Cells(call)) /\ Left(Cells(call)) = {} => v \in Int
  <2>1. x \in 0..(n - 1) /\ x \in Nat
    BY <1>2, <1>4, <1>6, TailInside
  <2>2. \A h \in 0..2 : 3 * x + h \in 0..(Cells(call) - 1)
    BY <2>1, <1>2, PixelCells
  <2>3. PICK a, b, d : a = p3[3 * x] /\ b = p3[3 * x + 1] /\ d = p3[3 * x + 2]
    OBVIOUS
  <2>4. v = Plus(Plus(a, b), d)
    <3>1. /\ Channel(0)[x] = p3[3 * x + 0] /\ Channel(1)[x] = p3[3 * x + 1]
          /\ Channel(2)[x] = p3[3 * x + 2]
      BY <2>1, <1>2 DEF Channel, Channels
    <3>2. 3 * x + 0 = 3 * x
      BY <2>1
    <3> QED BY <3>1, <3>2, <2>3, <1>2
  <2>5. 3 * x \in 0..(Cells(call) - 1) /\ 3 * x + 1 \in 0..(Cells(call) - 1) /\ 3 * x + 2 \in 0..(Cells(call) - 1)
    <3>1. 3 * x + 0 = 3 * x
      BY <2>1
    <3> QED BY <3>1, <2>2
  <2>6. a \in Int \cup {Garbage} /\ b \in Int \cup {Garbage} /\ d \in Int \cup {Garbage}
    BY <2>3, <2>5, <1>4 DEF Buffer
  <2>7. v \in Int \cup {Garbage}
    BY <2>4, <2>6 DEF Plus
  <2>8. v = Added[x]
    BY <2>1, <1>2 DEF Added
  <2>9. ASSUME TailsUnset(p3, Cells(call)), Left(Cells(call)) = {}  PROVE v \in Int
    <3>1. a # Garbage /\ b # Garbage /\ d # Garbage
      BY <2>3, <2>5, <2>9, <1>4, NoTail
    <3> QED BY <3>1, <2>4, <2>6, LanesType DEF Plus
  <2> QED BY <2>7, <2>8, <2>9
<1>7. sum' \in Buffer(n)
  BY <1>3, <1>4, <1>6, TailWrites
<1>8. TypeOK'
  <2>1. TypeOK
    BY DEF IInv
  <2>2. pc' \in [Team -> 1..Body']
    <3>1. Body' = 1 /\ pc \in [Team -> 1..Body]
      BY <2>1, <1>1 DEF Body, TypeOK
    <3>2. \A t \in Team : pc[t] \in 1..1
      BY <1>5
    <3> QED BY <3>1, <3>2, <1>1
  <2>3. Team' = Team
    BY <1>1 DEF Team
  <2> QED BY <2>1, <2>2, <2>3, <1>1, <1>2, <1>7 DEF TypeOK
<1>9. Chunked' /\ Turn'
  BY <1>1 DEF Chunked, Looping, IInv, Turn
<1>10. MulWritten'
  BY <1>1 DEF IInv, MulWritten
<1>11. AddWritten'
  <2>1. ASSUME build # "scalar", Left(Cells(call)) = {}  PROVE TailsUnset(sum', n)
    <3>1. Stored(sum, n, 0..(Whole(n) - 1)) /\ TailsUnset(p3, Cells(call))
      BY <2>1, <1>1, <1>2, <1>5, AddState
    <3> QED BY <3>1, <2>1, <1>3, <1>4, <1>6, TailStored
  <2> QED BY <2>1, <1>1, <1>2 DEF AddWritten
<1>12. AccWritten'
  BY <1>1 DEF IInv, AccWritten
<1>13. MulExact' /\ AccExact'
  <2>1. MulExact'
    BY <1>1 DEF IInv, MulExact
  <2>2. build # "scalar" => Stored(finaldata, Places(call), {})
    BY <1>1 DEF IInv, AccExact
  <2>3. 0..(place - 1) = {} /\ Places(call) \in Nat
    BY <1>1, CallSizes DEF IInv, Turn, Proper
  <2>4. build # "scalar" => Kept(finaldata, PlaceSums', Places(call), 0..(place - 1), disturbed["acc"])
    BY <2>2, <2>3, NothingKept
  <2>5. AccExact'
    BY <2>4, <1>1 DEF AccExact
  <2> QED BY <2>1, <2>5
<1>14. AddExact'
  <2>1. ASSUME build # "scalar"  PROVE Tailed(sum', Added, n, disturbed["add"])
    <3>1. Kept(sum, Added, n, 0..(Whole(n) - 1), disturbed["add"])
      BY <2>1, <1>1, <1>2, <1>5, AddState
    <3> QED BY <3>1, <1>2, <1>3, <1>4, <1>6, KeptTail
  <2>2. Added' = Added
    BY <1>1, ChannelsSame
  <2> QED BY <2>1, <2>2, <1>1, <1>2 DEF AddExact
<1>15. OwnPoints'
  <2>1. place' = 0
    BY <1>1 DEF IInv, Turn
  <2>2. 0..(place' * Lanes - 1) = {}
    <3>1. 0 * Lanes = 0 /\ 0..(0 - 1) = {}
      BY LanesType
    <3> QED BY <2>1, <3>1
  <2> QED BY <1>1, <2>2 DEF OwnPoints
<1> QED BY <1>8, <1>9, <1>10, <1>11, <1>12, <1>13, <1>14, <1>15 DEF IInv

-----------------------------------------------------------------------------
(***************************************************************************)
(* The third loop: the points of the places of a vector.                   *)
(***************************************************************************)
LEMMA OwnPoint ==
  ASSUME IInv, Proper(call), stage \notin {"mul", "add"},
         NEW k \in 0..(Places(call) - 1), NEW p \in 0..(Points(call) - 1)
  PROVE  /\ Point(p)[k] = PointsAt(k)[p] /\ Point(p)[k] \in Int \cup {Garbage}
         /\ build # "scalar" /\ Left(Cells(call)) = {} /\ Left(Pixels(call)) = {} => Point(p)[k] # Garbage
<1>1. PICK x, N : x = Points(call) * k + p /\ N = Pixels(call)
  OBVIOUS
<1>2. N \in Nat /\ sum \in Buffer(N)
  BY <1>1, CallSizes DEF Proper, IInv, TypeOK
<1>3. x \in 0..(N - 1) /\ Point(p)[k] = sum[x] /\ Point(p)[k] = PointsAt(k)[p]
  BY <1>1, <1>2, PointsType DEF Proper
<1>4. Point(p)[k] \in Int \cup {Garbage}
  BY <1>2, <1>3 DEF Buffer
<1>5. ASSUME build # "scalar", Left(Cells(call)) = {}, Left(Pixels(call)) = {}
      PROVE  Point(p)[k] # Garbage
  <2>1. stage \in {"place", "acc", "done"}
    BY DEF IInv, TypeOK
  <2>2. TailsUnset(sum, N) /\ Left(N) = {}
    BY <2>1, <1>1, <1>5 DEF IInv, AddWritten
  <2> QED BY <2>2, <1>2, <1>3, NoTail
<1> QED BY <1>3, <1>4, <1>5

LEMMA PointVector ==
  ASSUME IInv, Proper(call), stage = "acc", NEW p \in 0..(Points(call) - 1)
  PROVE  /\ Vec(Point(p), place) \in Buffer(Lanes)
         /\ build # "scalar" /\ Left(Cells(call)) = {} /\ Left(Pixels(call)) = {} =>
              Vec(Point(p), place) \in Floats
         /\ \A l \in 0..(Lanes - 1) :
              /\ place * Lanes + l \in 0..(Places(call) - 1)
              /\ Vec(Point(p), place)[l] = Point(p)[place * Lanes + l]
<1>1. PICK N, v, f : N = Places(call) /\ v = place /\ f = Point(p)
  OBVIOUS
<1>2. N \in Nat /\ v \in 0..(Whole(N) - 1)
  <2>1. place \in 0..Whole(Places(call)) /\ place < Whole(Places(call)) /\ Whole(Places(call)) \in Nat
    BY LoopSizes DEF IInv, TypeOK, Turn, Proper
  <2>2. N \in Nat
    BY <1>1, CallSizes DEF Proper
  <2> QED BY <2>1, <2>2, <1>1
<1>3. f \in Buffer(N)
  <2>1. \A k \in 0..(N - 1) : Point(p)[k] \in Int \cup {Garbage}
    BY <1>1, OwnPoint
  <2> QED BY <2>1, <1>1 DEF Point, Buffer
<1>4. ASSUME build # "scalar", Left(Cells(call)) = {}, Left(Pixels(call)) = {}
      PROVE  \A k \in 0..(N - 1) : f[k] # Garbage
  BY <1>1, <1>4, OwnPoint
<1>5. \A l \in 0..(Lanes - 1) : v * Lanes + l \in 0..(N - 1)
  BY <1>2, VectorCell
<1>6. \A l \in 0..(Lanes - 1) : Vec(f, v)[l] = f[v * Lanes + l]
  BY DEF Vec
<1> QED BY <1>1, <1>2, <1>3, <1>4, <1>5, <1>6, VecType

LEMMA BeginPlaceStep == ASSUME IInv, Proper(call), BeginPlace PROVE IInv'
<1>1. PICK val : val = (IF build = "avx2" THEN Zero ELSE Unset(Lanes))
  OBVIOUS
<1>2. /\ stage = "place" /\ place < Whole(Places(call)) /\ Set("cc", val)
      /\ stage' = "acc" /\ iter' = Starting(Points(call))
      /\ UNCHANGED <<build, call, place, pc, p3, sum, finaldata, data, disturbed>>
  BY <1>1 DEF BeginPlace
<1>3. Shaped(call) /\ Points(call) \in Nat
  BY CallSizes DEF Proper
<1>4. Iterations' = Points(call)
  BY <1>2 DEF Iterations
<1>5. InChunks(call.team, iter', Points(call)) /\ DoneBy(call.team, iter', Points(call)) = {}
  <2>1. iter' = [t \in 0..(call.team - 1) |-> ChunkStart(call.team, t, Points(call))]
    BY <1>2, StartingIs
  <2>2. PICK c, it, n : c = call /\ it = iter' /\ n = Points(call)
    OBVIOUS
  <2>3. InChunks(c.team, it, n) /\ DoneBy(c.team, it, n) = {}
    BY <2>1, <2>2, <1>3, LoopStarts
  <2> QED BY <2>2, <2>3
<1>6. Done' = {} /\ Team' = Team
  BY <1>2, <1>4, <1>5 DEF Done, Team
<1>7. \A t \in Team : pc[t] = 1
  <2>1. Body = 1 /\ pc \in [Team -> 1..Body]
    BY <1>2 DEF Body, IInv, TypeOK
  <2> QED BY <2>1
<1>8. val \in Buffer(Lanes) /\ (build = "avx2" => val \in Floats)
  <2>1. Unset(Lanes) \in Buffer(Lanes) /\ Zero \in Floats
    BY LanesType, UnsetBuffer DEF Zero, Floats
  <2> QED BY <2>1, <1>1, FloatsSet
<1>9. reg' \in [Names -> Buffer(Lanes)] /\ reg'["cc"] = val
  BY <1>2, <1>8, SetReg DEF IInv, Names
<1>10. TypeOK'
  <2>1. TypeOK
    BY DEF IInv
  <2>2. iter' \in [Team -> Nat]
    BY <1>5 DEF InChunks, Team
  <2>3. pc' \in [Team -> 1..Body']
    <3>1. Body' = 2 /\ pc \in [Team -> 1..Body]
      BY <2>1, <1>2 DEF Body, TypeOK
    <3>2. \A t \in Team : pc[t] \in 1..2
      BY <1>7
    <3> QED BY <3>1, <3>2, <1>2
  <2> QED BY <2>1, <2>2, <2>3, <1>2, <1>6, <1>9 DEF TypeOK
<1>11. Chunked' /\ Turn'
  <2>1. Chunked'
    BY <1>2, <1>4, <1>5, <1>6, <1>7 DEF Chunked
  <2>2. Turn'
    BY <1>2 DEF Turn
  <2> QED BY <2>1, <2>2
<1>12. MulWritten' /\ AddWritten'
  BY <1>2 DEF IInv, MulWritten, AddWritten
<1>13. AccWritten'
  <2>1. \A t \in Team : ~(pc[t] > 1)
    BY <1>7
  <2>2. build = "avx2" /\ Left(Cells(call)) = {} /\ Left(Pixels(call)) = {} =>
          Stored(finaldata, Places(call), 0..(place - 1))
    BY <1>2 DEF IInv, AccWritten
  <2> QED BY <2>1, <2>2, <1>2, <1>6, <1>8, <1>9 DEF AccWritten, Ready
<1>14. MulExact' /\ AddExact'
  <2>1. MulExact'
    BY <1>2 DEF IInv, MulExact
  <2>2. AddExact'
    BY <1>2, ChannelsSame DEF IInv, AddExact
  <2> QED BY <2>1, <2>2
<1>15. \A l \in 0..(Lanes - 1) : val[l] = IF build = "avx2" THEN 0 ELSE Garbage
  BY <1>1 DEF Zero, Unset
<1>16. AccExact'
  <2>1. \A t \in Team : pc[t] # 2
    BY <1>7
  <2>2. build \in {"avx2", "neon", "scalar"}
    BY ConvolveAssumption DEF IInv, TypeOK
  <2>3. ASSUME build # "scalar", NEW l \in 0..(Lanes - 1)
        PROVE  val[l] = IF build = "neon" THEN Garbage ELSE TotalAt(place * Lanes + l, {})'
    BY <2>2, <2>3, <1>15, TotalEmpty DEF TotalAt
  <2>4. build # "scalar" => Kept(finaldata, PlaceSums, Places(call), 0..(place - 1), disturbed["acc"])
    BY <1>2 DEF IInv, AccExact
  <2>5. PlaceSums' = PlaceSums
    BY <1>2, TotalsSame
  <2>6. ASSUME build # "scalar", NEW l \in 0..(Lanes - 1)
        PROVE  reg'["cc"][l] = IF build = "neon" THEN Garbage ELSE TotalAt(place * Lanes + l, Done)'
    BY <2>3, <2>6, <1>2, <1>6, <1>9 DEF TotalAt
  <2> QED BY <2>1, <2>4, <2>5, <2>6, <1>2, <1>6 DEF AccExact
<1>17. OwnPoints'
  <2>1. \A k : Sums(k)' = Sums(k)
    BY <1>2, SumsSame
  <2>2. \A t \in Team : pc[t] # 2
    BY <1>7
  <2>3. build = "avx2" => \A k \in 0..(place * Lanes - 1) : finaldata[k] \in Sums(k)
    BY DEF IInv, OwnPoints
  <2> QED BY <2>1, <2>2, <2>3, <1>2, <1>6, <1>9, <1>15 DEF OwnPoints
<1> QED BY <1>10, <1>11, <1>12, <1>13, <1>14, <1>16, <1>17 DEF IInv

\* What a thread in the third loop has in use.
LEMMA AccUses ==
  ASSUME stage = "acc", NEW u, pc[u] \in 1..2
  PROVE  Vector(u) = place /\ (pc[u] = 2 => "aa" \in InUse(u))
BY DEF Vector, InUse

LEMMA AccTyped ==
  ASSUME IInv, Proper(call), NEW t \in Team, Acc(t)
  PROVE  /\ Moved(t) /\ UNCHANGED <<build, call, stage, place, p3, sum, finaldata, data>>
         /\ stage = "acc" /\ Body = 2 /\ pc[t] \in 1..2
         /\ iter[t] \in 0..(Points(call) - 1)
<1>1. stage = "acc" /\ Body = 2 /\ Looping /\ Advance(t, Body) /\ Running(t)
  BY DEF Acc, Body, Looping
<1>2. UNCHANGED <<build, call, stage, place, p3, sum, finaldata, data>>
  BY DEF Acc
<1>3. Shaped(call) /\ TypeOK /\ Chunked /\ UNCHANGED <<call, stage>>
  BY <1>2 DEF IInv, Proper
<1>4. Moved(t)
  BY <1>1, <1>3, BodyStep, Zenon
<1>5. pc[t] \in 1..2
  BY <1>1 DEF IInv, TypeOK
<1>6. iter[t] \in 0..(Iterations - 1) /\ Iterations = Points(call)
  BY <1>1, <1>4, IterationsOf DEF Moved
<1> QED BY <1>1, <1>2, <1>4, <1>5, <1>6

LEMMA AccRest ==
  ASSUME IInv, Proper(call), NEW t \in Team, Acc(t)
  PROVE  /\ Turn' /\ MulWritten' /\ AddWritten' /\ MulExact' /\ AddExact'
         /\ \A k : Sums(k)' = Sums(k) /\ SumsTo(k)' = SumsTo(k)
         /\ \A p : Point(p)' = Point(p)
<1>1. /\ UNCHANGED <<build, call, stage, place, p3, sum, finaldata, data>> /\ stage = "acc"
      /\ disturbed'["mul"] = disturbed["mul"] /\ disturbed'["add"] = disturbed["add"]
      /\ disturbed["acc"] \subseteq disturbed'["acc"]
  BY AccTyped DEF Moved, Disturbs, Loops
<1>2. Turn'
  BY <1>1 DEF IInv, Turn
<1>3. MulWritten' /\ AddWritten'
  BY <1>1 DEF IInv, MulWritten, AddWritten
<1>4. MulExact' /\ AddExact'
  <2>1. MulExact'
    BY <1>1 DEF IInv, MulExact
  <2>2. AddExact'
    BY <1>1, ChannelsSame DEF IInv, AddExact
  <2> QED BY <2>1, <2>2
<1> QED BY <1>1, <1>2, <1>3, <1>4, SumsSame

\* What Acc(t) keeps for a vector of places that is not disturbed: what the
\* other threads hold, and the vectors stored before.
LEMMA AccKeeps ==
  ASSUME IInv, Proper(call), NEW t \in Team, Acc(t), build # "scalar"
  PROVE  /\ Kept(finaldata, PlaceSums, Places(call), 0..(place - 1), disturbed'["acc"]) /\ PlaceSums' = PlaceSums
         /\ place \notin disturbed'["acc"] =>
              /\ place \notin disturbed["acc"]
              /\ \A u \in Team : pc[u] = 2 => reg["aa"] = Vec(Point(iter[u]), place)
              /\ \A u \in Team \ {t} : pc[u] = 2 => reg'["aa"] = reg["aa"]
              /\ \A l \in 0..(Lanes - 1) :
                   reg["cc"][l] = IF build = "neon" THEN Garbage ELSE TotalAt(place * Lanes + l, Done)
<1>1. /\ Moved(t) /\ UNCHANGED <<build, call, stage, place, p3, sum, finaldata, data>>
      /\ stage = "acc" /\ Body = 2
  BY AccTyped
<1>2. disturbed["acc"] \subseteq disturbed'["acc"]
  BY <1>1 DEF Moved, Disturbs
<1>3. Kept(finaldata, PlaceSums, Places(call), 0..(place - 1), disturbed["acc"])
  BY <1>1 DEF IInv, AccExact
<1>4. Kept(finaldata, PlaceSums, Places(call), 0..(place - 1), disturbed'["acc"])
  BY <1>2, <1>3 DEF Kept
<1>5. ASSUME place \notin disturbed'["acc"], NEW u \in Team \ {t}, pc[u] = 2  PROVE reg'["aa"] = reg["aa"]
  <2>1. Vector(u) = place /\ "aa" \in InUse(u)
    BY <1>1, <1>5, AccUses
  <2> QED BY <2>1, <1>1, <1>5 DEF Moved, Disturbs
<1>6. ASSUME place \notin disturbed'["acc"]
      PROVE  /\ \A u \in Team : pc[u] = 2 => reg["aa"] = Vec(Point(iter[u]), place)
             /\ \A l \in 0..(Lanes - 1) :
                  reg["cc"][l] = IF build = "neon" THEN Garbage ELSE TotalAt(place * Lanes + l, Done)
  BY <1>1, <1>2, <1>6 DEF IInv, AccExact
<1>7. PlaceSums' = PlaceSums
  BY <1>1, TotalsSame
<1> QED BY <1>2, <1>4, <1>5, <1>6, <1>7

\* The number of iterations done, and one more.
LEMMA DoneCount ==
  ASSUME Shaped(call), stage = "acc", NEW i \in 0..(Points(call) - 1), i \notin Done
  PROVE  /\ IsFiniteSet(Done) /\ Done \subseteq 0..(Points(call) - 1)
         /\ Cardinality(Done \cup {i}) = Cardinality(Done) + 1
         /\ Cardinality(Done) \in 0..(Points(call) - 1) /\ (Cardinality(Done) = 0 <=> Done = {})
<1>1. PICK w, D, E : w = Points(call) /\ D = Done /\ E = D \cup {i}
  OBVIOUS
<1>2. w \in Nat \ {0}
  BY <1>1, CallSizes
<1>3. D \subseteq 0..(w - 1) /\ E \subseteq 0..(w - 1)
  BY <1>1, IterationsOf DEF Done, DoneBy
<1>4. IsFiniteSet(0..(w - 1)) /\ Cardinality(0..(w - 1)) = w
  BY <1>2, FS_Interval
<1>5. IsFiniteSet(D) /\ IsFiniteSet(E) /\ Cardinality(E) <= w
  BY <1>3, <1>4, FS_Subset
<1>6. Cardinality(D) \in Nat /\ Cardinality(E) = Cardinality(D) + 1
  BY <1>1, <1>5, FS_AddElement, FS_CardinalityType
<1>7. Cardinality(D) = 0 <=> D = {}
  BY <1>5, FS_EmptySet
<1>8. Cardinality(D) \in 0..(w - 1)
  BY <1>2, <1>5, <1>6
<1> QED BY <1>1, <1>3, <1>5, <1>6, <1>7, <1>8

LEMMA AccLoads ==
  ASSUME IInv, Proper(call), NEW t \in Team, Acc(t), pc[t] = 1
  PROVE  reg' \in [Names -> Buffer(Lanes)] /\ AccWritten' /\ AccExact' /\ OwnPoints'
<1>1. /\ Moved(t) /\ UNCHANGED <<build, call, stage, place, p3, sum, finaldata, data>>
      /\ stage = "acc" /\ Body = 2 /\ iter[t] \in 0..(Points(call) - 1)
  BY AccTyped
<1>2. PICK p, val : p = iter[t] /\ val = Vec(Point(p), place)
  OBVIOUS
<1>3. Done' = Done /\ iter' = iter /\ pc'[t] = 2 /\ Team' = Team
  BY <1>1 DEF Moved, Team
<1>4. \A u \in Team \ {t} : pc'[u] = pc[u] /\ iter'[u] = iter[u]
  BY <1>1 DEF Moved
<1>5. p \in 0..(Points(call) - 1) /\ val \in Buffer(Lanes)
      /\ (build # "scalar" /\ Left(Cells(call)) = {} /\ Left(Pixels(call)) = {} => val \in Floats)
  BY <1>1, <1>2, PointVector
<1>6. Set("aa", val)
  BY <1>1, <1>2 DEF Acc
<1>7. reg' \in [Names -> Buffer(Lanes)] /\ reg'["aa"] = val /\ reg'["cc"] = reg["cc"]
  BY <1>5, <1>6, SetReg DEF IInv, Names
<1>8. /\ \A k : Sums(k)' = Sums(k) /\ SumsTo(k)' = SumsTo(k)
      /\ \A q : Point(q)' = Point(q)
  BY AccRest
<1>9. AccWritten'
  <2>1. ASSUME build = "avx2", Left(Cells(call)) = {}, Left(Pixels(call)) = {}
        PROVE  val \in Floats /\ reg["cc"] \in Floats /\ Stored(finaldata, Places(call), 0..(place - 1))
    BY <2>1, <1>1, <1>5 DEF IInv, AccWritten
  <2> QED BY <2>1, <1>1, <1>7 DEF AccWritten, Ready
<1>10. AccExact'
  <2>1. ASSUME build # "scalar", place \notin disturbed'["acc"], NEW u \in Team, pc'[u] = 2
        PROVE  reg'["aa"] = Vec(Point(iter[u]), place)
    <3>1. CASE u = t
      BY <3>1, <1>2, <1>7
    <3>2. CASE u # t
      BY <3>2, <2>1, <1>4, AccKeeps
    <3> QED BY <3>1, <3>2
  <2>2. ASSUME build # "scalar", place \notin disturbed'["acc"], NEW l \in 0..(Lanes - 1)
        PROVE  reg'["cc"][l] = IF build = "neon" THEN Garbage ELSE TotalAt(place * Lanes + l, Done)
    BY <2>2, <1>7, AccKeeps
  <2>3. build # "scalar" =>
          Kept(finaldata, PlaceSums', Places(call), 0..(place - 1), disturbed'["acc"])
    BY AccKeeps
  <2>4. /\ \A u : Vec(Point(iter[u]), place)' = Vec(Point(iter[u]), place)
        /\ \A l : TotalAt(place * Lanes + l, Done)' = TotalAt(place * Lanes + l, Done)
    BY <1>1, <1>3, <1>8, TotalsSame DEF Vec, TotalAt, TotalOf
  <2> QED BY <2>1, <2>2, <2>3, <2>4, <1>1, <1>3 DEF AccExact
<1>11. OwnPoints'
  <2>1. ASSUME build = "avx2"
        PROVE  /\ \A k \in 0..(place * Lanes - 1) : finaldata[k] \in Sums(k)
               /\ \A l \in 0..(Lanes - 1) :
                    IF Done = {} THEN reg["cc"][l] = 0
                    ELSE reg["cc"][l] \in SumsTo(place * Lanes + l)[Cardinality(Done)]
    BY <2>1, <1>1 DEF IInv, OwnPoints
  <2>2. \E q \in 0..(Points(call) - 1) : val = Vec(Point(q), place)
    BY <1>2, <1>5
  <2>3. \A q : Vec(Point(q), place)' = Vec(Point(q), place)
    BY <1>1, <1>8 DEF Vec
  <2> QED BY <2>1, <2>2, <2>3, <1>1, <1>3, <1>7, <1>8 DEF OwnPoints
<1> QED BY <1>7, <1>9, <1>10, <1>11

LEMMA AccAdds ==
  ASSUME IInv, Proper(call), NEW t \in Team, Acc(t), pc[t] = 2
  PROVE  reg' \in [Names -> Buffer(Lanes)] /\ AccWritten' /\ AccExact' /\ OwnPoints'
<1>1. /\ Moved(t) /\ UNCHANGED <<build, call, stage, place, p3, sum, finaldata, data>>
      /\ stage = "acc" /\ Body = 2 /\ iter[t] \in 0..(Points(call) - 1)
  BY AccTyped
<1>2. PICK i, aa, cc, val, D : i = iter[t] /\ aa = reg["aa"] /\ cc = reg["cc"] /\ val = VAdd(cc, aa) /\ D = Done
  OBVIOUS
<1>3. Done' = D \cup {i} /\ i \notin D /\ pc'[t] = 1 /\ Team' = Team /\ i \in 0..(Points(call) - 1)
  BY <1>1, <1>2 DEF Moved, Team
<1>4. \A u \in Team \ {t} : pc'[u] = pc[u] /\ iter'[u] = iter[u]
  BY <1>1 DEF Moved
<1>5. aa \in Buffer(Lanes) /\ cc \in Buffer(Lanes) /\ val \in Buffer(Lanes)
      /\ (aa \in Floats /\ cc \in Floats => val \in Floats)
      /\ \A l \in 0..(Lanes - 1) : val[l] = Plus(cc[l], aa[l])
  <2>1. aa \in Buffer(Lanes) /\ cc \in Buffer(Lanes)
    BY <1>2 DEF IInv, TypeOK, Names
  <2>2. \A l \in 0..(Lanes - 1) : val[l] = Plus(cc[l], aa[l])
    BY <1>2 DEF VAdd
  <2> QED BY <2>1, <2>2, <1>2, VecOps
<1>6. Set("cc", val)
  BY <1>1, <1>2 DEF Acc
<1>7. reg' \in [Names -> Buffer(Lanes)] /\ reg'["cc"] = val /\ reg'["aa"] = aa
  BY <1>2, <1>5, <1>6, SetReg DEF IInv, Names
<1>8. /\ \A k : Sums(k)' = Sums(k) /\ SumsTo(k)' = SumsTo(k)
      /\ \A q : Point(q)' = Point(q)
  BY AccRest
<1>9. /\ IsFiniteSet(D) /\ D \subseteq 0..(Points(call) - 1)
      /\ Cardinality(D \cup {i}) = Cardinality(D) + 1
      /\ Cardinality(D) \in 0..(Points(call) - 1) /\ (Cardinality(D) = 0 <=> D = {})
  BY <1>1, <1>2, <1>3, DoneCount DEF Proper
<1>10. AccWritten'
  <2>1. ASSUME build = "avx2", Left(Cells(call)) = {}, Left(Pixels(call)) = {}
        PROVE  val \in Floats /\ Stored(finaldata, Places(call), 0..(place - 1))
               /\ \A u \in Team : Ready(u, 1, "aa")
    BY <2>1, <1>1, <1>2, <1>5 DEF IInv, AccWritten, Ready
  <2>2. ASSUME build = "avx2", Left(Cells(call)) = {}, Left(Pixels(call)) = {}, NEW u \in Team, pc'[u] > 1
        PROVE  aa \in Floats
    <3>1. u # t
      BY <2>2, <1>3
    <3> QED BY <3>1, <2>1, <2>2, <1>2, <1>4 DEF Ready
  <2> QED BY <2>1, <2>2, <1>1, <1>3, <1>7 DEF AccWritten, Ready
<1>11. AccExact'
  <2>1. ASSUME build # "scalar", place \notin disturbed'["acc"], NEW l \in 0..(Lanes - 1)
        PROVE  val[l] = IF build = "neon" THEN Garbage ELSE TotalAt(place * Lanes + l, D \cup {i})
    <3>1. PICK k, f, w : k = place * Lanes + l /\ f = PointsAt(k) /\ w = Points(call)
      OBVIOUS
    <3>2. k \in 0..(Places(call) - 1) /\ aa[l] = f[i]
      <4>1. aa = Vec(Point(i), place)
        BY <2>1, <1>1, <1>2, AccKeeps
      <4> QED BY <4>1, <3>1, <1>1, <1>3, PointVector, OwnPoint
    <3>3. w \in Nat /\ f \in Buffer(w)
      BY <3>1, <3>2, CallSizes, PointsType DEF Proper, IInv, TypeOK
    <3>4. cc[l] = IF build = "neon" THEN Garbage ELSE TotalOf(f, D)
      BY <3>1, <2>1, <1>2, AccKeeps DEF TotalAt
    <3>5. D \in SUBSET (0..(w - 1)) /\ i \in 0..(w - 1) /\ i \notin D
      BY <3>1, <1>3, <1>9
    <3>6. TotalOf(f, D \cup {i}) = Plus(TotalOf(f, D), f[i])
      BY <3>3, <3>5, TotalStep
    <3>7. Plus(Garbage, f[i]) = Garbage
      BY DEF Plus
    <3> QED BY <3>1, <3>2, <3>4, <3>6, <3>7, <1>5 DEF TotalAt
  <2>2. ASSUME build # "scalar", place \notin disturbed'["acc"], NEW u \in Team, pc'[u] = 2
        PROVE  aa = Vec(Point(iter'[u]), place)
    <3>1. u # t
      BY <2>2, <1>3
    <3> QED BY <3>1, <2>2, <1>2, <1>4, AccKeeps
  <2>3. build # "scalar" =>
          Kept(finaldata, PlaceSums', Places(call), 0..(place - 1), disturbed'["acc"])
    BY AccKeeps
  <2>4. /\ \A u : Vec(Point(iter[u]), place)' = Vec(Point(iter'[u]), place)
        /\ \A l : TotalAt(place * Lanes + l, Done)' = TotalAt(place * Lanes + l, D \cup {i})
    BY <1>1, <1>3, <1>8, TotalsSame DEF Vec, TotalAt, TotalOf
  <2> QED BY <2>1, <2>2, <2>3, <2>4, <1>1, <1>3, <1>7 DEF AccExact
<1>12. OwnPoints'
  <2>1. ASSUME build = "avx2"
        PROVE  /\ \A k \in 0..(place * Lanes - 1) : finaldata[k] \in Sums(k)
               /\ \A u \in Team : pc[u] = 2 => \E p \in 0..(Points(call) - 1) : aa = Vec(Point(p), place)
               /\ \A l \in 0..(Lanes - 1) :
                    IF D = {} THEN cc[l] = 0 ELSE cc[l] \in SumsTo(place * Lanes + l)[Cardinality(D)]
    BY <2>1, <1>1, <1>2 DEF IInv, OwnPoints
  <2>2. ASSUME build = "avx2", NEW l \in 0..(Lanes - 1)
        PROVE  val[l] \in SumsTo(place * Lanes + l)[Cardinality(D \cup {i})]
    <3>1. PICK p \in 0..(Points(call) - 1) : aa = Vec(Point(p), place)
      BY <2>1, <2>2
    <3>2. PICK k, w, f, S, m : /\ k = place * Lanes + l /\ w = Points(call) /\ f = PointsAt(k)
                               /\ S = SumsTo(k) /\ m = Cardinality(D)
      OBVIOUS
    <3>3. k \in 0..(Places(call) - 1) /\ aa[l] = f[p]
      BY <3>1, <3>2, <1>1, PointVector, OwnPoint
    <3>4. w \in Nat \ {0} /\ f \in Buffer(w) /\ OwnSums(w, f, S)
      BY <3>2, <3>3, CallSizes, PointsType, SumsValue DEF Proper, IInv, TypeOK
    <3>5. Plus(0, f[p]) \in S[1] /\ \A n \in 1..(w - 1) : \A v \in S[n] : Plus(v, f[p]) \in S[n + 1]
      BY <3>2, <3>4, OwnSumsStep
    <3>6. m \in 0..(w - 1) /\ Cardinality(D \cup {i}) = m + 1 /\ (m = 0 <=> D = {})
      BY <3>2, <1>9
    <3>7. IF D = {} THEN cc[l] = 0 ELSE cc[l] \in S[m]
      BY <3>2, <2>1, <2>2
    <3>8. Plus(cc[l], f[p]) \in S[m + 1]
      <4>1. CASE m = 0
        <5>1. m + 1 = 1
          BY <4>1
        <5> QED BY <5>1, <4>1, <3>5, <3>6, <3>7
      <4>2. CASE m # 0
        <5>1. m \in 1..(w - 1)
          BY <4>2, <3>4, <3>6
        <5> QED BY <5>1, <4>2, <3>5, <3>6, <3>7
      <4> QED BY <4>1, <4>2
    <3> QED BY <3>2, <3>3, <3>6, <3>8, <1>5
  <2>3. D \cup {i} # {}
    OBVIOUS
  <2>4. ASSUME build = "avx2", NEW u \in Team, pc'[u] = 2
        PROVE  \E p \in 0..(Points(call) - 1) : aa = Vec(Point(p), place)
    BY <2>1, <2>4, <1>3, <1>4
  <2>5. \A q : Vec(Point(q), place)' = Vec(Point(q), place)
    BY <1>1, <1>8 DEF Vec
  <2> QED BY <2>1, <2>2, <2>3, <2>4, <2>5, <1>1, <1>3, <1>7, <1>8 DEF OwnPoints
<1> QED BY <1>7, <1>10, <1>11, <1>12

LEMMA AccStep ==
  ASSUME IInv, Proper(call), NEW t \in Team, Acc(t)
  PROVE  IInv'
<1>1. /\ Moved(t) /\ UNCHANGED <<build, call, stage, place, p3, sum, finaldata, data>>
      /\ stage = "acc" /\ Body = 2 /\ pc[t] \in 1..2
  BY AccTyped
<1>2. reg' \in [Names -> Buffer(Lanes)] /\ AccWritten' /\ AccExact' /\ OwnPoints'
  <2>1. pc[t] = 1 \/ pc[t] = 2
    BY <1>1
  <2> QED BY <2>1, AccLoads, AccAdds
<1>3. TypeOK'
  <2>1. TypeOK
    BY DEF IInv
  <2>2. Body' = Body /\ Team' = Team
    BY <1>1 DEF Body, Team
  <2>3. /\ iter' \in [Team -> Nat] /\ pc' \in [Team -> 1..Body]
        /\ disturbed' \in [Loops -> SUBSET Nat]
    BY <1>1 DEF Moved, Disturbs
  <2> QED BY <2>1, <2>2, <2>3, <1>1, <1>2 DEF TypeOK
<1>4. Chunked'
  BY <1>1 DEF Moved
<1> QED BY <1>2, <1>3, <1>4, AccRest DEF IInv

\* The end of the loop: cc is stored.
LEMMA PlaceEnds ==
  ASSUME IInv, Proper(call), stage = "acc", LoopOver
  PROVE  /\ \A t \in Team : pc[t] = 1
         /\ place \in 0..(Whole(Places(call)) - 1) /\ reg["cc"] \in Buffer(Lanes)
         /\ build # "scalar" /\ place \notin disturbed["acc"] =>
              \A l \in 0..(Lanes - 1) : reg["cc"][l] = PlaceSums[place * Lanes + l]
         /\ build = "avx2" => \A l \in 0..(Lanes - 1) : reg["cc"][l] \in Sums(place * Lanes + l)
<1>1. PICK w, n : w = Points(call) /\ n = Places(call)
  OBVIOUS
<1>2. w \in Nat \ {0} /\ n \in Nat /\ Whole(n) \in Nat /\ Shaped(call) /\ sum \in Buffer(Pixels(call))
  BY <1>1, CallSizes, LoopSizes DEF Proper, IInv, TypeOK
<1>3. Done = 0..(w - 1) /\ \A t \in Team : pc[t] = 1
  BY <1>1, <1>2, LoopEnds, IterationsOf DEF IInv, Looping
<1>4. Done # {} /\ Cardinality(Done) = w
  <2>1. 0 \in 0..(w - 1) /\ Cardinality(0..(w - 1)) = w
    BY <1>2, FS_Interval
  <2> QED BY <2>1, <1>3
<1>5. place \in 0..(Whole(n) - 1)
  <2>1. place \in 0..Whole(n) /\ place < Whole(n)
    BY <1>1 DEF IInv, TypeOK, Turn
  <2> QED BY <2>1, <1>2
<1>6. PICK v : v = place
  OBVIOUS
<1>7. \A l \in 0..(Lanes - 1) : v * Lanes + l \in 0..(n - 1)
  BY <1>2, <1>5, <1>6, VectorCell
<1>8. ASSUME build # "scalar", place \notin disturbed["acc"], NEW l \in 0..(Lanes - 1)
      PROVE  reg["cc"][l] = PlaceSums[place * Lanes + l]
  <2>1. PICK k : k = v * Lanes + l
    OBVIOUS
  <2>2. k \in 0..(n - 1)
    BY <2>1, <1>7
  <2>3. k < TailAt(n)
    <3>1. k \in 0..(Whole(n) * Lanes - 1)
      BY <2>1, <1>2, <1>5, <1>6, LanesType, StrideRange
    <3>2. TailAt(n) = Whole(n) * Lanes /\ TailAt(n) \in 0..n
      BY <1>2, WholeTail
    <3> QED BY <3>1, <3>2, <1>2
  <2>4. reg["cc"][l] = IF build = "neon" THEN Garbage ELSE TotalAt(k, Done)
    BY <2>1, <1>6, <1>8 DEF IInv, AccExact
  <2>5. PlaceSums[k] = IF build = "neon" THEN Garbage ELSE TotalAt(k, 0..(w - 1))
    BY <2>2, <2>3, <1>1 DEF PlaceSums
  <2> QED BY <2>1, <2>4, <2>5, <1>3, <1>6
<1>9. ASSUME build = "avx2", NEW l \in 0..(Lanes - 1)
      PROVE  reg["cc"][l] \in Sums(place * Lanes + l)
  <2>1. PICK k : k = place * Lanes + l
    OBVIOUS
  <2>2. k \in 0..(Places(call) - 1)
    BY <2>1, <1>1, <1>6, <1>7
  <2>3. reg["cc"][l] \in SumsTo(k)[Cardinality(Done)]
    BY <2>1, <1>4, <1>9 DEF IInv, OwnPoints
  <2> QED BY <2>1, <2>2, <2>3, <1>1, <1>2, <1>4, SumsValue
<1>10. reg["cc"] \in Buffer(Lanes)
  BY DEF IInv, TypeOK, Names
<1> QED BY <1>1, <1>3, <1>5, <1>8, <1>9, <1>10

LEMMA EndPlaceStep == ASSUME IInv, Proper(call), EndPlace PROVE IInv'
<1>1. /\ stage = "acc" /\ LoopOver /\ place' = place + 1 /\ stage' = "place"
      /\ finaldata' = Put(finaldata, place, reg["cc"])
      /\ UNCHANGED <<build, call, iter, pc, reg, p3, sum, data, disturbed>>
  BY DEF EndPlace
<1>2. PICK n, v, cc : n = Places(call) /\ v = place /\ cc = reg["cc"]
  OBVIOUS
<1>3. n \in Nat /\ Whole(n) \in Nat /\ finaldata \in Buffer(n)
  BY <1>2, CallSizes, LoopSizes DEF Proper, IInv, TypeOK
<1>4. /\ \A t \in Team : pc[t] = 1
      /\ v \in 0..(Whole(n) - 1) /\ cc \in Buffer(Lanes)
      /\ build # "scalar" /\ v \notin disturbed["acc"] =>
           \A l \in 0..(Lanes - 1) : cc[l] = PlaceSums[v * Lanes + l]
      /\ build = "avx2" => \A l \in 0..(Lanes - 1) : cc[l] \in Sums(v * Lanes + l)
  BY <1>1, <1>2, PlaceEnds
<1>5. finaldata' \in Buffer(n) /\ \A x \in 0..(n - 1) :
        finaldata'[x] = IF x \div Lanes = v THEN cc[x % Lanes] ELSE finaldata[x]
  BY <1>1, <1>2, <1>3, <1>4, PutType
<1>6. TypeOK'
  <2>1. TypeOK
    BY DEF IInv
  <2>2. pc' \in [Team' -> 1..Body']
    <3>1. Body' = 1 /\ pc \in [Team -> 1..Body] /\ Team' = Team
      BY <2>1, <1>1 DEF Body, TypeOK, Team
    <3>2. \A t \in Team : pc[t] \in 1..1
      BY <1>4
    <3> QED BY <3>1, <3>2, <1>1
  <2>3. place' \in 0..Whole(n) /\ Team' = Team
    BY <1>1, <1>2, <1>3, <1>4 DEF Team
  <2> QED BY <2>1, <2>2, <2>3, <1>1, <1>2, <1>5 DEF TypeOK
<1>7. Chunked' /\ Turn'
  BY <1>1 DEF Chunked, Looping, Turn
<1>8. MulWritten' /\ AddWritten'
  BY <1>1 DEF IInv, MulWritten, AddWritten
<1>9. AccWritten'
  <2>1. ASSUME build = "avx2", Left(Cells(call)) = {}, Left(Pixels(call)) = {}
        PROVE  Stored(finaldata', n, 0..(place' - 1))
    <3>1. Stored(finaldata, n, 0..(v - 1)) /\ cc \in Floats
      BY <2>1, <1>1, <1>2 DEF IInv, AccWritten
    <3>2. Stored(finaldata', n, (0..(v - 1)) \cup {v})
      BY <3>1, <1>1, <1>2, <1>3, StoredPut
    <3>3. (0..(v - 1)) \cup {v} = 0..(place' - 1)
      BY <1>1, <1>2, <1>4
    <3> QED BY <3>2, <3>3
  <2> QED BY <2>1, <1>1, <1>2 DEF AccWritten
<1>10. MulExact' /\ AddExact'
  <2>1. MulExact'
    BY <1>1 DEF IInv, MulExact
  <2>2. AddExact'
    BY <1>1, ChannelsSame DEF IInv, AddExact
  <2> QED BY <2>1, <2>2
<1>11. AccExact'
  <2>1. ASSUME build # "scalar"
        PROVE  Kept(finaldata', PlaceSums, n, 0..(place' - 1), disturbed["acc"])
    <3>1. Kept(finaldata, PlaceSums, n, 0..(v - 1), disturbed["acc"])
      BY <2>1, <1>1, <1>2 DEF IInv, AccExact
    <3>2. Kept(finaldata', PlaceSums, n, (0..(v - 1)) \cup {v}, disturbed["acc"])
      BY <3>1, <2>1, <1>1, <1>2, <1>3, <1>4, KeptPut
    <3>3. (0..(v - 1)) \cup {v} = 0..(place' - 1)
      BY <1>1, <1>2, <1>4
    <3> QED BY <3>2, <3>3
  <2>2. PlaceSums' = PlaceSums
    BY <1>1, TotalsSame
  <2> QED BY <2>1, <2>2, <1>1, <1>2 DEF AccExact
<1>12. OwnPoints'
  <2>1. \A k : Sums(k)' = Sums(k)
    BY <1>1, SumsSame
  <2>2. PICK m : m = v + 1
    OBVIOUS
  <2>3. m \in Nat /\ m <= Whole(n) /\ place' = m
    BY <2>2, <1>1, <1>2, <1>3, <1>4
  <2>4. ASSUME build = "avx2", NEW k \in 0..(m * Lanes - 1)  PROVE finaldata'[k] \in Sums(k)
    <3>1. PICK q, l : q = k \div Lanes /\ l = k % Lanes
      OBVIOUS
    <3>2. q \in 0..(m - 1) /\ l \in 0..(Lanes - 1) /\ k = q * Lanes + l
      BY <3>1, <2>3, LanesType, StrideCover
    <3>3. q \in 0..(Whole(n) - 1)
      BY <3>2, <2>3, <1>3
    <3>4. k \in 0..(n - 1)
      BY <3>2, <3>3, <1>3, VectorCell
    <3>5. CASE q = v
      BY <3>1, <3>2, <3>4, <3>5, <2>4, <1>4, <1>5
    <3>6. CASE q # v
      <4>1. q \in 0..(v - 1) /\ v \in Nat
        BY <3>2, <3>6, <2>2, <1>4
      <4>2. k \in 0..(v * Lanes - 1)
        BY <4>1, <3>2, LanesType, StrideRange
      <4>3. finaldata[k] \in Sums(k)
        BY <4>2, <2>4, <1>2 DEF IInv, OwnPoints
      <4> QED BY <4>3, <3>1, <3>4, <3>6, <1>5
    <3> QED BY <3>5, <3>6
  <2> QED BY <2>1, <2>3, <2>4, <1>1 DEF OwnPoints
<1> QED BY <1>6, <1>7, <1>8, <1>9, <1>10, <1>11, <1>12 DEF IInv

\* The place behind the vectors, summed sequentially.
LEMMA TailPlace ==
  ASSUME IInv, Proper(call), stage = "place", NEW k \in 0..(Places(call) - 1)
  PROVE  /\ SumOfPoints(k) \in Int \cup {Garbage}
         /\ build # "scalar" /\ Left(Cells(call)) = {} /\ Left(Pixels(call)) = {} => SumOfPoints(k) \in Int
         /\ SumOfPoints(k) = TotalAt(k, 0..(Points(call) - 1))
<1>1. PICK w, f : w = Points(call) /\ f = PointsAt(k)
  OBVIOUS
<1>2. w \in Nat /\ Shaped(call) /\ sum \in Buffer(Pixels(call))
  BY <1>1, CallSizes DEF Proper, IInv, TypeOK
<1>3. f \in Buffer(w)
  BY <1>1, <1>2, PointsType
<1>4. build # "scalar" /\ Left(Cells(call)) = {} /\ Left(Pixels(call)) = {} =>
        \A p \in 0..(w - 1) : f[p] # Garbage
  BY <1>1, OwnPoint
<1>5. PICK S : SerialSum(w, f, S) /\ SumOfPoints(k) = S[w]
  BY <1>1, <1>2, SerialValue
<1>6. /\ S[w] \in Int \cup {Garbage}
      /\ (\A p \in 0..(w - 1) : f[p] # Garbage) => S[w] \in Int
      /\ S[w] = TotalOf(f, 0..(w - 1))
  BY <1>2, <1>3, <1>5, SerialResult
<1> QED BY <1>1, <1>4, <1>5, <1>6 DEF TotalAt

LEMMA ReturnStep == ASSUME IInv, Proper(call), Return, build # "scalar" PROVE IInv'
<1>1. PICK n, x, v : n = Places(call) /\ x = TailAt(n) /\ v = SumOfPoints(x)
  OBVIOUS
<1>2. /\ stage = "place" /\ place = Whole(n) /\ stage' = "done"
      /\ finaldata' = WithTail(finaldata, n, v) /\ data' = finaldata'
      /\ UNCHANGED <<build, call, place, iter, pc, reg, p3, sum, disturbed>>
  BY <1>1 DEF Return
<1>3. n \in Nat /\ Whole(n) \in Nat /\ finaldata \in Buffer(n)
  BY <1>1, CallSizes, LoopSizes DEF Proper, IInv, TypeOK
<1>4. x # n => /\ v \in Int \cup {Garbage}
               /\ build # "scalar" /\ Left(Cells(call)) = {} /\ Left(Pixels(call)) = {} => v \in Int
               /\ v = PlaceSums[x]
  <2>1. x # n => x \in 0..(n - 1)
    BY <1>1, <1>3, TailInside
  <2>2. x # n => PlaceSums[x] = TotalAt(x, 0..(Points(call) - 1))
    BY <2>1, <1>1 DEF PlaceSums
  <2> QED BY <2>1, <2>2, <1>1, <1>2, TailPlace
<1>5. finaldata' \in Buffer(n) /\ \A k \in 0..(n - 1) : k < x => finaldata'[k] = finaldata[k]
  BY <1>1, <1>2, <1>3, <1>4, TailWrites
<1>6. TypeOK'
  <2>1. TypeOK
    BY DEF IInv
  <2>2. pc' \in [Team' -> 1..Body'] /\ iter' \in [Team' -> Nat]
    <3>1. Body' = Body /\ Team' = Team
      BY <1>2 DEF Body, Team
    <3> QED BY <3>1, <2>1, <1>2 DEF TypeOK
  <2> QED BY <2>1, <2>2, <1>1, <1>2, <1>5 DEF TypeOK
<1>7. Chunked' /\ Turn'
  BY <1>2 DEF Chunked, Looping, Turn
<1>8. MulWritten' /\ AddWritten'
  BY <1>2 DEF IInv, MulWritten, AddWritten
<1>9. AccWritten'
  <2>1. ASSUME build = "avx2", Left(Cells(call)) = {}, Left(Pixels(call)) = {}
        PROVE  TailsUnset(data', n)
    <3>1. Stored(finaldata, n, 0..(Whole(n) - 1))
      BY <2>1, <1>1, <1>2 DEF IInv, AccWritten
    <3>2. x # n => v \in Int
      BY <2>1, <1>4
    <3> QED BY <3>1, <3>2, <1>1, <1>2, <1>3, TailStored
  <2> QED BY <2>1, <1>1, <1>2 DEF AccWritten
<1>10. MulExact' /\ AddExact'
  <2>1. MulExact'
    BY <1>2 DEF IInv, MulExact
  <2>2. AddExact'
    BY <1>2, ChannelsSame DEF IInv, AddExact
  <2> QED BY <2>1, <2>2
<1>11. AccExact'
  <2>1. ASSUME build # "scalar"  PROVE Tailed(data', PlaceSums, n, disturbed["acc"])
    <3>1. Kept(finaldata, PlaceSums, n, 0..(Whole(n) - 1), disturbed["acc"])
      BY <2>1, <1>1, <1>2 DEF IInv, AccExact
    <3>2. TailAt(n) # n => v = PlaceSums[TailAt(n)]
      BY <1>1, <1>4
    <3> QED BY <3>1, <3>2, <1>1, <1>2, <1>3, KeptTail
  <2>2. PlaceSums' = PlaceSums
    BY <1>2, TotalsSame
  <2> QED BY <2>1, <2>2, <1>2, <1>1 DEF AccExact
<1>12. OwnPoints'
  <2>1. \A k : Sums(k)' = Sums(k)
    BY <1>2, SumsSame
  <2>2. place * Lanes = x /\ x \in 0..n
    BY <1>1, <1>2, <1>3, WholeTail
  <2>3. ASSUME build = "avx2", NEW k \in 0..(x - 1)  PROVE finaldata'[k] \in Sums(k)
    <3>1. finaldata[k] \in Sums(k)
      BY <2>2, <2>3 DEF IInv, OwnPoints
    <3>2. k \in 0..(n - 1) /\ k < x
      BY <2>2, <1>3
    <3> QED BY <3>1, <3>2, <1>5
  <2> QED BY <2>1, <2>2, <2>3, <1>2 DEF OwnPoints
<1> QED BY <1>6, <1>7, <1>8, <1>9, <1>10, <1>11, <1>12 DEF IInv

LEMMA StutterStep == ASSUME IInv, UNCHANGED vars PROVE IInv'
<1>1. UNCHANGED <<build, call, stage, place, iter, pc, reg, p3, sum, finaldata, data, disturbed>>
  BY DEF vars
<1>2. TypeOK'
  BY <1>1 DEF IInv, TypeOK, Team, Body
<1>3. Team' = Team /\ Iterations' = Iterations /\ Done' = Done
  BY <1>1 DEF Team, Iterations, Done
<1>4. \A t : Running(t)' = Running(t)
  BY <1>1, <1>3 DEF Running, First
<1>5. Chunked' /\ Turn'
  BY <1>1, <1>3, <1>4 DEF IInv, Chunked, Looping, Turn
<1>6. MulWritten' /\ AddWritten' /\ AccWritten'
  BY <1>1, <1>3 DEF IInv, MulWritten, AddWritten, AccWritten, Ready
<1>7. /\ \A k : Sums(k)' = Sums(k) /\ SumsTo(k)' = SumsTo(k)
      /\ \A p : Point(p)' = Point(p)
      /\ \A h : Channel(h)' = Channel(h)
  BY <1>1, SumsSame, ChannelsSame
<1>8. MulExact' /\ AddExact' /\ AccExact'
  <2>1. MulExact'
    BY <1>1, <1>3 DEF IInv, MulExact, MulHolds
  <2>2. Added' = Added /\ \A v : AddTerms(v)' = AddTerms(v)
    BY <1>1, <1>7, ChannelsSame DEF AddTerms, Vec, VAdd
  <2>3. AddExact'
    BY <1>1, <1>3, <2>2 DEF IInv, AddExact, AddHolds
  <2>4. PlaceSums' = PlaceSums /\ \A k : TotalAt(k, Done)' = TotalAt(k, Done)
    BY <1>1, <1>3, TotalsSame DEF TotalAt, TotalOf
  <2>5. \A t : Vec(Point(iter[t]), place)' = Vec(Point(iter[t]), place)
    BY <1>1, <1>7 DEF Vec
  <2>6. AccExact'
    BY <1>1, <1>3, <2>4, <2>5 DEF IInv, AccExact
  <2> QED BY <2>1, <2>3, <2>6
<1>9. OwnPoints'
  BY <1>1, <1>3, <1>7 DEF IInv, OwnPoints, Vec
<1> QED BY <1>2, <1>5, <1>6, <1>8, <1>9 DEF IInv

LEMMA ThreadStep == ASSUME IInv, Proper(call), NEW t \in Team, Thread(t) PROVE IInv'
BY MulStep, AddStep, AccStep DEF Thread

LEMMA SerialStep == ASSUME IInv, Proper(call), Serial, build # "scalar" PROVE IInv'
BY EndMulStep, EndAddStep, BeginPlaceStep, EndPlaceStep, ReturnStep DEF Serial

LEMMA CallStays == ASSUME [Next]_vars PROVE call' = call /\ build' = build
BY DEF Next, Thread, Mul, Add, Acc, Serial, EndMul, EndAdd, BeginPlace, EndPlace, Return, Returned, vars

LEMMA NextStep == ASSUME IInv, Proper(call), [Next]_vars, build # "scalar" PROVE IInv'
<1>1. ASSUME NEW t \in Team, Thread(t)  PROVE IInv'
  BY <1>1, ThreadStep
<1>2. CASE Serial
  BY <1>2, SerialStep
<1>3. CASE UNCHANGED vars
  BY <1>3, StutterStep
<1> QED BY <1>1, <1>2, <1>3 DEF Next, Returned

-----------------------------------------------------------------------------
(***************************************************************************)
(* What the invariant says of the properties of Convolve.                  *)
(***************************************************************************)
LEMMA InvUnset == ASSUME IInv PROVE UnsetAreTails
<1>1. /\ DOMAIN p3 = 0..(Cells(call) - 1) /\ DOMAIN sum = 0..(Pixels(call) - 1)
      /\ DOMAIN data = 0..(Places(call) - 1)
  BY DEF IInv, TypeOK, Buffer
<1>2. /\ build # "scalar" /\ stage # "mul" => TailsUnset(p3, Cells(call))
      /\ build # "scalar" /\ stage \in {"place", "acc", "done"} /\ Left(Cells(call)) = {} =>
           TailsUnset(sum, Pixels(call))
      /\ build = "avx2" /\ stage = "done" /\ Left(Cells(call)) = {} /\ Left(Pixels(call)) = {} =>
           TailsUnset(data, Places(call))
  BY DEF IInv, MulWritten, AddWritten, AccWritten
<1> QED BY <1>1, <1>2 DEF UnsetAreTails, TailsUnset

\* A pixel of which nothing was disturbed.
LEMMA PixelValue ==
  ASSUME IInv, Proper(call), build # "scalar", stage = "done",
         NEW y \in 0..(Pixels(call) - 1), ~DisturbedPixel(y)
  PROVE  sum[y] = IF UnsetPixel(y) THEN Garbage ELSE ExactPixel(call)[y]
<1>1. \A h \in 0..2 : 3 * y + h \in 0..(Cells(call) - 1)
  BY PixelCells
<1>2. ASSUME NEW h \in 0..2
      PROVE  p3[3 * y + h] = IF UnsetCell(3 * y + h) THEN Garbage ELSE ExactCell(call)[3 * y + h]
  <2>1. ~DisturbedCell(3 * y + h)
    BY DEF DisturbedPixel, Channels
  <2> QED BY <2>1, <1>1 DEF IInv, MulExact, Tailed, DisturbedCell, UnsetCell
<1>3. sum[y] = IF y \in Left(Pixels(call)) THEN Garbage ELSE Added[y]
  BY DEF IInv, AddExact, Tailed, DisturbedPixel
<1>4. Added[y] = Plus(Plus(p3[3 * y + 0], p3[3 * y + 1]), p3[3 * y + 2])
  BY AddedValue
<1>5. CASE \E h \in 0..2 : UnsetCell(3 * y + h)
  <2>1. p3[3 * y + 0] = Garbage \/ p3[3 * y + 1] = Garbage \/ p3[3 * y + 2] = Garbage
    BY <1>2, <1>5
  <2>2. Added[y] = Garbage
    BY <2>1, <1>4 DEF Plus
  <2>3. UnsetPixel(y)
    BY <1>5 DEF UnsetPixel, Channels
  <2> QED BY <2>2, <2>3, <1>3
<1>6. CASE \A h \in 0..2 : ~UnsetCell(3 * y + h)
  <2>1. \A h \in 0..2 : p3[3 * y + h] = ExactCell(call)[3 * y + h]
    BY <1>2, <1>6
  <2>2. Added[y] = ExactPixel(call)[y]
    <3>1. PICK C : C = call
      OBVIOUS
    <3>2. Plus(Plus(ExactCell(C)[3 * y + 0], ExactCell(C)[3 * y + 1]), ExactCell(C)[3 * y + 2])
            = ExactPixel(C)[y]
      BY <3>1, ExactPixelValue
    <3> QED BY <3>1, <3>2, <2>1, <1>4
  <2>3. UnsetPixel(y) <=> y \in Left(Pixels(call))
    BY <1>6 DEF UnsetPixel, Channels
  <2> QED BY <2>2, <2>3, <1>3
<1> QED BY <1>5, <1>6

\* A place of the result of which nothing was disturbed.
LEMMA PlaceValue ==
  ASSUME IInv, Proper(call), stage = "done", NEW k \in 0..(Places(call) - 1), ~DisturbedPlace(k)
  PROVE  data[k] = IF UnsetPlace(k) THEN Garbage ELSE Convolution(call)[k]
<1>1. CASE build = "scalar"
  BY <1>1 DEF IInv, AccExact, UnsetPlace
<1>2. CASE build # "scalar"
  <2>1. PICK w, f, g : w = Points(call) /\ f = PointsAt(k) /\ g = PixelsOf(call, k)
    OBVIOUS
  <2>2. Shaped(call) /\ sum \in Buffer(Pixels(call))
    BY DEF IInv, TypeOK, Proper
  <2>3. data[k] = IF k \in Left(Places(call)) THEN Garbage ELSE PlaceSums[k]
    BY <1>2 DEF IInv, AccExact, Tailed, DisturbedPlace
  <2>4. PlaceSums[k] = IF build = "neon" /\ k < TailAt(Places(call)) THEN Garbage ELSE TotalOf(f, 0..(w - 1))
    BY <2>1 DEF PlaceSums, TotalAt
  <2>5. ASSUME NEW p \in 0..(w - 1)
        PROVE  f[p] = IF UnsetPixel(w * k + p) THEN Garbage ELSE g[p]
    <3>1. w * k + p \in 0..(Pixels(call) - 1) /\ f[p] = sum[w * k + p]
      BY <2>1, <2>2, PointsType
    <3>2. ~DisturbedPixel(w * k + p)
      BY <2>1 DEF DisturbedPlace
    <3>3. g[p] = ExactPixel(call)[w * k + p]
      BY <2>1 DEF PixelsOf
    <3> QED BY <3>1, <3>2, <3>3, <1>2, PixelValue
  <2>6. UnsetPlace(k) <=> \/ k \in Left(Places(call))
                          \/ build = "neon" /\ k < TailAt(Places(call))
                          \/ \E p \in 0..(w - 1) : UnsetPixel(w * k + p)
    BY <2>1, <1>2 DEF UnsetPlace
  <2>7. CASE \E p \in 0..(w - 1) : UnsetPixel(w * k + p)
    <3>1. TotalOf(f, 0..(w - 1)) = Garbage
      BY <2>5, <2>7 DEF TotalOf
    <3> QED BY <3>1, <2>3, <2>4, <2>6, <2>7
  <2>8. CASE \A p \in 0..(w - 1) : ~UnsetPixel(w * k + p)
    <3>1. \A p \in 0..(w - 1) : f[p] = g[p] /\ g[p] \in Int
      BY <2>1, <2>5, <2>8, PixelOfPlace
    <3>2. f = g
      BY <3>1, <2>1 DEF PointsAt, PixelsOf
    <3>3. TotalOf(f, 0..(w - 1)) = SumFunctionOnSet(g, 0..(w - 1))
      BY <3>1, <3>2, LanesType DEF TotalOf
    <3>4. SumFunctionOnSet(g, 0..(w - 1)) = Convolution(call)[k]
      BY <2>1, PlaceSum
    <3> QED BY <3>3, <3>4, <2>3, <2>4, <2>6, <2>8
  <2> QED BY <2>7, <2>8
<1> QED BY <1>1, <1>2

LEMMA InvExact == ASSUME IInv, Proper(call) PROVE ExactUnlessDisturbed
<1>1. DOMAIN p3 = 0..(Cells(call) - 1) /\ DOMAIN data = 0..(Places(call) - 1)
  BY DEF IInv, TypeOK, Buffer
<1>2. ASSUME stage # "mul", build # "scalar", NEW x \in DOMAIN p3, ~DisturbedCell(x)
      PROVE  p3[x] = IF UnsetCell(x) THEN Garbage ELSE Times(P1(call)[x], P2(call)[x])
  <2>1. p3[x] = IF UnsetCell(x) THEN Garbage ELSE ExactCell(call)[x]
    BY <1>1, <1>2 DEF IInv, MulExact, Tailed, DisturbedCell, UnsetCell
  <2>2. Times(P1(call)[x], P2(call)[x]) = ExactCell(call)[x]
    BY <1>1, <1>2, CellInt
  <2> QED BY <2>1, <2>2
<1>3. ASSUME stage = "done", NEW k \in DOMAIN data, ~DisturbedPlace(k)
      PROVE  data[k] = IF UnsetPlace(k) THEN Garbage ELSE Convolution(call)[k]
  BY <1>1, <1>3, PlaceValue
<1> QED BY <1>2, <1>3 DEF ExactUnlessDisturbed

LEMMA InvOwn == ASSUME IInv PROVE SumOfOwnPoints
BY DEF IInv, OwnPoints, SumOfOwnPoints

LEMMA InvVersions == ASSUME IInv, Proper(call) PROVE VersionsAgree
<1>1. DOMAIN data = 0..(Places(call) - 1)
  BY DEF IInv, TypeOK, Buffer
<1>2. ASSUME stage = "done", NEW k \in DOMAIN data, ~DisturbedPlace(k), ~UnsetPlace(k)
      PROVE  data[k] = ScalarCov(call)[k]
  BY <1>1, <1>2, PlaceValue, ScalarSum
<1> QED BY <1>2 DEF VersionsAgree
-----------------------------------------------------------------------------
(***************************************************************************)
(* The convolution, for every image, kernel, stride and padding that cov   *)
(* is written for, every number of lanes and every team, in the builds     *)
(* with vectors.                                                           *)
(***************************************************************************)
ProperCalls == "scalar" \notin Builds /\ \A c \in Calls : Proper(c)

THEOREM Invariance == ASSUME ProperCalls PROVE Spec => [](IInv /\ Proper(call) /\ build # "scalar")
<1>1. Init => IInv /\ Proper(call) /\ build # "scalar"
  <2> SUFFICES ASSUME Init  PROVE IInv /\ Proper(call) /\ build # "scalar"
    OBVIOUS
  <2>1. Proper(call)
    BY DEF Init, ProperCalls
  <2>2. Fresh
    BY DEF Init, Fresh
  <2> QED BY <2>1, <2>2, FreshInv DEF Init, Proper, ProperCalls
<1>2. IInv /\ Proper(call) /\ build # "scalar" /\ [Next]_vars => IInv' /\ Proper(call)' /\ (build # "scalar")'
  BY NextStep, CallStays
<1> QED BY <1>1, <1>2, PTL DEF Spec

\* Every variable has its type.
THEOREM TypeCorrect == ASSUME ProperCalls PROVE Spec => []TypeOK
<1>1. IInv => TypeOK
  BY DEF IInv
<1> QED BY <1>1, Invariance, PTL

\* However the threads interleave, the loops leave the tails unwritten, from
\* their second cell on, and nothing else.
THEOREM OnlyTailsUnset == ASSUME ProperCalls PROVE Spec => []UnsetAreTails
BY Invariance, InvUnset, PTL

\* However the threads interleave, a product and an element of the result for
\* whose vectors no other thread changed a variable in use is exact, or one
\* that no schedule computes.
THEOREM Exactness == ASSUME ProperCalls PROVE Spec => []ExactUnlessDisturbed
BY Invariance, InvExact, PTL

\* Even with the race, a place adds up between one and pointnum values of
\* its own points.
THEOREM OwnSumsOnly == ASSUME ProperCalls PROVE Spec => []SumOfOwnPoints
BY Invariance, InvOwn, PTL

\* The vector version agrees with the sequential one wherever it computes an
\* element undisturbed.
THEOREM ScalarAgrees == ASSUME ProperCalls PROVE Spec => []VersionsAgree
BY Invariance, InvVersions, PTL

\* The places (lines 129-130) are all of those that fit, or all but one.
THEOREM AllPlacesCovered == ASSUME ProperCalls PROVE Spec => []PlacesCovered
<1>1. Proper(call) => PlacesCovered
  BY Geometry DEF Proper
<1> QED BY <1>1, Invariance, PTL
=============================================================================
