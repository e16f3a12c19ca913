----------------------------- MODULE ConvGather -----------------------------
(***************************************************************************)
(* What cov (Project3, avx2_code.c:126-182) lays out before it computes:   *)
(* for every kernel and every place of the kernel over the image it copies *)
(* the pixels under the kernel to p1 and the weights to p2, three channels *)
(* each, so that the convolution becomes p1 * p2 element by element,       *)
(* summed over the channels and then over the points of the kernel.        *)
(*                                                                         *)
(* A call is a record                                                      *)
(*   rows, cols, image        the image, row-major, channels together      *)
(*   size, krows, kcols, kernel                                            *)
(*   stride, padding          <<along rows, along columns>>                *)
(*   team                     the OpenMP threads it gets                   *)
(* Integers stand for floats; rounding is not modelled.                    *)
(***************************************************************************)
EXTENDS Integers, FiniteSetsExt

Channels == 3

\* Variant: the last place is forgotten.
OutRowsShort(c) == (c.rows + 2 * c.padding[1] - c.krows) \div c.stride[1]

OutRows(c) == (c.rows + 2 * c.padding[1] - c.krows + 1) \div c.stride[1]

OutCols(c) == (c.cols + 2 * c.padding[2] - c.kcols + 1) \div c.stride[2]

Places(c) == c.size * OutRows(c) * OutCols(c)          \* movenum
Points(c) == c.krows * c.kcols                         \* pointnum
Pixels(c) == Places(c) * Points(c)                     \* len_cut
Cells(c)  == Pixels(c) * Channels                      \* len

\* The calls cov is written for: the kernel is not larger than the image with
\* its border; and those whose image has been read.
Shaped(c) ==
  /\ {c.rows, c.cols, c.size, c.krows, c.kcols, c.team} \subseteq Nat \ {0}
  /\ \A d \in {1, 2} : c.stride[d] \in Nat \ {0} /\ c.padding[d] \in Nat
  /\ c.krows <= c.rows + 2 * c.padding[1] /\ c.kcols <= c.cols + 2 * c.padding[2]
  /\ c.kernel \in [0..(c.size * c.krows * c.kcols * Channels - 1) -> Int]

Proper(c) == Shaped(c) /\ c.image \in [0..(c.rows * c.cols * Channels - 1) -> Int]

\* Variant: the border is not subtracted.
RowAtUnpadded(c, k, p) == c.stride[1] * ((k \div OutCols(c)) % OutRows(c)) + (p \div c.kcols)

\* The pixel (row, column) under point p of the kernel at place k, and the
\* place's kernel: the loop counters s, i, j, ii, jj read off the position.
RowAt(c, k, p) == c.stride[1] * ((k \div OutCols(c)) % OutRows(c)) + (p \div c.kcols) - c.padding[1]

ColAt(c, k, p) == c.stride[2] * (k % OutCols(c)) + (p % c.kcols) - c.padding[2]

KernelAt(c, k) == k \div (OutRows(c) * OutCols(c))
Inside(c, x, y) == x \in 0..(c.rows - 1) /\ y \in 0..(c.cols - 1)

P1(c) ==
  [q \in 0..(Cells(c) - 1) |->
     LET k == q \div (Channels * Points(c))
         p == (q \div Channels) % Points(c)
         x == RowAt(c, k, p)
         y == ColAt(c, k, p)
     IN IF Inside(c, x, y) THEN c.image[Channels * (c.cols * x + y) + (q % Channels)] ELSE 0]

P2(c) ==
  [q \in 0..(Cells(c) - 1) |->
     LET k == q \div (Channels * Points(c))
         p == (q \div Channels) % Points(c)
     IN IF Inside(c, RowAt(c, k, p), ColAt(c, k, p))
        THEN c.kernel[Channels * (KernelAt(c, k) * Points(c) + p) + (q % Channels)] ELSE 0]
-----------------------------------------------------------------------------
(***************************************************************************)
(* The first version of cov (origin_code.c:145-187), sequential.  Its      *)
(* counters (place, point, channel) run through the cells in the same      *)
(* order; one variable, sum, is added to in all of them, skipped by the    *)
(* "continue" of a point outside the image, and cleared after every place. *)
(***************************************************************************)
PerPlace(c) == Points(c) * Channels

AddedAt(c, q) ==
  LET k == q \div PerPlace(c)
      p == (q \div Channels) % Points(c)
      x == RowAt(c, k, p)
      y == ColAt(c, k, p)
  IN  IF Inside(c, x, y)
      THEN c.image[Channels * (c.cols * x + y) + (q % Channels)]
           * c.kernel[Channels * (KernelAt(c, k) * Points(c) + p) + (q % Channels)]
      ELSE 0

\* Variant: sum goes on from place to place.
ScalarCovKeepingSum(c) ==
  LET sum[q \in 0..Cells(c)] == IF q = 0 THEN 0 ELSE sum[q - 1] + AddedAt(c, q - 1)
  IN  [k \in 0..(Places(c) - 1) |-> sum[PerPlace(c) * (k + 1)]]

ScalarCov(c) ==
  LET sum[q \in 0..Cells(c)] ==            \* before sum = 0 after a place
        IF q = 0 THEN 0
        ELSE (IF (q - 1) % PerPlace(c) = 0 THEN 0 ELSE sum[q - 1]) + AddedAt(c, q - 1)
  IN  [k \in 0..(Places(c) - 1) |-> sum[PerPlace(c) * (k + 1)]]

-----------------------------------------------------------------------------
(***************************************************************************)
(* The convolution itself, from its definition: kernel s at the i-th, j-th *)
(* place over the image surrounded by zeros.                               *)
(***************************************************************************)
Padded(c, x, y, ch) ==
  IF Inside(c, x, y) THEN c.image[x * c.cols * Channels + y * Channels + ch] ELSE 0

\* The points of a kernel, with their channels.
Window(c) == (0..(c.krows - 1)) \X (0..(c.kcols - 1)) \X (0..(Channels - 1))

ConvolvedAt(c, s, i, j) ==
  SumFunction([w \in Window(c) |->
     Padded(c, c.stride[1] * i + w[1] - c.padding[1], c.stride[2] * j + w[2] - c.padding[2], w[3])
     * c.kernel[((s * c.krows + w[1]) * c.kcols + w[2]) * Channels + w[3]]])

Convolution(c) ==
  [k \in 0..(Places(c) - 1) |->
     ConvolvedAt(c, k \div (OutRows(c) * OutCols(c)),
                    (k \div OutCols(c)) % OutRows(c), k % OutCols(c))]
=============================================================================
