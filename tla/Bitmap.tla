------------------------------- MODULE Bitmap -------------------------------
(***************************************************************************)
(* Bitmap files as Project3 reads and writes them.  A file that is read    *)
(* (initialImage, avx2_code.c:54-108) is a record                          *)
(*   rows, cols     the integers at 22 and 18 of the header                *)
(*   data           the bytes behind the 54 bytes of the header            *)
(* A file that is written (WriteBMP, 292-336) has one byte for each pixel: *)
(*   rows, cols, size   as in the header                                   *)
(*   data               the bytes behind the header and the colour table   *)
(* What the bytes of a file show is given by the format: rows begin at     *)
(* multiples of four bytes, in both kinds of file.  The matrix class of    *)
(* Project4 reads and writes the same files (matrix.h:93-148, 627-686).    *)
(***************************************************************************)
EXTENDS Integers, FiniteSets

RowsAt4(n) == 4 * ((n + 3) \div 4)

\* The length of the data that ftell gives, less the header.
Length(file) == Cardinality(DOMAIN file.data)

Trailing(file) == Length(file) - file.rows * RowsAt4(3 * file.cols)

\* The picture in a file of 24 bits per pixel.
Picture(file) ==
  [x \in 0..(3 * file.rows * file.cols - 1) |->
     file.data[(x \div (3 * file.cols)) * RowsAt4(3 * file.cols) + (x % (3 * file.cols))]]

\* The grey value in row x and column y of a file of 8 bits per pixel.
Grey(file, x, y) == file.data[x * RowsAt4(file.cols) + y]
-----------------------------------------------------------------------------
\* The bytes by which a row is filled up, as initialImage computes them.
Gap(file) == (Length(file) - 3 * file.rows * file.cols) \div file.rows

\* Variant: the remainder is added, not what is missing to four.
RowPaddingByRemainder(cols) == cols % 4

RowPadding(cols) == IF cols % 4 = 0 THEN 0 ELSE 4 - (cols % 4)

\* The file of a picture with one byte value[k] for each pixel k.
Written(rows, cols, value) ==
  LET width == cols + RowPadding(cols)
  IN  [rows |-> rows, cols |-> cols, size |-> width * rows + 54 + 1024,
       data |-> [x \in 0..(rows * width - 1) |->
                   IF x % width >= width - RowPadding(cols) THEN 0
                   ELSE value[(x % width) + cols * (x \div width)]]]
-----------------------------------------------------------------------------
\* The matrix class keeps the three channels of the bytes f one after the
\* other, size pixels each,
Separated(f, size) == [x \in 0..(3 * size - 1) |-> f[(x % size) * 3 + (x \div size)]]

\* Variant: the channels of a pixel are summed where they stood in the file.
SumOfThreeNeighbours(g, size, k) == (g[3 * k] + g[3 * k + 1] + g[3 * k + 2]) % 256

\* and outputImage writes their sum, which wraps in unsigned char.
SumOfChannels(g, size, k) == (g[k] + g[k + size] + g[k + 2 * size]) % 256

=============================================================================
