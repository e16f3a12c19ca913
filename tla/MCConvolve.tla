----------------------------- MODULE MCConvolve -----------------------------
(***************************************************************************)
(* Files, kernels and strides for TLC: a width of four floats stands for   *)
(* the eight of AVX2 and the four of NEON.                                 *)
(***************************************************************************)
EXTENDS ImageFilter, TLC

CallOf(rows, cols, size, krows, kcols, stride, padding, team) ==
  [rows |-> rows, cols |-> cols, size |-> size, krows |-> krows, kcols |-> kcols,
   stride |-> stride, padding |-> padding, team |-> team,
   image  |-> [x \in 0..(rows * cols * Channels - 1) |-> 30 * (1 + ((x * (x + 3)) % 7))],
   kernel |-> [x \in 0..(size * krows * kcols * Channels - 1) |-> 1 + x]]

\* The same weight everywhere, as initialKernel sets it, and few pixels.
Flat(rows, kcols, team) ==
  [CallOf(rows, kcols, 1, 1, kcols, <<1, 1>>, <<0, 0>>, team) EXCEPT
     !.image  = [x \in 0..(rows * kcols * Channels - 1) |-> (x \div Lanes) % 2],
     !.kernel = [x \in 0..(kcols * Channels - 1) |-> 1]]

Square3 == CallOf(3, 3, 1, 2, 2, <<1, 1>>, <<1, 1>>, 1)

\* One thread: padding, stride, several kernels, and every kind of tail; rows
\* of 1, 2, 3 and 4 pixels in the file.
Serially ==
  {Square3,                                           \* 16 places, no tail
   CallOf(5, 5, 2, 2, 2, <<2, 2>>, <<0, 0>>, 1),      \* 8 places, two kernels
   CallOf(4, 2, 1, 1, 1, <<3, 1>>, <<0, 0>>, 1),      \* a place missing: rows 0 and 3
   CallOf(3, 4, 2, 2, 1, <<1, 2>>, <<1, 0>>, 1),      \* 16 places
   CallOf(5, 3, 1, 1, 3, <<1, 1>>, <<0, 0>>, 1),      \* 5 places: a tail of one
   CallOf(3, 1, 1, 1, 1, <<1, 1>>, <<0, 0>>, 1),      \* 3 places, 9 cells
   CallOf(1, 2, 1, 1, 2, <<1, 1>>, <<0, 0>>, 1)}      \* 6 cells: a tail of two

\* Two threads racing in every loop, and with tails.
Shared == {Flat(4, 2, 2), CallOf(3, 1, 1, 1, 1, <<1, 1>>, <<0, 0>>, 2)}

\* The file with the picture of a call, 9 in the padding, and some bytes more.
FileOf(c, more) ==
  [rows |-> c.rows, cols |-> c.cols, of |-> c,
   data |-> [x \in 0..(c.rows * RowsAt4(3 * c.cols) + more - 1) |->
               LET row == x \div RowsAt4(3 * c.cols)
                   in  == x % RowsAt4(3 * c.cols)
               IN  IF row < c.rows /\ in < 3 * c.cols THEN c.image[3 * c.cols * row + in] ELSE 9]]

MCRequest(f) == [f.of EXCEPT !.image = Unset(3 * f.rows * f.cols)]

\* One file with a few bytes behind the picture, one with as many as it has rows.
MCFiles ==
  {FileOf(c, 0) : c \in Serially \cup Shared} \cup {FileOf(Square3, 2), FileOf(Square3, 3)}

\* What is read of the last of them: rows of 13 bytes instead of 12.
Misread ==
  [Square3 EXCEPT !.image =
     [x \in DOMAIN Square3.image |-> FileOf(Square3, 3).data[13 * (x \div 9) + (x % 9)]]]

\* Calls before and after the image is read.
MCCalls == Serially \cup Shared \cup {Misread} \cup {MCRequest(f) : f \in MCFiles}
LongTails == {FileOf(CallOf(3, 1, 1, 1, 1, <<1, 1>>, <<0, 0>>, 1), 0)}

\* The preconditions of the theorems.
ASSUME ProperCalls == \A c \in Serially \cup Shared \cup {Misread} : Proper(c)
ASSUME ReadableFiles == \A f \in Files : Readable(f)
=============================================================================
