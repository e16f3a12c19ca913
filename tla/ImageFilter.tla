---------------------------- MODULE ImageFilter -----------------------------
(***************************************************************************)
(* The three programs of Project3 as a whole (main of avx2_code.c,         *)
(* 338-362): they read a bitmap (initialImage), convolve it (cov) and      *)
(* write the first kernel's result as a bitmap (WriteBMP).  In the builds  *)
(* "avx2" and "neon" cov is that of module Convolve; the build "scalar",   *)
(* origin_code.c, has the sequential one, and room for the whole file.     *)
(*                                                                         *)
(* fopen may fail, and neither call of it is noticed: after the first, cov *)
(* runs on an image whose number of columns and whose pointer were never   *)
(* set; after the second, fprintf gets a null pointer.  The model ends     *)
(* there ("unopened").  It also ends when real_data is overrun.            *)
(***************************************************************************)
EXTENDS Convolve, Bitmap

CONSTANTS Files,              \* the files called input_image.bmp
          Request(_),         \* the call of cov for a file, its image not yet read
          Unit                \* the value of Data that is one level of grey

VARIABLES phase,              \* where main is
          input, output,      \* the files
          i, move,            \* the loop of initialImage over the file
          real_data           \* the bytes without the padding

file == <<phase, input, output, i, move, real_data>>
all == <<vars, file>>

\* The bytes of real_data.
RealLength(f) == IF build = "scalar" THEN Length(f) ELSE 3 * f.rows * f.cols

FilterInit ==
  /\ phase = "open"
  /\ input \in Files
  /\ Init /\ call = Request(input)
  /\ output = <<>>
  /\ i = 0 /\ move = 0
  /\ real_data = Unset(RealLength(input))

Open ==
  /\ phase = "open"
  /\ phase' \in {"load", "unopened"}
  /\ UNCHANGED <<vars, input, output, i, move, real_data>>

\* The padding is skipped behind the last byte of a row.
RowEnds == (i - move) % (3 * input.cols) = 3 * input.cols - 1

\* Variant: move is not moved on.
LoadByteNotMoving ==
  /\ phase = "load" /\ i < Length(input)
  /\ IF i - move \in DOMAIN real_data
     THEN /\ real_data' = [real_data EXCEPT ![i - move] = input.data[i]]
          /\ i' = IF RowEnds THEN i + Gap(input) + 1 ELSE i + 1
          /\ UNCHANGED <<phase, move>>
     ELSE phase' = "overrun" /\ UNCHANGED <<i, move, real_data>>
  /\ UNCHANGED <<vars, input, output>>

LoadByte ==
  /\ phase = "load" /\ i < Length(input)
  /\ IF i - move \in DOMAIN real_data
     THEN /\ real_data' = [real_data EXCEPT ![i - move] = input.data[i]]
          /\ move' = IF RowEnds THEN move + Gap(input) ELSE move
          /\ i' = IF RowEnds THEN i + Gap(input) + 1 ELSE i + 1
          /\ UNCHANGED phase
     ELSE phase' = "overrun" /\ UNCHANGED <<i, move, real_data>>
  /\ UNCHANGED <<vars, input, output>>

\* ImgData gets the bytes as floats.
EndLoad ==
  /\ phase = "load" /\ i >= Length(input)
  /\ call' = [call EXCEPT !.image = [x \in 0..(3 * input.rows * input.cols - 1) |-> real_data[x]]]
  /\ phase' = "cov"
  /\ UNCHANGED <<build, stage, place, iter, pc, reg, p3, sum, finaldata, data, disturbed,
                 input, output, i, move, real_data>>

CovThread(t) ==
  /\ phase = "cov" /\ build # "scalar"
  /\ t \in Team /\ Thread(t)
  /\ UNCHANGED file

CovSerial ==
  /\ phase = "cov" /\ build # "scalar"
  /\ Serial
  /\ UNCHANGED file

CovScalar ==
  /\ phase = "cov" /\ build = "scalar" /\ stage # "done"
  /\ data' = ScalarCov(call)
  /\ stage' = "done"
  /\ UNCHANGED <<build, call, place, iter, pc, reg, p3, sum, finaldata, disturbed, file>>

\* (byte) of a float: the integer part, modulo 256 in both builds.
ToByte(v) == IF v = Garbage THEN Garbage ELSE (v \div Unit) % 256

WriteBMP ==
  /\ phase = "cov" /\ stage = "done"
  /\ \/ /\ output' = Written(OutRows(call), OutCols(call), [k \in DOMAIN data |-> ToByte(data[k])])
        /\ phase' = "written"
     \/ phase' = "unopened" /\ UNCHANGED output
  /\ UNCHANGED <<vars, input, i, move, real_data>>

Ended == phase \in {"written", "unopened", "overrun"} /\ UNCHANGED all

Main == Open \/ LoadByte \/ EndLoad \/ CovSerial \/ CovScalar \/ WriteBMP

FilterNext == Main \/ (\E t \in Team : CovThread(t)) \/ Ended

FilterSpec ==
  /\ FilterInit /\ [][FilterNext]_all
  /\ WF_all(Main) /\ \A t \in Threads : WF_all(CovThread(t))
-----------------------------------------------------------------------------
FilterTypeOK ==
  /\ TypeOK
  /\ phase \in {"open", "load", "cov", "written", "unopened", "overrun"}
  /\ input \in Files
  /\ i \in Nat /\ move \in Nat
  /\ real_data \in Buffer(RealLength(input))

(***************************************************************************)
(* The files main is written for, and what it asks of cov: the bytes are   *)
(* those of the rows at least, and the kernel fits the picture.  What is   *)
(* read of such a file are rows of equal length, whatever follows them.    *)
(***************************************************************************)
ImageRead(f) ==
  [x \in 0..(3 * f.rows * f.cols - 1) |->
     f.data[(x \div (3 * f.cols)) * (3 * f.cols + Gap(f)) + (x % (3 * f.cols))]]

Loaded(f) == [Request(f) EXCEPT !.image = ImageRead(f)]

Readable(f) ==
  /\ {f.rows, f.cols} \subseteq Nat \ {0}
  /\ Length(f) \in Nat /\ f.data \in [0..(Length(f) - 1) -> Int]
  /\ Trailing(f) >= 0
  /\ LET c == Request(f)
     IN  /\ c = [rows |-> f.rows, cols |-> f.cols, image |-> c.image, size |-> c.size,
                 krows |-> c.krows, kcols |-> c.kcols, kernel |-> c.kernel,
                 stride |-> c.stride, padding |-> c.padding, team |-> c.team]
         /\ Shaped(c)
  /\ {Request(f), Loaded(f)} \subseteq Calls

(***************************************************************************)
(* The loop that changes its own counter (83-95) leaves in real_data the   *)
(* picture in the file, for every width and its padding, as long as there  *)
(* are fewer bytes behind the picture than rows: with more, the quotient   *)
(* at line 77 takes them for padding.  It stays inside real_data unless    *)
(* there are such bytes, and always in the scalar build.                   *)
(***************************************************************************)
Plain == Trailing(input) < input.rows

LoadsPicture ==
  /\ phase \in {"cov", "written"} /\ Plain => call.image = Picture(input)
  /\ phase = "overrun" => Trailing(input) > 0 /\ build # "scalar"

(***************************************************************************)
(* The file written (WriteBMP) has the length it says, and shows at every  *)
(* place the grey value of the convolution with the first kernel, wherever *)
(* cov computes one undisturbed by other threads, in the scalar build      *)
(* everywhere: from the file read to the file written, paddings and        *)
(* strides of the three layouts cancel.                                    *)
(***************************************************************************)
ShowsConvolution ==
  phase = "written" =>
    /\ output.size = 54 + 1024 + Length(output)
    /\ Length(output) = output.rows * RowsAt4(output.cols)
    /\ Plain =>
         \A x \in 0..(OutRows(call) - 1), y \in 0..(OutCols(call) - 1) :
           LET k == OutCols(call) * x + y
           IN  build = "scalar" \/ ~DisturbedPlace(k) =>
                 Grey(output, x, y) =
                   IF UnsetPlace(k) THEN Garbage
                   ELSE ToByte(ConvolvedAt([call EXCEPT !.image = Picture(input)], 0, x, y))

(***************************************************************************)
(* What the matrix class (matrix.h:93-148, 627-686) makes of the same      *)
(* bytes: outputImage shows for every pixel of the file that was read the  *)
(* sum of its three bytes, although the channels were separated and the    *)
(* rows of the two files are filled up differently.                        *)
(***************************************************************************)
MatrixShowsSum ==
  phase = "cov" /\ Plain =>
    LET size == input.rows * input.cols
        image == Separated(real_data, size)
        out == Written(input.rows, input.cols, [k \in 0..(size - 1) |-> SumOfChannels(image, size, k)])
        At(x, y, ch) == input.data[x * RowsAt4(3 * input.cols) + 3 * y + ch]
    IN  \A x \in 0..(input.rows - 1), y \in 0..(input.cols - 1) :
          Grey(out, x, y) = (At(x, y, 0) + At(x, y, 1) + At(x, y, 2)) % 256

(***************************************************************************)
(* The program ends for every file, with a picture or for one of the       *)
(* reasons that end the model, whatever the threads do to each other.      *)
(***************************************************************************)
Finishes == <>(phase \in {"written", "unopened", "overrun"})
=============================================================================
