------------------------- MODULE ImageFilter_proofs -------------------------
(***************************************************************************)
(* The programs of Project3 as a whole, proved for every readable file:    *)
(* what the loop of initialImage reads, that cov then runs as proved in    *)
(* Convolve_proofs, and what the file shows that is written.               *)
(***************************************************************************)
EXTENDS ImageFilter, Convolve_proofs

-----------------------------------------------------------------------------
(***************************************************************************)
(* Rows of bytes: n filled up to a multiple of four, and division by the   *)
(* number of rows.                                                         *)
(***************************************************************************)
LEMMA FilledUp ==
  ASSUME NEW n \in Nat
  PROVE  RowsAt4(n) \in Nat /\ n <= RowsAt4(n) /\ RowPadding(n) \in 0..3 /\ n + RowPadding(n) = RowsAt4(n)
<1>1. PICK q, r : q = n \div 4 /\ r = n % 4
  OBVIOUS
<1>2. q \in Nat /\ r \in 0..3 /\ n = 4 * q + r
  BY <1>1
<1>3. CASE r = 0
  <2>1. (n + 3) \div 4 = q
    BY <1>2, <1>3
  <2> QED BY <2>1, <1>1, <1>2, <1>3 DEF RowsAt4, RowPadding
<1>4. CASE r # 0
  <2>1. (n + 3) \div 4 = q + 1
    BY <1>2, <1>4
  <2> QED BY <2>1, <1>1, <1>2, <1>4 DEF RowsAt4, RowPadding
<1> QED BY <1>3, <1>4

LEMMA Quotient ==
  ASSUME NEW d \in Nat \ {0}, NEW m \in Nat
  PROVE  /\ m \div d \in Nat /\ d * (m \div d) <= m
         /\ \A e \in 0..(d - 1), a \in Nat : m = d * a + e => m \div d = a
<1>1. PICK q, r : q = m \div d /\ r = m % d
  OBVIOUS
<1>2. q \in Nat /\ r \in 0..(d - 1) /\ m = q * d + r
  BY <1>1, DivMod
<1>3. ASSUME NEW e \in 0..(d - 1), NEW a \in Nat, m = d * a + e  PROVE q = a
  <2>1. q * d + r = a * d + e
    BY <1>2, <1>3
  <2> QED BY <2>1, <1>2, StrideUnique
<1>4. d * q <= m
  BY <1>2
<1> QED BY <1>1, <1>2, <1>3, <1>4

\* The bytes of a row of the picture, of the file, and the length.
LEMMA FileSizes ==
  ASSUME NEW f, Readable(f)
  PROVE  /\ f.rows \in Nat \ {0} /\ f.cols \in Nat \ {0} /\ Length(f) \in Nat
         /\ f.data \in [0..(Length(f) - 1) -> Int]
         /\ 3 * f.cols \in Nat \ {0} /\ 3 * f.rows * f.cols = f.rows * (3 * f.cols)
         /\ Gap(f) \in Nat /\ f.rows * (3 * f.cols + Gap(f)) <= Length(f)
         /\ RowsAt4(3 * f.cols) \in Nat /\ f.rows * RowsAt4(3 * f.cols) <= Length(f)
         /\ Trailing(f) < f.rows => 3 * f.cols + Gap(f) = RowsAt4(3 * f.cols)
         /\ Trailing(f) = Length(f) - f.rows * RowsAt4(3 * f.cols) /\ Trailing(f) \in Nat
<1>1. PICK R, C, L, w, A, g : /\ R = f.rows /\ C = f.cols /\ L = Length(f)
                              /\ w = 3 * C /\ A = RowsAt4(w) /\ g = Gap(f)
  OBVIOUS
<1>2. R \in Nat \ {0} /\ C \in Nat \ {0} /\ L \in Nat /\ f.data \in [0..(L - 1) -> Int]
  BY <1>1 DEF Readable
<1>3. w \in Nat \ {0} /\ 3 * R * C = R * w /\ R * w \in Nat
  BY <1>1, <1>2
<1>4. A \in Nat /\ w <= A
  BY <1>1, <1>3, FilledUp
<1>5. PICK T, z : T = Trailing(f) /\ z = R * A
  OBVIOUS
<1>6. z \in Nat /\ T = L - z /\ 0 <= T
  BY <1>1, <1>2, <1>4, <1>5 DEF Readable, Trailing
<1>7. T \in Nat /\ z <= L
  BY <1>2, <1>6
<1>8. PICK m : m = L - R * w
  OBVIOUS
<1>9. R * w <= z
  BY <1>2, <1>3, <1>4, <1>5
<1>10. m \in Nat /\ g = m \div R
  <2>1. m \in Nat
    BY <1>2, <1>3, <1>7, <1>8, <1>9, <1>6
  <2>2. g = (L - 3 * R * C) \div R
    BY <1>1 DEF Gap
  <2> QED BY <2>1, <2>2, <1>3, <1>8
<1>11. g \in Nat /\ R * g <= m
  BY <1>2, <1>10, Quotient
<1>12. R * (w + g) <= L
  <2>1. R * (w + g) = R * w + R * g
    BY <1>2, <1>3, <1>11
  <2>2. PICK u, v : u = R * w /\ v = R * g
    OBVIOUS
  <2>3. u \in Nat /\ v \in Nat
    BY <2>2, <1>2, <1>3, <1>11
  <2> QED BY <2>1, <2>2, <2>3, <1>2, <1>8, <1>11
<1>13. ASSUME T < R  PROVE w + g = A
  <2>1. PICK a : a = A - w
    OBVIOUS
  <2>2. a \in Nat
    BY <2>1, <1>3, <1>4
  <2>3. R * a = z - R * w
    BY <2>1, <1>2, <1>3, <1>4, <1>5
  <2>4. m = R * a + T
    <3>1. PICK u, v : u = R * w /\ v = R * a
      OBVIOUS
    <3>2. u \in Nat /\ v \in Nat
      BY <3>1, <2>2, <1>2, <1>3
    <3> QED BY <3>1, <3>2, <2>3, <1>2, <1>6, <1>8
  <2>5. T \in 0..(R - 1)
    BY <1>7, <1>13, <1>2
  <2>6. g = a
    BY <2>2, <2>4, <2>5, <1>2, <1>10, Quotient
  <2> QED BY <2>1, <2>6, <1>3, <1>4
<1> QED BY <1>1, <1>2, <1>3, <1>4, <1>5, <1>6, <1>7, <1>11, <1>12, <1>13

-----------------------------------------------------------------------------
(***************************************************************************)
(* The loop of initialImage.  Byte x of the picture stands in the file     *)
(* behind the paddings of the rows before it.                              *)
(***************************************************************************)
Skipped(f, x) == (x \div (3 * f.cols)) * Gap(f)

LEMMA ByteInFile ==
  ASSUME NEW f, Readable(f), NEW x \in 0..(3 * f.rows * f.cols - 1)
  PROVE  /\ Skipped(f, x) \in Nat /\ x + Skipped(f, x) \in 0..(Length(f) - 1)
         /\ (x \div (3 * f.cols)) * (3 * f.cols + Gap(f)) + (x % (3 * f.cols)) = x + Skipped(f, x)
<1>1. PICK R, L, w, g, q, r : /\ R = f.rows /\ L = Length(f) /\ w = 3 * f.cols /\ g = Gap(f)
                              /\ q = x \div w /\ r = x % w
  OBVIOUS
<1>2. R \in Nat \ {0} /\ L \in Nat /\ w \in Nat \ {0} /\ g \in Nat /\ R * (w + g) <= L /\ x \in 0..(R * w - 1)
  BY <1>1, FileSizes
<1>3. q \in 0..(R - 1) /\ r \in 0..(w - 1) /\ x = q * w + r
  BY <1>1, <1>2, StrideCover
<1>4. PICK s : s = w + g
  OBVIOUS
<1>5. s \in Nat /\ r \in 0..(s - 1) /\ q * s = q * w + q * g
  BY <1>2, <1>3, <1>4
<1>6. q * s + r \in 0..(R * s - 1)
  BY <1>2, <1>3, <1>5, StrideRange
<1>7. q * s + r \in 0..(L - 1)
  BY <1>2, <1>4, <1>6
<1>8. q * g \in Nat /\ q * s + r = x + q * g
  BY <1>2, <1>3, <1>5
<1> QED BY <1>1, <1>4, <1>7, <1>8 DEF Skipped

\* One byte further: the next row begins behind the last byte of one.
LEMMA NextByte ==
  ASSUME NEW w \in Nat \ {0}, NEW j \in Nat
  PROVE  (j + 1) \div w = IF j % w = w - 1 THEN j \div w + 1 ELSE j \div w
<1>1. PICK q, r : q = j \div w /\ r = j % w
  OBVIOUS
<1>2. q \in Nat /\ r \in 0..(w - 1) /\ j = q * w + r
  BY <1>1, DivMod
<1>3. CASE r = w - 1
  <2>1. PICK p : p = q + 1
    OBVIOUS
  <2>2. p \in Nat /\ j + 1 = p * w + 0 /\ 0 \in 0..(w - 1)
    BY <2>1, <1>2, <1>3
  <2>3. (p * w + 0) \div w = p
    BY <2>2, StrideSplit
  <2> QED BY <2>1, <2>2, <2>3, <1>1, <1>3
<1>4. CASE r # w - 1
  <2>1. PICK s : s = r + 1
    OBVIOUS
  <2>2. s \in 0..(w - 1) /\ j + 1 = q * w + s
    BY <2>1, <1>2, <1>4
  <2>3. (q * w + s) \div w = q
    BY <2>2, <1>2, StrideSplit
  <2> QED BY <2>2, <2>3, <1>1, <1>4
<1> QED BY <1>3, <1>4

-----------------------------------------------------------------------------
(***************************************************************************)
(* The inductive invariant.  Until the file is read the variables of cov   *)
(* are fresh, and the bytes before the current one are in real_data;       *)
(***************************************************************************)
BytesRead(n) == \A x \in 0..(n - 1) : real_data[x] = input.data[x + Skipped(input, x)]

Unread == phase \in {"open", "load", "overrun", "unopened"} /\ call = Request(input) /\ Fresh

Loading ==
  phase \in {"open", "load"} =>
    \E j \in 0..RealLength(input) :
      move = Skipped(input, j) /\ i = j + Skipped(input, j) /\ BytesRead(j)

(***************************************************************************)
(* then call has the image, and cov runs as it does in module Convolve.    *)
(***************************************************************************)
Read == phase \in {"cov", "written", "unopened"} /\ call = Loaded(input) /\ BytesRead(3 * input.rows * input.cols)

Output == Written(OutRows(call), OutCols(call), [k \in DOMAIN data |-> ToByte(data[k])])

FInv ==
  /\ phase \in {"open", "load", "cov", "written", "unopened", "overrun"}
  /\ input \in Files /\ i \in Nat /\ move \in Nat /\ real_data \in Buffer(RealLength(input))
  /\ IInv /\ (Unread \/ Read) /\ Loading
  /\ build = "scalar" => IF stage = "done" THEN data = ScalarCov(call) ELSE Fresh
  /\ phase = "overrun" => Trailing(input) > 0 /\ build # "scalar"
  /\ phase = "written" => stage = "done" /\ output = Output

-----------------------------------------------------------------------------
\* Reading the image changes nothing else of the call, and makes it proper.
LEMMA LoadedCall ==
  ASSUME NEW f, Readable(f)
  PROVE  /\ Shaped(Request(f)) /\ Proper(Loaded(f)) /\ Request(f) \in Calls /\ Loaded(f) \in Calls
         /\ Loaded(f).image = ImageRead(f) /\ Loaded(f).team = Request(f).team
         /\ Loaded(f).rows = f.rows /\ Loaded(f).cols = f.cols
         /\ Cells(Loaded(f)) = Cells(Request(f)) /\ Pixels(Loaded(f)) = Pixels(Request(f))
         /\ Places(Loaded(f)) = Places(Request(f))
<1>1. PICK c, d : c = Request(f) /\ d = Loaded(f)
  OBVIOUS
<1>2. /\ c = [rows |-> f.rows, cols |-> f.cols, image |-> c.image, size |-> c.size,
              krows |-> c.krows, kcols |-> c.kcols, kernel |-> c.kernel,
              stride |-> c.stride, padding |-> c.padding, team |-> c.team]
      /\ Shaped(c) /\ c \in Calls /\ d \in Calls
  BY <1>1 DEF Readable
<1>3. d = [c EXCEPT !.image = ImageRead(f)]
  BY <1>1 DEF Loaded
<1>4. /\ d.rows = c.rows /\ d.cols = c.cols /\ d.size = c.size /\ d.krows = c.krows /\ d.kcols = c.kcols
      /\ d.kernel = c.kernel /\ d.stride = c.stride /\ d.padding = c.padding /\ d.team = c.team
      /\ d.image = ImageRead(f) /\ c.rows = f.rows /\ c.cols = f.cols
  BY <1>2, <1>3
<1>5. Shaped(d)
  BY <1>2, <1>4 DEF Shaped
<1>6. Places(d) = Places(c) /\ Points(d) = Points(c)
  BY <1>4 DEF Places, OutRows, OutCols, Points
<1>7. Pixels(d) = Pixels(c) /\ Cells(d) = Cells(c)
  BY <1>6 DEF Pixels, Cells
<1>8. d.image \in [0..(d.rows * d.cols * Channels - 1) -> Int]
  <2>1. d.rows * d.cols * Channels = 3 * f.rows * f.cols
    <3>1. PICK R, C : R = f.rows /\ C = f.cols
      OBVIOUS
    <3>2. R \in Nat /\ C \in Nat
      BY <3>1, FileSizes
    <3>3. R * C * 3 = 3 * R * C
      BY <3>2
    <3> QED BY <3>1, <3>3, <1>4 DEF Channels
  <2>2. ASSUME NEW x \in 0..(3 * f.rows * f.cols - 1)
        PROVE  f.data[(x \div (3 * f.cols)) * (3 * f.cols + Gap(f)) + (x % (3 * f.cols))] \in Int
    <3>1. x + Skipped(f, x) \in 0..(Length(f) - 1)
      BY ByteInFile
    <3>2. f.data[x + Skipped(f, x)] \in Int
      BY <3>1, FileSizes
    <3> QED BY <3>2, ByteInFile
  <2> QED BY <2>1, <2>2, <1>4 DEF ImageRead
<1> QED BY <1>1, <1>2, <1>4, <1>5, <1>6, <1>7, <1>8 DEF Proper

FilesReadable == \A f \in Files : Readable(f)

LEMMA FilterInitInv == ASSUME FilesReadable, FilterInit PROVE FInv
<1>1. /\ phase = "open" /\ input \in Files /\ Init /\ call = Request(input)
      /\ i = 0 /\ move = 0 /\ real_data = Unset(RealLength(input))
  BY DEF FilterInit
<1>2. Readable(input)
  BY <1>1 DEF FilesReadable
<1>3. Fresh /\ build \in Builds /\ call \in Calls
  BY <1>1 DEF Init, Fresh
<1>4. IInv
  BY <1>1, <1>2, <1>3, LoadedCall, FreshInv
<1>5. RealLength(input) \in Nat
  BY <1>2, FileSizes DEF RealLength
<1>6. Loading
  <2>1. Skipped(input, 0) = 0
    <3>1. PICK w, g : w = 3 * input.cols /\ g = Gap(input)
      OBVIOUS
    <3>2. w \in Nat \ {0} /\ g \in Nat
      BY <3>1, <1>2, FileSizes
    <3>3. 0 \div w = 0
      BY <3>2
    <3>4. 0 * g = 0
      BY <3>2
    <3> QED BY <3>1, <3>3, <3>4 DEF Skipped
  <2>2. 0 \in 0..RealLength(input)
    BY <1>5
  <2>3. BytesRead(0)
    BY DEF BytesRead
  <2> QED BY <2>1, <2>2, <2>3, <1>1 DEF Loading
<1>7. real_data \in Buffer(RealLength(input))
  BY <1>1, <1>5, UnsetBuffer
<1> QED BY <1>1, <1>3, <1>4, <1>6, <1>7 DEF FInv, Unread, Fresh

-----------------------------------------------------------------------------
\* What the steps outside cov leave alone.
LEMMA CovStays ==
  ASSUME IInv, UNCHANGED vars
  PROVE  /\ IInv' /\ (Fresh => Fresh') /\ Output' = Output
         /\ call' = call /\ build' = build /\ stage' = stage /\ data' = data /\ disturbed' = disturbed
<1>1. UNCHANGED <<build, call, stage, place, iter, pc, reg, p3, sum, finaldata, data, disturbed>>
  BY DEF vars
<1>2. Fresh => Fresh'
  BY <1>1 DEF Fresh, Starting, First, Team
<1> QED BY <1>1, <1>2, StutterStep DEF Output

LEMMA OpenStep == ASSUME FInv, Open PROVE FInv'
<1>1. /\ phase = "open" /\ phase' \in {"load", "unopened"}
      /\ UNCHANGED <<vars, input, output, i, move, real_data>>
  BY DEF Open
<1>2. /\ IInv' /\ (Fresh => Fresh') /\ call' = call /\ build' = build /\ stage' = stage /\ data' = data
  BY <1>1, CovStays DEF FInv
<1>3. Unread /\ Loading
  BY <1>1 DEF FInv, Read
<1>4. Unread'
  BY <1>1, <1>2, <1>3 DEF Unread
<1>5. Loading'
  <2>1. PICK j \in 0..RealLength(input) : move = Skipped(input, j) /\ i = j + Skipped(input, j) /\ BytesRead(j)
    BY <1>1, <1>3 DEF Loading
  <2> QED BY <2>1, <1>1, <1>2 DEF Loading, BytesRead, RealLength
<1> QED BY <1>1, <1>2, <1>4, <1>5 DEF FInv, RealLength

LEMMA LoadByteStep == ASSUME FilesReadable, FInv, LoadByte PROVE FInv'
<1>1. /\ phase = "load" /\ i < Length(input) /\ UNCHANGED <<vars, input, output>>
  BY DEF LoadByte
<1>2. /\ IInv' /\ (Fresh => Fresh') /\ call' = call /\ build' = build /\ stage' = stage /\ data' = data
  BY <1>1, CovStays DEF FInv
<1>3. Unread /\ Loading
  BY <1>1 DEF FInv, Read
<1>4. PICK R, L, w, g, A : /\ R = input.rows /\ L = Length(input) /\ w = 3 * input.cols /\ g = Gap(input)
                           /\ A = RowsAt4(3 * input.cols)
  OBVIOUS
<1>5. /\ R \in Nat \ {0} /\ L \in Nat /\ w \in Nat \ {0} /\ g \in Nat /\ A \in Nat /\ Readable(input)
      /\ input.data \in [0..(L - 1) -> Int] /\ RealLength(input) = (IF build = "scalar" THEN L ELSE R * w)
      /\ Trailing(input) = L - R * A /\ Trailing(input) \in Nat /\ (Trailing(input) < R => w + g = A)
  BY <1>4, FileSizes DEF FInv, FilesReadable, RealLength
<1>6. RealLength(input) \in Nat
  BY <1>5
<1>7. PICK j \in 0..RealLength(input) : move = Skipped(input, j) /\ i = j + Skipped(input, j) /\ BytesRead(j)
  BY <1>1, <1>3 DEF Loading
<1>8. PICK N, q, s : N = RealLength(input) /\ q = j \div w /\ s = q * g
  OBVIOUS
<1>9. /\ N \in Nat /\ j \in 0..N /\ q \in Nat /\ s \in Nat
      /\ move = s /\ i = j + s /\ i - move = j /\ i \in 0..(L - 1)
  <2>1. N \in Nat /\ j \in 0..N /\ j \in Nat
    BY <1>6, <1>8
  <2>2. q \in Nat
    BY <2>1, <1>5, <1>8, DivMod
  <2>3. s \in Nat
    BY <2>2, <1>5, <1>8
  <2>4. Skipped(input, j) = s
    BY <1>4, <1>8 DEF Skipped
  <2>5. move = s /\ i = j + s
    BY <2>4, <1>7
  <2>6. i - move = j /\ i \in 0..(L - 1)
    BY <2>1, <2>3, <2>5, <1>1, <1>4, <1>5
  <2> QED BY <2>1, <2>2, <2>3, <2>5, <2>6
<1>10. DOMAIN real_data = 0..(N - 1) /\ real_data \in Buffer(N)
  BY <1>8 DEF FInv, Buffer
<1>11. CASE j \in 0..(N - 1)
  <2>1. /\ real_data' = [real_data EXCEPT ![j] = input.data[i]]
        /\ move' = (IF RowEnds THEN s + g ELSE s)
        /\ i' = (IF RowEnds THEN j + s + g + 1 ELSE j + s + 1)
        /\ phase' = "load"
    BY <1>1, <1>4, <1>9, <1>10, <1>11 DEF LoadByte
  <2>2. RowEnds <=> j % w = w - 1
    BY <1>4, <1>9 DEF RowEnds
  <2>3. PICK m : m = j + 1
    OBVIOUS
  <2>4. m \in 0..N /\ 0..(m - 1) = (0..(j - 1)) \cup {j}
    BY <2>3, <1>9, <1>11
  <2>5. Skipped(input, m) = (IF RowEnds THEN s + g ELSE s)
    <3>1. m \div w = IF j % w = w - 1 THEN q + 1 ELSE q
      <4>1. j \in Nat
        BY <1>9
      <4> QED BY <4>1, <2>3, <1>5, <1>8, NextByte
    <3>2. (q + 1) * g = s + g
      BY <1>5, <1>8, <1>9
    <3>3. Skipped(input, m) = (m \div w) * g
      BY <1>4 DEF Skipped
    <3> QED BY <3>1, <3>2, <3>3, <2>2, <1>8
  <2>6. i' = m + Skipped(input, m) /\ move' = Skipped(input, m)
    <3>1. j \in Nat
      BY <1>9
    <3>2. CASE RowEnds
      <4>1. i' = j + s + g + 1 /\ move' = s + g /\ Skipped(input, m) = s + g
        BY <2>1, <2>5, <3>2
      <4> QED BY <4>1, <3>1, <2>3, <1>5, <1>9
    <3>3. CASE ~RowEnds
      <4>1. i' = j + s + 1 /\ move' = s /\ Skipped(input, m) = s
        BY <2>1, <2>5, <3>3
      <4> QED BY <4>1, <3>1, <2>3, <1>5, <1>9
    <3> QED BY <3>2, <3>3
  <2>7. i' \in Nat /\ move' \in Nat
    BY <2>1, <1>5, <1>9
  <2>8. real_data' \in Buffer(N)
    <3>1. input.data[i] \in Int
      BY <1>5, <1>9
    <3> QED BY <3>1, <2>1, <1>10 DEF Buffer
  <2>9. BytesRead(m)'
    <3>1. \A x \in 0..(j - 1) : real_data'[x] = input.data[x + Skipped(input, x)]
      BY <2>1, <1>7, <1>9, <1>10, <1>11 DEF BytesRead
    <3>2. real_data'[j] = input.data[j + Skipped(input, j)]
      BY <2>1, <1>7, <1>10, <1>11
    <3> QED BY <3>1, <3>2, <2>4, <1>1 DEF BytesRead
  <2>10. Loading'
    BY <2>4, <2>6, <2>9, <1>1, <1>2, <1>8 DEF Loading, RealLength
  <2>11. Unread'
    BY <2>1, <1>1, <1>2, <1>3 DEF Unread
  <2> QED BY <2>1, <2>7, <2>8, <2>10, <2>11, <1>1, <1>2, <1>8 DEF FInv, RealLength
<1>12. CASE j \notin 0..(N - 1)
  <2>1. j = N
    BY <1>9, <1>12
  <2>2. UNCHANGED <<i, move, real_data>> /\ phase' = "overrun"
    BY <1>9, <1>10, <1>12 DEF LoadByte
  <2>3. build # "scalar"
    <3>1. N # L
      BY <2>1, <1>5, <1>9
    <3>2. build = "scalar" => N = L
      BY <1>5, <1>8
    <3> QED BY <3>1, <3>2
  <2>4. Trailing(input) > 0
    <3>1. SUFFICES ASSUME Trailing(input) = 0  PROVE FALSE
      BY <1>5
    <3>2. w + g = A /\ L = R * A
      <4>1. PICK z : z = R * A
        OBVIOUS
      <4>2. z \in Nat
        BY <4>1, <1>5
      <4> QED BY <3>1, <4>1, <4>2, <1>5
    <3>3. q = R
      <4>1. N = R * w + 0 /\ 0 \in 0..(w - 1)
        BY <2>3, <1>5, <1>8
      <4>2. (R * w + 0) \div w = R
        BY <1>5, <4>1, StrideSplit
      <4> QED BY <4>1, <4>2, <2>1, <1>8
    <3>4. R * A = R * w + R * g
      BY <3>2, <1>5
    <3> QED BY <2>1, <2>3, <3>2, <3>3, <3>4, <1>5, <1>8, <1>9
  <2>5. Unread'
    BY <2>2, <1>1, <1>2, <1>3 DEF Unread
  <2> QED BY <2>2, <2>3, <2>4, <2>5, <1>1, <1>2 DEF FInv, RealLength, Loading
<1> QED BY <1>11, <1>12

LEMMA FreshNext == (build \in Builds /\ call \in Calls /\ Shaped(call) /\ Fresh)' => IInv'
BY FreshInv, PTL

LEMMA EndLoadStep == ASSUME FilesReadable, FInv, EndLoad PROVE FInv'
<1>1. /\ phase = "load" /\ i >= Length(input) /\ phase' = "cov"
      /\ call' = [call EXCEPT !.image = [x \in 0..(3 * input.rows * input.cols - 1) |-> real_data[x]]]
      /\ UNCHANGED <<build, stage, place, iter, pc, reg, p3, sum, finaldata, data, disturbed,
                     input, output, i, move, real_data>>
  BY DEF EndLoad
<1>2. Unread /\ Loading /\ Readable(input) /\ build \in Builds
  BY <1>1 DEF FInv, Read, FilesReadable, IInv, TypeOK
<1>3. PICK R, L, w, g : R = input.rows /\ L = Length(input) /\ w = 3 * input.cols /\ g = Gap(input)
  OBVIOUS
<1>4. /\ R \in Nat \ {0} /\ L \in Nat /\ w \in Nat \ {0} /\ g \in Nat /\ R * (w + g) <= L
      /\ 3 * input.rows * input.cols = R * w /\ RealLength(input) \in Nat
  <2>1. /\ R \in Nat \ {0} /\ L \in Nat /\ w \in Nat \ {0} /\ g \in Nat /\ R * (w + g) <= L
        /\ 3 * input.rows * input.cols = R * w
    BY <1>2, <1>3, FileSizes
  <2>2. R * w \in Nat
    BY <2>1
  <2> QED BY <2>1, <2>2, <1>3 DEF RealLength
<1>5. PICK j \in 0..RealLength(input) : i = j + Skipped(input, j) /\ BytesRead(j)
  BY <1>1, <1>2 DEF Loading
<1>6. BytesRead(R * w)
  <2>1. PICK q, r, s : q = j \div w /\ r = j % w /\ s = w + g
    OBVIOUS
  <2>2. j \in Nat
    BY <1>4
  <2>3. q \in Nat /\ r \in 0..(w - 1) /\ j = q * w + r
    BY <2>1, <2>2, <1>4, DivMod
  <2>4. i = j + q * g
    BY <2>1, <1>3, <1>5 DEF Skipped
  <2>5. ASSUME j < R * w  PROVE FALSE
    <3>1. j \in 0..(R * w - 1)
      BY <2>2, <2>5, <1>4
    <3>2. q \in 0..(R - 1)
      BY <3>1, <2>1, <1>4, StrideCover
    <3>3. s \in Nat /\ r \in 0..(s - 1)
      BY <2>1, <2>3, <1>4
    <3>4. q * s + r \in 0..(R * s - 1)
      BY <3>2, <3>3, <1>4, StrideRange
    <3>5. q * s = q * w + q * g
      BY <2>1, <2>3, <1>4
    <3>6. i = q * s + r
      BY <3>5, <2>3, <2>4, <1>4
    <3> QED BY <3>4, <3>6, <2>1, <1>1, <1>3, <1>4
  <2>6. R * w \in Nat /\ R * w <= j
    BY <2>2, <2>5, <1>4
  <2>7. \A x \in 0..(R * w - 1) : x \in 0..(j - 1)
    BY <2>2, <2>6
  <2> QED BY <2>7, <1>5 DEF BytesRead
<1>7. call' = Loaded(input)
  <2>1. \A x \in 0..(3 * input.rows * input.cols - 1) : real_data[x] =
          input.data[(x \div (3 * input.cols)) * (3 * input.cols + Gap(input)) + (x % (3 * input.cols))]
    BY <1>2, <1>4, <1>6, ByteInFile DEF BytesRead
  <2>2. [x \in 0..(3 * input.rows * input.cols - 1) |-> real_data[x]] = ImageRead(input)
    BY <2>1 DEF ImageRead
  <2> QED BY <2>2, <1>1, <1>2 DEF Loaded, Unread
<1>8. PICK d : d = Loaded(input)
  OBVIOUS
<1>9. /\ Shaped(d) /\ d \in Calls /\ d.team = call.team
      /\ Cells(d) = Cells(call) /\ Pixels(d) = Pixels(call) /\ Places(d) = Places(call)
  BY <1>2, <1>8, LoadedCall DEF Unread, Proper
<1>10. call' = d /\ Team' = Team
  BY <1>7, <1>8, <1>9 DEF Team
<1>11. Fresh'
  <2>1. \A n : Starting(n)' = Starting(n)
    BY <1>9, <1>10 DEF Starting, First
  <2> QED BY <2>1, <1>1, <1>2, <1>9, <1>10 DEF Unread, Fresh
<1>12. IInv'
  BY <1>1, <1>2, <1>9, <1>10, <1>11, FreshNext
<1>13. Read'
  BY <1>1, <1>4, <1>6, <1>7 DEF Read, BytesRead
<1>14. stage' = "mul"
  BY <1>1, <1>2 DEF Unread, Fresh
<1>15. real_data' \in Buffer(RealLength(input)') /\ i' \in Nat /\ move' \in Nat /\ input' \in Files
  BY <1>1 DEF FInv, RealLength
<1> QED BY <1>1, <1>11, <1>12, <1>13, <1>14, <1>15 DEF FInv, Loading

-----------------------------------------------------------------------------
\* In the phase "cov" the call is proper.
LEMMA CallRead == ASSUME FilesReadable, FInv, phase \in {"cov", "written"}
  PROVE  Proper(call) /\ Read /\ Readable(input) /\ call.image = ImageRead(input)
<1>1. Read
  BY DEF FInv, Unread
<1> QED BY <1>1, LoadedCall DEF Read, FInv, FilesReadable

LEMMA CovKeeps ==
  ASSUME FInv, Read, phase = "cov", UNCHANGED <<file, build, call>>, IInv',
         build = "scalar" => stage' = "done" /\ data' = ScalarCov(call)
  PROVE  FInv'
<1>1. UNCHANGED <<phase, input, output, i, move, real_data>>
  BY DEF file
<1>2. Read'
  BY <1>1 DEF Read, BytesRead
<1> QED BY <1>1, <1>2 DEF FInv, RealLength, Loading

LEMMA CovThreadStep == ASSUME FilesReadable, FInv, NEW t \in Team, CovThread(t) PROVE FInv'
<1>1. phase = "cov" /\ build # "scalar" /\ Thread(t) /\ UNCHANGED file
  BY DEF CovThread
<1>2. Proper(call) /\ Read
  BY <1>1, CallRead
<1>3. IInv'
  BY <1>1, <1>2, ThreadStep DEF FInv
<1>4. call' = call /\ build' = build
  BY <1>1, CallStays DEF Next
<1> QED BY <1>1, <1>2, <1>3, <1>4, CovKeeps

LEMMA CovSerialStep == ASSUME FilesReadable, FInv, CovSerial PROVE FInv'
<1>1. phase = "cov" /\ build # "scalar" /\ Serial /\ UNCHANGED file
  BY DEF CovSerial
<1>2. Proper(call) /\ Read
  BY <1>1, CallRead
<1>3. IInv'
  BY <1>1, <1>2, SerialStep DEF FInv
<1>4. call' = call /\ build' = build
  BY <1>1, CallStays DEF Next
<1> QED BY <1>1, <1>2, <1>3, <1>4, CovKeeps

\* The sequential version sets everything at once.
LEMMA CovScalarStep == ASSUME FilesReadable, FInv, CovScalar PROVE FInv'
<1>1. /\ phase = "cov" /\ build = "scalar" /\ stage # "done" /\ stage' = "done" /\ data' = ScalarCov(call)
      /\ UNCHANGED <<build, call, place, iter, pc, reg, p3, sum, finaldata, disturbed, file>>
  BY DEF CovScalar
<1>2. Proper(call) /\ Read
  BY <1>1, CallRead
<1>3. PICK n : n = Places(call)
  OBVIOUS
<1>4. ASSUME NEW k \in 0..(n - 1)
      PROVE  ScalarCov(call)[k] = Convolution(call)[k] /\ ScalarCov(call)[k] \in Int
  <2>1. ScalarCov(call)[k] = Convolution(call)[k]
    BY <1>2, <1>3, ScalarSum
  <2>2. PICK f, w : f = PixelsOf(call, k) /\ w = Points(call)
    OBVIOUS
  <2>3. \A p \in 0..(w - 1) : f[p] \in Int
    BY <2>2, <1>2, <1>3, PixelOfPlace
  <2>4. IsFiniteSet(0..(w - 1))
    BY <2>2, <1>2, CallSizes, FS_Interval DEF Proper
  <2>5. SumFunctionOnSet(f, 0..(w - 1)) \in Int
    BY <2>3, <2>4, SumInt
  <2> QED BY <2>1, <2>2, <2>5, <1>2, <1>3, PlaceSum
<1>5. data' \in Buffer(n) /\ \A k \in 0..(n - 1) : data'[k] = Convolution(call)[k]
  <2>1. DOMAIN ScalarCov(call) = 0..(n - 1) /\ ScalarCov(call) = [k \in 0..(n - 1) |-> ScalarCov(call)[k]]
    BY <1>3 DEF ScalarCov
  <2> QED BY <2>1, <1>1, <1>4 DEF Buffer
<1>6. Fresh /\ TypeOK
  BY <1>1 DEF FInv, IInv
<1>7. Team' = Team /\ \A t \in Team : pc[t] = 1
  BY <1>1, <1>6 DEF Team, Fresh
<1>8. TypeOK'
  <2>1. Body' = 1 /\ pc' \in [Team' -> 1..1]
    BY <1>1, <1>6, <1>7 DEF Body, Fresh
  <2> QED BY <2>1, <1>1, <1>3, <1>5, <1>6, <1>7 DEF TypeOK
<1>9. Chunked' /\ Turn' /\ MulWritten' /\ AddWritten' /\ AccWritten' /\ OwnPoints'
  BY <1>1 DEF Chunked, Looping, Turn, MulWritten, AddWritten, AccWritten, OwnPoints
<1>10. MulExact' /\ AddExact' /\ AccExact'
  BY <1>1, <1>3, <1>5 DEF MulExact, AddExact, AccExact
<1>11. IInv'
  BY <1>8, <1>9, <1>10 DEF IInv
<1> QED BY <1>1, <1>2, <1>11, CovKeeps

-----------------------------------------------------------------------------
LEMMA WriteStep == ASSUME FilesReadable, FInv, WriteBMP PROVE FInv'
<1>1. /\ phase = "cov" /\ stage = "done" /\ UNCHANGED <<vars, input, i, move, real_data>>
      /\ phase' \in {"written", "unopened"} /\ (phase' = "written" => output' = Output)
  BY DEF WriteBMP, Output
<1>2. /\ IInv' /\ (Fresh => Fresh') /\ Output' = Output
      /\ call' = call /\ build' = build /\ stage' = stage /\ data' = data
  BY <1>1, CovStays DEF FInv
<1>3. Read
  BY <1>1, CallRead
<1>4. Read'
  BY <1>1, <1>2, <1>3 DEF Read, BytesRead
<1> QED BY <1>1, <1>2, <1>4 DEF FInv, RealLength, Loading

LEMMA FilterStutter == ASSUME FInv, UNCHANGED all PROVE FInv'
<1>1. UNCHANGED vars /\ UNCHANGED <<phase, input, output, i, move, real_data>>
  BY DEF all, file
<1>2. /\ IInv' /\ (Fresh => Fresh') /\ Output' = Output
      /\ call' = call /\ build' = build /\ stage' = stage /\ data' = data
  BY <1>1, CovStays DEF FInv
<1>3. Unread \/ Read => (Unread \/ Read)'
  BY <1>1, <1>2 DEF Unread, Read, BytesRead
<1>4. Loading'
  BY <1>1, <1>2 DEF FInv, Loading, BytesRead, RealLength
<1> QED BY <1>1, <1>2, <1>3, <1>4 DEF FInv, RealLength

LEMMA FilterStep == ASSUME FilesReadable, FInv, [FilterNext]_all PROVE FInv'
<1>1. CASE Main
  BY <1>1, OpenStep, LoadByteStep, EndLoadStep, CovSerialStep, CovScalarStep, WriteStep DEF Main
<1>2. ASSUME NEW t \in Team, CovThread(t)  PROVE FInv'
  BY <1>2, CovThreadStep
<1>3. CASE UNCHANGED all
  BY <1>3, FilterStutter
<1> QED BY <1>1, <1>2, <1>3 DEF FilterNext, Ended

-----------------------------------------------------------------------------
(***************************************************************************)
(* What the invariant says of the properties of ImageFilter.               *)
(***************************************************************************)
LEMMA ReadsPicture ==
  ASSUME NEW f, Readable(f), Trailing(f) < f.rows
  PROVE  ImageRead(f) = Picture(f)
BY FileSizes DEF ImageRead, Picture

LEMMA InvLoads == ASSUME FilesReadable, FInv PROVE LoadsPicture
<1>1. ASSUME phase \in {"cov", "written"}, Plain  PROVE call.image = Picture(input)
  BY <1>1, CallRead, ReadsPicture DEF Plain
<1>2. phase = "overrun" => Trailing(input) > 0 /\ build # "scalar"
  BY DEF FInv
<1> QED BY <1>1, <1>2 DEF LoadsPicture

\* The file written: its length, and the byte of a pixel.
LEMMA WrittenFile ==
  ASSUME NEW R \in Nat, NEW C \in Nat, NEW value, NEW out, out = Written(R, C, value)
  PROVE  /\ Length(out) = out.rows * RowsAt4(out.cols) /\ out.size = 54 + 1024 + Length(out)
         /\ \A x \in 0..(R - 1), y \in 0..(C - 1) : Grey(out, x, y) = value[y + C * x]
<1>1. PICK W, p : W = C + RowPadding(C) /\ p = RowPadding(C)
  OBVIOUS
<1>2. W \in Nat /\ W = RowsAt4(C) /\ C <= W /\ W - p = C
  BY <1>1, FilledUp
<1>3. /\ out.rows = R /\ out.cols = C /\ out.size = W * R + 54 + 1024
      /\ out.data = [q \in 0..(R * W - 1) |->
                       IF q % W >= W - p THEN 0 ELSE value[(q % W) + C * (q \div W)]]
  BY <1>1 DEF Written
<1>4. Length(out) = R * W
  <2>1. PICK m : m = R * W
    OBVIOUS
  <2>2. m \in Nat
    BY <2>1, <1>2
  <2>3. DOMAIN out.data = 0..(m - 1)
    BY <2>1, <1>3
  <2>4. Cardinality(0..(m - 1)) = m
    BY <2>2, FS_Interval
  <2> QED BY <2>1, <2>3, <2>4 DEF Length
<1>5. out.size = 54 + 1024 + Length(out)
  <2>1. W * R = R * W /\ R * W \in Nat
    BY <1>2
  <2> QED BY <2>1, <1>3, <1>4
<1>6. ASSUME NEW x \in 0..(R - 1), NEW y \in 0..(C - 1)  PROVE Grey(out, x, y) = value[y + C * x]
  <2>1. PICK q : q = x * W + y
    OBVIOUS
  <2>2. y \in 0..(W - 1) /\ W \in Nat \ {0} /\ x \in Nat
    BY <1>2
  <2>3. q \in 0..(R * W - 1)
    BY <2>1, <2>2, StrideRange
  <2>4. q \div W = x /\ q % W = y
    BY <2>1, <2>2, StrideSplit
  <2>5. ~(y >= W - p)
    BY <1>2
  <2>6. out.data[q] = value[y + C * x]
    BY <2>3, <2>4, <2>5, <1>3
  <2> QED BY <2>1, <2>6, <1>2, <1>3 DEF Grey
<1> QED BY <1>2, <1>3, <1>4, <1>5, <1>6

\* The places of the first kernel.
LEMMA FirstKernel ==
  ASSUME NEW c, Shaped(c), NEW x \in 0..(OutRows(c) - 1), NEW y \in 0..(OutCols(c) - 1)
  PROVE  /\ OutRows(c) \in Nat /\ OutCols(c) \in Nat /\ y + OutCols(c) * x \in 0..(Places(c) - 1)
         /\ Convolution(c)[y + OutCols(c) * x] = ConvolvedAt(c, 0, x, y)
<1>1. PICK R, C, n, k, m : /\ R = OutRows(c) /\ C = OutCols(c) /\ n = c.size
                           /\ k = y + C * x /\ m = R * C
  OBVIOUS
<1>2. R \in Nat /\ C \in Nat /\ n \in Nat \ {0} /\ x \in 0..(R - 1) /\ y \in 0..(C - 1)
  BY <1>1, CallSizes, CallTypes
<1>3. C \in Nat \ {0} /\ R \in Nat \ {0} /\ x \in Nat /\ k = x * C + y
  BY <1>1, <1>2
<1>4. k \in 0..(m - 1) /\ k \div C = x /\ k % C = y
  <2>1. x * C + y \in 0..(R * C - 1)
    BY <1>2, <1>3, StrideRange
  <2>2. (x * C + y) \div C = x /\ (x * C + y) % C = y
    BY <1>2, <1>3, StrideSplit
  <2> QED BY <2>1, <2>2, <1>1, <1>3
<1>5. m \in Nat \ {0} /\ k = 0 * m + k /\ 0 \in Nat
  <2>1. m \in Nat
    BY <1>1, <1>3
  <2>2. k \in Nat /\ m # 0
    BY <2>1, <1>4
  <2>3. 0 * m = 0
    BY <2>1
  <2> QED BY <2>1, <2>2, <2>3
<1>6. k \div m = 0
  BY <1>4, <1>5, StrideSplit
<1>7. 0 \in 0..(n - 1)
  BY <1>2
<1>8. k \in 0..(n * m - 1)
  BY <1>2, <1>4, <1>5
<1>9. n * m = Places(c)
  BY <1>1, <1>2 DEF Places
<1>10. x % R = x
  BY <1>2, <1>3
<1>11. k \in 0..(Places(c) - 1)
  BY <1>8, <1>9
<1>12. Convolution(c)[k] = ConvolvedAt(c, k \div m, (k \div C) % R, k % C)
  BY <1>1, <1>11 DEF Convolution
<1> QED BY <1>1, <1>2, <1>4, <1>6, <1>10, <1>11, <1>12

LEMMA InvShows == ASSUME FilesReadable, FInv PROVE ShowsConvolution
<1> SUFFICES ASSUME phase = "written"  PROVE ShowsConvolution
  BY DEF ShowsConvolution
<1>1. PICK R, C, value : R = OutRows(call) /\ C = OutCols(call) /\ value = [k \in DOMAIN data |-> ToByte(data[k])]
  OBVIOUS
<1>2. stage = "done" /\ output = Written(R, C, value)
  BY <1>1 DEF FInv, Output
<1>3. Proper(call) /\ Shaped(call) /\ Read /\ call.image = ImageRead(input) /\ Readable(input)
  BY CallRead DEF Proper
<1>4. R \in Nat /\ C \in Nat
  BY <1>1, <1>3, CallSizes
<1>5. /\ Length(output) = output.rows * RowsAt4(output.cols) /\ output.size = 54 + 1024 + Length(output)
      /\ \A x \in 0..(R - 1), y \in 0..(C - 1) : Grey(output, x, y) = value[y + C * x]
  BY <1>2, <1>4, WrittenFile
<1>6. ASSUME Plain, NEW x \in 0..(R - 1), NEW y \in 0..(C - 1),
             NEW k, k = C * x + y, build = "scalar" \/ ~DisturbedPlace(k)
      PROVE  Grey(output, x, y) =
               IF UnsetPlace(k) THEN Garbage
               ELSE ToByte(ConvolvedAt([call EXCEPT !.image = Picture(input)], 0, x, y))
  <2>1. k = y + C * x
    <3>1. C * x \in Nat /\ x \in Nat /\ y \in Nat
      BY <1>4
    <3> QED BY <3>1, <1>6
  <2>2. k \in 0..(Places(call) - 1) /\ Convolution(call)[k] = ConvolvedAt(call, 0, x, y)
    BY <2>1, <1>1, <1>3, FirstKernel
  <2>3. [call EXCEPT !.image = Picture(input)] = call
    <3>1. call = [Request(input) EXCEPT !.image = ImageRead(input)]
      BY <1>3 DEF Read, Loaded
    <3>2. ImageRead(input) = Picture(input)
      BY <1>3, <1>6, ReadsPicture DEF Plain
    <3> QED BY <3>1, <3>2
  <2>4. DOMAIN data = 0..(Places(call) - 1)
    BY DEF FInv, IInv, TypeOK, Buffer
  <2>5. Grey(output, x, y) = ToByte(data[k])
    BY <2>1, <2>2, <2>4, <1>1, <1>5, <1>6
  <2>6. data[k] = IF UnsetPlace(k) THEN Garbage ELSE Convolution(call)[k]
    <3>1. CASE build = "scalar"
      <4>1. data = ScalarCov(call)
        BY <3>1, <1>2 DEF FInv
      <4> QED BY <3>1, <4>1, <2>2, <1>3, ScalarSum DEF UnsetPlace
    <3>2. CASE ~DisturbedPlace(k)
      BY <3>2, <2>2, <1>2, <1>3, PlaceValue DEF FInv
    <3> QED BY <3>1, <3>2, <1>6
  <2>7. ToByte(Garbage) = Garbage
    BY DEF ToByte
  <2> QED BY <2>2, <2>3, <2>5, <2>6, <2>7
<1> QED BY <1>1, <1>5, <1>6 DEF ShowsConvolution

\* Byte h of a pixel: where it was read to, and where the matrix class keeps it.
LEMMA PixelByte ==
  ASSUME FilesReadable, FInv, phase = "cov", Plain,
         NEW x \in 0..(input.rows - 1), NEW y \in 0..(input.cols - 1), NEW h \in 0..2
  PROVE  LET size == input.rows * input.cols
         IN  /\ y + input.cols * x \in 0..(size - 1)
             /\ Separated(real_data, size)[y + input.cols * x + h * size]
                  = input.data[x * RowsAt4(3 * input.cols) + 3 * y + h]
<1>1. PICK R, C, w, A, size, k, q : /\ R = input.rows /\ C = input.cols /\ w = 3 * input.cols
                                    /\ A = RowsAt4(3 * input.cols) /\ size = R * C
                                    /\ k = y + C * x /\ q = 3 * k + h
  OBVIOUS
<1>2. Readable(input) /\ BytesRead(3 * input.rows * input.cols)
  BY CallRead DEF Read
<1>3. /\ R \in Nat \ {0} /\ C \in Nat \ {0} /\ w \in Nat \ {0} /\ A \in Nat /\ w + Gap(input) = A
      /\ 3 * input.rows * input.cols = R * w
  BY <1>1, <1>2, FileSizes DEF Plain
<1>4. x \in 0..(R - 1) /\ x \in Nat /\ y \in 0..(C - 1) /\ y \in Nat
  BY <1>1, <1>3
<1>5. k \in 0..(size - 1) /\ size \in Nat
  <2>1. x * C + y \in 0..(R * C - 1)
    BY <1>3, <1>4, StrideRange
  <2>2. k = x * C + y /\ R * C \in Nat
    BY <1>1, <1>3, <1>4
  <2> QED BY <2>1, <2>2, <1>1
<1>6. Separated(real_data, size)[k + h * size] = real_data[q]
  <2>1. PICK p : p = h * size + k
    OBVIOUS
  <2>2. size \in Nat \ {0} /\ h \in Nat
    BY <1>5
  <2>3. (h * size + k) \div size = h /\ (h * size + k) % size = k
    BY <2>2, <1>5, StrideSplit
  <2>4. h * size + k \in 0..(3 * size - 1)
    BY <1>5, StrideRange
  <2>5. Separated(real_data, size)[p] = real_data[k * 3 + h]
    BY <2>1, <2>3, <2>4 DEF Separated
  <2>6. p = k + h * size /\ k * 3 + h = q
    <3>1. PICK u : u = h * size
      OBVIOUS
    <3>2. u \in Nat /\ p = u + k /\ k \in Nat
      BY <3>1, <2>1, <2>2, <1>5
    <3>3. q = 3 * k + h
      BY <1>1
    <3> QED BY <3>1, <3>2, <3>3, <2>2
  <2> QED BY <2>5, <2>6
<1>7. PICK r : r = 3 * y + h
  OBVIOUS
<1>8. r \in 0..(w - 1) /\ r \in Nat
  BY <1>1, <1>3, <1>4, <1>7
<1>9. q = x * w + r
  <2>1. PICK u : u = x * C
    OBVIOUS
  <2>2. u \in Nat /\ C * x = u /\ x * (3 * C) = 3 * u
    BY <2>1, <1>3, <1>4
  <2>3. x * w = 3 * u
    BY <2>2, <1>1
  <2> QED BY <2>2, <2>3, <1>1, <1>4, <1>7
<1>10. x * w + r \in 0..(R * w - 1) /\ (x * w + r) \div w = x /\ (x * w + r) % w = r
  BY <1>3, <1>4, <1>8, StrideRange, StrideSplit
<1>11. q \in 0..(3 * input.rows * input.cols - 1) /\ q \div w = x /\ q % w = r
  BY <1>3, <1>9, <1>10
<1>12. real_data[q] = input.data[q + Skipped(input, q)]
  BY <1>2, <1>11 DEF BytesRead
<1>13. q + Skipped(input, q) = x * A + r
  BY <1>1, <1>2, <1>3, <1>11, ByteInFile
<1>14. x * A + r = x * A + 3 * y + h
  <2>1. x * A \in Nat
    BY <1>3, <1>4
  <2> QED BY <2>1, <1>4, <1>7
<1> QED BY <1>1, <1>5, <1>6, <1>12, <1>13, <1>14

LEMMA InvMatrix == ASSUME FilesReadable, FInv PROVE MatrixShowsSum
<1> SUFFICES ASSUME phase = "cov", Plain  PROVE MatrixShowsSum
  BY DEF MatrixShowsSum
<1>1. PICK R, C, size, image, value, out :
        /\ R = input.rows /\ C = input.cols /\ size = input.rows * input.cols
        /\ image = Separated(real_data, size)
        /\ value = [k \in 0..(size - 1) |-> SumOfChannels(image, size, k)]
        /\ out = Written(R, C, value)
  OBVIOUS
<1>2. Readable(input)
  BY CallRead
<1>3. R \in Nat /\ C \in Nat /\ size \in Nat
  <2>1. R \in Nat /\ C \in Nat
    BY <1>1, <1>2, FileSizes
  <2> QED BY <2>1, <1>1
<1>4. ASSUME NEW x \in 0..(R - 1), NEW y \in 0..(C - 1)
      PROVE  Grey(out, x, y) = (input.data[x * RowsAt4(3 * input.cols) + 3 * y + 0]
                                + input.data[x * RowsAt4(3 * input.cols) + 3 * y + 1]
                                + input.data[x * RowsAt4(3 * input.cols) + 3 * y + 2]) % 256
  <2>1. PICK k : k = y + C * x
    OBVIOUS
  <2>2. Grey(out, x, y) = value[k]
    <3>1. \A xx \in 0..(R - 1), yy \in 0..(C - 1) : Grey(out, xx, yy) = value[yy + C * xx]
      <4>1. out = Written(R, C, value)
        BY <1>1
      <4> QED BY <4>1, <1>3, WrittenFile
    <3> QED BY <3>1, <2>1
  <2>3. /\ k \in 0..(size - 1)
        /\ \A h \in 0..2 : image[k + h * size] = input.data[x * RowsAt4(3 * input.cols) + 3 * y + h]
    BY <2>1, <1>1, <1>4, PixelByte
  <2>4. k + 0 * size = k /\ k + 1 * size = k + size
    BY <2>3, <1>3
  <2>5. /\ image[k] = input.data[x * RowsAt4(3 * input.cols) + 3 * y + 0]
        /\ image[k + size] = input.data[x * RowsAt4(3 * input.cols) + 3 * y + 1]
        /\ image[k + 2 * size] = input.data[x * RowsAt4(3 * input.cols) + 3 * y + 2]
    BY <2>3, <2>4
  <2>6. value[k] = (image[k] + image[k + size] + image[k + 2 * size]) % 256
    BY <2>3, <1>1 DEF SumOfChannels
  <2> QED BY <2>2, <2>5, <2>6
<1> QED BY <1>1, <1>4 DEF MatrixShowsSum

LEMMA InvTypes == ASSUME FInv PROVE FilterTypeOK
BY DEF FInv, FilterTypeOK, IInv

\* cov's own properties: before the image is read nothing has been stored.
LEMMA InvCov == ASSUME FilesReadable, FInv PROVE ExactUnlessDisturbed /\ VersionsAgree /\ PlacesCovered
<1>1. Readable(input)
  BY DEF FInv, FilesReadable
<1>2. CASE Read
  <2>1. Proper(call)
    BY <1>1, <1>2, LoadedCall DEF Read
  <2> QED BY <2>1, InvExact, InvVersions, Geometry DEF FInv, Proper
<1>3. CASE Unread
  <2>1. stage = "mul" /\ Shaped(call)
    BY <1>1, <1>3, LoadedCall DEF Unread, Fresh
  <2> QED BY <2>1, Geometry DEF ExactUnlessDisturbed, VersionsAgree
<1> QED BY <1>2, <1>3 DEF FInv
-----------------------------------------------------------------------------
(***************************************************************************)
(* The programs, for every readable file and every request of cov.         *)
(***************************************************************************)
THEOREM FilterInvariance == ASSUME FilesReadable PROVE FilterSpec => []FInv
BY FilterInitInv, FilterStep, PTL DEF FilterSpec

\* Every variable has its type.
THEOREM FilterTypes == ASSUME FilesReadable PROVE FilterSpec => []FilterTypeOK
BY FilterInvariance, InvTypes, PTL

\* The loop that skips the paddings reads the picture, for every width, and
\* overruns real_data only if bytes follow the picture.
THEOREM ReadsThePicture == ASSUME FilesReadable PROVE FilterSpec => []LoadsPicture
BY FilterInvariance, InvLoads, PTL

\* For a plain file, the byte written for a place that no other thread has
\* disturbed (in the scalar build for every place) is the convolution of the
\* picture with the first kernel, or never set where no schedule computes one.
THEOREM ShowsTheConvolution == ASSUME FilesReadable PROVE FilterSpec => []ShowsConvolution
BY FilterInvariance, InvShows, PTL

\* The matrix class shows the sum of the three bytes of every pixel.
THEOREM MatrixShowsTheSum == ASSUME FilesReadable PROVE FilterSpec => []MatrixShowsSum
BY FilterInvariance, InvMatrix, PTL

\* What is proved of cov in Convolve_proofs holds in the programs as well.
THEOREM CovAsProved ==
  ASSUME FilesReadable
  PROVE  FilterSpec => []UnsetAreTails /\ []ExactUnlessDisturbed /\ []SumOfOwnPoints
                         /\ []VersionsAgree /\ []PlacesCovered
<1>1. FInv => UnsetAreTails /\ SumOfOwnPoints
  BY InvUnset, InvOwn DEF FInv
<1> QED BY <1>1, FilterInvariance, InvCov, PTL
=============================================================================
