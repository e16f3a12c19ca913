# A verification of the CS205 projects: calculator, convolution, matrix class, GEMM

The repository holds the five projects of a C/C++ course (`README.md` of the
repository). This directory models the parts that have logic of their own in
TLA+, checks them with TLC on small instances and proves the central results
with TLAPS for all values of the constants.

Line numbers below are those of the file named; `matmul.c`, `matrix.h`,
`avx2_code.c`, `arm_code.c`, `origin_code.c` and `calculator.c` are the files
in the `src` directories of projects 5, 4, 3, 3, 3 and 1.

## 1. Inventory

| Part | State | Operations | Talks to | What is hard |
|---|---|---|---|---|
| **Parallel GEMM** (5, `matmul.c`) | the buffers A, B, C of the caller, the temporary product `sum`, the accumulators `result` | `matrix_SIMD_final_mul` (four branches), `matrix_SIMD_mul`, `matmul_SIMD_addDotToMatrix`, the vector kernels, `Trans`, the scalar `matrix_easy_mul` and `matrix_mul` | the OpenMP team; its caller `main.c`, which hands the same B to `cblas_dgemm` | two parallel loops separated by a barrier; stores at computed addresses; unsynchronised accumulation; B, a `const` argument, transposed in place; five versions that should agree |
| **Matrix class** (4, `matrix.h`) | shape and `shared_ptr` of every matrix, heap blocks and their use counts | four constructors, destructor, three assignments, 16 arithmetic operators, `mul`, `conv`, `B`/`G`/`R`, `outputImage` | the programs that use it; bitmap files | aliasing by soft copies; results built with one block and pointed to another; size checks; steps that fail half way |
| **Convolution** (3, `avx2_code.c`, `arm_code.c`) | the bytes of the file, the gathered operands p1 and p2, p3, sum, finaldata; the vector variables of `cov` | `initialImage`, `cov` (gather, three vector loops with tails), `WriteBMP` | the OpenMP team; bitmap files | vector variables shared by the threads; tails; uninitialised memory; three layouts of the same picture; a loop that changes its own counter |
| **Scalar convolution** (3, `origin_code.c`) | the same, with nested arrays | `cov`, reader, writer | bitmap files | one running sum for all places, skipped by `continue` |
| **Calculator** (1, `calculator.c`) | numbers: sign, digits, point, exponent; loop counters, carry, remainder | parsing, `cmp`, `calc_add`, `calc_sub`, `calc_mul`, `calc_div`, `print_bignumber` | `main`; the command line | carries and borrows across points at different places; results of the wrong length; mutual calls with changed signs; repeated subtraction counted in a `char`; a function without a return value |
| Benchmarks (2), drivers (5), CNN experiment, image tests (3) | none of interest | – | – | – |
| glibc sources below project 2 | vendored | – | – | – |

What makes each part correct:

* **GEMM**: C is `alpha op(A) op(B) + beta C` after the call, whatever the
  threads do; no cell is written by two threads; the second loop starts from
  the whole product; B is what it was; the call returns; the scalar versions
  give the same. For the loop with the unsynchronised accumulation: what the
  race can and cannot destroy, in the accumulators and in the result.
* **Matrix class**: no leak and no dangling pointer; shape and block agree;
  sharers agree on their shape and type; a statement changes no matrix that does
  not share the changed block.
* **Convolution**: the picture read is the one in the file; every element that
  was computed is the convolution; which elements are not computed; what the
  shared variables can do; the file written shows the result; the program ends.
* **Calculator**: the result is exact; the loops stay in the result; the text
  printed reads back as the result; the program ends.

`PROJECT.json` lists the hazards at their lines, with the properties that
address them.

### What was met while modelling

The `findings` in `PROJECT.json` are disagreements that a run exhibits. Of the
other oddities of the code some are inside the models (the properties then say
when the program is right in spite of them), some outside:

* `5 / 100` prints 50: the quotient 0.050 has more decimals than digits, and
  the printer then sets no point (`Printable` excludes it). `1 / 0.0005` prints
  -560.000: the first digit of the quotient counts 2000 subtractions and is
  stored in a char (`wrapped`). `1 / 100000` asks for a quotient of negative
  length (`undefined`). `0.9 / 0.0005e4` prints nothing: the divisor keeps the
  zeros that were behind its point and so has one digit more than the
  extended dividend, and the quotient gets none (`Lost`; the proof
  of `ResultsExact` met this case, which no argument of the run had shown
  before).
* `judgeSci` has no return statement for a number without exponent; the printer
  branches on what the register of return values held (`leftover`). An
  optimising build prints nothing for `20 + 10`. With an exponent next to
  decimals (`1e3 + 0.5`, `1e3 / 8`) the printed point is wrong in every build.
* `main` of the calculator looks at the operator after both numbers have been
  read, and at `argc` after it has used `argv`. `make_bignumber_fromstr` hands
  the argument itself, not its copy, to `strip_str` (line 135), so that the
  zeros of a large exponent are written behind the string in `argv`. As
  `argv[3]` is read before `argv[1]`, zeros that go on behind `argv[1]` hit
  arguments that were read already, and the number is still right (`Read`).
* The size check of six matrix operators (`matrix.h:245`) compares comparisons:
  an image of three channels plus itself is refused as not matching
  (`Mismatch`). `conv` adds the offset of the channel to coordinates that it
  compares with the size of the image (562), so that only its first channel is
  right; `operator/=` stops at a zero with the elements before it divided (461).
* `WriteBMP` and `outputImage` put the offset 54 in the header, although a
  colour table of 1024 bytes lies between the header and the pixels; `Grey`
  reads the pixels where they were written, behind the table.
* `initialImage` writes behind `real_data` if the file goes on behind the
  picture (phase `overrun`; not in `origin_code.c`), and takes the bytes there
  for padding if they are as many as the rows (`Plain`). No caller notices that
  `fopen` failed, though the comment at `avx2_code.c:60` says that main can tell
  (phase `unopened`).
* `(size + 2 * padding - kernel + 1) / stride` misses the last place if the
  stride does not divide the number of places (`PlacesCovered`).
* The array of pointers at `avx2_code.c:237` is allocated with half of its
  size; `cal_error` uses the integer `abs`; `k - 3` wraps for k < 3
  (`matmul.c:202`). These stay outside the models.

## 2. Modules

Integers stand for doubles and floats throughout: the properties are about
which terms are added where, not about rounding. A step that C or C++ leaves
undefined is either a nondeterministic choice over what the build can do (the
data races, uninitialised memory, the missing return value) or ends the model
(a phase `undefined`, `overrun` or `unopened`; a status `undefined`).
Operators named `...WithoutX`, `...TooShort` and so on, under a comment
"Variant", are plausible wrong versions of a definition, used to see that a
property notices the difference; they are not part of the specifications.

### Parallel GEMM

* `Blas` – what `cblas_dgemm` computes (external to the repository): the
  reference for the products.
* `GemmKernel` – the vector kernels and the index expressions of
  `matrix_SIMD_final_mul`: which branch a call takes, which cells a store
  writes (`SumCells`, `ScaleCell`) and what it writes (`SumValue`,
  `ScaleValue`). `Oneline` is `matmul_SIMD_dotAdd_oneline`, `DotAdd` is
  `matmul_SIMD_dotAdd` with its doubled vector sum and its halved tail, in the
  AVX2 and in the NEON build.
* `OmpGemm` – one call run by a team: `Enter` (transpose B, allocate sum),
  `Take` (dynamic schedule), `StoreSum`/`StoreC` (one store of a thread),
  `EndRows` (barrier), `Leave`. A step is one store. Computing inside a thread
  reads only A, B and its own row, so it is part of the store.
* `DgemmCall` – what the caller may rely on: C changes in one step to the GEMM,
  B never changes, the call returns. `OmpGemm` is shown to implement it under
  the mapping `Abstract` (C and B as the caller can see them: at the return).
* `ScalarGemm` – `matrix_easy_mul` and `matrix_mul` as functions of their call:
  every step of the triple loop adds a product (`term`) to a cell (`at`), in
  each of the four loop nests; `easy_mul` transposes whichever operand does not
  suit it in place, and back.
* `MatmulVersions` – `OmpGemm` next to `ScalarGemm`: the versions agree at the
  end of every parallel call.
* `AddDot` – `matmul_SIMD_addDotToMatrix`, whose loop adds to shared vectors
  without synchronisation. `Load` and `Store` are the two halves of the
  addition; a vector is abstracted to the number of times each product is in
  it. `lost` remembers that a store has overwritten another thread's, `last`
  which iteration stored a vector last.
* `SimdMul` – the branch of `matrix_SIMD_mul` that calls it, composed with
  `AddDot`: what the vectors are worth (`ProductIn`), where they go (`SumAt`),
  and the loop that scales them into C (`Scale`). The other branches of
  `matrix_SIMD_mul` are statement by statement those of
  `matrix_SIMD_final_mul`.
  `Shaped`, assumed of every call, is what the caller's matrices are like:
  dense, row-major, in rows of whole vectors.
* `MCOmpGemm`, `MCSimdMul` – the calls for TLC, on which TLC evaluates the
  assumptions.

### Matrix class

* `MatrixStore` – matrices are handles with a shape and a pointer; `heap` maps
  the allocated blocks to their elements, `uses` is the count in the control
  block of the `shared_ptr`. One action is one statement of a program:
  constructors, destructor, soft copy and soft assignment (same element type),
  hard assignment (other type), arithmetic, `mul`, `conv`, channel extraction.
  `Point` is the only place where a pointer changes and a block is released.
  The elements are computed as the code does, including what is wrong with it:
  `m - this` in `operator-`, the flat `*` and `/`, the sum that `mul` clears
  after a row (line 523), the offset of the channel in the coordinates of
  `conv` (line 562), the size check (`Mismatch`). Expressions with several
  operators are several actions on temporaries.
* `MCMatrixStore` – the programs' types and shapes for TLC.
* What the class makes of a bitmap file, and what it writes, is in `Bitmap`.

### Convolution

* `ConvGather` – the gathered operands p1 and p2 (`P1`, `P2`), position by
  position from the loop counters; `ScalarCov`, the sequential `cov` of
  `origin_code.c` with its one running sum; and, independently, the convolution
  from its definition (`Convolution`).
* `Convolve` – the three parallel loops of `cov`. The vector variables a, b, c,
  aa, bb, cc, m, n are declared outside the loops and so shared: `reg` holds
  them and each thread executes its loop body one statement at a time (`Mul`,
  `Add`, `Acc`), with the static schedule. `EndMul`, `EndAdd` and `Return`
  contain the loops for the cells left over by the vectors. Memory that was
  never written holds `Garbage`, and garbage plus or times anything is garbage.
  `build` tells `avx2_code.c`, which clears cc for each vector of places, from
  `arm_code.c`, which declares it again without a value. `disturbed` remembers,
  for each of the three loops, the vectors for which another thread changed a
  shared variable between the statement that set it and the last one that uses
  it (`InUse`). Other vectors of the same execution are not affected, and
  `ExactUnlessDisturbed` says that they are exact. A compiler that keeps a
  vector variable in a machine register between two statements gives the
  executions in which no other thread runs in between, so both kinds of code
  are covered.
* `Bitmap` – the two kinds of files as functions: where a row begins, what a
  file of 24 bits shows (`Picture`), what one of 8 bits shows (`Grey`); how
  `initialImage` computes the padding (`Gap`), how `WriteBMP` fills up a row
  (`Written`), how the matrix class separates and sums the channels.
* `ImageFilter` – the three programs around `cov`, `avx2_code.c`, `arm_code.c`
  and, with the sequential `cov` in one step, `origin_code.c`: `Open`, one iteration of the loop
  of `initialImage` (`LoadByte`, which moves its own counter at the end of a
  row), `EndLoad`, the threads and the serial part of `cov` (or `CovScalar`),
  `WriteBMP`.
* `Shaped` and `Proper` in `ConvGather` say what `cov` may rely on (sizes, a
  kernel no larger than the padded image, whole rows), `Readable` in
  `ImageFilter` what the program may rely on (a file long enough for the picture
  its header announces). They are the hypotheses of the theorems;
  `MCConvolve`, which holds the files and kernels for TLC, assumes them of every
  file and call of the run, so that TLC evaluates them.

### Calculator

* `BigNumber` – numbers (the worth of a digit is `Power`, a recursive
  function), their parsing (`FromStr`, with the zeros of the
  exponent and the condition `Overrun` under which they go on behind the
  argument), `Cmp`, and what numbers and texts denote.
* `Arithmetic` – the mutual calls of `calc_add` and `calc_sub`, and the loops
  of addition, subtraction and multiplication, a digit a step. `outside`
  remembers a digit written behind the result.
* `Division` – `calc_div`: the zeros appended to the dividend (`AddZero`, with
  the room that `malloc` really gives), the comparison `Bigger`, the
  subtraction in the remainder digit by digit, the digit of the quotient stored
  in a char (`QuotientDigit`; `wrapped` remembers one that did not fit).
* `Printing` – `print_bignumber` as a function from the number, and from what
  the register held, to the text: its digits, points and exponent.
* `Calculator` – `main`: `Read`, the operation, `Return` with the sign an outer
  call patches into the result, `PrintBignumber`, `Usage`.
* `MCCalculator` – the arguments for TLC.

### Shared

* `BufferTheorems` – what the proofs of several components need: addresses in
  buffers that hold a matrix row by row; the sums of functions over finite sets
  that stand for the loops of the program.

## 3. Runs

The passing runs:

| Run | Shows | Instance |
|---|---|---|
| `gemm` | `TypeOK`; `NoSharedStore` (no two threads have a store to the same cell ahead); `ProductBeforeScale` (the whole product is in sum when the second loop starts); `OldOrFinal` (a cell of C changes once, to its final value); `ScalarVersionsAgree`; `Implements` (refinement of `DgemmCall`, with its liveness) | a team of 3, seven calls that cover the four branches and both builds with the vector lengths 4 and 2 and with shapes that are not square where the branch supports them |
| `adddot` | `AtMostOnce` (a product is never counted twice), `ExactUnlessLost` (without an overwritten store the sum is complete), `LastWriterCounts` (whatever is lost, the iteration that stored a vector last is in it, once, and in the result), `ProductUnlessLost` (the same of the C that `matrix_SIMD_mul` returns: exact without a loss, else too small but never empty), `MulReturns` | 3 threads, 3 iterations, 2 vectors, in a row (AVX2) and in a column (NEON): two threads can lose the work of a third, in either vector |
| `matrixstore` | `TypeOK`, `NoLeak`, `ShapeFits`, `AliasesAgree` (sharers have one type and one shape), `OnlyAliasesFollow` (a statement changes no matrix that does not share the block), `FirstColumnAndChannel` (the first column of `mul` is row times column and the first channel of `conv` the convolution) | 3 matrices of one type and one of a wider type, 3 blocks, a row, a column and an image of one pixel, elements of one bit and of three values, two kinds of steps for `conv` |
| `convolve` | reading: `LoadsPicture`; `cov`: `UnsetAreTails`, `ExactUnlessDisturbed` (products and elements are exact while others race, unless another thread changed a variable in use for them), `SumOfOwnPoints`, `VersionsAgree` (those elements are the ones of `origin_code.c`), `PlacesCovered`; writing: `ShowsConvolution` from the file read to the file written, `MatrixShowsSum` for the matrix class on the same bytes; `Finishes` | vectors of 4; one thread on images with padding, strides, two kernels and tails of every kind, rows of 1 to 5 pixels, so that every padding of a row occurs, files with fewer bytes behind the picture than rows and with as many; three builds; two threads with two vectors or more in each racing loop and on a call with tails; `fopen` may fail both times |
| `calculator` | `InBounds`, `PartialResults` (loop invariants of the four loops), `ExactUnlessLost`, `NoBorrowLeft`, `PrintsResult` (the text reads back as the wanted value where printing loses nothing), `Terminates` | base 2, all pairs of 63 arguments (two signs, up to two digits before and after the point, leading zeros, exponents that fit and that do not), four operations and an unknown one |

The runs that end in a violation show where the program does not do what the
repository says of it (`findings` in `PROJECT.json`):

| Run | Property | What happens |
|---|---|---|
| `gemm_shape` | `ResultIsGemm` | a product with inner dimension k ≠ m is wrong; `MCOmpGemm!Unexpected` holds one more call for each of the other reasons (columns beyond the vectors, halved tail, wrong stride, NEON dot product, column-major layout), and each of them alone violates the property as well |
| `gemm_constb` | `BRestored` | the const argument B comes back permuted when k ≠ n |
| `adddot_race` | `Complete` | two threads lose an update |
| `matrixstore_mul` | `MulIsProduct` | a column times a row: an element of `mul` contains the elements to the left of it |
| `convolve_tails` | `IsConvolution` | of the cells left over by the vectors only the first is written; this concerns the last six pixels of the shipped image |
| `calculator_exact` | `DifferenceExact` | in base 10, with whole numbers and hundredths: 0.01 - 1, whose larger operand has fewer decimals, loses its highest digit |
| `calculator_print` | `PrintsProducts` | in base 10, with the decimals and block sizes of the program: 2e1 x 5e1 is printed as 1e2 |

### Bounds

* `Few` (CONSTRAINT of `matrixstore`): states with more than three matrices,
  or more than two when the wide one is among them, are checked but not
  continued. Three matrices of one type are a result and two operands that may
  all be distinct or share; the wide type adds what a second type can disturb,
  the assignments between types.
* `MaxCells` 3: results with more elements are not constructed; `mul`
  multiplies channel counts and could grow without end. Three elements are an
  image of one pixel, a row and a column. In `matrixstore_mul` it is 4, a column
  times a row.
* `Blocks` 3: an action that needs a fourth block is not enabled; a
  block too few could hide no error of counting, because every release makes a
  block available again. The theorems cover every number.
* `Modulus`: the widths are scaled down to values below 2 and 3; what matters
  is that one type is narrower than the other.
* `Base` 2 instead of 10: carries and borrows are as frequent as they can be.
  With it are scaled `Decimals` 1 (for 3), `CharMax` 3 (for 128: a count of
  subtractions wraps at 3), and `Least` 6 and `Granule` 4 (for the blocks of
  `malloc`), so that quotients that fit, that overrun their block and whose
  first digit does not fit in a char all occur.
* `Lanes` 4 in Convolve stands for 8 (AVX2) and 4 (NEON): tails of length 0, 1,
  2 and 3 all occur. `Unit` 5 is one level of grey (in the program a weight of
  0.01, hence 100): sums on both sides of 256 occur.
* `Files`: the pictures are at most 5 x 5 pixels, and the padding bytes hold 9,
  which is not a value of a pixel.
* Deadlock checking is off where a program really ends: the calculator after
  printing, a program with matrices after an undefined step. The parallel
  modules have an explicit stuttering step after the end, so that a team
  that waits for itself would be found.

### Fairness

`OmpGemm`, `SimdMul` and `ImageFilter` assume weak fairness of every thread and
of the serial parts of the calling thread: the operating system runs every
runnable thread again and again, and nothing in these functions waits except
at the barriers. No fairness is assumed of a single action. The calculator is
sequential and waits for nothing, so that weak fairness of its whole next-state
relation says that the program is run; what `Terminates` then shows is that
the mutual calls and the repeated subtraction come to an end. `MatrixStore`
claims no liveness: what its programs do is up to them.

## 4. Proofs

Every safety invariant and every action property of a passing run is a theorem.
The theorems hold for every value of the constants that satisfies the named
assumptions; where a theorem has a hypothesis (`AllSupported`, `ProperCalls`,
`FilesReadable`) TLC evaluates what it says of calls and files on those of the
runs.

* `BufferTheorems` – the lemmas the other proof modules share. A sum of the
  library is a recursive function over the subsets of its index set, chosen by
  `CHOOSE`: `RecursionExists` and `NatRecursionExists` show that such functions
  exist, `SumDef`, `SumPick` and `SumRemove` that sums satisfy their recursion,
  and the rest is what the proofs cite: congruence, addition, scaling,
  monotonicity, disjoint unions, reindexing, shifting, the first and the last
  term. Instead of an induction, which would need a theorem with an operator
  parameter, these facts contradict a smallest counterexample (`LeastNatural`,
  `LeastSet`, `Upward`).

* `OmpGemm_proofs` – `TypeCorrect`, `NoRace`, `BarrierSeparates`, `StoredOnce`,
  `Correct` (the result is the GEMM and B is restored), `VersionsAgree` (so is
  the result of the scalar versions) and `Refinement` (the safety part of
  `DgemmCall`), for every team and every set of calls that are `Supported`,
  which says what a branch needs of the shape of its call. The inductive
  invariant relates every cell of sum to the threads: it is 0 as long as its
  store is ahead of a thread or of the schedule, and the entry of the product
  afterwards; the same for C in the second loop. It is needed because
  `NoSharedStore` alone does not say that an iteration which is not yet handed
  out will not write a cell that is already final. That distinct iterations
  write distinct cells, and that lanes and tails add up to a dot product, are
  lemmas of their own; for the scalar versions, that every step of the triple
  loop adds one term of the sum of one cell.

* `AddDot_proofs` – the three safety properties of the race for every number
  of threads, iterations and vectors, and `SerialIsComplete`: with one thread
  the function is exact. The invariant adds that iterations are distinct, that
  what a thread has loaded contains each product at most once and never its
  own, and that what a thread loaded is still there as long as nothing is lost.
  `LastWriter` follows the last store of each vector: it put the product of its
  iteration there, and nothing has changed the vector since.

* `SimdMul_proofs` – `ProductCorrect`, for every call that satisfies
  `SimdMulAssumption`: `matrix_SIMD_mul` runs `AddDot` (`RunsAddDot`), so that
  the counts proved there hold when the vectors are scaled into C, and a sum in
  which every term is counted once is the entry of the product; one in which
  terms are missing is, for positive matrices, smaller, but not empty.

* `MatrixStore_proofs` – `Storage` (`NoLeak`), `ShapesFit`, `SharersAgree` and
  the action property `SoftCopies` for any number of matrices, element types,
  blocks and shapes. Every statement either points one matrix to a block
  (`Point`) or overwrites one block (`Overwrite`): the invariant is proved once
  for each, from the condition `Sound`, and each action is reduced to one.
  `AliasesAgree` is needed for `ShapeFits`: overwriting a block through one
  name must fit the shape of the others. `FirstOnesRight` is about the values,
  for all shapes and kinds of steps, and by the lemmas it cites for all
  elements: the first column of `mul` is row times column, because the sum was
  cleared just before it (`ColumnAdded`), and the first channel of `conv` is
  the convolution, because the offset in its coordinates is 0 there
  (`FirstChannel`).

* `Convolve_proofs` – `TypeCorrect`, `OnlyTailsUnset`, `Exactness`,
  `OwnSumsOnly`, `ScalarAgrees` and `AllPlacesCovered`, for every call that is
  `Proper`, every team, vector length and interleaving. First, without any
  program: p1 times p2, summed over the points of a place, is the convolution
  there, and the one running sum of `origin_code.c` gives the same
  (`ConvolutionSum`, `PlaceSum`, `ScalarSum`); the chunks of the static schedule
  partition the iterations. The inductive invariant then says: every thread is
  in its chunk (`Chunked`); exactly the elements of the iterations done have
  been written, so that at the end only the tails are unset (`MulWritten`,
  `AddWritten`, `AccWritten`); for every vector that no other thread has
  disturbed, the variables in use hold what the thread working on it has put
  there, and what has been written is exact (`MulExact`, `AddExact`,
  `AccExact`). The three are put together place by place (`PlaceValue`): an
  element is exact if the chain of products, pixels and sums that leads to it
  is undisturbed, whatever has happened to its neighbours. With
  `avx2_code.c` and disturbed sums, the accumulator still holds a sum of
  points of its own place only (`OwnPoints`): in the third loop whatever a
  thread reads from a variable was put there for the same place.

* `ImageFilter_proofs` – `FilterTypes`, `ReadsThePicture`,
  `ShowsTheConvolution`, `MatrixShowsTheSum`, and `CovAsProved` (the theorems
  about `cov` hold inside the programs), for every file that is `Readable`.
  `Loading` gives the counter and `move` at the beginning of an iteration of
  `initialImage` as functions of the number of bytes stored, which is what makes
  the loop that changes its own counter tractable. Until the file is read the
  variables of `cov` are fresh (`Unread`); then the call has the image, is
  `Proper`, and the invariant of `Convolve_proofs` takes over (`Read`).
  `ShowsTheConvolution` is about the pixels of plain files: in the scalar build
  each is the convolution, in the vector builds each that is undisturbed and
  computed by some schedule (not in a tail, on ARM not in a sum without a
  start). The theorems of `Convolve_proofs` are about the two vector builds
  (`ProperCalls` excludes the scalar one, which `ImageFilter_proofs` treats).

* `Calculator_proofs` – for every base, every argument, every number of
  decimals and every allocator, through all four operations, in four stages,
  each an invariant that the next one uses:
  1. `IInv`: numbers stay well formed, the remainder of a division keeps its
     digits (`TypeCorrect`), and the loops of addition, multiplication and
     division stay in the result; of subtraction only if the number subtracted
     has more decimals (`ResultsFit`).
  2. `Sums`, from which `PartialSums` and `BorrowsPaid` follow.
     `PartialResults` is not inductive: the carry of a row of the product must
     be 0 when the next row begins, which holds because the product of two
     numbers is below `Base` to the sum of their lengths; a subtraction
     within a division needs that the remainder was not below the divisor; and
     the borrow of `sub_impl` must be determined by the digits read even when
     a digit of the result is lost, hence the conjunct that keeps difference
     plus borrow in 0 .. `Power[i] - 1`. `BorrowsPaid` also needs that `cmp`
     orders numbers by their worth, whose proof follows the comparison from
     the first digit down.
  3. `Meaning`, from which `ResultsExact` follows: what a, b, the pending sign
     and the operation mean for the number wanted in each phase. `TextMeans`
     says that reading an argument keeps its value, `AddEnd`, `SubEndValue` and
     `MulEnd` what the results of the loops are worth; through the mutual calls
     of `calc_add` and `calc_sub` the meaning is kept by each change of sign.
     A quotient is the integer quotient of the aligned numbers (`Divided`,
     `QuotientMeans`, `ScaledQuotient`); here the proof found the quotient
     without a digit, and `Lost` now names it.
  4. `Shapes`, from which `ResultsShown` follows: which results reach the
     printer with an exponent or with decimals. `ShownWorth` says that the
     digits from the first one not passed over to the last one kept are worth
     the number, once it is known that what is passed over in front and cut off
     at the end is zeros; `PlainReadsBack` and `ScientificReadsBack` do the
     point and the exponent. Like the property, the theorem speaks of builds in
     which `judgeSci` happens to leave 0.

Only model-checked: liveness, which is out of the prover's reach (`MulReturns`,
`Finishes`, `Terminates` and the liveness part of `Implements`), and the
properties of the runs that end in a violation, which are false.

## 5. Plan

1. The arguments behind `Terminates`, `Finishes` and `MulReturns` as far as
   they are not temporal: a measure for each program that every step makes
   smaller.
2. Theorems for the hypotheses under which the properties of the violation runs
   would hold: `Complete` for one thread (`SerialIsComplete` is there),
   `IsConvolution` without tails, `DifferenceExact` for operands with the same
   number of decimals, `MulIsProduct` for a result with one column.

## Not modelled

* `glibc-2.34` below `Project2数组乘法对比/材料`, which is vendored and makes up
  nearly all files and lines of the repository: it is not the repository's
  program, and nothing in it is called by the projects other than as their C
  library. Its share is why only a small part of the repository's lines is
  modelled; of the programs of the projects the models cover nearly every
  function that changes state.
* The timing programs of project 2 and the drivers of project 5: straight-line
  programs that call the functions modelled here, or an elementwise product,
  between two reads of a clock.
* The CNN experiment (a third-party network) and the image tests of project 3.
* `free_image` and `free_kernel` of `origin_code.c`, which free only the
  innermost of the nested arrays before the program ends; the nested arrays
  themselves, whose elements are addressed here as in the flat ones.
* `operator==` and `operator<<` of the matrix class, which change nothing, and
  `main.cpp`, which shows the class; `matrix.cpp` is commented out.
* `valid_len` and `plusone` of the calculator, which nothing calls; the
  printing functions and `cal_error` of `matmul.c`.
* The rounding of doubles and floats.
