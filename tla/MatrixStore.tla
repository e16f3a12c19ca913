----------------------------- MODULE MatrixStore -----------------------------
(***************************************************************************)
(* The matrices of Project4's matrix.h and the storage they share.         *)
(*                                                                         *)
(* A matrix object (a handle) has a shape and a shared_ptr to a block of   *)
(* elements.  Copying and assigning a matrix of the same element type      *)
(* shares the block ("softcopy"), assigning one of another type copies the *)
(* elements ("hardcopy"), the compound operators change the block in       *)
(* place, the other operators return a new matrix.  A statement of a       *)
(* program is one action; an expression with several operators is several  *)
(* actions on temporaries, which are handles like the others.              *)
(*                                                                         *)
(* Elements are unsigned integers of the width of their type.  A step that *)
(* the language leaves undefined (an access outside a block, an integer    *)
(* division by zero, a NULL file) ends the model: status "undefined".      *)
(***************************************************************************)
EXTENDS Integers, FiniteSets, Functions

CONSTANTS Handles,    \* named matrices and temporaries
          Types,      \* element types
          Type,       \* the element type each handle is declared with
          Modulus,    \* 2^w for an element type of w bits
          Blocks,     \* addresses of heap blocks
          Null,       \* the null pointer
          Shapes,     \* shapes given to the constructors
          Values,     \* constants of the program
          Steps,      \* strides and paddings of conv: records [stride, padding]
          MaxCells    \* bound: larger results are not considered

ASSUME StoreAssumption ==
  /\ Type \in [Handles -> Types]
  /\ Modulus \in [Types -> Nat \ {0}]
  /\ Null \notin Blocks
  /\ IsFiniteSet(Handles)
  /\ Shapes \subseteq [row : Nat, col : Nat, chan : Nat]
  /\ Steps \subseteq [stride : Nat \ {0}, padding : Nat]

VARIABLES live,       \* the handles in scope
          shape,      \* row, col and channel of a handle
          ptr,        \* its block
          uses,       \* the use count of a block's shared_ptr control block
          heap,       \* the elements of the allocated blocks
          status      \* "running" or "undefined"

vars == <<live, shape, ptr, uses, heap, status>>

NoShape == [row |-> 0, col |-> 0, chan |-> 0]
Area(s) == s.row * s.col
Len(s) == s.row * s.col * s.chan
Cells(s) == 0..(Len(s) - 1)

Init ==
  /\ live = {}
  /\ shape = [h \in Handles |-> NoShape]
  /\ ptr = [h \in Handles |-> Null]
  /\ uses = [b \in Blocks |-> 0]
  /\ heap = [b \in {} |-> <<>>]
  /\ status = "running"

Data(h) == heap[ptr[h]]

\* Conversion of a value to the element type of handle h.
Fit(h, v) == v % Modulus[Type[h]]

(***************************************************************************)
(* Storage.  Point is every change of a shared_ptr: handle h gets shape s  *)
(* and block b of the heap hp; a block nobody uses any more is deleted.    *)
(***************************************************************************)
Count(p) == IF p THEN 1 ELSE 0

\* Variant: the block h pointed to before is not released.
PointWithoutRelease(h, s, b, hp) ==
  /\ shape' = [shape EXCEPT ![h] = s]
  /\ ptr' = [ptr EXCEPT ![h] = b]
  /\ uses' = [c \in Blocks |-> uses[c] + Count(c = b)]
  /\ heap' = [c \in {x \in DOMAIN hp : uses'[x] > 0} |-> hp[c]]
  /\ UNCHANGED status

\* Variant: it is released by the assignment and again by its owner.
PointReleasingTwice(h, s, b, hp) ==
  /\ shape' = [shape EXCEPT ![h] = s]
  /\ ptr' = [ptr EXCEPT ![h] = b]
  /\ uses' = [c \in Blocks |-> uses[c] + Count(c = b) - 2 * Count(c = ptr[h])]
  /\ heap' = [c \in {x \in DOMAIN hp : uses'[x] > 0} |-> hp[c]]
  /\ UNCHANGED status

Point(h, s, b, hp) ==
  /\ shape' = [shape EXCEPT ![h] = s]
  /\ ptr' = [ptr EXCEPT ![h] = b]
  /\ uses' = [c \in Blocks |-> uses[c] + Count(c = b) - Count(c = ptr[h])]
  /\ heap' = [c \in {x \in DOMAIN hp : uses'[x] > 0} |-> hp[c]]
  /\ UNCHANGED status

Available == Blocks \ DOMAIN heap
FreshBlock == CHOOSE b \in Available : TRUE
WithBlock(f) ==
  [b \in DOMAIN heap \cup {FreshBlock} |-> IF b = FreshBlock THEN f ELSE heap[b]]

\* A new matrix r of shape s whose elements are f.
Create(r, s, f) ==
  /\ Available # {} /\ Area(s) <= MaxCells /\ Len(s) <= MaxCells
  /\ live' = live \cup {r}
  /\ Point(r, s, FreshBlock, WithBlock(f))

\* A new matrix r that shares the block of h.
Share(r, h) ==
  /\ live' = live \cup {r}
  /\ Point(r, shape[h], ptr[h], heap)

Overwrite(h, f) ==
  /\ heap' = IF ptr[h] = Null THEN heap ELSE [heap EXCEPT ![ptr[h]] = f]
  /\ UNCHANGED <<live, shape, ptr, uses, status>>

Undefined == status' = "undefined" /\ UNCHANGED <<live, shape, ptr, uses, heap>>

New(r) == status = "running" /\ r \notin live
Live(h) == status = "running" /\ h \in live
-----------------------------------------------------------------------------
(***************************************************************************)
(* Constructors, destructor and assignment (lines 84-218).                 *)
(***************************************************************************)
ConstructDefault(r) ==
  /\ New(r)
  /\ live' = live \cup {r}
  /\ Point(r, NoShape, Null, heap)

ConstructFilled(r, s, v) ==
  /\ New(r) /\ s \in Shapes
  /\ Create(r, s, [i \in Cells(s) |-> Fit(r, v)])

\* The pixels of the file are any elements; after a failed fopen the
\* constructor goes on with the NULL file.
ConstructFromFile(r, s, v) ==
  /\ New(r) /\ s \in Shapes /\ s.chan = 3
  /\ \/ Create(r, s, [i \in Cells(s) |-> Fit(r, v + i \div Area(s))])
     \/ Undefined

CopyConstruct(r, h) ==
  /\ New(r) /\ Live(h) /\ Type[r] = Type[h]
  /\ Share(r, h)

Destroy(h) ==
  /\ Live(h)
  /\ live' = live \ {h}
  /\ Point(h, NoShape, Null, heap)

\* Variant: sharing across element types.
AssignSoftAnyType(h, g) ==
  /\ Live(h) /\ Live(g)
  /\ Point(h, shape[g], ptr[g], heap)
  /\ UNCHANGED live

AssignSoft(h, g) ==
  /\ Live(h) /\ Live(g) /\ Type[h] = Type[g]
  /\ Point(h, shape[g], ptr[g], heap)
  /\ UNCHANGED live

\* Variant: the new block has the size from before the assignment.
AssignHardOldSize(h, g) ==
  /\ Live(h) /\ Live(g) /\ Type[h] # Type[g] /\ Available # {}
  /\ Point(h, shape[g], FreshBlock,
           WithBlock([i \in Cells(shape[h]) \cap Cells(shape[g]) |-> Fit(h, Data(g)[i])]))
  /\ UNCHANGED live

AssignHard(h, g) ==
  /\ Live(h) /\ Live(g) /\ Type[h] # Type[g] /\ Available # {}
  /\ Point(h, shape[g], FreshBlock,
           WithBlock([i \in Cells(shape[g]) |-> Fit(h, Data(g)[i])]))
  /\ UNCHANGED live

AssignValue(h, v) ==
  /\ Live(h)
  /\ Overwrite(h, [i \in Cells(shape[h]) |-> Fit(h, v)])
-----------------------------------------------------------------------------
(***************************************************************************)
(* Arithmetic (lines 239-487).                                             *)
(***************************************************************************)
Apply(op, x, y) == CASE op = "+" -> x + y
                     [] op = "-" -> x - y
                     [] op = "*" -> x * y
                     [] op = "/" -> x \div y

(***************************************************************************)
(* The size check of +, -, +=, -=, *= and /=:                              *)
(*   row != m.row || col != m.col != channel != m.channel                  *)
(* != associates to the left and a comparison is 0 or 1.                   *)
(***************************************************************************)
Mismatch(s, m) ==
  s.row # m.row \/ Count(Count(s.col # m.col) # s.chan) # m.chan

\* The size check of * and /, which do not look at the channels.
FlatMismatch(s, m) == s.row # m.row \/ s.col # m.col

\* r = h op g, for + and -: every element is g's op h's.
Combine(op, r, h, g) ==
  LET s == shape[h]
  IN  /\ op \in {"+", "-"}
      /\ New(r) /\ Live(h) /\ Live(g) /\ Type[r] = Type[h]
      /\ \/ /\ Mismatch(s, shape[g])
            /\ Create(r, s, [i \in Cells(s) |-> 0])
         \/ /\ ~Mismatch(s, shape[g]) /\ Len(s) <= Len(shape[g])
            /\ Create(r, s, [i \in Cells(s) |-> Fit(r, Apply(op, Data(g)[i], Data(h)[i]))])
         \/ /\ ~Mismatch(s, shape[g]) /\ Len(s) > Len(shape[g])
            /\ Undefined

\* r = h op g, for * and /: only the first channel is computed.
CombineFlat(op, r, h, g) ==
  LET s == shape[h]
      Crash == \/ Len(s) < Area(s) \/ Len(shape[g]) < Area(s)
               \/ op = "/" /\ \E i \in Cells(s) : i < Area(s) /\ Data(h)[i] = 0
  IN  /\ op \in {"*", "/"}
      /\ New(r) /\ Live(h) /\ Live(g) /\ Type[r] = Type[h]
      /\ \/ /\ FlatMismatch(s, shape[g])
            /\ Create(r, s, [i \in Cells(s) |-> 0])
         \/ /\ ~FlatMismatch(s, shape[g]) /\ ~Crash
            /\ Create(r, s, [i \in Cells(s) |->
                               IF i < Area(s) THEN Fit(r, Apply(op, Data(g)[i], Data(h)[i])) ELSE 0])
         \/ /\ ~FlatMismatch(s, shape[g]) /\ Crash
            /\ Undefined

\* Variant: the result is a soft copy, computed in place.
CombineValueInPlace(op, r, h, v) ==
  LET s == shape[h]
  IN  /\ New(r) /\ Live(h) /\ Type[r] = Type[h] /\ ptr[h] # Null
      /\ op = "/" => v # 0
      /\ live' = live \cup {r}
      /\ Point(r, s, ptr[h], [heap EXCEPT ![ptr[h]] =
                                [i \in Cells(s) |-> Fit(r, Apply(op, Data(h)[i], v))]])

\* r = h op v
CombineValue(op, r, h, v) ==
  LET s == shape[h]
  IN  /\ New(r) /\ Live(h) /\ Type[r] = Type[h]
      /\ \/ /\ ~(op = "/" /\ v = 0 /\ Len(s) > 0)
            /\ Create(r, s, [i \in Cells(s) |-> Fit(r, Apply(op, Data(h)[i], v))])
         \/ /\ op = "/" /\ v = 0 /\ Len(s) > 0
            /\ Undefined

\* h op= g.  Division stops at the first zero, keeping what it has divided.
Zeros(g, s) == {i \in Cells(s) : i < Len(shape[g]) /\ Data(g)[i] = 0}

Update(op, h, g) ==
  LET s == shape[h]
      stopped == op = "/" /\ Zeros(g, s) # {}
      Before(i) == stopped => \A z \in Zeros(g, s) : i < z
  IN  /\ Live(h) /\ Live(g)
      /\ \/ /\ Mismatch(s, shape[g])
            /\ UNCHANGED vars
         \/ /\ ~Mismatch(s, shape[g]) /\ (stopped \/ Len(s) <= Len(shape[g]))
            /\ Overwrite(h, [i \in Cells(s) |->
                               IF Before(i) THEN Fit(h, Apply(op, Data(h)[i], Data(g)[i]))
                                            ELSE Data(h)[i]])
         \/ /\ ~Mismatch(s, shape[g]) /\ ~stopped /\ Len(s) > Len(shape[g])
            /\ Undefined

\* h op= v
UpdateValue(op, h, v) ==
  /\ Live(h)
  /\ IF op = "/" /\ v = 0
     THEN UNCHANGED vars
     ELSE Overwrite(h, [i \in Cells(shape[h]) |-> Fit(h, Apply(op, Data(h)[i], v))])
-----------------------------------------------------------------------------
(***************************************************************************)
(* mul, conv and the channels (lines 490-623).                             *)
(***************************************************************************)

\* The element a program reads at (channel, row, column) of a matrix.
At(f, s, c, y, x) == f[c * Area(s) + y * s.col + x]

(***************************************************************************)
(* mul: sum is cleared after a row (line 523), not after an element, so an *)
(* element is the sum of the products of its row with all columns up to    *)
(* its own.                                                                *)
(***************************************************************************)
MulShape(s, m) == [row |-> s.row, col |-> m.col, chan |-> s.chan * m.chan]

\* Variant: the elements of the row of the second matrix are taken, not its column.
MulElementRowwise(f, s, g, m, i) ==
  LET t == MulShape(s, m)
      first  == i \div (m.chan * Area(t))
      second == (i \div Area(t)) % m.chan
      y == (i % Area(t)) \div t.col
      x == i % t.col
  IN  SumFunction([js \in (0..x) \X (0..(s.col - 1)) |->
                     At(f, s, first, y, js[2]) * At(g, m, second, 0, js[1])])

MulElement(f, s, g, m, i) ==
  LET t == MulShape(s, m)
      first  == i \div (m.chan * Area(t))
      second == (i \div Area(t)) % m.chan
      y == (i % Area(t)) \div t.col
      x == i % t.col
  IN  SumFunction([js \in (0..x) \X (0..(s.col - 1)) |->
                     At(f, s, first, y, js[2]) * At(g, m, second, js[2], js[1])])

Mul(r, h, g) ==
  LET s == shape[h]
      m == shape[g]
      t == MulShape(s, m)
  IN  /\ New(r) /\ Live(h) /\ Live(g) /\ Type[r] = Type[h]
      /\ \/ /\ s.col # m.row
            /\ Create(r, t, [i \in Cells(t) |-> 0])
         \/ /\ s.col = m.row
            /\ Create(r, t, [i \in Cells(t) |-> Fit(r, MulElement(Data(h), s, Data(g), m, i))])

(***************************************************************************)
(* conv: the channel offset k * row * col is part of the coordinates that  *)
(* are compared with the size of the image (lines 562-567), and the kernel *)
(* is always read in its first channel.                                    *)
(***************************************************************************)
ConvShape(s, m, step) ==
  [row |-> (s.row + 2 * step.padding - m.row + 1) \div step.stride,
   col |-> (s.col + 2 * step.padding - m.col + 1) \div step.stride,
   chan |-> s.chan]

ConvElement(f, s, g, m, step, i) ==
  LET t == ConvShape(s, m, step)
      k == i \div Area(t)
      Y(ii) == k * Area(s) - step.padding + step.stride * ((i % Area(t)) \div t.col) + ii
      X(jj) == k * Area(s) - step.padding + step.stride * (i % t.col) + jj
  IN  SumFunction([ij \in (0..(m.row - 1)) \X (0..(m.col - 1)) |->
        IF Y(ij[1]) \in 0..(s.row - 1) /\ X(ij[2]) \in 0..(s.col - 1)
        THEN At(f, s, k, Y(ij[1]), X(ij[2])) * g[ij[2] + ij[1] * m.col] ELSE 0])

\* Variant: the result keeps the block it was constructed with (no line 549).
ConvIntoFirstBlock(r, h, g, step) ==
  LET s == shape[h]
      m == shape[g]
      t == ConvShape(s, m, step)
      one == [row |-> 1, col |-> 1, chan |-> s.chan]
  IN  /\ New(r) /\ Live(h) /\ Live(g) /\ Type[r] = Type[h] /\ Type[h] = Type[g]
      /\ s.row >= m.row /\ s.col >= m.col /\ s.chan = m.chan
      /\ Create(r, t, [i \in Cells(one) |-> 0])

Conv(r, h, g, step) ==
  LET s == shape[h]
      m == shape[g]
      t == ConvShape(s, m, step)
      one == [row |-> 1, col |-> 1, chan |-> s.chan]
  IN  /\ New(r) /\ Live(h) /\ Live(g) /\ Type[r] = Type[h] /\ Type[h] = Type[g]
      /\ \/ /\ s.row < m.row \/ s.col < m.col
            /\ Create(r, one, [i \in Cells(one) |-> 0])
         \/ /\ s.row >= m.row /\ s.col >= m.col /\ s.chan # m.chan
            /\ Create(r, one, [i \in Cells(one) |-> 0])
         \/ /\ s.row >= m.row /\ s.col >= m.col /\ s.chan = m.chan
            /\ Create(r, t, [i \in Cells(t) |-> Fit(r, ConvElement(Data(h), s, Data(g), m, step, i))])

\* B, G and R: channel c of an image; of anything else, a soft copy.
Channel(c, r, h) ==
  LET t == [shape[h] EXCEPT !.chan = 1]
  IN  /\ New(r) /\ Live(h) /\ Type[r] = Type[h]
      /\ \/ /\ shape[h].chan # 3
            /\ Share(r, h)
         \/ /\ shape[h].chan = 3
            /\ Create(r, t, [i \in Cells(t) |-> Data(h)[i + c * Area(t)]])
-----------------------------------------------------------------------------
Operators == {"+", "-", "*", "/"}

Next ==
  \/ \E r \in Handles :
       \/ ConstructDefault(r) \/ Destroy(r)
       \/ \E s \in Shapes, v \in Values : ConstructFilled(r, s, v) \/ ConstructFromFile(r, s, v)
  \/ \E h, g \in Handles : CopyConstruct(h, g) \/ AssignSoft(h, g) \/ AssignHard(h, g)
  \/ \E h \in Handles, v \in Values :
       \/ AssignValue(h, v)
       \/ \E op \in Operators : UpdateValue(op, h, v) \/ \E r \in Handles : CombineValue(op, r, h, v)
  \/ \E h, g \in Handles, op \in Operators :
       \/ Update(op, h, g)
       \/ \E r \in Handles : Combine(op, r, h, g) \/ CombineFlat(op, r, h, g)
  \/ \E r, h, g \in Handles : Mul(r, h, g) \/ \E step \in Steps : Conv(r, h, g, step)
  \/ \E r, h \in Handles, c \in 0..2 : Channel(c, r, h)

Spec == Init /\ [][Next]_vars
-----------------------------------------------------------------------------
TypeOK ==
  /\ live \subseteq Handles
  /\ shape \in [Handles -> [row : Nat, col : Nat, chan : Nat]]
  /\ ptr \in [Handles -> Blocks \cup {Null}]
  /\ uses \in [Blocks -> Nat]
  /\ DOMAIN heap \subseteq Blocks
  /\ status \in {"running", "undefined"}

Owners(b) == {h \in live : ptr[h] = b}

(***************************************************************************)
(* The use count of a block is the number of matrices in scope that point  *)
(* to it, a block is allocated as long as there is one, and a matrix out   *)
(* of scope points nowhere: nothing leaks and nothing dangles (README.md:6 *)
(* calls this the significant part of the project).                        *)
(***************************************************************************)
NoLeak ==
  /\ \A b \in Blocks : uses[b] = Cardinality(Owners(b))
  /\ DOMAIN heap = {b \in Blocks : Owners(b) # {}}
  /\ \A h \in Handles \ live : ptr[h] = Null

(***************************************************************************)
(* row * col * channel of a matrix is the length of its block, also after  *)
(* mul and conv, which set the shape and the pointer one after another     *)
(* (lines 502-527 and 546-549): the loops over a matrix stay in its block. *)
(***************************************************************************)
ShapeFits ==
  \A h \in live : IF ptr[h] = Null THEN Len(shape[h]) = 0 ELSE DOMAIN Data(h) = Cells(shape[h])

(***************************************************************************)
(* Matrices that share a block agree on its shape and its element type:    *)
(* a change through one of them is a change of the other as a matrix.      *)
(***************************************************************************)
AliasesAgree ==
  \A g, h \in live : ptr[g] = ptr[h] /\ ptr[h] # Null => shape[g] = shape[h] /\ Type[g] = Type[h]

\* The definitions of a product and of a convolution, at element i of the result.
Product(f, s, g, m, i) ==
  LET t == MulShape(s, m)
  IN  SumFunction([k \in 0..(s.col - 1) |->
        At(f, s, i \div (m.chan * Area(t)), (i % Area(t)) \div t.col, k)
          * At(g, m, (i \div Area(t)) % m.chan, k, i % t.col)])

Padded(f, s, y, x) ==
  IF y \in 0..(s.row - 1) /\ x \in 0..(s.col - 1) THEN f[y * s.col + x] ELSE 0

Convolved(f, s, g, m, step, i) ==
  LET t == ConvShape(s, m, step)
  IN  SumFunction([p \in Cells(m) |-> IF p >= Area(m) THEN 0
        ELSE g[p] * Padded(f, s, step.stride * (i \div t.col) + (p \div m.col) - step.padding,
                                 step.stride * (i % t.col) + (p % m.col) - step.padding)])

(***************************************************************************)
(* Where mul and conv are right, for matrices of the shapes a program gets *)
(* to: in the first column of a product and in the first channel of a      *)
(* convolution.  In the other columns the sum that is cleared too late     *)
(* (line 523), in the other channels the offset in the coordinates         *)
(* (line 562) makes the results others.  (Both are bilinear, so that       *)
(* matrices of different elements stand for all.)                          *)
(***************************************************************************)
Sample(s) == [i \in Cells(s) |-> i + 1]
Squares(s) == [i \in Cells(s) |-> (i + 1) * (i + 1)]

FirstColumnAndChannel ==
  \A s, m \in {shape[z] : z \in {q \in live : Len(shape[q]) > 0}} :
    LET f == Sample(s)
        g == Squares(m)
    IN  /\ s.col = m.row =>
             \A i \in Cells(MulShape(s, m)) :
               i % m.col = 0 => MulElement(f, s, g, m, i) = Product(f, s, g, m, i)
        /\ s.row >= m.row /\ s.col >= m.col =>
             \A step \in Steps : \A i \in 0..(Area(ConvShape(s, m, step)) - 1) :
               ConvElement(f, s, g, m, step, i) = Convolved(f, s, g, m, step, i)

\* What a program sees of a matrix.
View(h) == <<shape[h], IF ptr[h] = Null THEN <<>> ELSE heap[ptr[h]]>>

(***************************************************************************)
(* A statement that makes a new matrix changes no other one, although its  *)
(* result may be built from soft copies, and two matrices change in one    *)
(* statement only if they share their block.                               *)
(***************************************************************************)
Changed == {h \in live \cap live' : View(h)' # View(h)}

OnlyAliasesFollow ==
  [][/\ live' \ live # {} => Changed = {}
     /\ \A g, h \in Changed : ptr[g] = ptr[h]]_vars

(***************************************************************************)
(* An element of h.mul(g) is row i of h times column j of g, as the        *)
(* comment at line 516 says of the loop that adds it up.                   *)
(***************************************************************************)
MulIsProduct ==
  [][\A r, h, g \in Handles :
       Mul(r, h, g) /\ shape[h].col = shape[g].row =>
         \A i \in Cells(shape'[r]) :
           Data(r)'[i] = Fit(r, Product(Data(h), shape[h], Data(g), shape[g], i))]_vars
=============================================================================
