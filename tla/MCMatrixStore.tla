--------------------------- MODULE MCMatrixStore ---------------------------
(***************************************************************************)
(* Programs with three matrices of one element type, so that results,      *)
(* operands and aliases can all be different, and one of a wider type.     *)
(***************************************************************************)
EXTENDS MatrixStore, TLC

CONSTANTS a, b, c,    \* the matrices of the narrow type
          d           \* and of the wide one

Sh(row, col, chan) == [row |-> row, col |-> col, chan |-> chan]

MCTypes == {"uchar", "ushort"}
TwoTypes == [h \in {a, b, c} |-> "uchar"] @@ (d :> "ushort")
\* Widths scaled down: what matters is that one type is narrower.
MCModulus == [t \in MCTypes |-> IF t = "uchar" THEN 2 ELSE 3]
\* A vector, and an image of one pixel; a column.
MCShapes == {Sh(1, 2, 1), Sh(1, 1, 3)}
SquareToo == MCShapes \cup {Sh(2, 1, 1)}
\* A column times a row is a square; with the widths of the two types.
RowAndColumn == {Sh(2, 1, 1), Sh(1, 2, 1)}
Widths == [t \in MCTypes |-> IF t = "uchar" THEN 2^8 ELSE 2^16]
MCSteps == {[stride |-> 1, padding |-> 0], [stride |-> 2, padding |-> 1]}
SameType == Permutations({a, b, c})

\* At most three matrices at a time, two when one is of the wide type: no
\* statement is followed in a program that has more (but it is checked).
Few == Cardinality(live) <= IF d \in live THEN 2 ELSE 3
=============================================================================
