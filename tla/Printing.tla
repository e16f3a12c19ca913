------------------------------ MODULE Printing ------------------------------
(***************************************************************************)
(* print_bignumber of Project1's calculator.c (lines 173-261).  A text is  *)
(* what it puts on the screen: a minus sign, the digits, the places of the *)
(* points among them (each the number of digits before it) and the         *)
(* exponent, 0 if none is printed.                                         *)
(***************************************************************************)
EXTENDS BigNumber

\* Lines 194-203: for a number with a point and an exponent both are changed.
Adjusted(n) ==
  IF n.point = 0 \/ n.sci = 0 THEN n
  ELSE IF n.point > n.sci THEN [n EXCEPT !.point = @ - n.sci, !.sci = 0]
  ELSE [n EXCEPT !.sci = @ - n.point, !.point = 0]

LowZeros(n) == Cardinality({k \in 0..(n.len - 1) : \A q \in 0..k : n.data[q] = 0})

\* judgeSci: it returns no value for a number that has a point or no exponent;
\* the caller then finds what the register of return values held.
JudgeSci(n, leftover) ==
  IF n.sci = 1 /\ n.point = 0 THEN LowZeros(n) ELSE leftover

\* The i-th digit from the highest one, as the loops count.
High(n, i) == n.data[n.len - 1 - i]

\* Digits that the loops pass over: zeros at the front of the first limit.
Passed(n, times, limit) ==
  Cardinality({i \in 0..(times - 1) : i < limit /\ \A q \in 0..i : High(n, q) = 0})

Shown(n, times, passed) ==
  [k \in 1..(IF times > passed THEN times - passed ELSE 0) |-> High(n, passed + k - 1)]

\* The place of the point before digit n.len - n.point, if it is printed.
PointPlace(n, times, passed) ==
  IF n.point # 0 /\ n.len - n.point \in passed..(times - 1) THEN <<n.len - n.point - passed>> ELSE <<>>

\* Variant: leading zeros are passed over up to the last digit.
PlainAllZeros(n) ==
  LET passed == Passed(n, n.len, n.len)
  IN  [neg |-> n.sign = 1 /\ n.len > 0, digits |-> Shown(n, n.len, passed),
       points |-> PointPlace(n, n.len, passed), exp |-> 0]

\* Lines 208-227.
Plain(n) ==
  LET passed == Passed(n, n.len, n.len - n.point - 1)
  IN  [neg |-> n.sign = 1 /\ n.len > 0, digits |-> Shown(n, n.len, passed),
       points |-> PointPlace(n, n.len, passed), exp |-> 0]

(***************************************************************************)
(* Lines 229-260: all digits but the zeros at the end, a point after the   *)
(* second of them, and an exponent that is right if the first one is a     *)
(* zero, or if there are two.                                              *)
(***************************************************************************)
Scientific(n, zeros) ==
  LET times == n.len - zeros
      passed == Passed(n, times, n.len - n.point)
      second == /\ times > 2 /\ passed <= 1
                /\ n.point = 0 \/ n.len - n.point # 1
  IN  [neg |-> n.sign = 1 /\ times > 0, digits |-> Shown(n, times, passed),
       points |-> PointPlace(n, times, passed) \o IF second THEN <<2 - passed>> ELSE <<>>,
       exp |-> IF passed >= times THEN 0 ELSE IF times = 2 THEN zeros ELSE n.len - 2]

Printed(n, leftover) ==
  LET zeros == JudgeSci(n, leftover)
  IN  IF zeros = 0 THEN Plain(n) ELSE Scientific(n, zeros)
-----------------------------------------------------------------------------
\* A text is a number if it has a digit and at most one point.
Readable(text) == text.digits # <<>> /\ Len(text.points) <= 1

\* Its value in units of Base^(-places).
ReadBack(text, places) ==
  LET n == Len(text.digits)
      decimals == IF text.points = <<>> THEN 0 ELSE n - text.points[1]
      whole == SumFunction([q \in 1..n |-> text.digits[q] * Power[n - q]])
  IN  Signed(IF text.neg THEN 1 ELSE 0, whole) * Power[places + text.exp - decimals]
=============================================================================
