----------------------------- MODULE BigNumber ------------------------------
(***************************************************************************)
(* The numbers of Project1's calculator.c.  A number has a sign, len       *)
(* digits data[0], data[1], .. from the lowest one, and point digits after *)
(* the decimal point; sci says whether it is printed with an exponent.     *)
(***************************************************************************)
EXTENDS Integers, Sequences, FiniteSets, Functions

CONSTANT Base      \* BASE, 10 in the code

ASSUME BaseAssumption == Base \in Nat /\ Base >= 2

Digit == 0..(Base - 1)

Max2(x, y) == IF x > y THEN x ELSE y

\* A number of len zeros: make_bignumber_temp.
Temp(len, sign, point, sci) ==
  [sign |-> sign, len |-> len, point |-> point, sci |-> sci, data |-> [k \in 0..(len - 1) |-> 0]]

\* judgeUseSci: a result is printed with an exponent if an argument had one.
UseSci(m, n) == IF m.sci = 0 /\ n.sci = 0 THEN 0 ELSE 1

Integer(n) == n.len - n.point

AddTimes(m, n) == Max2(m.point, n.point) + Max2(Integer(m), Integer(n))

(***************************************************************************)
(* The argument of the program is its sign, the digits before and after    *)
(* the point, and the exponent after e (0: none is written).               *)
(***************************************************************************)
LeadingZeros(s) == Cardinality({k \in 1..Len(s) : \A q \in 1..k : s[q] = 0})

\* Zeros that make_bignumber_fromstr appends for the exponent (lines 150-163).
Appended(t) == IF Len(t.frac) <= t.exp THEN t.exp - Len(t.frac) ELSE 0

\* strip_str and the zeros work on the argument itself (str, line 135), not on
\* the copy strnd.  Behind the digits there are the bytes of the point, of e and
\* of the exponent, written in decimal.
ExponentDigits(t) == Cardinality({k \in 0..t.exp : 10^k <= t.exp})

Spare(t) == (IF t.frac = <<>> THEN 0 ELSE 1) + 1 + ExponentDigits(t)

\* The zeros go on behind the argument.
Overrun(t) == t.exp > 0 /\ Appended(t) > Spare(t)

FromStr(t) ==
  LET digits == t.int \o t.frac
      zeros == Appended(t)
      len == Len(digits) - LeadingZeros(t.int) + zeros
  IN  [sign |-> t.sign,
       len |-> len,
       point |-> IF Len(t.frac) <= t.exp THEN 0 ELSE Len(t.frac) - t.exp,
       sci |-> zeros,
       data |-> [k \in 0..(len - 1) |-> IF k < zeros THEN 0 ELSE digits[Len(digits) - (k - zeros)]]]

(***************************************************************************)
(* cmp: the number with more digits before the point is the larger one,    *)
(* then the first digit that differs decides, then the number of digits.   *)
(***************************************************************************)
Differ(m, n) ==
  {k \in 1..AddTimes(m, n) : \/ k > m.len \/ k > n.len
                             \/ m.data[m.len - k] # n.data[n.len - k]}

First(s) == CHOOSE k \in s : \A q \in s : k <= q

CmpMagnitude(m, n) ==
  IF Integer(m) # Integer(n) THEN IF Integer(m) > Integer(n) THEN 1 ELSE -1
  ELSE IF Differ(m, n) = {} THEN 0
  ELSE LET k == First(Differ(m, n))
       IN  IF k > m.len THEN -1
           ELSE IF k > n.len THEN 1
           ELSE IF m.data[m.len - k] > n.data[n.len - k] THEN 1 ELSE -1

Cmp(m, n) ==
  IF m.sign # n.sign THEN IF m.sign = 0 THEN 1 ELSE -1
  ELSE IF m.sign = 1 THEN -CmpMagnitude(m, n) ELSE CmpMagnitude(m, n)
-----------------------------------------------------------------------------
(***************************************************************************)
(* What the numbers mean, in units of Base^(-places).                      *)
(***************************************************************************)
\* Base^k, the weight of a digit k places before the lowest one.
Power[k \in Nat] == IF k = 0 THEN 1 ELSE Base * Power[k - 1]

Signed(sign, v) == IF sign = 1 THEN -v ELSE v

\* The value of the first k digits of n.
Prefix(n, k) == SumFunction([q \in 0..(k - 1) |-> n.data[q] * Power[q]])

Magnitude(n, places) == Prefix(n, n.len) * Power[places - n.point]
Value(n, places) == Signed(n.sign, Magnitude(n, places))

TextValue(t, places) ==
  LET digits == t.int \o t.frac
  IN  Signed(t.sign, SumFunction([q \in 1..Len(digits) |-> digits[q] * Power[Len(digits) - q]])
                     * Power[places + t.exp - Len(t.frac)])
=============================================================================
