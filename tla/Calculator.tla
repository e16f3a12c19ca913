----------------------------- MODULE Calculator -----------------------------
(***************************************************************************)
(* Project1's calculator.c: main reads the arguments, calls the operation  *)
(* and prints the result.                                                  *)
(***************************************************************************)
EXTENDS Division, Printing

CONSTANTS Texts,       \* the arguments considered
          Leftovers    \* what judgeSci may leave in the register of its missing return value

ASSUME TextsAssumption ==
  \A t \in Texts : /\ t \in [sign : {0, 1}, int : Seq(Digit), frac : Seq(Digit), exp : Nat]
                   /\ t.int # <<>>
ASSUME LeftoversAssumption == Leftovers \subseteq Nat

Operations == {"+", "-", "x", "/", "?"}

VARIABLES x, y, op0,   \* the command line
          leftover,    \* what the register held
          text         \* what is printed

loop == <<op, a, b, sign, i, j, carry, outside>>
division == <<rem, time, wrapped>>
output == <<leftover, text>>
command == <<x, y, op0>>
vars == <<phase, loop, r, division, command, output>>

Zero == Temp(0, 0, 0, 0)
Blank == [neg |-> FALSE, digits |-> <<>>, points |-> <<>>, exp |-> 0]

Init ==
  /\ x \in Texts /\ y \in Texts /\ op0 \in Operations
  /\ phase = "read"
  /\ op = op0
  /\ a = Zero /\ b = Zero /\ r = Zero
  /\ sign = None
  /\ i = 0 /\ j = 0 /\ carry = 0
  /\ outside = FALSE
  /\ rem = <<>> /\ time = 0 /\ wrapped = FALSE
  /\ leftover = 0 /\ text = Blank

(***************************************************************************)
(* The second number is read first (line 624), and the operator even       *)
(* before (610-623): zeros that go on behind argv[1] overwrite arguments   *)
(* that were read already, those behind argv[3] what the system has put    *)
(* there.  So the numbers are right if the program survives.               *)
(***************************************************************************)
Read ==
  /\ phase = "read"
  /\ \/ /\ phase' = "call"
        /\ a' = FromStr(x) /\ b' = FromStr(y)
     \/ /\ Overrun(x) \/ Overrun(y)
        /\ phase' = "undefined"
        /\ UNCHANGED <<a, b>>
  /\ UNCHANGED <<op, sign, i, j, carry, outside, r, division, command, output>>

\* The operator is looked at only after both arguments have been read.
Usage ==
  /\ phase = "call" /\ op = "?"
  /\ phase' = "exit"
  /\ UNCHANGED <<loop, r, division, command, output>>

Return ==
  /\ \/ phase \in {"add", "sub"} /\ i = AddTimes(a, b)
     \/ phase = "mul" /\ i = b.len
  /\ phase' = "print"
  /\ r' = IF sign = None THEN r ELSE [r EXCEPT !.sign = sign]
  /\ UNCHANGED <<loop, division, command, output>>

PrintBignumber ==
  /\ phase = "print"
  /\ leftover' \in Leftovers
  /\ r' = Adjusted(r)
  /\ text' = Printed(r', leftover')
  /\ phase' = "end"
  /\ UNCHANGED <<loop, division, command>>

Calculate ==
  /\ CalcAdd \/ CalcSub \/ CalcMul \/ AddDigit \/ SubDigit \/ MulDigit \/ MulRow
  /\ UNCHANGED <<division, command, output>>

Divide ==
  /\ CalcDiv \/ Subtract \/ RemainderDigit \/ QuotientDigit \/ DivReturn
  /\ UNCHANGED <<command, output>>

Next == Read \/ Usage \/ Calculate \/ Divide \/ Return \/ PrintBignumber

\* The program is sequential and waits for nothing.
Spec == Init /\ [][Next]_vars /\ WF_vars(Next)
-----------------------------------------------------------------------------
WellFormed(n) ==
  /\ n = [sign |-> n.sign, len |-> n.len, point |-> n.point, sci |-> n.sci, data |-> n.data]
  /\ n.sign \in {0, 1} /\ n.len \in Nat /\ n.point \in Nat /\ n.sci \in Nat
  /\ n.data \in [0..(n.len - 1) -> Int]

Result(n) == WellFormed(n) /\ n.data \in [0..(n.len - 1) -> Digit]

Number(n) == Result(n) /\ n.point <= n.len

TypeOK ==
  /\ phase \in {"read", "call", "add", "sub", "mul", "div", "divsub", "print", "end", "exit", "undefined"}
  /\ op \in Operations
  /\ Result(a) /\ Number(b) /\ WellFormed(r)
  /\ op # "/" => Number(a) /\ Result(r)
  /\ i \in Nat /\ j \in Nat /\ carry \in Digit
  /\ sign \in {0, 1, None}
  /\ outside \in BOOLEAN /\ wrapped \in BOOLEAN
  /\ time \in Nat
  /\ phase \in {"div", "divsub"} /\ i < r.len => rem \in [0..(Digits - 1) -> Digit]

(***************************************************************************)
(* add_impl and mul_impl never write outside the result that calc_add and  *)
(* calc_mul have allocated, the digit of the last carry included; sub_impl *)
(* only if the number with fewer decimals is the larger one (lines 393 and *)
(* 399 take its length for that of the result).                            *)
(***************************************************************************)
InBounds ==
  outside => op = "-" /\ a.point < b.point

(***************************************************************************)
(* The loops compute what they should digit by digit: the digits written   *)
(* so far and the carry, or the borrow, at their place are the sum,        *)
(* difference or product of the digits read so far; in a division the      *)
(* digits brought down are always quotient times divisor plus remainder.   *)
(***************************************************************************)
Total(n, k) == SumFunction([q \in 0..(k - 1) |-> DigitOf(n, q) * Power[q]])

Remainder == SumFunction([k \in 0..(Digits - 1) |-> rem[k] * Power[k]])
BroughtDown == SumFunction([k \in (r.len - 1 - i)..(a.len - 1) |-> a.data[k] * Power[k - (r.len - 1 - i)]])
QuotientSoFar == SumFunction([k \in (r.len - i)..(r.len - 1) |-> r.data[k] * Power[k - (r.len - i)]])

PartialResults ==
  /\ phase = "div" /\ i < r.len /\ ~wrapped =>
       BroughtDown = (QuotientSoFar * Base + time) * Prefix(b, b.len) + Remainder
  /\ phase = "add" => Total(a, i) + Total(b, i) =
                        Prefix(r, i) + (IF i < AddTimes(a, b) \/ i = 0 THEN carry ELSE r.data[i]) * Power[i]
  /\ phase = "sub" /\ ~outside => Total(a, i) - Total(b, i) = Prefix(r, i) - carry * Power[i]
  /\ phase = "mul" /\ i < b.len =>
       Prefix(r, r.len) + carry * Power[i + j] =
         Prefix(a, a.len) * Prefix(b, i) + b.data[i] * Prefix(a, IF j < a.len THEN j ELSE a.len) * Power[i]

(***************************************************************************)
(* The result of the program is the sum, difference or product of the      *)
(* numbers its arguments denote, or their quotient cut off after Decimals  *)
(* places, exactly, unless a digit was written outside it, a borrow is     *)
(* left, a count did not fit in a char or the quotient has got no digit    *)
(* because of zeros in front of the divisor: reading, the detours of the   *)
(* signs and the alignment of the points included.                         *)
(***************************************************************************)
Places == Len(x.frac) + Len(y.frac) + Decimals

Truncated(v, w) ==
  LET magnitude == (IF v < 0 THEN -v ELSE v) \div (IF w < 0 THEN -w ELSE w)
  IN  IF v * w < 0 THEN -magnitude ELSE magnitude

Wanted ==
  CASE op0 = "+" -> TextValue(x, Places) + TextValue(y, Places)
    [] op0 = "-" -> TextValue(x, Places) - TextValue(y, Places)
    [] op0 = "x" -> TextValue(x, Len(x.frac)) * TextValue(y, Len(y.frac)) * Power[Decimals]
    [] op0 = "/" -> Truncated(TextValue(x, Places) * Power[Decimals], TextValue(y, Places))
                    * Power[Places - Decimals]

Exact == phase = "print" => Value(r, Places) = Wanted

Normal(n) == Integer(n) > 0 => n.data[n.len - 1] # 0

Lost == \/ outside \/ wrapped
        \/ op = "-" /\ carry # 0
        \/ op = "/" /\ r.len = 0 /\ ~Normal(b)

ExactUnlessLost == Lost \/ Exact

(***************************************************************************)
(* A difference of numbers without zeros in front is exact: "compare       *)
(* first, then subtract without sign, the smaller from the larger number"  *)
(* (the comment of calc_sub, line 386).                                    *)
(***************************************************************************)
DifferenceExact == op0 = "-" /\ op = "-" /\ Normal(a) /\ Normal(b) => Exact

(***************************************************************************)
(* cmp never puts the smaller of two numbers first, as long as neither has *)
(* a zero as its first digit before the point: the subtraction leaves no   *)
(* borrow.  (It may call equal numbers different, as 1 and 1.0.)           *)
(***************************************************************************)
NoBorrowLeft ==
  /\ phase = "print" /\ op = "-" /\ Normal(a) /\ Normal(b) => carry = 0
  /\ phase = "div" => carry = 0

(***************************************************************************)
(* Printing loses nothing of a result without an exponent that has no more *)
(* decimals than digits, and of one with an exponent if no argument had    *)
(* decimals and the result is not a power of the base: the text, read      *)
(* back, is the value wanted.  (In a build where judgeSci happens to leave *)
(* 0; with other values of the register the text may be anything.)         *)
(***************************************************************************)
TwoDigitsShown ==
  LET zeros == LowZeros(r)
  IN  zeros = 0 \/ (r.len - zeros >= 2 /\ (High(r, 0) # 0 \/ High(r, 1) # 0))

Printable ==
  /\ r.len > 0 /\ r.point <= r.len
  /\ \/ op = "-" \/ UseSci(a, b) = 0
     \/ op # "/" /\ a.point = 0 /\ b.point = 0 /\ TwoDigitsShown

PrintsWanted == Readable(text) /\ ReadBack(text, Places) = Wanted

PrintsResult ==
  phase = "end" /\ leftover = 0 /\ ~Lost /\ Printable => PrintsWanted

(***************************************************************************)
(* The printed product of two numbers other than zero is their product.    *)
(***************************************************************************)
PrintsProducts ==
  phase = "end" /\ leftover = 0 /\ op0 = "x" /\ Wanted # 0 => PrintsWanted

(***************************************************************************)
(* The program always ends: calc_add and calc_sub do not call each other   *)
(* for ever, and the subtractions of a division come to an end.            *)
(***************************************************************************)
Terminates == <>(phase \in {"end", "exit", "undefined"})
=============================================================================
