----------------------------- MODULE Arithmetic -----------------------------
(***************************************************************************)
(* Addition, subtraction and multiplication of Project1's calculator.c:    *)
(* the dispatch of calc_add and calc_sub on the signs, and the loops over  *)
(* the digits of add_impl, sub_impl and mul_impl, one iteration a step.    *)
(*                                                                         *)
(* A write behind the digits of the result lands in bytes that are not     *)
(* part of the number; "outside" remembers it.                             *)
(***************************************************************************)
EXTENDS BigNumber

None == 2          \* no sign is set by the caller

VARIABLES phase,         \* what the program is doing
          op,            \* the function being called: calc_add, calc_sub, calc_mul or calc_div
          a, b,          \* its arguments
          sign,          \* the sign calc_sub gives to the result of calc_add
          r,             \* the result
          i, j, carry,   \* the variables of the loops (carry: also borrow)
          outside        \* has a digit been written outside r?

Start(loop, result) ==
  /\ phase' = loop
  /\ r' = result
  /\ UNCHANGED <<i, j, carry, outside>>

\* calc_add and calc_sub call each other with the signs changed.
Call(f, m, n, s) ==
  /\ op' = f /\ a' = m /\ b' = n /\ sign' = s
  /\ UNCHANGED <<phase, r, i, j, carry, outside>>

Abs(n) == [n EXCEPT !.sign = 0]

\* Variant: no digit is allocated for the last carry.
CalcAddTooShort ==
  /\ phase = "call" /\ op = "+"
  /\ \/ /\ a.sign = b.sign
        /\ Start("add", Temp(AddTimes(a, b), a.sign, Max2(a.point, b.point), UseSci(a, b)))
        /\ UNCHANGED <<op, a, b, sign>>
     \/ a.sign = 0 /\ b.sign = 1 /\ Call("-", a, Abs(b), sign)
     \/ a.sign = 1 /\ b.sign = 0 /\ Call("-", b, Abs(a), sign)

CalcAdd ==
  /\ phase = "call" /\ op = "+"
  /\ \/ /\ a.sign = b.sign
        /\ Start("add", Temp(AddTimes(a, b) + 1, a.sign, Max2(a.point, b.point), UseSci(a, b)))
        /\ UNCHANGED <<op, a, b, sign>>
     \/ a.sign = 0 /\ b.sign = 1 /\ Call("-", a, Abs(b), sign)
     \/ a.sign = 1 /\ b.sign = 0 /\ Call("-", b, Abs(a), sign)

\* Variant: the numbers are subtracted in the order they are given in.
CalcSubWithoutCmp ==
  /\ phase = "call" /\ op = "-"
  /\ \/ /\ a.sign = 0 /\ b.sign = 0
        /\ Start("sub", Temp(a.len, 0, Max2(a.point, b.point), 0))
        /\ UNCHANGED <<op, a, b, sign>>
     \/ a.sign = 1 /\ b.sign = 1 /\ Call("-", Abs(b), Abs(a), sign)
     \/ a.sign = 0 /\ b.sign = 1 /\ Call("+", a, Abs(b), 0)
     \/ a.sign = 1 /\ b.sign = 0 /\ Call("+", Abs(a), b, 1)

\* Variant: two negative numbers keep their signs when they are swapped.
CalcSubKeepingSigns ==
  /\ phase = "call" /\ op = "-"
  /\ \/ /\ a.sign = 0 /\ b.sign = 0 /\ Cmp(a, b) >= 0
        /\ Start("sub", Temp(a.len, 0, Max2(a.point, b.point), 0))
        /\ UNCHANGED <<op, a, b, sign>>
     \/ /\ a.sign = 0 /\ b.sign = 0 /\ Cmp(a, b) < 0
        /\ Start("sub", Temp(b.len, 1, Max2(a.point, b.point), 0))
        /\ a' = b /\ b' = a
        /\ UNCHANGED <<op, sign>>
     \/ a.sign = 1 /\ b.sign = 1 /\ Call("-", b, a, sign)
     \/ a.sign = 0 /\ b.sign = 1 /\ Call("+", a, Abs(b), 0)
     \/ a.sign = 1 /\ b.sign = 0 /\ Call("+", Abs(a), b, 1)

CalcSub ==
  /\ phase = "call" /\ op = "-"
  /\ \/ /\ a.sign = 0 /\ b.sign = 0 /\ Cmp(a, b) >= 0
        /\ Start("sub", Temp(a.len, 0, Max2(a.point, b.point), 0))
        /\ UNCHANGED <<op, a, b, sign>>
     \/ /\ a.sign = 0 /\ b.sign = 0 /\ Cmp(a, b) < 0
        /\ Start("sub", Temp(b.len, 1, Max2(a.point, b.point), 0))
        /\ a' = b /\ b' = a
        /\ UNCHANGED <<op, sign>>
     \/ a.sign = 1 /\ b.sign = 1 /\ Call("-", Abs(b), Abs(a), sign)
     \/ a.sign = 0 /\ b.sign = 1 /\ Call("+", a, Abs(b), 0)
     \/ a.sign = 1 /\ b.sign = 0 /\ Call("+", Abs(a), b, 1)

CalcMul ==
  /\ phase = "call" /\ op = "x"
  /\ Start("mul", Temp(a.len + b.len, IF a.sign = b.sign THEN 0 ELSE 1, a.point + b.point, UseSci(a, b)))
  /\ UNCHANGED <<op, a, b, sign>>
-----------------------------------------------------------------------------
(***************************************************************************)
(* The loops.  Digit i of the result has place i - r.point.                *)
(***************************************************************************)
At(n, k) == n.point + k - r.point
Has(n, k) == At(n, k) \in 0..(n.len - 1)

\* What the loops of add_impl and sub_impl take as the digit of n at place k.
DigitOf(n, k) == IF Has(n, k) THEN n.data[At(n, k)] ELSE 0

Write(k, d) ==
  /\ r' = IF k < r.len THEN [r EXCEPT !.data[k] = d] ELSE r
  /\ outside' = (outside \/ k >= r.len)

Loop == i' = i + 1 /\ UNCHANGED <<phase, op, a, b, sign, j>>

\* Variant: the carry is not divided by BASE (no line 301).
AddDigitKeepingCarry ==
  LET total == carry + DigitOf(a, i) + DigitOf(b, i)
  IN  /\ phase = "add" /\ i < AddTimes(a, b)
      /\ Write(i, total % Base)
      /\ carry' = total
      /\ Loop

AddDigit ==
  LET times == AddTimes(a, b)
      total == carry + DigitOf(a, i) + DigitOf(b, i)
      last == i = times - 1 /\ total >= Base
  IN  /\ phase = "add" /\ i < times
      /\ r' = [r EXCEPT !.data = [k \in DOMAIN r.data |->
                 IF k = i THEN total % Base ELSE IF last /\ k = times THEN 1 ELSE r.data[k]]]
      /\ outside' = (outside \/ i >= r.len \/ (last /\ times >= r.len))
      /\ carry' = total \div Base
      /\ Loop

SubDigit ==
  LET total == DigitOf(a, i) + Base - carry - DigitOf(b, i)
  IN  /\ phase = "sub" /\ i < AddTimes(a, b)
      /\ Write(i, total % Base)
      /\ carry' = IF total \div Base # 0 THEN 0 ELSE 1
      /\ Loop

\* mul_impl: row i multiplies a by digit i of b; the carry is propagated to
\* the end of the result, and is not reset for the next row.
MulDigit ==
  LET total == carry + (IF j < a.len THEN b.data[i] * a.data[j] ELSE 0) + r.data[i + j]
  IN  /\ phase = "mul" /\ i < b.len /\ i + j < a.len + b.len
      /\ Write(i + j, total % Base)
      /\ carry' = total \div Base
      /\ j' = j + 1
      /\ UNCHANGED <<phase, op, a, b, sign, i>>

MulRow ==
  /\ phase = "mul" /\ i < b.len /\ i + j = a.len + b.len
  /\ i' = i + 1 /\ j' = 0
  /\ UNCHANGED <<phase, op, a, b, sign, r, carry, outside>>
=============================================================================
