------------------------------ MODULE Division ------------------------------
(***************************************************************************)
(* Division of Project1's calculator.c (lines 474-606).  The dividend gets *)
(* zeros for the decimals of the quotient; then, digit by digit, the       *)
(* divisor is subtracted from the remainder as often as it goes, one digit *)
(* of one subtraction a step, and the next digit is brought down.          *)
(***************************************************************************)
EXTENDS Arithmetic

CONSTANTS Decimals,        \* decimal_digits: the decimals of a quotient
          CharMax,         \* a digit is a char: -CharMax .. CharMax - 1
          Least, Granule   \* the allocator hands out Least bytes for the digits, or Granule more, ..

ASSUME DivisionAssumption ==
  Decimals \in Nat /\ CharMax \in Nat \ {0} /\ Least \in Nat /\ Granule \in Nat \ {0}

VARIABLES rem,       \* the remainder: aa and cc, later ccc
          time,      \* the subtractions of the divisor so far: the next digit of the quotient
          wrapped    \* has a count been stored that a char cannot hold?

Char(v) == ((v + CharMax) % (2 * CharMax)) - CharMax

\* The digits that fit in the block malloc returns for a number of len digits.
Room(len) == Least + Granule * ((Max2(len, Least) - Least + Granule - 1) \div Granule)

JudgeZero(n) == \E k \in 0..(n.len - 1) : n.data[k] # 0

\* The digits of n moved up by value places, or down if it is negative.
Moved(n, value) ==
  [k \in 0..(n.len + value - 1) |-> IF k < value THEN 0 ELSE n.data[k - value]]

AddZero(n, value) == [n EXCEPT !.len = @ + value, !.data = Moved(n, value)]

Extension == b.point - a.point + Decimals

\* The digits of the quotient.
QuotientLen == a.len + Extension - b.len + 1

\* The first len digits of n.
Front(n, len) == [k \in 0..(len - 1) |-> n.data[n.len - len + k]]

CalcDiv ==
  /\ phase = "call" /\ op = "/"
  /\ \/ /\ ~JudgeZero(b)
        /\ phase' = "exit"
        /\ UNCHANGED <<a, r, rem>>
     \/ /\ JudgeZero(b) /\ ~JudgeZero(a)
        /\ phase' = "print"
        /\ r' = Temp(1, 0, 0, 0)
        /\ UNCHANGED <<a, rem>>
     \/ /\ JudgeZero(b) /\ JudgeZero(a)
        /\ (Extension > 0 /\ a.len + Extension >= Room(a.len)) \/ QuotientLen < 0
        /\ phase' = "undefined"    \* or exit, if malloc refuses
        /\ UNCHANGED <<a, r, rem>>
     \/ /\ JudgeZero(b) /\ JudgeZero(a)
        /\ Extension > 0 => a.len + Extension < Room(a.len)
        /\ QuotientLen >= 0
        /\ phase' = "div"
        /\ a' = AddZero(a, Extension)
        /\ r' = Temp(QuotientLen, 0, Decimals, 0)
        /\ rem' = IF QuotientLen > 0 THEN Front(a', b.len) ELSE <<>>
  /\ UNCHANGED <<op, b, sign, i, j, carry, outside, time, wrapped>>
-----------------------------------------------------------------------------
\* The remainder has b.len digits at first, then one more; the divisor gets a zero in front.
Digits == IF i = 0 THEN b.len ELSE b.len + 1
Divisor(k) == IF k < b.len THEN b.data[k] ELSE 0

\* bigger(..) >= 0
Bigger ==
  LET differ == {k \in 0..(Digits - 1) : rem[k] # Divisor(k)}
  IN  differ = {} \/ \E k \in differ : /\ \A q \in differ : q <= k
                                       /\ rem[k] > Divisor(k)

Subtract ==
  /\ phase = "div" /\ i < r.len /\ Bigger
  /\ phase' = "divsub" /\ j' = 0 /\ carry' = 0
  /\ UNCHANGED <<op, a, b, sign, r, i, outside, rem, time, wrapped>>

\* sub_impl on the remainder in place.
RemainderDigit ==
  LET total == rem[j] + Base - carry - Divisor(j)
  IN  /\ phase = "divsub"
      /\ rem' = [rem EXCEPT ![j] = total % Base]
      /\ carry' = IF total \div Base # 0 THEN 0 ELSE 1
      /\ \/ j < Digits - 1 /\ j' = j + 1 /\ UNCHANGED <<phase, time>>
         \/ j = Digits - 1 /\ phase' = "div" /\ time' = time + 1 /\ UNCHANGED j
      /\ UNCHANGED <<op, a, b, sign, r, i, outside, wrapped>>

\* Variant: the digit brought down is the one after the next.
QuotientDigitSkipping ==
  /\ phase = "div" /\ i < r.len /\ ~Bigger
  /\ r' = [r EXCEPT !.data[r.len - 1 - i] = Char(time)]
  /\ wrapped' = (wrapped \/ Char(time) # time)
  /\ i' = i + 1 /\ time' = 0
  /\ rem' = IF i + 1 = r.len THEN rem
            ELSE [k \in 0..b.len |-> IF k = 0 THEN a.data[Max2(r.len - 3 - i, 0)] ELSE rem[k - 1]]
  /\ UNCHANGED <<phase, op, a, b, sign, j, carry, outside>>

\* Variant: the count is not reset for the next digit.
QuotientDigitCounting ==
  /\ phase = "div" /\ i < r.len /\ ~Bigger
  /\ r' = [r EXCEPT !.data[r.len - 1 - i] = Char(time)]
  /\ wrapped' = (wrapped \/ Char(time) # time)
  /\ i' = i + 1
  /\ rem' = IF i + 1 = r.len THEN rem
            ELSE [k \in 0..b.len |-> IF k = 0 THEN a.data[r.len - 2 - i] ELSE rem[k - 1]]
  /\ UNCHANGED <<phase, op, a, b, sign, j, carry, outside, time>>

\* The digit of the quotient is stored and the next one of the dividend brought down.
QuotientDigit ==
  /\ phase = "div" /\ i < r.len /\ ~Bigger
  /\ r' = [r EXCEPT !.data[r.len - 1 - i] = Char(time)]
  /\ wrapped' = (wrapped \/ Char(time) # time)
  /\ i' = i + 1 /\ time' = 0
  /\ rem' = IF i + 1 = r.len THEN rem
            ELSE [k \in 0..b.len |-> IF k = 0 THEN a.data[r.len - 2 - i] ELSE rem[k - 1]]
  /\ UNCHANGED <<phase, op, a, b, sign, j, carry, outside>>

DivReturn ==
  /\ phase = "div" /\ i = r.len
  /\ r' = [r EXCEPT !.sign = IF a.sign = b.sign THEN 0 ELSE 1, !.sci = UseSci(a, b)]
  /\ phase' = "print"
  /\ UNCHANGED <<op, a, b, sign, i, j, carry, outside, rem, time, wrapped>>
=============================================================================
